-------------------------------- MODULE Wire --------------------------------
(***************************************************************************)
(* The code of the generated clients (src/src/client), once for all        *)
(* messages: what ts_proto writes for a field depends on its constructor   *)
(* in Schema only.  The lines named for this module are those of one codec *)
(* that shows the case.                                                    *)
(*                                                                         *)
(* A message in memory is a function from the names of its fields to       *)
(* sequences: of one element for a field that is set, of none for          *)
(* undefined, of any number for a list or an object.  An element is a      *)
(* number (a string, bytes and a boolean too, 0 being the default) or a    *)
(* message.  A message on the wire is the sequence of its occurrences:     *)
(* number, wire type and value.                                            *)
(***************************************************************************)
EXTENDS Schema, Integers, Sequences

LOCAL INSTANCE SequencesExt

base == INSTANCE BaseTypes

CONSTANTS
  MaxSafe,       \* Number.MAX_SAFE_INTEGER
  MsPerSecond,   \* 1000
  NanosPerMs     \* 1000000

ASSUME WireAssumption == MaxSafe \in Nat /\ MsPerSecond \in Nat \ {0} /\ NanosPerMs \in Nat \ {0}

Names(fs) == {fs[i].name : i \in DOMAIN fs}

FieldOf(fs, name) == fs[CHOOSE i \in DOMAIN fs : fs[i].name = name]

\* createBase*.
Base(fs) == [n \in Names(fs) |-> IF FieldOf(fs, n).occurs = "plain" THEN <<0>> ELSE <<>>]

Wide(f) == f.kind \in {"int64", "uint64", "sfixed64"}

WireType(f) ==
  CASE f.kind \in {"bool", "int32", "uint32", "int64", "uint64", "enum"} -> 0
    [] f.kind \in {"double", "sfixed64"} -> 1
    [] f.kind = "float" -> 5
    [] OTHER -> 2

TagType(f) == IF f.occurs = "packed" THEN 2 ELSE WireType(f)

-----------------------------------------------------------------------------
(* Dates.                                                                  *)

toTimestamp(date) ==
  [seconds |-> <<date \div MsPerSecond>>, nanos |-> <<(date % MsPerSecond) * NanosPerMs>>]

fromTimestamp(t) == t.seconds[1] * MsPerSecond + t.nanos[1] \div NanosPerMs

\* The node keeps nanoseconds.
NodeTimestamp(nanos) ==
  [seconds |-> <<nanos \div (MsPerSecond * NanosPerMs)>>,
   nanos |-> <<nanos % (MsPerSecond * NanosPerMs)>>]

-----------------------------------------------------------------------------
(* encode.  The client writes fields in the order of the codec and lists of*)
(* numbers packed.  A node is a program of its own: it may send numbers    *)
(* one by one ("unpacked"), fields in another order ("reordered"), and,    *)
(* running a later version, fields this client does not know ("newer"),    *)
(* as it does for the eight messages whose .proto under src/proto has more *)
(* fields than the client.                                                 *)

Unknown == [i \in 1..4 |-> [num |-> 1000 + i, wt |-> <<0, 1, 2, 5>>[i], val |-> i]]

\* What is written of a field: nothing when it has its default value.
Written(f, m) ==
  IF f.occurs = "plain" THEN SelectSeq(m[f.name], LAMBDA v : v # 0) ELSE m[f.name]

RECURSIVE Encode(_, _, _)
Payload(by, f, v) ==
  CASE f.kind = "message" -> Encode(by, f.of, v)
    [] f.kind = "timestamp" ->
         Encode(by, base!Timestamp, IF by = "client" THEN toTimestamp(v) ELSE NodeTimestamp(v))
    [] f.kind = "box" -> Encode(by, f.of, [value |-> <<v>>])
    [] OTHER -> v

Occurrences(by, f, m) ==
  LET vs == Written(f, m)
  IN  IF f.occurs = "packed" /\ by # "unpacked"
      THEN <<[num |-> f.num, wt |-> 2, val |-> vs]>>
      ELSE [i \in DOMAIN vs |-> [num |-> f.num, wt |-> WireType(f), val |-> Payload(by, f, vs[i])]]

Encode(by, fs, m) ==
  LET order == IF by = "reordered" THEN Reverse(fs) ELSE fs
      known == FlattenSeq([i \in DOMAIN order |-> Occurrences(by, order[i], m)])
  IN  IF by = "newer" THEN Unknown \o known \o Unknown ELSE known

-----------------------------------------------------------------------------
(* decode.  The result is a message, or the exception that a number        *)
(* outside of JavaScript's integers raises.                                *)

longToNumber(n) == [ok |-> n <= MaxSafe /\ n >= -MaxSafe, val |-> n]

\* The case of the switch that takes occurrence x.
Takes(f, x) == f.num = x.num /\ (x.wt = TagType(f) \/ (f.occurs = "packed" /\ x.wt = WireType(f)))

\* A field that is set: lists grow, a key of an object is set, unless its
\* value is missing, and otherwise the last occurrence stays.
Put(f, old, vs) ==
  CASE f.occurs \in {"repeated", "packed"} -> old \o vs
    [] f.occurs = "map" ->
         IF vs[1].value = <<>> THEN old
         ELSE Append(SelectSeq(old, LAMBDA o : o.key # vs[1].key), vs[1])
    [] OTHER -> vs

\* Mutant: the loop stops at what it does not know.
SkipNothing(s, x) == [s EXCEPT !.ended = TRUE]

\* An occurrence no case takes is skipped, unless it ends a group.
Skip(s, x) == [s EXCEPT !.ended = (x.wt = 4)]

RECURSIVE Decode(_, _)
Value(f, v) ==
  CASE Wide(f) -> longToNumber(v)
    [] f.kind = "message" -> Decode(f.of, v)
    [] f.kind = "timestamp" ->
         LET t == Decode(base!Timestamp, v)
         IN  [ok |-> t.ok, val |-> IF t.ok THEN fromTimestamp(t.val) ELSE 0]
    [] f.kind = "box" ->
         LET b == Decode(f.of, v) IN [ok |-> b.ok, val |-> b.val.value[1]]
    [] OTHER -> [ok |-> TRUE, val |-> v]

Decode(fs, wire) ==
  LET Read(s, x) ==
        LET takers == {i \in DOMAIN fs : Takes(fs[i], x)}
        IN  IF ~s.ok \/ s.ended THEN s
            ELSE IF takers = {} THEN Skip(s, x)
            ELSE LET f == fs[CHOOSE i \in takers : TRUE]
                     vs == IF f.occurs = "packed" /\ x.wt = 2
                           THEN [i \in DOMAIN x.val |-> Value(f, x.val[i])]
                           ELSE <<Value(f, x.val)>>
                 IN  IF \A i \in DOMAIN vs : vs[i].ok
                     THEN [s EXCEPT !.val[f.name] = Put(f, @, [i \in DOMAIN vs |-> vs[i].val])]
                     ELSE [s EXCEPT !.ok = FALSE]
      end == FoldLeft(Read, [ok |-> TRUE, ended |-> FALSE, val |-> Base(fs)], wire)
  IN  [ok |-> end.ok, val |-> end.val]

-----------------------------------------------------------------------------
(* toJSON and fromJSON.  Objects have camelCase keys (style "camel"), or   *)
(* the snake_case keys of the .proto files, as a node's JSON has; a few    *)
(* fields have one key only.                                               *)

KeyOf(style, f) == IF f.key = "both" THEN style ELSE f.key

EnumToJSON(names, v) ==
  IF \E n \in DOMAIN names : names[n] = v THEN CHOOSE n \in DOMAIN names : names[n] = v
  ELSE "UNRECOGNIZED"

EnumFromJSON(names, n) == IF n \in DOMAIN names THEN names[n] ELSE -1

\* Mutant: optional fields are omitted at their default, as the others are.
DefinedNonZero(f, m) == IF f.kind = "message" THEN m[f.name] # <<>>
                        ELSE SelectSeq(m[f.name], LAMBDA v : v # 0) # <<>>

\* The fields that are set in the JSON: those that have not their default
\* value, and of lists and objects those that are not empty.
Defined(f, m) == Written(f, m) # <<>>

RECURSIVE ToJSON(_, _, _)
ToJSON(style, fs, m) ==
  LET shown(key) == {i \in DOMAIN fs : KeyOf(style, fs[i]) = key /\ Defined(fs[i], m)}
      Elem(f, v) == CASE f.kind = "message" -> ToJSON(style, f.of, v)
                      [] f.kind = "enum" -> EnumToJSON(f.of, v)
                      [] OTHER -> v
      Keys(key) == [n \in {fs[i].name : i \in shown(key)} |->
                      [j \in DOMAIN m[n] |-> Elem(FieldOf(fs, n), m[n][j])]]
  IN  [camel |-> Keys("camel"), snake |-> Keys("snake")]

RECURSIVE FromJSON(_, _)
FromJSON(fs, o) ==
  LET Elem(f, v) == CASE f.kind = "message" -> FromJSON(f.of, v)
                      [] f.kind = "enum" -> EnumFromJSON(f.of, v)
                      [] OTHER -> v
      Read(f, key) == [j \in DOMAIN o[key][f.name] |-> Elem(f, o[key][f.name][j])]
  IN  [n \in Names(fs) |->
         LET f == FieldOf(fs, n)
         IN  IF f.key # "snake" /\ n \in DOMAIN o.camel THEN Read(f, "camel")
             ELSE IF f.key # "camel" /\ n \in DOMAIN o.snake THEN Read(f, "snake")
             ELSE Base(fs)[n]]

-----------------------------------------------------------------------------
\* fromPartial: what is not given has its default value.
RECURSIVE FromPartial(_, _)
FromPartial(fs, partial) ==
  [n \in Names(fs) |->
     LET f == FieldOf(fs, n)
     IN  IF n \notin DOMAIN partial THEN Base(fs)[n]
         ELSE IF f.kind = "message"
              THEN [j \in DOMAIN partial[n] |-> FromPartial(f.of, partial[n][j])]
              ELSE partial[n]]
=============================================================================
