------------------------------- MODULE Schema -------------------------------
(***************************************************************************)
(* What the generated clients under src/src/client know of a message: the  *)
(* fields of its codec, each with its number, its name, the kind of its    *)
(* values and how it occurs.  ts_proto writes the same code for every      *)
(* field of a sort, so a codec (createBase, encode, decode, fromJSON,      *)
(* toJSON and fromPartial of one message) is the sequence of its fields,   *)
(* built with the constructors below; the modules BaseTypes, Comet*,       *)
(* Cosmos* and Pocket* hold one such sequence for each message, the two of *)
(* a call together as its request and its response, and module Wire the    *)
(* code.                                                                   *)
(***************************************************************************)

(***************************************************************************)
(* occurs: "plain"    written unless it has the default value of its kind  *)
(*         "optional" written unless undefined                             *)
(*         "repeated" a list, one occurrence for each element              *)
(*         "packed"   a list of numbers, all in one occurrence             *)
(*         "map"      an object, one entry message for each key            *)
(* of:     the fields of a message, the numbers of an enumeration's names  *)
(* key:    the names JSON has for it: camelCase and snake_case, or one     *)
(***************************************************************************)
Field(n, name, kind, occurs, of) ==
  [num |-> n, name |-> name, kind |-> kind, occurs |-> occurs, of |-> of, key |-> "both"]

Str(n, name) == Field(n, name, "string", "plain", <<>>)
Byt(n, name) == Field(n, name, "bytes", "plain", <<>>)
Bln(n, name) == Field(n, name, "bool", "plain", <<>>)
I32(n, name) == Field(n, name, "int32", "plain", <<>>)
U32(n, name) == Field(n, name, "uint32", "plain", <<>>)
I64(n, name) == Field(n, name, "int64", "plain", <<>>)
U64(n, name) == Field(n, name, "uint64", "plain", <<>>)
Sfx(n, name) == Field(n, name, "sfixed64", "plain", <<>>)
Dbl(n, name) == Field(n, name, "double", "plain", <<>>)
Flt(n, name) == Field(n, name, "float", "plain", <<>>)
Enm(n, name, names) == Field(n, name, "enum", "plain", names)

\* Embedded messages, dates and boxed numbers are undefined when absent.
Msg(n, name, fields) == Field(n, name, "message", "optional", fields)
Time(n, name) == Field(n, name, "timestamp", "optional", <<>>)
Box(n, name, fields) == Field(n, name, "box", "optional", fields)

Opt(f) == [f EXCEPT !.occurs = "optional"]
Many(f) == [f EXCEPT !.occurs = "repeated"]
Packed(f) == [f EXCEPT !.occurs = "packed"]
Entries(f) == [f EXCEPT !.occurs = "map"]

CamelKey(f) == [f EXCEPT !.key = "camel"]
SnakeKey(f) == [f EXCEPT !.key = "snake"]
=============================================================================
