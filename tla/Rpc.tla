--------------------------------- MODULE Rpc ---------------------------------
(***************************************************************************)
(* What the indexer reads of a node through the generated clients: single  *)
(* messages, and the lists of validators and applications, page by page at *)
(* the height of the block that is indexed (mappings/utils/query_client.ts)*)
(* while the chain goes on and requests fail.                              *)
(***************************************************************************)
EXTENDS Wire, FiniteSets

LOCAL INSTANCE FiniteSetsExt
LOCAL INSTANCE SequencesExt

staking == INSTANCE CosmosStaking
app == INSTANCE PocketStaking

CONSTANTS
  Catalogue,   \* package -> name -> fields: the messages that are read
  Depth,       \* embedded messages are filled in to this depth
  Items,       \* operators and application addresses, numbers above 0
  Limit,       \* DEFAULT_PAGE_LIMIT
  MaxHeight,   \* bound on the heights of the chain
  MaxFailures  \* bound on the requests that fail

ASSUME RpcAssumption ==
  /\ Depth \in Nat /\ Items \subseteq Nat \ {0} /\ IsFiniteSet(Items)
  /\ Limit \in Nat \ {0} /\ MaxHeight \in Nat \ {0} /\ MaxFailures \in Nat

VARIABLES
  members,   \* members[h]: the validators (applications) on chain at height h
  call       \* the request the client is at

rpcVars == <<members, call>>

Servers == {"node", "newer", "unpacked", "reordered"}

-----------------------------------------------------------------------------
(* The messages a node sends: one field set, or all of them (i = 0), to    *)
(* the default ("zero"), to values, to lists of two, and to the extremes:  *)
(* numbers that are not integers in JavaScript, names the enumeration has  *)
(* not yet, dates between two milliseconds.                                *)

Extents == {"zero", "one", "two", "most"}

Scalar(f, e) ==
  CASE e = "zero" -> 0
    [] e = "one" -> IF f.kind = "timestamp" THEN MsPerSecond * NanosPerMs ELSE 1
    [] f.kind = "bool" -> 1
    [] f.kind = "timestamp" -> IF e = "two" THEN NanosPerMs ELSE (MsPerSecond + 1) * NanosPerMs + 1
    [] e = "most" /\ Wide(f) -> MaxSafe + 1
    [] e = "most" /\ f.kind = "enum" -> 1000
    [] OTHER -> 2

RECURSIVE Filled(_, _, _)
Elements(f, e, d) ==
  LET Elem(x) == CASE f.kind = "message" -> IF d = 0 /\ f.occurs # "map" THEN Base(f.of)
                                            ELSE Filled(f.of, x, IF d = 0 THEN 0 ELSE d - 1)
                   [] f.kind = "box" -> Scalar(f.of[1], x)
                   [] OTHER -> Scalar(f, x)
  IN  IF f.occurs \in {"repeated", "packed", "map"} /\ e \in {"two", "most"}
      THEN <<Elem("one"), Elem(e)>>
      ELSE <<Elem(e)>>

Filled(fs, e, d) == [n \in Names(fs) |-> Elements(FieldOf(fs, n), e, d)]

Sent(fs, i, e) ==
  IF i = 0 THEN Filled(fs, e, Depth)
  ELSE [Base(fs) EXCEPT ![fs[i].name] = Elements(fs[i], e, Depth)]

-----------------------------------------------------------------------------
(* A message: the answer to a request, or one that a transaction carries.  *)

Nothing == [kind |-> "none"]

Receive(p, t, fs, i, e, by) ==
  /\ call = Nothing
  /\ call' = [kind |-> "message", package |-> p, type |-> t, fields |-> fs,
              field |-> i, extent |-> e,
              got |-> Decode(fs, Encode(by, fs, Sent(fs, i, e)))]
  /\ UNCHANGED members

-----------------------------------------------------------------------------
(* The lists.                                                              *)

Queries ==
  [Validators |->
     [rpc |-> staking!QueryValidators, list |-> "validators", id |-> "operatorAddress"],
   AllApplications |->
     [rpc |-> app!QueryAllApplications, list |-> "applications", id |-> "address"]]

\* The node, at the height it is asked for: a page of items, beginning with
\* the key, and the key of the next.
Page(query, shown, next) ==
  [Base(query.rpc.response) EXCEPT
     ![query.list] = [j \in DOMAIN shown |->
        [Base(FieldOf(query.rpc.response, query.list).of) EXCEPT ![query.id] = <<shown[j]>>]],
     !.pagination = <<[Base(base!PageResponse) EXCEPT !.nextKey = <<next>>]>>]

PageOf(query, page, from) ==
  LET n == Min({page.limit[1], Len(from)})
  IN  Page(query, SubSeq(from, 1, n), IF Len(from) > n THEN from[n + 1] ELSE 0)

AnswerTo(query, height, page) ==
  PageOf(query, page, SetToSortSeq({m \in members[height] : m >= page.key[1]}, <))

Answer(query, height, bytes) ==
  AnswerTo(query, height, Decode(query.rpc.request, bytes).val.pagination[1])

PageRequest(query, key) ==
  FromPartial(query.rpc.request, [pagination |-> <<[key |-> <<key>>, limit |-> <<Limit>>]>>])

\* Mutant: the requests do not name a height, as those of the injected client.
LatestHeight(height) == Len(members)

\* createProtobufRpcClient.
QueryHeight(height) == height

Ask(q) ==
  /\ call = Nothing
  /\ call' = [kind |-> "list", query |-> Queries[q], height |-> Len(members), failures |-> 0,
              key |-> 0, items |-> <<>>, state |-> "asking"]
  /\ UNCHANGED members

\* What the loop does with an answer.
Collected(query, found, nextKey) ==
  [call EXCEPT !.items = @ \o [j \in DOMAIN found |-> found[j][query.id][1]],
               !.key = nextKey,
               !.state = IF nextKey # 0 THEN "asking" ELSE "done"]

Taken(query, response) ==
  Collected(query, response[query.list],
            IF response.pagination = <<>> THEN 0 ELSE response.pagination[1].nextKey[1])

\* One turn of the loop of allValidators and allApplications.
ReadPage(by) ==
  /\ call.kind = "list" /\ call.state = "asking"
  /\ LET query == call.query
         request == Encode("client", query.rpc.request, PageRequest(query, call.key))
         answer == Answer(query, QueryHeight(call.height), request)
     IN  call' = Taken(query, Decode(query.rpc.response, Encode(by, query.rpc.response, answer)).val)
  /\ UNCHANGED members

\* A request fails: what was read is lost, and read again at the same height
\* when the block is tried again.
RequestFails ==
  /\ call.kind = "list" /\ call.state = "asking" /\ call.failures < MaxFailures
  /\ call' = [call EXCEPT !.failures = @ + 1, !.key = 0, !.items = <<>>]
  /\ UNCHANGED members

\* The chain commits another block.
ChainMoves ==
  /\ call.kind = "list" /\ call.state = "asking" /\ Len(members) < MaxHeight
  /\ \E s \in SUBSET Items : members' = Append(members, s)
  /\ UNCHANGED call

-----------------------------------------------------------------------------
RpcInit ==
  /\ \E s \in SUBSET Items : members = <<s>>
  /\ call = Nothing

ReceiveAny ==
  \E p \in DOMAIN Catalogue : \E t \in DOMAIN Catalogue[p] :
    \E i \in 0..Len(Catalogue[p][t]), e \in Extents, by \in Servers :
      Receive(p, t, Catalogue[p][t], i, e, by)

ListNext ==
  \/ \E q \in DOMAIN Queries : Ask(q)
  \/ \E by \in Servers : ReadPage(by)
  \/ RequestFails
  \/ ChainMoves

-----------------------------------------------------------------------------
(* Properties.                                                             *)

\* A number that JavaScript has no integer for, anywhere in the message.
RECURSIVE TooLarge(_, _)
TooLarge(fs, m) ==
  \E n \in Names(fs) : \E j \in DOMAIN m[n] :
    LET f == FieldOf(fs, n)
    IN  CASE f.kind = "message" -> TooLarge(f.of, m[n][j])
          [] f.kind = "box" -> Wide(f.of[1]) /\ m[n][j] > MaxSafe
          [] OTHER -> Wide(f) /\ m[n][j] > MaxSafe

\* The message with its dates in milliseconds.
RECURSIVE InMilliseconds(_, _)
InMilliseconds(fs, m) ==
  [n \in Names(fs) |->
     LET f == FieldOf(fs, n)
     IN  [j \in DOMAIN m[n] |->
            CASE f.kind = "message" -> InMilliseconds(f.of, m[n][j])
              [] f.kind = "timestamp" -> m[n][j] \div NanosPerMs
              [] OTHER -> m[n][j]]]

\* The message with the names that its enumerations have not.
RECURSIVE Recognized(_, _)
Recognized(fs, m) ==
  [n \in Names(fs) |->
     LET f == FieldOf(fs, n)
     IN  [j \in DOMAIN m[n] |->
            CASE f.kind = "message" -> Recognized(f.of, m[n][j])
              [] f.kind = "enum" -> IF \E x \in DOMAIN f.of : f.of[x] = m[n][j] THEN m[n][j] ELSE -1
              [] OTHER -> m[n][j]]]

\* What is read of a message is what the node sent, in whatever order and
\* form and with whatever else it sent it; a number that would lose digits
\* is an error and never another number.
ReadAsSent ==
  call.kind = "message" =>
    LET fs == call.fields
        sent == Sent(fs, call.field, call.extent)
    IN  IF TooLarge(fs, sent) THEN ~call.got.ok
        ELSE call.got = [ok |-> TRUE, val |-> InMilliseconds(fs, sent)]

\* A message that was read survives being written and read again, and being
\* turned into JSON and back, whichever keys the JSON has, but for the names
\* of enumerations that are not known.
MessagesSurvive ==
  call.kind = "message" /\ call.got.ok =>
    LET fs == call.fields
        m == call.got.val
    IN  /\ Decode(fs, Encode("client", fs, m)).val = m
        /\ \A style \in {"camel", "snake"} :
             FromJSON(fs, ToJSON(style, fs, m)) = Recognized(fs, m)

\* The list read for a block is the list at its height, each item once,
\* although the chain moved on between two pages and requests failed.
ListedAtHeight ==
  call.kind = "list" /\ call.state = "done" =>
    call.items = SetToSortSeq(members[call.height], <)
=============================================================================
