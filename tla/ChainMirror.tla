---------------------------- MODULE ChainMirror ----------------------------
(***************************************************************************)
(* What an index of the chain promises to its readers, with none of the    *)
(* machinery: the chain appends one state per block, and the index holds   *)
(* an exact, append-only copy of a prefix of it.  Whatever happens inside  *)
(* the indexer (attempts that fail, rows left behind by them, blocks       *)
(* indexed a second time) is a stuttering step here.                       *)
(***************************************************************************)
EXTENDS Naturals, Sequences

CONSTANT States    \* the states one block can leave behind

VARIABLES chain,   \* chain[h]: the state after block h
          indexed  \* indexed[h]: the state a reader is told for height h

vars == <<chain, indexed>>

Init == chain = <<>> /\ indexed = <<>>

\* The chain finalizes one more block; finalized blocks never change.
Produce == /\ \E s \in States : chain' = Append(chain, s)
           /\ UNCHANGED indexed

\* The next block becomes visible to readers, all of it in one step.
Index == /\ Len(indexed) < Len(chain)
         /\ indexed' = Append(indexed, chain[Len(indexed) + 1])
         /\ UNCHANGED chain

Next == Produce \/ Index

Spec == Init /\ [][Next]_vars
=============================================================================
