----------------------------- MODULE MCBalances -----------------------------
(* Small instances of Balances for TLC. *)
EXTENDS Balances

\* One user starts with coins, any other starts with nothing.
OneRichUser == LET rich == CHOOSE u \in Users : TRUE
               IN  [u \in Users |-> IF u = rich THEN 1 ELSE 0]
=============================================================================
