---------------------------- MODULE MCSettlement ----------------------------
(* A small instance of Settlement for TLC. *)
EXTENDS Settlement

Work(relays, claimed, paid, inflation) ==
    [relays |-> relays, claimed |-> claimed, settled |-> paid, inflation |-> inflation]

\* Claims paid in full, an odd amount in part, and one that is worth nothing.
FewWorks == {Work(2, 2, 2, 1), Work(1, 4, 3, 0), Work(0, 1, 0, 0)}

Reward(id, opType, recipient, reason, amount) ==
    [id |-> id, opType |-> opType, recipient |-> recipient, reason |-> reason, amount |-> amount]

\* Two rewards of one validator, and a transfer of the batch that is none.
FewRewards == {Reward(1, "mod_to_acct", "val", "validator", 1),
               Reward(2, "mod_to_acct", "val", "validator", 1),
               Reward(3, "mod_to_acct", "dao", "other", 1)}
=============================================================================
