------------------------------ MODULE MCInserts ------------------------------
(***************************************************************************)
(* The bulk inserts of a table, for any blocks (BulkInsert), and those of  *)
(* the genesis file into all tables (Genesis), on small instances.  They   *)
(* share no state; a behaviour is one of them.                             *)
(***************************************************************************)
EXTENDS Genesis, BulkInsert

CONSTANTS s1, s2, p1, a1, a2, g1, v1, v2,
          BusyFirstBlock   \* whether the first block has a transaction

VARIABLE
  work   \* what the behaviour is about: "table" or "genesis"

\* A new network or an exported one, or a mix of both; everything listed, with two
\* applications that delegate to one gateway, or nothing but validators.
FewFiles ==
    {[service |-> IF full THEN <<s2, s1>> ELSE <<>>, supplier |-> IF full THEN <<p1>> ELSE <<>>,
      app |-> IF full THEN <<a1, a2>> ELSE <<>>, gateway |-> IF full THEN <<g1>> ELSE <<>>,
      delegatees |-> [a \in {a1, a2} |-> {g1}],
      genTxs |-> genTxs, staking |-> staking,
      status |-> [v \in {v1, v2} |-> IF v = v1 THEN "Staked" ELSE "Unstaking"],
      transaction |-> BusyFirstBlock]
     : full \in BOOLEAN, genTxs \in {<<>>, <<v2>>, <<v1, v2>>}, staking \in {<<>>, <<v1>>, <<v2, v1>>}}

InsertsInit ==
    /\ work \in {"table", "genesis"}
    /\ Init /\ (work = "table" => file = CHOOSE some \in Files : TRUE)
    /\ TableInit

InsertsNext ==
    /\ \/ work = "table" /\ TableNext /\ UNCHANGED vars
       \/ work = "genesis" /\ Next /\ UNCHANGED tableVars
    /\ UNCHANGED work

InsertsSpec == InsertsInit /\ [][InsertsNext]_<<vars, tableVars, work>>
=============================================================================
