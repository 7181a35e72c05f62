-------------------------- MODULE SuppliersProofs --------------------------
(***************************************************************************)
(* Proofs about Suppliers, for any suppliers and services, any number of   *)
(* messages and events in a block and any number of failed attempts.       *)
(***************************************************************************)
EXTENDS Suppliers, FiniteSetTheorems, SequenceTheorems, TLAPS

-----------------------------------------------------------------------------
(* Types *)

Stakes == (1..MaxStake) \cup {None}

StakeDatum == [kind : {"stake"}, supplier : Suppliers, stake : Stakes,
               services : (SUBSET Services) \ {{}}]
ClaimDatum == [kind : {"claim"}, supplier : Suppliers, stake : 1..MaxStake,
               services : (SUBSET Services) \ {{}}]
SlashDatum == [kind : {"slashed"}, supplier : Suppliers, penalty : {1}, after : (0..MaxStake) \cup {None}]
PlainDatum == [kind : {"unstake", "unbondingBegin", "activated", "unbondingEnd"}, supplier : Suppliers]

TxDatum == StakeDatum \cup ClaimDatum \cup {d \in PlainDatum : d.kind \in {"unstake", "unbondingBegin"}}
EndDatum == SlashDatum \cup {d \in PlainDatum : d.kind \in {"activated", "unbondingBegin", "unbondingEnd"}}
AnyDatum == TxDatum \cup EndDatum

Ids == [suppliers : SUBSET Suppliers, services : SUBSET (Suppliers \X Services)]

TypeInv ==
    /\ TypeOK
    /\ txData \in Seq(TxDatum) /\ finalizedData \in Seq(EndDatum)
    /\ toClose \in Ids
    /\ dropped \in [suppliers : SUBSET SupplierRow, services : SUBSET ServiceRow]
    /\ pc # "chain" \/ txData # <<>> \/ finalizedData # <<>> => height < MaxHeight

\* The data of a block: those of its transactions, then those of its end.
LEMMA DataAre ==
    ASSUME NEW tx \in Seq(TxDatum), NEW fin \in Seq(EndDatum)
    PROVE  /\ tx \o fin \in Seq(AnyDatum)
           /\ Len(tx) \in Nat /\ Len(fin) \in Nat
           /\ Len(tx \o fin) = Len(tx) + Len(fin)
           /\ DOMAIN (tx \o fin) = 1..Len(tx \o fin)
           /\ DOMAIN tx = 1..Len(tx) /\ DOMAIN fin = 1..Len(fin)
           /\ \A i \in 1..Len(tx) : (tx \o fin)[i] = tx[i]
           /\ \A i \in (Len(tx) + 1)..(Len(tx) + Len(fin)) : (tx \o fin)[i] = fin[i - Len(tx)]
<1>1. tx \in Seq(AnyDatum) /\ fin \in Seq(AnyDatum)
  BY DEF AnyDatum
<1>2. tx \o fin \in Seq(AnyDatum)
  BY <1>1, ConcatProperties
<1> QED
  BY <1>1, <1>2, LenProperties, ConcatProperties

LEMMA DatumFields ==
    ASSUME NEW d \in AnyDatum
    PROVE  /\ d.supplier \in Suppliers
           /\ d.kind \in {"stake", "claim"} => d.services \in (SUBSET Services) \ {{}}
           /\ d.kind = "stake" => d.stake \in Stakes
           /\ d.kind = "claim" => d.stake \in 1..MaxStake
           /\ d.kind = "slashed" => d.penalty = 1 /\ d.after \in (0..MaxStake) \cup {None}
           /\ d.kind \in {"stake", "claim", "slashed", "unstake", "unbondingBegin", "activated",
                          "unbondingEnd"}
           /\ d \in TxDatum => d.kind \in {"stake", "claim", "unstake", "unbondingBegin"}
           /\ d \in EndDatum => d.kind \in {"slashed", "activated", "unbondingBegin", "unbondingEnd"}
BY DEF AnyDatum, TxDatum, EndDatum, StakeDatum, ClaimDatum, SlashDatum, PlainDatum

-----------------------------------------------------------------------------
(* Operations of the chain and what their data say *)

Gone == [stake |-> 0, status |-> "Unstaked"]

\* The row of a supplier of the chain.
RowOf(c) ==
    IF c = None THEN Gone
    ELSE [stake |-> c.stake, status |-> IF c.unbonding = "voluntary" THEN "Unstaking" ELSE "Staked"]

\* The row after a datum about its supplier.
After(row, d) ==
    IF d.kind = "stake"
    THEN [stake |-> IF d.stake # None THEN d.stake ELSE row.stake, status |-> "Staked"]
    ELSE IF d.kind = "claim" THEN [stake |-> d.stake + row.stake, status |-> "Staked"]
    ELSE IF d.kind = "unstake" THEN [stake |-> row.stake, status |-> "Unstaking"]
    ELSE IF d.kind = "slashed"
    THEN [stake |-> IF d.after # None THEN d.after ELSE row.stake - d.penalty, status |-> row.status]
    ELSE IF d.kind = "unbondingEnd" THEN Gone
    ELSE row

\* The four ways an operation treats the services of its supplier.
Offers(p, to, d) ==
    /\ d.kind \in {"stake", "claim"} /\ d \in TxDatum
    /\ Restakes \/ ~InBlock("activated", p)
    /\ to # None /\ to.services = d.services /\ to.pending /\ to.unbonding = "no"
Activates(p, to, d) ==
    /\ d.kind = "activated" /\ txData = <<>>
    /\ OnChain(p) /\ onChain[p].pending
    /\ to # None /\ to.services = onChain[p].services /\ ~to.pending
    /\ to.unbonding = onChain[p].unbonding
Keeps(p, to, d, begins) ==
    /\ d.kind \in {"unstake", "slashed"}
    /\ OnChain(p)
    /\ to # None /\ to.services = onChain[p].services /\ to.pending = onChain[p].pending
    /\ to.unbonding # onChain[p].unbonding => begins
Ends(p, to, d) ==
    /\ d.kind = "unbondingEnd"
    /\ OnChain(p) /\ onChain[p].unbonding # "no"
    /\ ~InBlock("unbondingBegin", p)
    /\ to = None

\* What an operation of the chain is: its supplier, what becomes of it, and the
\* one or two data it leaves.
Operation(p, to, emitted) ==
    /\ p \in Suppliers /\ to \in ChainSupplier \cup {None}
    /\ Len(emitted) = 1 \/ Len(emitted) = 2
    /\ \A k \in 1..Len(emitted) : emitted[k] \in AnyDatum /\ emitted[k].supplier = p
    /\ Len(emitted) = 2 => emitted[2].kind = "unbondingBegin"
    /\ \/ emitted \in Seq(TxDatum) /\ Deliver(p, to, emitted)
       \/ emitted \in Seq(EndDatum) /\ Finalize(p, to, emitted)
    /\ RowOf(to) = After(RowOf(onChain[p]), emitted[1])
    /\ \/ Offers(p, to, emitted[1]) \/ Activates(p, to, emitted[1])
       \/ Keeps(p, to, emitted[1], Len(emitted) = 2) \/ Ends(p, to, emitted[1])

LEMMA ChainTyped ==
    ASSUME TypeInv, NEW p \in Suppliers, OnChain(p)
    PROVE  /\ onChain[p] \in ChainSupplier
           /\ onChain[p].stake \in 0..MaxStake /\ onChain[p].unbonding \in Unbonding
           /\ onChain[p].services \in (SUBSET Services) \ {{}}
           /\ onChain[p].pending \in BOOLEAN
BY DEF TypeInv, TypeOK, OnChain, ChainSupplier

LEMMA NoneIsNone ==
    /\ \A c \in ChainSupplier : c # None
    /\ \A n \in Int : n # None
    /\ None \notin Supplier /\ None \notin BOOLEAN
BY SuppliersAssumption DEF ChainSupplier, Supplier
LEMMA StakeOperates ==
    ASSUME TypeInv, NEW p \in Suppliers, NEW services \in (SUBSET Services) \ {{}},
           NEW stake \in Stakes, ChainStake(p, stake, services)
    PROVE  \E to, emitted : Operation(p, to, emitted)
<1>1. PICK d : d = [kind |-> "stake", supplier |-> p, stake |-> stake, services |-> services]
  OBVIOUS
<1>2. PICK n : n = IF stake = None THEN onChain[p].stake ELSE stake
  OBVIOUS
<1>3. n \in 0..MaxStake
  BY <1>2, ChainTyped, SuppliersAssumption DEF ChainStake, Stakes
<1>4. PICK to : to = [stake |-> n, unbonding |-> "no", services |-> services, pending |-> TRUE]
  OBVIOUS
<1>5. /\ Deliver(p, to, <<d>>)
      /\ Restakes \/ ~InBlock("activated", p)
  BY <1>1, <1>2, <1>4 DEF ChainStake, Staked
<1>6. to \in ChainSupplier /\ to # None
  BY <1>3, <1>4, NoneIsNone DEF ChainSupplier, Unbonding
<1>7. d \in TxDatum /\ d \in AnyDatum /\ d.kind = "stake" /\ d.supplier = p
  BY <1>1 DEF TxDatum, AnyDatum, StakeDatum
<1>8. <<d>> \in Seq(TxDatum) /\ Len(<<d>>) = 1 /\ <<d>>[1] = d
  BY <1>7
<1>9. RowOf(to) = After(RowOf(onChain[p]), d)
  <2>1. stake = None => OnChain(p)
    BY DEF ChainStake
  <2>2. n = IF d.stake # None THEN d.stake ELSE RowOf(onChain[p]).stake
    BY <1>1, <1>2, <2>1 DEF RowOf, OnChain
  <2>3. RowOf(to) = [stake |-> n, status |-> "Staked"]
    BY <1>4, <1>6 DEF RowOf
  <2> QED
    BY <1>7, <2>2, <2>3 DEF After
<1>10. Offers(p, to, d)
  BY <1>1, <1>4, <1>5, <1>6, <1>7 DEF Offers
<1>11. Operation(p, to, <<d>>)
  BY <1>5, <1>6, <1>7, <1>8, <1>9, <1>10 DEF Operation
<1> QED
  BY <1>11

LEMMA ClaimOperates ==
    ASSUME TypeInv, NEW p \in Suppliers, NEW services \in (SUBSET Services) \ {{}},
           NEW claimed \in 1..MaxStake, ChainClaim(p, claimed, services)
    PROVE  \E to, emitted : Operation(p, to, emitted)
<1>1. PICK d : d = [kind |-> "claim", supplier |-> p, stake |-> claimed, services |-> services]
  OBVIOUS
<1>2. PICK n : n = claimed + (IF OnChain(p) THEN onChain[p].stake ELSE 0)
  OBVIOUS
<1>3. n \in 0..MaxStake
  BY <1>2, ChainTyped, SuppliersAssumption DEF ChainClaim
<1>4. PICK to : to = [stake |-> n, unbonding |-> "no", services |-> services, pending |-> TRUE]
  OBVIOUS
<1>5. /\ Deliver(p, to, <<d>>)
      /\ Restakes \/ ~InBlock("activated", p)
  BY <1>1, <1>2, <1>4 DEF ChainClaim, Staked
<1>6. to \in ChainSupplier /\ to # None
  BY <1>3, <1>4, NoneIsNone DEF ChainSupplier, Unbonding
<1>7. d \in TxDatum /\ d \in AnyDatum /\ d.kind = "claim" /\ d.supplier = p /\ d.stake = claimed
  BY <1>1 DEF TxDatum, AnyDatum, ClaimDatum
<1>8. <<d>> \in Seq(TxDatum) /\ Len(<<d>>) = 1 /\ <<d>>[1] = d
  BY <1>7
<1>9. RowOf(to) = After(RowOf(onChain[p]), d)
  <2>1. n = d.stake + RowOf(onChain[p]).stake
    BY <1>2, <1>7 DEF RowOf, OnChain, Gone
  <2>2. RowOf(to) = [stake |-> n, status |-> "Staked"]
    BY <1>4, <1>6 DEF RowOf
  <2> QED
    BY <1>7, <2>1, <2>2 DEF After
<1>10. Offers(p, to, d)
  BY <1>1, <1>4, <1>5, <1>6, <1>7 DEF Offers
<1>11. Operation(p, to, <<d>>)
  BY <1>5, <1>6, <1>7, <1>8, <1>9, <1>10 DEF Operation
<1> QED
  BY <1>11

LEMMA UnstakeOperates ==
    ASSUME TypeInv, NEW p \in Suppliers, ChainUnstake(p)
    PROVE  \E to, emitted : Operation(p, to, emitted)
<1>1. PICK d : d = [kind |-> "unstake", supplier |-> p]
  OBVIOUS
<1>2. PICK b : b = [kind |-> "unbondingBegin", supplier |-> p]
  OBVIOUS
<1>3. PICK to : to = [onChain[p] EXCEPT !.unbonding = "voluntary"]
  OBVIOUS
<1>4. /\ Deliver(p, to, <<d, b>>) /\ OnChain(p)
  BY <1>1, <1>2, <1>3 DEF ChainUnstake, UnbondingBegin
<1>5. PICK c \in ChainSupplier : c = onChain[p]
  BY <1>4, ChainTyped
<1>6. /\ to \in ChainSupplier /\ to # None /\ to.unbonding = "voluntary" /\ to.stake = c.stake
      /\ to.services = c.services /\ to.pending = c.pending
  BY <1>3, <1>5, NoneIsNone DEF ChainSupplier, Unbonding
<1>7. /\ d \in TxDatum /\ d \in AnyDatum /\ d.kind = "unstake" /\ d.supplier = p
      /\ b \in TxDatum /\ b \in AnyDatum /\ b.kind = "unbondingBegin" /\ b.supplier = p
  BY <1>1, <1>2 DEF TxDatum, AnyDatum, PlainDatum
<1>8. <<d, b>> \in Seq(TxDatum) /\ Len(<<d, b>>) = 2 /\ <<d, b>>[1] = d /\ <<d, b>>[2] = b
  BY <1>7
<1>9. RowOf(to) = After(RowOf(onChain[p]), d)
  BY <1>4, <1>5, <1>6, <1>7 DEF RowOf, After, OnChain
<1>10. Keeps(p, to, d, Len(<<d, b>>) = 2)
  BY <1>4, <1>5, <1>6, <1>7, <1>8 DEF Keeps
<1>11. Operation(p, to, <<d, b>>)
  BY <1>4, <1>6, <1>7, <1>8, <1>9, <1>10 DEF Operation
<1> QED
  BY <1>11

LEMMA ActivateOperates ==
    ASSUME TypeInv, NEW p \in Suppliers, ChainActivate(p)
    PROVE  \E to, emitted : Operation(p, to, emitted)
<1>1. PICK d : d = [kind |-> "activated", supplier |-> p]
  OBVIOUS
<1>3. PICK to : to = [onChain[p] EXCEPT !.pending = FALSE]
  OBVIOUS
<1>4. /\ Finalize(p, to, <<d>>) /\ OnChain(p) /\ onChain[p].pending /\ txData = <<>>
  BY <1>1, <1>3 DEF ChainActivate
<1>5. PICK c \in ChainSupplier : c = onChain[p]
  BY <1>4, ChainTyped
<1>6. /\ to \in ChainSupplier /\ to # None /\ to.unbonding = c.unbonding /\ to.stake = c.stake
      /\ to.services = c.services /\ ~to.pending
  BY <1>3, <1>5, NoneIsNone DEF ChainSupplier
<1>7. d \in EndDatum /\ d \in AnyDatum /\ d.kind = "activated" /\ d.supplier = p
  BY <1>1 DEF EndDatum, AnyDatum, PlainDatum
<1>8. <<d>> \in Seq(EndDatum) /\ Len(<<d>>) = 1 /\ <<d>>[1] = d
  BY <1>7
<1>9. RowOf(to) = After(RowOf(onChain[p]), d)
  BY <1>4, <1>5, <1>6, <1>7 DEF RowOf, After, OnChain
<1>10. Activates(p, to, d)
  BY <1>4, <1>5, <1>6, <1>7 DEF Activates
<1>11. Operation(p, to, <<d>>)
  BY <1>4, <1>6, <1>7, <1>8, <1>9, <1>10 DEF Operation
<1> QED
  BY <1>11

LEMMA EndOperates ==
    ASSUME TypeInv, NEW p \in Suppliers, ChainUnbondingEnd(p)
    PROVE  \E to, emitted : Operation(p, to, emitted)
<1>1. PICK d : d = [kind |-> "unbondingEnd", supplier |-> p]
  OBVIOUS
<1>2. Finalize(p, None, <<d>>)
  BY <1>1 DEF ChainUnbondingEnd
<1>3. d \in EndDatum /\ d \in AnyDatum /\ d.kind = "unbondingEnd" /\ d.supplier = p
  BY <1>1 DEF EndDatum, AnyDatum, PlainDatum
<1>4. <<d>> \in Seq(EndDatum) /\ Len(<<d>>) = 1 /\ <<d>>[1] = d
  BY <1>3
<1>5. RowOf(None) = After(RowOf(onChain[p]), d)
  BY <1>3 DEF RowOf, After
<1>6. Ends(p, None, d)
  BY <1>3 DEF Ends, ChainUnbondingEnd
<1>7. Operation(p, None, <<d>>)
  BY <1>2, <1>3, <1>4, <1>5, <1>6 DEF Operation
<1> QED
  BY <1>7

LEMMA SlashOperates ==
    ASSUME TypeInv, NEW p \in Suppliers, ChainSlash(p)
    PROVE  \E to, emitted : Operation(p, to, emitted)
<1>1. OnChain(p) /\ onChain[p].stake > 0
  BY DEF ChainSlash
<1>2. PICK c \in ChainSupplier : c = onChain[p]
  BY <1>1, ChainTyped
<1>3. c.stake \in 1..MaxStake /\ c.unbonding \in Unbonding
  BY <1>1, <1>2, SuppliersAssumption DEF ChainSupplier
<1>4. PICK n \in 0..MaxStake : n = c.stake - 1
  BY <1>3, SuppliersAssumption
<1>5. PICK begins \in BOOLEAN : begins = (n = 0 /\ c.unbonding = "no")
  OBVIOUS
<1>6. PICK unbonding : unbonding = IF begins THEN "below_min" ELSE c.unbonding
  OBVIOUS
<1>7. unbonding \in Unbonding /\ (unbonding = "voluntary" <=> c.unbonding = "voluntary")
      /\ (unbonding # c.unbonding => begins)
  BY <1>3, <1>5, <1>6 DEF Unbonding
<1>8. PICK to : to = [c EXCEPT !.stake = n, !.unbonding = unbonding]
  OBVIOUS
<1>9. /\ to \in ChainSupplier /\ to # None /\ to.unbonding = unbonding /\ to.stake = n
      /\ to.services = c.services /\ to.pending = c.pending
  BY <1>4, <1>7, <1>8, NoneIsNone DEF ChainSupplier
<1>10. PICK d : d = [kind |-> "slashed", supplier |-> p, penalty |-> 1,
                     after |-> IF Derived THEN None ELSE n]
  OBVIOUS
<1>11. PICK b : b = [kind |-> "unbondingBegin", supplier |-> p]
  OBVIOUS
<1>12. Finalize(p, to, <<d>> \o (IF begins THEN <<b>> ELSE <<>>))
  <2>1. to = [onChain[p] EXCEPT !.stake = n, !.unbonding = IF begins THEN "below_min" ELSE @]
    BY <1>2, <1>6, <1>8
  <2>2. n = onChain[p].stake - 1 /\ begins = (n = 0 /\ onChain[p].unbonding = "no")
    BY <1>2, <1>4, <1>5
  <2> QED
    BY <2>1, <2>2, <1>10, <1>11 DEF ChainSlash, UnbondingBegin
<1>13. /\ d \in EndDatum /\ d \in AnyDatum /\ d.kind = "slashed" /\ d.supplier = p /\ d.penalty = 1
       /\ d.after = IF Derived THEN None ELSE n
       /\ b \in EndDatum /\ b \in AnyDatum /\ b.kind = "unbondingBegin" /\ b.supplier = p
  BY <1>10, <1>11 DEF EndDatum, AnyDatum, PlainDatum, SlashDatum
<1>14. RowOf(to) = After(RowOf(onChain[p]), d)
  <2>1. RowOf(onChain[p]) = [stake |-> c.stake,
            status |-> IF c.unbonding = "voluntary" THEN "Unstaking" ELSE "Staked"]
    BY <1>1, <1>2 DEF RowOf, OnChain
  <2>2. RowOf(to) = [stake |-> n,
            status |-> IF c.unbonding = "voluntary" THEN "Unstaking" ELSE "Staked"]
    BY <1>7, <1>9 DEF RowOf
  <2>3. n # None
    BY SuppliersAssumption
  <2>4. n = IF d.after # None THEN d.after ELSE c.stake - d.penalty
    BY <1>4, <1>13, <2>3
  <2> QED
    BY <1>13, <2>1, <2>2, <2>4 DEF After
<1>15. CASE begins
  <2>1. <<d, b>> \in Seq(EndDatum) /\ Len(<<d, b>>) = 2 /\ <<d, b>>[1] = d /\ <<d, b>>[2] = b
    BY <1>13
  <2>2. <<d>> \o <<b>> = <<d, b>>
    <3>1. <<d>> \in Seq(EndDatum) /\ <<b>> \in Seq(EndDatum)
      BY <1>13
    <3>2. /\ <<d>> \o <<b>> \in Seq(EndDatum)
          /\ Len(<<d>> \o <<b>>) = 2 /\ (<<d>> \o <<b>>)[1] = d /\ (<<d>> \o <<b>>)[2] = b
      BY <3>1, ConcatProperties
    <3>3. PICK s \in Seq(EndDatum), t \in Seq(EndDatum) : s = <<d>> \o <<b>> /\ t = <<d, b>>
      BY <2>1, <3>2
    <3>4. Len(s) = Len(t) /\ \A i \in 1..Len(s) : s[i] = t[i]
      BY <2>1, <3>2, <3>3
    <3> QED
      BY <3>3, <3>4, SeqEqual
  <2>3. Keeps(p, to, d, Len(<<d, b>>) = 2)
    BY <1>1, <1>2, <1>9, <1>13, <2>1 DEF Keeps
  <2>4. Finalize(p, to, <<d, b>>)
    BY <1>12, <1>15, <2>2
  <2>5. \A k \in 1..2 : <<d, b>>[k] \in AnyDatum /\ <<d, b>>[k].supplier = p
    BY <1>13
  <2>6. Operation(p, to, <<d, b>>)
    BY <1>9, <1>13, <1>14, <2>1, <2>3, <2>4, <2>5 DEF Operation
  <2> QED
    BY <2>6
<1>16. CASE ~begins
  <2>1. <<d>> \in Seq(EndDatum) /\ Len(<<d>>) = 1 /\ <<d>>[1] = d
    BY <1>13
  <2>2. <<d>> \o <<>> = <<d>>
    BY <2>1, ConcatEmptySeq
  <2>3. Keeps(p, to, d, Len(<<d>>) = 2)
    BY <1>1, <1>2, <1>7, <1>9, <1>13, <1>16, <2>1 DEF Keeps
  <2>4. Finalize(p, to, <<d>>)
    BY <1>12, <1>16, <2>2
  <2>5. Operation(p, to, <<d>>)
    BY <1>9, <1>13, <1>14, <2>1, <2>3, <2>4 DEF Operation
  <2> QED
    BY <2>5
<1> QED
  BY <1>15, <1>16

LEMMA ChainOperates ==
    TypeInv /\ Chain => \E p, to, emitted : Operation(p, to, emitted)
<1> SUFFICES ASSUME TypeInv, Chain PROVE \E p, to, emitted : Operation(p, to, emitted)
  OBVIOUS
<1>1. PICK p \in Suppliers :
        \/ ChainActivate(p) \/ ChainUnstake(p) \/ ChainSlash(p) \/ ChainUnbondingEnd(p)
        \/ \E services \in (SUBSET Services) \ {{}} :
            \/ \E stake \in Stakes : ChainStake(p, stake, services)
            \/ \E claimed \in 1..MaxStake : ChainClaim(p, claimed, services)
  BY DEF Chain, Stakes
<1>2. \E to, emitted : Operation(p, to, emitted)
  BY <1>1, ActivateOperates, UnstakeOperates, SlashOperates, EndOperates, StakeOperates,
     ClaimOperates
<1> QED
  BY <1>2

-----------------------------------------------------------------------------
(* Handlers *)

ServiceMap == [Services -> BOOLEAN \cup {None}]
NoServices == [s \in Services |-> None]
Fresh(services) == [s \in Services |-> IF s \in services THEN FALSE ELSE None]
HeldIn(map) == {s \in Services : map[s] # None}

\* The row a handler leaves: only a stake, a claim or an activation may find none.
NewRow(old, d, row) ==
    \/ old = None /\ d.kind = "activated" /\ row = None
    \/ /\ old # None \/ d.kind = "claim" \/ (d.kind = "stake" /\ d.stake # None)
       /\ row = After(IF old = None THEN Gone ELSE old, d)

\* The services it leaves, and those it closes.
NewServices(old, d, services, closed) ==
    \/ /\ d.kind \in {"stake", "claim"}
       /\ services = Fresh(d.services) /\ closed = HeldIn(old) \cup d.services
    \/ /\ d.kind = "activated"
       /\ services = [s \in Services |-> IF old[s] = None THEN None ELSE TRUE]
       /\ closed = {s \in HeldIn(old) : old[s] = FALSE}
    \/ /\ d.kind = "unbondingEnd"
       /\ services = NoServices /\ closed = HeldIn(old)
    \/ /\ d.kind \in {"unstake", "unbondingBegin", "slashed"}
       /\ services = old /\ closed = {}

Handling(p, d, row, services, closed) ==
    /\ pc = "handle" /\ handled < Len(Data)
    /\ d = Data[handled + 1] /\ d \in AnyDatum /\ p = d.supplier
    /\ row \in Supplier \cup {None} /\ services \in ServiceMap /\ closed \in SUBSET Services
    /\ NewRow(record[p].supplier, d, row)
    /\ NewServices(record[p].services, d, services, closed)
    /\ record' = [record EXCEPT ![p] = [supplier |-> row, services |-> services]]
    /\ toClose' = [toClose EXCEPT !.services = @ \cup ({p} \X closed)]
    /\ handled' = handled + 1
    /\ UNCHANGED <<chainVars, height, crashes, tables, dropped, pc>>

Handlers ==
    \/ HandleSupplierStakeMsg \/ HandleClaimSupplier \/ HandleUnstakeSupplierMsg
    \/ HandleSupplierUnbondingBeginEvent \/ HandleSupplierUnbondingEndEvent
    \/ HandleEventSupplierSlashed \/ HandleEventSupplierServiceConfigActivated

LEMMA DataTyped ==
    ASSUME TypeInv
    PROVE  /\ Len(txData) \in Nat /\ Len(finalizedData) \in Nat
           /\ Len(Data) = Len(txData) + Len(finalizedData)
           /\ DOMAIN Data = 1..Len(Data)
           /\ DOMAIN txData = 1..Len(txData) /\ DOMAIN finalizedData = 1..Len(finalizedData)
           /\ \A i \in 1..Len(Data) : Data[i] \in AnyDatum
           /\ \A i \in 1..Len(txData) : Data[i] = txData[i] /\ txData[i] \in TxDatum
           /\ \A i \in (Len(txData) + 1)..Len(Data) :
                 /\ Data[i] = finalizedData[i - Len(txData)]
                 /\ finalizedData[i - Len(txData)] \in EndDatum
<1>1. txData \in Seq(TxDatum) /\ finalizedData \in Seq(EndDatum)
  BY DEF TypeInv
<1>2. Data = txData \o finalizedData
  BY DEF Data
<1>3. Data \in Seq(AnyDatum)
  BY <1>1, <1>2, DataAre
<1>4. \A i \in 1..Len(Data) : Data[i] \in AnyDatum
  BY <1>3, ElementOfSeq
<1>5. /\ \A i \in 1..Len(txData) : txData[i] \in TxDatum
      /\ \A i \in 1..Len(finalizedData) : finalizedData[i] \in EndDatum
  BY <1>1, ElementOfSeq
<1> QED
  BY <1>1, <1>2, <1>4, <1>5, DataAre

LEMMA RecordTyped ==
    ASSUME TypeInv, NEW p \in Suppliers
    PROVE  /\ record[p] = [supplier |-> record[p].supplier, services |-> record[p].services]
           /\ record[p].supplier \in Supplier \cup {None}
           /\ record[p].services \in ServiceMap
BY DEF TypeInv, TypeOK, Record, ServiceMap

LEMMA GoneTyped == Gone \in Supplier
BY DEF Gone, Supplier

LEMMA AfterTyped ==
    ASSUME NEW row \in Supplier, NEW d \in AnyDatum
    PROVE  After(row, d) \in Supplier
<1>1. row.stake \in Int /\ row.status \in {"Staked", "Unstaking", "Unstaked"}
  BY DEF Supplier
<1>2. d.kind = "stake" /\ d.stake # None => d.stake \in Int
  BY DatumFields, SuppliersAssumption DEF Stakes
<1>3. d.kind = "claim" => d.stake \in Int
  BY DatumFields, SuppliersAssumption
<1>4. d.kind = "slashed" => /\ d.penalty \in Int
                            /\ d.after # None => d.after \in Int
  BY DatumFields, SuppliersAssumption
<1> QED
  BY <1>1, <1>2, <1>3, <1>4 DEF After, Gone, Supplier

LEMMA FreshTyped == \A services \in SUBSET Services : Fresh(services) \in ServiceMap
BY DEF Fresh, ServiceMap

LEMMA ClosesNothing ==
    ASSUME NEW ids \in Ids, NEW p
    PROVE  ids = [ids EXCEPT !.services = @ \cup ({p} \X {})]
<1>1. {p} \X {} = {}
  OBVIOUS
<1>2. ids.services \cup ({p} \X {}) = ids.services
  BY <1>1
<1> QED
  BY <1>2 DEF Ids

\* Every handler is a Handling.
LEMMA HandlersHandle ==
    TypeInv /\ Handlers => \E p, d, row, services, closed : Handling(p, d, row, services, closed)
<1> SUFFICES ASSUME TypeInv, Handlers
             PROVE  \E p, d, row, services, closed : Handling(p, d, row, services, closed)
  OBVIOUS
<1>1. PICK d : d = Data[handled + 1]
  OBVIOUS
<1>2. /\ pc = "handle" /\ handled < Len(Data) /\ handled' = handled + 1
      /\ UNCHANGED <<chainVars, height, crashes, tables, dropped, pc>>
  BY DEF Handlers, Handle, HandleSupplierStakeMsg, HandleClaimSupplier, HandleUnstakeSupplierMsg,
         HandleSupplierUnbondingBeginEvent, HandleSupplierUnbondingEndEvent,
         HandleEventSupplierSlashed, HandleEventSupplierServiceConfigActivated
<1>3. handled + 1 \in 1..Len(Data)
  BY <1>2, DataTyped DEF TypeInv, TypeOK
<1>4. d \in AnyDatum
  BY <1>1, <1>3, DataTyped
<1>5. PICK p \in Suppliers : p = d.supplier
  BY <1>4, DatumFields
<1>6. PICK old \in Supplier \cup {None}, map \in ServiceMap :
         record[p] = [supplier |-> old, services |-> map]
  BY RecordTyped
<1>7. old = record[p].supplier /\ map = record[p].services
  BY <1>6
<1>8. Datum = d /\ Current = record[p]
  BY <1>1, <1>5 DEF Datum, Current
<1>9. HeldServices = HeldIn(map) /\ HeldIn(map) \subseteq Services /\ (Loaded <=> old # None)
  BY <1>7, <1>8 DEF HeldServices, HeldIn, Loaded
<1>10. toClose \in Ids /\ record \in [Suppliers -> Record]
  BY DEF TypeInv, TypeOK
<1> DEFINE Done(row, services, closed) ==
             /\ row \in Supplier \cup {None} /\ services \in ServiceMap /\ closed \in SUBSET Services
             /\ NewRow(old, d, row) /\ NewServices(map, d, services, closed)
             /\ record' = [record EXCEPT ![p] = [supplier |-> row, services |-> services]]
             /\ toClose' = [toClose EXCEPT !.services = @ \cup ({p} \X closed)]
<1>11. ASSUME NEW row, NEW services, NEW closed, Done(row, services, closed)
       PROVE  Handling(p, d, row, services, closed)
  BY <1>1, <1>2, <1>4, <1>5, <1>7, <1>11 DEF Handling
<1>12. old # None => \A some \in AnyDatum : After(old, some) \in Supplier
  BY AfterTyped
<1>13. \A some \in AnyDatum : After(Gone, some) \in Supplier
  BY AfterTyped, GoneTyped
<1>14. CASE HandleSupplierStakeMsg
  <2>1. d.kind = "stake" /\ (d.stake # None \/ old # None)
    BY <1>1, <1>8, <1>9, <1>14 DEF HandleSupplierStakeMsg, Handle
  <2>2. PICK stake : stake = IF d.stake # None THEN d.stake ELSE old.stake
    OBVIOUS
  <2>3. /\ record' = [record EXCEPT ![p] = [supplier |-> [stake |-> stake, status |-> "Staked"],
                        services |-> [s \in Services |-> IF s \in d.services THEN FALSE ELSE None]]]
        /\ toClose' = [toClose EXCEPT !.services = @ \cup ({p} \X (HeldServices \cup d.services))]
    BY <1>5, <1>7, <1>8, <1>14, <2>2 DEF HandleSupplierStakeMsg, Replace, Close
  <2>4. PICK row : row = [stake |-> stake, status |-> "Staked"]
    OBVIOUS
  <2>5. row = After(IF old = None THEN Gone ELSE old, d)
    BY <2>1, <2>2, <2>4 DEF After
  <2>6. row \in Supplier /\ NewRow(old, d, row)
    BY <1>4, <1>12, <1>13, <2>1, <2>5 DEF NewRow
  <2>7. d.services \in SUBSET Services
    BY <1>4, <2>1, DatumFields
  <2>8. Done(row, Fresh(d.services), HeldIn(map) \cup d.services)
    BY <1>9, <2>1, <2>3, <2>4, <2>6, <2>7, FreshTyped DEF NewServices, Fresh
  <2> QED
    BY <1>11, <2>8
<1>15. CASE HandleClaimSupplier
  <2>1. d.kind = "claim"
    BY <1>1, <1>8, <1>15 DEF HandleClaimSupplier, Handle
  <2>2. PICK stake : stake = d.stake + (IF old # None THEN old.stake ELSE 0)
    OBVIOUS
  <2>3. /\ record' = [record EXCEPT ![p] = [supplier |-> [stake |-> stake, status |-> "Staked"],
                        services |-> [s \in Services |-> IF s \in d.services THEN FALSE ELSE None]]]
        /\ toClose' = [toClose EXCEPT !.services = @ \cup ({p} \X (HeldServices \cup d.services))]
    BY <1>5, <1>7, <1>8, <1>9, <1>15, <2>2 DEF HandleClaimSupplier, Replace, Close
  <2>4. PICK row : row = [stake |-> stake, status |-> "Staked"]
    OBVIOUS
  <2>5. row = After(IF old = None THEN Gone ELSE old, d)
    BY <2>1, <2>2, <2>4 DEF After, Gone
  <2>6. row \in Supplier /\ NewRow(old, d, row)
    BY <1>4, <1>12, <1>13, <2>1, <2>5 DEF NewRow
  <2>7. d.services \in SUBSET Services
    BY <1>4, <2>1, DatumFields
  <2>8. Done(row, Fresh(d.services), HeldIn(map) \cup d.services)
    BY <1>9, <2>1, <2>3, <2>4, <2>6, <2>7, FreshTyped DEF NewServices, Fresh
  <2> QED
    BY <1>11, <2>8
<1>16. ASSUME NEW row, row = After(old, d), old # None, SetSupplier(row),
              d.kind \in {"unstake", "unbondingBegin", "slashed"}
       PROVE  Done(row, map, {})
  <2>1. record' = [record EXCEPT ![p].supplier = row] /\ toClose' = toClose
    BY <1>5, <1>8, <1>16 DEF SetSupplier
  <2>2. record' = [record EXCEPT ![p] = [supplier |-> row, services |-> map]]
    <3>1. [record[p] EXCEPT !.supplier = row] = [supplier |-> row, services |-> map]
      BY <1>6
    <3> QED
      BY <1>10, <2>1, <3>1
  <2>3. toClose' = [toClose EXCEPT !.services = @ \cup ({p} \X {})]
    BY <1>10, <2>1, ClosesNothing
  <2>4. row \in Supplier /\ NewRow(old, d, row)
    BY <1>4, <1>12, <1>16 DEF NewRow
  <2>5. NewServices(map, d, map, {})
    BY <1>16 DEF NewServices
  <2> QED
    BY <2>2, <2>3, <2>4, <2>5
<1>17. CASE HandleUnstakeSupplierMsg
  <2>1. d.kind = "unstake" /\ old # None
    BY <1>1, <1>8, <1>9, <1>17 DEF HandleUnstakeSupplierMsg, Handle
  <2>2. PICK row : row = [old EXCEPT !.status = "Unstaking"]
    OBVIOUS
  <2>3. row = After(old, d)
    BY <2>1, <2>2 DEF After, Supplier
  <2>4. SetSupplier(row)
    BY <1>7, <1>8, <1>17, <2>2 DEF HandleUnstakeSupplierMsg
  <2>5. Done(row, map, {})
    BY <1>16, <2>1, <2>3, <2>4
  <2> QED
    BY <1>11, <2>5
<1>18. CASE HandleSupplierUnbondingBeginEvent
  <2>1. d.kind = "unbondingBegin" /\ old # None
    BY <1>1, <1>8, <1>9, <1>18 DEF HandleSupplierUnbondingBeginEvent, Handle
  <2>2. SetSupplier(old) /\ old = After(old, d)
    BY <1>7, <1>8, <1>18, <2>1 DEF HandleSupplierUnbondingBeginEvent, After
  <2>3. Done(old, map, {})
    BY <1>16, <2>1, <2>2
  <2> QED
    BY <1>11, <2>3
<1>19. CASE HandleEventSupplierSlashed
  <2>1. d.kind = "slashed" /\ old # None
    BY <1>1, <1>8, <1>9, <1>19 DEF HandleEventSupplierSlashed, Handle
  <2>2. PICK row : row = [old EXCEPT !.stake = IF d.after # None THEN d.after ELSE @ - d.penalty]
    OBVIOUS
  <2>3. row = After(old, d)
    BY <2>1, <2>2 DEF After, Supplier
  <2>4. SetSupplier(row)
    BY <1>7, <1>8, <1>19, <2>2 DEF HandleEventSupplierSlashed
  <2>5. Done(row, map, {})
    BY <1>16, <2>1, <2>3, <2>4
  <2> QED
    BY <1>11, <2>5
<1>20. CASE HandleSupplierUnbondingEndEvent
  <2>1. d.kind = "unbondingEnd" /\ old # None
    BY <1>1, <1>8, <1>9, <1>20 DEF HandleSupplierUnbondingEndEvent, Handle
  <2>2. /\ record' = [record EXCEPT ![p] = [supplier |-> Gone, services |-> NoServices]]
        /\ toClose' = [toClose EXCEPT !.services = @ \cup ({p} \X HeldServices)]
    BY <1>5, <1>8, <1>20 DEF HandleSupplierUnbondingEndEvent, Close, Gone, NoServices
  <2>3. Gone \in Supplier /\ NewRow(old, d, Gone)
    BY <2>1 DEF NewRow, After, Gone, Supplier
  <2>4. NoServices \in ServiceMap
    BY DEF NoServices, ServiceMap
  <2>5. Done(Gone, NoServices, HeldIn(map))
    BY <1>9, <2>1, <2>2, <2>3, <2>4 DEF NewServices
  <2> QED
    BY <1>11, <2>5
<1>21. CASE HandleEventSupplierServiceConfigActivated
  <2>1. d.kind = "activated"
    BY <1>1, <1>8, <1>21 DEF HandleEventSupplierServiceConfigActivated, Handle
  <2>2. PICK services : services = [s \in Services |-> IF map[s] = None THEN None ELSE TRUE]
    OBVIOUS
  <2>3. record' = [record EXCEPT ![p].services = services]
    <3>1. services = [s \in Services |-> IF record[p].services[s] = None THEN None ELSE TRUE]
      BY <1>7, <2>2
    <3> QED
      BY <1>5, <1>8, <1>21, <3>1 DEF HandleEventSupplierServiceConfigActivated
  <2>4. record' = [record EXCEPT ![p] = [supplier |-> old, services |-> services]]
    <3>1. [record[p] EXCEPT !.services = services] = [supplier |-> old, services |-> services]
      BY <1>6
    <3> QED
      BY <1>10, <2>3, <3>1
  <2>5. toClose' = [toClose EXCEPT !.services = @ \cup ({p} \X {s \in HeldIn(map) : map[s] = FALSE})]
    BY <1>5, <1>7, <1>8, <1>9, <1>21 DEF HandleEventSupplierServiceConfigActivated, Close
  <2>6. NewRow(old, d, old)
    BY <2>1 DEF NewRow, After
  <2>7. services \in ServiceMap
    BY <2>2 DEF ServiceMap
  <2>8. Done(old, services, {s \in HeldIn(map) : map[s] = FALSE})
    BY <1>9, <2>1, <2>2, <2>4, <2>5, <2>6, <2>7 DEF NewServices
  <2> QED
    BY <1>11, <2>8
<1> QED
  BY <1>14, <1>15, <1>17, <1>18, <1>19, <1>20, <1>21 DEF Handlers

-----------------------------------------------------------------------------
(* Type correctness *)

LEMMA TypeInitial == Init => TypeInv
<1> SUFFICES ASSUME Init PROVE TypeInv
  OBVIOUS
<1>1. txData = <<>> /\ finalizedData = <<>> /\ height = 0 /\ crashes = 0 /\ handled = 0 /\ pc = "chain"
      /\ supplierRows = {} /\ serviceRows = {} /\ record = NoRecord /\ toClose = Nothing
      /\ dropped = Nothing /\ onChain = [p \in Suppliers |-> None]
  BY DEF Init
<1>2. txData \in Seq(TxDatum) /\ finalizedData \in Seq(EndDatum) /\ Len(Data) = 0
  BY <1>1, EmptySeq, DataAre DEF Data
<1>3. record \in [Suppliers -> Record]
  BY <1>1 DEF NoRecord, Record
<1>4. toClose \in Ids /\ dropped \in [suppliers : SUBSET SupplierRow, services : SUBSET ServiceRow]
  BY <1>1 DEF Nothing, Ids
<1>5. TypeOK
  BY <1>1, <1>2, <1>3, SuppliersAssumption DEF TypeOK, Nothing
<1> QED
  BY <1>1, <1>2, <1>4, <1>5 DEF TypeInv

\* The data after an operation: its own in the place of their kind.
LEMMA DataGrow ==
    ASSUME TypeInv, NEW p, NEW to, NEW emitted, Operation(p, to, emitted)
    PROVE  /\ txData' \in Seq(TxDatum) /\ finalizedData' \in Seq(EndDatum)
           /\ Len(Data)' = Len(Data) + Len(emitted)
           /\ Len(Data) < MaxData
           /\ \/ /\ Delivering /\ Len(txData)' = Len(txData) + Len(emitted)
                 /\ finalizedData' = finalizedData
                 /\ \A i \in 1..Len(txData) : txData'[i] = txData[i] /\ Data'[i] = Data[i]
                 /\ \A i \in 1..Len(emitted) : /\ txData'[Len(txData) + i] = emitted[i]
                                               /\ Data'[Len(txData) + i] = emitted[i]
                 /\ \A i \in (Len(txData) + 1)..Len(Data) : Data'[i + Len(emitted)] = Data[i]
              \/ /\ txData' = txData
                 /\ \A i \in 1..Len(Data) : Data'[i] = Data[i]
                 /\ \A i \in 1..Len(emitted) : Data'[Len(Data) + i] = emitted[i]
<1>1. PICK tx \in Seq(TxDatum), fin \in Seq(EndDatum) : tx = txData /\ fin = finalizedData
  BY DEF TypeInv
<1>2. Data = tx \o fin /\ Data' = txData' \o finalizedData'
  BY <1>1 DEF Data
<1>3. Len(emitted) \in Nat /\ Len(tx) \in Nat /\ Len(fin) \in Nat
  BY <1>1, LenProperties DEF Operation
<1>4. Len(Data) < MaxData
  BY DEF Operation, Deliver, Finalize, Store
<1>5. Len(Data) = Len(tx) + Len(fin)
  BY <1>1, <1>2, DataAre
<1>6. CASE emitted \in Seq(TxDatum) /\ Deliver(p, to, emitted)
  <2>1. Delivering /\ txData' = tx \o emitted /\ finalizedData' = fin
    BY <1>1, <1>6 DEF Deliver
  <2>2. PICK new \in Seq(TxDatum) : new = tx \o emitted
    BY <1>1, <1>6, ConcatProperties
  <2>3. /\ Len(new) = Len(tx) + Len(emitted)
        /\ \A i \in 1..Len(tx) : new[i] = tx[i]
        /\ \A i \in (Len(tx) + 1)..(Len(tx) + Len(emitted)) : new[i] = emitted[i - Len(tx)]
    BY <1>6, <2>2, ConcatProperties
  <2>4. /\ Len(new \o fin) = Len(new) + Len(fin)
        /\ \A i \in 1..Len(new) : (new \o fin)[i] = new[i]
        /\ \A i \in (Len(new) + 1)..(Len(new) + Len(fin)) : (new \o fin)[i] = fin[i - Len(new)]
    BY DataAre
  <2>5. /\ \A i \in 1..Len(tx) : (tx \o fin)[i] = tx[i]
        /\ \A i \in (Len(tx) + 1)..(Len(tx) + Len(fin)) : (tx \o fin)[i] = fin[i - Len(tx)]
    BY <1>1, DataAre
  <2>6. \A i \in 1..Len(tx) : (new \o fin)[i] = (tx \o fin)[i]
    BY <1>3, <2>3, <2>4, <2>5
  <2>7. \A i \in 1..Len(emitted) : new[Len(tx) + i] = emitted[i] /\ (new \o fin)[Len(tx) + i] = emitted[i]
    <3> SUFFICES ASSUME NEW i \in 1..Len(emitted)
                 PROVE  new[Len(tx) + i] = emitted[i] /\ (new \o fin)[Len(tx) + i] = emitted[i]
      OBVIOUS
    <3>1. PICK j : j = Len(tx) + i
      OBVIOUS
    <3>2. j \in (Len(tx) + 1)..(Len(tx) + Len(emitted)) /\ j - Len(tx) = i /\ j \in 1..Len(new)
      BY <1>3, <2>3, <3>1
    <3> QED
      BY <2>3, <2>4, <3>1, <3>2
  <2>8. \A i \in (Len(tx) + 1)..(Len(tx) + Len(fin)) : (new \o fin)[i + Len(emitted)] = (tx \o fin)[i]
    <3> SUFFICES ASSUME NEW i \in (Len(tx) + 1)..(Len(tx) + Len(fin))
                 PROVE  (new \o fin)[i + Len(emitted)] = (tx \o fin)[i]
      OBVIOUS
    <3>1. PICK j : j = i + Len(emitted)
      OBVIOUS
    <3>2. j \in (Len(new) + 1)..(Len(new) + Len(fin)) /\ j - Len(new) = i - Len(tx)
      BY <1>3, <2>3, <3>1
    <3> QED
      BY <2>4, <2>5, <3>1, <3>2
  <2>9. Len(Data)' = Len(Data) + Len(emitted)
    BY <1>2, <1>3, <1>5, <2>1, <2>2, <2>3, <2>4
  <2>10. txData' = new /\ Data' = new \o fin
    BY <1>2, <2>1, <2>2
  <2>11. \A i \in 1..Len(txData) : txData'[i] = txData[i] /\ Data'[i] = Data[i]
    BY <1>1, <1>2, <2>3, <2>6, <2>10
  <2>12. \A i \in 1..Len(emitted) : /\ txData'[Len(txData) + i] = emitted[i]
                                    /\ Data'[Len(txData) + i] = emitted[i]
    BY <1>1, <2>7, <2>10
  <2>13. \A i \in (Len(txData) + 1)..Len(Data) : Data'[i + Len(emitted)] = Data[i]
    BY <1>1, <1>2, <1>5, <2>8, <2>10
  <2>14. Len(txData)' = Len(txData) + Len(emitted)
    BY <1>1, <2>3, <2>10
  <2>15. txData' \in Seq(TxDatum) /\ finalizedData' \in Seq(EndDatum) /\ finalizedData' = finalizedData
    BY <1>1, <2>1, <2>10
  <2> QED
    BY <1>4, <2>1, <2>9, <2>11, <2>12, <2>13, <2>14, <2>15, Zenon
<1>7. CASE emitted \in Seq(EndDatum) /\ Finalize(p, to, emitted)
  <2>1. txData' = tx /\ finalizedData' = fin \o emitted
    BY <1>1, <1>7 DEF Finalize
  <2>2. PICK new \in Seq(EndDatum) : new = fin \o emitted
    BY <1>1, <1>7, ConcatProperties
  <2>3. /\ Len(new) = Len(fin) + Len(emitted)
        /\ \A i \in 1..Len(fin) : new[i] = fin[i]
        /\ \A i \in (Len(fin) + 1)..(Len(fin) + Len(emitted)) : new[i] = emitted[i - Len(fin)]
    BY <1>7, <2>2, ConcatProperties
  <2>4. /\ Len(tx \o new) = Len(tx) + Len(new)
        /\ \A i \in 1..Len(tx) : (tx \o new)[i] = tx[i]
        /\ \A i \in (Len(tx) + 1)..(Len(tx) + Len(new)) : (tx \o new)[i] = new[i - Len(tx)]
    BY <1>1, <2>2, DataAre
  <2>5. /\ \A i \in 1..Len(tx) : (tx \o fin)[i] = tx[i]
        /\ \A i \in (Len(tx) + 1)..(Len(tx) + Len(fin)) : (tx \o fin)[i] = fin[i - Len(tx)]
    BY <1>1, DataAre
  <2>6. \A i \in 1..(Len(tx) + Len(fin)) : (tx \o new)[i] = (tx \o fin)[i]
    <3> SUFFICES ASSUME NEW i \in 1..(Len(tx) + Len(fin)) PROVE (tx \o new)[i] = (tx \o fin)[i]
      OBVIOUS
    <3>1. CASE i \in 1..Len(tx)
      BY <2>4, <2>5, <3>1
    <3>2. CASE i \notin 1..Len(tx)
      <4>1. /\ i \in (Len(tx) + 1)..(Len(tx) + Len(fin)) /\ i \in (Len(tx) + 1)..(Len(tx) + Len(new))
            /\ i - Len(tx) \in 1..Len(fin)
        BY <1>3, <2>3, <3>2
      <4> QED
        BY <2>3, <2>4, <2>5, <4>1
    <3> QED
      BY <3>1, <3>2
  <2>7. \A i \in 1..Len(emitted) : (tx \o new)[Len(tx) + Len(fin) + i] = emitted[i]
    <3> SUFFICES ASSUME NEW i \in 1..Len(emitted)
                 PROVE  (tx \o new)[Len(tx) + Len(fin) + i] = emitted[i]
      OBVIOUS
    <3>1. PICK j : j = Len(tx) + Len(fin) + i
      OBVIOUS
    <3>2. PICK k : k = Len(fin) + i
      OBVIOUS
    <3>3. /\ j \in (Len(tx) + 1)..(Len(tx) + Len(new)) /\ j - Len(tx) = k
          /\ k \in (Len(fin) + 1)..(Len(fin) + Len(emitted)) /\ k - Len(fin) = i
      BY <1>3, <2>3, <3>1, <3>2
    <3> QED
      BY <2>3, <2>4, <3>1, <3>3
  <2>8. Len(Data)' = Len(Data) + Len(emitted)
    BY <1>2, <1>3, <1>5, <2>1, <2>2, <2>3, <2>4
  <2>9. Data' = tx \o new
    BY <1>2, <2>1, <2>2
  <2> QED
    BY <1>1, <1>2, <1>4, <1>5, <2>1, <2>2, <2>6, <2>7, <2>8, <2>9
<1> QED
  BY <1>6, <1>7 DEF Operation

LEMMA ToSaveTyped ==
    ASSUME TypeInv
    PROVE  SuppliersToSave \subseteq SupplierRow /\ ServicesToSave \subseteq ServiceRow
<1>1. B \in Nat /\ crashes \in Nat
  BY SuppliersAssumption DEF TypeInv, TypeOK, B
<1>2. ASSUME NEW p \in Suppliers, record[p].supplier # None
      PROVE  [id |-> p, row |-> record[p].supplier, lo |-> B, att |-> crashes] \in SupplierRow
  BY <1>1, <1>2, RecordTyped DEF SupplierRow
<1>3. ASSUME NEW id \in Suppliers \X Services, record[id[1]].services[id[2]] # None
      PROVE  [id |-> id, activated |-> record[id[1]].services[id[2]], lo |-> B, att |-> crashes]
                \in ServiceRow
  <2>1. id[1] \in Suppliers /\ id[2] \in Services
    OBVIOUS
  <2>2. record[id[1]].services \in ServiceMap
    BY <2>1, RecordTyped
  <2>3. record[id[1]].services[id[2]] \in BOOLEAN
    BY <1>3, <2>1, <2>2 DEF ServiceMap
  <2> QED
    BY <1>1, <2>3 DEF ServiceRow
<1> QED
  BY <1>2, <1>3 DEF SuppliersToSave, ServicesToSave

LEMMA TypeChain ==
    ASSUME TypeInv, NEW p, NEW to, NEW emitted, Operation(p, to, emitted)
    PROVE  TypeInv'
<1>1. /\ txData' \in Seq(TxDatum) /\ finalizedData' \in Seq(EndDatum)
      /\ Len(Data)' = Len(Data) + Len(emitted) /\ Len(Data) < MaxData
  BY DataGrow
<1>2. Len(Data) \in Nat
  BY DataTyped
<1>3. Store(p, to) /\ p \in Suppliers /\ to \in ChainSupplier \cup {None}
  BY DEF Operation, Deliver, Finalize
<1>4. onChain' \in [Suppliers -> ChainSupplier \cup {None}]
  BY <1>3 DEF Store, TypeInv, TypeOK
<1>5. Len(Data)' <= MaxData + 1 /\ Len(Data)' \in Nat /\ Len(Data) <= Len(Data)'
  <2>1. PICK n, k, m :
          /\ n = Len(Data) /\ k = Len(emitted) /\ m = Len(Data)'
          /\ n \in Nat /\ k \in {1, 2}
    BY <1>2 DEF Operation
  <2>2. n \in Nat /\ k \in {1, 2}
    BY <2>1
  <2>3. m = n + k /\ n < MaxData /\ MaxData \in Nat
    BY <1>1, <2>1, SuppliersAssumption
  <2>4. m <= MaxData + 1 /\ m \in Nat /\ n <= m
    BY <2>2, <2>3
  <2> QED
    BY <2>1, <2>4
<1>6. /\ height' = height /\ crashes' = crashes /\ supplierRows' = supplierRows
      /\ serviceRows' = serviceRows /\ record' = record /\ toClose' = toClose
      /\ dropped' = dropped /\ handled' = handled /\ pc' = pc /\ pc = "chain" /\ height < MaxHeight
  BY <1>3 DEF Store, tables, memory
<1>7. handled' \in 0..Len(Data)'
  BY <1>2, <1>5, <1>6 DEF TypeInv, TypeOK
<1>8. TypeOK'
  BY <1>4, <1>5, <1>6, <1>7 DEF TypeInv, TypeOK
<1> QED
  BY <1>1, <1>6, <1>8 DEF TypeInv

LEMMA TypeFetch ==
    ASSUME TypeInv, FetchSupplierData PROVE TypeInv'
<1>1. PICK S \in Readings({r \in supplierRows : r.id \in SupplierIds}),
           V \in Readings({r \in serviceRows : r.id[1] \in SuppliersToFetchServices}) :
        /\ record' = [p \in Suppliers |->
             [supplier |-> IF \E r \in S : r.id = p THEN (CHOOSE r \in S : r.id = p).row ELSE None,
              services |-> [s \in Services |->
                 IF \E r \in V : r.id = <<p, s>> THEN (CHOOSE r \in V : r.id = <<p, s>>).activated
                                                 ELSE None]]]
        /\ toClose' = [suppliers |-> {r.id : r \in S}, services |-> {}]
  BY DEF FetchSupplierData
<1>2. S \subseteq SupplierRow /\ V \subseteq ServiceRow
  BY DEF TypeInv, TypeOK, Readings
<1>3. \A p \in Suppliers : (IF \E r \in S : r.id = p THEN (CHOOSE r \in S : r.id = p).row ELSE None)
                              \in Supplier \cup {None}
  <2> SUFFICES ASSUME NEW p \in Suppliers, \E r \in S : r.id = p
               PROVE  (CHOOSE r \in S : r.id = p).row \in Supplier
    OBVIOUS
  <2>1. (CHOOSE r \in S : r.id = p) \in SupplierRow
    BY <1>2
  <2> QED
    BY <2>1 DEF SupplierRow
<1>4. \A p \in Suppliers, s \in Services :
        (IF \E r \in V : r.id = <<p, s>> THEN (CHOOSE r \in V : r.id = <<p, s>>).activated ELSE None)
            \in BOOLEAN \cup {None}
  <2> SUFFICES ASSUME NEW p \in Suppliers, NEW s \in Services, \E r \in V : r.id = <<p, s>>
               PROVE  (CHOOSE r \in V : r.id = <<p, s>>).activated \in BOOLEAN
    OBVIOUS
  <2>1. (CHOOSE r \in V : r.id = <<p, s>>) \in ServiceRow
    BY <1>2
  <2> QED
    BY <2>1 DEF ServiceRow
<1>5. record' \in [Suppliers -> Record]
  BY <1>1, <1>3, <1>4 DEF Record
<1>6. {r.id : r \in S} \in SUBSET Suppliers
  BY <1>2 DEF SupplierRow
<1>7. toClose' \in Ids
  BY <1>1, <1>6 DEF Ids
<1>8. /\ pc' = "handle" /\ UNCHANGED <<onChain, txData, finalizedData, height, crashes,
                                       supplierRows, serviceRows, dropped, handled>>
  BY DEF FetchSupplierData, chainVars, tables
<1>9. Data' = Data
  BY <1>8 DEF Data
<1>10. pc # "chain" \/ txData # <<>> \/ finalizedData # <<>>
  <2>1. CASE txData = <<>> /\ finalizedData = <<>>
    <3>1. Data = <<>>
      BY <2>1 DEF Data
    <3> QED
      BY <3>1 DEF FetchSupplierData
  <2> QED
    BY <2>1
<1>11. height < MaxHeight
  BY <1>10 DEF TypeInv
<1>12. TypeOK'
  BY <1>5, <1>7, <1>8, <1>9 DEF TypeInv, TypeOK, Ids
<1> QED
  BY <1>7, <1>8, <1>11, <1>12 DEF TypeInv

LEMMA TypeHandled ==
    ASSUME TypeInv, NEW p, NEW d, NEW row, NEW services, NEW closed,
           Handling(p, d, row, services, closed)
    PROVE  TypeInv'
<1>1. p \in Suppliers /\ row \in Supplier \cup {None} /\ services \in ServiceMap /\ closed \in SUBSET Services
  BY DatumFields DEF Handling
<1>2. [supplier |-> row, services |-> services] \in Record
  BY <1>1 DEF Record, ServiceMap
<1>3. record' \in [Suppliers -> Record]
  BY <1>1, <1>2 DEF Handling, TypeInv, TypeOK
<1>4. toClose' \in Ids
  <2>1. {p} \X closed \subseteq Suppliers \X Services
    BY <1>1
  <2>2. toClose \in Ids /\ toClose' = [toClose EXCEPT !.services = toClose.services \cup ({p} \X closed)]
    BY DEF TypeInv, Handling
  <2> QED
    BY <2>1, <2>2 DEF Ids
<1>5. /\ pc = "handle" /\ pc' = pc /\ UNCHANGED <<onChain, txData, finalizedData, height, crashes,
                                       supplierRows, serviceRows, dropped>>
      /\ handled' = handled + 1 /\ handled < Len(Data)
  BY DEF Handling, chainVars, tables
<1>6. Data' = Data /\ Len(Data) \in Nat
  BY <1>5, DataTyped DEF Data
<1>7. TypeOK'
  BY <1>3, <1>4, <1>5, <1>6 DEF TypeInv, TypeOK, Ids
<1> QED
  BY <1>4, <1>5, <1>7 DEF TypeInv

LEMMA DroppedWithin == \A rows, toSave, ids : Dropped(rows, toSave, ids) \subseteq rows
BY DEF Dropped

LEMMA TypeWrites ==
    ASSUME TypeInv, DeleteAndClose \/ SaveSuppliers \/ SaveServices
    PROVE  TypeInv'
<1>1. UNCHANGED <<onChain, txData, finalizedData, height, crashes, record, toClose, handled>>
  BY DEF DeleteAndClose, SaveSuppliers, SaveServices, chainVars, memory
<1>2. Data' = Data
  BY <1>1 DEF Data
<1>3. pc \in {"handle", "insert"} /\ pc' = "insert"
  BY DEF DeleteAndClose, SaveSuppliers, SaveServices
<1>4. dropped' \in [suppliers : SUBSET SupplierRow, services : SUBSET ServiceRow]
  <2>1. CASE DeleteAndClose
    BY <2>1, DroppedWithin DEF DeleteAndClose, TypeInv, TypeOK
  <2>2. CASE SaveSuppliers \/ SaveServices
    BY <2>2 DEF SaveSuppliers, SaveServices, memory, TypeInv
  <2> QED
    BY <2>1, <2>2
<1>5. supplierRows' \subseteq SupplierRow /\ serviceRows' \subseteq ServiceRow
  BY ToSaveTyped DEF DeleteAndClose, SaveSuppliers, SaveServices, tables, TypeInv, TypeOK
<1>6. TypeOK'
  BY <1>1, <1>2, <1>3, <1>4, <1>5 DEF TypeInv, TypeOK
<1> QED
  BY <1>1, <1>3, <1>4, <1>6 DEF TypeInv

LEMMA Forgotten ==
    ASSUME Forget
    PROVE  /\ record' \in [Suppliers -> Record] /\ toClose' \in Ids /\ handled' = 0
           /\ dropped' = Nothing /\ record' = NoRecord
           /\ dropped' \in [suppliers : SUBSET SupplierRow, services : SUBSET ServiceRow]
BY DEF Forget, NoRecord, Record, Nothing, Ids

LEMMA TypeEnds ==
    ASSUME TypeInv, Commit \/ Crash PROVE TypeInv'
<1>1. Forget
  BY DEF Commit, Crash
<1>2. /\ record' \in [Suppliers -> Record] /\ toClose' \in Ids /\ handled' = 0
      /\ dropped' = Nothing /\ record' = NoRecord
      /\ dropped' \in [suppliers : SUBSET SupplierRow, services : SUBSET ServiceRow]
  BY <1>1, Forgotten
<1>3. height < MaxHeight
  BY DEF Commit, Crash, TypeInv
<1>4. CASE Commit
  <2>1. /\ txData' = <<>> /\ finalizedData' = <<>> /\ height' = height + 1 /\ pc' = "chain"
        /\ onChain' = onChain /\ crashes' = crashes
        /\ supplierRows' \subseteq SupplierRow /\ serviceRows' \subseteq ServiceRow
    BY <1>4 DEF Commit, B, TypeInv, TypeOK
  <2>2. txData' \in Seq(TxDatum) /\ finalizedData' \in Seq(EndDatum)
    BY <2>1, EmptySeq
  <2>3. Len(Data)' = 0
    BY <2>1, DataAre DEF Data
  <2>4. height' \in 0..MaxHeight
    BY <1>3, <2>1, SuppliersAssumption DEF TypeInv, TypeOK
  <2>5. TypeOK'
    BY <1>2, <2>1, <2>3, <2>4, SuppliersAssumption DEF TypeInv, TypeOK, Ids
  <2> QED
    BY <1>2, <2>1, <2>2, <2>5 DEF TypeInv
<1>5. CASE Crash
  <2>1. /\ pc' = "begin" /\ crashes' = crashes + 1 /\ crashes < MaxCrashes
        /\ UNCHANGED <<onChain, txData, finalizedData, height, supplierRows, serviceRows>>
    BY <1>5 DEF Crash, chainVars, tables
  <2>2. Data' = Data /\ Len(Data) \in Nat
    BY <2>1, DataTyped DEF Data
  <2>3. crashes' \in 0..MaxCrashes
    BY <2>1, SuppliersAssumption DEF TypeInv, TypeOK
  <2>4. TypeOK'
    BY <1>2, <2>1, <2>2, <2>3 DEF TypeInv, TypeOK, Ids
  <2> QED
    BY <1>2, <1>3, <2>1, <2>4 DEF TypeInv
<1> QED
  BY <1>4, <1>5

\* The steps of a block, as the proofs distinguish them.
LEMMA Steps ==
    ASSUME TypeInv, Next
    PROVE  \/ \E p, to, emitted : Operation(p, to, emitted)
           \/ FetchSupplierData
           \/ \E p, d, row, services, closed : Handling(p, d, row, services, closed)
           \/ DeleteAndClose \/ SaveSuppliers \/ SaveServices \/ Commit \/ Crash
BY ChainOperates, HandlersHandle DEF Next, IndexSupplier, Handlers

LEMMA TypeKept == TypeInv /\ [Next]_vars => TypeInv'
<1> SUFFICES ASSUME TypeInv, [Next]_vars PROVE TypeInv'
  OBVIOUS
<1>1. CASE Next
  BY <1>1, Steps, TypeChain, TypeFetch, TypeHandled, TypeWrites, TypeEnds
<1>2. CASE UNCHANGED vars
  <2>1. Data' = Data
    BY <1>2 DEF vars, Data
  <2> QED
    BY <1>2, <2>1 DEF vars, TypeInv, TypeOK
<1> QED
  BY <1>1, <1>2

\* Every variable keeps its type, for any data of a block; what is known of a supplier
\* while a block is processed does not outlive the attempt (indexSupplier).
THEOREM TypeCorrect == Spec => []TypeOK
<1>1. TypeInv => TypeOK
  BY DEF TypeInv
<1> QED
  BY <1>1, TypeInitial, TypeKept, PTL DEF Spec

-----------------------------------------------------------------------------
(* Rows of the block *)

\* Rows the present attempt has not inserted.
Earlier(rows) == {r \in rows : r.lo # B \/ r.att # crashes}

\* Rows of the block are of this attempt, which inserts what it is to save, or of
\* one that failed.
Staged(rows, toSave) ==
    \A r \in rows :
        /\ r.lo <= B
        /\ r.lo = B => /\ pc # "chain" /\ r.att <= crashes
                       /\ r.att = crashes => pc = "insert" /\ r \in toSave

DroppedRight ==
    dropped = [suppliers |-> Dropped(Earlier(supplierRows), SuppliersToSave, toClose.suppliers),
               services |-> Dropped(Earlier(serviceRows), ServicesToSave, toClose.services)]

StageInv ==
    /\ Staged(supplierRows, SuppliersToSave)
    /\ Staged(serviceRows, ServicesToSave)
    /\ pc = "insert" => handled = Len(Data) /\ DroppedRight
    /\ pc \in {"chain", "begin"} => handled = 0

LEMMA RowsTyped ==
    ASSUME TypeInv
    PROVE  /\ height \in Nat /\ crashes \in Nat /\ B = height + 1
           /\ \A r \in supplierRows : /\ r.id \in Suppliers /\ r.row \in Supplier
                                      /\ r.lo \in Nat /\ r.att \in Nat
           /\ \A r \in serviceRows : /\ r.id \in Suppliers \X Services /\ r.activated \in BOOLEAN
                                     /\ r.lo \in Nat /\ r.att \in Nat
<1>1. height \in Nat /\ crashes \in Nat
  BY SuppliersAssumption DEF TypeInv, TypeOK
<1>2. \A r \in SupplierRow : r.id \in Suppliers /\ r.row \in Supplier /\ r.lo \in Nat /\ r.att \in Nat
  BY DEF SupplierRow
<1>3. \A r \in ServiceRow : /\ r.id \in Suppliers \X Services /\ r.activated \in BOOLEAN
                            /\ r.lo \in Nat /\ r.att \in Nat
  BY DEF ServiceRow
<1>4. supplierRows \subseteq SupplierRow /\ serviceRows \subseteq ServiceRow
  BY DEF TypeInv, TypeOK
<1> QED
  BY <1>1, <1>2, <1>3, <1>4 DEF B

LEMMA AllEarlier ==
    ASSUME StageInv, pc # "insert"
    PROVE  Earlier(supplierRows) = supplierRows /\ Earlier(serviceRows) = serviceRows
BY DEF StageInv, Staged, Earlier

LEMMA SavedLater ==
    /\ \A r \in SuppliersToSave : r.lo = B /\ r.att = crashes
    /\ \A r \in ServicesToSave : r.lo = B /\ r.att = crashes
BY DEF SuppliersToSave, ServicesToSave

LEMMA StageInitial == Init => StageInv
BY DEF Init, StageInv, Staged

LEMMA StageKept == TypeInv /\ StageInv /\ [Next]_vars => StageInv'
<1> SUFFICES ASSUME TypeInv, StageInv, [Next]_vars PROVE StageInv'
  OBVIOUS
<1>1. ASSUME NEW p, NEW to, NEW emitted, Operation(p, to, emitted) PROVE StageInv'
  <2>1. pc = "chain" /\ UNCHANGED <<height, crashes, tables, memory, pc>>
    BY <1>1 DEF Operation, Deliver, Finalize, Store
  <2>2. B' = B
    BY <2>1 DEF B
  <2> QED
    BY <2>1, <2>2 DEF StageInv, Staged, tables, memory
<1>2. CASE FetchSupplierData
  <2>1. pc \in {"chain", "begin"} /\ pc' = "handle" /\ UNCHANGED <<height, crashes, tables>>
    BY <1>2 DEF FetchSupplierData
  <2>2. B' = B
    BY <2>1 DEF B
  <2> QED
    BY <2>1, <2>2 DEF StageInv, Staged, tables
<1>3. ASSUME NEW p, NEW d, NEW row, NEW services, NEW closed,
             Handling(p, d, row, services, closed)
      PROVE  StageInv'
  <2>1. pc = "handle" /\ pc' = pc /\ UNCHANGED <<height, crashes, tables>>
    BY <1>3 DEF Handling
  <2>2. B' = B
    BY <2>1 DEF B
  <2> QED
    BY <2>1, <2>2 DEF StageInv, Staged, tables
<1>4. CASE DeleteAndClose
  <2>1. /\ pc = "handle" /\ pc' = "insert" /\ handled = Len(Data)
        /\ UNCHANGED <<chainVars, height, crashes, tables, record, toClose, handled>>
        /\ dropped' = [suppliers |-> Dropped(supplierRows, SuppliersToSave, toClose.suppliers),
                       services |-> Dropped(serviceRows, ServicesToSave, toClose.services)]
    BY <1>4 DEF DeleteAndClose
  <2>2. /\ B' = B /\ Data' = Data /\ SuppliersToSave' = SuppliersToSave
        /\ ServicesToSave' = ServicesToSave
    BY <2>1 DEF B, Data, chainVars, SuppliersToSave, ServicesToSave
  <2>3. Earlier(supplierRows) = supplierRows /\ Earlier(serviceRows) = serviceRows
    BY <2>1, AllEarlier
  <2>4. Earlier(supplierRows)' = Earlier(supplierRows) /\ Earlier(serviceRows)' = Earlier(serviceRows)
    BY <2>1, <2>2 DEF Earlier, tables
  <2>5. DroppedRight'
    BY <2>1, <2>2, <2>3, <2>4 DEF DroppedRight, Dropped
  <2>6. Staged(supplierRows, SuppliersToSave)' /\ Staged(serviceRows, ServicesToSave)'
    BY <2>1, <2>2 DEF StageInv, Staged, tables
  <2> QED
    BY <2>1, <2>2, <2>5, <2>6 DEF StageInv
<1>5. CASE SaveSuppliers \/ SaveServices
  <2>1. /\ pc = "insert" /\ pc' = "insert"
        /\ UNCHANGED <<chainVars, height, crashes, memory>>
        /\ supplierRows' \in {supplierRows, supplierRows \cup SuppliersToSave}
        /\ serviceRows' \in {serviceRows, serviceRows \cup ServicesToSave}
    BY <1>5 DEF SaveSuppliers, SaveServices
  <2>2. /\ B' = B /\ Data' = Data /\ SuppliersToSave' = SuppliersToSave
        /\ ServicesToSave' = ServicesToSave
    BY <2>1 DEF B, Data, chainVars, memory, SuppliersToSave, ServicesToSave
  <2>3. Earlier(supplierRows)' = Earlier(supplierRows) /\ Earlier(serviceRows)' = Earlier(serviceRows)
    BY <2>1, <2>2, SavedLater DEF Earlier
  <2>4. DroppedRight'
    BY <2>1, <2>2, <2>3 DEF StageInv, DroppedRight, Dropped, memory
  <2>5. B \in Int /\ crashes \in Int
    BY RowsTyped
  <2>6. Staged(supplierRows, SuppliersToSave)' /\ Staged(serviceRows, ServicesToSave)'
    BY <2>1, <2>2, <2>5, SavedLater DEF StageInv, Staged, memory
  <2> QED
    BY <2>1, <2>2, <2>4, <2>6 DEF StageInv, memory
<1>6. CASE Commit
  <2>1. /\ height' = height + 1 /\ pc' = "chain"
        /\ supplierRows' \subseteq supplierRows /\ serviceRows' \subseteq serviceRows
    BY <1>6 DEF Commit, B
  <2>4. handled' = 0
    BY <1>6 DEF Commit, Forget
  <2>2. B' = B + 1 /\ B \in Nat
    BY <2>1, RowsTyped DEF B
  <2>3. /\ \A r \in supplierRows' : r.lo <= B /\ r.lo \in Nat
        /\ \A r \in serviceRows' : r.lo <= B /\ r.lo \in Nat
    BY <2>1, RowsTyped DEF StageInv, Staged
  <2> QED
    BY <2>1, <2>2, <2>3, <2>4 DEF StageInv, Staged
<1>7. CASE Crash
  <2>1. /\ pc \in {"handle", "insert"} /\ pc' = "begin" /\ crashes' = crashes + 1
        /\ UNCHANGED <<height, tables>>
    BY <1>7 DEF Crash
  <2>4. handled' = 0
    BY <1>7 DEF Crash, Forget
  <2>2. B' = B /\ crashes \in Nat
    BY <2>1, RowsTyped DEF B
  <2>3. /\ \A r \in supplierRows : r.lo <= B /\ r.att \in Nat /\ (r.lo = B => r.att <= crashes)
        /\ \A r \in serviceRows : r.lo <= B /\ r.att \in Nat /\ (r.lo = B => r.att <= crashes)
    BY RowsTyped DEF StageInv, Staged
  <2> QED
    BY <2>1, <2>2, <2>3, <2>4 DEF StageInv, Staged, tables
<1>8. CASE UNCHANGED vars
  <2>1. /\ B' = B /\ Data' = Data /\ SuppliersToSave' = SuppliersToSave
        /\ ServicesToSave' = ServicesToSave
        /\ Earlier(supplierRows)' = Earlier(supplierRows) /\ Earlier(serviceRows)' = Earlier(serviceRows)
    BY <1>8 DEF vars, B, Data, SuppliersToSave, ServicesToSave, Earlier
  <2> QED
    BY <1>8, <2>1 DEF vars, StageInv, Staged, DroppedRight, Dropped
<1> QED
  BY <1>1, <1>2, <1>3, <1>4, <1>5, <1>6, <1>7, <1>8, Steps

-----------------------------------------------------------------------------
(* Suppliers *)

ChainRows == [p \in Suppliers |-> RowOf(onChain[p])]

\* The rows of a path lead, one datum at a time, to those of the chain.  Where only
\* activations are left it has arrived.
Leads(x) ==
    /\ x \in [0..Len(Data) -> [Suppliers -> Supplier]]
    /\ x[Len(Data)] = ChainRows
    /\ \A i \in 1..Len(Data) :
          x[i] = [x[i - 1] EXCEPT ![Data[i].supplier] = After(x[i - 1][Data[i].supplier], Data[i])]
    /\ Delivering => \A i \in Len(txData)..Len(Data) : x[i] = ChainRows

LEMMA RowOfTyped ==
    ASSUME NEW c \in ChainSupplier \cup {None}
    PROVE  RowOf(c) \in Supplier
<1>1. CASE c = None
  BY <1>1, GoneTyped DEF RowOf
<1>2. CASE c # None
  <2>1. c.stake \in Int
    BY <1>2, SuppliersAssumption DEF ChainSupplier
  <2> QED
    BY <1>2, <2>1 DEF RowOf, Supplier
<1> QED
  BY <1>1, <1>2

LEMMA ChainRowsTyped == TypeInv => ChainRows \in [Suppliers -> Supplier]
BY RowOfTyped DEF TypeInv, TypeOK, ChainRows

\* What an operation does to the rows of the chain.
LEMMA ChainRowsGrow ==
    ASSUME TypeInv, NEW p, NEW to, NEW emitted, Operation(p, to, emitted)
    PROVE  /\ p \in Suppliers
           /\ ChainRows' = [ChainRows EXCEPT ![p] = After(ChainRows[p], emitted[1])]
           /\ emitted[1] \in AnyDatum /\ emitted[1].supplier = p
           /\ Len(emitted) = 2 => emitted[2].supplier = p /\ emitted[2].kind = "unbondingBegin"
           /\ Len(emitted) = 1 \/ Len(emitted) = 2
<1>1. /\ p \in Suppliers /\ onChain' = [onChain EXCEPT ![p] = to]
      /\ Len(emitted) = 1 \/ Len(emitted) = 2
  BY DEF Operation, Deliver, Finalize, Store
<1>2. onChain \in [Suppliers -> ChainSupplier \cup {None}]
  BY DEF TypeInv, TypeOK
<1>3. ChainRows' = [ChainRows EXCEPT ![p] = RowOf(to)]
  BY <1>1, <1>2 DEF ChainRows, RowOf
<1>4. RowOf(to) = After(ChainRows[p], emitted[1])
  BY <1>1 DEF Operation, ChainRows
<1>5. \A k \in 1..Len(emitted) : emitted[k] \in AnyDatum /\ emitted[k].supplier = p
  BY DEF Operation
<1>6. 1 \in 1..Len(emitted) /\ (Len(emitted) = 2 => 2 \in 1..Len(emitted))
  <2>1. PICK k \in {1, 2} : k = Len(emitted)
    BY DEF Operation
  <2> QED
    BY <2>1
<1>7. Len(emitted) = 2 => emitted[2].kind = "unbondingBegin"
  BY DEF Operation
<1> QED
  BY <1>1, <1>3, <1>4, <1>5, <1>6, <1>7

\* An activation, and the begin of an unbonding, leave the rows as they are.
LEMMA NoChange ==
    ASSUME NEW f \in [Suppliers -> Supplier], NEW d, d.supplier \in Suppliers,
           d.kind \in {"activated", "unbondingBegin"}
    PROVE  f = [f EXCEPT ![d.supplier] = After(f[d.supplier], d)]
BY DEF After

\* An operation at the end of the block that is not the end of the delivery.
LEMMA DeliveringStill ==
    ASSUME TypeInv, NEW p, NEW to, NEW emitted, Operation(p, to, emitted), txData' = txData, Delivering'
    PROVE  Delivering /\ emitted[1].kind = "activated"
<1>1. PICK k \in {1, 2} : k = Len(emitted)
  BY DEF Operation
<1>2. CASE emitted \in Seq(TxDatum) /\ Deliver(p, to, emitted)
  <2>1. txData \in Seq(TxDatum) /\ txData' = txData \o emitted
    BY <1>2 DEF TypeInv, Deliver
  <2>2. PICK n \in Nat : n = Len(txData)
    BY <2>1, LenProperties
  <2>3. Len(txData \o emitted) = n + k
    BY <1>1, <1>2, <2>1, <2>2, ConcatProperties
  <2>4. n = n + k
    BY <2>1, <2>2, <2>3
  <2> QED
    BY <1>1, <2>4
<1>3. CASE emitted \in Seq(EndDatum) /\ Finalize(p, to, emitted)
  <2>1. PICK fin \in Seq(EndDatum) : fin = finalizedData
    BY DEF TypeInv
  <2>2. PICK new \in Seq(EndDatum) : new = fin \o emitted /\ new = finalizedData'
    BY <1>3, <2>1, ConcatProperties DEF Finalize
  <2>3. PICK n \in Nat : n = Len(fin)
    BY LenProperties
  <2>4. /\ Len(new) = n + k
        /\ \A i \in 1..n : new[i] = fin[i]
        /\ \A i \in (n + 1)..(n + k) : new[i] = emitted[i - n]
    <3>1. PICK em \in Seq(EndDatum) : em = emitted
      BY <1>3
    <3>2. /\ Len(fin \o em) = Len(fin) + Len(em)
          /\ \A i \in 1..(Len(fin) + Len(em)) :
                (fin \o em)[i] = IF i <= Len(fin) THEN fin[i] ELSE em[i - Len(fin)]
      BY ConcatProperties
    <3>3. /\ Len(fin \o em) = n + k
          /\ \A i \in 1..(n + k) : (fin \o em)[i] = IF i <= n THEN fin[i] ELSE em[i - n]
      BY <1>1, <2>3, <3>1, <3>2
    <3>4. fin \o em = new
      BY <2>2, <3>1
    <3> QED
      BY <3>1, <3>3, <3>4
  <2>5. \A i \in 1..(n + k) : new[i].kind = "activated"
    BY <2>2, <2>4, LenProperties DEF Delivering
  <2>6. emitted[1].kind = "activated"
    <3>1. n + 1 \in 1..(n + k) /\ n + 1 \in (n + 1)..(n + k) /\ (n + 1) - n = 1
      OBVIOUS
    <3> QED
      BY <2>4, <2>5, <3>1
  <2>7. \A i \in 1..n : fin[i].kind = "activated"
    <3> SUFFICES ASSUME NEW i \in 1..n PROVE fin[i].kind = "activated"
      OBVIOUS
    <3>1. i \in 1..(n + k)
      OBVIOUS
    <3> QED
      BY <2>4, <2>5, <3>1
  <2> QED
    BY <2>1, <2>3, <2>6, <2>7, LenProperties DEF Delivering
<1> QED
  BY <1>2, <1>3 DEF Operation

LEMMA LeadsGrow ==
    ASSUME TypeInv, NEW p, NEW to, NEW emitted, Operation(p, to, emitted), NEW x, Leads(x)
    PROVE  \E y : Leads(y)' /\ y[0] = x[0]
<1>1. PICK n \in Nat, t \in Nat, k \in {1, 2} : n = Len(Data) /\ t = Len(txData) /\ k = Len(emitted)
  <2>1. PICK n \in Nat, t \in Nat : n = Len(Data) /\ t = Len(txData)
    <3>1. Len(Data) \in Nat /\ Len(txData) \in Nat
      BY DataTyped
    <3> QED
      BY <3>1
  <2>2. PICK k \in {1, 2} : k = Len(emitted)
    BY DEF Operation
  <2> QED
    BY <2>1, <2>2
<1>2. t <= n
  BY <1>1, DataTyped
<1>3. Len(Data)' = n + k
  BY <1>1, DataGrow
<1>4. PICK C \in [Suppliers -> Supplier], D \in [Suppliers -> Supplier] :
         C = ChainRows /\ D = ChainRows'
  <2>1. onChain' \in [Suppliers -> ChainSupplier \cup {None}]
    BY TypeChain DEF TypeInv, TypeOK
  <2>2. ChainRows' \in [Suppliers -> Supplier]
    BY <2>1, RowOfTyped DEF ChainRows
  <2> QED
    BY <2>2, ChainRowsTyped
<1>5. PICK e : e = emitted[1]
  OBVIOUS
<1>6. /\ p \in Suppliers /\ D = [C EXCEPT ![p] = After(C[p], e)]
      /\ e \in AnyDatum /\ e.supplier = p
  <2>1. /\ p \in Suppliers
        /\ ChainRows' = [ChainRows EXCEPT ![p] = After(ChainRows[p], emitted[1])]
        /\ emitted[1] \in AnyDatum /\ emitted[1].supplier = p
    BY ChainRowsGrow
  <2> QED
    BY <1>4, <1>5, <2>1
<1>10. k = 2 => D = [D EXCEPT ![emitted[2].supplier] = After(D[emitted[2].supplier], emitted[2])]
  <2>1. PICK b : b = emitted[2]
    OBVIOUS
  <2>2. k = 2 => b.supplier = p /\ b.kind = "unbondingBegin"
    <3>1. Len(emitted) = 2 => emitted[2].supplier = p /\ emitted[2].kind = "unbondingBegin"
      BY ChainRowsGrow
    <3> QED
      BY <1>1, <2>1, <3>1
  <2>3. k = 2 => D = [D EXCEPT ![b.supplier] = After(D[b.supplier], b)]
    BY <1>4, <1>6, <2>2, NoChange
  <2> QED
    BY <2>1, <2>3
<1>7. /\ x \in [0..n -> [Suppliers -> Supplier]] /\ x[n] = C
      /\ \A i \in 1..n :
            x[i] = [x[i - 1] EXCEPT ![Data[i].supplier] = After(x[i - 1][Data[i].supplier], Data[i])]
  BY <1>1, <1>4 DEF Leads
<1>8. CASE /\ Delivering /\ Len(txData)' = t + k /\ finalizedData' = finalizedData
           /\ \A i \in 1..t : Data'[i] = Data[i]
           /\ \A i \in 1..k : Data'[t + i] = emitted[i]
           /\ \A i \in (t + 1)..n : Data'[i + k] = Data[i]
  <2>1. \A i \in t..n : x[i] = C
    BY <1>1, <1>4, <1>8 DEF Leads
  <2>2. PICK y : y = [i \in 0..(n + k) |-> IF i <= t THEN x[i] ELSE D]
    OBVIOUS
  <2>3. y \in [0..(n + k) -> [Suppliers -> Supplier]] /\ y[n + k] = D /\ y[0] = x[0]
    BY <1>2, <1>4, <1>7, <2>2
  <2>4. \A i \in (t + 1)..n : Data[i].kind = "activated" /\ Data[i].supplier \in Suppliers
    <3> SUFFICES ASSUME NEW i \in (t + 1)..n
                 PROVE  Data[i].kind = "activated" /\ Data[i].supplier \in Suppliers
      OBVIOUS
    <3>1. i - t \in DOMAIN finalizedData /\ Data[i] = finalizedData[i - t] /\ Data[i] \in AnyDatum
      BY <1>1, DataTyped
    <3> QED
      BY <1>8, <3>1, DatumFields DEF Delivering
  <2>5. ASSUME NEW i \in 1..(n + k)
        PROVE  y[i] = [y[i - 1] EXCEPT ![Data'[i].supplier] = After(y[i - 1][Data'[i].supplier], Data'[i])]
    <3>1. CASE i <= t
      <4>1. i \in 1..n /\ y[i] = x[i] /\ y[i - 1] = x[i - 1] /\ Data'[i] = Data[i]
        BY <1>2, <1>8, <2>2, <2>5, <3>1
      <4> QED
        BY <1>7, <4>1
    <3>2. CASE i = t + 1
      <4>1. y[i] = D /\ y[i - 1] = C /\ Data'[i] = e
        BY <1>2, <1>5, <1>8, <2>1, <2>2, <3>2
      <4> QED
        BY <1>6, <4>1
    <3>3. CASE i = t + 2 /\ k = 2
      <4>1. y[i] = D /\ y[i - 1] = D /\ Data'[i] = emitted[2]
        BY <1>2, <1>8, <2>2, <3>3
      <4> QED
        BY <1>10, <3>3, <4>1
    <3>4. CASE i > t + k
      <4>1. y[i] = D /\ y[i - 1] = D /\ i - k \in (t + 1)..n
        BY <1>2, <2>2, <3>4
      <4>2. Data'[i] = Data[i - k]
        BY <1>8, <4>1
      <4> QED
        BY <1>4, <2>4, <4>1, <4>2, NoChange
    <3> QED
      BY <3>1, <3>2, <3>3, <3>4
  <2>6. \A i \in (t + k)..(n + k) : y[i] = D
    BY <1>2, <2>2
  <2>7. Leads(y)'
    BY <1>3, <1>4, <1>8, <2>3, <2>5, <2>6 DEF Leads
  <2> QED
    BY <2>3, <2>7
<1>9. CASE /\ txData' = txData
           /\ \A i \in 1..n : Data'[i] = Data[i]
           /\ \A i \in 1..k : Data'[n + i] = emitted[i]
  <2>1. PICK y : y = [i \in 0..(n + k) |-> IF i <= n THEN x[i] ELSE D]
    OBVIOUS
  <2>2. y \in [0..(n + k) -> [Suppliers -> Supplier]] /\ y[n + k] = D /\ y[0] = x[0]
    BY <1>4, <1>7, <2>1
  <2>3. ASSUME NEW i \in 1..(n + k)
        PROVE  y[i] = [y[i - 1] EXCEPT ![Data'[i].supplier] = After(y[i - 1][Data'[i].supplier], Data'[i])]
    <3>1. CASE i <= n
      <4>1. i \in 1..n /\ y[i] = x[i] /\ y[i - 1] = x[i - 1] /\ Data'[i] = Data[i]
        BY <1>9, <2>1, <2>3, <3>1
      <4> QED
        BY <1>7, <4>1
    <3>2. CASE i = n + 1
      <4>1. y[i] = D /\ y[i - 1] = C /\ Data'[i] = e
        BY <1>5, <1>7, <1>9, <2>1, <3>2
      <4> QED
        BY <1>6, <4>1
    <3>3. CASE i = n + 2 /\ k = 2
      <4>1. y[i] = D /\ y[i - 1] = D /\ Data'[i] = emitted[2]
        BY <1>9, <2>1, <3>3
      <4> QED
        BY <1>10, <3>3, <4>1
    <3> QED
      BY <3>1, <3>2, <3>3
  <2>4. ASSUME Delivering' PROVE \A i \in t..(n + k) : y[i] = D
    <3>1. Delivering /\ e.kind = "activated"
      BY <1>5, <1>9, <2>4, DeliveringStill
    <3>2. D = C
      BY <1>4, <1>6, <3>1, NoChange
    <3>3. \A i \in t..n : x[i] = C
      BY <1>1, <1>4, <3>1 DEF Leads
    <3> QED
      BY <2>1, <3>2, <3>3
  <2>5. Leads(y)'
    BY <1>1, <1>3, <1>4, <1>9, <2>2, <2>3, <2>4 DEF Leads
  <2> QED
    BY <2>2, <2>5
<1> QED
  BY <1>1, <1>8, <1>9, DataGrow

NoRelative == \A i \in DOMAIN Data : ~Relative(Data[i])

\* An attempt that left rows behind computed nothing from those stored.
LeftInv ==
    /\ \A r \in Earlier(supplierRows) : r.lo = B => NoRelative
    /\ \A r \in Earlier(serviceRows) : r.lo = B => NoRelative

\* The rows of the last block: one for each supplier, with what the path begins with.
Starts(first) ==
    /\ \A r \in supplierRows : r.lo # B => r.row = first[r.id]
    /\ \A r, t \in supplierRows : r.id = t.id /\ r.lo # B /\ t.lo # B => r = t
    /\ \A p \in Suppliers : first[p] # Gone => \E r \in supplierRows : r.id = p /\ r.lo # B

\* Rows failed attempts left are of suppliers this attempt reads, and what they
\* should be.
LeftRight ==
    \A r \in Earlier(supplierRows) : r.lo = B => r.id \in SupplierIds /\ r.row = ChainRows[r.id]

\* What is known of a supplier is on the path; or, if the row read is one that an
\* attempt left, some of it is already at the end of the path.
Near(row, here, end) ==
    \/ row = here
    \/ NoRelative /\ row.stake \in {here.stake, end.stake} /\ row.status \in {here.status, end.status}

Knows(x) ==
    /\ \A p \in Suppliers :
          IF record[p].supplier = None
          THEN x[handled][p] = x[0][p] /\ p \notin toClose.suppliers
          ELSE p \in SupplierIds /\ Near(record[p].supplier, x[handled][p], ChainRows[p])
    /\ \A r \in Earlier(supplierRows) : r.id \in SupplierIds => r.id \in toClose.suppliers

RowsRight(x) == Leads(x) /\ Starts(x[0]) /\ (pc \in {"handle", "insert"} => Knows(x))

RowsInv == LeftRight /\ \E x : RowsRight(x)

LEMMA LeftInitial == Init => LeftInv
BY DEF Init, LeftInv, Earlier

\* The data and the rows of earlier attempts are the same after these steps.
LEMMA InBlockFrame ==
    ASSUME TypeInv, StageInv,
           \/ FetchSupplierData
           \/ \E p, d, row, services, closed : Handling(p, d, row, services, closed)
           \/ DeleteAndClose \/ SaveSuppliers \/ SaveServices
           \/ UNCHANGED vars
    PROVE  /\ UNCHANGED <<onChain, txData, finalizedData, height, crashes>>
           /\ Data' = Data /\ B' = B /\ SupplierIds' = SupplierIds
           /\ SuppliersToFetchServices' = SuppliersToFetchServices
           /\ NoRelative' = NoRelative /\ ChainRows' = ChainRows /\ Delivering' = Delivering
           /\ \A p : OnChain(p)' = OnChain(p)
           /\ \A kind, p : InBlock(kind, p)' = InBlock(kind, p)
           /\ Earlier(supplierRows)' = Earlier(supplierRows)
           /\ Earlier(serviceRows)' = Earlier(serviceRows)
<1>1. UNCHANGED <<onChain, txData, finalizedData, height, crashes>>
  BY DEF FetchSupplierData, Handling, DeleteAndClose, SaveSuppliers, SaveServices, vars, chainVars
<1>2. Data' = Data /\ B' = B
  BY <1>1 DEF Data, B
<1>3. /\ SupplierIds' = SupplierIds /\ SuppliersToFetchServices' = SuppliersToFetchServices
      /\ NoRelative' = NoRelative /\ ChainRows' = ChainRows /\ Delivering' = Delivering
      /\ \A p : OnChain(p)' = OnChain(p)
      /\ \A kind, p : InBlock(kind, p)' = InBlock(kind, p)
  BY <1>1, <1>2 DEF SupplierIds, SuppliersToFetchServices, Named, NoRelative, Relative, ChainRows,
                    Delivering, OnChain, InBlock
<1>4. /\ Earlier(supplierRows)' = Earlier(supplierRows)
      /\ Earlier(serviceRows)' = Earlier(serviceRows)
  <2>1. CASE UNCHANGED tables
    BY <1>1, <1>2, <2>1 DEF Earlier, tables
  <2>2. CASE SaveSuppliers \/ SaveServices
    <3>1. /\ supplierRows' \in {supplierRows, supplierRows \cup SuppliersToSave}
          /\ serviceRows' \in {serviceRows, serviceRows \cup ServicesToSave}
      BY <2>2 DEF SaveSuppliers, SaveServices
    <3> QED
      BY <1>1, <1>2, <3>1, SavedLater DEF Earlier
  <2>3. UNCHANGED tables \/ SaveSuppliers \/ SaveServices
    BY DEF FetchSupplierData, Handling, DeleteAndClose, vars, tables
  <2> QED
    BY <2>1, <2>2, <2>3
<1> QED
  BY <1>1, <1>2, <1>3, <1>4

LEMMA LeftKept == ~RetryRelative /\ TypeInv /\ StageInv /\ LeftInv /\ [Next]_vars => LeftInv'
<1> SUFFICES ASSUME TypeInv, StageInv, LeftInv, ~RetryRelative, [Next]_vars PROVE LeftInv'
  OBVIOUS
<1>1. CASE \/ FetchSupplierData
           \/ \E p, d, row, services, closed : Handling(p, d, row, services, closed)
           \/ DeleteAndClose \/ SaveSuppliers \/ SaveServices
           \/ UNCHANGED vars
  BY <1>1, InBlockFrame DEF LeftInv
<1>2. ASSUME NEW p, NEW to, NEW emitted, Operation(p, to, emitted) PROVE LeftInv'
  <2>1. pc = "chain" /\ UNCHANGED <<height, crashes, tables>>
    BY <1>2 DEF Operation, Deliver, Finalize, Store
  <2>2. (\A r \in supplierRows : r.lo # B) /\ (\A r \in serviceRows : r.lo # B)
    BY <2>1 DEF StageInv, Staged
  <2> QED
    BY <2>1, <2>2 DEF LeftInv, Earlier, tables, B
<1>3. CASE Commit
  <2>1. StageInv' /\ pc' = "chain"
    BY <1>3, StageKept DEF Commit, Next, IndexSupplier
  <2> QED
    BY <2>1 DEF LeftInv, Earlier, StageInv, Staged
<1>4. CASE Crash
  <2>1. /\ UNCHANGED <<chainVars, height, tables>>
        /\ ~Left \/ NoRelative
    BY <1>4 DEF Crash, NoRelative
  <2>2. B' = B /\ NoRelative' = NoRelative
    BY <2>1 DEF B, NoRelative, Relative, Data, chainVars
  <2> QED
    BY <2>1, <2>2 DEF LeftInv, Earlier, Left, tables
<1> QED
  BY <1>1, <1>2, <1>3, <1>4, Steps

\* None of these steps touches the rows of earlier attempts or what they are to become.
LEMMA RowsFrame ==
    ASSUME Data' = Data, B' = B, SupplierIds' = SupplierIds, ChainRows' = ChainRows,
           Delivering' = Delivering, txData' = txData,
           Earlier(supplierRows)' = Earlier(supplierRows)
    PROVE  /\ LeftRight => LeftRight'
           /\ \A x : Leads(x) => Leads(x)'
           /\ \A x : Starts(x[0]) => Starts(x[0])'
<1>1. LeftRight => LeftRight'
  BY DEF LeftRight
<1>2. ASSUME NEW x, Leads(x) PROVE Leads(x)'
  BY <1>2 DEF Leads
<1>3. ASSUME NEW x, Starts(x[0]) PROVE Starts(x[0])'
  <2>1. \A r : r.lo # B => (r \in supplierRows' <=> r \in supplierRows)
    BY DEF Earlier
  <2> QED
    BY <1>3, <2>1 DEF Starts
<1> QED
  BY <1>1, <1>2, <1>3

LEMMA RowsInitial == Init => RowsInv
<1> SUFFICES ASSUME Init PROVE RowsInv
  OBVIOUS
<1>1. /\ onChain = [p \in Suppliers |-> None] /\ txData = <<>> /\ finalizedData = <<>>
      /\ supplierRows = {} /\ pc = "chain"
  BY DEF Init
<1>2. LeftRight
  BY <1>1 DEF LeftRight, Earlier
<1>3. Len(Data) = 0 /\ Len(txData) = 0
  BY <1>1 DEF Data
<1>4. ChainRows = [p \in Suppliers |-> Gone]
  BY <1>1 DEF ChainRows, RowOf
<1>5. PICK x : x = [i \in {0} |-> ChainRows]
  OBVIOUS
<1>6. ChainRows \in [Suppliers -> Supplier]
  BY <1>4, GoneTyped
<1>7. Leads(x)
  <2>1. 0..0 = {0} /\ 1..0 = {}
    OBVIOUS
  <2>2. x \in [0..0 -> [Suppliers -> Supplier]] /\ x[0] = ChainRows
    BY <1>5, <1>6, <2>1
  <2> QED
    BY <1>3, <2>1, <2>2 DEF Leads
<1>8. Starts(x[0])
  BY <1>1, <1>4, <1>5 DEF Starts
<1> QED
  BY <1>1, <1>2, <1>7, <1>8 DEF RowsInv, RowsRight

LEMMA RowsGrow ==
    ASSUME TypeInv, StageInv, RowsInv, NEW p, NEW to, NEW emitted, Operation(p, to, emitted)
    PROVE  RowsInv'
<1>1. pc = "chain" /\ pc' = pc /\ UNCHANGED <<height, crashes, supplierRows>>
  BY DEF Operation, Deliver, Finalize, Store, tables
<1>2. \A r \in supplierRows : r.lo # B
  BY <1>1 DEF StageInv, Staged
<1>3. B' = B
  BY <1>1 DEF B
<1>4. LeftRight'
  BY <1>1, <1>2, <1>3 DEF LeftRight, Earlier
<1>5. PICK x : Leads(x) /\ Starts(x[0])
  BY DEF RowsInv, RowsRight
<1>6. PICK y : Leads(y)' /\ y[0] = x[0]
  BY <1>5, LeadsGrow
<1>7. Starts(y[0])'
  BY <1>1, <1>3, <1>5, <1>6 DEF Starts
<1> QED
  BY <1>1, <1>4, <1>6, <1>7 DEF RowsInv, RowsRight

\* The rows read are those of the last block, or what a failed attempt left.
LEMMA RowsFetch ==
    ASSUME TypeInv, StageInv, LeftInv, RowsInv, FetchSupplierData
    PROVE  RowsInv'
<1>1. /\ pc \in {"chain", "begin"} /\ pc' = "handle" /\ handled = 0 /\ handled' = 0
  BY DEF FetchSupplierData, StageInv
<1>2. /\ UNCHANGED <<onChain, txData, finalizedData, height, crashes>>
      /\ Data' = Data /\ B' = B /\ SupplierIds' = SupplierIds /\ NoRelative' = NoRelative
      /\ ChainRows' = ChainRows /\ Delivering' = Delivering
      /\ Earlier(supplierRows)' = Earlier(supplierRows)
  BY InBlockFrame
<1>3. PICK x : Leads(x) /\ Starts(x[0])
  BY DEF RowsInv, RowsRight
<1>4. LeftRight' /\ Leads(x)' /\ Starts(x[0])'
  BY <1>2, <1>3, RowsFrame DEF RowsInv
<1>5. PICK S \in Readings({r \in supplierRows : r.id \in SupplierIds}) :
        /\ \A p \in Suppliers : record'[p].supplier =
              IF \E r \in S : r.id = p THEN (CHOOSE r \in S : r.id = p).row ELSE None
        /\ toClose'.suppliers = {r.id : r \in S}
  <2>1. PICK S \in Readings({r \in supplierRows : r.id \in SupplierIds}),
             V \in Readings({r \in serviceRows : r.id[1] \in SuppliersToFetchServices}) :
          /\ record' = [p \in Suppliers |->
               [supplier |-> IF \E r \in S : r.id = p
                             THEN (CHOOSE r \in S : r.id = p).row ELSE None,
                services |-> [s \in Services |->
                   IF \E r \in V : r.id = <<p, s>>
                   THEN (CHOOSE r \in V : r.id = <<p, s>>).activated ELSE None]]]
          /\ toClose' = [suppliers |-> {r.id : r \in S}, services |-> {}]
    BY Zenon DEF FetchSupplierData
  <2>2. \A p \in Suppliers : record'[p].supplier =
              IF \E r \in S : r.id = p THEN (CHOOSE r \in S : r.id = p).row ELSE None
    BY <2>1
  <2>3. toClose'.suppliers = {r.id : r \in S}
    BY <2>1
  <2> QED
    BY <2>2, <2>3
<1>6. Earlier(supplierRows) = supplierRows
  BY <1>1, AllEarlier
<1>7. /\ \A r \in S : r \in supplierRows /\ r.id \in SupplierIds
      /\ \A r \in supplierRows : r.id \in SupplierIds => \E t \in S : t.id = r.id
  BY <1>5 DEF Readings
<1>8. ASSUME NEW p \in Suppliers, ~ \E r \in S : r.id = p
      PROVE  record'[p].supplier = None /\ p \notin toClose'.suppliers
  BY <1>5, <1>8
<1>9. ASSUME NEW p \in Suppliers, \E r \in S : r.id = p
      PROVE  /\ record'[p].supplier # None /\ p \in SupplierIds
             /\ Near(record'[p].supplier, x[0][p], ChainRows[p])
  <2>1. PICK r : r = CHOOSE t \in S : t.id = p
    OBVIOUS
  <2>2. r \in S /\ r.id = p
    BY <1>9, <2>1
  <2>3. record'[p].supplier = r.row
    BY <1>5, <1>9, <2>1
  <2>4. r \in supplierRows /\ p \in SupplierIds /\ r.row # None
    BY <1>7, <2>2, RowsTyped, NoneIsNone
  <2>5. CASE r.lo # B
    <3>1. r.row = x[0][p]
      BY <1>3, <2>2, <2>4, <2>5 DEF Starts
    <3> QED
      BY <2>3, <2>4, <3>1 DEF Near
  <2>6. CASE r.lo = B
    <3>1. NoRelative /\ r.row = ChainRows[p]
      BY <1>6, <2>2, <2>4, <2>6 DEF LeftInv, LeftRight, RowsInv
    <3> QED
      BY <2>3, <2>4, <3>1 DEF Near
  <2> QED
    BY <2>5, <2>6
<1>10. Knows(x)'
  <2>1. ASSUME NEW p \in Suppliers
        PROVE  IF record'[p].supplier = None
               THEN x[handled'][p] = x[0][p] /\ p \notin toClose'.suppliers
               ELSE p \in SupplierIds /\ Near(record'[p].supplier, x[handled'][p], ChainRows[p])
    BY <1>1, <1>8, <1>9
  <2>2. \A r \in Earlier(supplierRows) : r.id \in SupplierIds => r.id \in toClose'.suppliers
    BY <1>5, <1>6, <1>7
  <2>3. \A row, here, end : Near(row, here, end)' = Near(row, here, end)
    BY <1>2 DEF Near
  <2> QED
    BY <1>2, <2>1, <2>2 DEF Knows, Near
<1> QED
  BY <1>4, <1>10 DEF RowsInv, RowsRight

\* A datum takes what is known of its supplier one step further along the path.
LEMMA NearAfter ==
    ASSUME NEW d \in AnyDatum, NEW row, NEW here, NEW end,
           Near(row, here, end), NoRelative => ~Relative(d)
    PROVE  Near(After(row, d), After(here, d), end)
<1>1. CASE row = here
  BY <1>1 DEF Near
<1>2. CASE NoRelative /\ row.stake \in {here.stake, end.stake} /\ row.status \in {here.status, end.status}
  <2>1. ~Relative(d)
    BY <1>2
  <2>2. d.kind # "claim" /\ d.kind # "activated" /\ (d.kind = "slashed" => d.after # None)
    BY <2>1 DEF Relative
  <2>3. CASE d.kind \in {"stake", "unstake", "slashed"}
    <3>1. PICK n, m, s, t :
            /\ n = (IF d.kind = "stake" THEN IF d.stake # None THEN d.stake ELSE row.stake
                    ELSE IF d.kind = "unstake" THEN row.stake ELSE d.after)
            /\ m = (IF d.kind = "stake" THEN IF d.stake # None THEN d.stake ELSE here.stake
                    ELSE IF d.kind = "unstake" THEN here.stake ELSE d.after)
            /\ s = (IF d.kind = "stake" THEN "Staked" ELSE IF d.kind = "unstake" THEN "Unstaking"
                    ELSE row.status)
            /\ t = (IF d.kind = "stake" THEN "Staked" ELSE IF d.kind = "unstake" THEN "Unstaking"
                    ELSE here.status)
      OBVIOUS
    <3>2. After(row, d) = [stake |-> n, status |-> s] /\ After(here, d) = [stake |-> m, status |-> t]
      BY <2>2, <2>3, <3>1 DEF After
    <3>3. n \in {m, end.stake} /\ s \in {t, end.status}
      BY <1>2, <2>3, <3>1
    <3> QED
      BY <1>2, <3>2, <3>3 DEF Near
  <2>4. CASE d.kind = "unbondingEnd"
    BY <2>4 DEF After, Near
  <2>5. CASE d.kind \notin {"stake", "claim", "unstake", "slashed", "unbondingEnd"}
    BY <1>2, <2>5 DEF After, Near
  <2> QED
    BY <2>2, <2>3, <2>4, <2>5
<1> QED
  BY <1>1, <1>2 DEF Near

\* What a handler makes of a supplier is the next row of the path.
LEMMA RowsHandled ==
    ASSUME TypeInv, StageInv, RowsInv,
           NEW p, NEW d, NEW row, NEW services, NEW closed, Handling(p, d, row, services, closed)
    PROVE  RowsInv'
<1>1. /\ pc = "handle" /\ pc' = "handle" /\ handled < Len(Data) /\ handled' = handled + 1
      /\ d = Data[handled + 1] /\ d \in AnyDatum /\ p = d.supplier /\ p \in Suppliers
      /\ toClose'.suppliers = toClose.suppliers
  BY DatumFields DEF Handling, TypeInv, Ids
<1>2. /\ UNCHANGED <<onChain, txData, finalizedData, height, crashes>>
      /\ Data' = Data /\ B' = B /\ SupplierIds' = SupplierIds /\ NoRelative' = NoRelative
      /\ ChainRows' = ChainRows /\ Delivering' = Delivering
      /\ Earlier(supplierRows)' = Earlier(supplierRows)
  BY InBlockFrame
<1>3. PICK x : Leads(x) /\ Starts(x[0]) /\ Knows(x)
  BY <1>1 DEF RowsInv, RowsRight
<1>4. LeftRight' /\ Leads(x)' /\ Starts(x[0])'
  BY <1>2, <1>3, RowsFrame DEF RowsInv
<1>5. /\ handled + 1 \in 1..Len(Data) /\ handled + 1 \in DOMAIN Data
      /\ handled \in 0..Len(Data) /\ (handled + 1) - 1 = handled
  BY <1>1, DataTyped DEF TypeInv, TypeOK
<1>6. /\ x[handled + 1] = [x[handled] EXCEPT ![p] = After(x[handled][p], d)]
      /\ x[handled] \in [Suppliers -> Supplier]
  BY <1>1, <1>3, <1>5 DEF Leads
<1>7. /\ x[handled + 1][p] = After(x[handled][p], d)
      /\ \A q \in Suppliers : q # p => x[handled + 1][q] = x[handled][q]
  BY <1>1, <1>6
<1>8. /\ record'[p].supplier = row
      /\ \A q \in Suppliers : q # p => record'[q] = record[q]
      /\ NewRow(record[p].supplier, d, row) /\ row \in Supplier \cup {None}
  <2>1. record \in [Suppliers -> Record]
    BY DEF TypeInv, TypeOK
  <2> QED
    BY <1>1, <2>1 DEF Handling
<1>9. d.kind # "activated" => p \in SupplierIds
  BY <1>1, <1>5, DatumFields DEF SupplierIds, Named
<1>10. IF row = None
       THEN x[handled + 1][p] = x[0][p] /\ p \notin toClose.suppliers
       ELSE p \in SupplierIds /\ Near(row, x[handled + 1][p], ChainRows[p])
  <2>1. CASE record[p].supplier = None /\ d.kind = "activated"
    <3>1. row = None
      BY <1>8, <2>1 DEF NewRow
    <3>2. x[handled + 1][p] = x[handled][p]
      BY <1>7, <2>1 DEF After
    <3> QED
      BY <1>1, <1>3, <2>1, <3>1, <3>2 DEF Knows
  <2>2. CASE record[p].supplier = None /\ d.kind # "activated"
    <3>1. x[handled][p] = x[0][p] /\ p \notin toClose.suppliers /\ p \in SupplierIds
      BY <1>1, <1>3, <1>9, <2>2 DEF Knows
    <3>2. x[0][p] = Gone
      <4> SUFFICES ASSUME x[0][p] # Gone PROVE FALSE
        OBVIOUS
      <4>1. PICK r \in supplierRows : r.id = p /\ r.lo # B
        BY <1>1, <1>3 DEF Starts
      <4>2. r \in Earlier(supplierRows)
        BY <4>1 DEF Earlier
      <4> QED
        BY <1>3, <3>1, <4>1, <4>2 DEF Knows
    <3>3. row = After(Gone, d)
      BY <1>8, <2>2 DEF NewRow
    <3>4. row # None
      BY <1>1, <3>3, AfterTyped, GoneTyped, NoneIsNone
    <3> QED
      BY <1>7, <3>1, <3>2, <3>3, <3>4 DEF Near
  <2>3. CASE record[p].supplier # None
    <3>1. p \in SupplierIds /\ Near(record[p].supplier, x[handled][p], ChainRows[p])
      BY <1>1, <1>3, <2>3 DEF Knows
    <3>2. row = After(record[p].supplier, d)
      BY <1>8, <2>3 DEF NewRow
    <3>3. row # None
      <4>1. record[p].supplier \in Supplier
        BY <1>1, <2>3, RecordTyped
      <4> QED
        BY <1>1, <3>2, <4>1, AfterTyped, NoneIsNone
    <3>4. NoRelative => ~Relative(d)
      BY <1>1, <1>5 DEF NoRelative
    <3>5. Near(row, x[handled + 1][p], ChainRows[p])
      BY <1>1, <1>7, <3>1, <3>2, <3>4, NearAfter
    <3> QED
      BY <3>1, <3>3, <3>5
  <2> QED
    BY <2>1, <2>2, <2>3
<1>11. Knows(x)'
  <2>1. ASSUME NEW q \in Suppliers
        PROVE  IF record'[q].supplier = None
               THEN x[handled'][q] = x[0][q] /\ q \notin toClose'.suppliers
               ELSE q \in SupplierIds /\ Near(record'[q].supplier, x[handled'][q], ChainRows[q])
    <3>1. CASE q = p
      BY <1>1, <1>8, <1>10, <3>1
    <3>2. CASE q # p
      BY <1>1, <1>3, <1>7, <1>8, <3>2 DEF Knows
    <3> QED
      BY <3>1, <3>2
  <2>2. \A r \in Earlier(supplierRows) : r.id \in SupplierIds => r.id \in toClose'.suppliers
    BY <1>1, <1>3 DEF Knows
  <2> QED
    BY <1>2, <2>1, <2>2 DEF Knows, Near
<1> QED
  BY <1>1, <1>4, <1>11 DEF RowsInv, RowsRight

LEMMA RowsWrites ==
    ASSUME TypeInv, StageInv, RowsInv, DeleteAndClose \/ SaveSuppliers \/ SaveServices \/ UNCHANGED vars
    PROVE  RowsInv'
<1>1. /\ Data' = Data /\ B' = B /\ SupplierIds' = SupplierIds /\ NoRelative' = NoRelative
      /\ ChainRows' = ChainRows /\ Delivering' = Delivering /\ txData' = txData
      /\ Earlier(supplierRows)' = Earlier(supplierRows)
  BY InBlockFrame
<1>2. PICK x : RowsRight(x)
  BY DEF RowsInv
<1>3. LeftRight' /\ Leads(x)' /\ Starts(x[0])'
  BY <1>1, <1>2, RowsFrame DEF RowsInv, RowsRight
<1>4. /\ record' = record /\ toClose' = toClose /\ handled' = handled
      /\ pc' \in {"handle", "insert"} => pc \in {"handle", "insert"}
  BY DEF DeleteAndClose, SaveSuppliers, SaveServices, vars, memory
<1>5. Knows(x) => Knows(x)'
  BY <1>1, <1>4 DEF Knows, Near
<1> QED
  BY <1>2, <1>3, <1>4, <1>5 DEF RowsInv, RowsRight

\* When all data are handled, what is to be saved is what the chain has.
LEMMA SavedRight ==
    ASSUME TypeInv, StageInv, pc = "insert", NEW x, Leads(x), Knows(x)
    PROVE  /\ \A p \in Suppliers : record[p].supplier # None =>
                 p \in SupplierIds /\ record[p].supplier = ChainRows[p]
           /\ \A p \in Suppliers : record[p].supplier = None => ChainRows[p] = x[0][p]
           /\ \A r \in SuppliersToSave :
                 /\ r.id \in Suppliers /\ record[r.id].supplier # None
                 /\ r.row = ChainRows[r.id]
<1>1. x[handled] = ChainRows
  BY DEF StageInv, Leads
<1>2. ASSUME NEW p \in Suppliers, record[p].supplier # None
      PROVE  p \in SupplierIds /\ record[p].supplier = ChainRows[p]
  <2>1. p \in SupplierIds /\ Near(record[p].supplier, ChainRows[p], ChainRows[p])
    BY <1>1, <1>2 DEF Knows
  <2>2. record[p].supplier \in Supplier /\ ChainRows[p] \in Supplier
    BY <1>2, RecordTyped, ChainRowsTyped
  <2>3. PICK row \in Supplier, end \in Supplier : row = record[p].supplier /\ end = ChainRows[p]
    BY <2>2
  <2>4. row = end
    BY <2>1, <2>3 DEF Near, Supplier
  <2> QED
    BY <2>1, <2>3, <2>4
<1>3. \A p \in Suppliers : record[p].supplier = None => ChainRows[p] = x[0][p]
  BY <1>1 DEF Knows
<1>4. ASSUME NEW r \in SuppliersToSave
      PROVE  r.id \in Suppliers /\ record[r.id].supplier # None /\ r.row = record[r.id].supplier
  BY <1>4 DEF SuppliersToSave
<1> QED
  BY <1>2, <1>3, <1>4

\* The block transaction leaves one row for each supplier, its own or an older one.
LEMMA RowsCommit ==
    ASSUME TypeInv, StageInv, RowsInv, Commit
    PROVE  RowsInv'
<1>1. /\ pc = "insert" /\ SuppliersToSave \subseteq supplierRows
      /\ supplierRows' = supplierRows \ dropped.suppliers
      /\ height' = height + 1 /\ txData' = <<>> /\ finalizedData' = <<>> /\ onChain' = onChain
      /\ pc' = "chain"
  BY DEF Commit, B
<1>2. PICK x : Leads(x) /\ Starts(x[0]) /\ Knows(x)
  BY <1>1 DEF RowsInv, RowsRight
<1>3. dropped.suppliers = Dropped(Earlier(supplierRows), SuppliersToSave, toClose.suppliers)
  BY <1>1 DEF StageInv, DroppedRight
<1>4. /\ \A p \in Suppliers : record[p].supplier # None => p \in SupplierIds
      /\ \A p \in Suppliers : record[p].supplier = None => ChainRows[p] = x[0][p]
      /\ \A r \in SuppliersToSave :
            /\ r.id \in Suppliers /\ record[r.id].supplier # None
            /\ r.row = ChainRows[r.id]
  BY <1>1, <1>2, SavedRight
<1>5. ASSUME NEW r \in supplierRows, r \notin dropped.suppliers
      PROVE  \/ r \in SuppliersToSave
             \/ r.lo # B /\ r.id \in Suppliers /\ r.id \notin SupplierIds
  <2>1. CASE r \in Earlier(supplierRows)
    <3>1. r.id \notin toClose.suppliers
      BY <1>3, <1>5, <2>1 DEF Dropped
    <3>2. r.id \notin SupplierIds
      BY <1>2, <2>1, <3>1 DEF Knows
    <3>3. r.lo # B
      BY <2>1, <3>2 DEF RowsInv, LeftRight
    <3> QED
      BY <3>2, <3>3, RowsTyped
  <2>2. CASE r \notin Earlier(supplierRows)
    BY <1>5, <2>2 DEF Earlier, StageInv, Staged
  <2> QED
    BY <2>1, <2>2
<1>6. ASSUME NEW r \in supplierRows, r.lo # B, r.id \in Suppliers, r.id \notin SupplierIds
      PROVE  r.row = ChainRows[r.id]
  BY <1>2, <1>4, <1>6 DEF Starts
<1>7. \A r, t \in supplierRows : r.id = t.id /\ r.lo # B /\ t.lo # B => r = t
  BY <1>2 DEF Starts
<1>8. \A r, t \in SuppliersToSave : r.id = t.id => r = t
  BY DEF SuppliersToSave
<1>9. ASSUME NEW p \in Suppliers, ChainRows[p] # Gone
      PROVE  \E r \in supplierRows' : r.id = p
  <2>1. CASE record[p].supplier # None
    <3>1. PICK r : r = [id |-> p, row |-> record[p].supplier, lo |-> B, att |-> crashes]
      OBVIOUS
    <3>2. r \in SuppliersToSave /\ r.id = p
      BY <2>1, <3>1 DEF SuppliersToSave
    <3>3. r \notin Earlier(supplierRows)
      BY <3>1 DEF Earlier
    <3>4. r \notin dropped.suppliers
      BY <1>3, <3>3 DEF Dropped
    <3> QED
      BY <1>1, <3>2, <3>4
  <2>2. CASE record[p].supplier = None
    <3>1. PICK r \in supplierRows : r.id = p /\ r.lo # B
      BY <1>2, <1>4, <1>9, <2>2 DEF Starts
    <3>2. p \notin toClose.suppliers
      BY <1>2, <2>2 DEF Knows
    <3>3. r \notin dropped.suppliers
      BY <1>3, <3>1, <3>2 DEF Dropped
    <3> QED
      BY <1>1, <3>1, <3>3
  <2> QED
    BY <2>1, <2>2
<1>10. B' = B + 1 /\ B \in Nat
  BY <1>1, RowsTyped DEF B
<1>11. \A r \in supplierRows' : r.lo # B'
  BY <1>1, <1>10, RowsTyped DEF StageInv, Staged
<1>12. ChainRows' = ChainRows
  BY <1>1 DEF ChainRows, RowOf
<1>13. PICK y : y = [i \in {0} |-> ChainRows]
  OBVIOUS
<1>14. Starts(y[0])'
  <2>1. \A r \in supplierRows' : r.row = ChainRows[r.id]
    BY <1>1, <1>4, <1>5, <1>6
  <2>2. \A r, t \in supplierRows' : r.id = t.id => r = t
    BY <1>1, <1>4, <1>5, <1>7, <1>8
  <2>3. y[0] = ChainRows
    BY <1>13
  <2> QED
    BY <1>9, <1>11, <2>1, <2>2, <2>3 DEF Starts
<1>15. Leads(y)'
  <2>1. 0..0 = {0} /\ 1..0 = {}
    OBVIOUS
  <2>2. y \in [0..0 -> [Suppliers -> Supplier]] /\ y[0] = ChainRows
    BY <1>13, <2>1, ChainRowsTyped
  <2>3. Len(Data)' = 0 /\ Len(txData)' = 0
    BY <1>1 DEF Data
  <2> QED
    BY <1>12, <2>1, <2>2, <2>3 DEF Leads
<1>16. LeftRight'
  BY <1>11 DEF LeftRight, Earlier
<1> QED
  BY <1>1, <1>14, <1>15, <1>16 DEF RowsInv, RowsRight

\* What a failed attempt inserted is what the chain has: it had handled all data.
LEMMA RowsCrash ==
    ASSUME TypeInv, StageInv, RowsInv, Crash
    PROVE  RowsInv'
<1>1. /\ pc \in {"handle", "insert"} /\ pc' = "begin" /\ crashes' = crashes + 1
      /\ UNCHANGED <<onChain, txData, finalizedData, height, supplierRows>>
  BY DEF Crash, chainVars, tables
<1>2. Data' = Data /\ B' = B
  BY <1>1 DEF Data, B
<1>3. SupplierIds' = SupplierIds /\ ChainRows' = ChainRows /\ Delivering' = Delivering
  BY <1>1, <1>2 DEF SupplierIds, Named, ChainRows, Delivering
<1>4. PICK x : Leads(x) /\ Starts(x[0]) /\ Knows(x)
  BY <1>1 DEF RowsInv, RowsRight
<1>5. Leads(x)' /\ Starts(x[0])'
  BY <1>1, <1>2, <1>3, <1>4 DEF Leads, Starts
<1>6. ASSUME NEW r \in supplierRows, r.lo = B
      PROVE  r.id \in SupplierIds /\ r.row = ChainRows[r.id]
  <2>1. CASE r \in Earlier(supplierRows)
    BY <1>6, <2>1 DEF RowsInv, LeftRight
  <2>2. CASE r \notin Earlier(supplierRows)
    <3>1. pc = "insert" /\ r \in SuppliersToSave
      BY <1>6, <2>2 DEF Earlier, StageInv, Staged
    <3> QED
      BY <1>4, <3>1, SavedRight
  <2> QED
    BY <2>1, <2>2
<1>7. LeftRight'
  BY <1>1, <1>2, <1>3, <1>6 DEF LeftRight, Earlier
<1> QED
  BY <1>1, <1>5, <1>7 DEF RowsInv, RowsRight

LEMMA RowsKept ==
    TypeInv /\ StageInv /\ LeftInv /\ RowsInv /\ [Next]_vars => RowsInv'
<1> SUFFICES ASSUME TypeInv, StageInv, LeftInv, RowsInv, [Next]_vars PROVE RowsInv'
  OBVIOUS
<1>1. CASE Next
  BY <1>1, Steps, RowsGrow, RowsFetch, RowsHandled, RowsWrites, RowsCommit, RowsCrash
<1>2. CASE UNCHANGED vars
  BY <1>2, RowsWrites
<1> QED
  BY <1>1, <1>2

\* The invariants together, of attempts that compute nothing from rows a failed one left.
Attempts == ~RetryRelative /\ TypeInv /\ StageInv /\ LeftInv /\ RowsInv

LEMMA AttemptsHold == ~RetryRelative /\ Spec => []Attempts
<1>1. ~RetryRelative /\ Init => Attempts
  BY TypeInitial, StageInitial, LeftInitial, RowsInitial DEF Attempts
<1>2. Attempts /\ [Next]_vars => Attempts'
  <2> SUFFICES ASSUME Attempts, [Next]_vars PROVE Attempts'
    OBVIOUS
  <2>1. ~RetryRelative /\ TypeInv /\ StageInv /\ LeftInv /\ RowsInv
    BY DEF Attempts
  <2>2. TypeInv' /\ StageInv'
    BY <2>1, TypeKept, StageKept
  <2>3. LeftInv'
    BY <2>1, LeftKept
  <2>4. RowsInv'
    BY <2>1, RowsKept
  <2> QED
    BY <2>1, <2>2, <2>3, <2>4 DEF Attempts
<1> QED
  BY <1>1, <1>2, PTL DEF Spec

\* After every block a supplier has the row the chain's store calls for, whatever
\* attempts failed before and left their rows, for any data; of attempts that compute
\* nothing from such rows (indexSupplier).
THEOREM SuppliersCorrect == ~RetryRelative /\ Spec => []SuppliersMatchChain
<1>1. ASSUME Attempts PROVE SuppliersMatchChain
  <2>1. TypeInv /\ StageInv /\ RowsInv
    BY <1>1 DEF Attempts
  <2> SUFFICES ASSUME Indexed, NEW p \in Suppliers
               PROVE  IF OnChain(p)
                      THEN One(supplierRows, p) /\ InForce(p) = {RowOf(onChain[p])}
                      ELSE InForce(p) # {} => One(supplierRows, p) /\ InForce(p) = {Gone}
    BY DEF SuppliersMatchChain, OnChain, RowOf, Gone
  <2>2. pc = "chain" /\ Len(Data) = 0
    BY DEF Indexed
  <2>3. PICK x : Leads(x) /\ Starts(x[0])
    BY <2>1 DEF RowsInv, RowsRight
  <2>4. x[0] = ChainRows
    BY <2>2, <2>3 DEF Leads
  <2>5. \A r \in supplierRows : r.lo # B
    BY <2>1, <2>2 DEF StageInv, Staged
  <2>6. /\ \A r \in supplierRows : r.id = p => r.row = RowOf(onChain[p])
        /\ \A r, t \in supplierRows : r.id = t.id => r = t
        /\ RowOf(onChain[p]) # Gone => \E r \in supplierRows : r.id = p
    BY <2>3, <2>4, <2>5 DEF Starts, ChainRows
  <2>7. OnChain(p) => RowOf(onChain[p]) # Gone
    BY DEF OnChain, RowOf, Gone
  <2>8. ASSUME NEW r \in supplierRows, r.id = p
        PROVE  One(supplierRows, p) /\ InForce(p) = {RowOf(onChain[p])}
    <3>1. {t \in supplierRows : t.id = p} = {r}
      BY <2>6, <2>8
    <3>2. One(supplierRows, p)
      BY <3>1, FS_Singleton DEF One
    <3>3. InForce(p) = {r.row}
      BY <3>1 DEF InForce
    <3> QED
      BY <2>6, <2>8, <3>2, <3>3
  <2>9. InForce(p) # {} => \E r \in supplierRows : r.id = p
    BY DEF InForce
  <2>10. ~OnChain(p) => RowOf(onChain[p]) = Gone
    BY DEF OnChain, RowOf
  <2> QED
    BY <2>6, <2>7, <2>8, <2>9, <2>10
<1> QED
  BY <1>1, AttemptsHold, PTL

-----------------------------------------------------------------------------
(* Services *)

Renews(d, p) == d.kind \in {"stake", "claim"} /\ d.supplier = p

\* A message of the block stakes the services of p anew.
Renewed(p) == \E j \in 1..Len(txData) : Renews(txData[j], p)

\* What the data of the block say of a supplier of the chain: what it last staked is
\* what it has, and neither an activation nor the end of its unbonding go with that.
ChainBlock(p) ==
    /\ Renewed(p) => /\ OnChain(p) /\ onChain[p].pending
                     /\ ~InBlock("activated", p) /\ ~InBlock("unbondingEnd", p)
                     /\ onChain[p].unbonding # "no" => InBlock("unbondingBegin", p)
    /\ \A j \in 1..Len(txData) :
          Renews(txData[j], p) /\ (\A i \in (j + 1)..Len(txData) : ~Renews(txData[i], p))
              => onChain[p].services = txData[j].services
    /\ InBlock("activated", p) /\ OnChain(p) => ~onChain[p].pending
    /\ InBlock("unbondingEnd", p) => ~OnChain(p)

ChainBlockInv == \A p \in Suppliers : ChainBlock(p)

LEMMA InBlockGrow ==
    ASSUME TypeInv, NEW p, NEW to, NEW emitted, Operation(p, to, emitted)
    PROVE  \A kind, q : InBlock(kind, q)' <=>
              InBlock(kind, q) \/ \E m \in 1..Len(emitted) : emitted[m].kind = kind /\ q = p
<1>1. PICK n \in Nat, t \in Nat, k \in {1, 2} : n = Len(Data) /\ t = Len(txData) /\ k = Len(emitted)
  <2>1. PICK n \in Nat, t \in Nat : n = Len(Data) /\ t = Len(txData)
    <3>1. Len(Data) \in Nat /\ Len(txData) \in Nat
      BY DataTyped
    <3> QED
      BY <3>1
  <2>2. PICK k \in {1, 2} : k = Len(emitted)
    BY DEF Operation
  <2> QED
    BY <2>1, <2>2
<1>2. /\ Len(Data)' = n + k /\ t <= n
      /\ \/ /\ \A i \in 1..t : Data'[i] = Data[i]
            /\ \A i \in 1..k : Data'[t + i] = emitted[i]
            /\ \A i \in (t + 1)..n : Data'[i + k] = Data[i]
         \/ /\ \A i \in 1..n : Data'[i] = Data[i]
            /\ \A i \in 1..k : Data'[n + i] = emitted[i]
  <2>1. t <= n
    BY <1>1, DataTyped
  <2>2. Len(Data)' = n + k
    BY <1>1, DataGrow
  <2>3. \/ /\ \A i \in 1..t : Data'[i] = Data[i]
           /\ \A i \in 1..k : Data'[t + i] = emitted[i]
           /\ \A i \in (t + 1)..n : Data'[i + k] = Data[i]
        \/ /\ \A i \in 1..n : Data'[i] = Data[i]
           /\ \A i \in 1..k : Data'[n + i] = emitted[i]
    <3>1. \/ /\ \A i \in 1..Len(txData) : Data'[i] = Data[i]
             /\ \A i \in 1..Len(emitted) : Data'[Len(txData) + i] = emitted[i]
             /\ \A i \in (Len(txData) + 1)..Len(Data) : Data'[i + Len(emitted)] = Data[i]
          \/ /\ \A i \in 1..Len(Data) : Data'[i] = Data[i]
             /\ \A i \in 1..Len(emitted) : Data'[Len(Data) + i] = emitted[i]
      <4>1. \/ /\ \A i \in 1..Len(txData) : txData'[i] = txData[i] /\ Data'[i] = Data[i]
               /\ \A i \in 1..Len(emitted) : /\ txData'[Len(txData) + i] = emitted[i]
                                             /\ Data'[Len(txData) + i] = emitted[i]
               /\ \A i \in (Len(txData) + 1)..Len(Data) : Data'[i + Len(emitted)] = Data[i]
            \/ /\ \A i \in 1..Len(Data) : Data'[i] = Data[i]
               /\ \A i \in 1..Len(emitted) : Data'[Len(Data) + i] = emitted[i]
        BY DataGrow
      <4> QED
        BY <4>1
    <3> QED
      BY <1>1, <3>1
  <2> QED
    BY <2>1, <2>2, <2>3
<1>3. DOMAIN Data = 1..n /\ DOMAIN Data' = 1..(n + k)
  <2>1. Len(Data)' = n + k
    BY <1>2
  <2>2. txData' \in Seq(TxDatum) /\ finalizedData' \in Seq(EndDatum)
    BY DataGrow
  <2>3. DOMAIN Data' = 1..Len(Data)'
    BY <2>2, DataAre DEF Data
  <2> QED
    BY <1>1, <2>1, <2>3, DataTyped
<1>4. \A i \in 1..k : emitted[i].supplier = p
  BY <1>1 DEF Operation
<1>5. ASSUME NEW i \in 1..(n + k)
      PROVE  (\E j \in 1..n : Data'[i] = Data[j]) \/ (\E j \in 1..k : Data'[i] = emitted[j])
  <2>1. CASE /\ \A a \in 1..t : Data'[a] = Data[a]
             /\ \A a \in 1..k : Data'[t + a] = emitted[a]
             /\ \A a \in (t + 1)..n : Data'[a + k] = Data[a]
    <3>1. CASE i <= t
      BY <1>1, <1>2, <2>1, <3>1
    <3>2. CASE t < i /\ i <= t + k
      <4>1. i - t \in 1..k /\ t + (i - t) = i
        BY <1>1, <3>2
      <4> QED
        BY <2>1, <4>1
    <3>3. CASE t + k < i
      <4>1. i - k \in (t + 1)..n /\ (i - k) + k = i /\ i - k \in 1..n
        BY <1>1, <3>3
      <4> QED
        BY <2>1, <4>1
    <3> QED
      BY <1>1, <3>1, <3>2, <3>3
  <2>2. CASE /\ \A a \in 1..n : Data'[a] = Data[a]
             /\ \A a \in 1..k : Data'[n + a] = emitted[a]
    <3>1. CASE i <= n
      BY <1>1, <2>2, <3>1
    <3>2. CASE n < i
      <4>1. i - n \in 1..k /\ n + (i - n) = i
        BY <1>1, <3>2
      <4> QED
        BY <2>2, <4>1
    <3> QED
      BY <1>1, <3>1, <3>2
  <2> QED
    BY <1>2, <2>1, <2>2
<1>6. ASSUME NEW j \in 1..n PROVE \E i \in 1..(n + k) : Data'[i] = Data[j]
  <2>1. j \in 1..(n + k) /\ j + k \in 1..(n + k) /\ (j <= t => j \in 1..t) /\ (j > t => j \in (t + 1)..n)
    BY <1>1
  <2> QED
    BY <1>1, <1>2, <2>1
<1>7. ASSUME NEW j \in 1..k PROVE \E i \in 1..(n + k) : Data'[i] = emitted[j]
  <2>1. t + j \in 1..(n + k) /\ n + j \in 1..(n + k)
    BY <1>1, <1>2
  <2> QED
    BY <1>2, <2>1
<1>8. 1..Len(emitted) = 1..k
  BY <1>1
<1>9. \A kind, q :
        /\ InBlock(kind, q)' <=>
             \E i \in 1..(n + k) : Data'[i].kind = kind /\ Data'[i].supplier = q
        /\ InBlock(kind, q) <=> \E i \in 1..n : Data[i].kind = kind /\ Data[i].supplier = q
  BY <1>3 DEF InBlock
<1> SUFFICES ASSUME NEW kind, NEW q
             PROVE  InBlock(kind, q)' <=>
                      InBlock(kind, q) \/ \E m \in 1..Len(emitted) : emitted[m].kind = kind /\ q = p
  OBVIOUS
<1>10. (\E i \in 1..(n + k) : Data'[i].kind = kind /\ Data'[i].supplier = q) <=>
          \/ \E j \in 1..n : Data[j].kind = kind /\ Data[j].supplier = q
          \/ \E j \in 1..k : emitted[j].kind = kind /\ q = p
  BY <1>4, <1>5, <1>6, <1>7
<1>11. (\E j \in 1..k : emitted[j].kind = kind /\ q = p) <=>
          \E m \in 1..Len(emitted) : emitted[m].kind = kind /\ q = p
  BY <1>8, Zenon
<1> QED
  BY <1>9, <1>10, <1>11, Zenon

LEMMA TxGrow ==
    ASSUME TypeInv, NEW p, NEW to, NEW emitted, Operation(p, to, emitted),
           NEW q, q # p \/ emitted[1].kind \notin {"stake", "claim"}
    PROVE  /\ Renewed(q)' <=> Renewed(q)
           /\ \A j \in 1..Len(txData') :
                 /\ Renews(txData'[j], q)
                 /\ \A i \in (j + 1)..Len(txData') : ~Renews(txData'[i], q)
                 => /\ j \in 1..Len(txData) /\ txData'[j] = txData[j]
                    /\ \A i \in (j + 1)..Len(txData) : ~Renews(txData[i], q)
<1>1. PICK t \in Nat, k \in {1, 2} : t = Len(txData) /\ k = Len(emitted)
  <2>1. PICK t \in Nat : t = Len(txData)
    <3>1. Len(txData) \in Nat
      BY DataTyped
    <3> QED
      BY <3>1
  <2>2. PICK k \in {1, 2} : k = Len(emitted)
    BY DEF Operation
  <2> QED
    BY <2>1, <2>2
<1>2. CASE txData' = txData
  BY <1>2 DEF Renewed
<1>3. CASE Len(txData)' = Len(txData) + Len(emitted) /\
           (\A i \in 1..Len(txData) : txData'[i] = txData[i]) /\
           (\A i \in 1..Len(emitted) : txData'[Len(txData) + i] = emitted[i])
  <2>1. Len(txData') = t + k /\ Len(txData)' = t + k
    BY <1>1, <1>3
  <2>2. (\A i \in 1..t : txData'[i] = txData[i]) /\ (\A i \in 1..k : txData'[t + i] = emitted[i])
    BY <1>1, <1>3
  <2>3. \A i \in 1..k : ~Renews(emitted[i], q)
    <3>1. \A i \in 1..k : emitted[i].supplier = p
      BY <1>1 DEF Operation
    <3>2. k = 2 => emitted[2].kind = "unbondingBegin"
      BY <1>1 DEF Operation
    <3> QED
      BY <3>1, <3>2 DEF Renews
  <2>4. \A i \in 1..(t + k) : Renews(txData'[i], q) => i \in 1..t
    <3> SUFFICES ASSUME NEW i \in 1..(t + k), i > t PROVE ~Renews(txData'[i], q)
      BY <1>1
    <3>1. i - t \in 1..k /\ t + (i - t) = i
      BY <1>1
    <3> QED
      BY <2>2, <2>3, <3>1
  <2>5. Renewed(q)' <=> Renewed(q)
    <3>1. Renewed(q)' <=> \E j \in 1..(t + k) : Renews(txData'[j], q)
      BY <2>1 DEF Renewed
    <3>2. Renewed(q) <=> \E j \in 1..t : Renews(txData[j], q)
      BY <1>1 DEF Renewed
    <3>3. \A j \in 1..t : j \in 1..(t + k)
      BY <1>1
    <3> QED
      BY <2>2, <2>4, <3>1, <3>2, <3>3
  <2>6. ASSUME NEW j \in 1..(t + k), Renews(txData'[j], q),
               \A i \in (j + 1)..(t + k) : ~Renews(txData'[i], q)
        PROVE  j \in 1..t /\ txData'[j] = txData[j] /\ \A i \in (j + 1)..t : ~Renews(txData[i], q)
    <3>1. j \in 1..t /\ txData'[j] = txData[j]
      BY <2>2, <2>4, <2>6
    <3>2. \A i \in (j + 1)..t : i \in (j + 1)..(t + k) /\ i \in 1..t
      BY <1>1, <3>1
    <3> QED
      BY <2>2, <2>6, <3>1, <3>2
  <2> QED
    BY <1>1, <2>1, <2>5, <2>6
<1> QED
  BY <1>2, <1>3, DataGrow

LEMMA TxRenew ==
    ASSUME TypeInv, NEW p, NEW to, NEW emitted, Operation(p, to, emitted),
           emitted[1].kind \in {"stake", "claim"}
    PROVE  /\ Renewed(p)' /\ Delivering
           /\ \A j \in 1..Len(txData') :
                 /\ Renews(txData'[j], p)
                 /\ \A i \in (j + 1)..Len(txData') : ~Renews(txData'[i], p)
                 => txData'[j].services = emitted[1].services
<1>1. PICK t \in Nat, k \in {1, 2} : t = Len(txData) /\ k = Len(emitted)
  <2>1. PICK t \in Nat : t = Len(txData)
    <3>1. Len(txData) \in Nat
      BY DataTyped
    <3> QED
      BY <3>1
  <2>2. PICK k \in {1, 2} : k = Len(emitted)
    BY DEF Operation
  <2> QED
    BY <2>1, <2>2
<1>2. Delivering /\ txData' = txData \o emitted /\ emitted \in Seq(TxDatum)
  <2>1. CASE emitted \in Seq(EndDatum)
    <3>1. emitted[1] \in EndDatum
      BY <1>1, <2>1, ElementOfSeq
    <3>2. emitted[1] \in AnyDatum
      BY <3>1 DEF AnyDatum
    <3> QED
      BY <3>1, <3>2, DatumFields
  <2>2. CASE emitted \in Seq(TxDatum) /\ Deliver(p, to, emitted)
    BY <2>2 DEF Deliver
  <2> QED
    BY <2>1, <2>2 DEF Operation
<1>3. PICK tx \in Seq(TxDatum), em \in Seq(TxDatum) : tx = txData /\ em = emitted
  BY <1>2 DEF TypeInv
<1>4. /\ Len(txData') = t + k /\ Len(txData)' = t + k
      /\ \A i \in 1..k : txData'[t + i] = emitted[i]
  <2>1. Len(tx \o em) = Len(tx) + Len(em) /\ \A i \in 1..Len(em) : (tx \o em)[Len(tx) + i] = em[i]
    BY ConcatProperties
  <2>2. txData' = tx \o em
    BY <1>2, <1>3
  <2> QED
    BY <1>1, <1>3, <2>1, <2>2
<1>5. emitted[1].supplier = p /\ (k = 2 => emitted[2].kind = "unbondingBegin")
  <2>1. 1 \in 1..k
    BY <1>1
  <2> QED
    BY <1>1, <2>1 DEF Operation
<1>6. Renews(txData'[t + 1], p) /\ t + 1 \in 1..(t + k) /\ txData'[t + 1] = emitted[1]
  <2>1. 1 \in 1..k /\ t + 1 \in 1..(t + k)
    BY <1>1
  <2> QED
    BY <1>4, <1>5, <2>1 DEF Renews
<1>7. k = 2 => ~Renews(txData'[t + 2], p)
  BY <1>4, <1>5 DEF Renews
<1>8. ASSUME NEW j \in 1..(t + k), Renews(txData'[j], p),
             \A i \in (j + 1)..(t + k) : ~Renews(txData'[i], p)
      PROVE  j = t + 1
  <2>1. CASE j < t + 1
    <3>1. t + 1 \in (j + 1)..(t + k)
      BY <1>1, <2>1
    <3> QED
      BY <1>6, <1>8, <3>1
  <2>2. CASE j > t + 1
    <3>1. j = t + 2 /\ k = 2
      BY <2>2
    <3> QED
      BY <1>7, <1>8, <3>1
  <2> QED
    BY <1>1, <2>1, <2>2
<1>9. Renewed(p)'
  BY <1>4, <1>6 DEF Renewed
<1>10. \A j \in 1..(t + k) :
          Renews(txData'[j], p) /\ (\A i \in (j + 1)..(t + k) : ~Renews(txData'[i], p))
              => txData'[j].services = emitted[1].services
  BY <1>6, <1>8
<1> QED
  BY <1>2, <1>4, <1>9, <1>10

LEMMA ChainBlockInitial == Init => ChainBlockInv
<1> SUFFICES ASSUME Init PROVE ChainBlockInv
  OBVIOUS
<1>1. Len(txData) = 0 /\ Data = <<>> /\ 1..0 = {}
  BY DEF Init, Data
<1>2. \A kind, p : ~InBlock(kind, p)
  BY <1>1 DEF InBlock
<1> QED
  BY <1>1, <1>2 DEF ChainBlockInv, ChainBlock, Renewed

\* What an operation does for its supplier, by kind; it does nothing to the others.
LEMMA ChainBlockGrow ==
    ASSUME TypeInv, ChainBlockInv, ~Restakes,
           NEW p, NEW to, NEW emitted, Operation(p, to, emitted)
    PROVE  ChainBlockInv'
<1>1. /\ p \in Suppliers /\ onChain' = [onChain EXCEPT ![p] = to]
      /\ onChain \in [Suppliers -> ChainSupplier \cup {None}]
  BY DEF Operation, Deliver, Finalize, Store, TypeInv, TypeOK
<1>2. PICK k \in {1, 2} : k = Len(emitted)
  BY DEF Operation
<1>3. PICK e : e = emitted[1]
  OBVIOUS
<1>4. \A kind, q : InBlock(kind, q)' <=>
         InBlock(kind, q) \/ (q = p /\ (kind = e.kind \/ (k = 2 /\ kind = "unbondingBegin")))
  <2>1. \A kind : (\E m \in 1..Len(emitted) : emitted[m].kind = kind) <=>
                    kind = e.kind \/ (k = 2 /\ kind = "unbondingBegin")
    <3>1. k = 2 => emitted[2].kind = "unbondingBegin"
      BY <1>2 DEF Operation
    <3>2. 1..Len(emitted) = 1..k /\ 1 \in 1..k /\ (k = 2 => 2 \in 1..k) /\ \A m \in 1..k : m = 1 \/ (m = 2 /\ k = 2)
      BY <1>2
    <3> QED
      BY <1>3, <3>1, <3>2
  <2>2. \A kind, q : InBlock(kind, q)' <=>
           InBlock(kind, q) \/ \E m \in 1..Len(emitted) : emitted[m].kind = kind /\ q = p
    BY InBlockGrow
  <2> QED
    BY <2>1, <2>2
<1>5. ASSUME NEW q \in Suppliers, q # p PROVE ChainBlock(q)'
  <2>1. onChain'[q] = onChain[q] /\ OnChain(q)' = OnChain(q)
    BY <1>1, <1>5 DEF OnChain
  <2>2. \A kind : InBlock(kind, q)' <=> InBlock(kind, q)
    BY <1>4, <1>5
  <2>3. /\ Renewed(q)' <=> Renewed(q)
        /\ \A j \in 1..Len(txData') :
              /\ Renews(txData'[j], q)
              /\ \A i \in (j + 1)..Len(txData') : ~Renews(txData'[i], q)
              => /\ j \in 1..Len(txData) /\ txData'[j] = txData[j]
                 /\ \A i \in (j + 1)..Len(txData) : ~Renews(txData[i], q)
    BY <1>5, TxGrow
  <2>4. ChainBlock(q)
    BY DEF ChainBlockInv
  <2> QED
    BY <2>1, <2>2, <2>3, <2>4 DEF ChainBlock, Renews
<1>6. ChainBlock(p)
  BY <1>1 DEF ChainBlockInv
<1>7. onChain'[p] = to /\ (OnChain(p)' <=> to # None)
  BY <1>1 DEF OnChain
<1>8. ASSUME Offers(p, to, e) PROVE ChainBlock(p)'
  <2>1. /\ e.kind \in {"stake", "claim"} /\ ~InBlock("activated", p)
        /\ to # None /\ to.services = e.services /\ to.pending /\ to.unbonding = "no"
    BY <1>8 DEF Offers
  <2>2. /\ Renewed(p)' /\ Delivering
        /\ \A j \in 1..Len(txData') :
              /\ Renews(txData'[j], p)
              /\ \A i \in (j + 1)..Len(txData') : ~Renews(txData'[i], p)
              => txData'[j].services = e.services
    BY <1>3, <2>1, TxRenew
  <2>3. ~InBlock("unbondingEnd", p)
    <3> SUFFICES ASSUME NEW i \in DOMAIN Data, Data[i].kind = "unbondingEnd" PROVE FALSE
      BY DEF InBlock
    <3>1. i \in 1..Len(Data) /\ Len(txData) \in Nat /\ Len(finalizedData) \in Nat
          /\ Len(Data) = Len(txData) + Len(finalizedData)
      BY DataTyped
    <3>2. CASE i <= Len(txData)
      <4>1. Data[i] \in TxDatum /\ Data[i] \in AnyDatum
        BY <3>1, <3>2, DataTyped
      <4> QED
        BY <4>1, DatumFields
    <3>3. CASE i > Len(txData)
      <4>1. i \in (Len(txData) + 1)..Len(Data) /\ i - Len(txData) \in 1..Len(finalizedData)
        BY <3>1, <3>3
      <4>2. Data[i] = finalizedData[i - Len(txData)] /\ i - Len(txData) \in DOMAIN finalizedData
        BY <4>1, DataTyped
      <4> QED
        BY <2>2, <4>2 DEF Delivering
    <3> QED
      BY <3>1, <3>2, <3>3
  <2>4. ~InBlock("activated", p)' /\ ~InBlock("unbondingEnd", p)'
    BY <1>4, <2>1, <2>3
  <2> QED
    BY <1>7, <2>1, <2>2, <2>4 DEF ChainBlock, Renews
<1>9. e.kind \notin {"stake", "claim"} =>
         /\ Renewed(p)' <=> Renewed(p)
         /\ \A j \in 1..Len(txData') :
               /\ Renews(txData'[j], p)
               /\ \A i \in (j + 1)..Len(txData') : ~Renews(txData'[i], p)
               => /\ j \in 1..Len(txData) /\ txData'[j] = txData[j]
                  /\ \A i \in (j + 1)..Len(txData) : ~Renews(txData[i], p)
  BY <1>3, TxGrow
<1>10. ASSUME Activates(p, to, e) PROVE ChainBlock(p)'
  <2>1. /\ e.kind = "activated" /\ txData = <<>> /\ OnChain(p) /\ to # None /\ ~to.pending
        /\ to.services = onChain[p].services
    BY <1>10 DEF Activates
  <2>2. ~Renewed(p) /\ Len(txData) = 0
    BY <2>1 DEF Renewed
  <2>3. ~Renewed(p)' /\ \A j \in 1..Len(txData') :
               /\ Renews(txData'[j], p)
               /\ \A i \in (j + 1)..Len(txData') : ~Renews(txData'[i], p)
               => FALSE
    <3>1. 1..0 = {}
      OBVIOUS
    <3> QED
      BY <1>9, <2>1, <2>2, <3>1
  <2>4. ~InBlock("unbondingEnd", p)'
    BY <1>4, <1>6, <2>1 DEF ChainBlock
  <2> QED
    BY <1>7, <2>1, <2>3, <2>4 DEF ChainBlock, Renews
<1>11. ASSUME Keeps(p, to, e, k = 2) PROVE ChainBlock(p)'
  <2>1. /\ e.kind \in {"unstake", "slashed"} /\ OnChain(p) /\ to # None
        /\ to.services = onChain[p].services /\ to.pending = onChain[p].pending
        /\ to.unbonding # onChain[p].unbonding => k = 2
    BY <1>11 DEF Keeps
  <2>2. /\ InBlock("activated", p)' <=> InBlock("activated", p)
        /\ InBlock("unbondingEnd", p)' <=> InBlock("unbondingEnd", p)
        /\ InBlock("unbondingBegin", p)' <=> InBlock("unbondingBegin", p) \/ k = 2
    BY <1>4, <2>1
  <2> QED
    BY <1>6, <1>7, <1>9, <2>1, <2>2 DEF ChainBlock, Renews
<1>12. ASSUME Ends(p, to, e) PROVE ChainBlock(p)'
  <2>1. /\ e.kind = "unbondingEnd" /\ OnChain(p) /\ onChain[p].unbonding # "no"
        /\ ~InBlock("unbondingBegin", p) /\ to = None
    BY <1>12 DEF Ends
  <2>2. ~Renewed(p)
    BY <1>6, <2>1 DEF ChainBlock
  <2>3. ~Renewed(p)'
    BY <1>9, <2>1, <2>2
  <2>4. \A j \in 1..Len(txData') : ~Renews(txData'[j], p)
    BY <2>3 DEF Renewed, Renews
  <2> QED
    BY <1>7, <2>1, <2>3, <2>4 DEF ChainBlock, Renews
<1>13. ChainBlock(p)'
  <2>1. \/ Offers(p, to, e) \/ Activates(p, to, e) \/ Keeps(p, to, e, k = 2) \/ Ends(p, to, e)
    BY <1>2, <1>3 DEF Operation
  <2> QED
    BY <1>8, <1>10, <1>11, <1>12, <2>1
<1> QED
  BY <1>5, <1>13 DEF ChainBlockInv

LEMMA ChainBlockKept ==
    ~Restakes /\ TypeInv /\ StageInv /\ ChainBlockInv /\ [Next]_vars => ChainBlockInv'
<1> SUFFICES ASSUME ~Restakes, TypeInv, StageInv, ChainBlockInv, [Next]_vars PROVE ChainBlockInv'
  OBVIOUS
<1>1. ASSUME NEW p, NEW to, NEW emitted, Operation(p, to, emitted) PROVE ChainBlockInv'
  BY <1>1, ChainBlockGrow
<1>2. CASE onChain' = onChain /\ txData' = txData /\ Data' = Data
  <2>1. \A p : /\ Renewed(p)' = Renewed(p) /\ OnChain(p)' = OnChain(p)
               /\ \A kind : InBlock(kind, p)' = InBlock(kind, p)
    BY <1>2 DEF Renewed, OnChain, InBlock
  <2> QED
    BY <1>2, <2>1 DEF ChainBlockInv, ChainBlock
<1>3. CASE Commit
  <2>1. Data' = <<>> /\ Len(txData') = 0 /\ 1..0 = {}
    BY <1>3 DEF Commit, Data
  <2>2. \A p : ~Renewed(p)' /\ \A kind : ~InBlock(kind, p)'
    BY <2>1 DEF Renewed, InBlock
  <2> QED
    BY <2>1, <2>2 DEF ChainBlockInv, ChainBlock
<1>4. CASE Crash
  <2>1. onChain' = onChain /\ txData' = txData /\ Data' = Data
    BY <1>4 DEF Crash, chainVars, Data
  <2> QED
    BY <1>2, <2>1
<1>5. CASE \/ FetchSupplierData
           \/ \E p, d, row, services, closed : Handling(p, d, row, services, closed)
           \/ DeleteAndClose \/ SaveSuppliers \/ SaveServices
           \/ UNCHANGED vars
  BY <1>2, <1>5, InBlockFrame
<1> QED
  BY <1>1, <1>3, <1>4, <1>5, Steps

Given(services, on) == [s \in Services |-> IF s \in services THEN on ELSE None]

\* The rows of the last block are those of the services of p.
Serves(p, on) ==
    /\ \A r \in serviceRows : r.id[1] = p /\ r.lo # B =>
          r.id[2] \in onChain[p].services /\ r.activated = on
    /\ \A s \in onChain[p].services : \E r \in serviceRows : r.id = <<p, s>> /\ r.lo # B
    /\ \A r, t \in serviceRows : r.id = t.id /\ r.id[1] = p /\ r.lo # B /\ t.lo # B => r = t

\* Unless the block stakes them anew; an activation is a change of the block.
OldRight ==
    \A p \in Suppliers : OnChain(p) /\ ~Renewed(p) =>
        Serves(p, IF InBlock("activated", p) THEN FALSE ELSE ~onChain[p].pending)

\* Rows that attempts left are of services the block stakes anew.
LeftServices == \A r \in Earlier(serviceRows) : r.lo = B => Renewed(r.id[1])

\* Services staked anew: the last message handled decides, and with the first one
\* the rows that were read are to be closed.
RenewalKnown(p) ==
    \/ /\ \A j \in 1..handled : ~Renews(Data[j], p)
       /\ \A r \in Earlier(serviceRows) : r.id[1] = p => record[p].services[r.id[2]] # None
    \/ /\ \E j \in 1..handled : /\ Renews(Data[j], p)
                                /\ \A i \in (j + 1)..handled : ~Renews(Data[i], p)
                                /\ record[p].services = Fresh(Data[j].services)
       /\ \A r \in Earlier(serviceRows) : r.id[1] = p => r.id \in toClose.services

ActivationKnown(p) ==
    \/ /\ \A j \in 1..handled : ~(Data[j].kind = "activated" /\ Data[j].supplier = p)
       /\ record[p].services = Given(onChain[p].services, FALSE)
    \/ /\ record[p].services = Given(onChain[p].services, TRUE)
       /\ \A s \in onChain[p].services : <<p, s>> \in toClose.services

KnowsServices ==
    \A p \in Suppliers :
        /\ p \notin SuppliersToFetchServices =>
              record[p].services = NoServices /\ \A s \in Services : <<p, s>> \notin toClose.services
        /\ Renewed(p) => RenewalKnown(p)
        /\ InBlock("activated", p) /\ OnChain(p) => ActivationKnown(p)

ServicesInv == OldRight /\ LeftServices /\ (pc \in {"handle", "insert"} => KnowsServices)

\* Services are read for who stakes in the block or is activated in it.
LEMMA WhoIsRead ==
    ASSUME TypeInv, NEW p
    PROVE  /\ Renewed(p) <=> \E j \in 1..Len(Data) : Renews(Data[j], p)
           /\ p \in SuppliersToFetchServices <=> Renewed(p) \/ InBlock("activated", p)
<1>1. /\ Len(txData) \in Nat /\ Len(finalizedData) \in Nat
      /\ Len(Data) = Len(txData) + Len(finalizedData) /\ DOMAIN Data = 1..Len(Data)
  BY DataTyped
<1>2. \A j \in 1..Len(txData) : j \in 1..Len(Data) /\ Data[j] = txData[j]
  BY <1>1, DataTyped
<1>3. ASSUME NEW j \in 1..Len(Data), Renews(Data[j], p)
      PROVE  j \in 1..Len(txData)
  <2> SUFFICES ASSUME j > Len(txData) PROVE FALSE
    BY <1>1
  <2>1. j \in (Len(txData) + 1)..Len(Data)
    BY <1>1
  <2>2. Data[j] \in EndDatum /\ Data[j] \in AnyDatum
    BY <2>1, DataTyped
  <2> QED
    BY <1>3, <2>2, DatumFields DEF Renews
<1>4. Renewed(p) <=> \E j \in 1..Len(Data) : Renews(Data[j], p)
  BY <1>2, <1>3 DEF Renewed
<1>5. p \in SuppliersToFetchServices <=>
        \E j \in 1..Len(Data) : Data[j].kind \in {"stake", "claim", "activated"} /\ Data[j].supplier = p
  BY <1>1 DEF SuppliersToFetchServices, Named
<1>6. InBlock("activated", p) <=>
        \E j \in 1..Len(Data) : Data[j].kind = "activated" /\ Data[j].supplier = p
  BY <1>1 DEF InBlock
<1> QED
  BY <1>4, <1>5, <1>6 DEF Renews

LEMMA ServicesInitial == Init => ServicesInv
BY DEF Init, ServicesInv, OldRight, LeftServices, Earlier, OnChain

LEMMA ServicesGrow ==
    ASSUME TypeInv, StageInv, ChainBlockInv, ServicesInv,
           NEW p, NEW to, NEW emitted, Operation(p, to, emitted)
    PROVE  ServicesInv'
<1>1. /\ p \in Suppliers /\ onChain' = [onChain EXCEPT ![p] = to]
      /\ onChain \in [Suppliers -> ChainSupplier \cup {None}]
      /\ pc = "chain" /\ pc' = pc /\ UNCHANGED <<height, crashes, serviceRows>>
  BY DEF Operation, Deliver, Finalize, Store, TypeInv, TypeOK, tables
<1>2. (\A r \in serviceRows : r.lo # B) /\ B' = B
  BY <1>1 DEF StageInv, Staged, B
<1>3. LeftServices'
  BY <1>1, <1>2 DEF LeftServices, Earlier
<1>4. PICK e : e = emitted[1]
  OBVIOUS
<1>5. \A q : InBlock("activated", q)' <=> InBlock("activated", q) \/ (q = p /\ e.kind = "activated")
  <2>1. PICK k \in {1, 2} : k = Len(emitted)
    BY DEF Operation
  <2>2. k = 2 => emitted[2].kind = "unbondingBegin"
    BY <2>1 DEF Operation
  <2>3. 1..Len(emitted) = 1..k /\ 1 \in 1..k /\ \A m \in 1..k : m = 1 \/ (m = 2 /\ k = 2)
    BY <2>1
  <2>4. (\E m \in 1..Len(emitted) : emitted[m].kind = "activated") <=> e.kind = "activated"
    BY <1>4, <2>2, <2>3
  <2>5. \A kind, q : InBlock(kind, q)' <=>
           InBlock(kind, q) \/ \E m \in 1..Len(emitted) : emitted[m].kind = kind /\ q = p
    BY InBlockGrow
  <2> QED
    BY <2>4, <2>5
<1>6. \A q, on : onChain'[q].services = onChain[q].services /\ Serves(q, on) => Serves(q, on)'
  BY <1>1, <1>2 DEF Serves
<1>7. ASSUME NEW q \in Suppliers, q # p, OnChain(q)', ~Renewed(q)'
      PROVE  Serves(q, IF InBlock("activated", q) THEN FALSE ELSE ~onChain[q].pending)'
  <2>1. onChain'[q] = onChain[q] /\ OnChain(q)
    BY <1>1, <1>7 DEF OnChain
  <2>2. ~Renewed(q)
    BY <1>7, TxGrow
  <2>3. InBlock("activated", q)' <=> InBlock("activated", q)
    BY <1>5, <1>7
  <2>4. PICK on : on = (IF InBlock("activated", q) THEN FALSE ELSE ~onChain[q].pending)
    OBVIOUS
  <2>5. on = (IF InBlock("activated", q)' THEN FALSE ELSE ~onChain'[q].pending)
    BY <2>1, <2>3, <2>4
  <2>6. Serves(q, on)'
    BY <1>6, <2>1, <2>2, <2>4 DEF ServicesInv, OldRight
  <2> QED
    BY <2>5, <2>6
<1>8. ASSUME OnChain(p)', ~Renewed(p)'
      PROVE  Serves(p, IF InBlock("activated", p) THEN FALSE ELSE ~onChain[p].pending)'
  <2>1. onChain'[p] = to /\ to # None
    BY <1>1, <1>8 DEF OnChain
  <2>2. ~Offers(p, to, e)
    BY <1>4, <1>8, TxRenew DEF Offers
  <2>3. ASSUME Activates(p, to, e)
        PROVE  Serves(p, FALSE)' /\ InBlock("activated", p)'
    <3>1. /\ e.kind = "activated" /\ txData = <<>> /\ OnChain(p) /\ onChain[p].pending
          /\ to.services = onChain[p].services
      BY <2>3 DEF Activates
    <3>2. ~Renewed(p)
      BY <3>1 DEF Renewed
    <3>3. ~InBlock("activated", p)
      BY <1>1, <3>1 DEF ChainBlockInv, ChainBlock
    <3>4. Serves(p, ~onChain[p].pending) /\ (~onChain[p].pending) = FALSE
      BY <1>1, <3>1, <3>2, <3>3 DEF ServicesInv, OldRight
    <3> QED
      BY <1>5, <1>6, <2>1, <3>1, <3>4
  <2>4. ASSUME Keeps(p, to, e, Len(emitted) = 2)
        PROVE  Serves(p, IF InBlock("activated", p) THEN FALSE ELSE ~onChain[p].pending)'
    <3>1. /\ e.kind \in {"unstake", "slashed"} /\ OnChain(p)
          /\ to.services = onChain[p].services /\ to.pending = onChain[p].pending
      BY <2>4 DEF Keeps
    <3>2. ~Renewed(p)
      BY <1>4, <1>8, <3>1, TxGrow
    <3>3. InBlock("activated", p)' <=> InBlock("activated", p)
      BY <1>5, <3>1
    <3>4. PICK on : on = (IF InBlock("activated", p) THEN FALSE ELSE ~onChain[p].pending)
      OBVIOUS
    <3>5. on = (IF InBlock("activated", p)' THEN FALSE ELSE ~onChain'[p].pending)
      BY <2>1, <3>1, <3>3, <3>4
    <3>6. Serves(p, on)'
      BY <1>1, <1>6, <2>1, <3>1, <3>2, <3>4 DEF ServicesInv, OldRight
    <3> QED
      BY <3>5, <3>6
  <2>5. ~Ends(p, to, e)
    BY <2>1 DEF Ends
  <2>6. Activates(p, to, e) \/ Keeps(p, to, e, Len(emitted) = 2)
    BY <1>4, <2>2, <2>5 DEF Operation
  <2> QED
    BY <2>3, <2>4, <2>6
<1>9. OldRight'
  BY <1>7, <1>8 DEF OldRight
<1> QED
  BY <1>1, <1>3, <1>9 DEF ServicesInv

\* What is read of a service: one of its rows.
LEMMA ServicesRead ==
    ASSUME TypeInv, FetchSupplierData
    PROVE  /\ toClose'.services = {}
           /\ \A p \in Suppliers :
                 /\ record'[p].services \in ServiceMap
                 /\ \A s \in Services :
                       IF p \in SuppliersToFetchServices /\ \E r \in serviceRows : r.id = <<p, s>>
                       THEN \E r \in serviceRows :
                               r.id = <<p, s>> /\ record'[p].services[s] = r.activated
                       ELSE record'[p].services[s] = None
<1>1. PICK S \in Readings({r \in supplierRows : r.id \in SupplierIds}),
           V \in Readings({r \in serviceRows : r.id[1] \in SuppliersToFetchServices}) :
        /\ record' = [p \in Suppliers |->
             [supplier |-> IF \E r \in S : r.id = p THEN (CHOOSE r \in S : r.id = p).row ELSE None,
              services |-> [s \in Services |->
                 IF \E r \in V : r.id = <<p, s>> THEN (CHOOSE r \in V : r.id = <<p, s>>).activated
                                                 ELSE None]]]
        /\ toClose' = [suppliers |-> {r.id : r \in S}, services |-> {}]
  BY Zenon DEF FetchSupplierData
<1>2. /\ \A r \in V : r \in serviceRows /\ r.id[1] \in SuppliersToFetchServices
      /\ \A r \in serviceRows : r.id[1] \in SuppliersToFetchServices => \E t \in V : t.id = r.id
  BY DEF Readings
<1>3. \A p \in Suppliers, s \in Services : record'[p].services[s] =
        IF \E r \in V : r.id = <<p, s>> THEN (CHOOSE r \in V : r.id = <<p, s>>).activated ELSE None
  BY <1>1
<1>4. ASSUME NEW p \in Suppliers, NEW s \in Services
      PROVE  IF p \in SuppliersToFetchServices /\ \E r \in serviceRows : r.id = <<p, s>>
             THEN \E r \in serviceRows : r.id = <<p, s>> /\ record'[p].services[s] = r.activated
             ELSE record'[p].services[s] = None
  <2>1. PICK id : id = <<p, s>>
    OBVIOUS
  <2>4. id[1] = p
    BY <2>1
  <2>2. CASE \E r \in V : r.id = id
    <3>1. PICK r : r = CHOOSE t \in V : t.id = id
      OBVIOUS
    <3>2. r \in V /\ r.id = id
      BY <2>2, <3>1
    <3>3. record'[p].services[s] = r.activated
      BY <1>3, <2>1, <2>2, <3>1
    <3>4. r \in serviceRows /\ p \in SuppliersToFetchServices
      BY <1>2, <2>4, <3>2
    <3> QED
      BY <2>1, <3>2, <3>3, <3>4
  <2>3. CASE ~ \E r \in V : r.id = id
    <3>1. record'[p].services[s] = None
      BY <1>3, <2>1, <2>3
    <3>2. ~(p \in SuppliersToFetchServices /\ \E r \in serviceRows : r.id = id)
      BY <1>2, <2>3, <2>4
    <3> QED
      BY <2>1, <3>1, <3>2
  <2> QED
    BY <2>2, <2>3
<1>5. TypeInv'
  BY TypeFetch
<1>6. \A p \in Suppliers : record'[p].services \in ServiceMap
  BY <1>5 DEF TypeInv, TypeOK, Record, ServiceMap
<1>7. toClose'.services = {}
  BY <1>1
<1> QED
  BY <1>4, <1>6, <1>7

\* None of these steps touches the services of earlier attempts or of the chain.
LEMMA ServicesFrame ==
    ASSUME onChain' = onChain, txData' = txData, Data' = Data, B' = B,
           Earlier(serviceRows)' = Earlier(serviceRows), ServicesInv
    PROVE  OldRight' /\ LeftServices'
<1>1. \A p : /\ Renewed(p)' = Renewed(p) /\ OnChain(p)' = OnChain(p)
             /\ InBlock("activated", p)' = InBlock("activated", p)
  BY DEF Renewed, OnChain, InBlock
<1>2. \A r : r.lo # B => (r \in serviceRows' <=> r \in serviceRows)
  BY DEF Earlier
<1>3. \A p, on : Serves(p, on) => Serves(p, on)'
  BY <1>2 DEF Serves
<1>4. ASSUME NEW p \in Suppliers, OnChain(p)', ~Renewed(p)'
      PROVE  Serves(p, IF InBlock("activated", p) THEN FALSE ELSE ~onChain[p].pending)'
  <2>1. PICK on : on = (IF InBlock("activated", p) THEN FALSE ELSE ~onChain[p].pending)
    OBVIOUS
  <2>2. on = (IF InBlock("activated", p)' THEN FALSE ELSE ~onChain'[p].pending)
    BY <1>1, <2>1
  <2>3. Serves(p, on)'
    BY <1>1, <1>3, <1>4, <2>1 DEF ServicesInv, OldRight
  <2> QED
    BY <2>2, <2>3
<1>5. OldRight'
  BY <1>4 DEF OldRight
<1>6. LeftServices'
  BY <1>1 DEF ServicesInv, LeftServices
<1> QED
  BY <1>5, <1>6

LEMMA ServiceMapsEqual ==
    ASSUME NEW f \in ServiceMap, NEW g \in ServiceMap, \A s \in Services : f[s] = g[s]
    PROVE  f = g
BY DEF ServiceMap

LEMMA GivenTyped ==
    /\ NoServices \in ServiceMap
    /\ \A services \in SUBSET Services, on \in BOOLEAN : Given(services, on) \in ServiceMap
BY DEF NoServices, Given, ServiceMap

LEMMA ServicesFetch ==
    ASSUME TypeInv, StageInv, ChainBlockInv, ServicesInv, FetchSupplierData
    PROVE  ServicesInv'
<1>1. /\ pc \in {"chain", "begin"} /\ pc' = "handle" /\ handled' = 0
  BY DEF FetchSupplierData, StageInv
<1>2. /\ UNCHANGED <<onChain, txData, finalizedData, height, crashes>>
      /\ Data' = Data /\ B' = B /\ SuppliersToFetchServices' = SuppliersToFetchServices
      /\ (\A p : OnChain(p)' = OnChain(p))
      /\ (\A kind, p : InBlock(kind, p)' = InBlock(kind, p))
      /\ Earlier(serviceRows)' = Earlier(serviceRows)
  BY InBlockFrame
<1>3. OldRight' /\ LeftServices'
  BY <1>2, ServicesFrame
<1>4. Earlier(serviceRows) = serviceRows
  BY <1>1, AllEarlier
<1>5. /\ toClose'.services = {}
      /\ \A p \in Suppliers :
            /\ record'[p].services \in ServiceMap
            /\ \A s \in Services :
                  IF p \in SuppliersToFetchServices /\ \E r \in serviceRows : r.id = <<p, s>>
                  THEN \E r \in serviceRows :
                          r.id = <<p, s>> /\ record'[p].services[s] = r.activated
                  ELSE record'[p].services[s] = None
  BY ServicesRead
<1>6. \A p : Renewed(p)' = Renewed(p)
  BY <1>2 DEF Renewed
<1>7. ASSUME NEW p \in Suppliers, p \notin SuppliersToFetchServices
      PROVE  record'[p].services = NoServices
  <2>1. \A s \in Services : record'[p].services[s] = NoServices[s]
    BY <1>5, <1>7 DEF NoServices
  <2> QED
    BY <1>5, <2>1, ServiceMapsEqual, GivenTyped
<1>8. ASSUME NEW p \in Suppliers, Renewed(p) PROVE RenewalKnown(p)'
  <2>1. p \in SuppliersToFetchServices
    BY <1>8, WhoIsRead
  <2>2. ASSUME NEW r \in serviceRows, r.id[1] = p
        PROVE  record'[p].services[r.id[2]] # None
    <3>1. r.id \in Suppliers \X Services
      BY RowsTyped
    <3>2. r.id[2] \in Services /\ r.id = <<p, r.id[2]>>
      BY <2>2, <3>1
    <3>3. PICK t \in serviceRows : record'[p].services[r.id[2]] = t.activated
      BY <1>5, <2>1, <3>2
    <3>4. t.activated \in BOOLEAN
      BY RowsTyped
    <3> QED
      BY <3>3, <3>4, NoneIsNone
  <2>3. 1..handled' = {}
    BY <1>1
  <2> QED
    BY <1>2, <1>4, <2>2, <2>3 DEF RenewalKnown
<1>9. ASSUME NEW p \in Suppliers, InBlock("activated", p), OnChain(p) PROVE ActivationKnown(p)'
  <2>1. ~Renewed(p) /\ p \in SuppliersToFetchServices
    BY <1>9, WhoIsRead DEF ChainBlockInv, ChainBlock
  <2>2. Serves(p, FALSE)
    BY <1>9, <2>1 DEF ServicesInv, OldRight
  <2>3. \A r \in serviceRows : r.id[1] = p => r.lo # B
    BY <1>4, <2>1 DEF ServicesInv, LeftServices
  <2>4. onChain[p].services \in SUBSET Services
    BY <1>9, ChainTyped
  <2>5. ASSUME NEW s \in Services
        PROVE  record'[p].services[s] = Given(onChain[p].services, FALSE)[s]
    <3>1. <<p, s>>[1] = p /\ <<p, s>>[2] = s
      OBVIOUS
    <3>2. CASE s \in onChain[p].services
      <4>1. \E r \in serviceRows : r.id = <<p, s>>
        BY <2>2, <3>2 DEF Serves
      <4>2. PICK r \in serviceRows : r.id = <<p, s>> /\ record'[p].services[s] = r.activated
        BY <1>5, <2>1, <4>1
      <4>3. r.id[1] = p
        BY <3>1, <4>2
      <4>4. r.activated = FALSE
        BY <2>2, <2>3, <4>3 DEF Serves
      <4> QED
        BY <3>2, <4>2, <4>4 DEF Given
    <3>3. CASE s \notin onChain[p].services
      <4>1. ~ \E r \in serviceRows : r.id = <<p, s>>
        BY <2>2, <2>3, <3>1, <3>3 DEF Serves
      <4>2. record'[p].services[s] = None
        BY <1>5, <4>1
      <4> QED
        BY <3>3, <4>2 DEF Given
    <3> QED
      BY <3>2, <3>3
  <2>6. record'[p].services = Given(onChain[p].services, FALSE)
    BY <1>5, <2>4, <2>5, ServiceMapsEqual, GivenTyped
  <2>7. 1..handled' = {}
    BY <1>1
  <2> QED
    BY <1>2, <2>6, <2>7 DEF ActivationKnown, Given
<1>10. KnowsServices'
  BY <1>2, <1>5, <1>6, <1>7, <1>8, <1>9 DEF KnowsServices, NoServices
<1> QED
  BY <1>1, <1>3, <1>10 DEF ServicesInv

\* A datum that neither stakes nor activates the services of q leaves them as they are.
LEMMA ServicesStay ==
    ASSUME handled \in Nat, handled' = handled + 1, Data' = Data, onChain' = onChain,
           Earlier(serviceRows)' = Earlier(serviceRows),
           toClose.services \subseteq toClose'.services,
           NEW q, record'[q].services = record[q].services,
           ~Renews(Data[handled + 1], q)
    PROVE  /\ RenewalKnown(q) => RenewalKnown(q)'
           /\ /\ ActivationKnown(q)
              /\ ~(Data[handled + 1].kind = "activated" /\ Data[handled + 1].supplier = q)
              => ActivationKnown(q)'
<1>1. PICK h \in Nat : h = handled /\ handled' = h + 1
  OBVIOUS
<1>2. /\ \A j \in 1..(h + 1) : j \in 1..h \/ j = h + 1
      /\ \A j \in 1..h : j \in 1..(h + 1) /\ \A i \in (j + 1)..(h + 1) : i \in (j + 1)..h \/ i = h + 1
  BY <1>1
<1>3. ASSUME RenewalKnown(q) PROVE RenewalKnown(q)'
  <2>1. CASE /\ \A j \in 1..h : ~Renews(Data[j], q)
             /\ \A r \in Earlier(serviceRows) : r.id[1] = q => record[q].services[r.id[2]] # None
    <3>1. \A j \in 1..(h + 1) : ~Renews(Data[j], q)
      BY <1>1, <1>2, <2>1
    <3> QED
      BY <1>1, <2>1, <3>1 DEF RenewalKnown, Renews
  <2>2. CASE /\ \E j \in 1..h : /\ Renews(Data[j], q)
                                /\ \A i \in (j + 1)..h : ~Renews(Data[i], q)
                                /\ record[q].services = Fresh(Data[j].services)
             /\ \A r \in Earlier(serviceRows) : r.id[1] = q => r.id \in toClose.services
    <3>1. PICK j \in 1..h : /\ Renews(Data[j], q)
                            /\ \A i \in (j + 1)..h : ~Renews(Data[i], q)
                            /\ record[q].services = Fresh(Data[j].services)
      BY <2>2
    <3>2. j \in 1..(h + 1) /\ \A i \in (j + 1)..(h + 1) : ~Renews(Data[i], q)
      BY <1>1, <1>2, <3>1
    <3>3. \A r \in Earlier(serviceRows)' : r.id[1] = q => r.id \in toClose'.services
      BY <2>2
    <3>4. \E k \in 1..handled' : /\ Renews(Data'[k], q)
                                 /\ \A i \in (k + 1)..handled' : ~Renews(Data'[i], q)
                                 /\ record'[q].services = Fresh(Data'[k].services)
      <4>1. j \in 1..handled' /\ \A i \in (j + 1)..handled' : ~Renews(Data'[i], q)
        BY <1>1, <3>2
      <4> QED
        BY <3>1, <4>1
    <3> QED
      BY <3>3, <3>4 DEF RenewalKnown, Renews, Fresh
  <2> QED
    BY <1>1, <1>3, <2>1, <2>2 DEF RenewalKnown
<1>4. ASSUME ActivationKnown(q),
             ~(Data[h + 1].kind = "activated" /\ Data[h + 1].supplier = q)
      PROVE  ActivationKnown(q)'
  <2>1. CASE /\ \A j \in 1..h : ~(Data[j].kind = "activated" /\ Data[j].supplier = q)
             /\ record[q].services = Given(onChain[q].services, FALSE)
    <3>1. \A j \in 1..(h + 1) : ~(Data[j].kind = "activated" /\ Data[j].supplier = q)
      BY <1>2, <1>4, <2>1
    <3> QED
      BY <1>1, <2>1, <3>1 DEF ActivationKnown, Given
  <2>2. CASE /\ record[q].services = Given(onChain[q].services, TRUE)
             /\ \A s \in onChain[q].services : <<q, s>> \in toClose.services
    BY <2>2 DEF ActivationKnown, Given
  <2> QED
    BY <1>1, <1>4, <2>1, <2>2 DEF ActivationKnown
<1> QED
  BY <1>1, <1>3, <1>4

LEMMA ServicesHandled ==
    ASSUME TypeInv, StageInv, ChainBlockInv, ServicesInv,
           NEW p, NEW d, NEW row, NEW services, NEW closed, Handling(p, d, row, services, closed)
    PROVE  ServicesInv'
<1>1. /\ pc = "handle" /\ pc' = "handle" /\ handled < Len(Data) /\ handled' = handled + 1
      /\ d = Data[handled + 1] /\ d \in AnyDatum /\ p = d.supplier /\ p \in Suppliers
      /\ services \in ServiceMap /\ closed \in SUBSET Services
      /\ NewServices(record[p].services, d, services, closed)
      /\ toClose'.services = toClose.services \cup ({p} \X closed)
  BY DatumFields DEF Handling, TypeInv, Ids
<1>2. /\ UNCHANGED <<onChain, txData, finalizedData, height, crashes>>
      /\ Data' = Data /\ B' = B /\ SuppliersToFetchServices' = SuppliersToFetchServices
      /\ (\A q : OnChain(q)' = OnChain(q))
      /\ (\A kind, q : InBlock(kind, q)' = InBlock(kind, q))
      /\ Earlier(serviceRows)' = Earlier(serviceRows)
  BY InBlockFrame
<1>3. OldRight' /\ LeftServices'
  BY <1>2, ServicesFrame
<1>4. \A q : Renewed(q)' = Renewed(q)
  BY <1>2 DEF Renewed
<1>5. handled \in Nat /\ handled + 1 \in 1..Len(Data) /\ handled + 1 \in DOMAIN Data
  BY <1>1, DataTyped DEF TypeInv, TypeOK
<1>6. /\ record'[p].services = services
      /\ \A q \in Suppliers : q # p => record'[q] = record[q]
  <2>1. record \in [Suppliers -> Record]
    BY DEF TypeInv, TypeOK
  <2> QED
    BY <1>1, <2>1 DEF Handling
<1>7. KnowsServices
  BY <1>1 DEF ServicesInv
<1>8. ASSUME NEW q \in Suppliers, q # p
      PROVE  /\ q \notin SuppliersToFetchServices =>
                   /\ record'[q].services = NoServices
                   /\ \A s \in Services : <<q, s>> \notin toClose'.services
             /\ Renewed(q) => RenewalKnown(q)'
             /\ InBlock("activated", q) /\ OnChain(q) => ActivationKnown(q)'
  <2>1. ~Renews(d, q) /\ d.supplier # q
    BY <1>1, <1>8 DEF Renews
  <2>2. /\ RenewalKnown(q) => RenewalKnown(q)'
        /\ ActivationKnown(q) => ActivationKnown(q)'
    BY <1>1, <1>2, <1>5, <1>6, <1>8, <2>1, ServicesStay
  <2>3. \A s \in Services : <<q, s>> \notin {p} \X closed
    BY <1>8
  <2> QED
    BY <1>1, <1>6, <1>7, <1>8, <2>2, <2>3 DEF KnowsServices
<1>9. ASSUME p \notin SuppliersToFetchServices
      PROVE  services = NoServices /\ \A s \in Services : <<p, s>> \notin toClose'.services
  <2>1. record[p].services = NoServices /\ \A s \in Services : <<p, s>> \notin toClose.services
    BY <1>1, <1>7, <1>9 DEF KnowsServices
  <2>2. d.kind \notin {"stake", "claim", "activated"}
    BY <1>1, <1>5, <1>9 DEF SuppliersToFetchServices, Named
  <2>3. HeldIn(NoServices) = {}
    BY DEF HeldIn, NoServices
  <2>4. services = NoServices /\ closed = {}
    BY <1>1, <2>1, <2>2, <2>3 DEF NewServices
  <2> QED
    BY <1>1, <2>1, <2>4
<1>10. ASSUME Renewed(p) PROVE RenewalKnown(p)'
  <2>1. RenewalKnown(p)
    BY <1>1, <1>7, <1>10 DEF KnowsServices
  <2>2. d.kind # "activated" /\ d.kind # "unbondingEnd"
    BY <1>1, <1>5, <1>10 DEF ChainBlockInv, ChainBlock, InBlock
  <2>3. CASE d.kind \in {"stake", "claim"}
    <3>1. services = Fresh(d.services) /\ closed = HeldIn(record[p].services) \cup d.services
      <4>1. NewServices(record[p].services, d, services, closed)
        BY <1>1
      <4> QED
        BY <2>3, <4>1 DEF NewServices
    <3>2. Renews(Data[handled + 1], p)
      BY <1>1, <2>3 DEF Renews
    <3>3. handled' \in 1..handled' /\ (handled' + 1)..handled' = {}
      BY <1>1, <1>5
    <3>4. ASSUME NEW r \in Earlier(serviceRows), r.id[1] = p PROVE r.id \in toClose'.services
      <4>1. r.id \in Suppliers \X Services
        BY RowsTyped DEF Earlier
      <4>2. r.id = <<p, r.id[2]>> /\ r.id[2] \in Services
        BY <3>4, <4>1
      <4>3. r.id \in toClose.services \/ record[p].services[r.id[2]] # None
        BY <2>1, <3>4 DEF RenewalKnown
      <4>4. record[p].services[r.id[2]] # None => r.id[2] \in closed
        BY <3>1, <4>2 DEF HeldIn
      <4> QED
        BY <1>1, <4>2, <4>3, <4>4
    <3>5. \E k \in 1..handled' : /\ Renews(Data'[k], p)
                                 /\ \A i \in (k + 1)..handled' : ~Renews(Data'[i], p)
                                 /\ record'[p].services = Fresh(Data'[k].services)
      <4>1. /\ Renews(Data'[handled'], p)
            /\ record'[p].services = Fresh(Data'[handled'].services)
        BY <1>1, <1>2, <1>6, <3>1, <3>2
      <4> QED
        BY <3>3, <4>1
    <3>6. \A r \in Earlier(serviceRows)' : r.id[1] = p => r.id \in toClose'.services
      BY <1>2, <3>4
    <3> QED
      BY <3>5, <3>6 DEF RenewalKnown, Renews, Fresh
  <2>4. CASE d.kind \notin {"stake", "claim"}
    <3>1. services = record[p].services
      BY <1>1, <2>2, <2>4 DEF NewServices
    <3>2. ~Renews(Data[handled + 1], p)
      BY <1>1, <2>4 DEF Renews
    <3> QED
      BY <1>1, <1>2, <1>5, <1>6, <2>1, <3>1, <3>2, ServicesStay
  <2> QED
    BY <2>3, <2>4
<1>11. ASSUME InBlock("activated", p), OnChain(p) PROVE ActivationKnown(p)'
  <2>1. ActivationKnown(p)
    BY <1>1, <1>7, <1>11 DEF KnowsServices
  <2>2. ~Renewed(p) /\ d.kind # "unbondingEnd"
    BY <1>1, <1>5, <1>11 DEF ChainBlockInv, ChainBlock, InBlock
  <2>3. ~Renews(Data[handled + 1], p)
    BY <1>1, <1>5, <2>2, WhoIsRead
  <2>4. CASE d.kind = "activated"
    <3>1. /\ services = [s \in Services |-> IF record[p].services[s] = None THEN None ELSE TRUE]
          /\ closed = {s \in HeldIn(record[p].services) : record[p].services[s] = FALSE}
      BY <1>1, <2>4 DEF NewServices
    <3>2. onChain[p].services \in SUBSET Services
      BY <1>1, <1>11, ChainTyped
    <3>3. \A s \in Services : record[p].services[s] = None <=> s \notin onChain[p].services
      BY <2>1, NoneIsNone DEF ActivationKnown, Given
    <3>4. services = Given(onChain[p].services, TRUE)
      BY <3>1, <3>3 DEF Given
    <3>5. \A s \in onChain[p].services : <<p, s>> \in toClose'.services
      <4>1. CASE \A s \in onChain[p].services : <<p, s>> \in toClose.services
        BY <1>1, <4>1
      <4>2. CASE record[p].services = Given(onChain[p].services, FALSE)
        <5>1. \A s \in onChain[p].services : s \in Services /\ record[p].services[s] = FALSE
          BY <3>2, <4>2 DEF Given
        <5>2. \A s \in onChain[p].services : s \in closed
          BY <3>1, <3>3, <5>1 DEF HeldIn
        <5> QED
          BY <1>1, <5>2
      <4> QED
        BY <2>1, <4>1, <4>2 DEF ActivationKnown
    <3> QED
      BY <1>2, <1>6, <3>4, <3>5 DEF ActivationKnown, Given
  <2>5. CASE d.kind # "activated"
    <3>1. services = record[p].services
      BY <1>1, <2>2, <2>3, <2>5 DEF NewServices, Renews
    <3> QED
      BY <1>1, <1>2, <1>5, <1>6, <2>1, <2>3, <2>5, <3>1, ServicesStay
  <2> QED
    BY <2>4, <2>5
<1>12. KnowsServices'
  BY <1>1, <1>2, <1>4, <1>6, <1>8, <1>9, <1>10, <1>11 DEF KnowsServices, NoServices
<1> QED
  BY <1>1, <1>3, <1>12 DEF ServicesInv

LEMMA ServicesWrites ==
    ASSUME TypeInv, StageInv, ServicesInv, DeleteAndClose \/ SaveSuppliers \/ SaveServices \/ UNCHANGED vars
    PROVE  ServicesInv'
<1>1. /\ UNCHANGED <<onChain, txData, finalizedData, height, crashes>>
      /\ Data' = Data /\ B' = B /\ SuppliersToFetchServices' = SuppliersToFetchServices
      /\ (\A q : OnChain(q)' = OnChain(q))
      /\ (\A kind, q : InBlock(kind, q)' = InBlock(kind, q))
      /\ Earlier(serviceRows)' = Earlier(serviceRows)
  BY InBlockFrame
<1>2. OldRight' /\ LeftServices'
  BY <1>1, ServicesFrame
<1>3. /\ record' = record /\ toClose' = toClose /\ handled' = handled
      /\ pc' \in {"handle", "insert"} => pc \in {"handle", "insert"}
  BY DEF DeleteAndClose, SaveSuppliers, SaveServices, vars, memory
<1>4. \A q : Renewed(q)' = Renewed(q)
  BY <1>1 DEF Renewed
<1>5. \A q : RenewalKnown(q) => RenewalKnown(q)'
  BY <1>1, <1>3 DEF RenewalKnown, Renews, Fresh
<1>6. \A q : ActivationKnown(q) => ActivationKnown(q)'
  BY <1>1, <1>3 DEF ActivationKnown, Given
<1>7. KnowsServices => KnowsServices'
  BY <1>1, <1>3, <1>4, <1>5, <1>6 DEF KnowsServices, NoServices
<1> QED
  BY <1>2, <1>3, <1>7 DEF ServicesInv

\* A failed attempt leaves rows of services staked anew: it may not leave rows
\* computed from stored ones.
LEMMA ServicesCrash ==
    ASSUME ~RetryRelative, TypeInv, StageInv, ServicesInv, Crash
    PROVE  ServicesInv'
<1>1. /\ pc \in {"handle", "insert"} /\ pc' = "begin" /\ crashes' = crashes + 1
      /\ UNCHANGED <<onChain, txData, finalizedData, height, serviceRows>>
      /\ ~Left \/ NoRelative
  BY DEF Crash, chainVars, tables, NoRelative
<1>2. Data' = Data /\ B' = B
  BY <1>1 DEF Data, B
<1>3. \A q : /\ Renewed(q)' = Renewed(q) /\ OnChain(q)' = OnChain(q)
             /\ InBlock("activated", q)' = InBlock("activated", q)
  BY <1>1, <1>2 DEF Renewed, OnChain, InBlock
<1>4. \A q, on : Serves(q, on) => Serves(q, on)'
  BY <1>1, <1>2 DEF Serves
<1>5. ASSUME NEW q \in Suppliers, OnChain(q)', ~Renewed(q)'
      PROVE  Serves(q, IF InBlock("activated", q) THEN FALSE ELSE ~onChain[q].pending)'
  <2>1. PICK on : on = (IF InBlock("activated", q) THEN FALSE ELSE ~onChain[q].pending)
    OBVIOUS
  <2>2. on = (IF InBlock("activated", q)' THEN FALSE ELSE ~onChain'[q].pending)
    BY <1>1, <1>3, <2>1
  <2>3. Serves(q, on)'
    BY <1>3, <1>4, <1>5, <2>1 DEF ServicesInv, OldRight
  <2> QED
    BY <2>2, <2>3
<1>6. ASSUME NEW r \in serviceRows, r.lo = B
      PROVE  Renewed(r.id[1])
  <2>1. CASE r \in Earlier(serviceRows)
    BY <1>6, <2>1 DEF ServicesInv, LeftServices
  <2>2. CASE r \notin Earlier(serviceRows)
    <3>1. pc = "insert" /\ r \in ServicesToSave
      BY <1>6, <2>2 DEF Earlier, StageInv, Staged
    <3>2. PICK id \in Suppliers \X Services : r.id = id /\ record[id[1]].services[id[2]] # None
      BY <3>1 DEF ServicesToSave
    <3>3. PICK p \in Suppliers, s \in Services : id = <<p, s>>
      BY <3>2
    <3>4. record[p].services[s] # None /\ r.id[1] = p
      BY <3>2, <3>3
    <3>5. NoServices[s] = None
      BY DEF NoServices
    <3>6. p \in SuppliersToFetchServices
      BY <3>1, <3>4, <3>5 DEF ServicesInv, KnowsServices
    <3>7. Left
      BY <1>6 DEF Left
    <3>8. ~InBlock("activated", p)
      BY <1>1, <3>7 DEF NoRelative, Relative, InBlock
    <3> QED
      BY <3>4, <3>6, <3>8, WhoIsRead
  <2> QED
    BY <2>1, <2>2
<1>7. LeftServices'
  BY <1>1, <1>2, <1>3, <1>6 DEF LeftServices, Earlier
<1> QED
  BY <1>1, <1>5, <1>7 DEF ServicesInv, OldRight

\* Only messages stake.
LEMMA RenewsInTx ==
    ASSUME TypeInv, NEW p, NEW j \in 1..Len(Data), Renews(Data[j], p)
    PROVE  /\ j \in 1..Len(txData) /\ txData[j] = Data[j]
           /\ \A i \in (j + 1)..Len(txData) : i \in (j + 1)..Len(Data) /\ txData[i] = Data[i]
<1>1. /\ Len(txData) \in Nat /\ Len(finalizedData) \in Nat
      /\ Len(Data) = Len(txData) + Len(finalizedData)
      /\ \A i \in 1..Len(txData) : Data[i] = txData[i]
  BY DataTyped
<1>2. j \in 1..Len(txData)
  <2> SUFFICES ASSUME j > Len(txData) PROVE FALSE
    BY <1>1
  <2>1. j \in (Len(txData) + 1)..Len(Data)
    BY <1>1
  <2>2. Data[j] \in EndDatum /\ Data[j] \in AnyDatum
    BY <2>1, DataTyped
  <2> QED
    BY <2>2, DatumFields DEF Renews
<1>3. PICK m \in Nat, n \in Nat : m = Len(txData) /\ n = Len(Data) /\ m <= n
  BY <1>1
<1>4. \A i \in (j + 1)..m : i \in (j + 1)..n /\ i \in 1..m
  BY <1>2, <1>3
<1> QED
  BY <1>1, <1>2, <1>3, <1>4

\* The block transaction replaces the rows of the services of the block.
LEMMA ServicesCommit ==
    ASSUME TypeInv, StageInv, ChainBlockInv, ServicesInv, Commit
    PROVE  ServicesInv'
<1>1. /\ pc = "insert" /\ ServicesToSave \subseteq serviceRows
      /\ serviceRows' = serviceRows \ dropped.services
      /\ height' = height + 1 /\ txData' = <<>> /\ finalizedData' = <<>> /\ onChain' = onChain
      /\ pc' = "chain"
  BY DEF Commit, B
<1>2. KnowsServices /\ handled = Len(Data) /\ OldRight /\ LeftServices
  BY <1>1 DEF ServicesInv, StageInv
<1>3. dropped.services = Dropped(Earlier(serviceRows), ServicesToSave, toClose.services)
  BY <1>1 DEF StageInv, DroppedRight
<1>4. B' = B + 1 /\ B \in Nat
  BY <1>1, RowsTyped DEF B
<1>5. \A r \in serviceRows' : r.lo # B'
  BY <1>1, <1>4, RowsTyped DEF StageInv, Staged
<1>6. Data' = <<>> /\ \A kind, p : ~InBlock(kind, p)'
  BY <1>1 DEF Data, InBlock
<1>7. ASSUME NEW r
      PROVE  /\ r \in serviceRows' => r \in ServicesToSave \/ (r \in Earlier(serviceRows) /\ r.id \notin toClose.services)
             /\ r \in ServicesToSave => r \in serviceRows'
             /\ r \in serviceRows /\ r.lo # B /\ r.id \notin toClose.services => r \in serviceRows'
  <2>1. r \in serviceRows => r \in ServicesToSave \/ r \in Earlier(serviceRows)
    BY DEF Earlier, StageInv, Staged
  <2>2. r \in ServicesToSave => r \notin Earlier(serviceRows)
    BY SavedLater DEF Earlier
  <2> QED
    BY <1>1, <1>3, <2>1, <2>2 DEF Dropped
<1>8. ASSUME NEW p \in Suppliers
      PROVE  /\ \A r \in ServicesToSave : r.id[1] = p =>
                   /\ r.id[2] \in Services
                   /\ r.activated = record[p].services[r.id[2]] /\ r.activated # None
             /\ \A s \in Services : record[p].services[s] # None =>
                   \E r \in ServicesToSave : r.id = <<p, s>>
             /\ \A r, t \in ServicesToSave : r.id = t.id => r = t
  <2>1. ASSUME NEW r \in ServicesToSave, r.id[1] = p
        PROVE  /\ r.id[2] \in Services
               /\ r.activated = record[p].services[r.id[2]] /\ r.activated # None
    BY <2>1 DEF ServicesToSave
  <2>2. ASSUME NEW s \in Services, record[p].services[s] # None
        PROVE  \E r \in ServicesToSave : r.id = <<p, s>>
    <3>1. PICK id \in Suppliers \X Services : id = <<p, s>>
      OBVIOUS
    <3>2. record[id[1]].services[id[2]] # None
      BY <2>2, <3>1
    <3>3. PICK r : r = [id |-> id, activated |-> record[id[1]].services[id[2]], lo |-> B, att |-> crashes]
      OBVIOUS
    <3>4. r \in ServicesToSave
      BY <3>2, <3>3 DEF ServicesToSave
    <3> QED
      BY <3>1, <3>3, <3>4
  <2>3. \A r, t \in ServicesToSave : r.id = t.id => r = t
    BY DEF ServicesToSave
  <2> QED
    BY <2>1, <2>2, <2>3
<1>9. ASSUME NEW p \in Suppliers, NEW on \in BOOLEAN, OnChain(p),
             record[p].services = Given(onChain[p].services, on),
             \A r \in Earlier(serviceRows) : r.id[1] = p => r.id \in toClose.services
      PROVE  Serves(p, on)'
  <2>1. on # None /\ onChain[p].services \in SUBSET Services
    BY <1>9, ChainTyped, NoneIsNone
  <2>2. \A s \in Services : record[p].services[s] = IF s \in onChain[p].services THEN on ELSE None
    BY <1>9 DEF Given
  <2>3. ASSUME NEW r \in serviceRows', r.id[1] = p
        PROVE  r \in ServicesToSave /\ r.id[2] \in onChain[p].services /\ r.activated = on
    <3>1. r \in ServicesToSave
      BY <1>7, <1>9, <2>3
    <3> QED
      BY <1>8, <2>2, <2>3, <3>1
  <2>4. ASSUME NEW s \in onChain[p].services
        PROVE  \E r \in serviceRows' : r.id = <<p, s>> /\ r.lo # B'
    <3>1. PICK r \in ServicesToSave : r.id = <<p, s>>
      BY <1>8, <2>1, <2>2
    <3> QED
      BY <1>5, <1>7, <3>1
  <2>5. \A r, t \in serviceRows' : r.id = t.id /\ r.id[1] = p => r = t
    BY <1>8, <2>3
  <2> QED
    BY <1>1, <2>3, <2>4, <2>5 DEF Serves
<1>10. ASSUME NEW p \in Suppliers, OnChain(p)
       PROVE  Serves(p, ~onChain[p].pending)'
  <2>1. ChainBlock(p) /\ onChain[p].pending \in BOOLEAN
    BY <1>10, ChainTyped DEF ChainBlockInv
  <2>2. CASE Renewed(p)
    <3>1. RenewalKnown(p) /\ \E j \in 1..Len(Data) : Renews(Data[j], p)
      BY <1>2, <2>2, WhoIsRead DEF KnowsServices
    <3>2. /\ \E j \in 1..Len(Data) : /\ Renews(Data[j], p)
                                     /\ \A i \in (j + 1)..Len(Data) : ~Renews(Data[i], p)
                                     /\ record[p].services = Fresh(Data[j].services)
          /\ \A r \in Earlier(serviceRows) : r.id[1] = p => r.id \in toClose.services
      BY <1>2, <3>1 DEF RenewalKnown
    <3>3. PICK j \in 1..Len(Data) : /\ Renews(Data[j], p)
                                    /\ \A i \in (j + 1)..Len(Data) : ~Renews(Data[i], p)
                                    /\ record[p].services = Fresh(Data[j].services)
      BY <3>2
    <3>4. /\ j \in 1..Len(txData) /\ txData[j] = Data[j]
          /\ \A i \in (j + 1)..Len(txData) : ~Renews(txData[i], p)
      BY <3>3, RenewsInTx
    <3>5. onChain[p].services = Data[j].services /\ onChain[p].pending
      BY <2>1, <2>2, <3>3, <3>4 DEF ChainBlock
    <3>6. record[p].services = Given(onChain[p].services, FALSE)
      BY <3>3, <3>5 DEF Fresh, Given
    <3>7. Serves(p, FALSE)'
      BY <1>9, <1>10, <3>2, <3>6
    <3>8. FALSE = ~onChain[p].pending
      BY <3>5
    <3> QED
      BY <1>1, <3>7, <3>8
  <2>3. CASE InBlock("activated", p) /\ ~Renewed(p)
    <3>1. ActivationKnown(p) /\ Serves(p, FALSE)
      BY <1>2, <1>10, <2>3 DEF KnowsServices, OldRight
    <3>2. \E j \in 1..Len(Data) : Data[j].kind = "activated" /\ Data[j].supplier = p
      BY <2>3, DataTyped DEF InBlock
    <3>3. /\ record[p].services = Given(onChain[p].services, TRUE)
          /\ \A s \in onChain[p].services : <<p, s>> \in toClose.services
      BY <1>2, <3>1, <3>2 DEF ActivationKnown
    <3>4. ASSUME NEW r \in Earlier(serviceRows), r.id[1] = p PROVE r.id \in toClose.services
      <4>1. r \in serviceRows /\ r.lo # B
        BY <1>2, <2>3, <3>4 DEF LeftServices, Earlier
      <4>2. r.id[2] \in onChain[p].services /\ r.id \in Suppliers \X Services
        BY <3>1, <3>4, <4>1, RowsTyped DEF Serves
      <4>3. r.id = <<p, r.id[2]>>
        BY <3>4, <4>2
      <4> QED
        BY <3>3, <4>2, <4>3
    <3>5. Serves(p, TRUE)'
      BY <1>9, <1>10, <3>3, <3>4
    <3>6. TRUE = ~onChain[p].pending
      BY <1>10, <2>1, <2>3 DEF ChainBlock
    <3> QED
      BY <1>1, <3>5, <3>6
  <2>4. CASE ~InBlock("activated", p) /\ ~Renewed(p)
    <3>1. p \notin SuppliersToFetchServices
      BY <2>4, WhoIsRead
    <3>2. \A s \in Services : record[p].services[s] = None /\ <<p, s>> \notin toClose.services
      BY <1>2, <3>1 DEF KnowsServices, NoServices
    <3>3. PICK on : on = ~onChain[p].pending
      OBVIOUS
    <3>4. Serves(p, on)
      BY <1>2, <1>10, <2>4, <3>3 DEF OldRight
    <3>5. ASSUME NEW r \in serviceRows', r.id[1] = p
          PROVE  r \in serviceRows /\ r.lo # B
      <4>1. r \notin ServicesToSave
        BY <1>8, <3>2, <3>5
      <4>2. r \in Earlier(serviceRows)
        BY <1>7, <4>1
      <4> QED
        BY <1>2, <2>4, <3>5, <4>2 DEF LeftServices, Earlier
    <3>6. ASSUME NEW r \in serviceRows, r.lo # B, r.id[1] = p
          PROVE  r \in serviceRows'
      <4>1. r.id \in Suppliers \X Services
        BY RowsTyped
      <4>2. r.id = <<p, r.id[2]>> /\ r.id[2] \in Services
        BY <3>6, <4>1
      <4>3. r.id \notin toClose.services
        BY <3>2, <4>2
      <4> QED
        BY <1>7, <3>6, <4>3
    <3>7. ASSUME NEW s \in onChain[p].services
          PROVE  \E r \in serviceRows' : r.id = <<p, s>> /\ r.lo # B'
      <4>1. PICK r \in serviceRows : r.id = <<p, s>> /\ r.lo # B
        BY <3>4 DEF Serves
      <4>2. r.id[1] = p
        BY <4>1
      <4> QED
        BY <1>5, <3>6, <4>1, <4>2
    <3>8. Serves(p, on)'
      BY <1>1, <3>4, <3>5, <3>7 DEF Serves
    <3> QED
      BY <1>1, <3>3, <3>8
  <2> QED
    BY <2>2, <2>3, <2>4
<1>11. OldRight'
  <2> SUFFICES ASSUME NEW p \in Suppliers, OnChain(p)'
               PROVE  Serves(p, IF InBlock("activated", p) THEN FALSE ELSE ~onChain[p].pending)'
    BY DEF OldRight
  <2>1. PICK on : on = ~onChain[p].pending
    OBVIOUS
  <2>2. on = (IF InBlock("activated", p)' THEN FALSE ELSE ~onChain'[p].pending)
    BY <1>1, <1>6, <2>1
  <2>3. OnChain(p)
    BY <1>1 DEF OnChain
  <2>4. Serves(p, on)'
    BY <1>1, <1>10, <2>1, <2>3
  <2> QED
    BY <2>2, <2>4
<1>12. LeftServices'
  BY <1>5 DEF LeftServices, Earlier
<1> QED
  BY <1>1, <1>11, <1>12 DEF ServicesInv

LEMMA ServicesKept ==
    ~RetryRelative /\ TypeInv /\ StageInv /\ ChainBlockInv /\ ServicesInv /\ [Next]_vars => ServicesInv'
<1> SUFFICES ASSUME ~RetryRelative, TypeInv, StageInv, ChainBlockInv, ServicesInv, [Next]_vars
             PROVE  ServicesInv'
  OBVIOUS
<1>1. CASE Next
  BY <1>1, Steps, ServicesGrow, ServicesFetch, ServicesHandled, ServicesWrites, ServicesCommit,
     ServicesCrash
<1>2. CASE UNCHANGED vars
  BY <1>2, ServicesWrites
<1> QED
  BY <1>1, <1>2

\* The invariants together, where no supplier stakes in the block of its activation.
Stakings == ~RetryRelative /\ ~Restakes /\ TypeInv /\ StageInv /\ ChainBlockInv /\ ServicesInv

LEMMA StakingsHold == ~RetryRelative /\ ~Restakes /\ Spec => []Stakings
<1>1. ~RetryRelative /\ ~Restakes /\ Init => Stakings
  BY TypeInitial, StageInitial, ChainBlockInitial, ServicesInitial DEF Stakings
<1>2. Stakings /\ [Next]_vars => Stakings'
  <2> SUFFICES ASSUME Stakings, [Next]_vars PROVE Stakings'
    OBVIOUS
  <2>1. ~RetryRelative /\ ~Restakes /\ TypeInv /\ StageInv /\ ChainBlockInv /\ ServicesInv
    BY DEF Stakings
  <2>2. TypeInv' /\ StageInv'
    BY <2>1, TypeKept, StageKept
  <2>3. ChainBlockInv'
    BY <2>1, ChainBlockKept
  <2>4. ServicesInv'
    BY <2>1, ServicesKept
  <2> QED
    BY <2>1, <2>2, <2>3, <2>4 DEF Stakings
<1> QED
  BY <1>1, <1>2, PTL DEF Spec

\* After every block the rows in force of a supplier are the services the chain has
\* it staked for, each once and active if the chain has activated it, whatever
\* attempts failed before and left their rows, for any data; of attempts that compute
\* nothing from such rows, and blocks that do not stake and activate the services of
\* one supplier (indexSupplier).
THEOREM ServicesCorrect == ~RetryRelative /\ ~Restakes /\ Spec => []ServicesMatchChain
<1>1. ASSUME Stakings PROVE ServicesMatchChain
  <2>1. TypeInv /\ StageInv /\ OldRight
    BY <1>1 DEF Stakings, ServicesInv
  <2> SUFFICES ASSUME Indexed, NEW p \in Suppliers, OnChain(p)
               PROVE  /\ {<<r.id[2], r.activated>> : r \in {r \in serviceRows : r.id[1] = p}}
                            = {<<s, ~onChain[p].pending>> : s \in onChain[p].services}
                      /\ \A s \in onChain[p].services : One(serviceRows, <<p, s>>)
    BY DEF ServicesMatchChain
  <2>2. pc = "chain" /\ Data = <<>>
    BY DEF Indexed
  <2>3. \A r \in serviceRows : r.lo # B
    BY <2>1, <2>2 DEF StageInv, Staged
  <2>4. ~InBlock("activated", p)
    BY <2>2 DEF InBlock
  <2>5. ~Renewed(p)
    <3>1. Len(Data) = 0 /\ Len(txData) \in Nat /\ Len(finalizedData) \in Nat
          /\ Len(Data) = Len(txData) + Len(finalizedData)
      BY <2>1, <2>2, DataTyped
    <3>2. 1..Len(txData) = {}
      BY <3>1
    <3> QED
      BY <3>2 DEF Renewed
  <2>6. PICK on : on = ~onChain[p].pending
    OBVIOUS
  <2>7. Serves(p, on)
    BY <2>1, <2>4, <2>5, <2>6 DEF OldRight
  <2>8. ASSUME NEW s \in onChain[p].services
        PROVE  /\ One(serviceRows, <<p, s>>)
               /\ \E r \in serviceRows : r.id[1] = p /\ r.id[2] = s /\ r.activated = on
    <3>1. PICK r \in serviceRows : r.id = <<p, s>>
      BY <2>7 DEF Serves
    <3>2. r.id[1] = p /\ r.id[2] = s
      BY <3>1
    <3>3. {t \in serviceRows : t.id = <<p, s>>} = {r}
      BY <2>3, <2>7, <3>1, <3>2 DEF Serves
    <3>4. One(serviceRows, <<p, s>>)
      BY <3>3, FS_Singleton DEF One
    <3> QED
      BY <2>3, <2>7, <3>2, <3>4 DEF Serves
  <2>9. \A r \in serviceRows : r.id[1] = p => r.id[2] \in onChain[p].services /\ r.activated = on
    BY <2>3, <2>7 DEF Serves
  <2>10. {<<r.id[2], r.activated>> : r \in {r \in serviceRows : r.id[1] = p}}
            = {<<s, on>> : s \in onChain[p].services}
    <3>1. ASSUME NEW r \in serviceRows, r.id[1] = p
          PROVE  \E s \in onChain[p].services : <<r.id[2], r.activated>> = <<s, on>>
      BY <2>9, <3>1
    <3>2. ASSUME NEW s \in onChain[p].services
          PROVE  \E r \in serviceRows : r.id[1] = p /\ <<r.id[2], r.activated>> = <<s, on>>
      BY <2>8
    <3> QED
      BY <3>1, <3>2
  <2> QED
    BY <2>6, <2>8, <2>10
<1> QED
  BY <1>1, StakingsHold, PTL
=============================================================================
