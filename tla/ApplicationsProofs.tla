------------------------- MODULE ApplicationsProofs -------------------------
(***************************************************************************)
(* Proofs about Applications, for any applications, services and gateways, *)
(* any stakes and any number of operations in a block.                     *)
(*                                                                         *)
(* The handlers run behind the chain: when a block is being handled, its   *)
(* store has moved past what the tables show.  The invariant says that the *)
(* data left lead, one by one, from a store that the tables mirror to the  *)
(* store of the chain.                                                     *)
(*                                                                         *)
(* That a handler is one step rests on the scheduler that calls it, which  *)
(* the last section is about: for every set of entities and blocks of any  *)
(* length, no two handlers of one entity run together.                     *)
(***************************************************************************)
EXTENDS Applications, StakeEntity, SequenceTheorems, TLAPS

-----------------------------------------------------------------------------
(* Data and the stores they lead through *)

Leaving == {"elective", "below_min_stake"}

StakeData == [kind : {"stake", "claim"}, app : Apps, stake : 1..MaxStake,
              services : (SUBSET Services) \ {{}}]
PlainData == [kind : {"unstake", "settled", "unbondingEnd", "transferBegin", "transferError"},
              app : Apps]
BeginData == [kind : {"unbondingBegin"}, app : Apps, reason : Leaving]
GatewayData == [kind : {"delegate", "undelegate"}, app : Apps, gateway : Gateways]
TransferData == [kind : {"transfer", "transferEnd"}, app : Apps, to : Apps]

Datum == StakeData \cup PlainData \cup BeginData \cup GatewayData \cup TransferData

\* An application under transfer is not unbonding.
Stores == {s \in [Apps -> ChainApp \cup {None}] :
             \A a \in Apps : s[a] # None /\ s[a].transferTo # None => ~s[a].unbonding}

\* What a datum says the chain did to its application.
LeadsStake(d, s, t) ==
    /\ d.kind \in {"stake", "claim"}
    /\ \E stake \in 1..MaxStake :
          t = [s EXCEPT ![d.app] =
                 [stake |-> stake, unbonding |-> FALSE, services |-> d.services,
                  transferTo |-> IF s[d.app] # None THEN s[d.app].transferTo ELSE None,
                  gateways |-> IF s[d.app] # None THEN s[d.app].gateways ELSE {}]]
LeadsNowhere(d, s, t) ==
    d.kind \in {"unstake", "transferBegin"} /\ s[d.app] # None /\ t = s
LeadsSettled(d, s, t) ==
    /\ d.kind = "settled" /\ s[d.app] # None /\ s[d.app].stake > 1
    /\ t = [s EXCEPT ![d.app].stake = @ - 1]
LeadsBegin(d, s, t) ==
    /\ d.kind = "unbondingBegin" /\ s[d.app] # None
    /\ t = [s EXCEPT ![d.app].unbonding = TRUE]
LeadsEnd(d, s, t) ==
    /\ d.kind = "unbondingEnd" /\ s[d.app] # None /\ s[d.app].unbonding
    /\ t = [s EXCEPT ![d.app] = None]
LeadsDelegate(d, s, t) ==
    /\ d.kind = "delegate" /\ s[d.app] # None
    /\ t = [s EXCEPT ![d.app].gateways = @ \cup {d.gateway}]
LeadsUndelegate(d, s, t) ==
    /\ d.kind = "undelegate" /\ s[d.app] # None
    /\ t = [s EXCEPT ![d.app].gateways = @ \ {d.gateway}]
LeadsTransfer(d, s, t) ==
    /\ d.kind = "transfer" /\ s[d.app] # None
    /\ t = [s EXCEPT ![d.app].transferTo = d.to]
LeadsTransferEnd(d, s, t) ==
    /\ d.kind = "transferEnd" /\ s[d.app] # None /\ s[d.app].transferTo = d.to /\ s[d.to] = None
    /\ t = [s EXCEPT ![d.app] = None, ![d.to] = [s[d.app] EXCEPT !.transferTo = None]]
LeadsTransferError(d, s, t) ==
    /\ d.kind = "transferError" /\ s[d.app] # None
    /\ t = [s EXCEPT ![d.app].transferTo = None]

Leads(d, s, t) ==
    \/ LeadsStake(d, s, t) \/ LeadsNowhere(d, s, t) \/ LeadsSettled(d, s, t)
    \/ LeadsBegin(d, s, t) \/ LeadsEnd(d, s, t)
    \/ LeadsDelegate(d, s, t) \/ LeadsUndelegate(d, s, t)
    \/ LeadsTransfer(d, s, t) \/ LeadsTransferEnd(d, s, t) \/ LeadsTransferError(d, s, t)

\* The data lead from s to t.
Path(s, seq, t) ==
    \E p \in [0..Len(seq) -> Stores] :
        /\ p[0] = s /\ p[Len(seq)] = t
        /\ \A i \in 1..Len(seq) : Leads(seq[i], p[i - 1], p[i])

LEMMA PathEmpty ==
    ASSUME NEW s \in Stores
    PROVE  /\ Path(s, <<>>, s)
           /\ \A t : Path(s, <<>>, t) => s = t
<1>1. [i \in 0..0 |-> s] \in [0..Len(<<>>) -> Stores]
  OBVIOUS
<1>2. Path(s, <<>>, s)
  <2>1. PICK p : p = [i \in 0..0 |-> s]
    OBVIOUS
  <2>2. p \in [0..Len(<<>>) -> Stores] /\ p[0] = s /\ p[Len(<<>>)] = s
    BY <1>1, <2>1
  <2> QED
    BY <2>2 DEF Path
<1> QED
  BY <1>2 DEF Path

LEMMA PathAppend ==
    ASSUME NEW seq \in Seq(Datum), NEW s, NEW t, NEW u \in Stores, NEW d \in Datum,
           Path(s, seq, t), Leads(d, t, u)
    PROVE  Path(s, Append(seq, d), u)
<1>1. PICK p \in [0..Len(seq) -> Stores] :
        /\ p[0] = s /\ p[Len(seq)] = t
        /\ \A i \in 1..Len(seq) : Leads(seq[i], p[i - 1], p[i])
  BY DEF Path
<1>2. PICK n \in Nat : n = Len(seq)
  BY LenProperties
<1>3. PICK q : q = [i \in 0..(n + 1) |-> IF i = n + 1 THEN u ELSE p[i]]
  OBVIOUS
<1>4. Len(Append(seq, d)) = n + 1 /\ q \in [0..(n + 1) -> Stores] /\ q[0] = s /\ q[n + 1] = u
  BY <1>1, <1>2, <1>3, AppendProperties
<1>5. ASSUME NEW i \in 1..(n + 1) PROVE Leads(Append(seq, d)[i], q[i - 1], q[i])
  <2>1. CASE i = n + 1
    <3>1. Append(seq, d)[i] = d /\ q[i - 1] = t /\ q[i] = u
      BY <1>1, <1>2, <1>3, <2>1, AppendProperties
    <3> QED
      BY <3>1
  <2>2. CASE i # n + 1
    <3>1. i \in 1..Len(seq) /\ Append(seq, d)[i] = seq[i] /\ q[i - 1] = p[i - 1] /\ q[i] = p[i]
      BY <1>2, <1>3, <2>2, AppendProperties
    <3> QED
      BY <1>1, <3>1
  <2> QED
    BY <2>1, <2>2
<1> QED
  BY <1>4, <1>5 DEF Path

LEMMA PathHead ==
    ASSUME NEW seq \in Seq(Datum), seq # <<>>, NEW s, NEW t, Path(s, seq, t)
    PROVE  \E u \in Stores : Leads(Head(seq), s, u) /\ Path(u, Tail(seq), t)
<1>1. PICK p \in [0..Len(seq) -> Stores] :
        /\ p[0] = s /\ p[Len(seq)] = t
        /\ \A i \in 1..Len(seq) : Leads(seq[i], p[i - 1], p[i])
  BY DEF Path
<1>2. PICK n \in Nat : n + 1 = Len(seq)
  <2>1. Len(seq) \in Nat /\ Len(seq) # 0
    BY LenProperties, EmptySeq
  <2> QED
    BY <2>1
<1>3. PICK q : q = [i \in 0..n |-> p[i + 1]]
  OBVIOUS
<1>4. Len(Tail(seq)) = n /\ Head(seq) = seq[1] /\ \A i \in 1..n : Tail(seq)[i] = seq[i + 1]
  BY <1>2, HeadTailProperties
<1>5. p[1] \in Stores /\ Leads(Head(seq), s, p[1])
  BY <1>1, <1>2, <1>4
<1>6. q \in [0..n -> Stores] /\ q[0] = p[1] /\ q[n] = t
  <2>1. \A i \in 0..n : i + 1 \in 0..Len(seq)
    BY <1>2
  <2>2. q \in [0..n -> Stores]
    BY <1>1, <1>3, <2>1
  <2>3. 0 \in 0..n /\ n \in 0..n /\ 0 + 1 = 1
    OBVIOUS
  <2> QED
    BY <1>1, <1>2, <1>3, <2>2, <2>3
<1>7. ASSUME NEW i \in 1..n PROVE Leads(Tail(seq)[i], q[i - 1], q[i])
  <2>1. i + 1 \in 1..Len(seq) /\ q[i - 1] = p[(i + 1) - 1] /\ q[i] = p[i + 1]
    BY <1>2, <1>3
  <2> QED
    BY <1>1, <1>4, <2>1
<1> QED
  BY <1>4, <1>5, <1>6, <1>7 DEF Path

-----------------------------------------------------------------------------
(* The invariant *)

\* Data after which the status of a row is not what it was before.
Renews(d, a) ==
    \/ d.kind \in {"stake", "claim", "unbondingBegin"} /\ d.app = a
    \/ d.kind = "transferEnd" /\ d.to = a

Began(seq, a) == \E i \in 1..Len(seq) : seq[i].kind = "unbondingBegin" /\ seq[i].app = a

ClosedRow(a) == apps[a].status = "Unstaked" /\ apps[a].stake = 0
IsUnstaking(a) == Loaded(a) /\ apps[a].status = "Unstaking"

\* The tables show the applications of s, and nothing that would be wrong for one
\* that takes the place of an application not in it.
MirrorsListed(s, a) ==
    /\ Loaded(a)
    /\ apps[a].transferringTo = s[a].transferTo
    /\ ServicesOf(a) = s[a].services
    /\ s[a].gateways \subseteq GatewaysOf(a)
MirrorsAbsent(a) ==
    /\ ServicesOf(a) = {}
    /\ Loaded(a) => /\ apps[a].transferringTo = None
                    /\ apps[a].reason \in Leaving =>
                          ClosedRow(a) \/ (pc # "chain" /\ apps[a].status = "Unstaking")
MirrorsAt(s, a) ==
    /\ s[a] # None => MirrorsListed(s, a)
    /\ s[a] = None => MirrorsAbsent(a)
Mirrors(s) == \A a \in Apps : MirrorsAt(s, a)

\* The reconcile saw all unbondings but those that began since.
UnbondingKnown(seq, store) ==
    \A a \in Apps :
        store[a] # None /\ store[a].unbonding /\ ~Began(seq, a) =>
            IsUnstaking(a) /\ \A i \in 1..Len(seq) : ~Renews(seq[i], a)

\* So when an unbonding ends its row is Unstaking, and no datum before changes that.
EndsKnown(seq) ==
    \A i \in 1..Len(seq) : seq[i].kind = "unbondingEnd" =>
        IsUnstaking(seq[i].app) /\ \A j \in 1..(i - 1) : ~Renews(seq[j], seq[i].app)

TypesInv ==
    /\ onChain \in Stores
    /\ data \in Seq(Datum)
    /\ pc \in {"chain", "handle", "reconcile"}
    /\ pc = "reconcile" => data = <<>>
    /\ apps \in [Apps -> Row \cup {None}]
    /\ appServices \subseteq Apps \X Services
    /\ appGateways \subseteq Apps \X Gateways
    /\ ops \in 0..MaxOps /\ Len(data) <= MaxData + 1

BehindInv == \E s \in Stores : Path(s, data, onChain) /\ Mirrors(s)

IInv ==
    /\ TypesInv
    /\ BehindInv
    /\ pc = "chain" => UnbondingKnown(data, onChain)
    /\ EndsKnown(data)
    /\ ListedMatchChain
    /\ UnbondedAreClosed

-----------------------------------------------------------------------------
(* The chain *)

\* What one more datum of the chain does to the invariant.
LEMMA OneMore ==
    ASSUME NEW seq \in Seq(Datum), NEW d \in Datum, NEW s \in Stores, NEW t \in Stores,
           Leads(d, s, t),
           d.kind = "unbondingEnd" => ~Began(seq, d.app),
           UnbondingKnown(seq, s), EndsKnown(seq)
    PROVE  UnbondingKnown(Append(seq, d), t) /\ EndsKnown(Append(seq, d))
<1>1. PICK n \in Nat : n = Len(seq)
  BY LenProperties
<1>2. PICK new : new = Append(seq, d)
  OBVIOUS
<1>3. Len(new) = n + 1 /\ new[n + 1] = d /\ \A i \in 1..n : new[i] = seq[i]
  BY <1>1, <1>2, AppendProperties
<1>4. d.app \in Apps /\ (d.kind = "transferEnd" => d.to \in Apps)
  BY DEF Datum, StakeData, PlainData, BeginData, GatewayData, TransferData
<1>5. s \in [Apps -> ChainApp \cup {None}] /\ t \in [Apps -> ChainApp \cup {None}]
  BY DEF Stores
<1>6. ASSUME NEW a \in Apps PROVE ~Began(new, a) => ~Began(seq, a) /\ ~(d.kind = "unbondingBegin" /\ d.app = a)
  BY <1>1, <1>3 DEF Began
<1>7. ASSUME NEW a \in Apps, t[a] # None, t[a].unbonding, ~Began(new, a)
      PROVE  IsUnstaking(a) /\ \A i \in 1..(n + 1) : ~Renews(new[i], a)
  <2>1. s[a] # None /\ s[a].unbonding /\ ~Renews(d, a)
    <3>1. CASE LeadsStake(d, s, t)
      BY <1>4, <1>5, <1>7, <3>1 DEF LeadsStake, Renews
    <3>2. CASE LeadsNowhere(d, s, t)
      BY <1>4, <1>5, <1>7, <3>2 DEF LeadsNowhere, Renews
    <3>3. CASE LeadsSettled(d, s, t)
      BY <1>4, <1>5, <1>7, <3>3 DEF LeadsSettled, Renews, ChainApp
    <3>4. CASE LeadsBegin(d, s, t)
      BY <1>4, <1>5, <1>6, <1>7, <3>4 DEF LeadsBegin, Renews
    <3>5. CASE LeadsEnd(d, s, t)
      BY <1>4, <1>5, <1>7, <3>5 DEF LeadsEnd, Renews
    <3>6. CASE LeadsDelegate(d, s, t)
      BY <1>4, <1>5, <1>7, <3>6 DEF LeadsDelegate, Renews, ChainApp
    <3>7. CASE LeadsUndelegate(d, s, t)
      BY <1>4, <1>5, <1>7, <3>7 DEF LeadsUndelegate, Renews, ChainApp
    <3>8. CASE LeadsTransfer(d, s, t)
      BY <1>4, <1>5, <1>7, <3>8 DEF LeadsTransfer, Renews, ChainApp
    <3>9. CASE LeadsTransferEnd(d, s, t)
      <4>1. d.to \in Apps /\ s[d.app] \in ChainApp /\ ~s[d.app].unbonding
        BY <1>4, <1>5, <3>9, ApplicationsAssumption DEF LeadsTransferEnd, Stores
      <4>2. ~t[d.to].unbonding
        BY <1>5, <3>9, <4>1 DEF LeadsTransferEnd, ChainApp
      <4>3. a # d.to /\ a # d.app /\ t[a] = s[a]
        BY <1>4, <1>5, <1>7, <3>9, <4>1, <4>2 DEF LeadsTransferEnd
      <4> QED
        BY <1>7, <3>9, <4>3 DEF LeadsTransferEnd, Renews
    <3>10. CASE LeadsTransferError(d, s, t)
      BY <1>4, <1>5, <1>7, <3>10 DEF LeadsTransferError, Renews, ChainApp
    <3> QED
      BY <3>1, <3>2, <3>3, <3>4, <3>5, <3>6, <3>7, <3>8, <3>9, <3>10 DEF Leads
  <2>2. IsUnstaking(a) /\ \A i \in 1..n : ~Renews(seq[i], a)
    BY <1>1, <1>6, <1>7, <2>1 DEF UnbondingKnown
  <2> QED
    BY <1>3, <2>1, <2>2
<1>8. ASSUME NEW i \in 1..(n + 1), new[i].kind = "unbondingEnd"
      PROVE  IsUnstaking(new[i].app) /\ \A j \in 1..(i - 1) : ~Renews(new[j], new[i].app)
  <2>1. CASE i = n + 1
    <3>1. d.kind = "unbondingEnd" /\ s[d.app] # None /\ s[d.app].unbonding /\ ~Began(seq, d.app)
      BY <1>3, <1>8, <2>1 DEF Leads, LeadsStake, LeadsNowhere, LeadsSettled, LeadsBegin, LeadsEnd,
         LeadsDelegate, LeadsUndelegate, LeadsTransfer, LeadsTransferEnd, LeadsTransferError
    <3>2. IsUnstaking(d.app) /\ \A j \in 1..n : ~Renews(seq[j], d.app)
      BY <1>1, <1>4, <3>1 DEF UnbondingKnown
    <3> QED
      BY <1>3, <2>1, <3>2
  <2>2. CASE i # n + 1
    <3>1. i \in 1..n /\ \A j \in 1..(i - 1) : new[j] = seq[j]
      BY <1>3, <2>2
    <3> QED
      BY <1>1, <1>3, <1>8, <3>1 DEF EndsKnown
  <2> QED
    BY <2>1, <2>2
<1> QED
  BY <1>2, <1>3, <1>7, <1>8 DEF UnbondingKnown, EndsKnown

LEMMA InitCorrect ==
    ASSUME Init
    PROVE  IInv
<1>1. TypesInv
  BY EmptySeq, ApplicationsAssumption DEF Init, TypesInv, Stores
<1>2. Mirrors(onChain)
  <2>1. ASSUME NEW a \in Apps PROVE onChain[a] = None /\ ~Loaded(a) /\ ServicesOf(a) = {}
    BY DEF Init, ServicesOf, Loaded
  <2> QED
    BY <2>1 DEF Mirrors, MirrorsAt, MirrorsAbsent
<1>3. BehindInv
  <2>1. onChain \in Stores /\ data = <<>>
    BY <1>1 DEF Init, TypesInv
  <2>2. Path(onChain, data, onChain)
    BY <2>1, PathEmpty
  <2> QED
    BY <1>2, <2>1, <2>2 DEF BehindInv
<1>4. UnbondingKnown(data, onChain)
  BY DEF Init, UnbondingKnown
<1>5. EndsKnown(data)
  BY DEF Init, EndsKnown
<1>6. ListedMatchChain /\ UnbondedAreClosed
  BY DEF Init, ListedMatchChain, UnbondedAreClosed, OnChain, Loaded
<1> QED
  BY <1>1, <1>3, <1>4, <1>5, <1>6 DEF IInv

LEMMA SameMirror ==
    ASSUME pc' = pc, UNCHANGED tables, NEW s, Mirrors(s)
    PROVE  Mirrors(s)'
BY DEF tables, Mirrors, MirrorsAt, MirrorsListed, MirrorsAbsent, ServicesOf, GatewaysOf, Loaded,
   ClosedRow

\* The chain adds one datum, or two, to the block.
LEMMA OneDatum ==
    ASSUME IInv, pc = "chain", NEW d \in Datum, NEW t \in Stores, Emit(t, <<d>>),
           Leads(d, onChain, t), d.kind = "unbondingEnd" => ~Began(data, d.app)
    PROVE  IInv'
<1>1. data \in Seq(Datum) /\ onChain \in Stores
  BY DEF IInv, TypesInv
<1>2. PICK new : new = Append(data, d)
  OBVIOUS
<1>3. new \in Seq(Datum) /\ new = data \o <<d>> /\ new # <<>>
  BY <1>1, <1>2, AppendProperties, AppendIsConcat
<1>4. data' = new /\ onChain' = t /\ pc' = pc /\ UNCHANGED tables
  BY <1>3 DEF Emit
<1>5. UnbondingKnown(new, t) /\ EndsKnown(new)
  BY <1>1, <1>2, OneMore DEF IInv
<1>6. UnbondingKnown(data, onChain)' /\ EndsKnown(data)'
  BY <1>4, <1>5 DEF UnbondingKnown, EndsKnown, IsUnstaking, Loaded, tables
<1>7. BehindInv'
  <2>1. PICK s \in Stores : Path(s, data, onChain) /\ Mirrors(s)
    BY DEF IInv, BehindInv
  <2>2. Path(s, new, t)
    BY <1>1, <1>2, <2>1, PathAppend
  <2>3. Mirrors(s)'
    BY <1>4, <2>1, SameMirror
  <2> QED
    BY <1>4, <2>2, <2>3 DEF BehindInv
<1>8. TypesInv'
  <2>1. Len(new) = Len(data) + 1 /\ Len(data) \in Nat
    BY <1>1, <1>2, AppendProperties, LenProperties
  <2>2. ops' \in 0..MaxOps /\ Len(data') <= MaxData + 1
    BY <1>4, <2>1, ApplicationsAssumption DEF Emit, IInv, TypesInv
  <2> QED
    BY <1>3, <1>4, <2>2 DEF IInv, TypesInv, tables
<1>9. ListedMatchChain' /\ UnbondedAreClosed'
  BY <1>3, <1>4 DEF ListedMatchChain, UnbondedAreClosed, Indexed
<1> QED
  BY <1>6, <1>7, <1>8, <1>9 DEF IInv

LEMMA TwoInOrder ==
    ASSUME NEW S, NEW d \in S, NEW e \in S
    PROVE  <<d>> \in Seq(S) /\ <<e>> \in Seq(S) /\ <<d>> \o <<e>> = <<d, e>>
<1>1. <<d>> \in Seq(S) /\ <<e>> \in Seq(S) /\ <<d, e>> \in Seq(S)
  OBVIOUS
<1>2. Append(<<d>>, e) = <<d>> \o <<e>>
  BY <1>1, AppendIsConcat
<1>3. PICK x \in Seq(S) : x = Append(<<d>>, e)
  BY <1>1, AppendProperties
<1>4. Len(x) = 2 /\ x[1] = d /\ x[2] = e
  BY <1>1, <1>3, AppendProperties
<1>5. Len(<<d, e>>) = 2 /\ <<d, e>>[1] = d /\ <<d, e>>[2] = e
  OBVIOUS
<1>6. \A i \in 1..Len(x) : x[i] = <<d, e>>[i]
  BY <1>4, <1>5
<1>7. x = <<d, e>>
  BY <1>1, <1>4, <1>5, <1>6, SeqEqual
<1> QED
  BY <1>1, <1>2, <1>3, <1>7

LEMMA TwoData ==
    ASSUME IInv, pc = "chain", NEW d \in Datum, NEW e \in Datum, NEW m \in Stores, NEW t \in Stores,
           Emit(t, <<d, e>>), Leads(d, onChain, m), Leads(e, m, t),
           d.kind # "unbondingEnd", e.kind # "unbondingEnd"
    PROVE  IInv'
<1>1. data \in Seq(Datum) /\ onChain \in Stores
  BY DEF IInv, TypesInv
<1>2. PICK mid : mid = Append(data, d)
  OBVIOUS
<1>3. PICK new : new = Append(mid, e)
  OBVIOUS
<1>4. mid \in Seq(Datum) /\ new \in Seq(Datum) /\ new # <<>>
  BY <1>1, <1>2, <1>3, AppendProperties
<1>5. new = data \o <<d, e>>
  <2>1. mid = data \o <<d>> /\ new = mid \o <<e>>
    BY <1>1, <1>2, <1>3, <1>4, AppendIsConcat
  <2>2. <<d>> \in Seq(Datum) /\ <<e>> \in Seq(Datum) /\ <<d>> \o <<e>> = <<d, e>>
    BY TwoInOrder
  <2> QED
    BY <1>1, <2>1, <2>2, ConcatAssociative
<1>6. data' = new /\ onChain' = t /\ pc' = pc /\ UNCHANGED tables
  BY <1>5 DEF Emit
<1>7. UnbondingKnown(mid, m) /\ EndsKnown(mid)
  BY <1>1, <1>2, OneMore DEF IInv
<1>8. UnbondingKnown(new, t) /\ EndsKnown(new)
  BY <1>3, <1>4, <1>7, OneMore
<1>9. UnbondingKnown(data, onChain)' /\ EndsKnown(data)'
  BY <1>6, <1>8 DEF UnbondingKnown, EndsKnown, IsUnstaking, Loaded, tables
<1>10. BehindInv'
  <2>1. PICK s \in Stores : Path(s, data, onChain) /\ Mirrors(s)
    BY DEF IInv, BehindInv
  <2>2. Path(s, mid, m)
    BY <1>1, <1>2, <2>1, PathAppend
  <2>3. Path(s, new, t)
    BY <1>3, <1>4, <2>2, PathAppend
  <2>4. Mirrors(s)'
    BY <1>6, <2>1, SameMirror
  <2> QED
    BY <1>6, <2>3, <2>4 DEF BehindInv
<1>11. TypesInv'
  <2>1. Len(new) = Len(data) + 2 /\ Len(data) \in Nat
    <3>1. Len(mid) = Len(data) + 1 /\ Len(new) = Len(mid) + 1 /\ Len(data) \in Nat
      BY <1>1, <1>2, <1>3, <1>4, AppendProperties, LenProperties
    <3> QED
      BY <3>1
  <2>2. ops' \in 0..MaxOps /\ Len(data') <= MaxData + 1
    BY <1>6, <2>1, ApplicationsAssumption DEF Emit, IInv, TypesInv
  <2> QED
    BY <1>4, <1>6, <2>2 DEF IInv, TypesInv, tables
<1>12. ListedMatchChain' /\ UnbondedAreClosed'
  BY <1>4, <1>6 DEF ListedMatchChain, UnbondedAreClosed, Indexed
<1> QED
  BY <1>9, <1>10, <1>11, <1>12 DEF IInv

LEMMA ChainKeeps ==
    ASSUME IInv, Chain
    PROVE  IInv'
<1> USE DEF Leads
<1>1. onChain \in Stores /\ onChain \in [Apps -> ChainApp \cup {None}] /\ data \in Seq(Datum)
      /\ None \notin ChainApp
  BY ApplicationsAssumption DEF IInv, TypesInv, Stores
<1>2. pc = "chain"
  BY DEF Chain, ChainStake, ChainClaim, ChainUnstake, ChainSettle, ChainBelowMinimum,
     ChainUnbondingEnd, ChainDelegate, ChainUndelegate, ChainTransfer, ChainTransferEnd, Emit
<1>3. \A kind, a : InBlock(kind, a) <=> \E i \in 1..Len(data) : data[i].kind = kind /\ data[i].app = a
  BY <1>1, LenProperties DEF InBlock
<1>4. \A c \in ChainApp :
        /\ c.stake \in 1..MaxStake /\ c.services \in (SUBSET Services) \ {{}}
        /\ c.gateways \in SUBSET Gateways /\ c.transferTo \in Apps \cup {None}
        /\ \A n \in 1..MaxStake : [c EXCEPT !.stake = n] \in ChainApp
        /\ \A b \in BOOLEAN : [c EXCEPT !.unbonding = b] \in ChainApp
        /\ \A b \in Apps \cup {None} : [c EXCEPT !.transferTo = b] \in ChainApp
        /\ \A g \in SUBSET Gateways : [c EXCEPT !.gateways = g] \in ChainApp
  BY DEF ChainApp
<1> PICK a \in Apps :
        \/ \E stake \in 1..MaxStake, services \in (SUBSET Services) \ {{}} : ChainStake(a, stake, services)
        \/ \E claimed \in 1..MaxStake, service \in Services : ChainClaim(a, claimed, service)
        \/ ChainUnstake(a)
        \/ ChainSettle(a)
        \/ ChainBelowMinimum(a)
        \/ ChainUnbondingEnd(a)
        \/ \E g \in Gateways : ChainDelegate(a, g) \/ ChainUndelegate(a, g)
        \/ \E b \in Apps : ChainTransfer(a, b)
        \/ ChainTransferEnd(a)
  BY DEF Chain
<1>5. OnChain(a) => onChain[a] \in ChainApp
  BY <1>1 DEF OnChain
<1>6. ASSUME NEW stake \in 1..MaxStake, NEW services \in (SUBSET Services) \ {{}}
      PROVE  /\ Staked(a, stake, services) \in ChainApp
             /\ [onChain EXCEPT ![a] = Staked(a, stake, services)] \in Stores
  <2>1. Staked(a, stake, services) \in ChainApp
    BY <1>5, <1>4 DEF Staked, ChainApp
  <2>2. Staked(a, stake, services).unbonding = FALSE
    BY DEF Staked
  <2> QED
    BY <1>1, <2>1, <2>2 DEF Stores
<1>7. ASSUME NEW stake \in 1..MaxStake, NEW services \in (SUBSET Services) \ {{}},
             ChainStake(a, stake, services)
      PROVE  IInv'
  <2>1. PICK d : d = [kind |-> "stake", app |-> a, stake |-> stake, services |-> services]
    OBVIOUS
  <2>2. PICK t \in Stores : t = [onChain EXCEPT ![a] = Staked(a, stake, services)]
    BY <1>6
  <2>3. d \in Datum /\ d.kind # "unbondingEnd"
    BY <2>1 DEF Datum, StakeData
  <2>4. Emit(t, <<d>>)
    BY <1>7, <2>1, <2>2 DEF ChainStake
  <2>5. LeadsStake(d, onChain, t)
    BY <2>1, <2>2 DEF LeadsStake, Staked, OnChain
  <2> QED
    BY <1>2, <2>3, <2>4, <2>5, OneDatum
<1>8. ASSUME NEW claimed \in 1..MaxStake, NEW service \in Services, ChainClaim(a, claimed, service)
      PROVE  IInv'
  <2>0. PICK stake \in 1..MaxStake : stake = (IF OnChain(a) THEN onChain[a].stake ELSE 0) + claimed
    BY <1>4, <1>5, <1>8, ApplicationsAssumption DEF ChainClaim
  <2>1. PICK d : d = [kind |-> "claim", app |-> a, stake |-> claimed, services |-> {service}]
    OBVIOUS
  <2>2. PICK t \in Stores : t = [onChain EXCEPT ![a] = Staked(a, stake, {service})]
    BY <1>6
  <2>3. d \in Datum /\ d.kind # "unbondingEnd"
    BY <2>1 DEF Datum, StakeData
  <2>4. Emit(t, <<d>>)
    BY <1>8, <2>0, <2>1, <2>2 DEF ChainClaim
  <2>5. LeadsStake(d, onChain, t)
    BY <2>1, <2>2 DEF LeadsStake, Staked, OnChain
  <2> QED
    BY <1>2, <2>3, <2>4, <2>5, OneDatum
<1>9. ASSUME Free(a), NEW b \in BOOLEAN
      PROVE  /\ onChain[a] \in ChainApp /\ onChain[a] # None /\ onChain[a].transferTo = None
             /\ ~onChain[a].unbonding
             /\ [onChain EXCEPT ![a].unbonding = b] \in Stores
  <2>1. [onChain[a] EXCEPT !.unbonding = b].transferTo = None
        /\ [onChain[a] EXCEPT !.unbonding = b] \in ChainApp
    BY <1>4, <1>5, <1>9 DEF Free, ChainApp
  <2> QED
    BY <1>1, <1>5, <1>9, <2>1 DEF Free, OnChain, Stores
<1>10. ASSUME ChainUnstake(a)
       PROVE  IInv'
  <2>1. PICK d : d = [kind |-> "unstake", app |-> a]
    OBVIOUS
  <2>2. PICK e : e = [kind |-> "unbondingBegin", app |-> a, reason |-> "elective"]
    OBVIOUS
  <2>3. PICK t \in Stores : t = [onChain EXCEPT ![a].unbonding = TRUE]
    BY <1>9, <1>10 DEF ChainUnstake
  <2>4. d \in Datum /\ e \in Datum /\ d.kind # "unbondingEnd" /\ e.kind # "unbondingEnd"
    BY <2>1, <2>2 DEF Datum, PlainData, BeginData, Leaving
  <2>5. Emit(t, <<d, e>>)
    BY <1>10, <2>1, <2>2, <2>3 DEF ChainUnstake
  <2>6. LeadsNowhere(d, onChain, onChain) /\ LeadsBegin(e, onChain, t)
    BY <1>9, <1>10, <2>1, <2>2, <2>3 DEF ChainUnstake, LeadsNowhere, LeadsBegin
  <2> QED
    BY <1>1, <1>2, <2>4, <2>5, <2>6, TwoData
<1>11. ASSUME ChainSettle(a)
       PROVE  IInv'
  <2>1. PICK d : d = [kind |-> "settled", app |-> a]
    OBVIOUS
  <2>2. /\ onChain[a] # None /\ onChain[a] \in ChainApp /\ onChain[a].stake > 1
        /\ onChain[a].stake - 1 \in 1..MaxStake
    BY <1>4, <1>5, <1>11, ApplicationsAssumption DEF ChainSettle, OnChain
  <2>3. PICK c \in ChainApp : c = [onChain[a] EXCEPT !.stake = onChain[a].stake - 1]
    BY <1>4, <2>2
  <2>4. c.transferTo = onChain[a].transferTo /\ c.unbonding = onChain[a].unbonding
    BY <2>2, <2>3 DEF ChainApp
  <2>5. PICK t \in Stores : t = [onChain EXCEPT ![a] = c]
    BY <1>1, <2>2, <2>4 DEF Stores
  <2>6. t = [onChain EXCEPT ![a].stake = @ - 1]
    BY <1>1, <2>3, <2>5
  <2>7. d \in Datum /\ d.kind # "unbondingEnd" /\ Emit(t, <<d>>)
    BY <1>11, <2>1, <2>6 DEF Datum, PlainData, ChainSettle
  <2>8. LeadsSettled(d, onChain, t)
    BY <2>1, <2>2, <2>6 DEF LeadsSettled
  <2> QED
    BY <1>2, <2>7, <2>8, OneDatum
<1>12. ASSUME ChainBelowMinimum(a)
       PROVE  IInv'
  <2>1. PICK d : d = [kind |-> "unbondingBegin", app |-> a, reason |-> "below_min_stake"]
    OBVIOUS
  <2>2. PICK t \in Stores : t = [onChain EXCEPT ![a].unbonding = TRUE]
    BY <1>9, <1>12 DEF ChainBelowMinimum
  <2>3. d \in Datum /\ d.kind # "unbondingEnd"
    BY <2>1 DEF Datum, BeginData, Leaving
  <2>4. Emit(t, <<d>>)
    BY <1>12, <2>1, <2>2 DEF ChainBelowMinimum
  <2>5. LeadsBegin(d, onChain, t)
    BY <1>9, <1>12, <2>1, <2>2 DEF ChainBelowMinimum, LeadsBegin
  <2> QED
    BY <1>2, <2>3, <2>4, <2>5, OneDatum
<1>13. ASSUME ChainUnbondingEnd(a)
       PROVE  IInv'
  <2>1. PICK d : d = [kind |-> "unbondingEnd", app |-> a]
    OBVIOUS
  <2>2. PICK t \in Stores : t = [onChain EXCEPT ![a] = None]
    BY <1>1 DEF Stores
  <2>3. d \in Datum /\ Emit(t, <<d>>)
    BY <1>13, <2>1, <2>2 DEF Datum, PlainData, ChainUnbondingEnd
  <2>4. LeadsEnd(d, onChain, t)
    BY <1>13, <2>1, <2>2 DEF ChainUnbondingEnd, LeadsEnd, OnChain
  <2>5. ~Began(data, d.app)
    BY <1>3, <1>13, <2>1 DEF ChainUnbondingEnd, Began
  <2> QED
    BY <1>2, <2>3, <2>4, <2>5, OneDatum
<1>14. ASSUME NEW gateways \in SUBSET Gateways, OnChain(a)
       PROVE  [onChain EXCEPT ![a].gateways = gateways] \in Stores
  <2>1. PICK c \in ChainApp : c = [onChain[a] EXCEPT !.gateways = gateways]
    BY <1>4, <1>5, <1>14
  <2>2. c.transferTo = onChain[a].transferTo /\ c.unbonding = onChain[a].unbonding
    BY <1>5, <1>14, <2>1 DEF ChainApp
  <2>3. [onChain EXCEPT ![a] = c] \in Stores
    BY <1>1, <1>14, <2>2 DEF Stores, OnChain
  <2> QED
    BY <1>1, <2>1, <2>3
<1>15. ASSUME NEW g \in Gateways, ChainDelegate(a, g)
       PROVE  IInv'
  <2>1. PICK d : d = [kind |-> "delegate", app |-> a, gateway |-> g]
    OBVIOUS
  <2>2. OnChain(a) /\ onChain[a] \in ChainApp /\ onChain[a].gateways \cup {g} \in SUBSET Gateways
    BY <1>4, <1>5, <1>15 DEF ChainDelegate, Free
  <2>3. PICK t \in Stores : t = [onChain EXCEPT ![a].gateways = @ \cup {g}]
    BY <1>1, <1>14, <2>2
  <2>4. d \in Datum /\ d.kind # "unbondingEnd"
    BY <2>1 DEF Datum, GatewayData
  <2>5. Emit(t, <<d>>)
    BY <1>15, <2>1, <2>3 DEF ChainDelegate
  <2>6. LeadsDelegate(d, onChain, t)
    BY <2>1, <2>2, <2>3 DEF LeadsDelegate, OnChain
  <2> QED
    BY <1>2, <2>4, <2>5, <2>6, OneDatum
<1>16. ASSUME NEW g \in Gateways, ChainUndelegate(a, g)
       PROVE  IInv'
  <2>1. PICK d : d = [kind |-> "undelegate", app |-> a, gateway |-> g]
    OBVIOUS
  <2>2. OnChain(a) /\ onChain[a] \in ChainApp /\ onChain[a].gateways \ {g} \in SUBSET Gateways
    BY <1>4, <1>5, <1>16 DEF ChainUndelegate
  <2>3. PICK t \in Stores : t = [onChain EXCEPT ![a].gateways = @ \ {g}]
    BY <1>1, <1>14, <2>2
  <2>4. d \in Datum /\ d.kind # "unbondingEnd"
    BY <2>1 DEF Datum, GatewayData
  <2>5. Emit(t, <<d>>)
    BY <1>16, <2>1, <2>3 DEF ChainUndelegate
  <2>6. LeadsUndelegate(d, onChain, t)
    BY <2>1, <2>2, <2>3 DEF LeadsUndelegate, OnChain
  <2> QED
    BY <1>2, <2>4, <2>5, <2>6, OneDatum
<1>17. ASSUME NEW b \in Apps \cup {None}, OnChain(a), b = None \/ ~onChain[a].unbonding
       PROVE  [onChain EXCEPT ![a].transferTo = b] \in Stores
  <2>1. PICK c \in ChainApp : c = [onChain[a] EXCEPT !.transferTo = b]
    BY <1>4, <1>5, <1>17
  <2>2. c.transferTo = b /\ c.unbonding = onChain[a].unbonding
    BY <1>5, <1>17, <2>1 DEF ChainApp
  <2>3. [onChain EXCEPT ![a] = c] \in Stores
    BY <1>1, <1>17, <2>2 DEF Stores, OnChain
  <2> QED
    BY <1>1, <2>1, <2>3
<1>18. ASSUME NEW b \in Apps, ChainTransfer(a, b)
       PROVE  IInv'
  <2>1. PICK d : d = [kind |-> "transfer", app |-> a, to |-> b]
    OBVIOUS
  <2>2. PICK e : e = [kind |-> "transferBegin", app |-> a]
    OBVIOUS
  <2>3. onChain[a] # None /\ onChain[a] \in ChainApp /\ ~onChain[a].unbonding
    BY <1>5, <1>18 DEF ChainTransfer, Free, OnChain
  <2>4. PICK t \in Stores : t = [onChain EXCEPT ![a].transferTo = b]
    BY <1>17, <2>3 DEF OnChain
  <2>5. d \in Datum /\ e \in Datum /\ d.kind # "unbondingEnd" /\ e.kind # "unbondingEnd"
    BY <2>1, <2>2 DEF Datum, PlainData, TransferData
  <2>6. Emit(t, <<d, e>>)
    BY <1>18, <2>1, <2>2, <2>4 DEF ChainTransfer
  <2>7. t[a] # None
    <3>1. [onChain[a] EXCEPT !.transferTo = b] \in ChainApp
      BY <1>4, <2>3
    <3> QED
      BY <1>1, <2>4, <3>1
  <2>8. LeadsTransfer(d, onChain, t) /\ LeadsNowhere(e, t, t)
    BY <2>1, <2>2, <2>3, <2>4, <2>7 DEF LeadsTransfer, LeadsNowhere
  <2> QED
    BY <1>2, <2>5, <2>6, <2>8, TwoData
<1>19. ASSUME ChainTransferEnd(a)
       PROVE  IInv'
  <2>1. /\ onChain[a] # None /\ onChain[a] \in ChainApp
        /\ onChain[a].transferTo \in Apps /\ onChain[a].transferTo # None
    BY <1>4, <1>5, <1>19 DEF ChainTransferEnd, OnChain
  <2>2. PICK b \in Apps : b = onChain[a].transferTo
    BY <2>1
  <2>3. CASE OnChain(b)
    <3>1. PICK d : d = [kind |-> "transferError", app |-> a]
      OBVIOUS
    <3>2. PICK t \in Stores : t = [onChain EXCEPT ![a].transferTo = None]
      BY <1>17, <2>1 DEF OnChain
    <3>3. d \in Datum /\ d.kind # "unbondingEnd"
      BY <3>1 DEF Datum, PlainData
    <3>4. Emit(t, <<d>>)
      BY <1>19, <2>2, <2>3, <3>1, <3>2 DEF ChainTransferEnd
    <3>5. LeadsTransferError(d, onChain, t)
      BY <2>1, <3>1, <3>2 DEF LeadsTransferError
    <3> QED
      BY <1>2, <3>3, <3>4, <3>5, OneDatum
  <2>4. CASE ~OnChain(b)
    <3>1. PICK d : d = [kind |-> "transferEnd", app |-> a, to |-> b]
      OBVIOUS
    <3>2. PICK c \in ChainApp : c = [onChain[a] EXCEPT !.transferTo = None]
      BY <1>4, <2>1
    <3>3. c.transferTo = None
      BY <2>1, <3>2 DEF ChainApp
    <3>4. PICK t \in Stores : t = [onChain EXCEPT ![a] = None, ![b] = c]
      BY <1>1, <3>3 DEF Stores
    <3>5. d \in Datum /\ d.kind # "unbondingEnd"
      BY <3>1 DEF Datum, TransferData
    <3>6. Emit(t, <<d>>)
      BY <1>19, <2>2, <2>4, <3>1, <3>2, <3>4 DEF ChainTransferEnd
    <3>7. LeadsTransferEnd(d, onChain, t)
      BY <2>1, <2>2, <2>4, <3>1, <3>2, <3>4 DEF LeadsTransferEnd, OnChain
    <3> QED
      BY <1>2, <3>5, <3>6, <3>7, OneDatum
  <2> QED
    BY <2>3, <2>4
<1> QED
  BY <1>7, <1>8, <1>10, <1>11, <1>12, <1>13, <1>15, <1>16, <1>18, <1>19

-----------------------------------------------------------------------------
(* The handlers *)

\* A datum's kind says which way it leads.
LEMMA LeadsByKind ==
    ASSUME NEW d, NEW s, NEW u, Leads(d, s, u)
    PROVE  /\ d.kind \in {"stake", "claim"} => LeadsStake(d, s, u)
           /\ d.kind \in {"unstake", "transferBegin"} => LeadsNowhere(d, s, u)
           /\ d.kind = "settled" => LeadsSettled(d, s, u)
           /\ d.kind = "unbondingBegin" => LeadsBegin(d, s, u)
           /\ d.kind = "unbondingEnd" => LeadsEnd(d, s, u)
           /\ d.kind = "delegate" => LeadsDelegate(d, s, u)
           /\ d.kind = "undelegate" => LeadsUndelegate(d, s, u)
           /\ d.kind = "transfer" => LeadsTransfer(d, s, u)
           /\ d.kind = "transferEnd" => LeadsTransferEnd(d, s, u)
           /\ d.kind = "transferError" => LeadsTransferError(d, s, u)
BY DEF Leads, LeadsStake, LeadsNowhere, LeadsSettled, LeadsBegin, LeadsEnd, LeadsDelegate,
   LeadsUndelegate, LeadsTransfer, LeadsTransferEnd, LeadsTransferError

\* And which fields it has.
LEMMA DatumByKind ==
    ASSUME NEW d \in Datum
    PROVE  /\ d.app \in Apps
           /\ d.kind \in {"stake", "claim"} =>
                d.stake \in 1..MaxStake /\ d.services \in (SUBSET Services) \ {{}}
           /\ d.kind = "unbondingBegin" => d.reason \in Leaving
           /\ d.kind \in {"delegate", "undelegate"} => d.gateway \in Gateways
           /\ d.kind \in {"transfer", "transferEnd"} => d.to \in Apps
BY DEF Datum, StakeData, PlainData, BeginData, GatewayData, TransferData

\* The pairs of one application are replaced, or moved to another.
LEMMA Pairs ==
    ASSUME NEW P, NEW X, NEW S \in SUBSET X, NEW a, NEW b
    PROVE  \A w : \A x \in X : <<w, x>> \in (P \ ({a} \X X)) \cup ({b} \X S)
                                 <=> (<<w, x>> \in P /\ w # a) \/ (w = b /\ x \in S)
OBVIOUS

LEMMA RowFields ==
    ASSUME NEW r \in Row
    PROVE  /\ r # None
           /\ r.status \in {"Staked", "Unstaking", "Unstaked"} /\ r.stake \in Nat
           /\ r.transferringTo \in Apps \cup {None} /\ r.reason \in Reasons
  BY ApplicationsAssumption DEF Row, Reasons

\* What an application that a handler leaves alone keeps.
LEMMA KeptMirror ==
    ASSUME NEW s, NEW u, NEW w \in Apps, MirrorsAt(s, w), u[w] = s[w], pc = "handle", pc' = "handle",
           apps'[w] = apps[w], ServicesOf(w)' = ServicesOf(w), GatewaysOf(w) \subseteq GatewaysOf(w)'
    PROVE  MirrorsAt(u, w)'
BY DEF MirrorsAt, MirrorsListed, MirrorsAbsent, Loaded, ClosedRow

\* A handler keeps the invariant when the tables follow the store its datum leads
\* to, and it changes the status of a row only where its datum says so.
LEMMA OneHandled ==
    ASSUME IInv, NEW kind, Handle(kind),
           apps' \in [Apps -> Row \cup {None}],
           appServices' \subseteq Apps \X Services, appGateways' \subseteq Apps \X Gateways,
           \A s \in Stores, u \in Stores : Leads(Head(data), s, u) /\ Mirrors(s) => Mirrors(u)',
           \A a \in Apps : IsUnstaking(a) /\ ~Renews(Head(data), a) => IsUnstaking(a)'
    PROVE  IInv'
<1>1. /\ pc = "handle" /\ pc' = "handle" /\ data # <<>> /\ data \in Seq(Datum)
      /\ data' = Tail(data) /\ onChain' = onChain
  BY DEF Handle, chainVars, IInv, TypesInv
<1>2. PICK n \in Nat : n + 1 = Len(data)
  <2>1. Len(data) \in Nat /\ Len(data) # 0
    BY <1>1, LenProperties, EmptySeq
  <2>2. Len(data) - 1 \in Nat /\ (Len(data) - 1) + 1 = Len(data)
    BY <2>1
  <2> QED
    BY <2>2
<1>3. PICK rest \in Seq(Datum) : rest = Tail(data)
  BY <1>1, HeadTailProperties
<1>4. /\ Len(rest) = n /\ Head(data) = data[1]
      /\ \A i \in 1..n : rest[i] = data[i + 1]
  BY <1>1, <1>2, <1>3, HeadTailProperties
<1>5. TypesInv'
  <2>1. Len(data') <= MaxData + 1 /\ ops' = ops
    BY <1>1, <1>2, <1>3, <1>4, ApplicationsAssumption DEF IInv, TypesInv, Handle, chainVars
  <2> QED
    BY <1>1, <1>3, <2>1 DEF IInv, TypesInv
<1>6. BehindInv'
  <2>1. PICK s \in Stores : Path(s, data, onChain) /\ Mirrors(s)
    BY DEF IInv, BehindInv
  <2>2. PICK u \in Stores : Leads(Head(data), s, u) /\ Path(u, Tail(data), onChain)
    BY <1>1, <2>1, PathHead
  <2>3. Mirrors(u)'
    BY <2>1, <2>2
  <2> QED
    BY <1>1, <2>2, <2>3 DEF BehindInv
<1>7. EndsKnown(data)'
  <2>1. ASSUME NEW i \in 1..n, rest[i].kind = "unbondingEnd"
        PROVE  IsUnstaking(rest[i].app)' /\ \A j \in 1..(i - 1) : ~Renews(rest[j], rest[i].app)
    <3>1. /\ i + 1 \in 1..Len(data) /\ data[i + 1] = rest[i] /\ 1 \in 1..((i + 1) - 1)
          /\ \A j \in 1..(i - 1) : j + 1 \in 1..((i + 1) - 1) /\ rest[j] = data[j + 1]
      BY <1>2, <1>4
    <3>2. IsUnstaking(rest[i].app) /\ \A j \in 1..((i + 1) - 1) : ~Renews(data[j], rest[i].app)
      BY <2>1, <3>1 DEF IInv, EndsKnown
    <3>3. rest[i] \in Datum
      BY <1>3, <1>4, ElementOfSeq
    <3>4. rest[i].app \in Apps
      BY <3>3, DatumByKind
    <3> QED
      BY <1>4, <3>1, <3>2, <3>4
  <2> QED
    BY <1>1, <1>3, <1>4, <2>1 DEF EndsKnown
<1>8. ListedMatchChain' /\ UnbondedAreClosed' /\ (pc = "chain" => UnbondingKnown(data, onChain))'
  BY <1>1 DEF ListedMatchChain, UnbondedAreClosed, Indexed
<1> QED
  BY <1>5, <1>6, <1>7, <1>8 DEF IInv

LEMMA Preceding ==
    ASSUME IInv, NEW kind, Handle(kind)
    PROVE  /\ Head(data) \in Datum /\ Head(data).kind = kind /\ pc = "handle" /\ pc' = "handle"
           /\ apps \in [Apps -> Row \cup {None}]
           /\ appServices \subseteq Apps \X Services /\ appGateways \subseteq Apps \X Gateways
BY HeadTailProperties DEF IInv, TypesInv, Handle

LEMMA TablesKeep ==
    ASSUME IInv, UNCHANGED tables, NEW kind \in {"unstake", "transferBegin", "settled"}, Handle(kind)
    PROVE  IInv'
<1>1. PICK d \in Datum : d = Head(data)
  BY Preceding
<1>2. d.kind = kind /\ pc = "handle" /\ pc' = "handle" /\ d.app \in Apps
  BY <1>1, Preceding, DatumByKind
<1>3. ASSUME NEW s \in Stores, NEW u \in Stores, Leads(d, s, u), Mirrors(s)
      PROVE  Mirrors(u)'
  <2>1. \A w \in Apps : s[w] # None => s[w] \in ChainApp
    BY DEF Stores
  <2>2. \A w \in Apps :
          /\ u[w] = None <=> s[w] = None
          /\ s[w] # None => /\ u[w].transferTo = s[w].transferTo /\ u[w].services = s[w].services
                            /\ u[w].gateways = s[w].gateways
    <3>1. CASE LeadsSettled(d, s, u)
      <4>1. s[d.app] # None /\ s[d.app] \in ChainApp
        BY <1>2, <2>1, <3>1 DEF LeadsSettled
      <4>2. PICK c : c = [s[d.app] EXCEPT !.stake = s[d.app].stake - 1]
        OBVIOUS
      <4>3. u = [s EXCEPT ![d.app] = c]
        BY <3>1, <4>2 DEF LeadsSettled
      <4>4. /\ c.transferTo = s[d.app].transferTo /\ c.services = s[d.app].services
            /\ c.gateways = s[d.app].gateways
        BY <4>1, <4>2 DEF ChainApp
      <4>5. u[d.app] = c /\ \A w \in Apps \ {d.app} : u[w] = s[w]
        BY <1>2, <4>3 DEF Stores
      <4>6. c # None
        <5>1. s[d.app].stake - 1 \in 1..MaxStake
          BY <3>1, <4>1, ApplicationsAssumption DEF LeadsSettled, ChainApp
        <5>2. c \in ChainApp
          BY <4>1, <4>2, <5>1 DEF ChainApp
        <5> QED
          BY <5>2, ApplicationsAssumption
      <4> QED
        BY <1>2, <4>1, <4>4, <4>5, <4>6
    <3>2. CASE LeadsNowhere(d, s, u)
      BY <3>2 DEF LeadsNowhere
    <3> QED
      BY <1>2, <1>3, <3>1, <3>2, LeadsByKind
  <2> QED
    BY <1>2, <1>3, <2>2 DEF Mirrors, MirrorsAt, MirrorsListed, MirrorsAbsent, ServicesOf, GatewaysOf,
       Loaded, ClosedRow, tables
<1>4. \A a \in Apps : IsUnstaking(a) => IsUnstaking(a)'
  BY DEF IsUnstaking, Loaded, tables
<1> QED
  BY <1>1, <1>3, <1>4, Preceding, OneHandled DEF tables

LEMMA StakeKeeps ==
    ASSUME IInv, NEW kind \in {"stake", "claim"}, Handle(kind), NEW stake \in Nat,
           StakeApplication(Head(data).app, stake, Head(data).services)
    PROVE  IInv'
<1>1. PICK d \in Datum : d = Head(data)
  BY Preceding
<1>2. PICK a \in Apps : a = d.app
  BY DatumByKind
<1>3. PICK S \in SUBSET Services : S = d.services
  <2>1. d.services \in SUBSET Services
    BY <1>1, Preceding, DatumByKind
  <2> QED
    BY <2>1
<1>4. /\ d.kind = kind /\ pc = "handle" /\ pc' = "handle"
      /\ apps \in [Apps -> Row \cup {None}]
      /\ appServices \subseteq Apps \X Services /\ appGateways \subseteq Apps \X Gateways
  BY <1>1, Preceding
<1>5. PICK r : r = [status |-> "Staked", stake |-> stake,
                    transferringTo |-> IF Loaded(a) THEN apps[a].transferringTo ELSE None,
                    reason |-> None, destination |-> None]
  OBVIOUS
<1>6. /\ apps' = [apps EXCEPT ![a] = r]
      /\ appServices' = (appServices \ ({a} \X Services)) \cup ({a} \X S)
      /\ appGateways' = appGateways
  BY <1>1, <1>2, <1>3, <1>5 DEF StakeApplication
<1>7. r \in Row /\ r # None
  <2>1. Loaded(a) => apps[a].transferringTo \in Apps \cup {None}
    <3>1. Loaded(a) => apps[a] \in Row
      BY <1>4 DEF Loaded
    <3> QED
      BY <3>1, RowFields
  <2>2. r \in Row
    BY <1>5, <2>1 DEF Row, Reasons
  <2> QED
    BY <2>2, ApplicationsAssumption
<1>8. /\ apps'[a] = r /\ \A w \in Apps \ {a} : apps'[w] = apps[w]
      /\ apps' \in [Apps -> Row \cup {None}] /\ appServices' \subseteq Apps \X Services
  BY <1>4, <1>6, <1>7
<1>9. ServicesOf(a)' = S /\ \A w \in Apps \ {a} : ServicesOf(w)' = ServicesOf(w)
  <2>1. \A w : \A x \in Services : <<w, x>> \in appServices' <=>
                   (<<w, x>> \in appServices /\ w # a) \/ (w = a /\ x \in S)
    BY <1>6, Pairs
  <2> QED
    BY <2>1 DEF ServicesOf
<1>10. \A w \in Apps : GatewaysOf(w)' = GatewaysOf(w)
  BY <1>6 DEF GatewaysOf
<1>11. ASSUME NEW s \in Stores, NEW u \in Stores, Leads(d, s, u), Mirrors(s)
       PROVE  Mirrors(u)'
  <2>1. LeadsStake(d, s, u)
    BY <1>4, <1>11, LeadsByKind
  <2>2. PICK to : to = IF s[a] # None THEN s[a].transferTo ELSE None
    OBVIOUS
  <2>3. PICK held : held = IF s[a] # None THEN s[a].gateways ELSE {}
    OBVIOUS
  <2>4. PICK x \in 1..MaxStake :
          u = [s EXCEPT ![a] = [stake |-> x, unbonding |-> FALSE, services |-> S,
                                transferTo |-> to, gateways |-> held]]
    BY <1>2, <1>3, <2>1, <2>2, <2>3 DEF LeadsStake
  <2>5. PICK c : c = [stake |-> x, unbonding |-> FALSE, services |-> S,
                      transferTo |-> to, gateways |-> held]
    OBVIOUS
  <2>6. /\ u = [s EXCEPT ![a] = c] /\ c.services = S
        /\ c.transferTo = (IF s[a] # None THEN s[a].transferTo ELSE None)
        /\ c.gateways = (IF s[a] # None THEN s[a].gateways ELSE {})
    BY <2>2, <2>3, <2>4, <2>5
  <2>7. u[a] = c /\ \A w \in Apps \ {a} : u[w] = s[w]
    BY <2>6 DEF Stores
  <2>8. MirrorsAt(s, a)
    BY <1>11 DEF Mirrors
  <2>9. MirrorsListed(u, a)'
    <3>1. Loaded(a)' /\ apps'[a].transferringTo = IF Loaded(a) THEN apps[a].transferringTo ELSE None
      BY <1>5, <1>7, <1>8 DEF Loaded
    <3>2. CASE s[a] # None
      BY <1>9, <1>10, <2>6, <2>7, <2>8, <3>1, <3>2 DEF MirrorsAt, MirrorsListed
    <3>3. CASE s[a] = None
      BY <1>9, <1>10, <2>6, <2>7, <2>8, <3>1, <3>3 DEF MirrorsAt, MirrorsAbsent, MirrorsListed
    <3> QED
      BY <3>2, <3>3
  <2>10. u[a] # None
    <3>1. S \in (SUBSET Services) \ {{}}
      BY <1>3, <1>4, DatumByKind
    <3>2. s[a] # None => s[a].transferTo \in Apps \cup {None} /\ s[a].gateways \in SUBSET Gateways
      BY DEF Stores, ChainApp
    <3>3. to \in Apps \cup {None} /\ held \in SUBSET Gateways
      BY <2>2, <2>3, <3>2
    <3>4. u[a] \in ChainApp
      BY <2>7, <2>5, <3>1, <3>3 DEF ChainApp
    <3> QED
      BY <3>4, ApplicationsAssumption
  <2>11. MirrorsAt(u, a)'
    BY <2>9, <2>10 DEF MirrorsAt
  <2>12. ASSUME NEW w \in Apps, w # a PROVE MirrorsAt(u, w)'
    <3>1. MirrorsAt(s, w)
      BY <1>11 DEF Mirrors
    <3> QED
      BY <1>4, <1>8, <1>9, <1>10, <2>7, <2>12, <3>1, KeptMirror
  <2> QED
    BY <2>11, <2>12 DEF Mirrors
<1>12. ASSUME NEW w \in Apps, IsUnstaking(w), ~Renews(d, w) PROVE IsUnstaking(w)'
  BY <1>2, <1>4, <1>8, <1>12 DEF Renews, IsUnstaking, Loaded
<1> QED
  BY <1>1, <1>4, <1>6, <1>8, <1>11, <1>12, OneHandled

\* The handlers of delegations change appGateways alone.
LEMMA GatewaysKeep ==
    ASSUME IInv, HandleDelegateToGatewayMsg \/ HandleUndelegateFromGatewayMsg
    PROVE  IInv'
<1>1. PICK kind \in {"delegate", "undelegate"} : Handle(kind) /\ kind = Head(data).kind
  BY DEF HandleDelegateToGatewayMsg, HandleUndelegateFromGatewayMsg, Handle
<1>2. PICK d \in Datum : d = Head(data)
  BY <1>1, Preceding
<1>3. /\ d.kind = kind /\ pc = "handle" /\ pc' = "handle"
      /\ apps \in [Apps -> Row \cup {None}]
      /\ appServices \subseteq Apps \X Services /\ appGateways \subseteq Apps \X Gateways
  BY <1>1, <1>2, Preceding
<1>4. PICK a \in Apps, g \in Gateways : a = d.app /\ g = d.gateway
  BY <1>3, DatumByKind
<1>5. apps' = apps /\ appServices' = appServices
  BY DEF HandleDelegateToGatewayMsg, HandleUndelegateFromGatewayMsg
<1>6. /\ kind = "delegate" => appGateways' = appGateways \cup {<<a, g>>}
      /\ kind = "undelegate" => appGateways' = appGateways \ {<<a, g>>}
  BY <1>1, <1>2, <1>4 DEF HandleDelegateToGatewayMsg, HandleUndelegateFromGatewayMsg, Handle
<1>7. appGateways' \subseteq Apps \X Gateways
  BY <1>3, <1>4, <1>6
<1>8. \A w \in Apps : ServicesOf(w)' = ServicesOf(w) /\ (Loaded(w)' <=> Loaded(w))
  BY <1>5 DEF ServicesOf, Loaded
<1>9. /\ \A w \in Apps \ {a} : GatewaysOf(w)' = GatewaysOf(w)
      /\ kind = "delegate" => GatewaysOf(a) \cup {g} \subseteq GatewaysOf(a)'
      /\ kind = "undelegate" => GatewaysOf(a) \ {g} \subseteq GatewaysOf(a)'
  BY <1>6 DEF GatewaysOf
<1>10. ASSUME NEW s \in Stores, NEW u \in Stores, Leads(d, s, u), Mirrors(s)
       PROVE  Mirrors(u)'
  <2>1. /\ s[a] # None /\ s[a] \in ChainApp
        /\ kind = "delegate" => u = [s EXCEPT ![a].gateways = @ \cup {g}]
        /\ kind = "undelegate" => u = [s EXCEPT ![a].gateways = @ \ {g}]
    BY <1>3, <1>4, <1>10, LeadsByKind DEF LeadsDelegate, LeadsUndelegate, Stores
  <2>2. /\ u[a].transferTo = s[a].transferTo /\ u[a].services = s[a].services
        /\ \A w \in Apps \ {a} : u[w] = s[w]
        /\ kind = "delegate" => u[a].gateways = s[a].gateways \cup {g}
        /\ kind = "undelegate" => u[a].gateways = s[a].gateways \ {g}
    BY <1>3, <2>1 DEF Stores, ChainApp
  <2>3. u[a] # None
    <3>1. PICK G \in SUBSET Gateways : u[a] = [s[a] EXCEPT !.gateways = G]
      <4>1. s[a].gateways \in SUBSET Gateways
        BY <2>1 DEF ChainApp
      <4>2. u[a] = [s[a] EXCEPT !.gateways = s[a].gateways \cup {g}]
            \/ u[a] = [s[a] EXCEPT !.gateways = s[a].gateways \ {g}]
        BY <1>3, <2>1 DEF Stores
      <4>3. s[a].gateways \cup {g} \in SUBSET Gateways /\ s[a].gateways \ {g} \in SUBSET Gateways
        BY <4>1
      <4> QED
        BY <4>2, <4>3
    <3>2. u[a] \in ChainApp
      BY <2>1, <3>1 DEF ChainApp
    <3> QED
      BY <3>2, ApplicationsAssumption
  <2>4. MirrorsListed(s, a)
    BY <1>10, <2>1 DEF Mirrors, MirrorsAt
  <2>5. u[a].gateways \subseteq GatewaysOf(a)'
    BY <1>3, <1>9, <2>2, <2>4 DEF MirrorsListed
  <2>6. MirrorsAt(u, a)'
    BY <1>5, <1>8, <2>2, <2>3, <2>4, <2>5 DEF MirrorsListed, MirrorsAt
  <2>7. ASSUME NEW w \in Apps, w # a PROVE MirrorsAt(u, w)'
    <3>1. MirrorsAt(s, w)
      BY <1>10 DEF Mirrors
    <3> QED
      BY <1>3, <1>5, <1>8, <1>9, <2>2, <2>7, <3>1, KeptMirror
  <2> QED
    BY <2>6, <2>7 DEF Mirrors
<1>11. \A w \in Apps : IsUnstaking(w) => IsUnstaking(w)'
  BY <1>5 DEF IsUnstaking, Loaded
<1> QED
  BY <1>1, <1>2, <1>3, <1>5, <1>7, <1>10, <1>11, OneHandled

\* Handlers that change one field of the row of an application.
LEMMA RowKeeps ==
    ASSUME IInv,
           \/ HandleApplicationUnbondingBeginEvent
           \/ HandleTransferApplicationMsg
           \/ HandleTransferApplicationErrorEvent
    PROVE  IInv'
<1>1. PICK kind \in {"unbondingBegin", "transfer", "transferError"} :
        Handle(kind) /\ kind = Head(data).kind
  BY DEF HandleApplicationUnbondingBeginEvent, HandleTransferApplicationMsg,
     HandleTransferApplicationErrorEvent, Handle
<1>2. PICK d \in Datum : d = Head(data)
  BY <1>1, Preceding
<1>3. /\ d.kind = kind /\ pc = "handle" /\ pc' = "handle"
      /\ apps \in [Apps -> Row \cup {None}]
      /\ appServices \subseteq Apps \X Services /\ appGateways \subseteq Apps \X Gateways
  BY <1>1, <1>2, Preceding
<1>4. PICK a \in Apps : a = d.app
  BY DatumByKind
<1>5. /\ Loaded(a) /\ appServices' = appServices /\ appGateways' = appGateways
      /\ kind = "unbondingBegin" => apps' = [apps EXCEPT ![a].reason = d.reason]
      /\ kind = "transfer" => apps' = [apps EXCEPT ![a].transferringTo = d.to]
      /\ kind = "transferError" => apps' = [apps EXCEPT ![a].transferringTo = None]
  BY <1>1, <1>2, <1>4 DEF HandleApplicationUnbondingBeginEvent, HandleTransferApplicationMsg,
     HandleTransferApplicationErrorEvent, Handle
<1>6. /\ kind = "unbondingBegin" => d.reason \in Reasons
      /\ kind = "transfer" => d.to \in Apps
  BY <1>3, DatumByKind DEF Leaving, Reasons
<1>7. apps[a] \in Row /\ apps[a] # None
  BY <1>3, <1>5 DEF Loaded
<1>8. PICK r \in Row :
        /\ apps' = [apps EXCEPT ![a] = r] /\ r # None /\ r.status = apps[a].status
        /\ kind = "unbondingBegin" => r.transferringTo = apps[a].transferringTo
        /\ kind = "transfer" => r.transferringTo = d.to
        /\ kind = "transferError" => r.transferringTo = None
  <2>1. CASE kind = "unbondingBegin"
    <3>1. PICK r : r = [apps[a] EXCEPT !.reason = d.reason]
      OBVIOUS
    <3>2. r \in Row /\ r # None /\ r.status = apps[a].status
          /\ r.transferringTo = apps[a].transferringTo
      <4>1. PICK row \in Row : row = apps[a]
        BY <1>7
      <4>2. PICK x \in Reasons : x = d.reason
        BY <1>6, <2>1
      <4>3. /\ [row EXCEPT !.reason = x] \in Row
            /\ [row EXCEPT !.reason = x].transferringTo = row.transferringTo
            /\ [row EXCEPT !.reason = x].status = row.status
        BY DEF Row, Reasons
      <4>4. r = [row EXCEPT !.reason = x]
        BY <3>1, <4>1, <4>2
      <4> QED
        BY <4>1, <4>3, <4>4, ApplicationsAssumption
    <3>3. apps' = [apps EXCEPT ![a] = r]
      BY <1>3, <1>5, <2>1, <3>1
    <3> QED
      BY <2>1, <3>2, <3>3
  <2>2. CASE kind \in {"transfer", "transferError"}
    <3>1. PICK b \in Apps \cup {None} : b = IF kind = "transfer" THEN d.to ELSE None
      BY <1>6
    <3>2. PICK r : r = [apps[a] EXCEPT !.transferringTo = b]
      OBVIOUS
    <3>3. r \in Row /\ r # None /\ r.status = apps[a].status /\ r.transferringTo = b
      <4>1. PICK row \in Row : row = apps[a]
        BY <1>7
      <4>2. /\ [row EXCEPT !.transferringTo = b] \in Row
            /\ [row EXCEPT !.transferringTo = b].transferringTo = b
            /\ [row EXCEPT !.transferringTo = b].status = row.status
        BY DEF Row, Reasons
      <4>3. r = [row EXCEPT !.transferringTo = b]
        BY <3>2, <4>1
      <4> QED
        BY <4>1, <4>2, <4>3, ApplicationsAssumption
    <3>4. apps' = [apps EXCEPT ![a] = r]
      BY <1>3, <1>5, <2>2, <3>1, <3>2
    <3> QED
      BY <2>2, <3>1, <3>3, <3>4
  <2> QED
    BY <2>1, <2>2
<1>9. /\ apps'[a] = r /\ \A w \in Apps \ {a} : apps'[w] = apps[w]
      /\ apps' \in [Apps -> Row \cup {None}]
  BY <1>3, <1>8
<1>10. \A w \in Apps : ServicesOf(w)' = ServicesOf(w) /\ GatewaysOf(w)' = GatewaysOf(w)
  BY <1>5 DEF ServicesOf, GatewaysOf
<1>11. ASSUME NEW s \in Stores, NEW u \in Stores, Leads(d, s, u), Mirrors(s)
       PROVE  Mirrors(u)'
  <2>1. /\ s[a] # None /\ s[a] \in ChainApp
        /\ kind = "unbondingBegin" => u = [s EXCEPT ![a].unbonding = TRUE]
        /\ kind = "transfer" => u = [s EXCEPT ![a].transferTo = d.to]
        /\ kind = "transferError" => u = [s EXCEPT ![a].transferTo = None]
    <3>1. /\ kind = "unbondingBegin" => LeadsBegin(d, s, u)
          /\ kind = "transfer" => LeadsTransfer(d, s, u)
          /\ kind = "transferError" => LeadsTransferError(d, s, u)
      BY <1>3, <1>11, LeadsByKind
    <3>2. /\ s[a] # None
          /\ kind = "unbondingBegin" => u = [s EXCEPT ![a].unbonding = TRUE]
          /\ kind = "transfer" => u = [s EXCEPT ![a].transferTo = d.to]
          /\ kind = "transferError" => u = [s EXCEPT ![a].transferTo = None]
      BY <1>3, <1>4, <3>1 DEF LeadsBegin, LeadsTransfer, LeadsTransferError
    <3>3. s[a] \in ChainApp
      BY <1>3, <1>11, <3>2 DEF Stores
    <3> QED
      BY <3>2, <3>3
  <2>2. /\ u[a].services = s[a].services /\ u[a].gateways = s[a].gateways
        /\ \A w \in Apps \ {a} : u[w] = s[w]
        /\ kind = "unbondingBegin" => u[a].transferTo = s[a].transferTo
        /\ kind = "transfer" => u[a].transferTo = d.to
        /\ kind = "transferError" => u[a].transferTo = None
    BY <1>3, <2>1 DEF Stores, ChainApp
  <2>3. u[a] # None
    <3>1. CASE kind = "unbondingBegin"
      <4>1. u[a] = [s[a] EXCEPT !.unbonding = TRUE]
        BY <2>1, <3>1 DEF Stores
      <4>2. u[a] \in ChainApp
        BY <2>1, <4>1 DEF ChainApp
      <4> QED
        BY <4>2, ApplicationsAssumption
    <3>2. CASE kind \in {"transfer", "transferError"}
      <4>1. PICK b \in Apps \cup {None} : u[a] = [s[a] EXCEPT !.transferTo = b]
        BY <1>6, <2>1, <3>2 DEF Stores
      <4>2. u[a] \in ChainApp
        BY <2>1, <4>1 DEF ChainApp
      <4> QED
        BY <4>2, ApplicationsAssumption
    <3> QED
      BY <3>1, <3>2
  <2>4. MirrorsListed(s, a)
    BY <1>11, <2>1 DEF Mirrors, MirrorsAt
  <2>5. Loaded(a)' /\ apps'[a].transferringTo = u[a].transferTo
    BY <1>8, <1>9, <2>2, <2>4 DEF MirrorsListed, Loaded
  <2>6. MirrorsAt(u, a)'
    BY <1>10, <2>2, <2>3, <2>4, <2>5 DEF MirrorsListed, MirrorsAt
  <2>7. ASSUME NEW w \in Apps, w # a PROVE MirrorsAt(u, w)'
    <3>1. MirrorsAt(s, w)
      BY <1>11 DEF Mirrors
    <3> QED
      BY <1>3, <1>9, <1>10, <2>2, <2>7, <3>1, KeptMirror
  <2> QED
    BY <2>6, <2>7 DEF Mirrors
<1>12. ASSUME NEW w \in Apps, IsUnstaking(w) PROVE IsUnstaking(w)'
  BY <1>8, <1>9, <1>12 DEF IsUnstaking, Loaded
<1> QED
  BY <1>1, <1>2, <1>3, <1>5, <1>9, <1>11, <1>12, OneHandled

LEMMA EndKeeps ==
    ASSUME IInv, HandleApplicationUnbondingEndEvent
    PROVE  IInv'
<1>1. Handle("unbondingEnd")
  BY DEF HandleApplicationUnbondingEndEvent
<1>2. PICK d \in Datum : d = Head(data)
  BY <1>1, Preceding
<1>3. /\ d.kind = "unbondingEnd" /\ pc = "handle" /\ pc' = "handle"
      /\ apps \in [Apps -> Row \cup {None}]
      /\ appServices \subseteq Apps \X Services /\ appGateways \subseteq Apps \X Gateways
  BY <1>1, <1>2, Preceding
<1>4. PICK a \in Apps : a = d.app
  BY DatumByKind
<1>5. /\ apps' = apps /\ appGateways' = appGateways
      /\ appServices' = appServices \ ({a} \X Services)
  BY <1>2, <1>4 DEF HandleApplicationUnbondingEndEvent
<1>6. IsUnstaking(a)
  <2>1. data \in Seq(Datum) /\ data # <<>>
    BY <1>1 DEF Handle, IInv, TypesInv
  <2>2. 1 \in 1..Len(data) /\ data[1] = d
    <3>1. Len(data) \in Nat \ {0}
      BY <2>1, EmptySeq
    <3> QED
      BY <1>2, <2>1, <3>1, HeadTailProperties
  <2> QED
    BY <1>3, <1>4, <2>2 DEF IInv, EndsKnown
<1>7. ServicesOf(a)' = {} /\ \A w \in Apps \ {a} : ServicesOf(w)' = ServicesOf(w)
  BY <1>5 DEF ServicesOf
<1>8. \A w \in Apps : GatewaysOf(w)' = GatewaysOf(w)
  BY <1>5 DEF GatewaysOf
<1>9. ASSUME NEW s \in Stores, NEW u \in Stores, Leads(d, s, u), Mirrors(s)
      PROVE  Mirrors(u)'
  <2>1. s[a] # None /\ s[a].unbonding /\ u = [s EXCEPT ![a] = None]
    BY <1>3, <1>4, <1>9, LeadsByKind DEF LeadsEnd
  <2>2. u[a] = None /\ (\A w \in Apps \ {a} : u[w] = s[w]) /\ s[a].transferTo = None
    BY <2>1 DEF Stores
  <2>3. MirrorsListed(s, a)
    BY <1>9, <2>1 DEF Mirrors, MirrorsAt
  <2>4. MirrorsAt(u, a)'
    BY <1>3, <1>5, <1>6, <1>7, <2>2, <2>3 DEF MirrorsListed, MirrorsAbsent, MirrorsAt, IsUnstaking
  <2>5. ASSUME NEW w \in Apps, w # a PROVE MirrorsAt(u, w)'
    <3>1. MirrorsAt(s, w)
      BY <1>9 DEF Mirrors
    <3> QED
      BY <1>3, <1>5, <1>7, <1>8, <2>2, <2>5, <3>1, KeptMirror
  <2> QED
    BY <2>4, <2>5 DEF Mirrors
<1>10. \A w \in Apps : IsUnstaking(w) => IsUnstaking(w)'
  BY <1>5 DEF IsUnstaking, Loaded
<1>11. appServices' \subseteq Apps \X Services
  BY <1>3, <1>5
<1> QED
  BY <1>1, <1>2, <1>3, <1>5, <1>9, <1>10, <1>11, OneHandled

\* The application transferred to takes the place of the other.
LEMMA TransferEndKeeps ==
    ASSUME IInv, HandleTransferApplicationEndEvent
    PROVE  IInv'
<1>1. Handle("transferEnd")
  BY DEF HandleTransferApplicationEndEvent
<1>2. PICK d \in Datum : d = Head(data)
  BY <1>1, Preceding
<1>3. /\ d.kind = "transferEnd" /\ pc = "handle" /\ pc' = "handle"
      /\ apps \in [Apps -> Row \cup {None}]
      /\ appServices \subseteq Apps \X Services /\ appGateways \subseteq Apps \X Gateways
  BY <1>1, <1>2, Preceding
<1>4. PICK a \in Apps, b \in Apps : a = d.app /\ b = d.to
  BY <1>3, DatumByKind
<1>5. apps[a] \in Row /\ apps[a] # None /\ (Loaded(b) => apps[b] \in Row)
  BY <1>2, <1>3, <1>4 DEF HandleTransferApplicationEndEvent, Loaded
<1>6. PICK row \in Row : row = apps[a]
  BY <1>5
<1>7. PICK source : source = [row EXCEPT !.transferringTo = None, !.reason = "transfer",
                                         !.destination = b]
  OBVIOUS
<1>8. PICK fresh : fresh = [status |-> "Staked", stake |-> row.stake, transferringTo |-> None,
                            reason |-> None, destination |-> None]
  OBVIOUS
<1>9. PICK destination : destination = IF Loaded(b) THEN apps[b] ELSE fresh
  OBVIOUS
<1>10. /\ source \in Row /\ source.transferringTo = None /\ source.reason = "transfer"
       /\ source.status = row.status
  BY <1>6, <1>7 DEF Row, Reasons
<1>11. fresh \in Row /\ fresh.transferringTo = None /\ fresh.reason = None
  BY <1>6, <1>8 DEF Row, Reasons
<1>12. destination \in Row
  BY <1>5, <1>9, <1>11
<1>13. source # None /\ destination # None
  BY <1>10, <1>12, ApplicationsAssumption
<1>14. apps' = [apps EXCEPT ![a] = source, ![b] = destination]
  BY <1>2, <1>3, <1>4, <1>6, <1>7, <1>8, <1>9 DEF HandleTransferApplicationEndEvent
<1>15. /\ appServices' = (appServices \ ({a} \X Services)) \cup ({b} \X ServicesOf(a))
       /\ appGateways' = (appGateways \ ({a} \X Gateways)) \cup ({b} \X GatewaysOf(a))
  BY <1>2, <1>4 DEF HandleTransferApplicationEndEvent
<1>16. /\ apps' \in [Apps -> Row \cup {None}]
       /\ apps'[b] = destination /\ (a # b => apps'[a] = source)
       /\ \A w \in Apps \ {a, b} : apps'[w] = apps[w]
  BY <1>3, <1>10, <1>12, <1>14
<1>17. PICK S \in SUBSET Services, G \in SUBSET Gateways : S = ServicesOf(a) /\ G = GatewaysOf(a)
  BY DEF ServicesOf, GatewaysOf
<1>18. \A w : \A x \in Services : <<w, x>> \in appServices' <=>
                  (<<w, x>> \in appServices /\ w # a) \/ (w = b /\ x \in S)
  BY <1>15, <1>17, Pairs
<1>19. \A w : \A x \in Gateways : <<w, x>> \in appGateways' <=>
                  (<<w, x>> \in appGateways /\ w # a) \/ (w = b /\ x \in G)
  BY <1>15, <1>17, Pairs
<1>20. appServices' \subseteq Apps \X Services /\ appGateways' \subseteq Apps \X Gateways
  BY <1>3, <1>15, <1>17
<1>21. /\ a # b => ServicesOf(a)' = {} /\ ServicesOf(b)' = ServicesOf(b) \cup ServicesOf(a)
                   /\ GatewaysOf(a) \subseteq GatewaysOf(b)'
       /\ \A w \in Apps \ {a, b} : ServicesOf(w)' = ServicesOf(w) /\ GatewaysOf(w)' = GatewaysOf(w)
  <2>1. ASSUME a # b
        PROVE  /\ ServicesOf(a)' = {} /\ ServicesOf(b)' = ServicesOf(b) \cup ServicesOf(a)
               /\ GatewaysOf(a) \subseteq GatewaysOf(b)'
    <3>1. \A x \in Services : /\ ~(<<a, x>> \in appServices')
                              /\ <<b, x>> \in appServices' <=> <<b, x>> \in appServices \/ x \in S
      BY <1>18, <2>1
    <3>2. \A x \in Gateways : x \in G => <<b, x>> \in appGateways'
      BY <1>19
    <3>3. ServicesOf(a)' = {}
      BY <3>1 DEF ServicesOf
    <3>4. ServicesOf(b)' = ServicesOf(b) \cup S
      BY <3>1 DEF ServicesOf
    <3>5. G \subseteq GatewaysOf(b)'
      BY <3>2 DEF GatewaysOf
    <3> QED
      BY <1>17, <3>3, <3>4, <3>5
  <2>2. ASSUME NEW w \in Apps \ {a, b}
        PROVE  ServicesOf(w)' = ServicesOf(w) /\ GatewaysOf(w)' = GatewaysOf(w)
    BY <1>18, <1>19, <2>2 DEF ServicesOf, GatewaysOf
  <2> QED
    BY <2>1, <2>2
<1>22. ASSUME NEW s \in Stores, NEW u \in Stores, Leads(d, s, u), Mirrors(s)
       PROVE  Mirrors(u)'
  <2>1. LeadsTransferEnd(d, s, u)
    BY <1>3, <1>22, LeadsByKind
  <2>2. /\ s[a] # None /\ s[a] \in ChainApp /\ s[b] = None /\ a # b
        /\ u = [s EXCEPT ![a] = None, ![b] = [s[a] EXCEPT !.transferTo = None]]
    BY <1>4, <2>1 DEF LeadsTransferEnd, Stores
  <2>3. PICK c : c = [s[a] EXCEPT !.transferTo = None]
    OBVIOUS
  <2>4. /\ c \in ChainApp /\ c.transferTo = None /\ c.services = s[a].services
        /\ c.gateways = s[a].gateways
    BY <2>2, <2>3 DEF ChainApp
  <2>5. u[a] = None /\ u[b] = c /\ \A w \in Apps \ {a, b} : u[w] = s[w]
    BY <2>2, <2>3 DEF Stores
  <2>6. MirrorsListed(s, a) /\ MirrorsAbsent(b)
    BY <1>22, <2>2 DEF Mirrors, MirrorsAt
  <2>7. MirrorsAt(u, a)'
    <3>1. "transfer" \notin Leaving
      BY DEF Leaving
    <3> QED
      BY <1>10, <1>16, <1>21, <2>2, <2>5, <3>1 DEF MirrorsAt, MirrorsAbsent
  <2>8. Loaded(b)' /\ apps'[b].transferringTo = None
    BY <1>9, <1>11, <1>13, <1>16, <2>6 DEF MirrorsAbsent, Loaded
  <2>9. ServicesOf(b)' = c.services /\ c.gateways \subseteq GatewaysOf(b)'
    BY <1>21, <2>2, <2>4, <2>6 DEF MirrorsListed, MirrorsAbsent
  <2>10. MirrorsAt(u, b)'
    BY <2>4, <2>5, <2>8, <2>9, ApplicationsAssumption DEF MirrorsListed, MirrorsAt
  <2>11. ASSUME NEW w \in Apps, w \notin {a, b} PROVE MirrorsAt(u, w)'
    <3>1. MirrorsAt(s, w)
      BY <1>22 DEF Mirrors
    <3> QED
      BY <1>3, <1>16, <1>21, <2>5, <2>11, <3>1, KeptMirror
  <2> QED
    BY <2>7, <2>10, <2>11 DEF Mirrors
<1>23. ASSUME NEW w \in Apps, IsUnstaking(w), ~Renews(d, w) PROVE IsUnstaking(w)'
  <2>1. w # b
    BY <1>3, <1>4, <1>23 DEF Renews
  <2>2. CASE w = a
    BY <1>6, <1>10, <1>13, <1>16, <1>23, <2>1, <2>2 DEF IsUnstaking, Loaded
  <2>3. CASE w # a
    BY <1>16, <1>23, <2>1, <2>3 DEF IsUnstaking, Loaded
  <2> QED
    BY <2>2, <2>3
<1> QED
  BY <1>1, <1>2, <1>16, <1>20, <1>22, <1>23, OneHandled

-----------------------------------------------------------------------------
(* Around the handlers *)

LEMMA BeginKeeps ==
    ASSUME IInv, BeginBlock
    PROVE  IInv'
<1>1. TypesInv' /\ EndsKnown(data)'
  BY DEF BeginBlock, chainVars, tables, IInv, TypesInv, EndsKnown, IsUnstaking, Loaded
<1>2. BehindInv'
  <2>1. PICK s \in Stores : Path(s, data, onChain) /\ Mirrors(s)
    BY DEF IInv, BehindInv
  <2>2. Mirrors(s)'
    BY <2>1 DEF BeginBlock, tables, Mirrors, MirrorsAt, MirrorsListed, MirrorsAbsent, ServicesOf,
       GatewaysOf, Loaded, ClosedRow
  <2>3. Path(s, data', onChain')
    BY <2>1 DEF BeginBlock, chainVars
  <2> QED
    BY <2>2, <2>3 DEF BehindInv
<1>3. ListedMatchChain' /\ UnbondedAreClosed' /\ (pc = "chain" => UnbondingKnown(data, onChain))'
  BY DEF BeginBlock, ListedMatchChain, UnbondedAreClosed, Indexed
<1> QED
  BY <1>1, <1>2, <1>3 DEF IInv

LEMMA AllHandledKeeps ==
    ASSUME IInv, AllHandled
    PROVE  IInv'
<1>1. TypesInv' /\ EndsKnown(data)'
  BY DEF AllHandled, chainVars, tables, IInv, TypesInv, EndsKnown, IsUnstaking, Loaded
<1>2. BehindInv'
  <2>1. PICK s \in Stores : Path(s, data, onChain) /\ Mirrors(s)
    BY DEF IInv, BehindInv
  <2>2. Mirrors(s)'
    BY <2>1 DEF AllHandled, tables, Mirrors, MirrorsAt, MirrorsListed, MirrorsAbsent, ServicesOf,
       GatewaysOf, Loaded, ClosedRow
  <2>3. Path(s, data', onChain')
    BY <2>1 DEF AllHandled, chainVars
  <2> QED
    BY <2>2, <2>3 DEF BehindInv
<1>3. ListedMatchChain' /\ UnbondedAreClosed' /\ (pc = "chain" => UnbondingKnown(data, onChain))'
  BY DEF AllHandled, ListedMatchChain, UnbondedAreClosed, Indexed
<1> QED
  BY <1>1, <1>2, <1>3 DEF IInv

\* What the reconcile makes of a row.
LEMMA ReconciledRow ==
    ASSUME IInv, NEW a \in Apps
    PROVE  /\ Reconciled(a) \in Row \cup {None}
           /\ Reconciled(a) = None <=> apps[a] = None
           /\ apps[a] # None =>
                /\ Reconciled(a).transferringTo = apps[a].transferringTo
                /\ Reconciled(a).reason = apps[a].reason
           /\ apps[a] # None /\ onChain[a] # None =>
                /\ Reconciled(a).stake = onChain[a].stake
                /\ Reconciled(a).status = IF onChain[a].unbonding THEN "Unstaking" ELSE "Staked"
           /\ apps[a] # None /\ onChain[a] = None /\ apps[a].status = "Unstaking" =>
                Reconciled(a).stake = 0 /\ Reconciled(a).status = "Unstaked"
           /\ apps[a] # None /\ onChain[a] = None /\ apps[a].status # "Unstaking" =>
                Reconciled(a) = apps[a]
<1>1. apps[a] \in Row \cup {None} /\ onChain[a] \in ChainApp \cup {None}
  BY DEF IInv, TypesInv, Stores
<1>2. CASE apps[a] = None
  BY <1>2 DEF Reconciled, Loaded
<1>3. CASE apps[a] # None
  <2>1. PICK row \in Row : row = apps[a]
    BY <1>1, <1>3
  <2>2. PICK res : res = Reconciled(a)
    OBVIOUS
  <2>3. CASE onChain[a] # None
    <3>1. PICK n \in Nat, x \in {"Staked", "Unstaking", "Unstaked"} :
            n = onChain[a].stake /\ x = IF onChain[a].unbonding THEN "Unstaking" ELSE "Staked"
      <4>1. onChain[a].stake \in Nat
        BY <1>1, <2>3, ApplicationsAssumption DEF ChainApp
      <4> QED
        BY <4>1
    <3>2. res = [row EXCEPT !.stake = n, !.status = x]
      BY <1>3, <2>1, <2>2, <2>3, <3>1 DEF Reconciled, Loaded, OnChain
    <3>3. /\ [row EXCEPT !.stake = n, !.status = x] \in Row
          /\ [row EXCEPT !.stake = n, !.status = x].stake = n
          /\ [row EXCEPT !.stake = n, !.status = x].status = x
          /\ [row EXCEPT !.stake = n, !.status = x].transferringTo = row.transferringTo
          /\ [row EXCEPT !.stake = n, !.status = x].reason = row.reason
      BY DEF Row, Reasons
    <3> QED
      BY <1>3, <2>1, <2>2, <2>3, <3>1, <3>2, <3>3, ApplicationsAssumption
  <2>4. CASE onChain[a] = None /\ apps[a].status = "Unstaking"
    <3>1. res = [row EXCEPT !.stake = 0, !.status = "Unstaked"]
      BY <1>3, <2>1, <2>2, <2>4 DEF Reconciled, Loaded, OnChain
    <3>2. /\ [row EXCEPT !.stake = 0, !.status = "Unstaked"] \in Row
          /\ [row EXCEPT !.stake = 0, !.status = "Unstaked"].stake = 0
          /\ [row EXCEPT !.stake = 0, !.status = "Unstaked"].status = "Unstaked"
          /\ [row EXCEPT !.stake = 0, !.status = "Unstaked"].transferringTo = row.transferringTo
          /\ [row EXCEPT !.stake = 0, !.status = "Unstaked"].reason = row.reason
      BY DEF Row, Reasons
    <3> QED
      BY <1>3, <2>1, <2>2, <2>4, <3>1, <3>2, ApplicationsAssumption
  <2>5. CASE onChain[a] = None /\ apps[a].status # "Unstaking"
    BY <1>1, <1>3, <2>5 DEF Reconciled, Loaded, OnChain
  <2> QED
    BY <2>3, <2>4, <2>5
<1> QED
  BY <1>2, <1>3

LEMMA ReconcileKeeps ==
    ASSUME IInv, ReconcileApplications
    PROVE  IInv'
<1>1. /\ data = <<>> /\ data' = <<>> /\ onChain' = onChain /\ pc' = "chain"
      /\ appServices' = appServices /\ appGateways' = appGateways
  BY DEF ReconcileApplications, chainVars, IInv, TypesInv
<1>2. onChain \in Stores /\ Path(onChain, <<>>, onChain) /\ Mirrors(onChain)
  <2>1. PICK s \in Stores : Path(s, data, onChain) /\ Mirrors(s)
    BY DEF IInv, BehindInv
  <2>2. s = onChain
    BY <1>1, <2>1, PathEmpty
  <2> QED
    BY <1>1, <2>1, <2>2
<1>3. /\ apps' \in [Apps -> Row \cup {None}]
      /\ \A a \in Apps : apps'[a] = Reconciled(a)
  BY ReconciledRow DEF ReconcileApplications
<1>4. ASSUME NEW a \in Apps
      PROVE  /\ ServicesOf(a)' = ServicesOf(a) /\ GatewaysOf(a)' = GatewaysOf(a)
             /\ Loaded(a)' <=> Loaded(a)
             /\ OnChain(a)' <=> onChain[a] # None
  BY <1>1, <1>3, ReconciledRow DEF ServicesOf, GatewaysOf, Loaded, OnChain
<1>5. ASSUME NEW a \in Apps, onChain[a] # None
      PROVE  /\ MirrorsListed(onChain, a)
             /\ Loaded(a)'
             /\ apps'[a].transferringTo = onChain[a].transferTo
             /\ apps'[a].stake = onChain[a].stake
             /\ apps'[a].status = IF onChain[a].unbonding THEN "Unstaking" ELSE "Staked"
  <2>1. MirrorsListed(onChain, a)
    BY <1>2, <1>5 DEF Mirrors, MirrorsAt
  <2>2. apps[a] # None /\ apps[a].transferringTo = onChain[a].transferTo
    BY <2>1 DEF MirrorsListed, Loaded
  <2> QED
    BY <1>3, <1>4, <1>5, <2>1, <2>2, ReconciledRow DEF Loaded
<1>6. ASSUME NEW a \in Apps, onChain[a] = None
      PROVE  /\ ServicesOf(a) = {}
             /\ Loaded(a)' => /\ apps'[a].transferringTo = None
                              /\ apps'[a].reason \in Leaving => ClosedRow(a)'
  <2>1. MirrorsAbsent(a)
    BY <1>2, <1>6 DEF Mirrors, MirrorsAt
  <2>2. ASSUME Loaded(a)
        PROVE  /\ apps'[a].transferringTo = None
               /\ apps'[a].reason \in Leaving => ClosedRow(a)'
    <3>1. /\ apps[a] # None /\ apps[a].transferringTo = None
          /\ apps[a].reason \in Leaving => ClosedRow(a) \/ apps[a].status = "Unstaking"
      BY <2>1, <2>2 DEF MirrorsAbsent, Loaded
    <3>2. apps'[a] = Reconciled(a) /\ apps'[a].transferringTo = None
          /\ apps'[a].reason = apps[a].reason
      BY <1>3, <3>1, ReconciledRow
    <3>3. CASE apps[a].status = "Unstaking"
      BY <1>6, <3>1, <3>2, <3>3, ReconciledRow DEF ClosedRow
    <3>4. CASE apps[a].status # "Unstaking"
      <4>1. apps'[a] = apps[a]
        BY <1>6, <3>1, <3>2, <3>4, ReconciledRow
      <4> QED
        BY <3>1, <3>2, <3>4, <4>1 DEF ClosedRow
    <3> QED
      BY <3>3, <3>4
  <2> QED
    BY <1>4, <2>1, <2>2 DEF MirrorsAbsent
<1>7. Mirrors(onChain)'
  <2> SUFFICES ASSUME NEW a \in Apps PROVE MirrorsAt(onChain, a)'
    BY DEF Mirrors
  <2>1. CASE onChain[a] # None
    BY <1>1, <1>4, <1>5, <2>1 DEF MirrorsAt, MirrorsListed
  <2>2. CASE onChain[a] = None
    BY <1>1, <1>4, <1>6, <2>2 DEF MirrorsAt, MirrorsAbsent
  <2> QED
    BY <2>1, <2>2
<1>8. TypesInv'
  BY <1>1, <1>3 DEF IInv, TypesInv, ReconcileApplications, chainVars
<1>9. BehindInv'
  BY <1>1, <1>2, <1>7 DEF BehindInv
<1>10. UnbondingKnown(data, onChain)' /\ EndsKnown(data)'
  BY <1>1, <1>4, <1>5 DEF UnbondingKnown, EndsKnown, IsUnstaking
<1>11. ListedMatchChain'
  BY <1>1, <1>4, <1>5 DEF ListedMatchChain, MirrorsListed
<1>12. UnbondedAreClosed'
  BY <1>1, <1>4, <1>6 DEF UnbondedAreClosed, Leaving, ClosedRow
<1> QED
  BY <1>8, <1>9, <1>10, <1>11, <1>12 DEF IInv

LEMMA StutterKeeps ==
    ASSUME IInv, UNCHANGED vars
    PROVE  IInv'
<1>1. PICK s \in Stores : Path(s, data, onChain) /\ Mirrors(s)
  BY DEF IInv, BehindInv
<1>2. Mirrors(s)'
  BY <1>1, SameMirror DEF vars, tables
<1>3. BehindInv'
  BY <1>1, <1>2 DEF BehindInv, vars, chainVars
<1>4. TypesInv' /\ EndsKnown(data)' /\ (pc = "chain" => UnbondingKnown(data, onChain))'
  BY DEF IInv, TypesInv, EndsKnown, UnbondingKnown, IsUnstaking, Loaded, vars, chainVars, tables
<1>5. ListedMatchChain' /\ UnbondedAreClosed'
  BY DEF IInv, ListedMatchChain, UnbondedAreClosed, Indexed, OnChain, Loaded, ServicesOf, GatewaysOf,
     vars, chainVars, tables
<1> QED
  BY <1>3, <1>4, <1>5 DEF IInv

LEMMA NextKeeps ==
    ASSUME IInv, Next
    PROVE  IInv'
<1>1. CASE Chain
  BY <1>1, ChainKeeps
<1>2. CASE BeginBlock
  BY <1>2, BeginKeeps
<1>3. CASE HandleAppMsgStake
  <2>1. Handle("stake")
    BY <1>3 DEF HandleAppMsgStake
  <2>2. Head(data).stake \in Nat
    BY <2>1, Preceding, DatumByKind
  <2> QED
    BY <1>3, <2>1, <2>2, StakeKeeps DEF HandleAppMsgStake
<1>4. CASE HandleMsgClaimMorseApplication
  <2>1. Handle("claim")
    BY <1>4 DEF HandleMsgClaimMorseApplication
  <2>2. PICK d \in Datum : d = Head(data)
    BY <2>1, Preceding
  <2>3. d.app \in Apps /\ d.stake \in Nat
    BY <2>1, <2>2, Preceding, DatumByKind
  <2>4. Loaded(d.app) => apps[d.app].stake \in Nat
    <3>1. Loaded(d.app) => apps[d.app] \in Row
      BY <2>1, <2>3, Preceding DEF Loaded
    <3> QED
      BY <3>1, RowFields
  <2>5. PICK stake \in Nat : stake = ClaimedStake(Head(data).app, Head(data).stake)
    BY <2>2, <2>3, <2>4 DEF ClaimedStake
  <2>6. StakeApplication(Head(data).app, stake, Head(data).services)
    BY <1>4, <2>5 DEF HandleMsgClaimMorseApplication
  <2> QED
    BY <2>1, <2>6, StakeKeeps
<1>5. CASE HandleDelegateToGatewayMsg \/ HandleUndelegateFromGatewayMsg
  BY <1>5, GatewaysKeep
<1>6. CASE \/ HandleApplicationUnbondingBeginEvent
           \/ HandleTransferApplicationMsg
           \/ HandleTransferApplicationErrorEvent
  BY <1>6, RowKeeps
<1>7. CASE HandleApplicationUnbondingEndEvent
  BY <1>7, EndKeeps
<1>8. CASE HandleTransferApplicationEndEvent
  BY <1>8, TransferEndKeeps
<1>9. CASE HandleUnstakeApplicationMsg
  BY <1>9, TablesKeep DEF HandleUnstakeApplicationMsg
<1>10. CASE HandleTransferApplicationBeginEvent
  BY <1>10, TablesKeep DEF HandleTransferApplicationBeginEvent
<1>11. CASE PassSettlement
  BY <1>11, TablesKeep DEF PassSettlement
<1>12. CASE AllHandled
  BY <1>12, AllHandledKeeps
<1>13. CASE ReconcileApplications
  BY <1>13, ReconcileKeeps
<1> QED
  BY <1>1, <1>2, <1>3, <1>4, <1>5, <1>6, <1>7, <1>8, <1>9, <1>10, <1>11, <1>12, <1>13
     DEF Next, Indexer

THEOREM Invariance == Spec => []IInv
<1>1. Init => IInv
  BY InitCorrect
<1>2. IInv /\ [Next]_vars => IInv'
  BY NextKeeps, StutterKeeps
<1> QED
  BY <1>1, <1>2, PTL DEF Spec

\* Every variable keeps its type, the data of a block within their bound.
THEOREM TypeCorrect == Spec => []TypeOK
<1>1. IInv => TypeOK
  BY DEF IInv, TypesInv, TypeOK, Stores
<1> QED
  BY <1>1, Invariance, PTL

\* After every block the row of an application the chain lists has the chain's
\* stake, status, services and transfer, and no delegation of it is missing: the
\* handlers and reconcileApplications together, for any sequence of data.
THEOREM ListedCorrect == Spec => []ListedMatchChain
BY Invariance, PTL DEF IInv

\* An application that unbonded is left Unstaked, with no stake and no service:
\* the reconcile finds it Unstaking, whatever else its last blocks held.
THEOREM UnbondedCorrect == Spec => []UnbondedAreClosed
BY Invariance, PTL DEF IInv

-----------------------------------------------------------------------------
(* The order in which the data reach the handlers *)

\* Whatever is before a datum in its group was done when its handler started.
OrderInv ==
    \A i \in DOMAIN block : status[i] # "waiting" =>
        /\ i \in Handled
        /\ \A j \in Handled : SameGroup(i, j) /\ Before(j, i) => status[j] = "done"

ScheduleInv == ScheduleTypeOK /\ ChainOrdered /\ OrderInv

\* One or two entities, in order.
LEMMA IdsTyped ==
    ASSUME NEW ids, ids \in OneId \cup TwoIds
    PROVE  LET S == {ids[n] : n \in DOMAIN ids} IN ids[1] \in S /\ S \subseteq Entities
<1>1. CASE ids \in OneId
  <2>1. PICK e \in Entities : ids = <<e>>
    BY <1>1 DEF OneId
  <2>2. DOMAIN ids = {1} /\ ids[1] = e
    BY <2>1
  <2> QED
    BY <2>2
<1>2. CASE ids \in TwoIds
  <2>1. PICK d \in Entities, e \in Entities : ids = <<d, e>>
    BY <1>2 DEF TwoIds
  <2>2. DOMAIN ids = {1, 2} /\ ids[1] = d /\ ids[2] = e
    BY <2>1
  <2> QED
    BY <2>2
<1> QED
  BY <1>1, <1>2

LEMMA DatumTyped ==
    ASSUME ScheduleTypeOK, NEW i \in DOMAIN block
    PROVE  /\ i \in Nat /\ EntityId(i) \in IdsOf(i) /\ IdsOf(i) \subseteq Entities
           /\ block[i].kind \in {"msg", "event", "finalized"}
           /\ block[i].tx \in Nat
<1>1. block[i] \in BlockData /\ i \in Nat
  BY DEF ScheduleTypeOK
<1>2. /\ block[i].ids \in OneId \cup TwoIds
      /\ block[i].kind \in {"msg", "event", "finalized"}
      /\ block[i].tx \in Nat
  <2>1. CASE block[i] \in TxData
    BY <2>1, StakeEntityAssumption DEF TxData
  <2>2. CASE block[i] \in FinalizedData
    <3>1. block[i].ids \in OneId \cup TwoIds /\ block[i].kind \in {"finalized"} /\ block[i].tx \in {0}
      BY <2>2 DEF FinalizedData
    <3> QED
      BY <3>1
  <2> QED
    BY <1>1, <2>1, <2>2 DEF BlockData
<1> QED
  BY <1>1, <1>2, IdsTyped DEF EntityId, IdsOf

\* Two data about a common entity are in one group, whichever of the entities
\* they are about they were grouped by.
LEMMA SharersAreGrouped ==
    ASSUME ScheduleTypeOK, NEW i \in Handled, NEW j \in Handled, Share(i, j)
    PROVE  SameGroup(i, j)
<1>1. PICK e : e \in IdsOf(i) /\ e \in IdsOf(j)
  BY DEF Share
<1>2. /\ i \in DOMAIN block /\ Success(i) /\ EntityId(i) \in IdsOf(i)
      /\ j \in DOMAIN block /\ Success(j) /\ EntityId(j) \in IdsOf(j)
  BY DatumTyped DEF Handled
<1> SUFFICES ASSUME NEW S \in SUBSET Entities,
                    \A k \in DOMAIN block : Success(k) => IdsOf(k) \subseteq S \/ IdsOf(k) \cap S = {}
             PROVE  EntityId(i) \in S <=> EntityId(j) \in S
  BY DEF SameGroup, Together
<1>3. EntityId(i) \in S <=> e \in S
  BY <1>1, <1>2
<1>4. EntityId(j) \in S <=> e \in S
  BY <1>1, <1>2
<1> QED
  BY <1>3, <1>4

\* Within a group, the order of the code decides between any two data.
LEMMA BeforeIsTotal ==
    ASSUME ScheduleTypeOK, NEW i \in DOMAIN block, NEW j \in DOMAIN block, i # j
    PROVE  Before(i, j) \/ Before(j, i)
<1>1. /\ i \in Nat /\ j \in Nat /\ block[i].tx \in Nat /\ block[j].tx \in Nat
      /\ block[i].kind \in {"msg", "event", "finalized"}
      /\ block[j].kind \in {"msg", "event", "finalized"}
  BY DatumTyped
<1> QED
  BY <1>1 DEF Before, Finalized

\* It is the order of the chain but for the events a message overtakes.
LEMMA BeforeIsChainOrder ==
    ASSUME ScheduleTypeOK, ChainOrdered, NEW i \in DOMAIN block, NEW j \in DOMAIN block,
           i < j, ~Overtaken(i, j)
    PROVE  Before(i, j)
<1>1. /\ i \in Nat /\ j \in Nat /\ block[i].tx \in Nat /\ block[j].tx \in Nat
      /\ block[i].kind \in {"msg", "event", "finalized"}
      /\ block[j].kind \in {"msg", "event", "finalized"}
  BY DatumTyped
<1>2. /\ Finalized(i) => Finalized(j)
      /\ ~Finalized(j) => block[i].tx <= block[j].tx
  BY DEF ChainOrdered
<1> QED
  BY <1>1, <1>2 DEF Before, Finalized, Overtaken

LEMMA ScheduleInitial == ScheduleInit => ScheduleInv
<1> SUFFICES ASSUME ScheduleInit PROVE ScheduleInv
  OBVIOUS
<1>1. PICK n \in Nat : block \in [1..n -> BlockData]
  BY StakeEntityAssumption DEF ScheduleInit
<1>2. block \in Seq(BlockData)
  BY <1>1
<1> QED
  BY <1>2 DEF ScheduleInit, ScheduleInv, ScheduleTypeOK, OrderInv

LEMMA ScheduleKept == ScheduleInv /\ [ScheduleNext]_scheduleVars => ScheduleInv'
<1> SUFFICES ASSUME ScheduleInv, [ScheduleNext]_scheduleVars PROVE ScheduleInv'
  OBVIOUS
<1> USE DEF ScheduleInv
<1>1. /\ block' = block /\ failed' = failed
      /\ Handled' = Handled /\ ChainOrdered'
      /\ \A i, j : /\ SameGroup(i, j)' = SameGroup(i, j)
                   /\ Before(i, j)' = Before(i, j)
                   /\ Success(i)' = Success(i)
  BY DEF ScheduleNext, scheduleVars, Group, Throw, Retry, Start, Finish, Return, Handled, ChainOrdered,
         SameGroup, Together, Before, Success, EntityId, IdsOf, Finalized
<1>2. ASSUME NEW i \in DOMAIN block, Start(i)
      PROVE  ScheduleTypeOK' /\ OrderInv'
  <2>1. ScheduleTypeOK'
    BY <1>1, <1>2 DEF Start, ScheduleTypeOK, Handled
  <2>2. \A k \in DOMAIN block : k # i => status'[k] = status[k]
    BY <1>2 DEF Start, ScheduleTypeOK
  <2>3. \A k \in DOMAIN block : status[k] = "done" => status'[k] = "done"
    BY <1>2, <2>2 DEF Start
  <2>4. \A k \in Handled : k \in DOMAIN block
    BY DEF Handled
  <2>5. OrderInv'
    <3> SUFFICES ASSUME NEW k \in DOMAIN block, status'[k] # "waiting"
                 PROVE  /\ k \in Handled
                        /\ \A j \in Handled :
                              SameGroup(k, j) /\ Before(j, k) => status'[j] = "done"
      BY <1>1 DEF OrderInv
    <3>1. CASE k = i
      BY <1>2, <2>3, <2>4, <3>1 DEF Start
    <3>2. CASE k # i
      BY <2>2, <2>3, <2>4, <3>2 DEF OrderInv
    <3> QED
      BY <3>1, <3>2
  <2> QED
    BY <2>1, <2>5
<1>3. ASSUME NEW i \in DOMAIN block, Finish(i)
      PROVE  ScheduleTypeOK' /\ OrderInv'
  <2>1. ScheduleTypeOK'
    BY <1>1, <1>3 DEF Finish, ScheduleTypeOK
  <2>2. \A k \in DOMAIN block : /\ status[k] = "done" => status'[k] = "done"
                                /\ status'[k] # "waiting" => status[k] # "waiting"
    BY <1>3 DEF Finish, ScheduleTypeOK
  <2>3. \A k \in Handled : k \in DOMAIN block
    BY DEF Handled
  <2>4. OrderInv'
    BY <1>1, <2>2, <2>3 DEF OrderInv
  <2> QED
    BY <2>1, <2>4
<1>4. CASE Group \/ Throw \/ Retry \/ Return \/ UNCHANGED scheduleVars
  BY <1>1, <1>4 DEF Group, Throw, Retry, Return, scheduleVars, ScheduleTypeOK, OrderInv
<1> QED
  BY <1>1, <1>2, <1>3, <1>4 DEF ScheduleNext

LEMMA ScheduleHolds == Schedule => []ScheduleInv
BY ScheduleInitial, ScheduleKept, PTL DEF Schedule

\* Handlers that update a common entity never run together.
THEOREM NoOverlap == Schedule => []OneAtATime
<1>1. ScheduleInv => OneAtATime
  <2> SUFFICES ASSUME ScheduleInv, NEW i \in DOMAIN block, NEW j \in DOMAIN block, i # j, Share(i, j),
                      status[i] = "running", status[j] = "running"
               PROVE  FALSE
    BY DEF OneAtATime
  <2>1. i \in Handled /\ j \in Handled
    BY DEF ScheduleInv, OrderInv
  <2>2. SameGroup(i, j) /\ SameGroup(j, i)
    BY <2>1, SharersAreGrouped DEF ScheduleInv, Share
  <2>3. Before(i, j) \/ Before(j, i)
    BY BeforeIsTotal DEF ScheduleInv
  <2> QED
    BY <2>1, <2>2, <2>3 DEF ScheduleInv, OrderInv
<1> QED
  BY <1>1, ScheduleHolds, PTL

\* Each entity sees its data in the order of the chain, but for the events of
\* a transaction that its own later messages overtake.
THEOREM OrderPerEntity == Schedule => []InChainOrder
<1>1. ScheduleInv => InChainOrder
  <2> SUFFICES ASSUME ScheduleInv, NEW i \in DOMAIN block, NEW j \in DOMAIN block, i < j, Share(i, j),
                      Success(i), status[j] # "waiting", ~Overtaken(i, j)
               PROVE  status[i] = "done"
    BY DEF InChainOrder
  <2>1. i \in Handled /\ j \in Handled
    BY DEF ScheduleInv, OrderInv, Handled
  <2>2. SameGroup(j, i)
    BY <2>1, SharersAreGrouped DEF ScheduleInv, Share
  <2>3. Before(i, j)
    BY BeforeIsChainOrder DEF ScheduleInv
  <2> QED
    BY <2>1, <2>2, <2>3 DEF ScheduleInv, OrderInv
<1> QED
  BY <1>1, ScheduleHolds, PTL
=============================================================================
