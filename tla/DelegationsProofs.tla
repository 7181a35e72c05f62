-------------------------- MODULE DelegationsProofs --------------------------
(***************************************************************************)
(* Proofs about Delegations, for any applications and gateways, any stakes *)
(* and any number of data in a block.                                      *)
(*                                                                         *)
(* The two sequences of data of a block are handled each in its order and  *)
(* together in any.  For either the invariant says that the data left lead *)
(* from a store that the tables mirror to that of the chain; where one     *)
(* sequence touches what the other mirrors, it is what the path would be   *)
(* without the gateways still to be removed.                               *)
(***************************************************************************)
EXTENDS Delegations, SequenceTheorems, TLAPS

-----------------------------------------------------------------------------
(* Paths of data through stores *)

\* Each datum of seq leads from a store to the next, as L has it, from s to t.
Path(L, Stores, s, seq, t) ==
    \E p \in [0..Len(seq) -> Stores] :
        /\ p[0] = s /\ p[Len(seq)] = t
        /\ \A i \in 1..Len(seq) : <<seq[i], p[i - 1], p[i]>> \in L

LEMMA PathEmpty ==
    ASSUME NEW L, NEW Stores, NEW s \in Stores
    PROVE  /\ Path(L, Stores, s, <<>>, s)
           /\ \A t : Path(L, Stores, s, <<>>, t) => s = t
<1>1. [i \in 0..0 |-> s] \in [0..Len(<<>>) -> Stores]
  OBVIOUS
<1>2. Path(L, Stores, s, <<>>, s)
  <2>1. PICK p : p = [i \in 0..0 |-> s]
    OBVIOUS
  <2>2. p \in [0..Len(<<>>) -> Stores] /\ p[0] = s /\ p[Len(<<>>)] = s
    BY <1>1, <2>1
  <2> QED
    BY <2>2 DEF Path
<1> QED
  BY <1>2 DEF Path

LEMMA PathAppend ==
    ASSUME NEW L, NEW Stores, NEW Data, NEW seq \in Seq(Data), NEW s, NEW t, NEW u \in Stores,
           NEW d \in Data, Path(L, Stores, s, seq, t), <<d, t, u>> \in L
    PROVE  Path(L, Stores, s, Append(seq, d), u)
<1>1. PICK p \in [0..Len(seq) -> Stores] :
        /\ p[0] = s /\ p[Len(seq)] = t
        /\ \A i \in 1..Len(seq) : <<seq[i], p[i - 1], p[i]>> \in L
  BY DEF Path
<1>2. PICK n \in Nat : n = Len(seq)
  BY LenProperties
<1>3. PICK q : q = [i \in 0..(n + 1) |-> IF i = n + 1 THEN u ELSE p[i]]
  OBVIOUS
<1>4. Len(Append(seq, d)) = n + 1 /\ q \in [0..(n + 1) -> Stores] /\ q[0] = s /\ q[n + 1] = u
  BY <1>1, <1>2, <1>3, AppendProperties
<1>5. ASSUME NEW i \in 1..(n + 1) PROVE <<Append(seq, d)[i], q[i - 1], q[i]>> \in L
  <2>1. CASE i = n + 1
    <3>1. Append(seq, d)[i] = d /\ q[i - 1] = t /\ q[i] = u
      BY <1>1, <1>2, <1>3, <2>1, AppendProperties
    <3> QED
      BY <3>1
  <2>2. CASE i # n + 1
    <3>1. i \in 1..Len(seq) /\ Append(seq, d)[i] = seq[i] /\ q[i - 1] = p[i - 1] /\ q[i] = p[i]
      BY <1>2, <1>3, <2>2, AppendProperties
    <3> QED
      BY <1>1, <3>1
  <2> QED
    BY <2>1, <2>2
<1> QED
  BY <1>4, <1>5 DEF Path

LEMMA TailFacts ==
    ASSUME NEW Data, NEW seq \in Seq(Data), seq # <<>>
    PROVE  \E n \in Nat : /\ Len(seq) = n + 1 /\ Len(Tail(seq)) = n /\ Tail(seq) \in Seq(Data)
                          /\ Head(seq) = seq[1] /\ Head(seq) \in Data
                          /\ \A i \in 1..n : Tail(seq)[i] = seq[i + 1]
<1>1. Len(seq) \in Nat /\ Len(seq) # 0
  BY LenProperties, EmptySeq
<1>2. PICK n \in Nat : Len(seq) = n + 1
  BY <1>1
<1> QED
  BY <1>2, HeadTailProperties

LEMMA PathHead ==
    ASSUME NEW L, NEW Stores, NEW Data, NEW seq \in Seq(Data), seq # <<>>, NEW s, NEW t,
           Path(L, Stores, s, seq, t)
    PROVE  \E u \in Stores : /\ s \in Stores /\ <<Head(seq), s, u>> \in L
                             /\ Path(L, Stores, u, Tail(seq), t)
<1>1. PICK p \in [0..Len(seq) -> Stores] :
        /\ p[0] = s /\ p[Len(seq)] = t
        /\ \A i \in 1..Len(seq) : <<seq[i], p[i - 1], p[i]>> \in L
  BY DEF Path
<1>2. PICK n \in Nat : /\ Len(seq) = n + 1 /\ Len(Tail(seq)) = n /\ Head(seq) = seq[1]
                       /\ \A i \in 1..n : Tail(seq)[i] = seq[i + 1]
  BY TailFacts
<1>3. PICK q : q = [i \in 0..n |-> p[i + 1]]
  OBVIOUS
<1>4. s \in Stores /\ p[1] \in Stores /\ <<Head(seq), s, p[1]>> \in L
  BY <1>1, <1>2
<1>5. q \in [0..n -> Stores] /\ q[0] = p[1] /\ q[n] = t
  <2>1. \A i \in 0..n : i + 1 \in 0..Len(seq)
    BY <1>2
  <2>2. q \in [0..n -> Stores]
    BY <1>1, <1>3, <2>1
  <2>3. 0 \in 0..n /\ n \in 0..n /\ 0 + 1 = 1
    OBVIOUS
  <2> QED
    BY <1>1, <1>2, <1>3, <2>2, <2>3
<1>6. ASSUME NEW i \in 1..n PROVE <<Tail(seq)[i], q[i - 1], q[i]>> \in L
  <2>1. i + 1 \in 1..Len(seq) /\ q[i - 1] = p[(i + 1) - 1] /\ q[i] = p[i + 1]
    BY <1>2, <1>3
  <2> QED
    BY <1>1, <1>2, <2>1
<1> QED
  BY <1>2, <1>4, <1>5, <1>6 DEF Path

LEMMA TwoInOrder ==
    ASSUME NEW S, NEW seq \in Seq(S), NEW d \in S, NEW e \in S
    PROVE  /\ seq \o <<d>> = Append(seq, d)
           /\ seq \o <<d, e>> = Append(Append(seq, d), e)
           /\ seq \o <<>> = seq
<1>1. <<d>> \in Seq(S) /\ <<e>> \in Seq(S) /\ <<d, e>> \in Seq(S)
  OBVIOUS
<1>2. PICK x \in Seq(S) : x = Append(<<d>>, e)
  BY <1>1, AppendProperties
<1>3. Len(x) = 2 /\ x[1] = d /\ x[2] = e
  BY <1>1, <1>2, AppendProperties
<1>4. Len(<<d, e>>) = 2 /\ <<d, e>>[1] = d /\ <<d, e>>[2] = e
  OBVIOUS
<1>5. \A i \in 1..Len(x) : x[i] = <<d, e>>[i]
  BY <1>3, <1>4
<1>6. x = <<d, e>>
  BY <1>1, <1>3, <1>4, <1>5, SeqEqual
<1>7. x = <<d>> \o <<e>>
  BY <1>1, <1>2, AppendIsConcat
<1>8. Append(seq, d) = seq \o <<d>> /\ Append(seq, d) \in Seq(S)
  BY AppendIsConcat, AppendProperties
<1>9. Append(Append(seq, d), e) = Append(seq, d) \o <<e>>
  BY <1>8, AppendIsConcat
<1>10. (seq \o <<d>>) \o <<e>> = seq \o (<<d>> \o <<e>>)
  BY <1>1, ConcatAssociative
<1>11. seq \o <<>> = seq
  BY ConcatEmptySeq
<1> QED
  BY <1>6, <1>7, <1>8, <1>9, <1>10, <1>11

\* A path is one again where a function of the stores respects each datum of it.
LEMMA PathMapped ==
    ASSUME NEW L, NEW Stores, NEW Data, NEW seq \in Seq(Data), NEW s, NEW t,
           Path(L, Stores, s, seq, t), NEW f \in [Stores -> Stores],
           \A i \in 1..Len(seq) : \A x, y \in Stores :
               <<seq[i], x, y>> \in L => <<seq[i], f[x], f[y]>> \in L
    PROVE  Path(L, Stores, f[s], seq, f[t])
<1>1. PICK p \in [0..Len(seq) -> Stores] :
        /\ p[0] = s /\ p[Len(seq)] = t
        /\ \A i \in 1..Len(seq) : <<seq[i], p[i - 1], p[i]>> \in L
  BY DEF Path
<1>2. PICK n \in Nat : n = Len(seq)
  BY LenProperties
<1>3. PICK q : q = [i \in 0..n |-> f[p[i]]]
  OBVIOUS
<1>4. q \in [0..n -> Stores] /\ q[0] = f[s] /\ q[n] = f[t]
  BY <1>1, <1>2, <1>3
<1>5. ASSUME NEW i \in 1..n PROVE <<seq[i], q[i - 1], q[i]>> \in L
  <2>1. PICK j \in 0..n : j = i - 1
    BY <1>2
  <2>2. i \in 0..n /\ p[j] \in Stores /\ p[i] \in Stores /\ q[j] = f[p[j]] /\ q[i] = f[p[i]]
    <3>1. i \in 0..n
      BY <1>2
    <3>2. \A k \in 0..n : p[k] \in Stores
      BY <1>1, <1>2
    <3>3. \A k \in 0..n : q[k] = f[p[k]]
      BY <1>3
    <3> QED
      BY <2>1, <3>1, <3>2, <3>3
  <2>3. <<seq[i], p[j], p[i]>> \in L
    BY <1>1, <1>2, <2>1
  <2>4. <<seq[i], q[j], q[i]>> \in L
    BY <1>2, <2>2, <2>3
  <2> QED
    BY <2>1, <2>4
<1> QED
  BY <1>2, <1>4, <1>5 DEF Path

Elements(seq) == {seq[i] : i \in DOMAIN seq}

LEMMA ElementsEmpty == Elements(<<>>) = {}
BY DEF Elements

LEMMA ElementsTyped ==
    ASSUME NEW S, NEW seq \in Seq(S)
    PROVE  Elements(seq) \subseteq S
BY ElementOfSeq, LenProperties DEF Elements

LEMMA ElementsAppend ==
    ASSUME NEW S, NEW seq \in Seq(S), NEW d \in S
    PROVE  Elements(Append(seq, d)) = Elements(seq) \cup {d}
<1>1. PICK n \in Nat : n = Len(seq) /\ DOMAIN seq = 1..n
  BY LenProperties
<1>2. PICK x \in Seq(S) : x = Append(seq, d)
  BY AppendProperties
<1>3. /\ DOMAIN x = 1..(n + 1) /\ x[n + 1] = d
      /\ \A i \in 1..n : x[i] = seq[i]
  BY <1>1, <1>2, AppendProperties, LenProperties
<1>4. 1..(n + 1) = (1..n) \cup {n + 1}
  OBVIOUS
<1>5. Elements(x) = Elements(seq) \cup {d}
  BY <1>1, <1>3, <1>4 DEF Elements
<1> QED
  BY <1>2, <1>5

LEMMA ElementsTail ==
    ASSUME NEW S, NEW seq \in Seq(S), seq # <<>>
    PROVE  Elements(seq) = {Head(seq)} \cup Elements(Tail(seq))
<1>1. PICK n \in Nat : /\ Len(seq) = n + 1 /\ Len(Tail(seq)) = n /\ Tail(seq) \in Seq(S)
                       /\ Head(seq) = seq[1] /\ \A i \in 1..n : Tail(seq)[i] = seq[i + 1]
  BY TailFacts
<1>2. DOMAIN seq = 1..(n + 1) /\ DOMAIN Tail(seq) = 1..n
  BY <1>1, LenProperties
<1>3. ASSUME NEW e \in Elements(seq) PROVE e \in {Head(seq)} \cup Elements(Tail(seq))
  <2>1. PICK i \in 1..(n + 1) : e = seq[i]
    BY <1>2 DEF Elements
  <2>2. CASE i = 1
    BY <1>1, <2>1, <2>2
  <2>3. CASE i # 1
    <3>1. PICK j \in 1..n : i = j + 1
      BY <2>1, <2>3
    <3>2. e = Tail(seq)[j]
      BY <1>1, <2>1, <3>1
    <3> QED
      BY <1>2, <3>1, <3>2 DEF Elements
  <2> QED
    BY <2>2, <2>3
<1>4. Head(seq) \in Elements(seq)
  BY <1>1, <1>2 DEF Elements
<1>5. ASSUME NEW e \in Elements(Tail(seq)) PROVE e \in Elements(seq)
  <2>1. PICK j \in 1..n : e = Tail(seq)[j]
    BY <1>2 DEF Elements
  <2>2. j + 1 \in 1..(n + 1) /\ e = seq[j + 1]
    BY <1>1, <2>1
  <2> QED
    BY <1>2, <2>2 DEF Elements
<1> QED
  BY <1>3, <1>4, <1>5

-----------------------------------------------------------------------------
(* The invariant of gateways *)

GatewayData == [kind : {"stake"}, gateway : Gateways, stake : 1..MaxStake]
               \cup [kind : {"unstake", "unbondingBegin", "unbondingEnd"}, gateway : Gateways]
AppData == [kind : {"delegate", "undelegate"}, app : Apps, gateway : Gateways]
           \cup [kind : {"transferEnd"}, app : Apps, to : Apps]
           \cup [kind : {"unbondingEnd"}, app : Apps]

GatewayStores == [Gateways -> ChainGateway \cup {None}]

\* What a datum says the chain did to its gateway.
GatewayStep(d, s, t) ==
    \/ d.kind = "stake" /\ t = [s EXCEPT ![d.gateway] = [stake |-> d.stake, unstaking |-> FALSE]]
    \/ d.kind = "unstake" /\ s[d.gateway] # None /\ t = [s EXCEPT ![d.gateway].unstaking = TRUE]
    \/ d.kind = "unbondingBegin" /\ t = s
    \/ d.kind = "unbondingEnd" /\ t = [s EXCEPT ![d.gateway] = None]

GatewayLeads == {x \in GatewayData \X GatewayStores \X GatewayStores : GatewayStep(x[1], x[2], x[3])}

StoredRow(c) == [status |-> IF c.unstaking THEN "Unstaking" ELSE "Staked", stake |-> c.stake]
ClosedRow == [status |-> "Unstaked", stake |-> 0]

MirrorsAt(s, g) == IF s[g] # None THEN gateways[g] = StoredRow(s[g]) ELSE gateways[g] \in {None, ClosedRow}
Mirrors(s) == \A g \in Gateways : MirrorsAt(s, g)

TypesInv ==
    /\ onChain \in GatewayStores
    /\ delegated \subseteq Apps \X Gateways /\ unbonded \subseteq Apps
    /\ ops \in 0..MaxOps
    /\ gatewayData \in Seq(GatewayData) /\ appData \in Seq(AppData)
    /\ pc \in {"chain", "handle"}
    /\ gateways \in [Gateways -> Row \cup {None}]
    /\ delegations \subseteq Apps \X Gateways
    /\ undelegates = None \/ undelegates \subseteq Apps \X Gateways
    /\ moving = None \/ moving \subseteq Gateways
    /\ statements \subseteq {"create", "remove"}
    /\ moving = None <=> statements = {}

BehindInv ==
    \E s \in GatewayStores : Path(GatewayLeads, GatewayStores, s, gatewayData, onChain) /\ Mirrors(s)

GatewayInv == TypesInv /\ BehindInv

-----------------------------------------------------------------------------
(* Lemmas about gateways and their data *)

LEMMA IsGatewayStep ==
    ASSUME NEW d \in GatewayData, NEW s \in GatewayStores, NEW t \in GatewayStores
    PROVE  <<d, s, t>> \in GatewayLeads <=> GatewayStep(d, s, t)
<1>1. PICK x : x = <<d, s, t>>
  OBVIOUS
<1>2. x[1] = d /\ x[2] = s /\ x[3] = t /\ x \in GatewayData \X GatewayStores \X GatewayStores
  BY <1>1
<1>3. x \in GatewayLeads <=> GatewayStep(x[1], x[2], x[3])
  BY <1>2 DEF GatewayLeads
<1> QED
  BY <1>1, <1>2, <1>3

LEMMA GatewayFields ==
    ASSUME NEW d \in GatewayData
    PROVE  /\ d.gateway \in Gateways /\ d.kind \in {"stake", "unstake", "unbondingBegin", "unbondingEnd"}
           /\ d.kind = "stake" => d.stake \in 1..MaxStake
BY DEF GatewayData

LEMMA AppFields ==
    ASSUME NEW d \in AppData
    PROVE  /\ d.app \in Apps /\ d.kind \in {"delegate", "undelegate", "transferEnd", "unbondingEnd"}
           /\ d.kind \in {"delegate", "undelegate"} => d.gateway \in Gateways
           /\ d.kind = "transferEnd" => d.to \in Apps
BY DEF AppData

LEMMA ChainGatewayFields ==
    ASSUME NEW c \in ChainGateway
    PROVE  /\ c.stake \in 1..MaxStake /\ c.unstaking \in BOOLEAN /\ c # None
           /\ StoredRow(c) \in Row /\ StoredRow(c).stake = c.stake
           /\ [c EXCEPT !.unstaking = TRUE] \in ChainGateway
           /\ StoredRow([c EXCEPT !.unstaking = TRUE]) = [StoredRow(c) EXCEPT !.status = "Unstaking"]
<1>1. c.stake \in 1..MaxStake /\ c.unstaking \in BOOLEAN /\ c # None
  BY DelegationsAssumption DEF ChainGateway
<1>2. StoredRow(c) \in Row /\ StoredRow(c).stake = c.stake
  BY <1>1, DelegationsAssumption DEF StoredRow, Row
<1>3. PICK e : e = [c EXCEPT !.unstaking = TRUE]
  OBVIOUS
<1>4. e \in ChainGateway /\ e.unstaking = TRUE /\ e.stake = c.stake
  BY <1>3 DEF ChainGateway
<1>5. StoredRow(e) = [StoredRow(c) EXCEPT !.status = "Unstaking"]
  BY <1>4 DEF StoredRow
<1> QED
  BY <1>1, <1>2, <1>3, <1>4, <1>5

LEMMA InitCorrect ==
    ASSUME Init
    PROVE  GatewayInv
<1>1. TypesInv
  BY EmptySeq, DelegationsAssumption DEF Init, TypesInv, GatewayStores
<1>2. Mirrors(onChain)
  BY DEF Init, Mirrors, MirrorsAt
<1>3. onChain \in GatewayStores /\ gatewayData = <<>>
  BY <1>1 DEF Init, TypesInv
<1>4. Path(GatewayLeads, GatewayStores, onChain, gatewayData, onChain)
  BY <1>3, PathEmpty
<1> QED
  BY <1>1, <1>2, <1>3, <1>4 DEF GatewayInv, BehindInv

-----------------------------------------------------------------------------
(* The chain *)

\* What is emitted has its types, and the tables wait.
LEMMA EmitTypes ==
    ASSUME TypesInv, NEW g \in Seq(GatewayData), NEW a \in Seq(AppData), Emit(g, a)
    PROVE  /\ gatewayData' = gatewayData \o g /\ appData' = appData \o a
           /\ gatewayData' \in Seq(GatewayData) /\ appData' \in Seq(AppData)
           /\ ops' \in 0..MaxOps /\ pc = "chain" /\ pc' = "chain"
           /\ UNCHANGED <<gateways, delegations, undelegates, moving, statements>>
BY ConcatProperties, DelegationsAssumption DEF Emit, TypesInv

\* An operation on a gateway adds data that lead from its store to the next.
LEMMA OneGatewayDatum ==
    ASSUME GatewayInv, NEW d \in GatewayData, Emit(<<d>>, <<>>), onChain' \in GatewayStores,
           GatewayStep(d, onChain, onChain'),
           delegated' \subseteq Apps \X Gateways, unbonded' \subseteq Apps
    PROVE  GatewayInv'
<1>1. TypesInv /\ onChain \in GatewayStores /\ gatewayData \in Seq(GatewayData)
      /\ appData \in Seq(AppData)
  BY DEF GatewayInv, TypesInv
<1>2. <<d>> \in Seq(GatewayData) /\ <<>> \in Seq(AppData)
  BY EmptySeq
<1>3. /\ gatewayData' = gatewayData \o <<d>> /\ gatewayData' \in Seq(GatewayData)
      /\ appData' \in Seq(AppData) /\ ops' \in 0..MaxOps /\ pc' = "chain"
      /\ UNCHANGED <<gateways, delegations, undelegates, moving, statements>>
  BY <1>1, <1>2, EmitTypes
<1>4. PICK t \in GatewayStores : t = onChain'
  OBVIOUS
<1>5. PICK s \in GatewayStores :
        Path(GatewayLeads, GatewayStores, s, gatewayData, onChain) /\ Mirrors(s)
  BY DEF GatewayInv, BehindInv
<1>6. <<d, onChain, t>> \in GatewayLeads
  BY <1>1, <1>4, IsGatewayStep
<1>7. Path(GatewayLeads, GatewayStores, s, Append(gatewayData, d), t)
  BY <1>1, <1>5, <1>6, PathAppend
<1>8. gatewayData' = Append(gatewayData, d)
  BY <1>1, <1>3, TwoInOrder
<1>9. Mirrors(s)'
  BY <1>3, <1>5 DEF Mirrors, MirrorsAt
<1>10. BehindInv'
  BY <1>4, <1>7, <1>8, <1>9 DEF BehindInv
<1>11. TypesInv'
  BY <1>1, <1>3 DEF TypesInv
<1> QED
  BY <1>10, <1>11 DEF GatewayInv

LEMMA UnstakeData ==
    ASSUME GatewayInv, NEW g \in Gateways, ChainUnstake(g)
    PROVE  GatewayInv'
<1>1. /\ TypesInv /\ onChain \in GatewayStores /\ gatewayData \in Seq(GatewayData)
      /\ appData \in Seq(AppData) /\ onChain[g] # None /\ onChain[g] \in ChainGateway
      /\ onChain' = [onChain EXCEPT ![g].unstaking = TRUE]
      /\ UNCHANGED <<delegated, unbonded>>
  BY DEF GatewayInv, TypesInv, ChainUnstake, OnChain, GatewayStores
<1>2. PICK d \in GatewayData, e \in GatewayData :
        d = [kind |-> "unstake", gateway |-> g] /\ e = [kind |-> "unbondingBegin", gateway |-> g]
  BY DEF GatewayData
<1>3. Emit(<<d, e>>, <<>>)
  BY <1>2 DEF ChainUnstake
<1>4. <<d, e>> \in Seq(GatewayData) /\ <<>> \in Seq(AppData)
  BY EmptySeq
<1>5. /\ gatewayData' = gatewayData \o <<d, e>> /\ gatewayData' \in Seq(GatewayData)
      /\ appData' \in Seq(AppData) /\ ops' \in 0..MaxOps /\ pc' = "chain"
      /\ UNCHANGED <<gateways, delegations, undelegates, moving, statements>>
  BY <1>1, <1>3, <1>4, EmitTypes
<1>6. PICK t \in GatewayStores : t = onChain'
  <2>1. [onChain[g] EXCEPT !.unstaking = TRUE] \in ChainGateway
    BY <1>1, ChainGatewayFields
  <2> QED
    BY <1>1, <2>1 DEF GatewayStores
<1>7. PICK s \in GatewayStores :
        Path(GatewayLeads, GatewayStores, s, gatewayData, onChain) /\ Mirrors(s)
  BY DEF GatewayInv, BehindInv
<1>8. <<d, onChain, t>> \in GatewayLeads /\ <<e, t, t>> \in GatewayLeads
  <2>1. GatewayStep(d, onChain, t) /\ GatewayStep(e, t, t)
    BY <1>1, <1>2, <1>6 DEF GatewayStep
  <2> QED
    BY <1>1, <2>1, IsGatewayStep
<1>9. PICK mid \in Seq(GatewayData) : mid = Append(gatewayData, d)
  BY <1>1, AppendProperties
<1>10. Path(GatewayLeads, GatewayStores, s, mid, t)
  BY <1>1, <1>7, <1>8, <1>9, PathAppend
<1>11. Path(GatewayLeads, GatewayStores, s, Append(mid, e), t)
  BY <1>8, <1>10, PathAppend
<1>12. gatewayData' = Append(mid, e)
  BY <1>1, <1>5, <1>9, TwoInOrder
<1>13. Mirrors(s)'
  BY <1>5, <1>7 DEF Mirrors, MirrorsAt
<1>14. BehindInv'
  BY <1>6, <1>11, <1>12, <1>13 DEF BehindInv
<1>15. TypesInv'
  BY <1>1, <1>5, <1>6 DEF TypesInv
<1> QED
  BY <1>14, <1>15 DEF GatewayInv

\* An operation on an application leaves gateways alone.
LEMMA OneAppDatum ==
    ASSUME GatewayInv, NEW d \in AppData, Emit(<<>>, <<d>>), onChain' = onChain,
           delegated' \subseteq Apps \X Gateways, unbonded' \subseteq Apps
    PROVE  GatewayInv' /\ gatewayData' = gatewayData /\ appData' = Append(appData, d)
<1>1. TypesInv /\ gatewayData \in Seq(GatewayData) /\ appData \in Seq(AppData)
  BY DEF GatewayInv, TypesInv
<1>2. <<>> \in Seq(GatewayData) /\ <<d>> \in Seq(AppData)
  BY EmptySeq
<1>3. /\ gatewayData' = gatewayData \o <<>> /\ appData' = appData \o <<d>>
      /\ gatewayData' \in Seq(GatewayData)
      /\ appData' \in Seq(AppData) /\ ops' \in 0..MaxOps /\ pc' = "chain"
      /\ UNCHANGED <<gateways, delegations, undelegates, moving, statements>>
  BY <1>1, <1>2, EmitTypes
<1>4. gatewayData' = gatewayData
  BY <1>1, <1>3, ConcatEmptySeq
<1>5. appData' = Append(appData, d)
  BY <1>1, <1>3, AppendIsConcat
<1>6. BehindInv'
  BY <1>3, <1>4 DEF GatewayInv, BehindInv, Mirrors, MirrorsAt
<1>7. TypesInv'
  BY <1>1, <1>3 DEF TypesInv
<1> QED
  BY <1>4, <1>5, <1>6, <1>7 DEF GatewayInv

LEMMA ChainKeepsGateways ==
    ASSUME GatewayInv, Chain
    PROVE  GatewayInv'
<1>1. onChain \in GatewayStores /\ delegated \subseteq Apps \X Gateways /\ unbonded \subseteq Apps
  BY DEF GatewayInv, TypesInv
<1>2. ASSUME NEW g \in Gateways, NEW stake \in 1..MaxStake, ChainStake(g, stake)
      PROVE  GatewayInv'
  <2>1. PICK d \in GatewayData : d = [kind |-> "stake", gateway |-> g, stake |-> stake]
    BY DEF GatewayData
  <2>2. /\ onChain' = [onChain EXCEPT ![g] = [stake |-> stake, unstaking |-> FALSE]]
        /\ Emit(<<d>>, <<>>) /\ UNCHANGED <<delegated, unbonded>>
    BY <1>2, <2>1 DEF ChainStake
  <2>3. onChain' \in GatewayStores
    BY <1>1, <2>2 DEF GatewayStores, ChainGateway
  <2>4. GatewayStep(d, onChain, onChain')
    BY <2>1, <2>2 DEF GatewayStep
  <2> QED
    BY <1>1, <2>2, <2>3, <2>4, OneGatewayDatum
<1>3. ASSUME NEW g \in Gateways, ChainUnbondingEnd(g)
      PROVE  GatewayInv'
  <2>1. PICK d \in GatewayData : d = [kind |-> "unbondingEnd", gateway |-> g]
    BY DEF GatewayData
  <2>2. /\ onChain' = [onChain EXCEPT ![g] = None] /\ Emit(<<d>>, <<>>)
        /\ delegated' \subseteq Apps \X Gateways /\ unbonded' \subseteq Apps
    BY <1>1, <1>3, <2>1 DEF ChainUnbondingEnd
  <2>3. onChain' \in GatewayStores
    BY <1>1, <2>2 DEF GatewayStores
  <2>4. GatewayStep(d, onChain, onChain')
    BY <2>1, <2>2 DEF GatewayStep
  <2> QED
    BY <2>2, <2>3, <2>4, OneGatewayDatum
<1>4. ASSUME NEW a \in Apps, NEW g \in Gateways, ChainDelegate(a, g)
      PROVE  GatewayInv'
  <2>1. PICK d \in AppData : d = [kind |-> "delegate", app |-> a, gateway |-> g]
    BY DEF AppData
  <2>2. Emit(<<>>, <<d>>) /\ onChain' = onChain
        /\ delegated' \subseteq Apps \X Gateways /\ unbonded' \subseteq Apps
    BY <1>1, <1>4, <2>1 DEF ChainDelegate
  <2> QED
    BY <2>2, OneAppDatum
<1>5. ASSUME NEW a \in Apps, NEW g \in Gateways, ChainUndelegate(a, g)
      PROVE  GatewayInv'
  <2>1. PICK d \in AppData : d = [kind |-> "undelegate", app |-> a, gateway |-> g]
    BY DEF AppData
  <2>2. Emit(<<>>, <<d>>) /\ onChain' = onChain
        /\ delegated' \subseteq Apps \X Gateways /\ unbonded' \subseteq Apps
    BY <1>1, <1>5, <2>1 DEF ChainUndelegate
  <2> QED
    BY <2>2, OneAppDatum
<1>6. ASSUME NEW a \in Apps, NEW b \in Apps, ChainTransferEnd(a, b)
      PROVE  GatewayInv'
  <2>1. PICK d \in AppData : d = [kind |-> "transferEnd", app |-> a, to |-> b]
    BY DEF AppData
  <2>2. Emit(<<>>, <<d>>) /\ onChain' = onChain
    BY <1>6, <2>1 DEF ChainTransferEnd
  <2>3. unbonded' \subseteq Apps
    BY <1>1, <1>6 DEF ChainTransferEnd
  <2>4. /\ \A x \in Gateways : <<b, x>> \in Apps \X Gateways
        /\ delegated' = (delegated \ ({a} \X Gateways))
                        \cup {<<b, g>> : g \in {g \in Gateways : <<a, g>> \in delegated}}
    BY <1>6 DEF ChainTransferEnd
  <2>5. delegated' \subseteq Apps \X Gateways
    BY <1>1, <2>4
  <2> QED
    BY <2>2, <2>3, <2>5, OneAppDatum
<1>7. ASSUME NEW a \in Apps, ChainAppUnbondingEnd(a)
      PROVE  GatewayInv'
  <2>1. PICK d \in AppData : d = [kind |-> "unbondingEnd", app |-> a]
    BY DEF AppData
  <2>2. Emit(<<>>, <<d>>) /\ onChain' = onChain
        /\ delegated' \subseteq Apps \X Gateways /\ unbonded' \subseteq Apps
    BY <1>1, <1>7, <2>1 DEF ChainAppUnbondingEnd
  <2> QED
    BY <2>2, OneAppDatum
<1> QED
  BY <1>2, <1>3, <1>4, <1>5, <1>6, <1>7, UnstakeData DEF Chain

-----------------------------------------------------------------------------
(* The gateway handlers *)

LEMMA GatewayHead ==
    ASSUME GatewayInv, gatewayData # <<>>
    PROVE  /\ Head(gatewayData) \in GatewayData /\ Tail(gatewayData) \in Seq(GatewayData)
           /\ \E s, u \in GatewayStores :
                /\ Mirrors(s) /\ GatewayStep(Head(gatewayData), s, u)
                /\ Path(GatewayLeads, GatewayStores, u, Tail(gatewayData), onChain)
<1>1. gatewayData \in Seq(GatewayData)
  BY DEF GatewayInv, TypesInv
<1>2. Head(gatewayData) \in GatewayData /\ Tail(gatewayData) \in Seq(GatewayData)
  BY <1>1, TailFacts
<1>3. PICK s \in GatewayStores :
        Path(GatewayLeads, GatewayStores, s, gatewayData, onChain) /\ Mirrors(s)
  BY DEF GatewayInv, BehindInv
<1>4. PICK u \in GatewayStores : <<Head(gatewayData), s, u>> \in GatewayLeads
                                 /\ Path(GatewayLeads, GatewayStores, u, Tail(gatewayData), onChain)
  BY <1>1, <1>3, PathHead
<1>5. GatewayStep(Head(gatewayData), s, u)
  BY <1>2, <1>4, IsGatewayStep
<1> QED
  BY <1>2, <1>3, <1>4, <1>5

LEMMA GatewayHandled ==
    ASSUME GatewayInv, gatewayData # <<>>, GatewayDone,
           NEW u \in GatewayStores,
           Path(GatewayLeads, GatewayStores, u, Tail(gatewayData), onChain), Mirrors(u)',
           gateways' \in [Gateways -> Row \cup {None}], delegations' \subseteq Apps \X Gateways,
           undelegates' = None \/ undelegates' \subseteq Apps \X Gateways
    PROVE  GatewayInv'
<1>1. UNCHANGED <<onChain, delegated, unbonded, ops, appData, moving, statements, pc>>
      /\ gatewayData' = Tail(gatewayData)
  BY DEF GatewayDone, chainVars, appVars
<1>2. TypesInv'
  <2>1. gatewayData' \in Seq(GatewayData)
    BY <1>1, GatewayHead
  <2> QED
    BY <1>1, <2>1 DEF GatewayInv, TypesInv
<1>3. BehindInv'
  BY <1>1 DEF BehindInv
<1> QED
  BY <1>2, <1>3 DEF GatewayInv

LEMMA StakeHandled ==
    ASSUME GatewayInv, HandleGatewayMsgStake
    PROVE  GatewayInv'
<1>1. PICK d : d = Head(gatewayData)
  OBVIOUS
<1>2. /\ gatewayData # <<>> /\ d.kind = "stake" /\ GatewayDone /\ UNCHANGED <<delegations, undelegates>>
      /\ gateways' = [gateways EXCEPT ![d.gateway] = [status |-> "Staked", stake |-> d.stake]]
  BY <1>1 DEF HandleGatewayMsgStake, Gateway
<1>3. d \in GatewayData /\ d.gateway \in Gateways /\ d.stake \in 1..MaxStake
  BY <1>1, <1>2, GatewayHead, GatewayFields
<1>4. PICK s \in GatewayStores, u \in GatewayStores :
        /\ Mirrors(s) /\ GatewayStep(d, s, u)
        /\ Path(GatewayLeads, GatewayStores, u, Tail(gatewayData), onChain)
  BY <1>1, <1>2, GatewayHead
<1>5. u = [s EXCEPT ![d.gateway] = [stake |-> d.stake, unstaking |-> FALSE]]
  BY <1>2, <1>4 DEF GatewayStep
<1>6. /\ delegations \subseteq Apps \X Gateways /\ gateways \in [Gateways -> Row \cup {None}]
      /\ undelegates = None \/ undelegates \subseteq Apps \X Gateways
  BY DEF GatewayInv, TypesInv
<1>7. gateways' \in [Gateways -> Row \cup {None}]
  <2>1. [status |-> "Staked", stake |-> d.stake] \in Row
    BY <1>3, DelegationsAssumption DEF Row
  <2> QED
    BY <1>2, <1>6, <2>1
<1>8. ASSUME NEW g \in Gateways PROVE MirrorsAt(u, g)'
  <2>1. CASE g = d.gateway
    <3>1. PICK c \in ChainGateway : c = [stake |-> d.stake, unstaking |-> FALSE]
      BY <1>3 DEF ChainGateway
    <3>2. u[g] = c /\ u[g] # None
      BY <1>3, <1>4, <1>5, <2>1, <3>1, ChainGatewayFields DEF GatewayStores
    <3>3. gateways'[g] = StoredRow(c)
      BY <1>2, <1>3, <1>6, <2>1, <3>1 DEF StoredRow
    <3> QED
      BY <3>2, <3>3 DEF MirrorsAt
  <2>2. CASE g # d.gateway
    <3>1. u[g] = s[g] /\ gateways'[g] = gateways[g]
      BY <1>2, <1>4, <1>5, <1>6, <2>2 DEF GatewayStores
    <3> QED
      BY <1>4, <3>1 DEF Mirrors, MirrorsAt
  <2> QED
    BY <2>1, <2>2
<1> QED
  BY <1>2, <1>4, <1>6, <1>7, <1>8, GatewayHandled DEF Mirrors

LEMMA UnstakeHandled ==
    ASSUME GatewayInv, HandleGatewayMsgUnstake
    PROVE  GatewayInv'
<1>1. PICK d : d = Head(gatewayData)
  OBVIOUS
<1>2. /\ gatewayData # <<>> /\ d.kind = "unstake" /\ GatewayDone /\ UNCHANGED <<delegations, undelegates>>
      /\ gateways' = [gateways EXCEPT ![d.gateway].status = "Unstaking"] /\ gateways[d.gateway] # None
  BY <1>1 DEF HandleGatewayMsgUnstake, Gateway, Loaded
<1>3. d \in GatewayData /\ d.gateway \in Gateways
  BY <1>1, <1>2, GatewayHead, GatewayFields
<1>4. PICK s \in GatewayStores, u \in GatewayStores :
        /\ Mirrors(s) /\ GatewayStep(d, s, u)
        /\ Path(GatewayLeads, GatewayStores, u, Tail(gatewayData), onChain)
  BY <1>1, <1>2, GatewayHead
<1>5. u = [s EXCEPT ![d.gateway].unstaking = TRUE] /\ s[d.gateway] # None
  BY <1>2, <1>4 DEF GatewayStep
<1>6. /\ delegations \subseteq Apps \X Gateways /\ gateways \in [Gateways -> Row \cup {None}]
      /\ undelegates = None \/ undelegates \subseteq Apps \X Gateways
  BY DEF GatewayInv, TypesInv
<1>7. gateways' \in [Gateways -> Row \cup {None}]
  <2>1. [gateways[d.gateway] EXCEPT !.status = "Unstaking"] \in Row
    BY <1>2, <1>3, <1>6 DEF Row
  <2> QED
    BY <1>2, <1>6, <2>1
<1>8. ASSUME NEW g \in Gateways PROVE MirrorsAt(u, g)'
  <2>1. CASE g = d.gateway
    <3>1. PICK c \in ChainGateway : c = s[g]
      BY <1>4, <1>5, <2>1 DEF GatewayStores
    <3>2. u[g] = [c EXCEPT !.unstaking = TRUE]
      BY <1>3, <1>4, <1>5, <2>1, <3>1 DEF GatewayStores
    <3>3. gateways[g] = StoredRow(c)
      BY <1>4, <1>5, <2>1, <3>1 DEF Mirrors, MirrorsAt
    <3>4. gateways'[g] = [StoredRow(c) EXCEPT !.status = "Unstaking"]
      BY <1>2, <1>3, <1>6, <2>1, <3>3
    <3>5. u[g] # None /\ gateways'[g] = StoredRow(u[g])
      BY <3>2, <3>4, ChainGatewayFields
    <3> QED
      BY <3>5 DEF MirrorsAt
  <2>2. CASE g # d.gateway
    <3>1. u[g] = s[g] /\ gateways'[g] = gateways[g]
      BY <1>2, <1>4, <1>5, <1>6, <2>2 DEF GatewayStores
    <3> QED
      BY <1>4, <3>1 DEF Mirrors, MirrorsAt
  <2> QED
    BY <2>1, <2>2
<1> QED
  BY <1>2, <1>4, <1>6, <1>7, <1>8, GatewayHandled DEF Mirrors

LEMMA UnbondingBeginHandled ==
    ASSUME GatewayInv, HandleEventGatewayUnbondingBegin
    PROVE  GatewayInv'
<1>1. PICK d : d = Head(gatewayData)
  OBVIOUS
<1>2. /\ gatewayData # <<>> /\ d.kind = "unbondingBegin" /\ GatewayDone
      /\ UNCHANGED <<gateways, delegations, undelegates>>
  BY <1>1 DEF HandleEventGatewayUnbondingBegin, Gateway
<1>3. PICK s \in GatewayStores, u \in GatewayStores :
        /\ Mirrors(s) /\ GatewayStep(d, s, u)
        /\ Path(GatewayLeads, GatewayStores, u, Tail(gatewayData), onChain)
  BY <1>1, <1>2, GatewayHead
<1>4. u = s
  BY <1>2, <1>3 DEF GatewayStep
<1>5. Mirrors(u)'
  BY <1>2, <1>3, <1>4 DEF Mirrors, MirrorsAt
<1> QED
  BY <1>2, <1>3, <1>5, GatewayHandled DEF GatewayInv, TypesInv

LEMMA UnbondingEndHandled ==
    ASSUME GatewayInv, HandleEventGatewayUnbondingEnd
    PROVE  GatewayInv'
<1>1. PICK d : d = Head(gatewayData)
  OBVIOUS
<1>2. /\ gatewayData # <<>> /\ d.kind = "unbondingEnd" /\ GatewayDone
      /\ gateways' = [gateways EXCEPT ![d.gateway] = ClosedRow]
      /\ delegations' = delegations \ undelegates /\ undelegates' = None
  BY <1>1 DEF HandleEventGatewayUnbondingEnd, Gateway, ClosedRow
<1>3. d \in GatewayData /\ d.gateway \in Gateways
  BY <1>1, <1>2, GatewayHead, GatewayFields
<1>4. PICK s \in GatewayStores, u \in GatewayStores :
        /\ Mirrors(s) /\ GatewayStep(d, s, u)
        /\ Path(GatewayLeads, GatewayStores, u, Tail(gatewayData), onChain)
  BY <1>1, <1>2, GatewayHead
<1>5. u = [s EXCEPT ![d.gateway] = None]
  BY <1>2, <1>4 DEF GatewayStep
<1>6. delegations \subseteq Apps \X Gateways /\ gateways \in [Gateways -> Row \cup {None}]
  BY DEF GatewayInv, TypesInv
<1>7. gateways' \in [Gateways -> Row \cup {None}]
  <2>1. ClosedRow \in Row
    BY DelegationsAssumption DEF ClosedRow, Row
  <2> QED
    BY <1>2, <1>6, <2>1
<1>8. ASSUME NEW g \in Gateways PROVE MirrorsAt(u, g)'
  <2>1. CASE g = d.gateway
    <3>1. u[g] = None /\ gateways'[g] = ClosedRow
      BY <1>2, <1>3, <1>4, <1>5, <1>6, <2>1 DEF GatewayStores
    <3> QED
      BY <3>1 DEF MirrorsAt
  <2>2. CASE g # d.gateway
    <3>1. u[g] = s[g] /\ gateways'[g] = gateways[g]
      BY <1>2, <1>4, <1>5, <1>6, <2>2 DEF GatewayStores
    <3> QED
      BY <1>4, <3>1 DEF Mirrors, MirrorsAt
  <2> QED
    BY <2>1, <2>2
<1>9. delegations' \subseteq Apps \X Gateways
  BY <1>2, <1>6
<1> QED
  BY <1>2, <1>4, <1>7, <1>8, <1>9, GatewayHandled DEF Mirrors

\* Whatever leaves the chain's gateways, their data and their rows alone.
LEMMA GatewaysApart ==
    ASSUME GatewayInv, UNCHANGED <<chainVars, gatewayData, gateways>>,
           delegations' \subseteq Apps \X Gateways,
           appData' \in Seq(AppData), pc' \in {"chain", "handle"},
           undelegates' = None \/ undelegates' \subseteq Apps \X Gateways,
           moving' = None \/ moving' \subseteq Gateways,
           statements' \subseteq {"create", "remove"}, moving' = None <=> statements' = {}
    PROVE  GatewayInv'
<1>1. UNCHANGED <<onChain, delegated, unbonded, ops, gatewayData, gateways>>
  BY DEF chainVars
<1>2. TypesInv'
  BY <1>1 DEF GatewayInv, TypesInv
<1>3. BehindInv'
  BY <1>1 DEF GatewayInv, BehindInv, Mirrors, MirrorsAt
<1> QED
  BY <1>2, <1>3 DEF GatewayInv

LEMMA GatewaysKept ==
    ASSUME GatewayInv, [Next]_vars
    PROVE  GatewayInv'
<1>1. /\ delegations \subseteq Apps \X Gateways /\ pc \in {"chain", "handle"}
      /\ undelegates = None \/ undelegates \subseteq Apps \X Gateways
      /\ moving = None \/ moving \subseteq Gateways
      /\ statements \subseteq {"create", "remove"} /\ appData \in Seq(AppData)
      /\ moving = None <=> statements = {}
      /\ appData # <<>> => Head(appData) \in AppData /\ Tail(appData) \in Seq(AppData)
  BY TailFacts DEF GatewayInv, TypesInv
<1>2. CASE BeginBlock \/ EndBlock \/ UNCHANGED vars
  BY <1>1, <1>2, GatewaysApart DEF BeginBlock, EndBlock, vars, chainVars, gatewayVars, appVars
<1>3. CASE GetUndelegatesForUnstakedGateway
  <2>1. undelegates' \subseteq Apps \X Gateways
        /\ UNCHANGED <<chainVars, gatewayData, gateways, appVars, pc, delegations>>
    BY <1>1, <1>3 DEF GetUndelegatesForUnstakedGateway
  <2> QED
    BY <1>1, <2>1, GatewaysApart DEF appVars
<1>4. CASE HandleDelegateToGatewayMsg
  <2>1. PICK d \in AppData : d = Head(appData) /\ d.kind = "delegate"
    BY <1>1, <1>4 DEF HandleDelegateToGatewayMsg, App
  <2>2. /\ appData # <<>> /\ AppDone /\ UNCHANGED <<moving, statements>>
        /\ delegations' = delegations \cup {<<d.app, d.gateway>>}
    BY <1>4, <2>1 DEF HandleDelegateToGatewayMsg, App
  <2>3. delegations' \subseteq Apps \X Gateways
    BY <1>1, <2>1, <2>2, AppFields
  <2> QED
    BY <1>1, <2>2, <2>3, GatewaysApart DEF AppDone, gatewayVars
<1>5. CASE HandleUndelegateFromGatewayMsg
  <2>1. /\ appData # <<>> /\ AppDone /\ UNCHANGED <<moving, statements>>
        /\ delegations' \subseteq delegations
    BY <1>5 DEF HandleUndelegateFromGatewayMsg, App
  <2> QED
    BY <1>1, <2>1, GatewaysApart DEF AppDone, gatewayVars
<1>6. CASE HandleApplicationUnbondingEndEvent
  <2>1. appData # <<>> /\ AppDone /\ UNCHANGED <<moving, statements, delegations>>
    BY <1>6 DEF HandleApplicationUnbondingEndEvent, App
  <2> QED
    BY <1>1, <2>1, GatewaysApart DEF AppDone, gatewayVars
<1>7. CASE FetchSourceApplicationGateways
  <2>1. /\ moving' \subseteq Gateways /\ statements' = {"create", "remove"}
        /\ UNCHANGED <<chainVars, gatewayVars, appData, pc, delegations>>
    BY <1>7 DEF FetchSourceApplicationGateways
  <2>2. moving' # None /\ statements' # {}
    BY <2>1, DelegationsAssumption
  <2> QED
    BY <1>1, <2>1, <2>2, GatewaysApart DEF gatewayVars
<1>8. ASSUME NEW statement \in {"create", "remove"}, HandleTransferApplicationEndEvent(statement)
      PROVE  GatewayInv'
  <2>1. PICK d \in AppData : d = Head(appData) /\ d.kind = "transferEnd"
    BY <1>1, <1>8 DEF HandleTransferApplicationEndEvent, App
  <2>2. /\ appData # <<>> /\ statements' \subseteq statements
        /\ delegations' = IF statement = "create" THEN delegations \cup ({d.to} \X moving)
                          ELSE delegations \ ({d.app} \X moving)
        /\ statement \in statements /\ statements' = statements \ {statement}
        /\ IF statements = {statement}
           THEN moving' = None /\ AppDone
           ELSE UNCHANGED <<moving, chainVars, gatewayVars, appData, pc>>
    BY <1>8, <2>1 DEF HandleTransferApplicationEndEvent, App
  <2>3. UNCHANGED <<chainVars, gatewayVars, pc>>
        /\ appData' \in Seq(AppData) /\ (moving' = None \/ moving' = moving)
        /\ (moving' = None <=> statements' = {}) /\ moving # None
    BY <1>1, <2>2 DEF AppDone
  <2>4. delegations' \subseteq Apps \X Gateways
    BY <1>1, <2>1, <2>2, <2>3, AppFields
  <2> QED
    BY <1>1, <2>2, <2>3, <2>4, GatewaysApart DEF gatewayVars
<1> QED
  BY <1>2, <1>3, <1>4, <1>5, <1>6, <1>7, <1>8, ChainKeepsGateways, StakeHandled, UnstakeHandled,
     UnbondingBeginHandled, UnbondingEndHandled DEF Next, Indexer

LEMMA NoDataNoLag ==
    ASSUME GatewayInv
    PROVE  GatewaysMatchChain
<1>1. SUFFICES ASSUME Indexed, NEW g \in Gateways
      PROVE  IF OnChain(g)
             THEN gateways[g] = [status |-> IF onChain[g].unstaking THEN "Unstaking" ELSE "Staked",
                                 stake |-> onChain[g].stake]
             ELSE gateways[g] \in {None, [status |-> "Unstaked", stake |-> 0]}
  BY DEF GatewaysMatchChain
<1>2. PICK s \in GatewayStores :
        Path(GatewayLeads, GatewayStores, s, gatewayData, onChain) /\ Mirrors(s)
  BY DEF GatewayInv, BehindInv
<1>3. s = onChain
  BY <1>1, <1>2, PathEmpty DEF Indexed
<1> QED
  BY <1>2, <1>3 DEF Mirrors, MirrorsAt, OnChain, StoredRow, ClosedRow

\* The rows of gateways follow the chain's store through the handlers of their
\* messages and events (indexStake's gateway data), whatever the applications'
\* handlers do between them.
THEOREM GatewaysCorrect == Spec => []GatewaysMatchChain
<1>1. Init => GatewayInv
  BY InitCorrect
<1>2. GatewayInv /\ [Next]_vars => GatewayInv'
  BY GatewaysKept
<1>3. GatewayInv => GatewaysMatchChain
  BY NoDataNoLag
<1> QED
  BY <1>1, <1>2, <1>3, PTL DEF Spec

-----------------------------------------------------------------------------
(* The invariant of delegations *)

AppStores == [pairs : SUBSET (Apps \X Gateways), unbonded : SUBSET Apps]

\* What a datum says the chain did to the delegations of its application.
AppStep(d, s, t) ==
    \/ /\ d.kind = "delegate"
       /\ t.pairs = s.pairs \cup {<<d.app, d.gateway>>} /\ t.unbonded = s.unbonded
    \/ /\ d.kind = "undelegate"
       /\ t.pairs = s.pairs \ {<<d.app, d.gateway>>} /\ t.unbonded = s.unbonded
    \/ /\ d.kind = "transferEnd" /\ d.app # d.to
       /\ \A g \in Gateways : <<d.to, g>> \notin s.pairs
       /\ t.pairs = (s.pairs \ ({d.app} \X Gateways))
                        \cup ({d.to} \X {g \in Gateways : <<d.app, g>> \in s.pairs})
       /\ t.unbonded = IF d.app \in s.unbonded THEN s.unbonded \cup {d.to} ELSE s.unbonded
    \/ /\ d.kind = "unbondingEnd"
       /\ t.pairs = s.pairs \ ({d.app} \X Gateways) /\ t.unbonded = s.unbonded \cup {d.app}

AppLeads == {x \in AppData \X AppStores \X AppStores : AppStep(x[1], x[2], x[3])}

\* The gateways whose removal the block has still to handle.
Ending(data) ==
    {g \in Gateways : \E d \in Elements(data) : d.kind = "unbondingEnd" /\ d.gateway = g}

\* The chain has removed the delegations to those as well.
EndsAt(t) == /\ delegated = t.pairs \ (Apps \X Ending(gatewayData))
             /\ unbonded = t.unbonded

\* Rows are kept for no application but those that unbonded.
Follows(rows, s) == s.pairs \subseteq rows /\ rows \ s.pairs \subseteq s.unbonded \X Gateways

\* The gateways the handler of a transfer reads.
ReadFor(rows, d) == {g \in Gateways : <<d.app, g>> \in rows}

\* The rows once the statements of a transfer but those left have run.
Transferred(rows, d, left) ==
    (rows \ (IF "remove" \in left THEN {} ELSE {d.app} \X Gateways))
        \cup (IF "create" \in left THEN {} ELSE {d.to} \X ReadFor(rows, d))

\* The rows before the transfer the indexer is at, if any.
RowsWere(rows) ==
    IF moving = None THEN delegations = rows
    ELSE /\ pc = "handle" /\ appData # <<>> /\ Head(appData).kind = "transferEnd"
         /\ moving = ReadFor(rows, Head(appData))
         /\ delegations = Transferred(rows, Head(appData), statements)

LeadInv ==
    \E s, t \in AppStores : \E rows \in SUBSET (Apps \X Gateways) :
        /\ Path(AppLeads, AppStores, s, appData, t) /\ EndsAt(t)
        /\ Follows(rows, s) /\ RowsWere(rows)

\* What keeps the two sequences apart.
ApartInv ==
    /\ Ending(gatewayData) # {} => \A e \in Elements(appData) : e.kind # "transferEnd"
    /\ \A e \in Elements(appData) : e.kind = "delegate" => e.gateway \notin Ending(gatewayData)
    /\ pc = "chain" => \A e \in Elements(appData) :
          /\ e.kind = "delegate"
          /\ onChain[e.gateway] # None /\ onChain[e.gateway].unstaking
          => [kind |-> "unbondingBegin", gateway |-> e.gateway] \in Elements(gatewayData)

ReadInv ==
    undelegates # None =>
        /\ pc = "handle" /\ gatewayData # <<>> /\ Head(gatewayData).kind = "unbondingEnd"
        /\ undelegates \subseteq Apps \X {Head(gatewayData).gateway}
        /\ delegations \cap (Apps \X {Head(gatewayData).gateway}) \subseteq undelegates

DelegationInv == GatewayInv /\ LeadInv /\ ApartInv /\ ReadInv

-----------------------------------------------------------------------------
(* Lemmas about delegations and their data *)

LEMMA IsAppStep ==
    ASSUME NEW d \in AppData, NEW s \in AppStores, NEW t \in AppStores
    PROVE  <<d, s, t>> \in AppLeads <=> AppStep(d, s, t)
<1>1. PICK x : x = <<d, s, t>>
  OBVIOUS
<1>2. x[1] = d /\ x[2] = s /\ x[3] = t /\ x \in AppData \X AppStores \X AppStores
  BY <1>1
<1>3. x \in AppLeads <=> AppStep(x[1], x[2], x[3])
  BY <1>2 DEF AppLeads
<1> QED
  BY <1>1, <1>2, <1>3

LEMMA AppStoreFields ==
    /\ \A s \in AppStores : s.pairs \subseteq Apps \X Gateways /\ s.unbonded \subseteq Apps
    /\ \A p \in SUBSET (Apps \X Gateways), u \in SUBSET Apps :
           \E s \in AppStores : s.pairs = p /\ s.unbonded = u
<1>1. ASSUME NEW s \in AppStores PROVE s.pairs \subseteq Apps \X Gateways /\ s.unbonded \subseteq Apps
  BY DEF AppStores
<1>2. ASSUME NEW p \in SUBSET (Apps \X Gateways), NEW u \in SUBSET Apps
      PROVE  \E s \in AppStores : s.pairs = p /\ s.unbonded = u
  <2>1. PICK s : s = [pairs |-> p, unbonded |-> u]
    OBVIOUS
  <2>2. s \in AppStores /\ s.pairs = p /\ s.unbonded = u
    BY <2>1 DEF AppStores
  <2> QED
    BY <2>2
<1> QED
  BY <1>1, <1>2

\* A block with no gateway to be removed.
LEMMA NoneEnding ==
    ASSUME GatewayInv
    PROVE  /\ Ending(gatewayData) # {} <=> InBlock(gatewayData, "unbondingEnd")
           /\ \A k : InBlock(appData, k) <=> \E e \in Elements(appData) : e.kind = k
<1>1. gatewayData \in Seq(GatewayData)
  BY DEF GatewayInv, TypesInv
<1>2. \A d \in Elements(gatewayData) : d.gateway \in Gateways
  BY <1>1, ElementsTyped, GatewayFields
<1>3. InBlock(gatewayData, "unbondingEnd") <=> \E d \in Elements(gatewayData) : d.kind = "unbondingEnd"
  BY DEF InBlock, Elements
<1>4. \A k : InBlock(appData, k) <=> \E e \in Elements(appData) : e.kind = k
  BY DEF InBlock, Elements
<1> QED
  BY <1>2, <1>3, <1>4 DEF Ending

LEMMA EndingAppend ==
    ASSUME NEW seq \in Seq(GatewayData), NEW d \in GatewayData
    PROVE  Ending(Append(seq, d)) = IF d.kind = "unbondingEnd" THEN Ending(seq) \cup {d.gateway}
                                    ELSE Ending(seq)
BY ElementsAppend, GatewayFields DEF Ending

LEMMA EndingTail ==
    ASSUME NEW seq \in Seq(GatewayData), seq # <<>>
    PROVE  Ending(seq) = IF Head(seq).kind = "unbondingEnd"
                         THEN Ending(Tail(seq)) \cup {Head(seq).gateway} ELSE Ending(Tail(seq))
<1>1. Elements(seq) = {Head(seq)} \cup Elements(Tail(seq)) /\ Head(seq) \in GatewayData
  BY ElementsTail, TailFacts
<1>2. Head(seq).gateway \in Gateways
  BY <1>1, GatewayFields
<1> QED
  BY <1>1, <1>2 DEF Ending

LEMMA InitLeads ==
    ASSUME Init
    PROVE  DelegationInv
<1>1. GatewayInv /\ gatewayData = <<>> /\ appData = <<>>
  BY InitCorrect DEF Init
<1>2. PICK s \in AppStores : s.pairs = {} /\ s.unbonded = {}
  BY AppStoreFields
<1>3. Path(AppLeads, AppStores, s, appData, s)
  BY <1>1, <1>2, PathEmpty
<1>4. Ending(gatewayData) = {} /\ Elements(appData) = {}
  BY <1>1, ElementsEmpty DEF Ending
<1>5. EndsAt(s)
  BY <1>2, <1>4 DEF EndsAt, Init
<1>6. Follows({}, s) /\ RowsWere({})
  BY <1>2 DEF Follows, RowsWere, Init
<1>7. LeadInv
  BY <1>2, <1>3, <1>5, <1>6 DEF LeadInv
<1>8. ApartInv /\ ReadInv
  BY <1>4 DEF ApartInv, ReadInv, Init
<1> QED
  BY <1>1, <1>7, <1>8 DEF DelegationInv

-----------------------------------------------------------------------------
(* The chain keeps the invariant of delegations *)

LEMMA TablesWait ==
    ASSUME DelegationInv, NEW g \in Seq(GatewayData), NEW a \in Seq(AppData), Emit(g, a)
    PROVE  /\ gatewayData' = gatewayData \o g /\ appData' = appData \o a
           /\ ReadInv' /\ \A rows : RowsWere(rows) => RowsWere(rows)'
<1>1. pc = "chain" /\ TypesInv
  BY DEF Emit, DelegationInv, GatewayInv
<1>2. UNCHANGED <<gateways, delegations, undelegates, moving, statements>>
      /\ gatewayData' = gatewayData \o g /\ appData' = appData \o a
  BY <1>1, EmitTypes
<1>3. undelegates = None
  BY <1>1 DEF DelegationInv, ReadInv
<1>4. ReadInv'
  BY <1>2, <1>3 DEF ReadInv
<1>5. ASSUME NEW rows, RowsWere(rows) PROVE RowsWere(rows)'
  BY <1>1, <1>2, <1>5 DEF RowsWere
<1> QED
  BY <1>2, <1>4, <1>5

LEMMA GatewayOperation ==
    ASSUME DelegationInv, NEW g \in Seq(GatewayData), Emit(g, <<>>), GatewayInv', ApartInv',
           unbonded' = unbonded, delegated' = delegated \ (Apps \X Ending(gatewayData')),
           Ending(gatewayData) \subseteq Ending(gatewayData')
    PROVE  DelegationInv'
<1>1. <<>> \in Seq(AppData) /\ appData \in Seq(AppData)
  BY EmptySeq DEF DelegationInv, GatewayInv, TypesInv
<1>2. appData' = appData
  BY <1>1, TablesWait, ConcatEmptySeq
<1>3. PICK s \in AppStores, t \in AppStores, rows \in SUBSET (Apps \X Gateways) :
        Path(AppLeads, AppStores, s, appData, t) /\ EndsAt(t) /\ Follows(rows, s) /\ RowsWere(rows)
  BY DEF DelegationInv, LeadInv
<1>4. EndsAt(t)'
  <2>1. delegated' = (t.pairs \ (Apps \X Ending(gatewayData))) \ (Apps \X Ending(gatewayData'))
    BY <1>3 DEF EndsAt
  <2>2. delegated' = t.pairs \ (Apps \X Ending(gatewayData'))
    BY <2>1
  <2> QED
    BY <1>3, <2>2 DEF EndsAt
<1>5. RowsWere(rows)' /\ ReadInv'
  BY <1>1, <1>3, TablesWait
<1>6. LeadInv'
  BY <1>2, <1>3, <1>4, <1>5 DEF LeadInv
<1> QED
  BY <1>5, <1>6 DEF DelegationInv

LEMMA AppOperation ==
    ASSUME DelegationInv, NEW d \in AppData, Emit(<<>>, <<d>>), GatewayInv', ApartInv',
           \A t \in AppStores : EndsAt(t) =>
               \E u \in AppStores : AppStep(d, t, u) /\ unbonded' = u.unbonded
                                    /\ delegated' = u.pairs \ (Apps \X Ending(gatewayData))
    PROVE  DelegationInv'
<1>1. <<>> \in Seq(GatewayData) /\ <<d>> \in Seq(AppData)
      /\ gatewayData \in Seq(GatewayData) /\ appData \in Seq(AppData)
  BY EmptySeq DEF DelegationInv, GatewayInv, TypesInv
<1>2. gatewayData' = gatewayData \o <<>> /\ appData' = appData \o <<d>>
  BY <1>1, TablesWait
<1>3. gatewayData' = gatewayData /\ appData' = Append(appData, d)
  BY <1>1, <1>2, ConcatEmptySeq, AppendIsConcat
<1>4. PICK s \in AppStores, t \in AppStores, rows \in SUBSET (Apps \X Gateways) :
        Path(AppLeads, AppStores, s, appData, t) /\ EndsAt(t) /\ Follows(rows, s) /\ RowsWere(rows)
  BY DEF DelegationInv, LeadInv
<1>5. PICK u \in AppStores : AppStep(d, t, u) /\ unbonded' = u.unbonded
                             /\ delegated' = u.pairs \ (Apps \X Ending(gatewayData))
  BY <1>4
<1>6. <<d, t, u>> \in AppLeads
  BY <1>4, <1>5, IsAppStep
<1>7. Path(AppLeads, AppStores, s, Append(appData, d), u)
  BY <1>1, <1>4, <1>6, PathAppend
<1>8. EndsAt(u)'
  BY <1>3, <1>5 DEF EndsAt
<1>9. RowsWere(rows)' /\ ReadInv'
  BY <1>1, <1>4, TablesWait
<1>10. LeadInv'
  BY <1>3, <1>4, <1>7, <1>8, <1>9 DEF LeadInv
<1> QED
  BY <1>9, <1>10 DEF DelegationInv

\* A gateway datum of a kind the data of applications do not ask about.
LEMMA StakeApart ==
    ASSUME DelegationInv, GatewayInv', ~Ended, pc = "chain",
           NEW g \in Gateways, NEW stake \in 1..MaxStake, appData' = appData,
           gatewayData' = Append(gatewayData, [kind |-> "stake", gateway |-> g, stake |-> stake]),
           onChain' = [onChain EXCEPT ![g] = [stake |-> stake, unstaking |-> FALSE]]
    PROVE  ApartInv' /\ Ending(gatewayData') = {} /\ Ending(gatewayData) = {}
<1>1. PICK d \in GatewayData : d = [kind |-> "stake", gateway |-> g, stake |-> stake]
  BY DEF GatewayData
<1>2. /\ gatewayData \in Seq(GatewayData) /\ appData \in Seq(AppData) /\ onChain \in GatewayStores
      /\ gatewayData' = Append(gatewayData, d) /\ d.kind = "stake"
  BY <1>1 DEF DelegationInv, GatewayInv, TypesInv
<1>3. Ending(gatewayData) = {}
  BY NoneEnding DEF Ended, DelegationInv
<1>4. Ending(gatewayData') = {}
  BY <1>2, <1>3, EndingAppend
<1>5. Elements(gatewayData') = Elements(gatewayData) \cup {d}
  BY <1>2, ElementsAppend
<1>6. ASSUME NEW e \in Elements(appData), e.kind = "delegate",
             onChain'[e.gateway] # None, onChain'[e.gateway].unstaking
      PROVE  [kind |-> "unbondingBegin", gateway |-> e.gateway] \in Elements(gatewayData')
  <2>1. e.gateway \in Gateways
    BY <1>2, <1>6, ElementsTyped, AppFields
  <2>2. e.gateway # g
    BY <1>2, <1>6, <2>1 DEF GatewayStores
  <2>3. onChain'[e.gateway] = onChain[e.gateway]
    BY <1>2, <2>1, <2>2 DEF GatewayStores
  <2> QED
    BY <1>5, <1>6, <2>3 DEF DelegationInv, ApartInv
<1> QED
  BY <1>3, <1>4, <1>6 DEF ApartInv

LEMMA UnstakeApart ==
    ASSUME DelegationInv, GatewayInv', ~Ended, pc = "chain", NEW g \in Gateways,
           gatewayData' = Append(Append(gatewayData, [kind |-> "unstake", gateway |-> g]),
                                 [kind |-> "unbondingBegin", gateway |-> g]),
           appData' = appData, onChain[g] # None,
           onChain' = [onChain EXCEPT ![g].unstaking = TRUE]
    PROVE  ApartInv' /\ Ending(gatewayData') = {} /\ Ending(gatewayData) = {}
<1>1. PICK d \in GatewayData, b \in GatewayData :
        d = [kind |-> "unstake", gateway |-> g] /\ b = [kind |-> "unbondingBegin", gateway |-> g]
  BY DEF GatewayData
<1>2. PICK mid \in Seq(GatewayData) : mid = Append(gatewayData, d)
  BY <1>1, AppendProperties DEF DelegationInv, GatewayInv, TypesInv
<1>3. /\ gatewayData \in Seq(GatewayData) /\ appData \in Seq(AppData) /\ onChain \in GatewayStores
      /\ gatewayData' = Append(mid, b) /\ d.kind = "unstake" /\ b.kind = "unbondingBegin"
  BY <1>1, <1>2 DEF DelegationInv, GatewayInv, TypesInv
<1>4. Ending(gatewayData) = {}
  BY NoneEnding DEF Ended, DelegationInv
<1>5. Ending(gatewayData') = {}
  <2>1. Ending(Append(gatewayData, d)) = Ending(gatewayData)
    BY <1>3, EndingAppend
  <2>2. Ending(Append(mid, b)) = Ending(mid)
    BY <1>3, EndingAppend
  <2> QED
    BY <1>2, <1>3, <1>4, <2>1, <2>2
<1>6. Elements(gatewayData') = Elements(gatewayData) \cup {d} \cup {b}
  <2>1. Elements(Append(gatewayData, d)) = Elements(gatewayData) \cup {d}
    BY <1>3, ElementsAppend
  <2>2. Elements(Append(mid, b)) = Elements(mid) \cup {b}
    BY ElementsAppend
  <2> QED
    BY <1>2, <1>3, <2>1, <2>2
<1>7. ASSUME NEW e \in Elements(appData), e.kind = "delegate",
             onChain'[e.gateway] # None, onChain'[e.gateway].unstaking
      PROVE  [kind |-> "unbondingBegin", gateway |-> e.gateway] \in Elements(gatewayData')
  <2>1. e.gateway \in Gateways
    BY <1>3, <1>7, ElementsTyped, AppFields
  <2>2. CASE e.gateway = g
    BY <1>1, <1>6, <2>2
  <2>3. CASE e.gateway # g
    <3>1. onChain'[e.gateway] = onChain[e.gateway]
      BY <1>3, <2>1, <2>3 DEF GatewayStores
    <3> QED
      BY <1>6, <1>7, <3>1 DEF DelegationInv, ApartInv
  <2> QED
    BY <2>2, <2>3
<1> QED
  BY <1>4, <1>5, <1>7 DEF ApartInv

LEMMA UnbondingEndApart ==
    ASSUME DelegationInv, GatewayInv', pc = "chain", NEW g \in Gateways,
           gatewayData' = Append(gatewayData, [kind |-> "unbondingEnd", gateway |-> g]),
           appData' = appData, onChain[g] # None, onChain[g].unstaking,
           [kind |-> "unbondingBegin", gateway |-> g] \notin Elements(gatewayData),
           ~InBlock(appData, "transferEnd"),
           onChain' = [onChain EXCEPT ![g] = None]
    PROVE  ApartInv' /\ Ending(gatewayData') = Ending(gatewayData) \cup {g}
<1>1. PICK d \in GatewayData : d = [kind |-> "unbondingEnd", gateway |-> g]
  BY DEF GatewayData
<1>2. /\ gatewayData \in Seq(GatewayData) /\ appData \in Seq(AppData) /\ onChain \in GatewayStores
      /\ gatewayData' = Append(gatewayData, d) /\ d.kind = "unbondingEnd" /\ d.gateway = g
  BY <1>1 DEF DelegationInv, GatewayInv, TypesInv
<1>3. Ending(gatewayData') = Ending(gatewayData) \cup {g}
  BY <1>2, EndingAppend
<1>4. \A e \in Elements(appData) : e.kind # "transferEnd"
  BY NoneEnding DEF DelegationInv
<1>5. \A e \in Elements(appData) : e.kind = "delegate" => e.gateway # g /\ e.gateway \in Gateways
  <2>1. \A e \in Elements(appData) : e.kind = "delegate" => e.gateway # g
    BY DEF DelegationInv, ApartInv
  <2> QED
    BY <1>2, <2>1, ElementsTyped, AppFields
<1>6. \A e \in Elements(appData) : e.kind = "delegate" => e.gateway \notin Ending(gatewayData')
  BY <1>3, <1>5 DEF DelegationInv, ApartInv
<1>7. Elements(gatewayData') = Elements(gatewayData) \cup {d}
  BY <1>2, ElementsAppend
<1>8. \A e \in Elements(appData) : e.kind = "delegate" => onChain'[e.gateway] = onChain[e.gateway]
  BY <1>2, <1>5 DEF GatewayStores
<1>9. \A e \in Elements(appData) :
          /\ e.kind = "delegate"
          /\ onChain'[e.gateway] # None /\ onChain'[e.gateway].unstaking
          => [kind |-> "unbondingBegin", gateway |-> e.gateway] \in Elements(gatewayData')
  BY <1>7, <1>8 DEF DelegationInv, ApartInv
<1> QED
  BY <1>3, <1>4, <1>6, <1>9 DEF ApartInv

LEMMA AppDatumApart ==
    ASSUME DelegationInv, GatewayInv', pc = "chain", NEW d \in AppData,
           gatewayData' = gatewayData, appData' = Append(appData, d), onChain' = onChain,
           d.kind = "transferEnd" => Ending(gatewayData) = {},
           d.kind = "delegate" => /\ Ending(gatewayData) = {}
                                  /\ onChain[d.gateway] # None /\ ~onChain[d.gateway].unstaking
    PROVE  ApartInv'
<1>1. appData \in Seq(AppData)
  BY DEF DelegationInv, GatewayInv, TypesInv
<1>2. Elements(appData') = Elements(appData) \cup {d}
  BY <1>1, ElementsAppend
<1>3. Ending(gatewayData)' = Ending(gatewayData) /\ Elements(gatewayData)' = Elements(gatewayData)
  OBVIOUS
<1>4. (Ending(gatewayData) # {} => \A e \in Elements(appData) : e.kind # "transferEnd")'
  BY <1>2, <1>3 DEF DelegationInv, ApartInv
<1>5. \A e \in Elements(appData') : e.kind = "delegate" => e.gateway \notin Ending(gatewayData)'
  BY <1>2, <1>3 DEF DelegationInv, ApartInv
<1>6. \A e \in Elements(appData') :
          /\ e.kind = "delegate"
          /\ onChain'[e.gateway] # None /\ onChain'[e.gateway].unstaking
          => [kind |-> "unbondingBegin", gateway |-> e.gateway] \in Elements(gatewayData')
  BY <1>2, <1>3 DEF DelegationInv, ApartInv
<1> QED
  BY <1>4, <1>5, <1>6 DEF ApartInv

LEMMA GatewayChainLeads ==
    ASSUME DelegationInv, EndTogether = FALSE, GatewayInv', NEW g \in Gateways,
           \/ \E stake \in 1..MaxStake : ChainStake(g, stake)
           \/ ChainUnstake(g) \/ ChainUnbondingEnd(g)
    PROVE  DelegationInv'
<1>1. /\ gatewayData \in Seq(GatewayData) /\ appData \in Seq(AppData) /\ <<>> \in Seq(AppData)
      /\ appData \o <<>> = appData
  BY EmptySeq, ConcatEmptySeq DEF DelegationInv, GatewayInv, TypesInv
<1>2. ASSUME NEW stake \in 1..MaxStake, ChainStake(g, stake)
      PROVE  DelegationInv'
  <2>1. PICK d \in GatewayData : d = [kind |-> "stake", gateway |-> g, stake |-> stake]
    BY DEF GatewayData
  <2>2. /\ ~Ended /\ Emit(<<d>>, <<>>) /\ UNCHANGED <<delegated, unbonded>> /\ pc = "chain"
        /\ onChain' = [onChain EXCEPT ![g] = [stake |-> stake, unstaking |-> FALSE]]
    BY <1>2, <2>1 DEF ChainStake, Emit
  <2>3. <<d>> \in Seq(GatewayData)
    OBVIOUS
  <2>4. gatewayData' = gatewayData \o <<d>> /\ appData' = appData
    BY <1>1, <2>2, <2>3, TablesWait
  <2>5. gatewayData' = Append(gatewayData, d)
    BY <1>1, <2>4, AppendIsConcat
  <2>6. ApartInv' /\ Ending(gatewayData') = {} /\ Ending(gatewayData) = {}
    BY <2>1, <2>2, <2>4, <2>5, StakeApart
  <2>7. delegated' = delegated \ (Apps \X Ending(gatewayData'))
    BY <2>2, <2>6
  <2> QED
    BY <2>2, <2>3, <2>6, <2>7, GatewayOperation
<1>3. ASSUME ChainUnstake(g) PROVE DelegationInv'
  <2>1. PICK d \in GatewayData, b \in GatewayData :
          d = [kind |-> "unstake", gateway |-> g] /\ b = [kind |-> "unbondingBegin", gateway |-> g]
    BY DEF GatewayData
  <2>2. /\ ~Ended /\ UNCHANGED <<delegated, unbonded>> /\ pc = "chain" /\ onChain[g] # None
        /\ onChain' = [onChain EXCEPT ![g].unstaking = TRUE]
    BY <1>3 DEF ChainUnstake, Emit, OnChain
  <2>3. Emit(<<d, b>>, <<>>)
    BY <1>3, <2>1 DEF ChainUnstake
  <2>4. <<d, b>> \in Seq(GatewayData)
    OBVIOUS
  <2>5. gatewayData' = gatewayData \o <<d, b>> /\ appData' = appData
    BY <1>1, <2>3, <2>4, TablesWait
  <2>6. gatewayData' = Append(Append(gatewayData, d), b)
    BY <1>1, <2>5, TwoInOrder
  <2>7. ApartInv' /\ Ending(gatewayData') = {} /\ Ending(gatewayData) = {}
    BY <2>1, <2>2, <2>5, <2>6, UnstakeApart
  <2>8. delegated' = delegated \ (Apps \X Ending(gatewayData'))
    BY <2>2, <2>7
  <2> QED
    BY <2>2, <2>3, <2>4, <2>7, <2>8, GatewayOperation
<1>4. ASSUME ChainUnbondingEnd(g) PROVE DelegationInv'
  <2>1. PICK d \in GatewayData : d = [kind |-> "unbondingEnd", gateway |-> g]
    BY DEF GatewayData
  <2>2. /\ Emit(<<d>>, <<>>) /\ unbonded' = unbonded /\ pc = "chain"
        /\ onChain[g] # None /\ onChain[g].unstaking
        /\ onChain' = [onChain EXCEPT ![g] = None] /\ delegated' = delegated \ (Apps \X {g})
    BY <1>4, <2>1 DEF ChainUnbondingEnd, Emit, OnChain
  <2>3. /\ ~InBlock(appData, "transferEnd")
        /\ [kind |-> "unbondingBegin", gateway |-> g] \notin Elements(gatewayData)
    BY <1>4 DEF ChainUnbondingEnd, Elements
  <2>4. <<d>> \in Seq(GatewayData)
    OBVIOUS
  <2>5. gatewayData' = gatewayData \o <<d>> /\ appData' = appData
    BY <1>1, <2>2, <2>4, TablesWait
  <2>6. gatewayData' = Append(gatewayData, d)
    BY <1>1, <2>5, AppendIsConcat
  <2>7. ApartInv' /\ Ending(gatewayData') = Ending(gatewayData) \cup {g}
    BY <2>1, <2>2, <2>3, <2>5, <2>6, UnbondingEndApart
  <2>8. delegated' = delegated \ (Apps \X Ending(gatewayData'))
    <3>1. PICK t \in AppStores : EndsAt(t)
      BY DEF DelegationInv, LeadInv
    <3> QED
      BY <2>2, <2>7, <3>1 DEF EndsAt
  <2> QED
    BY <2>2, <2>4, <2>7, <2>8, GatewayOperation
<1> QED
  BY <1>2, <1>3, <1>4

LEMMA DelegateLeads ==
    ASSUME DelegationInv, GatewayInv', NEW a \in Apps, NEW g \in Gateways,
           ChainDelegate(a, g) \/ ChainUndelegate(a, g)
    PROVE  DelegationInv'
<1>1. PICK d \in AppData : /\ d.app = a /\ d.gateway = g
                           /\ \/ d.kind = "delegate" /\ d = [kind |-> "delegate", app |-> a, gateway |-> g]
                                 /\ ChainDelegate(a, g)
                              \/ d.kind = "undelegate" /\ d = [kind |-> "undelegate", app |-> a, gateway |-> g]
                                 /\ ChainUndelegate(a, g)
  <2>1. [kind |-> "delegate", app |-> a, gateway |-> g] \in AppData
    BY DEF AppData
  <2>2. [kind |-> "undelegate", app |-> a, gateway |-> g] \in AppData
    BY DEF AppData
  <2> QED
    BY <2>1, <2>2
<1>2. /\ ~Ended /\ Emit(<<>>, <<d>>) /\ pc = "chain" /\ UNCHANGED <<onChain, unbonded>>
      /\ d.kind = "delegate" => onChain[g] # None /\ ~onChain[g].unstaking
      /\ delegated' = IF d.kind = "delegate" THEN delegated \cup {<<a, g>>} ELSE delegated \ {<<a, g>>}
  BY <1>1 DEF ChainDelegate, ChainUndelegate, Emit, OnChain
<1>3. /\ <<>> \in Seq(GatewayData) /\ <<d>> \in Seq(AppData)
      /\ gatewayData \in Seq(GatewayData) /\ appData \in Seq(AppData)
  BY EmptySeq DEF DelegationInv, GatewayInv, TypesInv
<1>4. gatewayData' = gatewayData \o <<>> /\ appData' = appData \o <<d>>
  BY <1>2, <1>3, TablesWait
<1>5. gatewayData' = gatewayData /\ appData' = Append(appData, d)
  BY <1>3, <1>4, ConcatEmptySeq, AppendIsConcat
<1>6. Ending(gatewayData) = {}
  BY <1>2, NoneEnding DEF Ended, DelegationInv
<1>7. ApartInv'
  BY <1>1, <1>2, <1>5, <1>6, AppDatumApart
<1>8. ASSUME NEW t \in AppStores, EndsAt(t)
      PROVE  \E u \in AppStores : AppStep(d, t, u) /\ unbonded' = u.unbonded
                                  /\ delegated' = u.pairs \ (Apps \X Ending(gatewayData))
  <2>1. delegated = t.pairs /\ unbonded = t.unbonded
    BY <1>6, <1>8 DEF EndsAt
  <2>2. delegated' \subseteq Apps \X Gateways /\ t.unbonded \subseteq Apps
    BY AppStoreFields DEF GatewayInv, TypesInv
  <2>3. PICK u \in AppStores : u.pairs = delegated' /\ u.unbonded = t.unbonded
    BY <2>2, AppStoreFields
  <2>4. AppStep(d, t, u)
    BY <1>1, <1>2, <2>1, <2>3 DEF AppStep
  <2> QED
    BY <1>2, <1>6, <2>1, <2>3, <2>4
<1> QED
  BY <1>2, <1>7, <1>8, AppOperation

LEMMA PairsOf ==
    \A b, S : {<<b, g>> : g \in S} = {b} \X S
<1>1. SUFFICES ASSUME NEW b, NEW S PROVE {<<b, g>> : g \in S} = {b} \X S
  OBVIOUS
<1>2. ASSUME NEW x \in {b} \X S PROVE x \in {<<b, g>> : g \in S}
  <2>1. x = <<b, x[2]>> /\ x[2] \in S
    OBVIOUS
  <2> QED
    BY <2>1
<1>3. ASSUME NEW x \in {<<b, g>> : g \in S} PROVE x \in {b} \X S
  <2>1. PICK g \in S : x = <<b, g>>
    OBVIOUS
  <2> QED
    BY <2>1
<1> QED
  BY <1>2, <1>3

LEMMA TransferLeads ==
    ASSUME DelegationInv, EndTogether = FALSE, GatewayInv', NEW a \in Apps, NEW b \in Apps,
           ChainTransferEnd(a, b)
    PROVE  DelegationInv'
<1>1. PICK d \in AppData : d = [kind |-> "transferEnd", app |-> a, to |-> b]
  BY DEF AppData
<1>2. /\ Emit(<<>>, <<d>>) /\ pc = "chain" /\ onChain' = onChain /\ a # b
      /\ \A g \in Gateways : <<b, g>> \notin delegated
  BY <1>1 DEF ChainTransferEnd, Emit
<1>3. /\ delegated' = (delegated \ ({a} \X Gateways))
                          \cup {<<b, g>> : g \in {g \in Gateways : <<a, g>> \in delegated}}
      /\ unbonded' = IF a \in unbonded THEN unbonded \cup {b} ELSE unbonded
      /\ ~InBlock(gatewayData, "unbondingEnd")
  BY DEF ChainTransferEnd
<1>4. /\ <<>> \in Seq(GatewayData) /\ <<d>> \in Seq(AppData)
      /\ gatewayData \in Seq(GatewayData) /\ appData \in Seq(AppData)
  BY EmptySeq DEF DelegationInv, GatewayInv, TypesInv
<1>5. gatewayData' = gatewayData \o <<>> /\ appData' = appData \o <<d>>
  BY <1>2, <1>4, TablesWait
<1>6. gatewayData' = gatewayData /\ appData' = Append(appData, d)
  BY <1>4, <1>5, ConcatEmptySeq, AppendIsConcat
<1>7. Ending(gatewayData) = {}
  BY <1>3, NoneEnding DEF DelegationInv
<1>8. d.kind = "transferEnd" /\ d.app = a /\ d.to = b
  BY <1>1
<1>9. ApartInv'
  BY <1>2, <1>6, <1>7, <1>8, AppDatumApart
<1>10. ASSUME NEW t \in AppStores, EndsAt(t)
      PROVE  \E u \in AppStores : AppStep(d, t, u) /\ unbonded' = u.unbonded
                                  /\ delegated' = u.pairs \ (Apps \X Ending(gatewayData))
  <2>1. delegated = t.pairs /\ unbonded = t.unbonded
    BY <1>7, <1>10 DEF EndsAt
  <2>2. delegated' \in SUBSET (Apps \X Gateways) /\ unbonded' \in SUBSET Apps
    BY DEF GatewayInv, TypesInv
  <2>3. PICK u \in AppStores : u.pairs = delegated' /\ u.unbonded = unbonded'
    BY <2>2, AppStoreFields
  <2>4. {<<b, g>> : g \in {g \in Gateways : <<a, g>> \in delegated}}
            = {b} \X {g \in Gateways : <<a, g>> \in delegated}
    BY PairsOf
  <2>5. AppStep(d, t, u)
    BY <1>2, <1>3, <1>8, <2>1, <2>3, <2>4 DEF AppStep
  <2> QED
    BY <1>7, <2>3, <2>5
<1> QED
  BY <1>2, <1>9, <1>10, AppOperation

LEMMA AppUnbondingLeads ==
    ASSUME DelegationInv, GatewayInv', NEW a \in Apps, ChainAppUnbondingEnd(a)
    PROVE  DelegationInv'
<1>1. PICK d \in AppData : d = [kind |-> "unbondingEnd", app |-> a]
  BY DEF AppData
<1>2. /\ Emit(<<>>, <<d>>) /\ pc = "chain" /\ onChain' = onChain
      /\ delegated' = delegated \ ({a} \X Gateways) /\ unbonded' = unbonded \cup {a}
  BY <1>1 DEF ChainAppUnbondingEnd, Emit
<1>3. /\ <<>> \in Seq(GatewayData) /\ <<d>> \in Seq(AppData)
      /\ gatewayData \in Seq(GatewayData) /\ appData \in Seq(AppData)
  BY EmptySeq DEF DelegationInv, GatewayInv, TypesInv
<1>4. gatewayData' = gatewayData \o <<>> /\ appData' = appData \o <<d>>
  BY <1>2, <1>3, TablesWait
<1>5. gatewayData' = gatewayData /\ appData' = Append(appData, d)
  BY <1>3, <1>4, ConcatEmptySeq, AppendIsConcat
<1>6. d.kind = "unbondingEnd" /\ d.app = a
  BY <1>1
<1>7. ApartInv'
  BY <1>2, <1>5, <1>6, AppDatumApart
<1>8. ASSUME NEW t \in AppStores, EndsAt(t)
      PROVE  \E u \in AppStores : AppStep(d, t, u) /\ unbonded' = u.unbonded
                                  /\ delegated' = u.pairs \ (Apps \X Ending(gatewayData))
  <2>1. delegated = t.pairs \ (Apps \X Ending(gatewayData)) /\ unbonded = t.unbonded
    BY <1>8 DEF EndsAt
  <2>2. t.pairs \ ({a} \X Gateways) \in SUBSET (Apps \X Gateways)
        /\ t.unbonded \cup {a} \in SUBSET Apps
    BY AppStoreFields
  <2>3. PICK u \in AppStores : u.pairs = t.pairs \ ({a} \X Gateways) /\ u.unbonded = t.unbonded \cup {a}
    BY <2>2, AppStoreFields
  <2>4. AppStep(d, t, u)
    BY <1>6, <2>3 DEF AppStep
  <2>5. delegated' = u.pairs \ (Apps \X Ending(gatewayData))
    BY <1>2, <2>1, <2>3
  <2> QED
    BY <1>2, <2>1, <2>3, <2>4, <2>5
<1> QED
  BY <1>2, <1>7, <1>8, AppOperation

LEMMA ChainLeads ==
    ASSUME DelegationInv, EndTogether = FALSE, Chain
    PROVE  DelegationInv'
<1>1. GatewayInv'
  BY ChainKeepsGateways DEF DelegationInv
<1> QED
  BY <1>1, GatewayChainLeads, DelegateLeads, TransferLeads, AppUnbondingLeads DEF Chain

-----------------------------------------------------------------------------
(* The application handlers keep the invariant of delegations *)

\* The rows an application handler leaves follow the store its datum leads to.
RowsAfter(rows, d) ==
    CASE d.kind = "delegate" -> rows \cup {<<d.app, d.gateway>>}
      [] d.kind = "undelegate" -> rows \ {<<d.app, d.gateway>>}
      [] d.kind = "transferEnd" -> Transferred(rows, d, {})
      [] OTHER -> rows

LEMMA TransferFollows ==
    ASSUME NEW d \in AppData, d.kind = "transferEnd", NEW s \in AppStores, NEW u \in AppStores,
           AppStep(d, s, u), NEW rows \in SUBSET (Apps \X Gateways), Follows(rows, s)
    PROVE  Follows(Transferred(rows, d, {}), u)
<1>1. d.app \in Apps /\ d.to \in Apps
  BY AppFields
<1>2. /\ d.app # d.to /\ \A g \in Gateways : <<d.to, g>> \notin s.pairs
      /\ u.pairs = (s.pairs \ ({d.app} \X Gateways))
                        \cup ({d.to} \X {g \in Gateways : <<d.app, g>> \in s.pairs})
      /\ u.unbonded = IF d.app \in s.unbonded THEN s.unbonded \cup {d.to} ELSE s.unbonded
  BY DEF AppStep
<1>3. PICK after : after = (rows \ ({d.app} \X Gateways))
                               \cup ({d.to} \X {g \in Gateways : <<d.app, g>> \in rows})
  OBVIOUS
<1>4. Transferred(rows, d, {}) = after
  BY <1>3 DEF Transferred, ReadFor
<1>5. s.pairs \subseteq rows /\ rows \ s.pairs \subseteq s.unbonded \X Gateways
      /\ s.pairs \subseteq Apps \X Gateways
  BY AppStoreFields DEF Follows
<1>6. after \subseteq Apps \X Gateways /\ u.pairs \subseteq Apps \X Gateways
  BY <1>1, <1>3, AppStoreFields
<1>7. u.pairs \subseteq after
  BY <1>2, <1>3, <1>5
<1>8. ASSUME NEW a \in Apps, NEW g \in Gateways, <<a, g>> \in after, <<a, g>> \notin u.pairs
      PROVE  a \in u.unbonded
  <2>1. CASE a = d.to
    <3>1. CASE <<d.app, g>> \in rows
      <4>1. <<d.app, g>> \notin s.pairs
        BY <1>2, <1>8, <2>1
      <4>2. d.app \in s.unbonded
        BY <1>5, <3>1, <4>1
      <4> QED
        BY <1>2, <2>1, <4>2
    <3>2. CASE <<d.app, g>> \notin rows
      <4>1. <<a, g>> \in rows
        BY <1>3, <1>8, <3>2
      <4>2. <<a, g>> \notin s.pairs
        BY <1>2, <2>1
      <4>3. a \in s.unbonded
        BY <1>5, <4>1, <4>2
      <4> QED
        BY <1>2, <4>3
    <3> QED
      BY <3>1, <3>2
  <2>2. CASE a # d.to
    <3>1. <<a, g>> \in rows /\ a # d.app
      BY <1>3, <1>8, <2>2
    <3>2. <<a, g>> \notin s.pairs
      BY <1>2, <1>8, <3>1
    <3>3. a \in s.unbonded
      BY <1>5, <3>1, <3>2
    <3> QED
      BY <1>2, <3>3
  <2> QED
    BY <2>1, <2>2
<1>9. after \ u.pairs \subseteq u.unbonded \X Gateways
  <2>1. SUFFICES ASSUME NEW x \in after, x \notin u.pairs PROVE x \in u.unbonded \X Gateways
    OBVIOUS
  <2>2. PICK a \in Apps, g \in Gateways : x = <<a, g>>
    BY <1>6, <2>1
  <2> QED
    BY <1>8, <2>1, <2>2
<1> QED
  BY <1>4, <1>7, <1>9 DEF Follows

LEMMA RowsFollow ==
    ASSUME NEW d \in AppData, NEW s \in AppStores, NEW u \in AppStores,
           AppStep(d, s, u), NEW rows \in SUBSET (Apps \X Gateways), Follows(rows, s)
    PROVE  Follows(RowsAfter(rows, d), u)
<1>1. s.pairs \subseteq rows /\ rows \ s.pairs \subseteq s.unbonded \X Gateways
      /\ s.pairs \subseteq Apps \X Gateways
  BY AppStoreFields DEF Follows
<1>2. CASE d.kind = "delegate"
  <2>1. u.pairs = s.pairs \cup {<<d.app, d.gateway>>} /\ u.unbonded = s.unbonded
        /\ RowsAfter(rows, d) = rows \cup {<<d.app, d.gateway>>}
    BY <1>2 DEF AppStep, RowsAfter
  <2> QED
    BY <1>1, <2>1 DEF Follows
<1>3. CASE d.kind = "undelegate"
  <2>1. u.pairs = s.pairs \ {<<d.app, d.gateway>>} /\ u.unbonded = s.unbonded
        /\ RowsAfter(rows, d) = rows \ {<<d.app, d.gateway>>}
    BY <1>3 DEF AppStep, RowsAfter
  <2> QED
    BY <1>1, <2>1 DEF Follows
<1>4. CASE d.kind = "transferEnd"
  <2>1. RowsAfter(rows, d) = Transferred(rows, d, {})
    BY <1>4 DEF RowsAfter
  <2> QED
    BY <1>4, <2>1, TransferFollows
<1>5. CASE d.kind = "unbondingEnd"
  <2>1. u.pairs = s.pairs \ ({d.app} \X Gateways) /\ u.unbonded = s.unbonded \cup {d.app}
        /\ RowsAfter(rows, d) = rows
    BY <1>5 DEF AppStep, RowsAfter
  <2>2. rows \ u.pairs \subseteq u.unbonded \X Gateways
    BY <1>1, <2>1
  <2> QED
    BY <1>1, <2>1, <2>2 DEF Follows
<1> QED
  BY <1>2, <1>3, <1>4, <1>5, AppFields

LEMMA AppHandled ==
    ASSUME DelegationInv, GatewayInv', appData # <<>>, AppDone, moving' = None,
           \A rows \in SUBSET (Apps \X Gateways) :
               RowsWere(rows) => delegations' = RowsAfter(rows, Head(appData)),
           undelegates # None =>
               delegations' \cap (Apps \X {Head(gatewayData).gateway}) \subseteq undelegates
    PROVE  DelegationInv'
<1>1. PICK s \in AppStores, t \in AppStores, rows \in SUBSET (Apps \X Gateways) :
        Path(AppLeads, AppStores, s, appData, t) /\ EndsAt(t) /\ Follows(rows, s) /\ RowsWere(rows)
  BY DEF DelegationInv, LeadInv
<1>2. appData \in Seq(AppData) /\ delegations' \in SUBSET (Apps \X Gateways)
  BY DEF DelegationInv, GatewayInv, TypesInv
<1>3. Head(appData) \in AppData
  BY <1>2, TailFacts
<1>4. PICK u \in AppStores : <<Head(appData), s, u>> \in AppLeads
                             /\ Path(AppLeads, AppStores, u, Tail(appData), t)
  BY <1>1, <1>2, PathHead
<1>5. AppStep(Head(appData), s, u)
  BY <1>1, <1>3, <1>4, IsAppStep
<1>6. Follows(delegations', u)
  BY <1>1, <1>3, <1>4, <1>5, RowsFollow
<1>7. /\ appData' = Tail(appData)
      /\ UNCHANGED <<onChain, delegated, unbonded, gatewayData, gateways, undelegates, pc>>
  BY DEF AppDone, chainVars, gatewayVars
<1>8. EndsAt(t)'
  BY <1>1, <1>7 DEF EndsAt
<1>9. PICK left \in SUBSET (Apps \X Gateways) : left = delegations'
  BY <1>2
<1>10. RowsWere(left)'
  BY <1>9 DEF RowsWere
<1>11. LeadInv'
  BY <1>1, <1>4, <1>6, <1>7, <1>8, <1>9, <1>10 DEF LeadInv
<1>12. Elements(appData') \subseteq Elements(appData)
  BY <1>2, <1>7, ElementsTail
<1>13. ApartInv'
  BY <1>7, <1>12 DEF DelegationInv, ApartInv
<1>14. ReadInv'
  BY <1>7 DEF DelegationInv, ReadInv
<1> QED
  BY <1>11, <1>13, <1>14 DEF DelegationInv

\* While the rows of a gateway are being removed its removal is still listed.
LEMMA EndingRead ==
    ASSUME DelegationInv, undelegates # None
    PROVE  Head(gatewayData).gateway \in Ending(gatewayData)
BY EndingTail DEF DelegationInv, GatewayInv, TypesInv, ReadInv

LEMMA NotMoving ==
    ASSUME DelegationInv, appData # <<>>, Head(appData).kind # "transferEnd"
    PROVE  moving = None /\ \A rows : RowsWere(rows) => delegations = rows
<1>1. PICK rows : RowsWere(rows)
  BY DEF DelegationInv, LeadInv
<1> QED
  BY <1>1 DEF RowsWere

LEMMA HeadOfAppData ==
    ASSUME DelegationInv, appData # <<>>
    PROVE  Head(appData) \in AppData /\ Head(appData) \in Elements(appData)
<1>1. appData \in Seq(AppData)
  BY DEF DelegationInv, GatewayInv, TypesInv
<1> QED
  BY <1>1, TailFacts, ElementsTail

LEMMA DelegateHandled ==
    ASSUME DelegationInv, GatewayInv', HandleDelegateToGatewayMsg
    PROVE  DelegationInv'
<1>1. PICK d : d = Head(appData)
  OBVIOUS
<1>2. /\ appData # <<>> /\ d.kind = "delegate" /\ AppDone /\ moving' = moving
      /\ delegations' = delegations \cup {<<d.app, d.gateway>>}
  BY <1>1 DEF HandleDelegateToGatewayMsg, App
<1>3. moving = None /\ \A rows : RowsWere(rows) => delegations = rows
  BY <1>1, <1>2, NotMoving
<1>4. \A rows \in SUBSET (Apps \X Gateways) :
          RowsWere(rows) => delegations' = RowsAfter(rows, Head(appData))
  BY <1>1, <1>2, <1>3 DEF RowsAfter
<1>5. ASSUME undelegates # None
      PROVE  delegations' \cap (Apps \X {Head(gatewayData).gateway}) \subseteq undelegates
  <2>1. Head(gatewayData).gateway \in Ending(gatewayData)
    BY <1>5, EndingRead
  <2>2. d.gateway # Head(gatewayData).gateway
    BY <1>1, <1>2, <2>1, HeadOfAppData DEF DelegationInv, ApartInv
  <2>3. delegations \cap (Apps \X {Head(gatewayData).gateway}) \subseteq undelegates
    BY <1>5 DEF DelegationInv, ReadInv
  <2> QED
    BY <1>2, <2>2, <2>3
<1> QED
  BY <1>2, <1>3, <1>4, <1>5, AppHandled

LEMMA UndelegateHandled ==
    ASSUME DelegationInv, GatewayInv', HandleUndelegateFromGatewayMsg
    PROVE  DelegationInv'
<1>1. PICK d : d = Head(appData)
  OBVIOUS
<1>2. /\ appData # <<>> /\ d.kind = "undelegate" /\ AppDone /\ moving' = moving
      /\ delegations' = delegations \ {<<d.app, d.gateway>>}
  BY <1>1 DEF HandleUndelegateFromGatewayMsg, App
<1>3. moving = None /\ \A rows : RowsWere(rows) => delegations = rows
  BY <1>1, <1>2, NotMoving
<1>4. \A rows \in SUBSET (Apps \X Gateways) :
          RowsWere(rows) => delegations' = RowsAfter(rows, Head(appData))
  BY <1>1, <1>2, <1>3 DEF RowsAfter
<1>5. undelegates # None =>
          delegations' \cap (Apps \X {Head(gatewayData).gateway}) \subseteq undelegates
  BY <1>2 DEF DelegationInv, ReadInv
<1> QED
  BY <1>2, <1>3, <1>4, <1>5, AppHandled

LEMMA AppUnbondingHandled ==
    ASSUME DelegationInv, GatewayInv', HandleApplicationUnbondingEndEvent
    PROVE  DelegationInv'
<1>1. /\ appData # <<>> /\ Head(appData).kind = "unbondingEnd" /\ AppDone
      /\ moving' = moving /\ delegations' = delegations
  BY DEF HandleApplicationUnbondingEndEvent, App
<1>2. moving = None /\ \A rows : RowsWere(rows) => delegations = rows
  BY <1>1, NotMoving
<1>3. \A rows \in SUBSET (Apps \X Gateways) :
          RowsWere(rows) => delegations' = RowsAfter(rows, Head(appData))
  BY <1>1, <1>2 DEF RowsAfter
<1>4. undelegates # None =>
          delegations' \cap (Apps \X {Head(gatewayData).gateway}) \subseteq undelegates
  BY <1>1 DEF DelegationInv, ReadInv
<1> QED
  BY <1>1, <1>2, <1>3, <1>4, AppHandled

\* No gateway is being removed while a transfer is to be handled.
LEMMA TransferAlone ==
    ASSUME DelegationInv, appData # <<>>, Head(appData).kind = "transferEnd"
    PROVE  undelegates = None
<1>1. Ending(gatewayData) = {}
  BY HeadOfAppData DEF DelegationInv, ApartInv
<1> QED
  BY <1>1, EndingRead

LEMMA FetchHandled ==
    ASSUME DelegationInv, GatewayInv', FetchSourceApplicationGateways
    PROVE  DelegationInv'
<1>1. /\ pc = "handle" /\ appData # <<>> /\ Head(appData).kind = "transferEnd" /\ moving = None
      /\ moving' = {g \in Gateways : <<Head(appData).app, g>> \in delegations}
      /\ statements' = {"create", "remove"}
      /\ UNCHANGED <<onChain, delegated, unbonded, gatewayData, undelegates, appData, pc, delegations>>
  BY DEF FetchSourceApplicationGateways, App, chainVars, gatewayVars
<1>2. PICK s \in AppStores, t \in AppStores, rows \in SUBSET (Apps \X Gateways) :
        Path(AppLeads, AppStores, s, appData, t) /\ EndsAt(t) /\ Follows(rows, s) /\ RowsWere(rows)
  BY DEF DelegationInv, LeadInv
<1>3. delegations = rows
  BY <1>1, <1>2 DEF RowsWere
<1>4. Transferred(rows, Head(appData), {"create", "remove"}) = rows
  BY DEF Transferred
<1>5. moving' # None
  BY <1>1, DelegationsAssumption
<1>6. RowsWere(rows)'
  BY <1>1, <1>3, <1>4, <1>5 DEF RowsWere, ReadFor
<1>7. EndsAt(t)'
  BY <1>1, <1>2 DEF EndsAt
<1>8. LeadInv'
  BY <1>1, <1>2, <1>6, <1>7 DEF LeadInv
<1>9. ApartInv' /\ ReadInv'
  BY <1>1 DEF DelegationInv, ApartInv, ReadInv
<1> QED
  BY <1>8, <1>9 DEF DelegationInv

\* A statement of the transfer, whichever the other.
LEMMA StatementRuns ==
    ASSUME NEW rows, NEW d, d.app # d.to, NEW left, NEW statement \in left
    PROVE  /\ statement = "create" =>
                Transferred(rows, d, left) \cup ({d.to} \X ReadFor(rows, d))
                    = Transferred(rows, d, left \ {statement})
           /\ statement = "remove" =>
                Transferred(rows, d, left) \ ({d.app} \X ReadFor(rows, d))
                    = Transferred(rows, d, left \ {statement})
<1>1. PICK read : read = ReadFor(rows, d) /\ read = {g \in Gateways : <<d.app, g>> \in rows}
  BY DEF ReadFor
<1>2. PICK taken, given : /\ taken = (IF "remove" \in left THEN {} ELSE {d.app} \X Gateways)
                          /\ given = (IF "create" \in left THEN {} ELSE {d.to} \X read)
  OBVIOUS
<1>3. Transferred(rows, d, left) = (rows \ taken) \cup given
  BY <1>1, <1>2 DEF Transferred
<1>4. CASE statement = "create"
  <2>1. Transferred(rows, d, left \ {"create"}) = (rows \ taken) \cup ({d.to} \X read)
    BY <1>1, <1>2 DEF Transferred
  <2>2. given = {}
    BY <1>2, <1>4
  <2> QED
    BY <1>1, <1>3, <1>4, <2>1, <2>2
<1>5. CASE statement = "remove"
  <2>1. Transferred(rows, d, left \ {"remove"}) = (rows \ ({d.app} \X Gateways)) \cup given
    BY <1>1, <1>2 DEF Transferred
  <2>2. taken = {}
    BY <1>2, <1>5
  <2>3. rows \ ({d.app} \X Gateways) = rows \ ({d.app} \X read)
    BY <1>1
  <2>4. given \cap ({d.app} \X read) = {}
    BY <1>2
  <2> QED
    BY <1>1, <1>3, <1>5, <2>1, <2>2, <2>3, <2>4
<1> QED
  BY <1>4, <1>5

LEMMA TransferHandled ==
    ASSUME DelegationInv, GatewayInv', NEW statement \in {"create", "remove"},
           HandleTransferApplicationEndEvent(statement)
    PROVE  DelegationInv'
<1>1. PICK d : d = Head(appData)
  OBVIOUS
<1>2. /\ pc = "handle" /\ appData # <<>> /\ d.kind = "transferEnd" /\ statement \in statements
      /\ statements' = statements \ {statement}
      /\ delegations' = IF statement = "create" THEN delegations \cup ({d.to} \X moving)
                        ELSE delegations \ ({d.app} \X moving)
      /\ IF statements = {statement}
         THEN moving' = None /\ AppDone
         ELSE UNCHANGED <<moving, chainVars, gatewayVars, appData, pc>>
  BY <1>1 DEF HandleTransferApplicationEndEvent, App
<1>3. PICK s \in AppStores, t \in AppStores, rows \in SUBSET (Apps \X Gateways) :
        Path(AppLeads, AppStores, s, appData, t) /\ EndsAt(t) /\ Follows(rows, s) /\ RowsWere(rows)
  BY DEF DelegationInv, LeadInv
<1>4. moving # None /\ statements \subseteq {"create", "remove"} /\ undelegates = None /\ d \in AppData
      /\ appData \in Seq(AppData)
  BY <1>1, <1>2, TransferAlone, HeadOfAppData DEF DelegationInv, GatewayInv, TypesInv
<1>5. d.app # d.to
  <2>1. PICK u \in AppStores : <<d, s, u>> \in AppLeads
    BY <1>1, <1>2, <1>3, <1>4, PathHead
  <2>2. AppStep(d, s, u)
    BY <1>3, <1>4, <2>1, IsAppStep
  <2> QED
    BY <1>2, <2>2 DEF AppStep
<1>6. ASSUME NEW before \in SUBSET (Apps \X Gateways), RowsWere(before)
      PROVE  delegations' = Transferred(before, d, statements \ {statement})
             /\ moving = ReadFor(before, d)
  <2>1. moving = ReadFor(before, d)
        /\ delegations = Transferred(before, d, statements)
    BY <1>1, <1>4, <1>6 DEF RowsWere
  <2>2. /\ statement = "create" => Transferred(before, d, statements) \cup ({d.to} \X moving)
                                    = Transferred(before, d, statements \ {statement})
        /\ statement = "remove" => Transferred(before, d, statements) \ ({d.app} \X moving)
                                    = Transferred(before, d, statements \ {statement})
    <3>1. statement \in statements
      BY <1>2
    <3> QED
      BY <1>5, <2>1, <3>1, StatementRuns
  <2> QED
    BY <1>2, <2>1, <2>2
<1>7. CASE statements = {statement}
  <2>1. moving' = None /\ AppDone /\ statements \ {statement} = {}
    BY <1>2, <1>7
  <2>2. \A before \in SUBSET (Apps \X Gateways) :
            RowsWere(before) => delegations' = RowsAfter(before, Head(appData))
    BY <1>1, <1>2, <1>6, <2>1 DEF RowsAfter
  <2> QED
    BY <1>2, <1>4, <2>1, <2>2, AppHandled
<1>8. CASE statements # {statement}
  <2>1. UNCHANGED <<moving, onChain, delegated, unbonded, gatewayData, undelegates, appData, pc>>
    BY <1>2, <1>8 DEF chainVars, gatewayVars
  <2>2. RowsWere(rows)'
    <3>1. delegations' = Transferred(rows, d, statements \ {statement})
          /\ moving = ReadFor(rows, d)
      BY <1>3, <1>6
    <3>2. /\ pc' = "handle" /\ appData' # <<>> /\ d = Head(appData') /\ d.kind = "transferEnd"
          /\ moving' = moving /\ moving' # None /\ statements' = statements \ {statement}
      BY <1>1, <1>2, <1>4, <2>1
    <3> QED
      BY <3>1, <3>2 DEF RowsWere
  <2>3. EndsAt(t)'
    BY <1>3, <2>1 DEF EndsAt
  <2>4. LeadInv'
    BY <1>3, <2>1, <2>2, <2>3 DEF LeadInv
  <2>5. ApartInv' /\ ReadInv'
    BY <1>4, <2>1 DEF DelegationInv, ApartInv, ReadInv
  <2> QED
    BY <2>4, <2>5 DEF DelegationInv
<1> QED
  BY <1>7, <1>8

-----------------------------------------------------------------------------
(* The gateway handlers keep the invariant of delegations *)

\* A store of the chain without the delegations to a gateway.
Without(s, g) == [pairs |-> s.pairs \ (Apps \X {g}), unbonded |-> s.unbonded]

LEMMA WithoutFields ==
    ASSUME NEW s \in AppStores, NEW g \in Gateways
    PROVE  /\ Without(s, g) \in AppStores
           /\ Without(s, g).pairs = s.pairs \ (Apps \X {g}) /\ Without(s, g).unbonded = s.unbonded
BY DEF AppStores, Without

LEMMA StepWithout ==
    ASSUME NEW d \in AppData, NEW s \in AppStores, NEW t \in AppStores, NEW g \in Gateways,
           AppStep(d, s, t), d.kind = "delegate" => d.gateway # g
    PROVE  AppStep(d, Without(s, g), Without(t, g))
<1>1. PICK x \in AppStores, y \in AppStores : x = Without(s, g) /\ y = Without(t, g)
  BY WithoutFields
<1>2. /\ x.pairs = s.pairs \ (Apps \X {g}) /\ x.unbonded = s.unbonded
      /\ y.pairs = t.pairs \ (Apps \X {g}) /\ y.unbonded = t.unbonded
  BY <1>1, WithoutFields
<1>3. CASE d.kind \in {"delegate", "undelegate", "unbondingEnd"}
  <2>1. AppStep(d, x, y)
    BY <1>2, <1>3 DEF AppStep
  <2> QED
    BY <1>1, <2>1
<1>4. CASE d.kind = "transferEnd"
  <2>1. /\ d.app # d.to /\ d.app \in Apps /\ d.to \in Apps
        /\ \A h \in Gateways : <<d.to, h>> \notin s.pairs
        /\ t.pairs = (s.pairs \ ({d.app} \X Gateways))
                         \cup ({d.to} \X {h \in Gateways : <<d.app, h>> \in s.pairs})
        /\ t.unbonded = IF d.app \in s.unbonded THEN s.unbonded \cup {d.to} ELSE s.unbonded
    BY <1>4, AppFields DEF AppStep
  <2>2. PICK m : m = {h \in Gateways : <<d.app, h>> \in s.pairs}
    OBVIOUS
  <2>3. {h \in Gateways : <<d.app, h>> \in x.pairs} = m \ {g}
    BY <1>2, <2>1, <2>2
  <2>4. ({d.to} \X m) \ (Apps \X {g}) = {d.to} \X (m \ {g})
    BY <2>1
  <2>5. y.pairs = (x.pairs \ ({d.app} \X Gateways)) \cup ({d.to} \X (m \ {g}))
    BY <1>2, <2>1, <2>2, <2>4
  <2>6. AppStep(d, x, y)
    BY <1>2, <1>4, <2>1, <2>3, <2>5 DEF AppStep
  <2> QED
    BY <1>1, <2>6
<1> QED
  BY <1>3, <1>4, AppFields

\* The path without a gateway that no datum left delegates to.
LEMMA PathWithout ==
    ASSUME NEW seq \in Seq(AppData), NEW s \in AppStores, NEW t \in AppStores, NEW g \in Gateways,
           Path(AppLeads, AppStores, s, seq, t),
           \A e \in Elements(seq) : e.kind = "delegate" => e.gateway # g
    PROVE  Path(AppLeads, AppStores, Without(s, g), seq, Without(t, g))
<1>1. PICK f : f = [x \in AppStores |-> Without(x, g)]
  OBVIOUS
<1>2. f \in [AppStores -> AppStores] /\ \A x \in AppStores : f[x] = Without(x, g)
  BY <1>1, WithoutFields
<1>3. ASSUME NEW i \in 1..Len(seq), NEW x \in AppStores, NEW y \in AppStores,
             <<seq[i], x, y>> \in AppLeads
      PROVE  <<seq[i], f[x], f[y]>> \in AppLeads
  <2>1. PICK d \in AppData : d = seq[i] /\ d \in Elements(seq)
    BY ElementOfSeq, LenProperties DEF Elements
  <2>2. AppStep(d, x, y)
    BY <1>3, <2>1, IsAppStep
  <2>3. AppStep(d, Without(x, g), Without(y, g))
    BY <2>1, <2>2, StepWithout
  <2>4. f[x] \in AppStores /\ f[y] \in AppStores /\ AppStep(d, f[x], f[y])
    BY <1>2, <2>3
  <2> QED
    BY <2>1, <2>4, IsAppStep
<1>4. Path(AppLeads, AppStores, f[s], seq, f[t])
  BY <1>2, <1>3, PathMapped
<1> QED
  BY <1>2, <1>4

LEMMA OtherGatewayDatum ==
    ASSUME DelegationInv, GatewayInv', gatewayData # <<>>, pc = "handle",
           Head(gatewayData).kind # "unbondingEnd", GatewayDone,
           UNCHANGED <<delegations, undelegates>>
    PROVE  DelegationInv'
<1>1. /\ gatewayData' = Tail(gatewayData)
      /\ UNCHANGED <<onChain, delegated, unbonded, appData, moving, statements, pc>>
  BY DEF GatewayDone, chainVars, appVars
<1>2. gatewayData \in Seq(GatewayData)
  BY DEF DelegationInv, GatewayInv, TypesInv
<1>3. Ending(gatewayData') = Ending(gatewayData)
  BY <1>1, <1>2, EndingTail
<1>4. PICK s \in AppStores, t \in AppStores, rows \in SUBSET (Apps \X Gateways) :
        Path(AppLeads, AppStores, s, appData, t) /\ EndsAt(t) /\ Follows(rows, s) /\ RowsWere(rows)
  BY DEF DelegationInv, LeadInv
<1>5. EndsAt(t)' /\ RowsWere(rows)'
  BY <1>1, <1>3, <1>4 DEF EndsAt, RowsWere
<1>6. LeadInv'
  BY <1>1, <1>4, <1>5 DEF LeadInv
<1>7. ApartInv' /\ ReadInv'
  BY <1>1, <1>3 DEF DelegationInv, ApartInv, ReadInv
<1> QED
  BY <1>6, <1>7 DEF DelegationInv

LEMMA RowsRead ==
    ASSUME DelegationInv, GatewayInv', GetUndelegatesForUnstakedGateway
    PROVE  DelegationInv'
<1>1. /\ pc = "handle" /\ gatewayData # <<>> /\ Head(gatewayData).kind = "unbondingEnd"
      /\ undelegates' = delegations \cap (Apps \X {Head(gatewayData).gateway})
      /\ UNCHANGED <<onChain, delegated, unbonded, gatewayData, appData, moving, statements, pc, delegations>>
  BY DEF GetUndelegatesForUnstakedGateway, Gateway, chainVars, appVars
<1>2. PICK s \in AppStores, t \in AppStores, rows \in SUBSET (Apps \X Gateways) :
        Path(AppLeads, AppStores, s, appData, t) /\ EndsAt(t) /\ Follows(rows, s) /\ RowsWere(rows)
  BY DEF DelegationInv, LeadInv
<1>3. EndsAt(t)' /\ RowsWere(rows)'
  BY <1>1, <1>2 DEF EndsAt, RowsWere
<1>4. LeadInv'
  BY <1>1, <1>2, <1>3 DEF LeadInv
<1>5. ApartInv' /\ ReadInv'
  BY <1>1 DEF DelegationInv, ApartInv, ReadInv
<1> QED
  BY <1>4, <1>5 DEF DelegationInv

LEMMA RowsRemoved ==
    ASSUME DelegationInv, GatewayInv', HandleEventGatewayUnbondingEnd
    PROVE  DelegationInv'
<1>1. /\ pc = "handle" /\ gatewayData # <<>> /\ Head(gatewayData).kind = "unbondingEnd"
      /\ undelegates # None /\ delegations' = delegations \ undelegates /\ undelegates' = None
      /\ gatewayData' = Tail(gatewayData)
      /\ UNCHANGED <<onChain, delegated, unbonded, appData, moving, statements, pc>>
  BY DEF HandleEventGatewayUnbondingEnd, Gateway, GatewayDone, chainVars, appVars
<1>2. gatewayData \in Seq(GatewayData) /\ appData \in Seq(AppData)
      /\ delegations \subseteq Apps \X Gateways
  BY DEF DelegationInv, GatewayInv, TypesInv
<1>3. PICK g \in Gateways : g = Head(gatewayData).gateway
  BY <1>1, <1>2, TailFacts, GatewayFields
<1>4. Ending(gatewayData) = Ending(gatewayData') \cup {g}
  BY <1>1, <1>2, <1>3, EndingTail
<1>5. PICK s \in AppStores, t \in AppStores, rows \in SUBSET (Apps \X Gateways) :
        Path(AppLeads, AppStores, s, appData, t) /\ EndsAt(t) /\ Follows(rows, s) /\ RowsWere(rows)
  BY DEF DelegationInv, LeadInv
<1>6. moving = None /\ delegations = rows
  <2>1. appData # <<>> => Head(appData).kind # "transferEnd"
    BY <1>4, HeadOfAppData DEF DelegationInv, ApartInv
  <2> QED
    BY <1>5, <2>1 DEF RowsWere
<1>7. delegations' = rows \ (Apps \X {g})
  <2>1. undelegates \subseteq Apps \X {g} /\ delegations \cap (Apps \X {g}) \subseteq undelegates
    BY <1>1, <1>3 DEF DelegationInv, ReadInv
  <2> QED
    BY <1>1, <1>6, <2>1
<1>8. PICK x \in AppStores, y \in AppStores : x = Without(s, g) /\ y = Without(t, g)
  BY WithoutFields
<1>9. /\ x.pairs = s.pairs \ (Apps \X {g}) /\ x.unbonded = s.unbonded
      /\ y.pairs = t.pairs \ (Apps \X {g}) /\ y.unbonded = t.unbonded
  BY <1>8, WithoutFields
<1>10. Path(AppLeads, AppStores, x, appData, y)
  <2>1. \A e \in Elements(appData) : e.kind = "delegate" => e.gateway # g
    BY <1>4 DEF DelegationInv, ApartInv
  <2> QED
    BY <1>2, <1>5, <1>8, <2>1, PathWithout
<1>11. EndsAt(y)'
  <2>1. delegated = y.pairs \ (Apps \X Ending(gatewayData'))
    BY <1>4, <1>5, <1>9 DEF EndsAt
  <2> QED
    BY <1>1, <1>5, <1>9, <2>1 DEF EndsAt
<1>12. PICK left \in SUBSET (Apps \X Gateways) : left = rows \ (Apps \X {g})
  OBVIOUS
<1>13. Follows(left, x) /\ RowsWere(left)'
  BY <1>1, <1>5, <1>6, <1>7, <1>9, <1>12 DEF Follows, RowsWere
<1>14. LeadInv'
  BY <1>1, <1>10, <1>11, <1>13 DEF LeadInv
<1>15. ApartInv' /\ ReadInv'
  BY <1>1, <1>4 DEF DelegationInv, ApartInv, ReadInv
<1> QED
  BY <1>14, <1>15 DEF DelegationInv

LEMMA BetweenBlocks ==
    ASSUME DelegationInv, GatewayInv', BeginBlock \/ EndBlock \/ UNCHANGED vars
    PROVE  DelegationInv'
<1>1. UNCHANGED <<onChain, delegated, unbonded, gatewayData, appData, undelegates, moving,
                  statements, delegations>>
  BY DEF BeginBlock, EndBlock, vars, chainVars, gatewayVars, appVars
<1>2. \/ UNCHANGED pc
      \/ pc = "chain" /\ pc' = "handle"
      \/ pc' = "chain" /\ gatewayData = <<>> /\ appData = <<>>
  BY DEF BeginBlock, EndBlock, vars
<1>3. PICK s \in AppStores, t \in AppStores, rows \in SUBSET (Apps \X Gateways) :
        Path(AppLeads, AppStores, s, appData, t) /\ EndsAt(t) /\ Follows(rows, s) /\ RowsWere(rows)
  BY DEF DelegationInv, LeadInv
<1>4. RowsWere(rows)'
  BY <1>1, <1>2, <1>3 DEF RowsWere
<1>5. EndsAt(t)'
  BY <1>1, <1>3 DEF EndsAt
<1>6. LeadInv'
  BY <1>1, <1>3, <1>4, <1>5 DEF LeadInv
<1>7. ApartInv' /\ ReadInv'
  BY <1>1, <1>2, ElementsEmpty DEF DelegationInv, ApartInv, ReadInv
<1> QED
  BY <1>6, <1>7 DEF DelegationInv

LEMMA DelegationsKept ==
    ASSUME DelegationInv, EndTogether = FALSE, [Next]_vars
    PROVE  DelegationInv'
<1>1. GatewayInv'
  BY GatewaysKept DEF DelegationInv
<1>2. CASE HandleGatewayMsgStake \/ HandleGatewayMsgUnstake \/ HandleEventGatewayUnbondingBegin
  BY <1>1, <1>2, OtherGatewayDatum
     DEF HandleGatewayMsgStake, HandleGatewayMsgUnstake, HandleEventGatewayUnbondingBegin, Gateway
<1> QED
  BY <1>1, <1>2, ChainLeads, RowsRead, RowsRemoved, DelegateHandled, UndelegateHandled,
     AppUnbondingHandled, FetchHandled, TransferHandled, BetweenBlocks DEF Next, Indexer

LEMMA NoDataSameDelegations ==
    ASSUME DelegationInv
    PROVE  DelegationsMatchChain
<1>1. SUFFICES ASSUME Indexed PROVE delegated \subseteq delegations
                                    /\ delegations \ delegated \subseteq unbonded \X Gateways
  BY DEF DelegationsMatchChain
<1>2. PICK s \in AppStores, t \in AppStores, rows \in SUBSET (Apps \X Gateways) :
        Path(AppLeads, AppStores, s, appData, t) /\ EndsAt(t) /\ Follows(rows, s) /\ RowsWere(rows)
  BY DEF DelegationInv, LeadInv
<1>3. appData = <<>> /\ gatewayData = <<>> /\ pc = "chain"
  BY <1>1 DEF Indexed
<1>4. s = t /\ delegations = rows /\ Ending(gatewayData) = {}
  BY <1>2, <1>3, PathEmpty, ElementsEmpty DEF RowsWere, Ending
<1>5. delegated = s.pairs /\ unbonded = s.unbonded
  BY <1>2, <1>4 DEF EndsAt
<1> QED
  BY <1>2, <1>4, <1>5 DEF Follows

\* Where no block ends both an unbonding of a gateway and a transfer, the
\* ApplicationGateway rows are those of the chain after every block, whatever
\* the interleaving of indexStake's handlers and of their statements.
THEOREM DelegationsCorrect ==
    ASSUME EndTogether = FALSE
    PROVE  Spec => []DelegationsMatchChain
<1>1. Init => DelegationInv
  BY InitLeads
<1>2. DelegationInv /\ [Next]_vars => DelegationInv'
  BY DelegationsKept
<1>3. DelegationInv => DelegationsMatchChain
  BY NoDataSameDelegations
<1> QED
  BY <1>1, <1>2, <1>3, PTL DEF Spec

-----------------------------------------------------------------------------
(* Types *)

\* What a handler has read belongs to the datum it is at.
WaitInv ==
    /\ undelegates # None => /\ pc = "handle" /\ gatewayData # <<>>
                             /\ Head(gatewayData).kind = "unbondingEnd"
    /\ moving # None => pc = "handle" /\ appData # <<>> /\ Head(appData).kind = "transferEnd"

LEMMA WaitKept ==
    ASSUME GatewayInv, WaitInv, [Next]_vars
    PROVE  WaitInv'
<1>1. CASE Chain
  <2>1. PICK g, a : Emit(g, a)
    BY <1>1 DEF Chain, ChainStake, ChainUnstake, ChainUnbondingEnd, ChainDelegate, ChainUndelegate,
                ChainTransferEnd, ChainAppUnbondingEnd
  <2>2. undelegates' = None /\ moving' = None
    BY <2>1 DEF Emit, WaitInv
  <2> QED
    BY <2>2 DEF WaitInv
<1>2. CASE BeginBlock \/ EndBlock \/ UNCHANGED vars
  BY <1>2 DEF BeginBlock, EndBlock, WaitInv, vars, chainVars, gatewayVars, appVars
<1>3. CASE \/ HandleGatewayMsgStake \/ HandleGatewayMsgUnstake \/ HandleEventGatewayUnbondingBegin
           \/ HandleEventGatewayUnbondingEnd
  <2>1. undelegates' = None /\ UNCHANGED <<appVars, pc>>
    BY <1>3 DEF HandleGatewayMsgStake, HandleGatewayMsgUnstake, HandleEventGatewayUnbondingBegin,
                HandleEventGatewayUnbondingEnd, Gateway, GatewayDone, WaitInv
  <2> QED
    BY <2>1 DEF WaitInv, appVars
<1>4. CASE GetUndelegatesForUnstakedGateway
  BY <1>4 DEF GetUndelegatesForUnstakedGateway, Gateway, WaitInv, appVars
<1>5. CASE HandleDelegateToGatewayMsg \/ HandleUndelegateFromGatewayMsg
           \/ HandleApplicationUnbondingEndEvent
  <2>1. moving' = None /\ UNCHANGED <<gatewayVars, pc>>
    BY <1>5 DEF HandleDelegateToGatewayMsg, HandleUndelegateFromGatewayMsg,
                HandleApplicationUnbondingEndEvent, App, AppDone, WaitInv
  <2> QED
    BY <2>1 DEF WaitInv, gatewayVars
<1>6. CASE FetchSourceApplicationGateways
  BY <1>6 DEF FetchSourceApplicationGateways, App, WaitInv, gatewayVars
<1>7. ASSUME NEW statement \in {"create", "remove"}, HandleTransferApplicationEndEvent(statement)
      PROVE  WaitInv'
  <2>1. \/ moving' = None /\ UNCHANGED <<gatewayVars, pc>>
        \/ UNCHANGED <<moving, gatewayVars, appData, pc>>
    BY <1>7 DEF HandleTransferApplicationEndEvent, AppDone
  <2> QED
    BY <2>1 DEF WaitInv, gatewayVars
<1> QED
  BY <1>1, <1>2, <1>3, <1>4, <1>5, <1>6, <1>7 DEF Next, Indexer

\* Every variable keeps its type, and no handler's reads outlive its block.
THEOREM TypeCorrect == Spec => []TypeOK
<1>1. Init => GatewayInv /\ WaitInv
  BY InitCorrect DEF Init, WaitInv
<1>2. (GatewayInv /\ WaitInv) /\ [Next]_vars => (GatewayInv /\ WaitInv)'
  BY GatewaysKept, WaitKept
<1>3. GatewayInv /\ WaitInv => TypeOK
  BY DEF GatewayInv, TypesInv, WaitInv, TypeOK, GatewayStores
<1> QED
  BY <1>1, <1>2, <1>3, PTL DEF Spec
=============================================================================
