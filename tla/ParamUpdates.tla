---------------------------- MODULE ParamUpdates ----------------------------
(***************************************************************************)
(* The parameters of the pocket modules, which the chain changes by        *)
(* messages inside MsgExec - MsgUpdateParam names one parameter,           *)
(* MsgUpdateParams carries all of a module - and the Param rows that       *)
(* mappings/pocket/params.ts derives from the JSON of those messages.      *)
(***************************************************************************)
EXTENDS Wire, FiniteSets, TLC

LOCAL INSTANCE SequencesExt

actors == INSTANCE PocketStaking
migration == INSTANCE PocketMigration
proof == INSTANCE PocketProof
service == INSTANCE PocketService
session == INSTANCE PocketSession
shared == INSTANCE PocketShared
tokenomics == INSTANCE PocketTokenomics

CONSTANTS
  MaxUpdates,   \* bound on the updates
  MaxInBlock    \* bound on the updates of a block

ASSUME ParamAssumption == MaxUpdates \in Nat /\ MaxInBlock \in Nat \ {0}

VARIABLES
  params,    \* the chain's parameters: namespace -> message
  block,     \* the update messages of the block that is not indexed yet
  rows,      \* Param: <<namespace, key>> -> value, as JSON
  updates,   \* how many updates there were
  omitted    \* parameters whose value no message has told: those the genesis
             \* leaves out, or a MsgUpdateParams has set to their default

paramVars == <<params, block, rows, updates, omitted>>

-----------------------------------------------------------------------------
\* msgUpdateParamsMap, the pocket modules: the message that sets all parameters
\* and the one that sets one of them.
UpdateCodecs ==
  LET Of(all, one) == [all |-> all.request, one |-> one.request]
  IN  [application |-> Of(actors!ApplicationMsgUpdateParams, actors!ApplicationMsgUpdateParam),
       gateway |-> Of(actors!GatewayMsgUpdateParams, actors!GatewayMsgUpdateParam),
       migration |-> [all |-> migration!MsgUpdateParams.request, one |-> <<>>],
       proof |-> Of(proof!MsgUpdateParams, proof!MsgUpdateParam),
       service |-> Of(service!MsgUpdateParams, service!MsgUpdateParam),
       session |-> Of(session!MsgUpdateParams, session!MsgUpdateParam),
       shared |-> Of(shared!MsgUpdateParams, shared!MsgUpdateParam),
       supplier |-> Of(actors!SupplierMsgUpdateParams, actors!SupplierMsgUpdateParam),
       tokenomics |-> Of(tokenomics!MsgUpdateParams, tokenomics!MsgUpdateParam)]

Namespaces == DOMAIN UpdateCodecs

ParamFields(ns) == FieldOf(UpdateCodecs[ns].all, "params").of

\* A parameter's name, in a message: a string, numbered by its field.
NameOf(ns, i) == ParamFields(ns)[i].name

\* The values a parameter takes: a scalar n, or a message of such.
RECURSIVE ParamValue(_, _)
ParamValue(f, n) ==
  IF f.kind = "message" THEN [x \in Names(f.of) |-> <<ParamValue(FieldOf(f.of, x), n)>>]
  ELSE IF f.kind = "bool" /\ n > 1 THEN 1 ELSE n

-----------------------------------------------------------------------------
(* The chain.                                                              *)

\* The field of MsgUpdateParam that has the kind of parameter f.
ValueFields(ns, f) ==
  {i \in DOMAIN UpdateCodecs[ns].one :
     LET g == UpdateCodecs[ns].one[i]
     IN  g.name \notin {"authority", "name"} /\ g.kind = f.kind /\ g.of = f.of}

UpdateParam(ns, i, n, ok) ==
  LET f == ParamFields(ns)[i]
      codec == UpdateCodecs[ns].one
      v == ParamValue(f, n)
  IN  \E g \in ValueFields(ns, f) :
        /\ block' = Append(block,
             [ns |-> ns, form |-> "one", ok |-> ok,
              bytes |-> Encode("node", codec,
                [Base(codec) EXCEPT !.authority = <<1>>, !.name = <<i>>, ![codec[g].name] = <<v>>])])
        /\ params' = IF ok THEN [params EXCEPT ![ns][f.name] = <<v>>] ELSE params
        /\ omitted' = IF ok THEN omitted \ {<<ns, f.name>>} ELSE omitted

\* The parameters that have the default of their kind.
Default(ns, m) ==
  {x \in DOMAIN m : FieldOf(ParamFields(ns), x).kind # "message" /\ Written(FieldOf(ParamFields(ns), x), m) = <<>>}

UpdateParams(ns, i, n, ok) ==
  LET codec == UpdateCodecs[ns].all
      new == [params[ns] EXCEPT ![NameOf(ns, i)] = <<ParamValue(ParamFields(ns)[i], n)>>]
  IN  /\ block' = Append(block,
           [ns |-> ns, form |-> "all", ok |-> ok,
            bytes |-> Encode("node", codec,
              [Base(codec) EXCEPT !.authority = <<1>>, !.params = <<new>>])])
      /\ params' = IF ok THEN [params EXCEPT ![ns] = new] ELSE params
      /\ omitted' = IF ok THEN (omitted \ {<<ns, x>> : x \in DOMAIN new})
                               \cup {<<ns, x>> : x \in Default(ns, new)}
                    ELSE omitted

-----------------------------------------------------------------------------
(* The indexer.                                                            *)

\* Mutant: the handlers get the messages of failed transactions too.
Delivered(msgs) == msgs

\* handleByType with ByTxStatus.Success.
Succeeded(msgs) == SelectSeq(msgs, LAMBDA m : m.ok)

\* _handleUpdateParam: the rows one message gives.
HandleUpdateParam(m) ==
  LET codec == IF m.form = "all" THEN UpdateCodecs[m.ns].all ELSE UpdateCodecs[m.ns].one
      json == ToJSON("camel", codec, Decode(codec, m.bytes).val).camel
  IN  IF m.form = "all"
      THEN LET all == json.params[1].camel
           IN  [id \in {<<m.ns, key>> : key \in DOMAIN all} |-> all[id[2]]]
      ELSE LET as == DOMAIN json \ {"authority", "name"}
           IN  [id \in {<<m.ns, NameOf(m.ns, json.name[1])>> : key \in as} |->
                  json[CHOOSE key \in as : TRUE]]

\* store.bulkCreate("Param") of what the block's MsgExec give, in their
\* order: of two rows with one id the second stays.
IndexBlock ==
  /\ block # <<>>
  /\ rows' = FoldLeft(LAMBDA r, m : HandleUpdateParam(m) @@ r, rows, Succeeded(block))
  /\ block' = <<>>
  /\ UNCHANGED <<params, updates, omitted>>

ParamIds(namespaces) == UNION {{<<ns, x>> : x \in Names(ParamFields(ns))} : ns \in namespaces}

\* saveParams, from a genesis that gives every parameter.  Those of migration
\* are not among the ones it is called for.
GenesisRows(ps) ==
  [id \in ParamIds(Namespaces \ {"migration"}) |->
     ToJSON("camel", ParamFields(id[1]), ps[id[1]]).camel[id[2]]]

-----------------------------------------------------------------------------
ParamsInit ==
  /\ params = [ns \in Namespaces |-> [x \in Names(ParamFields(ns)) |->
                                        <<ParamValue(FieldOf(ParamFields(ns), x), 1)>>]]
  /\ block = <<>>
  /\ rows = GenesisRows(params)
  /\ updates = 0
  /\ omitted = ParamIds({"migration"})

Update ==
  /\ updates < MaxUpdates /\ Len(block) < MaxInBlock
  /\ updates' = updates + 1
  /\ \E ns \in Namespaces : \E i \in DOMAIN ParamFields(ns), n \in 0..2, ok \in BOOLEAN :
       UpdateParam(ns, i, n, ok) \/ UpdateParams(ns, i, n, ok)
  /\ UNCHANGED rows

ParamsNext == Update \/ IndexBlock

-----------------------------------------------------------------------------
\* What a row says the parameter is.
Meaning(ns, x) == FromJSON(ParamFields(ns), [camel |-> (x :> rows[<<ns, x>>]), snake |-> <<>>])[x]

\* When a block is indexed each row is the parameter's value on chain, by
\* whichever message it was last set.  Two kinds of parameters are left out:
\* those a MsgUpdateParams has set to zero, false or an empty string, which
\* toJSON omits, so that the row keeps the value of before; and those of
\* migration that no message has set since the genesis, which have no row.
ParamsMatchChain ==
  block = <<>> =>
    \A ns \in Namespaces : \A x \in Names(ParamFields(ns)) :
      <<ns, x>> \notin omitted => Meaning(ns, x) = params[ns][x]
=============================================================================
