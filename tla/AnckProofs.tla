----------------------------- MODULE AnckProofs -----------------------------
(***************************************************************************)
(* Proofs about Anck for any pods, nodes and streams, any set of events,   *)
(* with or without faults, and any number of restarts.                     *)
(***************************************************************************)
EXTENDS Anck, TLAPS, FiniteSetTheorems

-----------------------------------------------------------------------------
(* What the pure functions return.                                         *)

\* The edits of the pod controller yield a well-formed ParticipatingSpec.
LEMMA PodEditsTyped ==
  ASSUME NEW i \in ParticipatingSpec, NEW d \in Domains, NEW p \in PodNames
  PROVE  /\ PodCreating(i, d, p) \in ParticipatingSpec
         /\ PodTerminating(i, d, p) \in ParticipatingSpec
  BY DEF PodCreating, PodTerminating, ParticipatingSpec, NodeStates

\* So do those of the loop of reconcileJetstreams.
LEMMA LoopEditsTyped ==
  ASSUME NEW i \in ParticipatingSpec, NEW d \in Domains
  PROVE  /\ NodeActivated(i, d) \in ParticipatingSpec
         /\ CreatingMoved(i) \in ParticipatingSpec
         /\ NodeRemoved(i, d) \in ParticipatingSpec
         /\ TerminatedRemoved(i, d) \in ParticipatingSpec
  BY DEF NodeActivated, CreatingMoved, NodeRemoved, TerminatedRemoved,
         ParticipatingSpec, NodeStates

\* A turn of the loop yields a Network that differs only in the info and in
\* the finalizers of nodes.
LEMMA NodeTurnTyped ==
  ASSUME NEW o \in Network, NEW d \in Domains, NEW created \in BOOLEAN
  PROVE  /\ NodeTurn(o, d, created) \in Network
         /\ NodeTurn(o, d, created).exists = o.exists
         /\ NodeTurn(o, d, created).deleting = o.deleting
<1>1. o.Participating \in ParticipatingSpec /\ d \in Finalizers
  BY DEF Network, Finalizers
<1>2. \A f \in SUBSET Finalizers, i \in ParticipatingSpec :
        /\ [o EXCEPT !.Participating = i] \in Network
        /\ [o EXCEPT !.Participating = i, !.finalizers = f] \in Network
  BY DEF Network
<1>3. o.finalizers \cup {d} \in SUBSET Finalizers
      /\ o.finalizers \ {d} \in SUBSET Finalizers
  BY <1>1 DEF Network
<1> QED
  BY <1>1, <1>2, <1>3, LoopEditsTyped DEF NodeTurn, Network

\* The absent and the new Network are Networks.
LEMMA NoNetworkTyped == NoNetwork \in Network /\ NewNetwork \in Network
<1>1. NoParticipants \in ParticipatingSpec
  BY DEF NoParticipants, ParticipatingSpec, NodeStates
<1>2. NoMainDomain \in MainDomainSpec
  BY DEF NoMainDomain, MainDomainSpec
<1> QED
  BY <1>1, <1>2 DEF NoNetwork, NewNetwork, Network

\* What the API server stores for a Network is a Network.
LEMMA StoredTyped ==
  ASSUME NEW o \in Network PROVE Stored(o) \in Network
  BY NoNetworkTyped DEF Stored

-----------------------------------------------------------------------------
(* The inductive invariant.  LivePodStaysRecorded follows from the fact    *)
(* that whatever a holder of the stored resourceVersion may write keeps    *)
(* the live pods (KeptBy); a write by anyone else is refused.  For that    *)
(* the terminating pods of every copy, however old, must be dead ones, and *)
(* no copy may name a pod that is yet to be created (InfoOK).              *)

InfoOK(i) ==
  \A d \in Domains :
    /\ \A p \in i.PodsTerminating[d] : pod[p].phase \in {"deleting", "gone"}
    /\ \A p \in i.Pods[d] \cup i.PodsCreating[d] : pod[p].phase # "absent"
    /\ i.Pods[d] \cup i.PodsCreating[d] # {} => i.Nodes[d] # "none"

KeptBy(o) ==
  \A p \in PodNames, d \in Domains :
    p \in Recorded(network, d) /\ pod[p].phase = "live" => p \in Recorded(o, d)

\* A pod that is reconciled, or in the cache with a node, is bound to a node.
Bound(p) == /\ pod[p].phase # "absent"
            /\ Present(pod[p]) => pod[p].node \in NodeNames

KeysBound ==
  /\ \A p \in PodNames : pod[p].phase = "absent" => pod[p].node = None
  /\ ppc # "idle" => key \in PodNames /\ Bound(key)
  /\ \A p \in PodNames : podCache[p].node # None => Bound(p)

\* What the cache or the worker takes for a pod being deleted is one.
Dead(p) == pod[p].phase \in {"deleting", "gone"}

DeletesDead ==
  /\ ppc \in {"deleteRead", "removeFinalizers", "deleteWrite"} => Dead(key)
  /\ \A p \in PodNames : podCache[p].phase = "deleting" => Dead(p)

\* The part about the Network and its copies.
ApiInv ==
  /\ ApiTypeOK
  /\ InfoOK(network.Participating)
  /\ \A h \in Holders : InfoOK(copy[h].Participating)
  /\ \A h \in current : KeptBy(copy[h])

IInv == TypeOK /\ KeysBound /\ DeletesDead /\ ApiInv

\* What LivePodStaysRecorded says of one step.
StepKeepsLive ==
  \A p \in PodNames, d \in Domains :
    /\ p \in Recorded(network, d)
    /\ pod[p].phase = "live"
    /\ network'.exists
    => p \in Recorded(network', d)

-----------------------------------------------------------------------------
(* The pure functions keep InfoOK and the live pods.                       *)

\* reconcileCreatePod records a pod that exists, and forgets none.
LEMMA PodCreatingKeeps ==
  ASSUME NEW i \in ParticipatingSpec, NEW d \in Domains, NEW p \in PodNames,
         InfoOK(i), pod[p].phase # "absent"
  PROVE  /\ InfoOK(PodCreating(i, d, p))
         /\ \A e \in Domains : i.Pods[e] \cup i.PodsCreating[e] \subseteq
              PodCreating(i, d, p).Pods[e] \cup PodCreating(i, d, p).PodsCreating[e]
  BY DEF InfoOK, PodCreating, ParticipatingSpec

\* reconcileDeletePod records a pod that is being deleted, and forgets none.
LEMMA PodTerminatingKeeps ==
  ASSUME NEW i \in ParticipatingSpec, NEW d \in Domains, NEW p \in PodNames,
         InfoOK(i), pod[p].phase \in {"deleting", "gone"}
  PROVE  /\ InfoOK(PodTerminating(i, d, p))
         /\ \A e \in Domains : i.Pods[e] \cup i.PodsCreating[e] =
              PodTerminating(i, d, p).Pods[e] \cup PodTerminating(i, d, p).PodsCreating[e]
  BY DEF InfoOK, PodTerminating, ParticipatingSpec

\* The turn of a node forgets only pods that are terminating.
LEMMA NodeTurnKeeps ==
  ASSUME NEW o \in Network, NEW d \in Domains, NEW created \in BOOLEAN,
         InfoOK(o.Participating)
  PROVE  /\ InfoOK(NodeTurn(o, d, created).Participating)
         /\ \A e \in Domains, p \in PodNames :
              p \in Recorded(o, e) /\ pod[p].phase = "live"
                => p \in Recorded(NodeTurn(o, d, created), e)
<1> DEFINE i == o.Participating
           t == NodeTurn(o, d, created).Participating
<1>1. i \in ParticipatingSpec
  BY DEF Network
<1>2. CASE t = NodeActivated(i, d)
  BY <1>1, <1>2 DEF InfoOK, NodeActivated, ParticipatingSpec, Recorded
<1>3. CASE t = CreatingMoved(i)
  BY <1>1, <1>3 DEF InfoOK, CreatingMoved, ParticipatingSpec, Recorded
<1>4. CASE /\ t = NodeRemoved(i, d)
           /\ networkNodeState(i, d) = "stillPartitipatingDelete"
  <2>1. i.PodsCreating[d] = {} /\ i.PodsTerminating[d] = i.Pods[d]
    BY <1>1, <1>4 DEF networkNodeState, ParticipatingSpec
  <2> QED
    BY <1>1, <1>4, <2>1 DEF InfoOK, NodeRemoved, ParticipatingSpec, Recorded
<1>5. CASE t = TerminatedRemoved(i, d)
  BY <1>1, <1>5 DEF InfoOK, TerminatedRemoved, ParticipatingSpec, Recorded
<1>6. CASE t = i
  BY <1>6 DEF Recorded
<1> QED
  BY <1>2, <1>3, <1>4, <1>5, <1>6 DEF NodeTurn, Network

-----------------------------------------------------------------------------
(* The steps of the API server keep ApiInv, as long as no pod changes.     *)

\* No object, no pods.
LEMMA NoNetworkEmpty ==
  /\ InfoOK(NoNetwork.Participating)
  /\ ~NoNetwork.exists
  /\ \A d \in Domains : Recorded(NoNetwork, d) = {}
  BY DEF InfoOK, NoNetwork, NoParticipants, Recorded

\* What is stored of an update records no more pods than the update and, unless
\* the object goes with its last finalizer, no fewer.
LEMMA StoredKeeps ==
  ASSUME NEW o \in Network, InfoOK(o.Participating)
  PROVE  /\ InfoOK(Stored(o).Participating)
         /\ \A d \in Domains : Recorded(Stored(o), d) \subseteq Recorded(o, d)
         /\ Stored(o).exists => \A d \in Domains : Recorded(Stored(o), d) = Recorded(o, d)
  BY NoNetworkEmpty DEF Stored

\* A live read followed by an edit that keeps the live pods.
LEMMA ReadKeeps ==
  ASSUME ApiInv, NEW h \in Holders, NEW f \in Network, UNCHANGED pod,
         InfoOK(f.Participating), KeptBy(f), ReadInto(h, f)
  PROVE  ApiInv' /\ StepKeepsLive
<1>1. copy' \in [Holders -> Network] /\ current' \subseteq Holders
      /\ copy'[h] = f /\ (\A g \in Holders : g # h => copy'[g] = copy[g])
  BY DEF ApiInv, ApiTypeOK, ReadInto
<1> QED
  BY <1>1 DEF ApiInv, ApiTypeOK, ReadInto, InfoOK, KeptBy, Recorded, StepKeepsLive

\* A read of the cache: the copy is as good as the informer's.
LEMMA ReadCachedKeeps ==
  ASSUME ApiInv, NEW h \in Holders, UNCHANGED pod, ReadCached(h)
  PROVE  ApiInv' /\ StepKeepsLive
<1>1. copy' \in [Holders -> Network] /\ current' \subseteq Holders
      /\ copy'[h] = copy[Informer] /\ (\A g \in Holders : g # h => copy'[g] = copy[g])
  BY DEF ApiInv, ApiTypeOK, ReadCached, Holders, Informer
<1>2. h \in current' => Informer \in current
      /\ (\A g \in current' : g # h => g \in current)
  BY DEF ReadCached
<1>3. Informer \in Holders
  BY DEF Holders
<1> QED
  BY <1>1, <1>2, <1>3 DEF ApiInv, ApiTypeOK, ReadCached, InfoOK, KeptBy, Recorded,
    StepKeepsLive

\* A holder edits its object: the new one keeps the pods the old one kept.
LEMMA EditKeeps ==
  ASSUME ApiInv, NEW h \in Holders, NEW f \in Network,
         UNCHANGED <<pod, network, current>>,
         copy' = [copy EXCEPT ![h] = f],
         InfoOK(f.Participating), KeptBy(copy[h]) => KeptBy(f)
  PROVE  ApiInv' /\ StepKeepsLive
<1>1. copy' \in [Holders -> Network]
      /\ copy'[h] = f /\ (\A g \in Holders : g # h => copy'[g] = copy[g])
  BY DEF ApiInv, ApiTypeOK
<1> QED
  BY <1>1 DEF ApiInv, ApiTypeOK, InfoOK, KeptBy, Recorded, StepKeepsLive

\* Reconcile returns and its objects go.
LEMMA DropKeeps ==
  ASSUME ApiInv, NEW H \in SUBSET Holders, UNCHANGED pod, Drop(H)
  PROVE  ApiInv' /\ StepKeepsLive
<1>1. copy' \in [Holders -> Network] /\ current' \subseteq Holders
      /\ (\A g \in H : copy'[g] = NoNetwork)
      /\ (\A g \in Holders : g \notin H => copy'[g] = copy[g])
  BY NoNetworkTyped DEF ApiInv, ApiTypeOK, Drop, Dropped
<1>2. current' = current \ H /\ network' = network
  BY DEF Drop
<1> QED
  BY <1>1, <1>2, NoNetworkEmpty DEF ApiInv, ApiTypeOK, InfoOK, KeptBy, Recorded,
    StepKeepsLive

\* An accepted update: the writer has the stored version, so what it writes,
\* with the info of its object, keeps the live pods.
LEMMA AcceptedKeeps ==
  ASSUME ApiInv, NEW h \in Holders, NEW new \in Network, UNCHANGED pod,
         Accepts(h, new), new.Participating = copy[h].Participating,
         network' = Stored(new)
  PROVE  /\ StepKeepsLive
         /\ network' \in Network
         /\ InfoOK(new.Participating)
         /\ InfoOK(network'.Participating)
<1>1. InfoOK(new.Participating) /\ KeptBy(new)
  BY DEF ApiInv, Accepts, KeptBy, Recorded
<1> QED
  BY <1>1, StoredTyped, StoredKeeps DEF KeptBy, StepKeepsLive

\* An accepted update: every copy that still has the stored version afterwards
\* is the writer's, or the update changed nothing.
LEMMA UpdateKeeps ==
  ASSUME ApiInv, NEW h \in Holders, NEW new \in Network, UNCHANGED pod,
         Accepts(h, new), new.Participating = copy[h].Participating,
         Update(h, new)
  PROVE  ApiInv' /\ StepKeepsLive
<1>1. /\ StepKeepsLive
      /\ network' \in Network
      /\ InfoOK(new.Participating)
      /\ InfoOK(network'.Participating)
  BY AcceptedKeeps DEF Update
<1>2. copy' \in [Holders -> Network] /\ current' \subseteq Holders
      /\ copy'[h] = new /\ (\A g \in Holders : g # h => copy'[g] = copy[g])
  BY DEF ApiInv, ApiTypeOK, Update
<1>3. \A d \in Domains : Recorded(network', d) \subseteq Recorded(new, d)
  BY <1>1, StoredKeeps DEF Update
<1>4. ASSUME NEW g \in current' PROVE KeptBy(copy[g])'
  <2>1. CASE g = h
    BY <2>1, <1>2, <1>3 DEF KeptBy, Recorded
  <2>2. CASE g # h
    <3>1. g \in current /\ new = network /\ copy'[g] = copy[g]
      BY <2>2, <1>2, <1>4 DEF Update, ApiInv, ApiTypeOK
    <3>2. \A d \in Domains : Recorded(network', d) \subseteq Recorded(network, d)
      BY <3>1, <1>3
    <3> QED
      BY <3>1, <3>2 DEF ApiInv, KeptBy, Recorded
  <2> QED
    BY <2>1, <2>2
<1> QED
  BY <1>1, <1>2, <1>4 DEF ApiInv, ApiTypeOK, InfoOK

\* The same for an update after which Reconcile returns.
LEMMA UpdateAndDropKeeps ==
  ASSUME ApiInv, NEW H \in SUBSET Holders, NEW h \in H, NEW new \in Network,
         UNCHANGED pod,
         Accepts(h, new), new.Participating = copy[h].Participating,
         UpdateAndDrop(H, new)
  PROVE  ApiInv' /\ StepKeepsLive
<1>1. /\ StepKeepsLive
      /\ network' \in Network
      /\ InfoOK(new.Participating)
      /\ InfoOK(network'.Participating)
  BY AcceptedKeeps DEF UpdateAndDrop
<1>2. copy' \in [Holders -> Network] /\ current' \subseteq Holders
      /\ (\A g \in H : copy'[g] = NoNetwork)
      /\ (\A g \in Holders : g \notin H => copy'[g] = copy[g])
  BY NoNetworkTyped DEF ApiInv, ApiTypeOK, UpdateAndDrop, Dropped
<1>3. \A d \in Domains : Recorded(network', d) \subseteq Recorded(new, d)
  BY <1>1, StoredKeeps DEF UpdateAndDrop
<1>4. ASSUME NEW g \in current' PROVE KeptBy(copy[g])'
  <2>1. g \in current /\ g \notin H /\ new = network
    BY <1>4 DEF UpdateAndDrop
  <2>2. copy'[g] = copy[g]
    BY <2>1, <1>2 DEF ApiInv, ApiTypeOK
  <2> QED
    BY <2>1, <2>2, <1>3 DEF ApiInv, KeptBy, Recorded
<1> QED
  BY <1>1, <1>2, <1>4, NoNetworkEmpty DEF ApiInv, ApiTypeOK, InfoOK

\* The watch replaces the cached Network by the stored one.
LEMMA WatchKeeps ==
  ASSUME ApiInv, UNCHANGED pod, Watch
  PROVE  ApiInv' /\ StepKeepsLive
<1>1. copy' \in [Holders -> Network] /\ current' \subseteq Holders
      /\ copy'[Informer] = network
      /\ (\A g \in Holders : g # Informer => copy'[g] = copy[g])
  BY DEF ApiInv, ApiTypeOK, Watch, Holders
<1> QED
  BY <1>1 DEF ApiInv, ApiTypeOK, Watch, InfoOK, KeptBy, Recorded, StepKeepsLive

\* The deletion of the Network makes every copy an old one.
LEMMA MarkDeletedKeeps ==
  ASSUME ApiInv, UNCHANGED pod, MarkDeleted
  PROVE  ApiInv' /\ StepKeepsLive
<1> DEFINE new == [network EXCEPT !.deleting = TRUE]
<1>1. new \in Network /\ new.Participating = network.Participating
  BY DEF ApiInv, ApiTypeOK, Network
<1>2. InfoOK(new.Participating)
  BY <1>1 DEF ApiInv
<1>3. network' = Stored(new) /\ copy' = copy /\ current' = {}
  BY DEF MarkDeleted
<1>4. network' \in Network /\ InfoOK(network'.Participating) /\ StepKeepsLive
  <2>1. \A d \in Domains : Recorded(new, d) = Recorded(network, d)
    BY <1>1 DEF Recorded
  <2> HIDE DEF new
  <2> QED
    BY <1>1, <1>2, <1>3, <2>1, StoredTyped, StoredKeeps DEF StepKeepsLive
<1> QED
  BY <1>3, <1>4 DEF ApiInv, ApiTypeOK, InfoOK

\* Pods only move on: to live, to deleting, to gone.
PhasesAdvance ==
  \A p \in PodNames :
    /\ pod[p].phase # "absent" => pod'[p].phase # "absent"
    /\ pod[p].phase \in {"deleting", "gone"} => pod'[p].phase \in {"deleting", "gone"}
    /\ pod'[p].phase = "live" => pod[p].phase \in {"absent", "live"}

\* A step in the life of a pod: a pod that becomes live was recorded nowhere.
LEMMA AdvanceKeeps ==
  ASSUME ApiInv, UNCHANGED apiVars, PhasesAdvance
  PROVE  ApiInv' /\ StepKeepsLive
<1>1. UNCHANGED <<network, copy, current>>
  BY DEF apiVars
<1>2. ASSUME NEW i \in ParticipatingSpec, InfoOK(i)
      PROVE  \A d \in Domains :
               /\ \A p \in i.PodsTerminating[d] : pod'[p].phase \in {"deleting", "gone"}
               /\ \A p \in i.Pods[d] \cup i.PodsCreating[d] : pod'[p].phase # "absent"
               /\ i.Pods[d] \cup i.PodsCreating[d] # {} => i.Nodes[d] # "none"
  BY <1>2 DEF InfoOK, PhasesAdvance, ParticipatingSpec
<1>3. network.Participating \in ParticipatingSpec
      /\ (\A h \in Holders : copy[h].Participating \in ParticipatingSpec)
  BY DEF ApiInv, ApiTypeOK, Network
<1>4. InfoOK(network.Participating)'
      /\ (\A h \in Holders : InfoOK(copy[h].Participating)')
  BY <1>1, <1>2, <1>3 DEF ApiInv, InfoOK
<1>5. \A h \in current : KeptBy(copy[h]) => KeptBy(copy[h])'
  \* a pod that becomes live now was not recorded
  BY <1>1 DEF ApiInv, InfoOK, KeptBy, Recorded, PhasesAdvance
<1> QED
  BY <1>1, <1>4, <1>5 DEF ApiInv, ApiTypeOK, StepKeepsLive

\* The new process starts with the stored object in its cache and no other.
LEMMA RestartKeeps ==
  ASSUME ApiInv, UNCHANGED pod, Restart
  PROVE  ApiInv' /\ StepKeepsLive
<1>1. copy' \in [Holders -> Network] /\ current' = {Informer}
      /\ copy'[Informer] = network
      /\ (\A g \in Holders : g # Informer => copy'[g] = NoNetwork)
      /\ network' = network
  BY NoNetworkTyped DEF ApiInv, ApiTypeOK, Restart, Holders
<1> QED
  BY <1>1, NoNetworkEmpty DEF ApiInv, ApiTypeOK, InfoOK, KeptBy, Recorded,
    StepKeepsLive, Holders

-----------------------------------------------------------------------------
(* Every step of the network controller keeps the types.                   *)

\* The keys of a map over nodes come out as a sequence of domains.
LEMMA OrdersTyped ==
  ASSUME NEW S \in SUBSET Domains PROVE Orders(S) \subseteq Seq(Domains)
<1>1. IsFiniteSet(Domains)
  BY ParticipatingAssumption, FS_AddElement DEF Domains
<1>2. Cardinality(S) \in Nat
  BY <1>1, FS_Subset, FS_CardinalityType
<1> QED
  BY <1>2 DEF Orders

\* What createMainJetstreams finds and records is well-formed.
LEMMA MainOutcomesTyped ==
  ASSUME TypeOK, NEW std \in StandardOutcomes, NEW agg \in AggregateOutcomes
  PROVE  /\ std.streams \subseteq NodeStreams \cup {Standard}
         /\ agg.aggregate \in [exists : BOOLEAN, sources : SUBSET Domains]
         /\ [Standard |-> std.info, Aggregate |-> agg.info] \in MainDomainSpec
<1>1. /\ obj.MainDomain \in MainDomainSpec
      /\ streams[Main] \subseteq NodeStreams \cup {Standard}
  BY DEF TypeOK, ApiTypeOK, NetTypeOK, Network, obj, Holders, Domains
<1>2. /\ std.streams \subseteq NodeStreams \cup {Standard}
      /\ std.info \in {"none", "created", "error"}
  BY <1>1 DEF StandardOutcomes, MainDomainSpec
<1>3. AggregateWith(ActiveNodes) \in [exists : BOOLEAN, sources : SUBSET Domains]
  BY DEF AggregateWith, ActiveNodes, TypeOK, NetTypeOK
<1>4. agg.aggregate \in [exists : BOOLEAN, sources : SUBSET Domains]
  BY <1>3 DEF AggregateOutcomes, TypeOK, NetTypeOK
<1>5. Orders(ActiveNodes) \subseteq Seq(Domains)
  BY OrdersTyped DEF ActiveNodes
<1>6. agg.info \in [State : {"none", "created", "error"}, SourceDomains : Seq(Domains)]
  BY <1>1, <1>5 DEF AggregateOutcomes, MainDomainSpec
<1> QED
  BY <1>2, <1>4, <1>6 DEF MainDomainSpec

\* The local state of NetworksReconciler, and what it creates outside.
LEMMA NetStepTyped ==
  ASSUME TypeOK, NetNext PROVE NetTypeOK'
<1> USE DEF NetTypeOK, CreateSteps, DeleteSteps, SharedSteps
<1>0. NetTypeOK /\ Main \in Domains
  BY DEF TypeOK, Domains
<1>1. CASE NetGet
  BY <1>0, <1>1 DEF NetGet, externalVars
<1>2. CASE NetAddFinalizer
  BY <1>0, <1>2 DEF NetAddFinalizer, Goto, ReturnError, Return, externalVars
<1>3. CASE NetDesiredState
  BY <1>0, <1>3 DEF NetDesiredState, Goto, ReturnError, Return
<1>4. CASE NetGetAccount
  BY <1>0, <1>4 DEF NetGetAccount, Goto, ReturnError, Return, externalVars
<1>5. CASE NetSetAccount
  BY <1>0, <1>5 DEF NetSetAccount, Goto, ReturnError, Return, externalVars
<1>6. CASE NetSecrets
  BY <1>0, <1>6 DEF NetSecrets, Goto, ReturnError, Return
<1>7. CASE NetConfirmAccount
  BY <1>0, <1>7 DEF NetConfirmAccount, Goto, ReturnError, Return, externalVars
<1>8. CASE NetCreateMain
  <2>1. /\ npc' \in {"jetstreams", "writeMain"}
        /\ UNCHANGED <<netQueued, todo, dirty, failed, creds, anckSecret>>
    BY <1>8 DEF NetCreateMain, Goto
  <2>2. CASE UNCHANGED <<streams, aggregate>>
    BY <1>0, <2>1, <2>2
  <2>3. CASE \E std \in StandardOutcomes, agg \in AggregateOutcomes :
               /\ streams' = [streams EXCEPT ![Main] = std.streams]
               /\ aggregate' = agg.aggregate
    <3>1. PICK std \in StandardOutcomes, agg \in AggregateOutcomes :
            /\ streams' = [streams EXCEPT ![Main] = std.streams]
            /\ aggregate' = agg.aggregate
      BY <2>3
    <3>2. /\ streams' \in [Domains -> SUBSET (NodeStreams \cup {Standard})]
          /\ aggregate' \in [exists : BOOLEAN, sources : SUBSET Domains]
      BY <1>0, <3>1, MainOutcomesTyped
    <3> QED
      BY <1>0, <2>1, <3>2
  <2> QED
    BY <1>8, <2>2, <2>3 DEF NetCreateMain
<1>9. CASE NetWriteMain
  BY <1>0, <1>9 DEF NetWriteMain, Goto, externalVars
<1>10. CASE NetJetstreams
  BY <1>0, <1>10 DEF NetJetstreams, AfterJetstreams, Return, externalVars
<1>11. ASSUME NEW d \in Domains, NetNode(d) PROVE NetTypeOK'
  BY <1>0, <1>11 DEF NetNode
<1>12. CASE NetWriteNodes
  BY <1>0, <1>12 DEF NetWriteNodes, AfterJetstreams, Return, externalVars
<1>13. CASE NetDeleteMain
  <2>1. /\ npc' = "jetstreams"
        /\ UNCHANGED <<netQueued, todo, dirty, creds, anckSecret>>
        /\ failed' \in {failed, TRUE}
        /\ aggregate' \in {aggregate, [exists |-> FALSE, sources |-> {}]}
    BY <1>13 DEF NetDeleteMain
  <2>2. streams' = streams \/ \E kept \in SUBSET streams[Main] :
                                streams' = [streams EXCEPT ![Main] = kept]
    BY <1>13 DEF NetDeleteMain
  <2>3. streams' \in [Domains -> SUBSET (NodeStreams \cup {Standard})]
    BY <1>0, <2>2
  <2>4. aggregate' \in [exists : BOOLEAN, sources : SUBSET Domains]
    <3>1. [exists |-> FALSE, sources |-> {}] \in
            [exists : BOOLEAN, sources : SUBSET Domains]
      OBVIOUS
    <3> QED
      BY <1>0, <2>1, <3>1, Zenon
  <2>5. failed' \in BOOLEAN
    BY <1>0, <2>1, Zenon
  <2> QED
    BY <1>0, <2>1, <2>3, <2>4, <2>5
<1>14. CASE NetDeleteNetwork
  BY <1>0, <1>14 DEF NetDeleteNetwork, Goto, ReturnError, Return
<1>15. CASE NetRemoveSecrets
  BY <1>0, <1>15 DEF NetRemoveSecrets, Goto, ReturnError, Return
<1>16. CASE NetRemoveFinalizer
  BY <1>0, <1>16 DEF NetRemoveFinalizer, ReturnError, Return, externalVars
<1> QED
  BY <1>1, <1>2, <1>3, <1>4, <1>5, <1>6, <1>7, <1>8, <1>9, <1>10, <1>11, <1>12,
     <1>13, <1>14, <1>15, <1>16 DEF NetNext

-----------------------------------------------------------------------------
(* Every step of the network controller keeps ApiInv and the live pods.    *)

\* Reconcile returns an error: nothing is written.
LEMMA ReturnErrorKeeps ==
  ASSUME ApiInv, UNCHANGED pod, ReturnError PROVE ApiInv' /\ StepKeepsLive
  BY DropKeeps DEF ReturnError, Holders

\* The Network as it is.
LEMMA UnchangedKeeps ==
  ASSUME ApiInv, UNCHANGED <<pod, apiVars>> PROVE ApiInv' /\ StepKeepsLive
  BY DEF ApiInv, ApiTypeOK, apiVars, InfoOK, KeptBy, Recorded, StepKeepsLive

\* A step that leaves the API server alone, and returns or goes on.
LEMMA KeepOrDropKeeps ==
  ASSUME ApiInv, UNCHANGED pod, KeepOrDrop PROVE ApiInv' /\ StepKeepsLive
  BY DropKeeps, UnchangedKeeps DEF KeepOrDrop, Holders

\* Whatever the network controller does to the Network, with a copy however
\* old, no live pod is lost from it.
LEMMA NetStepKeeps ==
  ASSUME TypeOK, ApiInv, NetNext, UNCHANGED pod PROVE ApiInv' /\ StepKeepsLive
<1>0. /\ NetWorker \in Holders /\ Account \in Holders /\ Informer \in Holders
      /\ {NetWorker, Account} \in SUBSET Holders /\ {Account} \in SUBSET Holders
      /\ obj \in Network /\ copy[Account] \in Network /\ network \in Network
  BY DEF ApiInv, ApiTypeOK, Holders, obj
<1>1. CASE NetGet
  <2>1. CASE ReadCached(NetWorker)
    BY <1>0, <2>1, ReadCachedKeeps
  <2>2. CASE UNCHANGED apiVars
    BY <2>2, UnchangedKeeps
  <2> QED
    BY <1>1, <2>1, <2>2 DEF NetGet
<1>2. CASE NetAddFinalizer
  <2> DEFINE new == [obj EXCEPT !.finalizers = @ \cup {NetworkFinalizer}]
  <2>1. new \in Network /\ new.Participating = copy[NetWorker].Participating
    BY <1>0 DEF Network, Finalizers, obj
  <2>2. CASE Accepts(NetWorker, new) /\ Update(NetWorker, new)
    <3> HIDE DEF new
    <3> QED BY <1>0, <2>1, <2>2, UpdateKeeps
  <2>3. CASE ReturnError
    BY <2>3, ReturnErrorKeeps
  <2> QED
    BY <1>2, <2>2, <2>3 DEF NetAddFinalizer
<1>3. CASE NetDesiredState
  BY <1>3, UnchangedKeeps, ReturnErrorKeeps DEF NetDesiredState
<1>4. CASE NetGetAccount
  <2> DEFINE new == [network EXCEPT !.UsedAccount = TRUE]
  <2>1. new \in Network /\ new.Participating = network.Participating
    BY <1>0 DEF Network
  <2>2. InfoOK(new.Participating) /\ KeptBy(new)
    BY <2>1 DEF ApiInv, KeptBy, Recorded
  <2>3. CASE ReadInto(Account, new)
    <3> HIDE DEF new
    <3> QED BY <1>0, <2>1, <2>2, <2>3, ReadKeeps
  <2>4. CASE ReturnError
    BY <2>4, ReturnErrorKeeps
  <2> QED
    BY <1>4, <2>3, <2>4 DEF NetGetAccount
<1>5. CASE NetSetAccount
  BY <1>0, <1>5, UpdateKeeps, ReturnErrorKeeps DEF NetSetAccount
<1>6. CASE NetSecrets
  BY <1>6, UnchangedKeeps, ReturnErrorKeeps DEF NetSecrets
<1>7. CASE NetConfirmAccount
  BY <1>0, <1>7, UpdateAndDropKeeps, ReturnErrorKeeps DEF NetConfirmAccount
<1>8. CASE NetCreateMain
  <2>1. CASE UNCHANGED copy
    BY <1>8, <2>1, UnchangedKeeps DEF NetCreateMain, apiVars
  <2>2. CASE \E std \in StandardOutcomes, agg \in AggregateOutcomes :
               copy' = [copy EXCEPT ![NetWorker].MainDomain =
                          [Standard |-> std.info, Aggregate |-> agg.info]]
    <3>1. PICK main \in MainDomainSpec :
            copy' = [copy EXCEPT ![NetWorker].MainDomain = main]
      BY <2>2, MainOutcomesTyped
    <3> DEFINE new == [obj EXCEPT !.MainDomain = main]
    <3>2. new \in Network /\ new.Participating = obj.Participating
      BY <1>0 DEF Network
    <3>3. copy' = [copy EXCEPT ![NetWorker] = new]
      BY <1>0, <3>1 DEF obj
    <3>4. InfoOK(new.Participating) /\ (KeptBy(copy[NetWorker]) => KeptBy(new))
      BY <1>0, <3>2 DEF ApiInv, KeptBy, Recorded, obj
    <3> HIDE DEF new
    <3> QED
      BY <1>0, <1>8, <3>2, <3>3, <3>4, EditKeeps DEF NetCreateMain
  <2> QED
    BY <1>8, <2>1, <2>2 DEF NetCreateMain
<1>9. CASE NetWriteMain
  BY <1>0, <1>9, UpdateKeeps, UnchangedKeeps DEF NetWriteMain, obj
<1>10. CASE NetJetstreams
  BY <1>10, UnchangedKeeps, KeepOrDropKeeps DEF NetJetstreams
<1>11. ASSUME NEW d \in Domains, NetNode(d) PROVE ApiInv' /\ StepKeepsLive
  <2>1. PICK created \in BOOLEAN :
          copy' = [copy EXCEPT ![NetWorker] = NodeTurn(obj, d, created)]
    BY <1>11 DEF NetNode
  <2> DEFINE new == NodeTurn(obj, d, created)
  <2>2. InfoOK(obj.Participating)
    BY <1>0 DEF ApiInv, obj
  <2>3. new \in Network /\ InfoOK(new.Participating)
    BY <1>0, <2>2, NodeTurnTyped, NodeTurnKeeps
  <2>4. KeptBy(obj) => KeptBy(new)
    BY <1>0, <2>2, NodeTurnKeeps DEF KeptBy
  <2> HIDE DEF new
  <2> QED
    BY <1>0, <1>11, <2>1, <2>3, <2>4, EditKeeps DEF NetNode, obj, new
<1>12. CASE NetWriteNodes
  <2>1. CASE KeepOrDrop
    BY <2>1, KeepOrDropKeeps
  <2>2. CASE Accepts(NetWorker, obj) /\ Update(NetWorker, obj)
    BY <1>0, <2>2, UpdateKeeps DEF obj
  <2>3. CASE Accepts(NetWorker, obj) /\ UpdateAndDrop({NetWorker, Account}, obj)
    BY <1>0, <2>3, UpdateAndDropKeeps DEF obj
  <2> QED
    BY <1>12, <2>1, <2>2, <2>3 DEF NetWriteNodes
<1>13. CASE NetDeleteMain
  BY <1>13, UnchangedKeeps DEF NetDeleteMain
<1>14. CASE NetDeleteNetwork
  BY <1>14, UnchangedKeeps, ReturnErrorKeeps DEF NetDeleteNetwork
<1>15. CASE NetRemoveSecrets
  BY <1>15, UnchangedKeeps, ReturnErrorKeeps DEF NetRemoveSecrets
<1>16. CASE NetRemoveFinalizer
  <2> DEFINE new == [obj EXCEPT !.finalizers = @ \ {NetworkFinalizer}]
  <2>1. new \in Network /\ new.Participating = copy[NetWorker].Participating
    BY <1>0 DEF Network, obj
  <2>2. CASE /\ Accepts(NetWorker, new)
             /\ UpdateAndDrop({NetWorker, Account}, new)
    <3> HIDE DEF new
    <3> QED BY <1>0, <2>1, <2>2, UpdateAndDropKeeps
  <2>3. CASE ReturnError
    BY <2>3, ReturnErrorKeeps
  <2> QED
    BY <1>16, <2>2, <2>3 DEF NetRemoveFinalizer
<1> QED
  BY <1>1, <1>2, <1>3, <1>4, <1>5, <1>6, <1>7, <1>8, <1>9, <1>10, <1>11, <1>12,
     <1>13, <1>14, <1>15, <1>16 DEF NetNext

-----------------------------------------------------------------------------
(* The steps of the pod controller and of the cluster.                     *)

\* What is known about the pods, apart from the Network.
PodInv == PodTypeOK /\ KeysBound /\ DeletesDead

\* A pod with its finalizer set or removed is a pod.
LEMMA FinalizerTyped ==
  ASSUME NEW o \in Pod
  PROVE  /\ [o EXCEPT !.finalizer = FALSE] \in Pod
         /\ [o EXCEPT !.phase = "live", !.finalizer = TRUE] \in Pod
<1>1. FALSE \in BOOLEAN /\ TRUE \in BOOLEAN
  OBVIOUS
<1>2. ASSUME NEW b \in BOOLEAN
      PROVE  /\ [o EXCEPT !.finalizer = b] \in Pod
             /\ [o EXCEPT !.phase = "live", !.finalizer = b] \in Pod
  BY DEF Pod
<1> QED
  BY <1>1, <1>2, Zenon

\* The worker takes up a pod the cache has with a node, and for deletion only
\* one that is being deleted.
LEMMA PodStepTyped ==
  ASSUME PodInv, PodNext PROVE PodInv'
<1> USE DEF PodInv, PodTypeOK, PodSteps, KeysBound, DeletesDead, Bound, Dead,
            Present, Pod
<1>1. ASSUME NEW p \in PodNames, PodGet(p) PROVE PodInv'
  BY <1>1 DEF PodGet
<1>2. ASSUME PodReturnError, ppc # "idle" PROVE PodInv'
  BY <1>2 DEF PodReturnError, PodReturn
<1>3. CASE PodCreateRead
  BY <1>3, <1>2 DEF PodCreateRead, PodRead
<1>4. CASE PodDeleteRead
  BY <1>4, <1>2 DEF PodDeleteRead, PodRead
<1>5. CASE PodRemoveFinalizers
  <2>1. CASE pod' = [pod EXCEPT ![key].finalizer = FALSE]
    <3>1. \A p \in PodNames : /\ pod'[p].phase = pod[p].phase
                              /\ pod'[p].node = pod[p].node
      BY <2>1
    <3>2. pod' \in [PodNames -> Pod]
      <4> DEFINE new == [pod[key] EXCEPT !.finalizer = FALSE]
      <4>1. pod' = [pod EXCEPT ![key] = new] /\ key \in PodNames
        BY <1>5, <2>1 DEF PodRemoveFinalizers
      <4>2. new \in Pod
        <5> HIDE DEF Pod
        <5> QED BY <4>1, FinalizerTyped
      <4> HIDE DEF new
      <4> QED
        BY <4>1, <4>2
    <3> QED
      BY <1>5, <2>1, <3>1, <3>2, <1>2 DEF PodRemoveFinalizers
  <2> QED
    BY <1>5, <1>2, <2>1 DEF PodRemoveFinalizers
<1>6. CASE PodWrite
  BY <1>6, <1>2 DEF PodWrite, PodReturn
<1> QED
  BY <1>1, <1>3, <1>4, <1>5, <1>6 DEF PodNext

\* Whatever the pod controller writes, no live pod is lost from the Network.
LEMMA PodStepKeeps ==
  ASSUME PodInv, ApiInv, PodNext PROVE ApiInv' /\ StepKeepsLive
<1>0. /\ PodWorker \in Holders /\ {PodWorker} \in SUBSET Holders
      /\ copy[PodWorker] \in Network /\ network \in Network
      /\ network.Participating \in ParticipatingSpec
      /\ InfoOK(network.Participating)
  BY DEF ApiInv, ApiTypeOK, Holders, Network
<1>1. ASSUME NEW p \in PodNames, PodGet(p) PROVE ApiInv' /\ StepKeepsLive
  BY <1>1, UnchangedKeeps DEF PodGet
<1>2. ASSUME PodReturnError PROVE ApiInv' /\ StepKeepsLive
  BY <1>0, <1>2, DropKeeps DEF PodReturnError
<1>3. ASSUME NEW i \in ParticipatingSpec, InfoOK(i), UNCHANGED pod,
             ReadInto(PodWorker, [network EXCEPT !.Participating = i]),
             \A d \in Domains : Recorded(network, d) \subseteq i.Pods[d] \cup i.PodsCreating[d]
      PROVE  ApiInv' /\ StepKeepsLive
  <2> DEFINE new == [network EXCEPT !.Participating = i]
  <2>1. new \in Network /\ new.Participating = i
    BY <1>0 DEF Network
  <2>2. KeptBy(new)
    BY <1>3, <2>1 DEF KeptBy, Recorded
  <2>3. ReadInto(PodWorker, new)
    BY <1>3
  <2> HIDE DEF new
  <2> QED
    BY <1>0, <1>3, <2>1, <2>2, <2>3, ReadKeeps
<1>4. CASE PodCreateRead
  <2> DEFINE i == PodCreating(network.Participating, DomainOf(pod[key].node), key)
  <2>1. CASE /\ Present(pod[key]) /\ UNCHANGED pod
             /\ ReadInto(PodWorker, [network EXCEPT !.Participating = i])
    <3>1. key \in PodNames /\ DomainOf(pod[key].node) \in Domains
          /\ pod[key].phase # "absent"
      BY <1>4, <2>1 DEF PodCreateRead, PodInv, KeysBound, Bound, DomainOf, Domains, Present
    <3>2. /\ i \in ParticipatingSpec /\ InfoOK(i)
          /\ \A d \in Domains : Recorded(network, d) \subseteq i.Pods[d] \cup i.PodsCreating[d]
      BY <1>0, <3>1, PodEditsTyped, PodCreatingKeeps DEF Recorded
    <3> HIDE DEF i
    <3> QED
      BY <2>1, <3>2, <1>3
  <2> QED
    BY <1>2, <1>4, <2>1 DEF PodCreateRead, PodRead
<1>5. CASE PodDeleteRead
  <2> DEFINE i == PodTerminating(network.Participating, pod[key].node, key)
  <2>1. CASE /\ Present(pod[key]) /\ UNCHANGED pod
             /\ ReadInto(PodWorker, [network EXCEPT !.Participating = i])
    <3>1. key \in PodNames /\ pod[key].node \in Domains /\ Dead(key)
      BY <1>5, <2>1 DEF PodDeleteRead, PodInv, KeysBound, DeletesDead, Bound, Domains
    <3>2. /\ i \in ParticipatingSpec /\ InfoOK(i)
          /\ \A d \in Domains : Recorded(network, d) \subseteq i.Pods[d] \cup i.PodsCreating[d]
      BY <1>0, <3>1, PodEditsTyped, PodTerminatingKeeps DEF Recorded, Dead
    <3> HIDE DEF i
    <3> QED
      BY <2>1, <3>2, <1>3
  <2> QED
    BY <1>2, <1>5, <2>1 DEF PodDeleteRead, PodRead
<1>6. CASE PodRemoveFinalizers
  <2>1. CASE pod' = [pod EXCEPT ![key].finalizer = FALSE] /\ UNCHANGED apiVars
    <3>1. PhasesAdvance
      BY <2>1 DEF PhasesAdvance, PodInv, PodTypeOK, Pod
    <3> QED
      BY <2>1, <3>1, AdvanceKeeps
  <2> QED
    BY <1>6, <1>2, <2>1 DEF PodRemoveFinalizers
<1>7. CASE PodWrite
  BY <1>0, <1>2, <1>7, UpdateAndDropKeeps DEF PodWrite
<1> QED
  BY <1>1, <1>4, <1>5, <1>6, <1>7 DEF PodNext

\* The life of the pods: they advance, and a node once given stays.
LEMMA ClusterStepKeeps ==
  ASSUME PodInv, ApiInv, NEW p \in PodNames, ClusterStep(p)
  PROVE  PodInv' /\ ApiInv' /\ StepKeepsLive
<1>1. PodInv'
  <2> USE DEF PodInv, PodTypeOK, PodSteps, KeysBound, DeletesDead, Bound, Dead,
              Present, Pod
  <2>1. CASE CreatePod(p)
    <3> DEFINE new == [pod[p] EXCEPT !.phase = "live", !.finalizer = TRUE]
    <3>1. pod' = [pod EXCEPT ![p] = new]
      BY <2>1 DEF CreatePod
    <3>2. new \in Pod
      <4> HIDE DEF Pod
      <4> QED BY FinalizerTyped
    <3>3. new.phase = "live" /\ new.node = pod[p].node
      OBVIOUS
    <3>4. /\ pod' \in [PodNames -> Pod]
          /\ pod'[p].phase = "live" /\ pod'[p].node = pod[p].node
          /\ \A q \in PodNames : q # p => pod'[q] = pod[q]
      <4> HIDE DEF new
      <4> QED BY <3>1, <3>2, <3>3
    <3> HIDE DEF new
    <3> QED
      BY <2>1, <3>4 DEF CreatePod
  <2>2. ASSUME NEW n \in NodeNames, SchedulePod(p, n) PROVE PodInv'
    BY <2>2, PodAssumption DEF SchedulePod
  <2>3. CASE DeletePod(p)
    BY <2>3 DEF DeletePod
  <2>4. CASE PodGone(p)
    BY <2>4 DEF PodGone, GonePod, NoPod
  <2>5. CASE WatchPod(p)
    BY <2>5 DEF WatchPod
  <2>6. CASE PodStatus(p)
    BY <2>6 DEF PodStatus
  <2> QED
    BY <2>1, <2>2, <2>3, <2>4, <2>5, <2>6 DEF ClusterStep
<1>2. PhasesAdvance
  BY DEF PhasesAdvance, ClusterStep, CreatePod, SchedulePod, DeletePod, PodGone,
         WatchPod, PodStatus, GonePod, NoPod, PodInv, PodTypeOK, Pod
<1> QED
  BY <1>1, <1>2, AdvanceKeeps DEF ClusterStep

-----------------------------------------------------------------------------
(* The inductive invariant holds, and what follows from it.                *)

\* A new Network has no participants and there are no pods.
LEMMA InitIInv == Init => IInv
<1> SUFFICES ASSUME Init PROVE IInv
  OBVIOUS
<1>1. NewNetwork.Participating = NoParticipants
  BY DEF NewNetwork, NoNetwork
<1>2. NoNetwork.Participating = NoParticipants
  BY DEF NoNetwork
<1>3. InfoOK(NoParticipants)
  BY <1>2, NoNetworkEmpty
<1>4. ApiTypeOK
  BY NoNetworkTyped DEF Init, ApiInit, ApiTypeOK, Holders
<1>5. /\ network.Participating = NoParticipants
      /\ \A h \in Holders : copy[h].Participating = NoParticipants
  BY <1>1, <1>2 DEF Init, ApiInit
<1>6. ApiInv
  BY <1>3, <1>4, <1>5 DEF ApiInv, KeptBy, Recorded, ApiTypeOK
<1>7. NetTypeOK
  BY DEF Init, NetInit, NetTypeOK
<1>8. PodInv
  BY DEF Init, PodInit, PodInv, PodTypeOK, KeysBound, DeletesDead, Dead, Bound,
         NoPod, Pod, PodSteps
<1> QED
  BY <1>4, <1>6, <1>7, <1>8, AnckAssumption DEF Init, IInv, PodInv, TypeOK

\* The parts of the invariant about the pods depend on nothing else.
LEMMA PodInvUnchanged ==
  ASSUME PodInv, UNCHANGED podVars PROVE PodInv' /\ UNCHANGED pod
  BY DEF PodInv, podVars, PodTypeOK, KeysBound, DeletesDead, Dead, Bound

\* Every step, of whichever worker, of the cluster or of a restart, keeps the
\* invariant and the live pods that are recorded.
LEMMA NextIInv ==
  ASSUME IInv, [Next]_vars PROVE IInv' /\ StepKeepsLive
<1>0. TypeOK /\ PodInv /\ ApiInv /\ NetTypeOK /\ restarts \in 0..MaxRestarts
  BY DEF IInv, PodInv, TypeOK
<1>1. SUFFICES /\ PodInv' /\ NetTypeOK' /\ restarts' \in 0..MaxRestarts
               /\ ApiInv' /\ StepKeepsLive
  BY DEF IInv, PodInv, TypeOK, ApiInv
<1>2. ASSUME UNCHANGED netVars PROVE NetTypeOK'
  BY <1>0, <1>2 DEF netVars, workerVars, externalVars, NetTypeOK
<1>3. CASE NetworkStep
  BY <1>0, <1>3, NetStepTyped, NetStepKeeps, PodInvUnchanged DEF NetworkStep
<1>4. CASE PodStep
  BY <1>0, <1>2, <1>4, PodStepTyped, PodStepKeeps DEF PodStep
<1>5. ASSUME NEW p \in PodNames, ClusterStep(p)
      PROVE  /\ PodInv' /\ NetTypeOK' /\ restarts' \in 0..MaxRestarts
             /\ ApiInv' /\ StepKeepsLive
  BY <1>0, <1>2, <1>5, ClusterStepKeeps DEF ClusterStep
<1>6. CASE WatchNetwork
  <2>1. NetTypeOK'
    BY <1>0, <1>6 DEF WatchNetwork, externalVars, NetTypeOK
  <2> QED
    BY <1>0, <1>6, <2>1, WatchKeeps, PodInvUnchanged DEF WatchNetwork
<1>7. CASE DeleteNetwork
  BY <1>0, <1>2, <1>7, MarkDeletedKeeps, PodInvUnchanged DEF DeleteNetwork
<1>8. CASE Restart
  <2>1. PodInv'
    BY <1>0, <1>8 DEF Restart, PodInv, PodTypeOK, PodSteps, KeysBound, DeletesDead,
      Dead, Bound, Present, Pod
  <2>2. NetTypeOK'
    BY <1>0, <1>8 DEF Restart, externalVars, NetTypeOK, ApiInv, ApiTypeOK, Network
  <2>3. restarts' \in 0..MaxRestarts
    BY <1>0, <1>8, AnckAssumption DEF Restart
  <2> QED
    BY <1>0, <1>8, <2>1, <2>2, <2>3, RestartKeeps DEF Restart
<1>9. CASE UNCHANGED vars
  BY <1>0, <1>2, <1>9, UnchangedKeeps, PodInvUnchanged DEF vars
<1> QED
  BY <1>3, <1>4, <1>5, <1>6, <1>7, <1>8, <1>9 DEF Next

\* The inductive invariant holds in every reachable state.
THEOREM Invariance == Spec => []IInv
<1>1. Init => IInv
  BY InitIInv
<1>2. IInv /\ [Next]_vars => IInv'
  BY NextIInv
<1> QED
  BY <1>1, <1>2, PTL DEF Spec

\* Every variable has its type: whatever fails, whenever the process is
\* restarted, the Info that is written back is well-formed.
THEOREM TypeCorrect == Spec => []TypeOK
<1>1. IInv => TypeOK
  BY DEF IInv
<1> QED
  BY <1>1, Invariance, PTL

\* Only pods that were really deleted are recorded as terminating, although
\* reconcileDeletePod decides on a cached pod and writes a Network read earlier.
THEOREM OnlyDeletedTerminate == Spec => []TerminatingWereDeleted
<1>1. IInv => TerminatingWereDeleted
  BY DEF IInv, ApiInv, InfoOK, TerminatingWereDeleted, info
<1> QED
  BY <1>1, Invariance, PTL

\* The pods of a Network are always reached by the loop of reconcileJetstreams,
\* which goes over the entries of Nodes.
THEOREM PodsAreTracked == Spec => []TrackedNodes
<1>1. IInv => TrackedNodes
  BY DEF IInv, ApiInv, InfoOK, TrackedNodes, info, Recorded
<1> QED
  BY <1>1, Invariance, PTL

\* No live pod is lost: neither worker overwrites what the other recorded.
THEOREM NoLostPod == Spec => LivePodStaysRecorded
<1>1. IInv /\ [Next]_vars => [StepKeepsLive]_vars
  BY NextIInv
<1>2. Spec => [][StepKeepsLive]_vars
  BY <1>1, Invariance, PTL DEF Spec
<1> QED
  BY <1>2 DEF LivePodStaysRecorded, StepKeepsLive

=============================================================================
