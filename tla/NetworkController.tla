------------------------- MODULE NetworkController -------------------------
(***************************************************************************)
(* NetworksReconciler: Reconcile of one Network resource, one action per   *)
(* call it makes to the API server, to anck-credentials or to JetStream,   *)
(* with everything computed between two calls in the action of the call.   *)
(*                                                                         *)
(* It has one worker.  netQueued says that the Network is in the work      *)
(* queue, which holds it at most once; a requeue with a delay is a requeue.*)
(***************************************************************************)
EXTENDS KubeApi

CONSTANTS NodeStreams,        \* the streams of the spec with location "node"
          MainStreams,        \* the kinds of streams with location "main"
          SpecNamespaceSet    \* whether spec.namespace is given

Standard == "standard"
Aggregate == "aggregate"

ASSUME NetworkAssumption ==
  /\ MainStreams \subseteq {Standard, Aggregate}
  /\ Standard \notin NodeStreams
  /\ SpecNamespaceSet \in BOOLEAN

VARIABLES npc,         \* the call the reconciler makes next
          netQueued,   \* the Network is in the work queue
          todo,        \* nodes the loop of reconcileJetstreams has left
          dirty,       \* this loop changed the Info
          failed,      \* a part of reconcileDelete returned an error
          creds,       \* anck-credentials has an account for the network
          anckSecret,  \* the secret with anck's own credentials exists
          streams,     \* the streams of the network in each domain
          aggregate    \* its aggregate stream in the main domain

workerVars == <<npc, netQueued, todo, dirty, failed>>
externalVars == <<creds, anckSecret, streams, aggregate>>
netVars == <<workerVars, externalVars>>

CreateSteps == {"addFinalizer", "desiredState", "getAccount", "setAccount",
                "secrets", "confirmAccount", "createMain", "writeMain"}
DeleteSteps == {"deleteMain", "deleteNetwork", "removeSecrets",
                "removeFinalizer"}
SharedSteps == {"jetstreams", "nodes"}

NetTypeOK ==
  /\ npc \in {"idle"} \cup CreateSteps \cup DeleteSteps \cup SharedSteps
  /\ netQueued \in BOOLEAN
  /\ todo \subseteq Domains
  /\ dirty \in BOOLEAN
  /\ failed \in BOOLEAN
  /\ creds \in BOOLEAN
  /\ anckSecret \in BOOLEAN
  /\ streams \in [Domains -> SUBSET (NodeStreams \cup {Standard})]
  /\ aggregate \in [exists : BOOLEAN, sources : SUBSET Domains]

\* The Network was just created: its Create event is in the queue.
NetInit ==
  /\ npc = "idle"
  /\ netQueued = TRUE
  /\ todo = {}
  /\ dirty = FALSE
  /\ failed = FALSE
  /\ creds = FALSE
  /\ anckSecret = FALSE
  /\ streams = [d \in Domains |-> {}]
  /\ aggregate = [exists |-> FALSE, sources |-> {}]

\* The object this Reconcile works on.
obj == copy[NetWorker]

Goto(step) ==
  /\ npc' = step
  /\ UNCHANGED <<netQueued, todo, dirty, failed>>

\* Reconcile returns; requeue says whether the Network goes back in the queue.
\* The caller drops the objects.
Return(requeue) ==
  /\ npc' = "idle"
  /\ netQueued' = (netQueued \/ requeue)
  /\ todo' = {}
  /\ dirty' = FALSE
  /\ failed' = FALSE

ReturnError == Return(TRUE) /\ Drop({NetWorker, Account})

-----------------------------------------------------------------------------
(* Reconcile, reconcileCreate and reconcileCreateNetwork.                  *)

NetGet ==
  /\ npc = "idle"
  /\ netQueued
  /\ netQueued' = FALSE
  /\ UNCHANGED <<todo, dirty, failed, externalVars>>
  /\ LET cached == copy[Informer]
         ours   == NetworkFinalizer \in cached.finalizers
     IN  IF cached.exists /\ (cached.deleting => ours)
           THEN /\ ReadCached(NetWorker)
                /\ npc' = IF cached.deleting THEN "deleteMain"
                          ELSE IF ours THEN "desiredState"
                          ELSE "addFinalizer"
           ELSE UNCHANGED <<npc, apiVars>>

\* Update with our finalizer added.
NetAddFinalizer ==
  /\ npc = "addFinalizer"
  /\ UNCHANGED externalVars
  /\ LET new == [obj EXCEPT !.finalizers = @ \cup {NetworkFinalizer}]
     IN  \/ /\ Accepts(NetWorker, new)
            /\ Update(NetWorker, new)
            /\ Goto("desiredState")
         \/ /\ Faults \/ ~Accepts(NetWorker, new)
            /\ ReturnError

\* Dial and DesiredState.  A call that fails may have taken effect.
NetDesiredState ==
  /\ npc = "desiredState"
  /\ UNCHANGED <<anckSecret, streams, aggregate>>
  /\ \/ /\ creds' = TRUE
        /\ Goto(IF obj.UsedAccount THEN "secrets" ELSE "getAccount")
        /\ UNCHANGED apiVars
     \/ /\ Faults
        /\ creds' \in {creds, TRUE}
        /\ ReturnError

\* SetNetworkAccountName: the live Get, and the account name set.
NetGetAccount ==
  /\ npc = "getAccount"
  /\ UNCHANGED externalVars
  /\ \/ /\ network.exists
        /\ ReadInto(Account, [network EXCEPT !.UsedAccount = TRUE])
        /\ Goto("setAccount")
     \/ /\ Faults \/ ~network.exists
        /\ ReturnError

\* SetNetworkAccountName: the Update.  Only the local variable network of
\* reconcileCreateNetwork is the new object; the caller keeps the old one.
NetSetAccount ==
  /\ npc = "setAccount"
  /\ UNCHANGED externalVars
  /\ \/ /\ Accepts(Account, copy[Account])
        /\ Update(Account, copy[Account])
        /\ Goto("secrets")
     \/ /\ Faults \/ ~Accepts(Account, copy[Account])
        /\ ReturnError

\* Namespace, nats-server-info and the secrets of the components, of which
\* anck's own is the one kept here.
NetSecrets ==
  /\ npc = "secrets"
  /\ UNCHANGED <<creds, streams, aggregate>>
  /\ \/ /\ anckSecret' = TRUE
        /\ Goto(IF obj.UsedAccount THEN "createMain" ELSE "confirmAccount")
        /\ UNCHANGED apiVars
     \/ /\ Faults
        /\ anckSecret' \in {anckSecret, TRUE}
        /\ ReturnError

\* updateInfoAndReturn at the end of reconcileCreateNetwork: the account name
\* differs from the copy, so the object it was just set on is written again.
NetConfirmAccount ==
  /\ npc = "confirmAccount"
  /\ UNCHANGED externalVars
  /\ \/ /\ Accepts(Account, copy[Account])
        /\ UpdateAndDrop({Account}, copy[Account])
        /\ Goto("createMain")
     \/ /\ Faults \/ ~Accepts(Account, copy[Account])
        /\ ReturnError

-----------------------------------------------------------------------------
(* createMainJetstreams.                                                   *)

\* The credentials of a secret that is not there are read as "", with which no
\* connection to NATS succeeds.
Connects == anckSecret

\* Main-domain outcomes: what is in the domain afterwards and what is recorded.
\* Exists looks for the bare stream name and never finds it, so Create, which
\* loads a stream that is already there, is called every time.
StandardOutcomes ==
  LET now == [streams |-> streams[Main], info |-> obj.MainDomain.Standard]
      ok  == [streams |-> streams[Main] \cup {Standard}, info |-> "created"]
  IN  IF Standard \notin MainStreams THEN {now}
      ELSE (IF Connects THEN {ok} ELSE {now})
           \cup (IF Connects /\ Faults
                   THEN {now, [now EXCEPT !.info = "error"],
                              [ok EXCEPT !.info = "error"]}
                   ELSE {})

\* The orders in which the keys of a map come out of a range loop.
Orders(S) ==
  {s \in [1..Cardinality(S) -> S] : \A i, j \in DOMAIN s : i # j => s[i] # s[j]}

\* Mutant of ActiveNodes: the state of the docs, "created", instead of "active".
CreatedNodes == {d \in Domains : obj.Participating.Nodes[d] = "created"}

\* Mutant of ActiveNodes: all nodes of the map.
ParticipatingNodes == {d \in Domains : obj.Participating.Nodes[d] # "none"}

ActiveNodes == {d \in Domains : obj.Participating.Nodes[d] = "active"}

\* CreateAggregate: no stream is created while it would have no source.
AggregateWith(sources) ==
  IF aggregate.exists \/ sources # {}
    THEN [exists |-> TRUE, sources |-> sources]
    ELSE aggregate

AggregateOutcomes ==
  LET recorded(state) ==
        {[State |-> state, SourceDomains |-> s] : s \in Orders(ActiveNodes)}
      ok   == [aggregate : {AggregateWith(ActiveNodes)},
               info : recorded("created")]
      fail == [aggregate : {aggregate} \cup
                           (IF Connects THEN {AggregateWith(ActiveNodes)} ELSE {}),
               info : recorded("error")]
  IN  IF Aggregate \notin MainStreams
        THEN [aggregate : {aggregate}, info : {obj.MainDomain.Aggregate}]
        ELSE (IF Connects THEN ok ELSE fail) \cup (IF Faults THEN fail ELSE {})

NetCreateMain ==
  /\ npc = "createMain"
  /\ UNCHANGED <<creds, anckSecret, network, current>>
  /\ \/ /\ SpecNamespaceSet
        /\ \E std \in StandardOutcomes, agg \in AggregateOutcomes :
             LET main == [Standard |-> std.info, Aggregate |-> agg.info]
             IN  /\ streams' = [streams EXCEPT ![Main] = std.streams]
                 /\ aggregate' = agg.aggregate
                 /\ copy' = [copy EXCEPT ![NetWorker].MainDomain = main]
                 /\ Goto(IF main = obj.MainDomain THEN "jetstreams"
                                                 ELSE "writeMain")
     \/ /\ ~SpecNamespaceSet \/ Faults    \* no credentials, or no nats address
        /\ UNCHANGED <<streams, aggregate, copy>>
        /\ Goto("jetstreams")

\* updateInfoAndReturn of createMainJetstreams.  Its error only has the effect
\* of a requeue, which reconcileCreate asks for anyway.
NetWriteMain ==
  /\ npc = "writeMain"
  /\ UNCHANGED externalVars
  /\ Goto("jetstreams")
  /\ \/ /\ Accepts(NetWorker, obj)
        /\ Update(NetWorker, obj)
     \/ /\ Faults \/ ~Accepts(NetWorker, obj)
        /\ UNCHANGED apiVars

-----------------------------------------------------------------------------
(* reconcileJetstreams, which reconcileCreate and reconcileDelete call.    *)

\* Its caller goes on: reconcileCreate requeues, reconcileDelete notes an error.
AfterJetstreams(error) ==
  IF obj.deleting
    THEN /\ npc' = "deleteNetwork"
         /\ failed' = (failed \/ error)
         /\ todo' = {}
         /\ dirty' = FALSE
         /\ UNCHANGED netQueued
    ELSE Return(TRUE)

\* After a call that left the API server alone.
KeepOrDrop == IF obj.deleting THEN UNCHANGED apiVars
                              ELSE Drop({NetWorker, Account})

\* The credentials are read and the loop starts.
NetJetstreams ==
  /\ npc = "jetstreams"
  /\ UNCHANGED externalVars
  /\ \/ /\ SpecNamespaceSet
        /\ npc' = "nodes"
        /\ todo' = {d \in Domains : obj.Participating.Nodes[d] # "none"}
        /\ dirty' = FALSE
        /\ UNCHANGED <<netQueued, failed, apiVars>>
     \/ /\ ~SpecNamespaceSet \/ Faults
        /\ AfterJetstreams(TRUE)
        /\ KeepOrDrop

\* Mutant of NodeTurn: errorsCreatingJetstreams is not looked at.
NodeTurnIgnoringErrors(o, d, created) ==
  IF networkNodeState(o.Participating, d) = "new"
    THEN [o EXCEPT !.Participating = NodeActivated(o.Participating, d),
                   !.finalizers = @ \cup {d}]
    ELSE o

\* What node d's turn in the loop makes of the object.  The finalizers are
\* collected and set after the loop; no node is in both of the lists.
NodeTurn(o, d, created) ==
  LET i == o.Participating
  IN  CASE networkNodeState(i, d) = "new" /\ created ->
             [o EXCEPT !.Participating = NodeActivated(i, d),
                       !.finalizers = @ \cup {d}]
        [] networkNodeState(i, d) = "stillPartitipatingCreate" ->
             [o EXCEPT !.Participating = CreatingMoved(i)]
        [] networkNodeState(i, d) = "stillPartitipatingDelete"
             /\ i.Nodes[d] = "terminating" ->
             [o EXCEPT !.Participating = NodeRemoved(i, d),
                       !.finalizers = @ \ {d}]
        [] networkNodeState(i, d) = "deleted" ->
             [o EXCEPT !.Participating = TerminatedRemoved(i, d),
                       !.finalizers = @ \ {d}]
        [] OTHER -> o

\* Streams are created only for a new node that is pending.
Creates(d) == /\ networkNodeState(obj.Participating, d) = "new"
              /\ obj.Participating.Nodes[d] = "pending"

\* One iteration.  An attempt that fails counts even when a retry succeeds, so
\* an unsuccessful turn may leave any part of the streams behind.  Without any
\* stream to create nothing can fail.
NetNode(d) ==
  /\ npc = "nodes"
  /\ d \in todo
  /\ todo' = todo \ {d}
  /\ UNCHANGED <<npc, netQueued, failed, creds, anckSecret, aggregate,
                 network, current>>
  /\ \E created \in BOOLEAN :
       /\ created => Creates(d) /\ (Connects \/ NodeStreams = {})
       /\ Creates(d) /\ ~created => NodeStreams # {} /\ (Faults \/ ~Connects)
       /\ \E made \in SUBSET NodeStreams :
            /\ created => made = NodeStreams
            /\ made # {} => Creates(d) /\ Connects
            /\ streams' = [streams EXCEPT ![d] = @ \cup made]
       /\ LET new == NodeTurn(obj, d, created)
          IN  /\ copy' = [copy EXCEPT ![NetWorker] = new]
              /\ dirty' = (dirty \/ new.Participating # obj.Participating)

\* updateInfoAndReturn of reconcileJetstreams: a write only if the Info changed.
NetWriteNodes ==
  /\ npc = "nodes"
  /\ todo = {}
  /\ UNCHANGED externalVars
  /\ \/ /\ ~dirty
        /\ AfterJetstreams(FALSE)
        /\ KeepOrDrop
     \/ /\ dirty
        /\ Accepts(NetWorker, obj)
        /\ AfterJetstreams(FALSE)
        /\ IF obj.deleting THEN Update(NetWorker, obj)
                           ELSE UpdateAndDrop({NetWorker, Account}, obj)
     \/ /\ dirty
        /\ Faults \/ ~Accepts(NetWorker, obj)
        /\ AfterJetstreams(TRUE)
        /\ KeepOrDrop

-----------------------------------------------------------------------------
(* reconcileDelete and reconcileDeleteNetwork.                             *)

\* js.Delete deletes every stream of the main domain that it lists.
NetDeleteMain ==
  /\ npc = "deleteMain"
  /\ npc' = "jetstreams"
  /\ UNCHANGED <<netQueued, todo, dirty, creds, anckSecret, apiVars>>
  /\ \/ /\ SpecNamespaceSet
        /\ Connects
        /\ streams' = [streams EXCEPT ![Main] = {}]
        /\ aggregate' = [exists |-> FALSE, sources |-> {}]
        /\ UNCHANGED failed
     \/ /\ ~SpecNamespaceSet \/ ~Connects
        /\ failed' = TRUE
        /\ UNCHANGED <<streams, aggregate>>
     \/ /\ Faults /\ SpecNamespaceSet /\ Connects
        /\ failed' = TRUE
        /\ \E kept \in SUBSET streams[Main] :
             streams' = [streams EXCEPT ![Main] = kept]
        /\ aggregate' \in {aggregate, [exists |-> FALSE, sources |-> {}]}

\* Dial and DeleteNetwork of anck-credentials.
NetDeleteNetwork ==
  /\ npc = "deleteNetwork"
  /\ UNCHANGED <<anckSecret, streams, aggregate>>
  /\ \/ /\ creds' = FALSE
        /\ Goto("removeSecrets")
        /\ UNCHANGED apiVars
     \/ /\ Faults
        /\ creds' \in {creds, FALSE}
        /\ ReturnError

\* Mutant of NetRemoveSecrets: the earlier errors are forgotten.
NetRemoveSecretsForgetful ==
  /\ npc = "removeSecrets"
  /\ UNCHANGED <<creds, streams, aggregate>>
  /\ anckSecret' = FALSE
  /\ Goto("removeFinalizer")
  /\ UNCHANGED apiVars

\* The secrets are removed; anck's own is the last one.  An earlier error of
\* reconcileDelete is returned only now.
NetRemoveSecrets ==
  /\ npc = "removeSecrets"
  /\ UNCHANGED <<creds, streams, aggregate>>
  /\ \/ /\ anckSecret' = FALSE
        /\ IF failed THEN ReturnError
                     ELSE Goto("removeFinalizer") /\ UNCHANGED apiVars
     \/ /\ Faults
        /\ anckSecret' \in {anckSecret, FALSE}
        /\ ReturnError

\* Update with our finalizer removed; nothing is requeued after it.
NetRemoveFinalizer ==
  /\ npc = "removeFinalizer"
  /\ UNCHANGED externalVars
  /\ LET new == [obj EXCEPT !.finalizers = @ \ {NetworkFinalizer}]
     IN  \/ /\ Accepts(NetWorker, new)
            /\ UpdateAndDrop({NetWorker, Account}, new)
            /\ Return(FALSE)
         \/ /\ Faults \/ ~Accepts(NetWorker, new)
            /\ ReturnError

NetNext ==
  \/ NetGet
  \/ NetAddFinalizer
  \/ NetDesiredState
  \/ NetGetAccount
  \/ NetSetAccount
  \/ NetSecrets
  \/ NetConfirmAccount
  \/ NetCreateMain
  \/ NetWriteMain
  \/ NetJetstreams
  \/ \E d \in Domains : NetNode(d)
  \/ NetWriteNodes
  \/ NetDeleteMain
  \/ NetDeleteNetwork
  \/ NetRemoveSecrets
  \/ NetRemoveFinalizer

=============================================================================
