-------------------------------- MODULE Anck --------------------------------
(***************************************************************************)
(* The anck process with its network and its pod controller, next to the   *)
(* cluster they work in: the two workers run concurrently, each read the   *)
(* caches lagging behind the API server, and the process may be restarted  *)
(* at any point.                                                           *)
(***************************************************************************)
EXTENDS NetworkController, PodController

CONSTANTS Events,       \* what the cluster does besides creating and binding pods
          MaxRestarts   \* bound on the number of restarts of the process

ASSUME AnckAssumption ==
  /\ Events \subseteq {"deletePod", "deleteNetwork", "podStatus"}
  /\ MaxRestarts \in Nat

VARIABLE restarts   \* the number of restarts so far

vars == <<apiVars, netVars, podVars, restarts>>

Init == ApiInit /\ NetInit /\ PodInit /\ restarts = 0

\* The Update event of the Network passes the predicate if the generation
\* changed and a finalizer is left; a Delete event never does.
WatchNetwork ==
  /\ Watch
  /\ netQueued' = \/ netQueued
                  \/ /\ GenerationChanged(copy[Informer], network)
                     /\ network.finalizers # {}
  /\ UNCHANGED <<npc, todo, dirty, failed, externalVars, podVars, restarts>>

DeleteNetwork ==
  /\ "deleteNetwork" \in Events
  /\ MarkDeleted
  /\ UNCHANGED <<netVars, podVars, restarts>>

\* Everything in memory is lost; the new process lists the Networks and the
\* pods and gets a Create event for each.
Restart ==
  /\ restarts < MaxRestarts
  /\ restarts' = restarts + 1
  /\ npc # "idle" \/ ppc # "idle"
  /\ copy' = [h \in Holders |-> IF h = Informer THEN network ELSE NoNetwork]
  /\ current' = {Informer}
  /\ npc' = "idle"
  /\ netQueued' = network.exists
  /\ todo' = {}
  /\ dirty' = FALSE
  /\ failed' = FALSE
  /\ podCache' = pod
  /\ podQueue' = {p \in PodNames : Present(pod[p])}
  /\ ppc' = "idle"
  /\ key' = None
  /\ UNCHANGED <<network, externalVars, pod>>

NetworkStep == NetNext /\ UNCHANGED <<podVars, restarts>>

PodStep == PodNext /\ UNCHANGED <<netVars, restarts>>

ClusterStep(p) ==
  /\ \/ CreatePod(p)
     \/ \E n \in NodeNames : SchedulePod(p, n)
     \/ "deletePod" \in Events /\ DeletePod(p)
     \/ PodGone(p)
     \/ WatchPod(p)
     \/ "podStatus" \in Events /\ PodStatus(p)
  /\ UNCHANGED <<apiVars, netVars, restarts>>

Next ==
  \/ NetworkStep
  \/ PodStep
  \/ \E p \in PodNames : ClusterStep(p)
  \/ WatchNetwork
  \/ DeleteNetwork
  \/ Restart

Spec == Init /\ [][Next]_vars

\* The workers run, the watches deliver, the kubelet finishes deletions, and
\* the pod queue is first in, first out: no pod in it is passed over forever.
\* Nothing makes a user or the scheduler act.
Fairness ==
  /\ WF_vars(NetworkStep)
  /\ WF_vars(PodStep)
  /\ WF_vars(WatchNetwork)
  /\ \A p \in PodNames :
       /\ SF_vars(PodGet(p) /\ UNCHANGED <<netVars, restarts>>)
       /\ WF_vars((WatchPod(p) \/ PodGone(p))
                  /\ UNCHANGED <<apiVars, netVars, restarts>>)

FairSpec == Spec /\ Fairness

-----------------------------------------------------------------------------
(* Properties of the stored Network and of what exists outside of it.      *)

TypeOK == ApiTypeOK /\ NetTypeOK /\ PodTypeOK /\ restarts \in 0..MaxRestarts

info == network.Participating

\* The pods the Network knows in domain d.
Recorded(o, d) == o.Participating.Pods[d] \cup o.Participating.PodsCreating[d]

\* Only pods that were really deleted are recorded as terminating, however old
\* the pod and the Network were that reconcileDeletePod worked on.
TerminatingWereDeleted ==
  \A d \in Domains : \A p \in info.PodsTerminating[d] :
    pod[p].phase \in {"deleting", "gone"}

\* A node with pods has an entry in Nodes: reconcileJetstreams loops over Nodes
\* only, so the pods of any other node would never be handled.
TrackedNodes ==
  \A d \in Domains : Recorded(network, d) # {} => info.Nodes[d] # "none"

\* No lost update: once a live pod is recorded it stays recorded, whatever the
\* two workers, with copies read at different times, write to the Network.
LivePodStaysRecorded ==
  [][\A p \in PodNames, d \in Domains :
       /\ p \in Recorded(network, d)
       /\ pod[p].phase = "live"
       /\ network'.exists
       => p \in Recorded(network', d)]_vars

\* The two controllers, with all their reads of any age and writes that may be
\* refused, implement Participation: every write of the Network announces one
\* pod, or serves announced pods of domains that have their streams and forgets
\* deleted pods.
Contract == INSTANCE Participation WITH
  life <- [p \in PodNames |-> pod[p].phase],
  state <- IF ~network.exists THEN "gone"
           ELSE IF network.deleting THEN "deleting" ELSE "live",
  ready <- {d \in Domains : NodeStreams \subseteq streams[d]},
  creating <- info.PodsCreating,
  serving <- info.Pods

ImplementsParticipation == Contract!Spec

\* reconcileJetstreams marks a node active only after its streams exist; in the
\* main domain they go with the deletion of the Network.
ActiveHasStreams ==
  \A d \in Domains :
    info.Nodes[d] = "active" /\ ~(d = Main /\ network.deleting)
      => NodeStreams \subseteq streams[d]

\* A pod is moved to Pods only when the streams of its node exist.
StreamsBeforePods ==
  \A d \in NodeNames : info.Pods[d] # {} => NodeStreams \subseteq streams[d]

\* Where the aggregate stream takes its messages from has the streams, however
\* old the list of the active nodes is that it was last given.
SourcesHaveStreams ==
  \A d \in aggregate.sources :
    ~(d = Main /\ network.deleting) => NodeStreams \subseteq streams[d]

\* What reconcileCreate makes outside before it comes to the nodes.
NoSetup ==
  ~creds /\ ~anckSecret /\ Standard \notin streams[Main] /\ ~aggregate.exists

\* As long as anck-credentials has an account, anck's secret exists or one of
\* the streams with location "main" exists, the Network exists and carries the
\* finalizer that makes reconcileDelete clean up.  Node streams in domain main
\* are not among these: see DeletionCompletes.
SetupIsHeld ==
  NoSetup \/ (network.exists /\ NetworkFinalizer \in network.finalizers)

\* Nothing of what reconcileDelete is to remove is left; js.Delete removes every
\* stream of domain main, also those made there for pods of cloud nodes.
NoExternals == NoSetup /\ streams[Main] = {}

\* The pod controller records the end of a pod under the key its start was
\* recorded under; only there can reconcileJetstreams bring the two together.
TerminatingUnderItsDomain ==
  \A d \in Domains : \A p \in info.PodsTerminating[d] :
    \A e \in Domains \ {d} : p \notin Recorded(network, e)

-----------------------------------------------------------------------------
(* Liveness, under FairSpec.                                               *)

\* The Network is there and is to stay.
Wanted == network.exists /\ ~network.deleting

\* A pod that is bound to a node ends up in Pods of its domain: conflicts with
\* the other worker, and restarts, do not starve it.
PodServed ==
  \A p \in PodNames, n \in NodeNames :
    pod[p].node = n ~> p \in info.Pods[DomainOf(n)] \/ ~Wanted

\* An active node becomes a source of the aggregate stream.
AggregateCatchesUp ==
  \A d \in Domains : info.Nodes[d] = "active" ~> d \in aggregate.sources \/ ~Wanted

\* A pod that is gone is recorded as terminating or not recorded at all.
TerminationRecorded ==
  \A p \in PodNames : pod[p].phase = "gone" ~>
    \/ \E d \in Domains : p \in info.PodsTerminating[d]
    \/ \A d \in Domains : p \notin Recorded(network, d)

\* A pod that is gone does not stay in Pods.
GonePodsForgotten ==
  \A p \in PodNames :
    pod[p].phase = "gone" ~> \A d \in Domains : p \notin info.Pods[d]

=============================================================================
