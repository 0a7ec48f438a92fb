--------------------------- MODULE PodController ---------------------------
(***************************************************************************)
(* PodsReconiler: Reconcile of the labelled pods, each a participant of    *)
(* the one Network, and the life of the pods themselves: users create and  *)
(* delete them, the scheduler binds them, the kubelet lets them go.        *)
(*                                                                         *)
(* A pod comes with a finalizer (its creator sets it): without one its     *)
(* deletion never reaches this controller.                                 *)
(***************************************************************************)
EXTENDS KubeApi

CONSTANT None   \* no node: the pod is not scheduled; no pod: the worker is idle

ASSUME PodAssumption == None \notin NodeNames /\ None \notin PodNames

VARIABLES pod,        \* the pods in the API server
          podCache,   \* the pods in the manager's cache
          podQueue,   \* the pods in the work queue
          ppc,        \* the call the reconciler makes next
          key         \* the pod it reconciles

podVars == <<pod, podCache, podQueue, ppc, key>>

Pod == [phase : {"absent", "live", "deleting", "gone"},
        node : NodeNames \cup {None},
        finalizer : BOOLEAN]

NoPod == [phase |-> "absent", node |-> None, finalizer |-> FALSE]
GonePod == [NoPod EXCEPT !.phase = "gone"]

Present(o) == o.phase \in {"live", "deleting"}

PodSteps == {"createRead", "createWrite", "deleteRead", "removeFinalizers",
             "deleteWrite"}

PodTypeOK ==
  /\ pod \in [PodNames -> Pod]
  /\ podCache \in [PodNames -> Pod]
  /\ podQueue \subseteq PodNames
  /\ ppc \in {"idle"} \cup PodSteps
  /\ key \in PodNames \cup {None}

PodInit ==
  /\ pod = [p \in PodNames |-> NoPod]
  /\ podCache = [p \in PodNames |-> NoPod]
  /\ podQueue = {}
  /\ ppc = "idle"
  /\ key = None

-----------------------------------------------------------------------------
(* The life of a pod outside anck.                                         *)

CreatePod(p) ==
  /\ pod[p].phase = "absent"
  /\ pod' = [pod EXCEPT ![p].phase = "live", ![p].finalizer = TRUE]
  /\ UNCHANGED <<podCache, podQueue, ppc, key>>

SchedulePod(p, n) ==
  /\ pod[p].phase = "live"
  /\ pod[p].node = None
  /\ pod' = [pod EXCEPT ![p].node = n]
  /\ UNCHANGED <<podCache, podQueue, ppc, key>>

DeletePod(p) ==
  /\ pod[p].phase = "live"
  /\ pod' = [pod EXCEPT ![p].phase = "deleting"]
  /\ UNCHANGED <<podCache, podQueue, ppc, key>>

\* The containers have stopped and no finalizer holds the pod.
PodGone(p) ==
  /\ pod[p].phase = "deleting"
  /\ ~pod[p].finalizer
  /\ pod' = [pod EXCEPT ![p] = GonePod]
  /\ UNCHANGED <<podCache, podQueue, ppc, key>>

\* The predicates: Create passes, Update passes while the pod has a finalizer
\* (a pod's generation never changes here), Delete does not.
WatchPod(p) ==
  /\ podCache[p] # pod[p]
  /\ podCache' = [podCache EXCEPT ![p] = pod[p]]
  /\ podQueue' = IF Present(pod[p]) /\
                    (pod[p].finalizer \/ podCache[p].phase = "absent")
                   THEN podQueue \cup {p} ELSE podQueue
  /\ UNCHANGED <<pod, ppc, key>>

\* An update of the pod's status passes the same predicate.
PodStatus(p) ==
  /\ podCache[p] = pod[p]
  /\ Present(pod[p])
  /\ pod[p].finalizer
  /\ p \notin podQueue
  /\ podQueue' = podQueue \cup {p}
  /\ UNCHANGED <<pod, podCache, ppc, key>>

-----------------------------------------------------------------------------
(* Reconcile.                                                              *)

PodReturn(requeue) ==
  /\ ppc' = "idle"
  /\ key' = None
  /\ podQueue' = IF requeue THEN podQueue \cup {key} ELSE podQueue
  /\ UNCHANGED podCache

PodReturnError == PodReturn(TRUE) /\ Drop({PodWorker}) /\ UNCHANGED pod

\* Mutant of PodGet: the test of the deletion timestamp is inverted.
PodGetInverted(p) ==
  /\ ppc = "idle"
  /\ p \in podQueue
  /\ Present(podCache[p]) => podCache[p].node # None
  /\ podQueue' = podQueue \ {p}
  /\ IF Present(podCache[p])
       THEN /\ key' = p
            /\ ppc' = IF podCache[p].phase = "deleting" THEN "createRead"
                                                        ELSE "deleteRead"
       ELSE UNCHANGED <<key, ppc>>
  /\ UNCHANGED <<pod, podCache, apiVars>>

\* A pod that is not scheduled yet is requeued with a delay: it stays queued.
PodGet(p) ==
  /\ ppc = "idle"
  /\ p \in podQueue
  /\ Present(podCache[p]) => podCache[p].node # None
  /\ podQueue' = podQueue \ {p}
  /\ IF Present(podCache[p])
       THEN /\ key' = p
            /\ ppc' = IF podCache[p].phase = "deleting" THEN "deleteRead"
                                                        ELSE "createRead"
       ELSE UNCHANGED <<key, ppc>>
  /\ UNCHANGED <<pod, podCache, apiVars>>

\* GetPod, GetNodeLabels and GetNetwork, all live; the info is then edited.
PodRead(step, edited) ==
  \/ /\ Present(pod[key])
     /\ network.exists
     /\ ReadInto(PodWorker, [network EXCEPT !.Participating = edited])
     /\ ppc' = step
     /\ UNCHANGED <<pod, podCache, podQueue, key>>
  \/ /\ Faults \/ ~Present(pod[key]) \/ ~network.exists
     /\ PodReturnError

PodCreateRead ==
  /\ ppc = "createRead"
  /\ PodRead("createWrite",
             PodCreating(network.Participating, DomainOf(pod[key].node), key))

PodDeleteRead ==
  /\ ppc = "deleteRead"
  /\ PodRead("removeFinalizers",
             PodTerminating(network.Participating, pod[key].node, key))

\* UpdatePod, without finalizers; it comes before the Network is written.
PodRemoveFinalizers ==
  /\ ppc = "removeFinalizers"
  /\ \/ /\ Present(pod[key])
        /\ pod' = [pod EXCEPT ![key].finalizer = FALSE]
        /\ ppc' = "deleteWrite"
        /\ UNCHANGED <<podCache, podQueue, key, apiVars>>
     \/ /\ Faults \/ ~Present(pod[key])
        /\ PodReturnError

\* Mutant of PodWrite: a conflict is only logged, so nothing is retried.
PodWriteIgnoringErrors ==
  /\ ppc \in {"createWrite", "deleteWrite"}
  /\ UNCHANGED pod
  /\ PodReturn(FALSE)
  /\ IF Accepts(PodWorker, copy[PodWorker])
       THEN UpdateAndDrop({PodWorker}, copy[PodWorker])
       ELSE Drop({PodWorker})

\* UpdateNetwork, the last call of both paths.
PodWrite ==
  /\ ppc \in {"createWrite", "deleteWrite"}
  /\ UNCHANGED pod
  /\ \/ /\ Accepts(PodWorker, copy[PodWorker])
        /\ UpdateAndDrop({PodWorker}, copy[PodWorker])
        /\ PodReturn(FALSE)
     \/ /\ Faults \/ ~Accepts(PodWorker, copy[PodWorker])
        /\ PodReturnError

PodNext ==
  \/ \E p \in PodNames : PodGet(p)
  \/ PodCreateRead
  \/ PodDeleteRead
  \/ PodRemoveFinalizers
  \/ PodWrite

=============================================================================
