------------------------- MODULE ParticipatingInfo -------------------------
(***************************************************************************)
(* Info.Participating of a Network resource (ParticipatingSpec) and the    *)
(* pure functions the two controllers apply to it.                         *)
(*                                                                         *)
(* The Go maps are total functions here: a node without an entry in Nodes  *)
(* is "none", one without an entry in a pod list has the empty list.  The  *)
(* pod lists are sets: every list is made unique where it is written, and  *)
(* SliceEqual, Contains and len(..) >= 1, the only ways they are read,     *)
(* cannot tell two orders apart.                                           *)
(***************************************************************************)
EXTENDS FiniteSets

CONSTANTS PodNames,   \* the pods that carry a participant label
          NodeNames,  \* the kubernetes nodes
          EdgeNodes,  \* those with the label node-role.kubernetes.io/edge
          Main        \* the JetStream domain "main"

ASSUME ParticipatingAssumption ==
  /\ EdgeNodes \subseteq NodeNames
  /\ Main \notin NodeNames
  /\ IsFiniteSet(NodeNames)

Domains == NodeNames \cup {Main}

NodeStates == {"none", "pending", "active", "terminating"}

ParticipatingSpec ==
  [Nodes           : [Domains -> NodeStates],
   Pods            : [Domains -> SUBSET PodNames],
   PodsCreating    : [Domains -> SUBSET PodNames],
   PodsTerminating : [Domains -> SUBSET PodNames]]

NoParticipants ==
  [Nodes           |-> [d \in Domains |-> "none"],
   Pods            |-> [d \in Domains |-> {}],
   PodsCreating    |-> [d \in Domains |-> {}],
   PodsTerminating |-> [d \in Domains |-> {}]]

-----------------------------------------------------------------------------
(* What the pod controller does to the info.                               *)

\* The domain a pod on node n is recorded under when it is created.
DomainOf(n) == IF n \in EdgeNodes THEN n ELSE Main

\* reconcileCreatePod: pod p of domain d, unless it is already in Pods[d].
PodCreating(i, d, p) ==
  IF p \in i.Pods[d]
    THEN i
    ELSE [i EXCEPT !.PodsCreating[d] = @ \cup {p},
                   !.Nodes[d] = IF @ = "active" THEN @ ELSE "pending"]

\* reconcileDeletePod: pod p of node n; the node, not its domain, is the key.
PodTerminating(i, n, p) ==
  LET terminating == i.PodsTerminating[n] \cup {p}
      last        == terminating = i.Pods[n] /\ p \notin i.PodsCreating[n]
  IN  [i EXCEPT !.PodsTerminating[n] = terminating,
                !.Nodes[n] = IF last THEN "terminating" ELSE @]

-----------------------------------------------------------------------------
(* What the loop of reconcileJetstreams does to the info.                  *)

\* Mutant of networkNodeState: pods being created make any node an old one.
networkNodeStateNeverNew(i, d) ==
  IF i.PodsCreating[d] # {} THEN "stillPartitipatingCreate" ELSE "invalid"

networkNodeState(i, d) ==
  CASE i.PodsCreating[d] # {} /\ i.Pods[d] = {} -> "new"
    [] i.PodsCreating[d] # {} /\ i.Pods[d] # {} -> "stillPartitipatingCreate"
    [] i.PodsCreating[d] = {} /\ i.Pods[d] # {}
         /\ i.PodsTerminating[d] = i.Pods[d] -> "stillPartitipatingDelete"
    [] i.PodsCreating[d] = {} /\ i.PodsTerminating[d] # {}
         /\ i.PodsTerminating[d] # i.Pods[d] -> "deleted"
    [] OTHER -> "invalid"

\* Mutant of NodeActivated: the state the docs name, "created", is written.
NodeActivatedAsCreated(i, d) ==
  [i EXCEPT !.Nodes[d] = "created",
            !.Pods[d] = @ \cup i.PodsCreating[d],
            !.PodsCreating[d] = {}]

\* Mutant of NodeActivated: the pods are not moved before they are cleared.
NodeActivatedWithoutPods(i, d) ==
  [i EXCEPT !.Nodes[d] = "active", !.PodsCreating[d] = {}]

\* Mutant of NodeActivated: the pods are moved and not cleared.
NodeActivatedTwice(i, d) ==
  [i EXCEPT !.Nodes[d] = "active", !.Pods[d] = @ \cup i.PodsCreating[d]]

\* case new: the streams exist, the pods of the node are now participating.
NodeActivated(i, d) ==
  [i EXCEPT !.Nodes[d] = "active",
            !.Pods[d] = @ \cup i.PodsCreating[d],
            !.PodsCreating[d] = {}]

\* case stillPartitipatingCreate.  The inner loop redeclares the variable node,
\* so it moves the pods of every node and not only those of the current one.
CreatingMoved(i) ==
  [i EXCEPT !.Pods = [d \in Domains |-> i.Pods[d] \cup i.PodsCreating[d]],
            !.PodsCreating = [d \in Domains |-> {}]]

\* Mutant of NodeRemoved: the node is deleted from Nodes and not from Pods.
NodeRemovedFromNodes(i, d) ==
  [i EXCEPT !.Nodes[d] = "none", !.PodsTerminating[d] = {}]

\* case stillPartitipatingDelete: the node stops participating.
NodeRemoved(i, d) ==
  [i EXCEPT !.Nodes[d] = "none",
            !.Pods[d] = {},
            !.PodsTerminating[d] = {}]

\* case deleted: only the terminating pods stop participating.
TerminatedRemoved(i, d) ==
  [i EXCEPT !.Pods[d] = @ \ i.PodsTerminating[d],
            !.PodsTerminating[d] = {}]

=============================================================================
