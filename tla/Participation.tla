--------------------------- MODULE Participation ---------------------------
(***************************************************************************)
(* What the network and the pod controller promise together, without their *)
(* queues, caches and copies of the Network: a pod is announced, is served *)
(* once its domain has the streams, and is forgotten only when it was      *)
(* deleted or the Network is gone.                                         *)
(***************************************************************************)
CONSTANTS PodNames, Domains, Main

VARIABLES life,       \* the life of each pod
          state,      \* the life of the Network
          ready,      \* the domains with all streams of the network
          creating,   \* the pods announced in each domain
          serving     \* the pods served in each domain

vars == <<life, state, ready, creating, serving>>

Nobody == [d \in Domains |-> {}]

Init ==
  /\ life = [p \in PodNames |-> "absent"]
  /\ state = "live"
  /\ ready \in SUBSET Domains
  /\ creating = Nobody
  /\ serving = Nobody

\* The cluster: pods are created and deleted, and disappear.
Live(p, from, to) ==
  /\ life[p] = from
  /\ life' = [life EXCEPT ![p] = to]
  /\ UNCHANGED <<state, ready, creating, serving>>

\* The user deletes the Network; without any finalizer it is gone at once.
Delete ==
  /\ state = "live"
  /\ state' = "deleting"
  /\ UNCHANGED <<life, ready, creating, serving>>

Gone ==
  /\ state' = "gone"
  /\ creating' = Nobody
  /\ serving' = Nobody
  /\ UNCHANGED <<life, ready>>

\* Streams are created; those of the main domain go with the Network.
Streams ==
  /\ state # "gone"
  /\ ready' \in SUBSET Domains
  /\ ready \ ready' \subseteq {d \in {Main} : state = "deleting"}
  /\ UNCHANGED <<life, state, creating, serving>>

\* The pod may be deleted by now, but there was one.
Announce(p, d) ==
  /\ state # "gone"
  /\ life[p] # "absent"
  /\ p \notin serving[d]
  /\ creating' = [creating EXCEPT ![d] = @ \cup {p}]
  /\ UNCHANGED <<life, state, ready, serving>>

\* One round: the announced pods of the domains D are served from now on, and
\* only deleted pods are forgotten.
Settle(D) ==
  /\ state # "gone"
  /\ state = "live" => D \subseteq ready
  /\ creating' = [d \in Domains |-> IF d \in D THEN {} ELSE creating[d]]
  /\ serving' \in [Domains -> SUBSET PodNames]
  /\ \A d \in Domains :
       LET served == IF d \in D THEN serving[d] \cup creating[d] ELSE serving[d]
       IN  /\ serving'[d] \subseteq served
           /\ \A p \in served \ serving'[d] : life[p] \in {"deleting", "gone"}
  /\ UNCHANGED <<life, state, ready>>

Next ==
  \/ \E p \in PodNames :
       \/ Live(p, "absent", "live")
       \/ Live(p, "live", "deleting")
       \/ Live(p, "deleting", "gone")
       \/ \E d \in Domains : Announce(p, d)
  \/ Delete
  \/ Gone
  \/ Streams
  \/ \E D \in SUBSET Domains : Settle(D)

Spec == Init /\ [][Next]_vars

=============================================================================
