----------------------------- MODULE Membership -----------------------------
(***************************************************************************)
(* What the participants controller promises, without its reads, copies    *)
(* and retries: the members of a network change one at a time, in one      *)
(* step.  A component joins because of a Participants resource that was    *)
(* created, and leaves only because of one that was deleted.               *)
(***************************************************************************)
CONSTANTS NetworkNames, ComponentNames, Resources, NetworkOf, ComponentOf

VARIABLES resource,   \* the life of each Participants resource
          life,       \* the life of each Network
          members     \* the components in its Components

vars == <<resource, life, members>>

Init ==
  /\ resource = [o \in Resources |-> "absent"]
  /\ life = [n \in NetworkNames |-> "absent"]
  /\ members = [n \in NetworkNames |-> {}]

\* The user creates and deletes resources and Networks.
Resource(o, from, to) ==
  /\ resource[o] = from
  /\ resource' = [resource EXCEPT ![o] = to]
  /\ UNCHANGED <<life, members>>

Network(n, from, to) ==
  /\ life[n] = from
  /\ life' = [life EXCEPT ![n] = to]
  /\ UNCHANGED <<resource, members>>

\* The members of the network of o become new; all other networks keep theirs.
Change(o, new) ==
  /\ life[NetworkOf[o]] \in {"live", "deleting"}
  /\ members' = [members EXCEPT ![NetworkOf[o]] = new]
  /\ UNCHANGED <<resource, life>>

\* The resource may have been deleted since its Reconcile began.
Join(o) ==
  /\ resource[o] # "absent"
  /\ Change(o, members[NetworkOf[o]] \cup {ComponentOf[o]})

Leave(o) ==
  /\ resource[o] = "gone"
  /\ Change(o, members[NetworkOf[o]] \ {ComponentOf[o]})

\* The last finalizer is removed from a Network.
Close(n) ==
  /\ life[n] = "deleting"
  /\ life' = [life EXCEPT ![n] = "gone"]
  /\ members' = [members EXCEPT ![n] = {}]
  /\ UNCHANGED resource

Next ==
  \/ \E o \in Resources :
       \/ Resource(o, "absent", "live")
       \/ Resource(o, "live", "gone")
       \/ Join(o)
       \/ Leave(o)
  \/ \E n \in NetworkNames :
       \/ Network(n, "absent", "live")
       \/ Network(n, "live", "deleting")
       \/ Close(n)

Spec == Init /\ [][Next]_vars

=============================================================================
