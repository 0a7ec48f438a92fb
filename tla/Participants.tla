---------------------------- MODULE Participants ----------------------------
(***************************************************************************)
(* ParticipantsReconciler: its Reconcile, which lists a component in its   *)
(* Network, and its event filter, which runs beside it in the goroutine of *)
(* the informer and removes a participant that was deleted, together with  *)
(* the worker of the network controller and its secrets.                   *)
(*                                                                         *)
(* A Participants resource carries no finalizer: once deleted it is gone,  *)
(* and the only trace of it is the Delete event.                           *)
(***************************************************************************)
EXTENDS ComponentSecrets

CONSTANTS Resources,     \* the Participants resources
          NetworkOf,     \* spec.network of each
          ComponentOf,   \* <spec.app>.<spec.component> of each
          Leaving,       \* the resources and Networks a user may delete
          MaxTries,      \* retry.DefaultRetry.Steps, 5 in the code
          MaxDisturbances   \* bound on restarts, calls that fail and writes
                            \* of other parts of the Networks, together

ASSUME ParticipantsAssumption ==
  /\ NetworkOf \in [Resources -> NetworkNames]
  /\ ComponentOf \in [Resources -> ComponentNames]
  /\ None \notin Resources
  /\ Leaving \subseteq Resources \cup NetworkNames
  /\ MaxTries \in Nat \ {0}
  /\ MaxDisturbances \in Nat

VARIABLES resource,      \* the life of each Participants resource
          cache,         \* the resources in the manager's cache
          queue,         \* the work queue of Reconcile
          deleteEvents,  \* Delete events the filter has not seen yet
          rec,           \* Reconcile: its next call, resource, try and copy
          filter,        \* the event filter, in the same way
          disturbances   \* restarts, failures and other writes so far

participantsVars == <<resource, cache, queue, deleteEvents, rec, filter>>
vars == <<netsVars, secretVars, workVars, participantsVars, disturbances>>

\* A function in progress: the Components it read and edited, if any.
Call == [pc : {"idle", "read", "write", "readSecret", "deleteSecret",
               "readDapr", "deleteDapr"},
         of : Resources \cup {None},
         try : 0..MaxTries,
         Components : SUBSET ComponentNames]

NoCall == [pc |-> "idle", of |-> None, try |-> 0, Components |-> {}]

Start(o) == [pc |-> "read", of |-> o, try |-> 1, Components |-> {}]

TypeOK ==
  /\ SecretsTypeOK
  /\ resource \in [Resources -> {"absent", "live", "gone"}]
  /\ cache \in [Resources -> {"absent", "live", "gone"}]
  /\ queue \subseteq Resources
  /\ deleteEvents \subseteq Resources
  /\ rec \in Call
  /\ filter \in Call
  /\ disturbances \in 0..MaxDisturbances

Init ==
  /\ SecretsInit
  /\ resource = [o \in Resources |-> "absent"]
  /\ cache = resource
  /\ queue = {}
  /\ deleteEvents = {}
  /\ rec = NoCall
  /\ filter = NoCall
  /\ disturbances = 0

-----------------------------------------------------------------------------
(* The resources and their events, which arrive one by one and in order.   *)

CreateResource(o) ==
  /\ resource[o] = "absent"
  /\ resource' = [resource EXCEPT ![o] = "live"]
  /\ UNCHANGED <<cache, queue, deleteEvents, rec, filter>>

DeleteResource(o) ==
  /\ resource[o] = "live"
  /\ resource' = [resource EXCEPT ![o] = "gone"]
  /\ UNCHANGED <<cache, queue, deleteEvents, rec, filter>>

\* CreateFunc lets every Create event through; DeleteFunc has yet to run.
WatchResource(o) ==
  /\ cache[o] # resource[o]
  /\ \/ /\ cache[o] = "absent"
        /\ cache' = [cache EXCEPT ![o] = "live"]
        /\ queue' = queue \cup {o}
        /\ UNCHANGED deleteEvents
     \/ /\ cache[o] = "live"
        /\ cache' = [cache EXCEPT ![o] = "gone"]
        /\ deleteEvents' = deleteEvents \cup {o}
        /\ UNCHANGED queue
  /\ UNCHANGED <<resource, rec, filter>>

-----------------------------------------------------------------------------
(* Reconcile.                                                              *)

\* r.Get from the cache: a resource that is not found is not queued again.
RecStart(o) ==
  /\ rec.pc = "idle"
  /\ o \in queue
  /\ queue' = queue \ {o}
  /\ rec' = IF cache[o] = "live" THEN Start(o) ELSE NoCall
  /\ UNCHANGED <<netsVars, resource, cache, deleteEvents, filter>>

\* Every other way out of Reconcile queues the resource again.
RecReturn ==
  /\ rec' = NoCall
  /\ queue' = queue \cup {rec.of}

\* Mutant of addParticipant: all components of the network instead of the one.
addParticipantAll(components, o) ==
  components \cup {ComponentOf[r] : r \in {x \in Resources : NetworkOf[x] = NetworkOf[o]}}

\* Mutant of addParticipant: a new map instead of an entry in the map.
addParticipantOnly(components, o) == {ComponentOf[o]}

addParticipant(components, o) == components \cup {ComponentOf[o]}

removeParticipant(components, o) == components \ {ComponentOf[o]}

\* networkExists and the Get of the retried function.  Both are live, and
\* without the Network both end in a requeue.
RecRead ==
  /\ rec.pc = "read"
  /\ LET n == NetworkOf[rec.of]
     IN  \/ /\ Exists(n)
            /\ ReadNet("reconcile", n)
            /\ rec' = [rec EXCEPT !.pc = "write", !.Components =
                         addParticipant(nets[n].Components, rec.of)]
            /\ UNCHANGED queue
         \/ /\ ~Exists(n)
            /\ RecReturn
            /\ UNCHANGED netsVars
  /\ UNCHANGED <<resource, cache, deleteEvents, filter>>

\* The Update of h's copy is accepted.
Accepted(h, call) == /\ Exists(NetworkOf[call.of])
                     /\ h \in latest[NetworkOf[call.of]]

\* h's copy of the Network is stored.
Write(h, call) ==
  LET n == NetworkOf[call.of]
  IN  StoreNet(h, n, [nets[n] EXCEPT !.Components = call.Components])

\* Mutant of Retries: nothing bounds the number of tries.
RetriesForever(call) == Exists(NetworkOf[call.of])

\* A conflict starts the retried function again, up to MaxTries times; that the
\* Network is gone does not.
Retries(call) == Exists(NetworkOf[call.of]) /\ call.try < MaxTries

Again(call) == [Start(call.of) EXCEPT !.try = call.try + 1]

RecWrite ==
  /\ rec.pc = "write"
  /\ \/ /\ Accepted("reconcile", rec)
        /\ Write("reconcile", rec)
        /\ RecReturn
     \/ /\ ~Accepted("reconcile", rec)
        /\ \/ Retries(rec) /\ rec' = Again(rec) /\ UNCHANGED queue
           \/ ~Retries(rec) /\ RecReturn
        /\ UNCHANGED netsVars
  /\ UNCHANGED <<resource, cache, deleteEvents, filter>>

RecNext ==
  /\ \/ \E o \in Resources : RecStart(o)
     \/ RecRead
     \/ RecWrite
  /\ UNCHANGED secretVars

-----------------------------------------------------------------------------
(* DeleteFunc of the event filter.  What it cannot do it never does: its   *)
(* errors are dropped, and nothing is queued.                              *)

FilterGoto(step) == filter' = [filter EXCEPT !.pc = step]
FilterDone == filter' = NoCall

FilterStart(o) ==
  /\ filter.pc = "idle"
  /\ o \in deleteEvents
  /\ deleteEvents' = deleteEvents \ {o}
  /\ filter' = Start(o)
  /\ UNCHANGED <<netsVars, secretVars>>

FilterRead ==
  /\ filter.pc = "read"
  /\ LET n == NetworkOf[filter.of]
     IN  \/ /\ Exists(n)
            /\ ReadNet("filter", n)
            /\ filter' = [filter EXCEPT !.pc = "write", !.Components =
                            removeParticipant(nets[n].Components, filter.of)]
         \/ /\ ~Exists(n)
            /\ FilterDone
            /\ UNCHANGED netsVars
  /\ UNCHANGED <<secretVars, deleteEvents>>

FilterWrite ==
  /\ filter.pc = "write"
  /\ \/ /\ Accepted("filter", filter)
        /\ Write("filter", filter)
        /\ filter' = [filter EXCEPT !.pc = "readSecret", !.Components = {}]
     \/ /\ ~Accepted("filter", filter)
        /\ IF Retries(filter) THEN filter' = Again(filter) ELSE FilterDone
        /\ UNCHANGED netsVars
  /\ UNCHANGED <<secretVars, deleteEvents>>

\* removeNetworkFromComponentSecret: here a secret that is not found is an
\* error, after which the dapr secret is left alone.
FilterReadSecret ==
  /\ filter.pc = "readSecret"
  /\ LET secret == secrets[ComponentOf[filter.of]]
     IN  IF secret = {} THEN FilterDone
         ELSE FilterGoto(IF NetworkOf[filter.of] \in secret THEN "deleteSecret"
                                                            ELSE "readDapr")
  /\ UNCHANGED <<netsVars, secretVars, deleteEvents>>

FilterDeleteSecret ==
  /\ filter.pc = "deleteSecret"
  /\ secrets' = [secrets EXCEPT ![ComponentOf[filter.of]] = {}]
  /\ FilterGoto("readDapr")
  /\ UNCHANGED <<netsVars, dapr, deleteEvents>>

FilterReadDapr ==
  /\ filter.pc = "readDapr"
  /\ IF NetworkOf[filter.of] \in dapr[ComponentOf[filter.of]]
       THEN FilterGoto("deleteDapr")
       ELSE FilterDone
  /\ UNCHANGED <<netsVars, secretVars, deleteEvents>>

FilterDeleteDapr ==
  /\ filter.pc = "deleteDapr"
  /\ dapr' = [dapr EXCEPT ![ComponentOf[filter.of]] = {}]
  /\ FilterDone
  /\ UNCHANGED <<netsVars, secrets, deleteEvents>>

FilterNext ==
  /\ \/ \E o \in Resources : FilterStart(o)
     \/ FilterRead
     \/ FilterWrite
     \/ FilterReadSecret
     \/ FilterDeleteSecret
     \/ FilterReadDapr
     \/ FilterDeleteDapr
  /\ UNCHANGED <<resource, cache, queue, rec>>

-----------------------------------------------------------------------------
(* All of it.                                                              *)

Disturbance == /\ disturbances < MaxDisturbances
               /\ disturbances' = disturbances + 1

NetworkStep(n) ==
  /\ \/ CreateNetwork(n) /\ UNCHANGED disturbances
     \/ n \in Leaving /\ DeleteNetwork(n) /\ UNCHANGED disturbances
     \/ OtherWrite(n) /\ Disturbance
  /\ UNCHANGED <<secretVars, workVars, participantsVars>>

WatchStep(n) ==
  /\ WatchNet(n)
  /\ UNCHANGED <<secretVars, workVars, participantsVars, disturbances>>

ResourceStep(o) ==
  /\ CreateResource(o) \/ (o \in Leaving /\ DeleteResource(o))
  /\ UNCHANGED <<netsVars, secretVars, workVars, disturbances>>

EventStep(o) ==
  /\ WatchResource(o)
  /\ UNCHANGED <<netsVars, secretVars, workVars, disturbances>>

WorkStep == WorkNext /\ UNCHANGED <<participantsVars, disturbances>>
RecStep == RecNext /\ UNCHANGED <<workVars, disturbances>>
FilterStep == FilterNext /\ UNCHANGED <<workVars, disturbances>>

\* A call fails and its function returns the error: the worker and Reconcile are
\* queued again, the event filter is not.
Failure ==
  /\ Disturbance
  /\ \/ /\ wpc # "idle"
        /\ WorkReturn
        /\ UNCHANGED participantsVars
     \/ /\ rec.pc # "idle"
        /\ RecReturn
        /\ UNCHANGED <<netsVars, workVars, resource, cache, deleteEvents, filter>>
     \/ /\ filter.pc # "idle"
        /\ FilterDone
        /\ UNCHANGED <<netsVars, workVars, resource, cache, queue, deleteEvents,
                       rec>>
  /\ UNCHANGED secretVars

\* The process ends in the middle of something.  The new one lists what there
\* is; Delete events of before are lost.
Restart ==
  /\ Disturbance
  /\ \/ wpc # "idle" \/ rec.pc # "idle" \/ filter.pc # "idle"
     \/ deleteEvents # {} \/ cache # resource
  /\ netCache' = nets
  /\ latest' = [n \in NetworkNames |-> {"cache"}]
  /\ wpc' = "idle"
  /\ work' = NoWork
  /\ cache' = resource
  /\ queue' = {o \in Resources : resource[o] = "live"}
  /\ deleteEvents' = {}
  /\ rec' = NoCall
  /\ filter' = NoCall
  /\ UNCHANGED <<nets, secretVars, resource>>

Next ==
  \/ \E n \in NetworkNames : NetworkStep(n) \/ WatchStep(n)
  \/ \E o \in Resources : ResourceStep(o) \/ EventStep(o)
  \/ WorkStep
  \/ RecStep
  \/ FilterStep
  \/ Failure
  \/ Restart

Spec == Init /\ [][Next]_vars

\* Workers run and events arrive; both queues are first in, first out, and a
\* Network that exists is queued again every few seconds.
Fairness ==
  /\ WF_vars(WorkStep)
  /\ WF_vars(RecStep)
  /\ WF_vars(FilterStep)
  /\ \A n \in NetworkNames :
       /\ WF_vars(WatchStep(n))
       /\ SF_vars(WorkStart(n)
                  /\ UNCHANGED <<participantsVars, disturbances>>)
  /\ \A o \in Resources :
       /\ WF_vars(EventStep(o))
       /\ SF_vars(RecStart(o)
                  /\ UNCHANGED <<secretVars, workVars, disturbances>>)

FairSpec == Spec /\ Fairness

-----------------------------------------------------------------------------
(* Properties.                                                             *)

\* o is the only resource that ever made its component join its network.
Sole(o) ==
  \A q \in Resources \ {o} :
    NetworkOf[q] = NetworkOf[o] /\ ComponentOf[q] = ComponentOf[o]
      => resource[q] = "absent"

\* No lost update of Components: a participant that is listed and not deleted
\* stays listed, while Reconcile and the event filter write copies of the same
\* Network that they read at different times.
ListedStaysListed ==
  [][\A o \in Resources :
       LET n == NetworkOf[o]
       IN  /\ resource[o] = "live" /\ Sole(o)
           /\ ComponentOf[o] \in nets[n].Components
           /\ nets'[n].life # "gone"
           => ComponentOf[o] \in nets'[n].Components]_vars

\* Reconcile and the event filter, which read a Network, edit the copy and write
\* it back with retries, implement Membership: each write has the effect of one
\* join or one leave on the Network that is stored then, for a resource that
\* was created or, for a leave, deleted.
Registry == INSTANCE Membership WITH
  life <- [n \in NetworkNames |-> nets[n].life],
  members <- [n \in NetworkNames |-> nets[n].Components]

ImplementsMembership == Registry!Spec

\* A Network takes its secrets with it: credentials of a Network that is gone
\* are only left with a component whose Participants resource was deleted
\* before, so that reconcileDeleteNetwork no longer knew of it.
SecretsGoWithNetwork ==
  \A n \in NetworkNames, c \in ComponentNames :
    nets[n].life = "gone" /\ n \in secrets[c] \cup dapr[c]
      => \E o \in Resources : /\ NetworkOf[o] = n
                              /\ ComponentOf[o] = c
                              /\ resource[o] = "gone"

\* A component that participates for good has the credentials and the dapr file
\* of its network for good, from some time on, although removing any other of
\* its networks deletes both secrets.
ParticipantServed ==
  \A o \in Resources :
    LET n == NetworkOf[o]
        c == ComponentOf[o]
    IN  <>[](resource[o] = "live" /\ nets[n].life = "live")
          => <>[](n \in secrets[c] /\ n \in dapr[c])

\* A component that no longer participates loses the credentials.
GoneParticipantForgotten ==
  \A o \in Resources :
    resource[o] = "gone" ~> \/ NetworkOf[o] \notin secrets[ComponentOf[o]]
                            \/ ~Sole(o)

=============================================================================
