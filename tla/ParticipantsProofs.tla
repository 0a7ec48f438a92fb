------------------------- MODULE ParticipantsProofs -------------------------
(***************************************************************************)
(* Proofs about Participants, for any networks, components and resources,  *)
(* any of which may leave, any number of tries, and any number of          *)
(* restarts, failures and other writes.                                    *)
(***************************************************************************)
EXTENDS Participants, TLAPS

-----------------------------------------------------------------------------
(* The inductive invariant.  ListedStaysListed needs to know of a copy     *)
(* that would be accepted what it keeps of the stored Components           *)
(* (CopiesKeep), and that the event filter only works on resources that    *)
(* are gone (DeletedAreGone).                                              *)

CallsBound ==
  /\ rec.pc # "idle" => rec.of \in Resources
  /\ filter.pc # "idle" => filter.of \in Resources

WorkBound ==
  /\ wpc # "idle" => work.network \in NetworkNames
  /\ wpc \notin {"idle", "next", "nextRemoval"} => work.component \in ComponentNames

DeletedAreGone ==
  /\ \A o \in Resources :
       /\ cache[o] = "live" => resource[o] # "absent"
       /\ cache[o] = "gone" \/ o \in deleteEvents => resource[o] = "gone"
  /\ filter.pc # "idle" => resource[filter.of] = "gone"

CopiesKeep ==
  /\ rec.pc = "write" /\ "reconcile" \in latest[NetworkOf[rec.of]]
       => nets[NetworkOf[rec.of]].Components \subseteq rec.Components
  /\ filter.pc = "write" /\ "filter" \in latest[NetworkOf[filter.of]]
       => nets[NetworkOf[filter.of]].Components
            \subseteq filter.Components \cup {ComponentOf[filter.of]}

\* A Network that is yet to be created lists nobody.
AbsentEmpty ==
  \A n \in NetworkNames : nets[n].life = "absent" => nets[n].Components = {}

PInv ==
  /\ TypeOK
  /\ CallsBound
  /\ WorkBound
  /\ DeletedAreGone
  /\ CopiesKeep
  /\ AbsentEmpty

\* What ListedStaysListed says of one step.
StepKeepsListed ==
  \A o \in Resources :
    LET n == NetworkOf[o]
    IN  /\ resource[o] = "live" /\ Sole(o)
        /\ ComponentOf[o] \in nets[n].Components
        /\ nets'[n].life # "gone"
        => ComponentOf[o] \in nets'[n].Components

\* The Components of a Network that stays are left alone or grow.
ComponentsGrow ==
  \A n \in NetworkNames :
    nets'[n].life # "gone" => nets[n].Components \subseteq nets'[n].Components

-----------------------------------------------------------------------------
(* What the copies keep is only disturbed by a step that leaves someone    *)
(* the stored version of a Network that changed, or edits a copy.          *)

\* A step that moves no call, and takes the version from all who had a copy of
\* a Network that it changes, keeps what the copies keep.
LEMMA CopiesKept ==
  ASSUME TypeOK, CallsBound, CopiesKeep,
         UNCHANGED <<rec, filter>>,
         \A n \in NetworkNames, h \in {"reconcile", "filter"} :
           h \in latest'[n] =>
             h \in latest[n] /\ nets'[n].Components = nets[n].Components
  PROVE  CopiesKeep'
<1>1. rec.pc = "write" => NetworkOf[rec.of] \in NetworkNames
  BY ParticipantsAssumption DEF CallsBound
<1>2. filter.pc = "write" => NetworkOf[filter.of] \in NetworkNames
  BY ParticipantsAssumption DEF CallsBound
<1> QED
  BY <1>1, <1>2 DEF CopiesKeep

\* The Networks without a change satisfy the conditions of both.
LEMMA NetsUnchanged ==
  ASSUME TypeOK, UNCHANGED nets
  PROVE  ComponentsGrow
  BY DEF ComponentsGrow

\* Growing Components lose nobody.
LEMMA GrowthKeeps ==
  ASSUME TypeOK, ComponentsGrow
  PROVE  StepKeepsListed
  BY ParticipantsAssumption DEF ComponentsGrow, StepKeepsListed

-----------------------------------------------------------------------------
(* The steps of the network worker.                                        *)

\* A step of the worker keeps the invariant and changes no Components.
LEMMA WorkStepInv ==
  ASSUME PInv, WorkStep
  PROVE  PInv' /\ ComponentsGrow
<1> USE DEF TypeOK, SecretsTypeOK, Work, NetObject, NetHolders, WriteSteps,
            RemoveSteps
<1>0. WorkNext /\ UNCHANGED <<participantsVars, disturbances>>
  BY DEF WorkStep
<1> DEFINE Kept ==
      /\ SecretsTypeOK' /\ WorkBound' /\ ComponentsGrow /\ AbsentEmpty'
      /\ \A n \in NetworkNames, h \in {"reconcile", "filter"} :
           h \in latest'[n] =>
             h \in latest[n] /\ nets'[n].Components = nets[n].Components
<1>1. SUFFICES Kept
  <2>1. TypeOK' /\ CallsBound' /\ DeletedAreGone'
    BY <1>0, <1>1 DEF PInv, participantsVars, CallsBound, DeletedAreGone
  <2>2. CopiesKeep'
    BY <1>0, <1>1, CopiesKept DEF PInv, participantsVars
  <2> QED
    BY <1>1, <2>1, <2>2 DEF PInv
<1>2. WorkBound /\ SecretsTypeOK /\ AbsentEmpty
  BY DEF PInv
<1>3. ASSUME NEW n \in NetworkNames, WorkStart(n)
      PROVE  Kept
  <2>1. work' = [network |-> n, todo |-> netCache[n].Components,
                 component |-> None, data |-> {}]
    BY <1>3 DEF WorkStart, NoWork
  <2>2. work' \in Work /\ work'.network = n
    BY <1>2, <2>1
  <2>3. wpc' \in {"next", "nextRemoval"} /\ UNCHANGED <<nets, netCache, secrets, dapr>>
    BY <1>3 DEF WorkStart, secretVars
  <2>4. /\ latest' \in [NetworkNames -> SUBSET NetHolders]
        /\ \A m \in NetworkNames : latest'[m] \subseteq latest[m] \cup {"worker"}
    BY <1>2, <1>3 DEF WorkStart
  <2> QED
    BY <1>2, <2>2, <2>3, <2>4 DEF WorkBound, AbsentEmpty, ComponentsGrow
<1>4. ASSUME NEW c \in ComponentNames, WorkRead(c) \/ WorkReadRemoval(c)
      PROVE  Kept
  <2> DEFINE Edited == /\ work' \in Work
                       /\ work'.network = work.network
                       /\ work'.component = c
  <2>1. ASSUME WorkRead(c) PROVE Edited
    <3>1. work' = [work EXCEPT !.todo = @ \ {c}, !.component = c,
                               !.data = secrets[c]]
      BY <2>1 DEF WorkRead
    <3> QED
      BY <1>2, <3>1
  <2>2. ASSUME WorkReadRemoval(c) PROVE Edited
    <3>1. work' = [work EXCEPT !.todo = @ \ {c}, !.component = c]
      BY <2>2 DEF WorkReadRemoval
    <3> QED
      BY <1>2, <3>1
  <2>3. /\ wpc \in {"next", "nextRemoval"}
        /\ wpc' \in {"createSecret", "updateSecret", "deleteSecret", "readDapr"}
        /\ UNCHANGED <<nets, netCache, latest, secrets, dapr>>
    BY <1>4 DEF WorkRead, WorkReadRemoval, secretVars, netsVars
  <2> QED
    BY <1>2, <1>4, <2>1, <2>2, <2>3 DEF WorkBound, AbsentEmpty, ComponentsGrow
<1>5. CASE WorkUpdateSecret \/ WorkCreateSecret
  <2>1. /\ UNCHANGED <<netsVars, dapr>>
        /\ wpc' \in {"existsDapr", "createSecret"}
    BY <1>5 DEF WorkUpdateSecret, WorkCreateSecret, SecretWritten, Step, secretVars
  <2>2. work.network \in NetworkNames /\ work.component \in ComponentNames
    BY <1>2, <1>5 DEF WorkBound, WorkUpdateSecret, WorkCreateSecret
  <2>3. Entries \subseteq NetworkNames
    BY <1>2, <2>2 DEF Entries
  <2>4. /\ secrets' \in [ComponentNames -> SUBSET NetworkNames]
        /\ work' \in Work /\ work'.network = work.network
        /\ work'.component = work.component
    <3>1. CASE SecretWritten
      BY <1>2, <2>3, <3>1 DEF SecretWritten
    <3>2. CASE UNCHANGED <<work, secrets>>
      BY <1>2, <3>2
    <3> QED
      BY <1>5, <3>1, <3>2 DEF WorkUpdateSecret, WorkCreateSecret, Step, secretVars
  <2> QED
    BY <1>2, <2>1, <2>2, <2>4 DEF netsVars, WorkBound, AbsentEmpty, ComponentsGrow
<1>6. CASE WorkExistsDapr \/ WorkUpdateDapr \/ WorkCreateDapr
  <2>1. SecretsTypeOK' /\ WorkBound'
    BY <1>2, <1>6 DEF WorkExistsDapr, WorkUpdateDapr, WorkCreateDapr, DaprWritten,
                      Step, WorkReturn, NoWork, WorkBound, secretVars, netsVars
  <2>2. UNCHANGED nets /\ \A n \in NetworkNames : latest'[n] \subseteq latest[n]
    BY <1>2, <1>6 DEF WorkExistsDapr, WorkUpdateDapr, WorkCreateDapr, DaprWritten,
                      Step, WorkReturn, netsVars
  <2> QED
    BY <1>2, <2>1, <2>2 DEF AbsentEmpty, ComponentsGrow
<1>7. CASE WorkDeleteSecret \/ WorkReadDapr \/ WorkDeleteDapr
  BY <1>2, <1>7 DEF WorkDeleteSecret, WorkReadDapr, WorkDeleteDapr, Step,
                    WorkBound, AbsentEmpty, ComponentsGrow, secretVars, netsVars
<1>8. CASE WorkCreated
  BY <1>2, <1>8 DEF WorkCreated, WorkReturn, NoWork, WorkBound, AbsentEmpty, ComponentsGrow,
                    secretVars
<1>9. CASE WorkRemoveFinalizer
  <2>1. GoneNet \in NetObject /\ GoneNet.life = "gone"
    BY DEF GoneNet, NoNet
  <2>2. work.network \in NetworkNames
    BY <1>2, <1>9 DEF WorkRemoveFinalizer, WorkBound
  <2>3. NoWork \in Work
    BY DEF NoWork
  <2>4. CASE StoreNet("worker", work.network, GoneNet)
             /\ wpc' = "idle" /\ work' = NoWork
    BY <1>2, <1>9, <2>1, <2>2, <2>3, <2>4
       DEF WorkRemoveFinalizer, StoreNet, WorkBound, AbsentEmpty, ComponentsGrow, secretVars
  <2>5. CASE WorkReturn
    BY <1>2, <1>9, <2>3, <2>5
       DEF WorkRemoveFinalizer, WorkReturn, WorkBound, AbsentEmpty, ComponentsGrow, secretVars
  <2> QED
    BY <1>9, <2>4, <2>5 DEF WorkRemoveFinalizer
<1> QED
  BY <1>0, <1>3, <1>4, <1>5, <1>6, <1>7, <1>8, <1>9 DEF WorkNext

-----------------------------------------------------------------------------
(* The steps of the users, the watches and the other writers.              *)

\* They keep the invariant, and no Network loses a participant.
LEMMA ClusterStepInv ==
  ASSUME PInv,
         \/ \E n \in NetworkNames : NetworkStep(n) \/ WatchStep(n)
         \/ \E o \in Resources : ResourceStep(o) \/ EventStep(o)
  PROVE  PInv' /\ ComponentsGrow
<1> USE DEF TypeOK, SecretsTypeOK, NetObject, NetHolders
<1>1. ASSUME NEW n \in NetworkNames, NetworkStep(n) \/ WatchStep(n)
      PROVE  PInv' /\ ComponentsGrow
  <2>1. UNCHANGED <<secretVars, workVars, participantsVars>>
    BY <1>1 DEF NetworkStep, WatchStep
  <2>2. disturbances' \in 0..MaxDisturbances
    BY <1>1, ParticipantsAssumption
       DEF PInv, NetworkStep, WatchStep, Disturbance
  <2> DEFINE Kept ==
        /\ nets' \in [NetworkNames -> NetObject]
        /\ netCache' \in [NetworkNames -> NetObject]
        /\ latest' \in [NetworkNames -> SUBSET NetHolders]
        /\ ComponentsGrow
        /\ AbsentEmpty'
        /\ \A m \in NetworkNames, h \in {"reconcile", "filter"} :
             h \in latest'[m] =>
               h \in latest[m] /\ nets'[m].Components = nets[m].Components
  <2>3. ASSUME CreateNetwork(n) PROVE Kept
    BY <2>3 DEF PInv, CreateNetwork, StoreNet, NoNet, AbsentEmpty, ComponentsGrow
  <2>4. ASSUME DeleteNetwork(n) PROVE Kept
    BY <2>4 DEF PInv, DeleteNetwork, StoreNet, AbsentEmpty, ComponentsGrow
  <2>5. ASSUME OtherWrite(n) \/ WatchNet(n) PROVE Kept
    <3>1. UNCHANGED nets /\ netCache' \in [NetworkNames -> NetObject]
      BY <2>5 DEF PInv, OtherWrite, WatchNet
    <3>2. \A m \in NetworkNames : latest'[m] \subseteq latest[m] \cup {"cache"}
      BY <2>5 DEF PInv, OtherWrite, WatchNet
    <3>3. latest' \in [NetworkNames -> SUBSET NetHolders]
      <4>1. CASE OtherWrite(n)
        BY <4>1 DEF PInv, OtherWrite
      <4>2. CASE WatchNet(n)
        BY <4>2 DEF PInv, WatchNet
      <4> QED
        BY <2>5, <4>1, <4>2
    <3> QED
      BY <3>1, <3>2, <3>3 DEF PInv, AbsentEmpty, ComponentsGrow
  <2>6. Kept
    BY <1>1, <2>3, <2>4, <2>5 DEF NetworkStep, WatchStep
  <2>7. TypeOK' /\ CallsBound' /\ WorkBound' /\ DeletedAreGone'
    BY <2>1, <2>2, <2>6 DEF PInv, secretVars, workVars, participantsVars,
                            CallsBound, WorkBound, DeletedAreGone
  <2>8. CopiesKeep'
    BY <2>1, <2>6, CopiesKept DEF PInv, participantsVars
  <2> QED
    BY <2>6, <2>7, <2>8 DEF PInv
<1>2. ASSUME NEW o \in Resources, ResourceStep(o) \/ EventStep(o)
      PROVE  PInv' /\ ComponentsGrow
  <2>1. UNCHANGED <<netsVars, secretVars, workVars, disturbances, rec, filter>>
    BY <1>2 DEF ResourceStep, EventStep, CreateResource, DeleteResource,
                WatchResource
  <2>2. TypeOK'
    BY <1>2, <2>1 DEF PInv, ResourceStep, EventStep, CreateResource,
         DeleteResource, WatchResource, netsVars, secretVars, workVars
  <2>3. DeletedAreGone'
    <3>1. DeletedAreGone /\ CallsBound /\ TypeOK
      BY DEF PInv
    <3>2. CASE CreateResource(o)
      BY <2>1, <3>1, <3>2 DEF CreateResource, DeletedAreGone, CallsBound
    <3>3. CASE DeleteResource(o)
      BY <2>1, <3>1, <3>3 DEF DeleteResource, DeletedAreGone, CallsBound
    <3>4. CASE WatchResource(o)
      BY <2>1, <3>1, <3>4 DEF WatchResource, DeletedAreGone, CallsBound
    <3> QED
      BY <1>2, <3>2, <3>3, <3>4 DEF ResourceStep, EventStep
  <2>4. /\ CallsBound' /\ WorkBound' /\ CopiesKeep' /\ AbsentEmpty'
        /\ ComponentsGrow
    BY <2>1 DEF PInv, CallsBound, WorkBound, CopiesKeep, AbsentEmpty, ComponentsGrow,
                netsVars, workVars
  <2> QED
    BY <2>2, <2>3, <2>4 DEF PInv
<1> QED
  BY <1>1, <1>2

-----------------------------------------------------------------------------
(* The steps of Reconcile.                                                 *)

\* A copy that Reconcile or the event filter stores has a new version or leaves
\* the Network as it was.
LEMMA StoreKeepsTypes ==
  ASSUME SecretsTypeOK, NEW n \in NetworkNames, NEW h, NEW C \in SUBSET ComponentNames,
         StoreNet(h, n, [nets[n] EXCEPT !.Components = C])
  PROVE  /\ nets' \in [NetworkNames -> NetObject]
         /\ latest' \in [NetworkNames -> SUBSET NetHolders]
         /\ netCache' = netCache
         /\ nets'[n].Components = C
         /\ nets'[n].life = nets[n].life
         /\ \A m \in NetworkNames \ {n} : nets'[m] = nets[m]
         /\ \A m \in NetworkNames : \A g \in latest'[m] :
              g \in latest[m] /\ nets'[m] = nets[m]
  BY DEF SecretsTypeOK, StoreNet, NetObject

\* Calls that have not started or are over.
LEMMA CallTypes ==
  /\ NoCall \in Call /\ NoCall.pc = "idle"
  /\ \A o \in Resources : /\ Start(o) \in Call
                           /\ Start(o).pc = "read"
                           /\ Start(o).of = o
<1>1. NoCall \in Call /\ NoCall.pc = "idle"
  BY ParticipantsAssumption DEF NoCall, Call
<1>2. 1 \in 0..MaxTries
  BY ParticipantsAssumption
<1> QED
  BY <1>1, <1>2 DEF Start, Call

\* A try that failed is followed by one more, while there are some left.
LEMMA AgainTypes ==
  ASSUME NEW call \in Call, call.of \in Resources, Retries(call)
  PROVE  /\ Again(call) \in Call
         /\ Again(call).pc = "read"
         /\ Again(call).of = call.of
<1>1. Again(call) = [pc |-> "read", of |-> call.of, try |-> call.try + 1,
                     Components |-> {}]
  BY DEF Again, Start
<1>2. call.try + 1 \in 0..MaxTries
  BY ParticipantsAssumption DEF Retries, Call
<1> QED
  BY <1>1, <1>2 DEF Call

\* Reconcile keeps the invariant, and no Network loses a participant.
LEMMA RecStepInv ==
  ASSUME PInv, RecStep
  PROVE  PInv' /\ ComponentsGrow
<1>1. /\ UNCHANGED <<secretVars, workVars, disturbances, filter>>
      /\ UNCHANGED <<resource, cache, deleteEvents>>
  BY DEF RecStep, RecNext, RecStart, RecRead, RecWrite
<1>2. TypeOK /\ SecretsTypeOK /\ CallsBound /\ CopiesKeep /\ AbsentEmpty
  BY DEF PInv, TypeOK
<1>3. filter.pc = "write" => NetworkOf[filter.of] \in NetworkNames
  BY <1>2, ParticipantsAssumption DEF CallsBound
<1> DEFINE Kept ==
      /\ nets' \in [NetworkNames -> NetObject]
      /\ netCache' \in [NetworkNames -> NetObject]
      /\ latest' \in [NetworkNames -> SUBSET NetHolders]
      /\ rec' \in Call /\ (rec'.pc # "idle" => rec'.of \in Resources)
      /\ queue' \subseteq Resources
      /\ CopiesKeep'
      /\ AbsentEmpty'
      /\ ComponentsGrow
<1>4. SUFFICES Kept
  <2>1. TypeOK' /\ CallsBound' /\ WorkBound' /\ DeletedAreGone'
    BY <1>1, <1>4 DEF PInv, TypeOK, SecretsTypeOK, CallsBound, WorkBound,
                      DeletedAreGone, secretVars, workVars
  <2> QED
    BY <1>4, <2>1 DEF PInv
<1>5. ASSUME NEW o \in Resources, RecStart(o)
      PROVE  Kept
  <2>1. rec' \in {Start(o), NoCall} /\ queue' \subseteq queue /\ UNCHANGED netsVars
    BY <1>5 DEF RecStart
  <2>2. rec' \in Call /\ rec'.pc # "write" /\ (rec'.pc # "idle" => rec'.of = o)
    BY <2>1, CallTypes
  <2> QED
    BY <1>1, <1>2, <2>1, <2>2
       DEF TypeOK, SecretsTypeOK, CopiesKeep, AbsentEmpty, ComponentsGrow, netsVars
<1>6. ASSUME rec.pc # "idle", RecReturn
      PROVE  /\ rec' \in Call /\ rec'.pc = "idle"
             /\ queue' \subseteq Resources
  BY <1>2, <1>6, CallTypes DEF TypeOK, CallsBound, RecReturn
<1>7. CASE RecRead
  <2> DEFINE n == NetworkOf[rec.of]
  <2>1. rec \in Call /\ rec.pc = "read" /\ rec.of \in Resources /\ n \in NetworkNames
    BY <1>2, <1>7, ParticipantsAssumption DEF RecRead, TypeOK, CallsBound
  <2>2. CASE ~Exists(n)
    <3>1. RecReturn /\ UNCHANGED netsVars
      BY <1>7, <2>2 DEF RecRead
    <3> QED
      BY <1>1, <1>2, <1>6, <2>1, <3>1
         DEF TypeOK, SecretsTypeOK, CopiesKeep, AbsentEmpty, ComponentsGrow, netsVars
  <2>3. CASE Exists(n)
    <3> DEFINE C == addParticipant(nets[n].Components, rec.of)
    <3>1. /\ ReadNet("reconcile", n)
          /\ rec' = [rec EXCEPT !.pc = "write", !.Components = C]
          /\ UNCHANGED queue
      BY <1>7, <2>3 DEF RecRead
    <3>2. C \subseteq ComponentNames /\ nets[n].Components \subseteq C
      BY <1>2, <2>1, ParticipantsAssumption
         DEF addParticipant, SecretsTypeOK, NetObject
    <3>3. rec' = [pc |-> "write", of |-> rec.of, try |-> rec.try, Components |-> C]
      BY <2>1, <3>1 DEF Call
    <3>4. rec' \in Call /\ rec'.of = rec.of /\ rec'.Components = C
      BY <2>1, <3>2, <3>3 DEF Call
    <3>5. /\ latest' \in [NetworkNames -> SUBSET NetHolders]
          /\ \A m \in NetworkNames : latest'[m] \subseteq latest[m] \cup {"reconcile"}
          /\ UNCHANGED <<nets, netCache>>
      BY <1>2, <2>1, <3>1 DEF ReadNet, SecretsTypeOK, NetHolders
    <3>6. CopiesKeep'
      BY <1>1, <1>2, <1>3, <3>2, <3>4, <3>5 DEF CopiesKeep
    <3> QED
      BY <1>2, <2>1, <3>1, <3>4, <3>5, <3>6
         DEF TypeOK, SecretsTypeOK, AbsentEmpty, ComponentsGrow
  <2> QED
    BY <2>2, <2>3
<1>8. CASE RecWrite
  <2> DEFINE n == NetworkOf[rec.of]
  <2>1. rec \in Call /\ rec.pc = "write" /\ rec.of \in Resources /\ n \in NetworkNames
    BY <1>2, <1>8, ParticipantsAssumption DEF RecWrite, TypeOK, CallsBound
  <2>2. CASE ~Accepted("reconcile", rec)
    <3>1. /\ UNCHANGED netsVars
          /\ \/ Retries(rec) /\ rec' = Again(rec) /\ UNCHANGED queue
             \/ RecReturn
      BY <1>8, <2>2 DEF RecWrite
    <3>2. /\ rec' \in Call /\ rec'.pc # "write" /\ queue' \subseteq Resources
          /\ rec'.pc # "idle" => rec'.of \in Resources
      BY <1>2, <1>6, <2>1, <3>1, AgainTypes DEF TypeOK
    <3>3. CopiesKeep'
      BY <1>1, <1>2, <3>1, <3>2 DEF CopiesKeep, netsVars
    <3> QED
      BY <1>2, <3>1, <3>2, <3>3
         DEF SecretsTypeOK, AbsentEmpty, ComponentsGrow, netsVars
  <2>3. CASE Accepted("reconcile", rec)
    <3>1. StoreNet("reconcile", n, [nets[n] EXCEPT !.Components = rec.Components])
          /\ RecReturn
      BY <1>8, <2>3 DEF RecWrite, Write
    <3>2. rec.Components \in SUBSET ComponentNames
      BY <2>1 DEF Call
    <3>3. /\ nets' \in [NetworkNames -> NetObject]
          /\ latest' \in [NetworkNames -> SUBSET NetHolders]
          /\ netCache' = netCache
          /\ nets'[n].Components = rec.Components
          /\ nets'[n].life = nets[n].life
          /\ \A m \in NetworkNames \ {n} : nets'[m] = nets[m]
          /\ \A m \in NetworkNames : \A g \in latest'[m] :
               g \in latest[m] /\ nets'[m] = nets[m]
      BY <1>2, <2>1, <3>1, <3>2, StoreKeepsTypes
    <3>4. nets[n].Components \subseteq rec.Components
      BY <1>2, <2>1, <2>3 DEF Accepted, CopiesKeep
    <3>5. ComponentsGrow
      BY <3>3, <3>4 DEF ComponentsGrow
    <3>6. AbsentEmpty'
      BY <1>2, <2>3, <3>3 DEF AbsentEmpty, Accepted, Exists
    <3>7. rec' \in Call /\ rec'.pc = "idle" /\ queue' \subseteq Resources
      BY <1>6, <2>1, <3>1
    <3>8. CopiesKeep'
      BY <1>1, <1>2, <1>3, <3>3, <3>7 DEF CopiesKeep
    <3> QED
      BY <1>2, <3>3, <3>5, <3>6, <3>7, <3>8 DEF SecretsTypeOK
  <2> QED
    BY <2>2, <2>3
<1> QED
  BY <1>5, <1>7, <1>8 DEF RecStep, RecNext

-----------------------------------------------------------------------------
(* The steps of the event filter.                                          *)

\* The event filter keeps the invariant, and removes from a Network at most the
\* component of a resource that is gone.
LEMMA FilterStepInv ==
  ASSUME PInv, FilterStep
  PROVE  PInv' /\ StepKeepsListed
<1>1. UNCHANGED <<workVars, disturbances, resource, cache, queue, rec>>
  BY DEF FilterStep, FilterNext
<1>2. /\ TypeOK /\ SecretsTypeOK /\ CallsBound /\ CopiesKeep /\ AbsentEmpty
      /\ DeletedAreGone
  BY DEF PInv, TypeOK
<1>3. rec.pc = "write" => NetworkOf[rec.of] \in NetworkNames
  BY <1>2, ParticipantsAssumption DEF CallsBound
<1> DEFINE CallKept ==
             /\ filter' \in Call
             /\ filter'.pc # "idle" => /\ filter'.of \in Resources
                                      /\ resource[filter'.of] = "gone"
           SecretsKept ==
             /\ secrets' \in [ComponentNames -> SUBSET NetworkNames]
             /\ dapr' \in [ComponentNames -> SUBSET NetworkNames]
           NetsKept ==
             /\ nets' \in [NetworkNames -> NetObject]
             /\ netCache' \in [NetworkNames -> NetObject]
             /\ latest' \in [NetworkNames -> SUBSET NetHolders]
             /\ CopiesKeep'
             /\ AbsentEmpty'
             /\ StepKeepsListed
<1>4. SUFFICES CallKept /\ SecretsKept /\ NetsKept /\ deleteEvents' \subseteq deleteEvents
  <2>1. TypeOK' /\ CallsBound'
    BY <1>1, <1>2, <1>4 DEF TypeOK, SecretsTypeOK, CallsBound, workVars
  <2>2. DeletedAreGone'
    BY <1>1, <1>2, <1>4 DEF DeletedAreGone
  <2>3. WorkBound'
    BY <1>1 DEF PInv, WorkBound, workVars
  <2> QED
    BY <1>4, <2>1, <2>2, <2>3 DEF PInv
<1>5. ASSUME UNCHANGED netsVars, filter'.pc # "write"
      PROVE  NetsKept
  <2>1. CopiesKeep'
    BY <1>1, <1>2, <1>5 DEF CopiesKeep, netsVars
  <2>2. StepKeepsListed
    BY <1>5, ParticipantsAssumption DEF StepKeepsListed, netsVars
  <2> QED
    BY <1>2, <1>5, <2>1, <2>2 DEF SecretsTypeOK, AbsentEmpty, netsVars
<1>6. ASSUME NEW o \in Resources, FilterStart(o)
      PROVE  CallKept /\ SecretsKept /\ NetsKept /\ deleteEvents' \subseteq deleteEvents
  <2>1. /\ o \in deleteEvents /\ deleteEvents' \subseteq deleteEvents
        /\ filter' = Start(o) /\ UNCHANGED <<netsVars, secretVars>>
    BY <1>6 DEF FilterStart
  <2>2. CallKept /\ filter'.pc # "write"
    BY <1>2, <2>1, CallTypes DEF DeletedAreGone
  <2> QED
    BY <1>2, <1>5, <2>1, <2>2 DEF SecretsTypeOK, secretVars
<1>7. ASSUME FilterDone
      PROVE  CallKept /\ filter'.pc = "idle"
  BY <1>7, CallTypes DEF FilterDone
<1>8. ASSUME filter.pc # "idle", NEW step \in {"readSecret", "deleteSecret",
                                              "readDapr", "deleteDapr"},
             FilterGoto(step)
      PROVE  CallKept /\ filter'.pc # "write"
  <2>1. filter \in Call /\ filter.of \in Resources /\ resource[filter.of] = "gone"
    BY <1>2, <1>8 DEF TypeOK, CallsBound, DeletedAreGone
  <2>2. filter' \in Call /\ filter'.of = filter.of /\ filter'.pc = step
    BY <1>8, <2>1 DEF FilterGoto, Call
  <2> QED
    BY <2>1, <2>2
<1>9. CASE FilterReadSecret \/ FilterDeleteSecret \/ FilterReadDapr
           \/ FilterDeleteDapr
  <2>1. filter.pc # "idle" /\ UNCHANGED <<netsVars, deleteEvents>>
    BY <1>9 DEF FilterReadSecret, FilterDeleteSecret, FilterReadDapr,
                FilterDeleteDapr
  <2>2. \/ FilterDone
        \/ \E step \in {"deleteSecret", "readDapr", "deleteDapr"} : FilterGoto(step)
    BY <1>9 DEF FilterReadSecret, FilterDeleteSecret, FilterReadDapr,
                FilterDeleteDapr
  <2>3. CallKept /\ filter'.pc # "write"
    BY <1>7, <1>8, <2>1, <2>2
  <2>4. SecretsKept
    BY <1>2, <1>9 DEF FilterReadSecret, FilterDeleteSecret, FilterReadDapr,
                      FilterDeleteDapr, SecretsTypeOK, secretVars
  <2> QED
    BY <1>5, <2>1, <2>3, <2>4
<1>10. CASE FilterRead
  <2> DEFINE n == NetworkOf[filter.of]
  <2>1. /\ filter \in Call /\ filter.pc = "read" /\ filter.of \in Resources
        /\ n \in NetworkNames /\ resource[filter.of] = "gone"
    BY <1>2, <1>10, ParticipantsAssumption
       DEF FilterRead, TypeOK, CallsBound, DeletedAreGone
  <2>2. SecretsKept /\ UNCHANGED deleteEvents
    BY <1>2, <1>10 DEF FilterRead, SecretsTypeOK, secretVars
  <2>3. CASE ~Exists(n)
    <3>1. FilterDone /\ UNCHANGED netsVars
      BY <1>10, <2>3 DEF FilterRead
    <3> QED
      BY <1>5, <1>7, <2>2, <3>1
  <2>4. CASE Exists(n)
    <3> DEFINE C == removeParticipant(nets[n].Components, filter.of)
    <3>1. /\ ReadNet("filter", n)
          /\ filter' = [filter EXCEPT !.pc = "write", !.Components = C]
      BY <1>10, <2>4 DEF FilterRead
    <3>2. /\ C \subseteq ComponentNames
          /\ nets[n].Components \subseteq C \cup {ComponentOf[filter.of]}
      BY <1>2, <2>1 DEF removeParticipant, SecretsTypeOK, NetObject
    <3>3. filter' = [pc |-> "write", of |-> filter.of, try |-> filter.try,
                     Components |-> C]
      BY <2>1, <3>1 DEF Call
    <3>4. filter' \in Call /\ filter'.of = filter.of /\ filter'.Components = C
      BY <2>1, <3>2, <3>3 DEF Call
    <3>5. /\ latest' \in [NetworkNames -> SUBSET NetHolders]
          /\ \A m \in NetworkNames : latest'[m] \subseteq latest[m] \cup {"filter"}
          /\ UNCHANGED <<nets, netCache>>
      BY <1>2, <2>1, <3>1 DEF ReadNet, SecretsTypeOK, NetHolders
    <3>6. CopiesKeep'
      BY <1>1, <1>2, <1>3, <3>2, <3>4, <3>5 DEF CopiesKeep
    <3>7. StepKeepsListed
      BY <3>5, ParticipantsAssumption DEF StepKeepsListed
    <3>8. NetsKept
      BY <1>2, <3>5, <3>6, <3>7 DEF SecretsTypeOK, AbsentEmpty
    <3> QED
      BY <2>1, <2>2, <3>4, <3>8
  <2> QED
    BY <2>3, <2>4
<1>11. CASE FilterWrite
  <2> DEFINE n == NetworkOf[filter.of]
  <2>1. /\ filter \in Call /\ filter.pc = "write" /\ filter.of \in Resources
        /\ n \in NetworkNames /\ resource[filter.of] = "gone"
    BY <1>2, <1>11, ParticipantsAssumption
       DEF FilterWrite, TypeOK, CallsBound, DeletedAreGone
  <2>2. SecretsKept /\ UNCHANGED deleteEvents
    BY <1>2, <1>11 DEF FilterWrite, SecretsTypeOK, secretVars
  <2>3. CASE ~Accepted("filter", filter)
    <3>1. /\ UNCHANGED netsVars
          /\ (Retries(filter) /\ filter' = Again(filter)) \/ FilterDone
      BY <1>11, <2>3 DEF FilterWrite
    <3>2. CallKept /\ filter'.pc # "write"
      BY <1>7, <2>1, <3>1, AgainTypes
    <3> QED
      BY <1>5, <2>2, <3>1, <3>2
  <2>4. CASE Accepted("filter", filter)
    <3>1. /\ StoreNet("filter", n, [nets[n] EXCEPT !.Components = filter.Components])
          /\ filter' = [filter EXCEPT !.pc = "readSecret", !.Components = {}]
      BY <1>11, <2>4 DEF FilterWrite, Write
    <3>2. filter.Components \in SUBSET ComponentNames
      BY <2>1 DEF Call
    <3>3. /\ nets' \in [NetworkNames -> NetObject]
          /\ latest' \in [NetworkNames -> SUBSET NetHolders]
          /\ netCache' = netCache
          /\ nets'[n].Components = filter.Components
          /\ nets'[n].life = nets[n].life
          /\ \A m \in NetworkNames \ {n} : nets'[m] = nets[m]
          /\ \A m \in NetworkNames : \A g \in latest'[m] :
               g \in latest[m] /\ nets'[m] = nets[m]
      BY <1>2, <2>1, <3>1, <3>2, StoreKeepsTypes
    <3>4. nets[n].Components \subseteq filter.Components \cup {ComponentOf[filter.of]}
      BY <1>2, <2>1, <2>4 DEF Accepted, CopiesKeep
    <3>5. ASSUME NEW o \in Resources, resource[o] = "live", Sole(o),
                 ComponentOf[o] \in nets[NetworkOf[o]].Components
          PROVE  ComponentOf[o] \in nets'[NetworkOf[o]].Components
      <4>1. NetworkOf[o] = n => ComponentOf[o] # ComponentOf[filter.of]
        BY <2>1, <3>5 DEF Sole
      <4>2. NetworkOf[o] \in NetworkNames
        BY ParticipantsAssumption
      <4> QED
        BY <3>3, <3>4, <3>5, <4>1, <4>2
    <3>6. StepKeepsListed
      BY <3>5 DEF StepKeepsListed
    <3>7. AbsentEmpty'
      BY <1>2, <2>4, <3>3 DEF AbsentEmpty, Accepted, Exists
    <3>8. filter' = [pc |-> "readSecret", of |-> filter.of, try |-> filter.try,
                     Components |-> {}]
      BY <2>1, <3>1 DEF Call
    <3>9. CallKept /\ filter'.pc = "readSecret"
      BY <2>1, <3>8 DEF Call
    <3>10. CopiesKeep'
      BY <1>1, <1>2, <1>3, <3>3, <3>9 DEF CopiesKeep
    <3>11. NetsKept
      BY <1>2, <3>3, <3>6, <3>7, <3>10 DEF SecretsTypeOK
    <3> QED
      BY <2>2, <3>9, <3>11
  <2> QED
    BY <2>3, <2>4
<1> QED
  BY <1>6, <1>9, <1>10, <1>11 DEF FilterStep, FilterNext

-----------------------------------------------------------------------------
(* Failures and restarts, and the theorems.                                *)

\* A function that gives up drops its copy; nothing stored changes.
LEMMA FailureInv ==
  ASSUME PInv, Failure
  PROVE  PInv' /\ ComponentsGrow
<1>1. /\ TypeOK /\ SecretsTypeOK /\ CallsBound /\ CopiesKeep /\ AbsentEmpty
      /\ DeletedAreGone /\ WorkBound
  BY DEF PInv, TypeOK
<1>2. /\ disturbances' \in 0..MaxDisturbances
      /\ UNCHANGED <<nets, netCache, secretVars, resource, cache, deleteEvents>>
  BY <1>1, ParticipantsAssumption
     DEF Failure, Disturbance, TypeOK, WorkReturn, netsVars, participantsVars
<1>3. /\ rec' \in {rec, NoCall} /\ filter' \in {filter, NoCall}
      /\ queue' \subseteq Resources
  <2>1. CASE rec.pc # "idle" /\ RecReturn /\ UNCHANGED filter
    BY <1>1, <2>1 DEF RecReturn, TypeOK, CallsBound
  <2>2. CASE UNCHANGED <<queue, rec>> /\ (filter' = NoCall \/ UNCHANGED filter)
    BY <1>1, <2>2 DEF TypeOK
  <2> QED
    BY <2>1, <2>2 DEF Failure, FilterDone, participantsVars
<1>4. (wpc' = wpc /\ work' = work) \/ (wpc' = "idle" /\ work' = NoWork)
  BY DEF Failure, WorkReturn, workVars
<1>5. /\ latest' \in [NetworkNames -> SUBSET NetHolders]
      /\ \A n \in NetworkNames : latest'[n] \subseteq latest[n]
  <2>1. CASE WorkReturn
    BY <1>1, <2>1 DEF WorkReturn, SecretsTypeOK
  <2>2. CASE UNCHANGED netsVars
    BY <1>1, <2>2 DEF SecretsTypeOK, netsVars
  <2> QED
    BY <2>1, <2>2 DEF Failure
<1>6. NoWork \in Work
  BY DEF NoWork, Work
<1>7. SecretsTypeOK' /\ WorkBound'
  BY <1>1, <1>2, <1>4, <1>5, <1>6 DEF SecretsTypeOK, WorkBound, secretVars
<1>8. rec' \in Call /\ filter' \in Call
  BY <1>1, <1>3, CallTypes DEF TypeOK
<1>9. TypeOK' /\ CallsBound' /\ DeletedAreGone'
  BY <1>1, <1>2, <1>3, <1>7, <1>8, CallTypes DEF TypeOK, CallsBound, DeletedAreGone
<1>10. CopiesKeep'
  <2>1. rec.pc = "write" => NetworkOf[rec.of] \in NetworkNames
    BY <1>1, ParticipantsAssumption DEF CallsBound
  <2>2. filter.pc = "write" => NetworkOf[filter.of] \in NetworkNames
    BY <1>1, ParticipantsAssumption DEF CallsBound
  <2> QED
    BY <1>1, <1>2, <1>3, <1>5, <2>1, <2>2, CallTypes DEF CopiesKeep
<1>11. AbsentEmpty' /\ ComponentsGrow
  BY <1>1, <1>2 DEF AbsentEmpty, ComponentsGrow
<1> QED
  BY <1>7, <1>9, <1>10, <1>11 DEF PInv

\* After a restart there are no copies; nothing stored changes.
LEMMA RestartInv ==
  ASSUME PInv, Restart
  PROVE  PInv' /\ ComponentsGrow
<1>1. TypeOK /\ SecretsTypeOK /\ AbsentEmpty /\ DeletedAreGone
  BY DEF PInv, TypeOK
<1>2. NoWork \in Work
  BY DEF NoWork, Work
<1>3. disturbances' \in 0..MaxDisturbances
  BY <1>1, ParticipantsAssumption DEF Restart, Disturbance, TypeOK
<1>4. SecretsTypeOK' /\ WorkBound'
  BY <1>1, <1>2 DEF Restart, SecretsTypeOK, WorkBound, NetHolders, secretVars
<1>5. rec' \in Call /\ filter' \in Call /\ rec'.pc = "idle" /\ filter'.pc = "idle"
  BY CallTypes DEF Restart
<1>6. TypeOK' /\ CallsBound' /\ DeletedAreGone' /\ CopiesKeep'
  BY <1>1, <1>3, <1>4, <1>5
     DEF Restart, TypeOK, CallsBound, DeletedAreGone, CopiesKeep
<1>7. AbsentEmpty' /\ ComponentsGrow
  BY <1>1 DEF Restart, AbsentEmpty, ComponentsGrow
<1> QED
  BY <1>4, <1>6, <1>7 DEF PInv

\* Nothing has happened yet: there are no Networks, copies or resources.
LEMMA InitPInv ==
  ASSUME Init
  PROVE  PInv
<1>1. NoNet \in NetObject /\ NoNet.Components = {} /\ NoWork \in Work
  BY DEF NoNet, NetObject, NoWork, Work
<1>2. SecretsTypeOK /\ WorkBound /\ AbsentEmpty
  BY <1>1 DEF Init, SecretsInit, SecretsTypeOK, WorkBound, AbsentEmpty, NetHolders
<1>3. 0 \in 0..MaxDisturbances
  BY ParticipantsAssumption
<1>4. TypeOK /\ CallsBound /\ DeletedAreGone /\ CopiesKeep
  BY <1>2, <1>3, CallTypes
     DEF Init, TypeOK, CallsBound, DeletedAreGone, CopiesKeep
<1> QED
  BY <1>2, <1>4 DEF PInv

\* Every step keeps the invariant, and what ListedStaysListed says of one step.
LEMMA NextPInv ==
  ASSUME PInv, [Next]_vars
  PROVE  PInv' /\ StepKeepsListed
<1>1. TypeOK
  BY DEF PInv
<1>2. CASE UNCHANGED vars
  <2>1. PInv'
    BY <1>2 DEF PInv, TypeOK, SecretsTypeOK, CallsBound, WorkBound, DeletedAreGone,
                CopiesKeep, AbsentEmpty, vars, netsVars, secretVars, workVars,
                participantsVars
  <2>2. StepKeepsListed
    BY <1>1, <1>2, NetsUnchanged, GrowthKeeps DEF vars, netsVars
  <2> QED
    BY <2>1, <2>2
<1>3. CASE FilterStep
  BY <1>3, FilterStepInv
<1>4. CASE Next /\ ~FilterStep
  <2>1. PInv' /\ ComponentsGrow
    BY <1>4, ClusterStepInv, WorkStepInv, RecStepInv, FailureInv, RestartInv
       DEF Next
  <2> QED
    BY <1>1, <2>1, GrowthKeeps
<1> QED
  BY <1>2, <1>3, <1>4

\* The inductive invariant holds in every state.
THEOREM ParticipantsInvariance == Spec => []PInv
<1>1. Init => PInv
  BY InitPInv
<1>2. PInv /\ [Next]_vars => PInv'
  BY NextPInv
<1> QED
  BY <1>1, <1>2, PTL DEF Spec

\* The participants controller, the network worker and the secrets are well
\* typed: among others, no function tries an Update more than MaxTries times.
THEOREM ParticipantsTyped == Spec => []TypeOK
<1>1. PInv => TypeOK
  BY DEF PInv
<1> QED
  BY <1>1, ParticipantsInvariance, PTL

\* No lost update: Reconcile and the event filter, which write copies of the same
\* Network read at different times, never drop a participant that is live,
\* however often they fail, conflict or restart.
THEOREM NoLostParticipant == Spec => ListedStaysListed
<1>1. PInv /\ [Next]_vars => [StepKeepsListed]_vars
  BY NextPInv
<1>2. Spec => [][StepKeepsListed]_vars
  BY <1>1, ParticipantsInvariance, PTL DEF Spec
<1> QED
  BY <1>2 DEF ListedStaysListed, StepKeepsListed

=============================================================================
