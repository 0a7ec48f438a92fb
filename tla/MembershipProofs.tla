-------------------------- MODULE MembershipProofs --------------------------
(***************************************************************************)
(* More proofs about Participants: a Network takes its secrets with it,    *)
(* and the controller implements Membership.  Again for any networks,      *)
(* components, resources, tries, restarts, failures and other writes.      *)
(***************************************************************************)
EXTENDS ParticipantsProofs

-----------------------------------------------------------------------------
(* The inductive invariant.                                                *)

\* A resource of network n and component c was deleted.
Deleted(n, c) ==
  \E o \in Resources : /\ NetworkOf[o] = n
                       /\ ComponentOf[o] = c
                       /\ resource[o] = "gone"

\* What an entry of network n in a secret of component c needs.
Known(n, c) == c \in nets[n].Components \/ Deleted(n, c)

\* The cache is behind the API server, never ahead of it, and it knew of the
\* deletion before the Network went.
CacheBehind ==
  \A n \in NetworkNames :
    /\ "cache" \in latest[n] => netCache[n] = nets[n]
    /\ netCache[n].life = "live" => nets[n].life # "absent"
    /\ netCache[n].life = "deleting" => nets[n].life \in {"deleting", "gone"}
    /\ netCache[n].life = "gone" => nets[n].life = "gone"
    /\ nets[n].life = "gone" => netCache[n].life \in {"deleting", "gone"}

OnlyExistingListed ==
  \A n \in NetworkNames :
    nets[n].life \in {"absent", "gone"} => nets[n].Components = {}

\* The worker has a copy of the Network that it removes and of no other.
WorkerPlace ==
  /\ \A n \in NetworkNames :
       "worker" \in latest[n] => wpc \in RemoveSteps /\ work.network = n
  /\ wpc \in WriteSteps => nets[work.network].life \in {"live", "deleting"}
  /\ wpc \in RemoveSteps => netCache[work.network].life \in {"deleting", "gone"}

\* What is cached, about to be written or stored of a component is known.
CacheKnown ==
  \A n \in NetworkNames :
    nets[n].life # "gone" => \A c \in netCache[n].Components : Known(n, c)

WorkerKnown ==
  /\ wpc \in WriteSteps => \A c \in work.todo : Known(work.network, c)
  /\ wpc \in WriteSteps \ {"next"} =>
       /\ Known(work.network, work.component)
       /\ \A n \in work.data : Known(n, work.component)

EntriesKnown ==
  \A n \in NetworkNames, c \in ComponentNames :
    n \in secrets[c] \cup dapr[c] => Known(n, c)

\* How far the removal of a Network is whose copy would still be accepted.
RemovalSoFar ==
  wpc \in RemoveSteps /\ "worker" \in latest[work.network] =>
    \A c \in ComponentNames :
      /\ work.network \in secrets[c] =>
           \/ c \in work.todo \/ Deleted(work.network, c)
           \/ c = work.component /\ wpc = "deleteSecret"
      /\ work.network \in dapr[c] =>
           \/ c \in work.todo \/ Deleted(work.network, c)
           \/ c = work.component /\ wpc # "nextRemoval"

\* A copy that would be accepted is what is stored with one join or one leave.
CopiesExact ==
  /\ rec.pc = "write" /\ "reconcile" \in latest[NetworkOf[rec.of]] =>
       rec.Components = nets[NetworkOf[rec.of]].Components \cup {ComponentOf[rec.of]}
  /\ filter.pc = "write" /\ "filter" \in latest[NetworkOf[filter.of]] =>
       filter.Components =
         nets[NetworkOf[filter.of]].Components \ {ComponentOf[filter.of]}

RecCreated == rec.pc # "idle" => resource[rec.of] # "absent"

SecretsInv ==
  /\ CacheBehind
  /\ OnlyExistingListed
  /\ WorkerPlace
  /\ CacheKnown
  /\ WorkerKnown
  /\ EntriesKnown
  /\ RemovalSoFar

CallsInv == CopiesExact /\ RecCreated

-----------------------------------------------------------------------------
(* Steps that leave the worker alone.                                      *)

\* What was known stays known, and a resource that was deleted stays deleted.
KnownStays ==
  \A n \in NetworkNames, c \in ComponentNames :
    /\ Known(n, c) => Known(n, c)'
    /\ Deleted(n, c) => Deleted(n, c)'

\* Components that grow and resources that do not come back: all stays known.
LEMMA KnownGrows ==
  ASSUME \A n \in NetworkNames : nets[n].Components \subseteq nets'[n].Components,
         \A o \in Resources : resource[o] = "gone" => resource'[o] = "gone"
  PROVE  KnownStays
  BY DEF KnownStays, Known, Deleted

\* The Networks change as the users, Reconcile and the event filter change them:
\* no finalizer is removed, and the worker gets no copy.
NetsMove ==
  \A n \in NetworkNames :
    /\ nets[n].life \in {"live", "deleting"} => nets'[n].life \in {"live", "deleting"}
    /\ nets'[n].life = "gone" => nets[n].life = "gone"
    /\ netCache[n].life \in {"deleting", "gone"} =>
         netCache'[n].life \in {"deleting", "gone"}
    /\ "worker" \in latest'[n] => "worker" \in latest[n]

\* Such a step, if it adds no entry to a secret, keeps what is said of the worker
\* and of the secrets.
LEMMA WorkerLeftAlone ==
  ASSUME TypeOK, WorkBound, SecretsInv, KnownStays, NetsMove, UNCHANGED workVars,
         \A c \in ComponentNames : /\ secrets'[c] \subseteq secrets[c]
                                   /\ dapr'[c] \subseteq dapr[c]
  PROVE  WorkerPlace' /\ WorkerKnown' /\ EntriesKnown' /\ RemovalSoFar'
<1>1. UNCHANGED <<wpc, work>>
  BY DEF workVars
<1>2. /\ wpc # "idle" => work.network \in NetworkNames
      /\ wpc \in WriteSteps \ {"next"} => work.component \in ComponentNames
      /\ work.todo \subseteq ComponentNames
      /\ work.data \subseteq NetworkNames
  BY DEF WorkBound, TypeOK, SecretsTypeOK, Work, WriteSteps
<1>3. WorkerPlace'
  BY <1>1, <1>2 DEF SecretsInv, WorkerPlace, NetsMove, WriteSteps, RemoveSteps
<1>4. WorkerKnown'
  <2>1. WorkerKnown
    BY DEF SecretsInv
  <2>2. ASSUME NEW c \in work'.todo, wpc' \in WriteSteps
        PROVE  Known(work.network, c)'
    BY <1>1, <1>2, <2>1, <2>2 DEF WorkerKnown, KnownStays, WriteSteps
  <2>3. ASSUME wpc' \in WriteSteps \ {"next"}
        PROVE  /\ Known(work.network, work.component)'
               /\ \A n \in work.data : Known(n, work.component)'
    BY <1>1, <1>2, <2>1, <2>3 DEF WorkerKnown, KnownStays, WriteSteps
  <2> QED
    BY <1>1, <2>2, <2>3 DEF WorkerKnown
<1>5. EntriesKnown'
  BY DEF SecretsInv, EntriesKnown, KnownStays
<1>6. RemovalSoFar'
  BY <1>1, <1>2 DEF SecretsInv, RemovalSoFar, KnownStays, NetsMove, RemoveSteps
<1> QED
  BY <1>3, <1>4, <1>5, <1>6

\* The Networks after such a step.
NetsInv == CacheBehind /\ OnlyExistingListed /\ CacheKnown

\* A step that changes no Network, and gives the cache no version, says nothing
\* new of them.
LEMMA NetsLeftAlone ==
  ASSUME TypeOK, NetsInv, UNCHANGED <<nets, netCache>>,
         \A o \in Resources : resource[o] = "gone" => resource'[o] = "gone",
         \A n \in NetworkNames : "cache" \in latest'[n] => "cache" \in latest[n]
  PROVE  NetsInv' /\ KnownStays
<1>1. KnownStays
  BY KnownGrows
<1>2. CacheBehind' /\ OnlyExistingListed'
  BY DEF NetsInv, CacheBehind, OnlyExistingListed
<1>3. CacheKnown'
  BY <1>1 DEF NetsInv, CacheKnown, KnownStays, TypeOK, SecretsTypeOK, NetObject
<1> QED
  BY <1>1, <1>2, <1>3 DEF NetsInv

\* A copy that is stored, with Components C that keep what is known.
LEMMA NetStored ==
  ASSUME TypeOK, NetsInv, NEW n \in NetworkNames, NEW h, NEW C \in SUBSET ComponentNames,
         Exists(n), StoreNet(h, n, [nets[n] EXCEPT !.Components = C]),
         UNCHANGED resource,
         \A c \in nets[n].Components \ C : Deleted(n, c)
  PROVE  NetsInv' /\ KnownStays /\ NetsMove
<1>1. /\ netCache' = netCache
      /\ nets'[n].Components = C
      /\ nets'[n].life = nets[n].life
      /\ \A m \in NetworkNames \ {n} : nets'[m] = nets[m]
      /\ \A m \in NetworkNames : \A g \in latest'[m] :
           g \in latest[m] /\ nets'[m] = nets[m]
  BY StoreKeepsTypes DEF TypeOK
<1>2. NetsMove
  BY <1>1 DEF NetsMove
<1>3. KnownStays
  BY <1>1 DEF KnownStays, Known, Deleted
<1>4. CacheBehind' /\ OnlyExistingListed'
  BY <1>1 DEF NetsInv, CacheBehind, OnlyExistingListed, Exists
<1>5. CacheKnown'
  BY <1>1, <1>3 DEF NetsInv, CacheKnown, KnownStays, TypeOK, SecretsTypeOK, NetObject
<1> QED
  BY <1>2, <1>3, <1>4, <1>5 DEF NetsInv

\* The users create and delete Networks, and leave the Components alone.
LEMMA UserChanges ==
  ASSUME SecretsTypeOK, AbsentEmpty, NEW n \in NetworkNames,
         CreateNetwork(n) \/ DeleteNetwork(n)
  PROVE  /\ netCache' = netCache
         /\ nets'[n].Components = nets[n].Components
         /\ \/ nets[n].life = "absent" /\ nets'[n].life = "live"
            \/ nets[n].life = "live" /\ nets'[n].life = "deleting"
         /\ latest'[n] = {}
         /\ \A m \in NetworkNames \ {n} : nets'[m] = nets[m] /\ latest'[m] = latest[m]
<1>1. PICK new :
        /\ StoreNet(None, n, new)
        /\ new.Components = nets[n].Components
        /\ \/ nets[n].life = "absent" /\ new.life = "live"
           \/ nets[n].life = "live" /\ new.life = "deleting"
  <2>1. CASE CreateNetwork(n)
    <3> DEFINE created == [NoNet EXCEPT !.life = "live"]
    <3>1. created.life = "live" /\ created.Components = nets[n].Components
      BY <2>1 DEF NoNet, CreateNetwork, AbsentEmpty
    <3>2. StoreNet(None, n, created) /\ nets[n].life = "absent"
      BY <2>1 DEF CreateNetwork
    <3> HIDE DEF created
    <3> QED
      BY <3>1, <3>2
  <2>2. CASE DeleteNetwork(n)
    <3> DEFINE deleted == [nets[n] EXCEPT !.life = "deleting"]
    <3>1. deleted.life = "deleting" /\ deleted.Components = nets[n].Components
      BY DEF SecretsTypeOK, NetObject
    <3>2. StoreNet(None, n, deleted) /\ nets[n].life = "live"
      BY <2>2 DEF DeleteNetwork
    <3> HIDE DEF deleted
    <3> QED
      BY <3>1, <3>2
  <2> QED
    BY <2>1, <2>2
<1>2. new # nets[n]
  BY <1>1
<1> QED
  BY <1>1, <1>2 DEF StoreNet, SecretsTypeOK

\* The users, the watches and the other writers.
LEMMA ClusterKeepsSecrets ==
  ASSUME PInv, SecretsInv,
         \/ \E n \in NetworkNames : NetworkStep(n) \/ WatchStep(n)
         \/ \E o \in Resources : ResourceStep(o) \/ EventStep(o)
  PROVE  SecretsInv'
<1>1. TypeOK /\ SecretsTypeOK /\ WorkBound /\ NetsInv /\ AbsentEmpty
  BY DEF PInv, TypeOK, SecretsInv, NetsInv
<1>2. UNCHANGED <<secretVars, workVars>>
  BY DEF NetworkStep, WatchStep, ResourceStep, EventStep
<1>3. SUFFICES NetsInv' /\ KnownStays /\ NetsMove
  BY <1>1, <1>2, <1>3, WorkerLeftAlone DEF SecretsInv, NetsInv, secretVars
<1>4. ASSUME NEW o \in Resources, ResourceStep(o) \/ EventStep(o)
      PROVE  NetsInv' /\ KnownStays /\ NetsMove
  <2>1. UNCHANGED <<nets, netCache, latest>>
    BY <1>4 DEF ResourceStep, EventStep, netsVars
  <2>2. \A q \in Resources : resource[q] = "gone" => resource'[q] = "gone"
    BY <1>1, <1>4 DEF ResourceStep, EventStep, CreateResource, DeleteResource,
                      WatchResource, TypeOK
  <2> QED
    BY <1>1, <2>1, <2>2, NetsLeftAlone DEF NetsMove
<1>5. ASSUME NEW n \in NetworkNames, NetworkStep(n) \/ WatchStep(n)
      PROVE  NetsInv' /\ KnownStays /\ NetsMove
  <2>1. UNCHANGED resource
    BY <1>5 DEF NetworkStep, WatchStep, participantsVars
  <2>2. CASE OtherWrite(n)
    <3>1. /\ UNCHANGED <<nets, netCache>>
          /\ \A m \in NetworkNames : latest'[m] \subseteq latest[m]
      BY <1>1, <2>2 DEF OtherWrite, SecretsTypeOK
    <3> QED
      BY <1>1, <2>1, <3>1, NetsLeftAlone DEF NetsMove
  <2>3. CASE CreateNetwork(n) \/ DeleteNetwork(n)
    <3>1. /\ netCache' = netCache
          /\ nets'[n].Components = nets[n].Components
          /\ \/ nets[n].life = "absent" /\ nets'[n].life = "live"
             \/ nets[n].life = "live" /\ nets'[n].life = "deleting"
          /\ latest'[n] = {}
          /\ \A m \in NetworkNames \ {n} : nets'[m] = nets[m] /\ latest'[m] = latest[m]
      BY <1>1, <2>3, UserChanges
    <3>2. KnownStays
      BY <2>1, <3>1, KnownGrows
    <3>3. NetsMove
      BY <3>1 DEF NetsMove
    <3>4. CacheBehind' /\ OnlyExistingListed'
      BY <1>1, <3>1 DEF NetsInv, CacheBehind, OnlyExistingListed, SecretsTypeOK, NetObject
    <3>5. CacheKnown'
      BY <1>1, <3>1, <3>2 DEF NetsInv, CacheKnown, KnownStays, SecretsTypeOK, NetObject
    <3> QED
      BY <3>2, <3>3, <3>4, <3>5 DEF NetsInv
  <2>4. CASE WatchNet(n)
    <3>1. /\ UNCHANGED nets
          /\ netCache'[n] = nets[n]
          /\ \A m \in NetworkNames \ {n} :
               netCache'[m] = netCache[m] /\ latest'[m] = latest[m]
          /\ \A m \in NetworkNames : latest'[m] \subseteq latest[m] \cup {"cache"}
      BY <1>1, <2>4 DEF WatchNet, SecretsTypeOK
    <3>2. KnownStays
      BY <2>1, <3>1, KnownGrows
    <3>3. NetsMove
      BY <1>1, <3>1 DEF NetsMove, NetsInv, CacheBehind
    <3>4. CacheBehind' /\ OnlyExistingListed'
      BY <1>1, <3>1 DEF NetsInv, CacheBehind, OnlyExistingListed
    <3>5. CacheKnown'
      <4>1. ASSUME NEW c \in nets[n].Components PROVE Known(n, c)'
        BY <3>1, <4>1 DEF Known
      <4> QED
        BY <1>1, <3>1, <3>2, <4>1
           DEF NetsInv, CacheKnown, KnownStays, SecretsTypeOK, NetObject
    <3> QED
      BY <3>2, <3>3, <3>4, <3>5 DEF NetsInv
  <2> QED
    BY <1>5, <2>2, <2>3, <2>4 DEF NetworkStep, WatchStep
<1> QED
  BY <1>4, <1>5

\* Reconcile of the participants controller.
LEMMA RecKeepsSecrets ==
  ASSUME PInv, SecretsInv, RecStep
  PROVE  SecretsInv'
<1>1. TypeOK /\ SecretsTypeOK /\ WorkBound /\ NetsInv /\ CallsBound /\ CopiesKeep
  BY DEF PInv, TypeOK, SecretsInv, NetsInv
<1>2. UNCHANGED <<secretVars, workVars, resource>>
  BY DEF RecStep, RecNext, RecStart, RecRead, RecWrite
<1>3. SUFFICES NetsInv' /\ KnownStays /\ NetsMove
  BY <1>1, <1>2, <1>3, WorkerLeftAlone DEF SecretsInv, NetsInv, secretVars
<1>4. CASE UNCHANGED netsVars
  BY <1>1, <1>2, <1>4, NetsLeftAlone DEF NetsMove, netsVars
<1>5. CASE RecRead /\ ReadNet("reconcile", NetworkOf[rec.of])
  <2>1. /\ UNCHANGED <<nets, netCache>>
        /\ \A m \in NetworkNames : latest'[m] \subseteq latest[m] \cup {"reconcile"}
    BY <1>1, <1>5 DEF ReadNet, SecretsTypeOK
  <2> QED
    BY <1>1, <1>2, <2>1, NetsLeftAlone DEF NetsMove
<1>6. CASE RecWrite /\ Accepted("reconcile", rec) /\ Write("reconcile", rec)
  <2>1. /\ rec \in Call /\ rec.pc = "write" /\ NetworkOf[rec.of] \in NetworkNames
        /\ rec.Components \in SUBSET ComponentNames
    BY <1>1, <1>6, ParticipantsAssumption DEF RecWrite, TypeOK, CallsBound, Call
  <2>2. nets[NetworkOf[rec.of]].Components \subseteq rec.Components
    BY <1>1, <1>6, <2>1 DEF Accepted, CopiesKeep
  <2> QED
    BY <1>1, <1>2, <1>6, <2>1, <2>2, NetStored DEF Accepted, Write
<1> QED
  BY <1>4, <1>5, <1>6 DEF RecStep, RecNext, RecStart, RecRead, RecWrite

\* The event filter: it deletes secrets, and the one component that it takes from
\* a Network is the one of a resource that was deleted.
LEMMA FilterKeepsSecrets ==
  ASSUME PInv, SecretsInv, FilterStep
  PROVE  SecretsInv'
<1>1. /\ TypeOK /\ SecretsTypeOK /\ WorkBound /\ NetsInv /\ CallsBound /\ CopiesKeep
      /\ DeletedAreGone
  BY DEF PInv, TypeOK, SecretsInv, NetsInv
<1>2. UNCHANGED <<workVars, resource>>
  BY DEF FilterStep, FilterNext
<1>3. \A c \in ComponentNames : /\ secrets'[c] \subseteq secrets[c]
                                /\ dapr'[c] \subseteq dapr[c]
  BY <1>1 DEF FilterStep, FilterNext, FilterStart, FilterRead, FilterWrite,
              FilterReadSecret, FilterDeleteSecret, FilterReadDapr, FilterDeleteDapr,
              secretVars, SecretsTypeOK
<1>4. SUFFICES NetsInv' /\ KnownStays /\ NetsMove
  BY <1>1, <1>2, <1>3, <1>4, WorkerLeftAlone DEF SecretsInv, NetsInv
<1>5. CASE UNCHANGED netsVars
  BY <1>1, <1>2, <1>5, NetsLeftAlone DEF NetsMove, netsVars
<1>6. CASE FilterRead /\ ReadNet("filter", NetworkOf[filter.of])
  <2>1. /\ UNCHANGED <<nets, netCache>>
        /\ \A m \in NetworkNames : latest'[m] \subseteq latest[m] \cup {"filter"}
    BY <1>1, <1>6 DEF ReadNet, SecretsTypeOK
  <2> QED
    BY <1>1, <1>2, <2>1, NetsLeftAlone DEF NetsMove
<1>7. CASE FilterWrite /\ Accepted("filter", filter) /\ Write("filter", filter)
  <2>1. /\ filter \in Call /\ filter.pc = "write" /\ filter.of \in Resources
        /\ NetworkOf[filter.of] \in NetworkNames
        /\ filter.Components \in SUBSET ComponentNames
        /\ resource[filter.of] = "gone"
    BY <1>1, <1>7, ParticipantsAssumption
       DEF FilterWrite, TypeOK, CallsBound, Call, DeletedAreGone
  <2>2. nets[NetworkOf[filter.of]].Components
          \subseteq filter.Components \cup {ComponentOf[filter.of]}
    BY <1>1, <1>7, <2>1 DEF Accepted, CopiesKeep
  <2>3. \A c \in nets[NetworkOf[filter.of]].Components \ filter.Components :
          Deleted(NetworkOf[filter.of], c)
    BY <2>1, <2>2 DEF Deleted
  <2> QED
    BY <1>1, <1>2, <1>7, <2>1, <2>3, NetStored DEF Accepted, Write
<1> QED
  BY <1>5, <1>6, <1>7
     DEF FilterStep, FilterNext, FilterStart, FilterRead, FilterWrite,
         FilterReadSecret, FilterDeleteSecret, FilterReadDapr, FilterDeleteDapr

-----------------------------------------------------------------------------
(* The steps of the worker.                                                *)

\* A worker that is idle keeps what is said of it.
LEMMA WorkerIdle ==
  ASSUME TypeOK, WorkBound, SecretsInv, UNCHANGED <<nets, netCache, secretVars, resource>>,
         wpc' = "idle",
         \A n \in NetworkNames : /\ "cache" \in latest'[n] => "cache" \in latest[n]
                                 /\ "worker" \notin latest'[n]
  PROVE  SecretsInv'
<1>1. NetsInv
  BY DEF SecretsInv, NetsInv
<1>2. NetsInv' /\ KnownStays
  BY <1>1, NetsLeftAlone
<1>3. EntriesKnown'
  BY <1>2 DEF SecretsInv, EntriesKnown, KnownStays, secretVars
<1>4. WorkerPlace' /\ WorkerKnown' /\ RemovalSoFar'
  BY DEF WorkerPlace, WorkerKnown, RemovalSoFar, WriteSteps, RemoveSteps
<1> QED
  BY <1>2, <1>3, <1>4 DEF SecretsInv, NetsInv

\* A call fails, and its function returns.
LEMMA FailureKeepsSecrets ==
  ASSUME PInv, SecretsInv, Failure
  PROVE  SecretsInv'
<1>1. TypeOK /\ SecretsTypeOK /\ WorkBound /\ NetsInv
  BY DEF PInv, TypeOK, SecretsInv, NetsInv
<1>2. UNCHANGED <<nets, netCache, secretVars, resource>>
  BY DEF Failure, WorkReturn, netsVars, participantsVars
<1>3. CASE WorkReturn
  BY <1>1, <1>2, <1>3, WorkerIdle DEF WorkReturn, SecretsTypeOK
<1>4. CASE UNCHANGED <<netsVars, workVars>>
  <2>1. NetsInv' /\ KnownStays /\ NetsMove
    BY <1>1, <1>2, <1>4, NetsLeftAlone DEF NetsMove, netsVars
  <2> QED
    BY <1>1, <1>2, <1>4, <2>1, WorkerLeftAlone DEF SecretsInv, NetsInv, secretVars
<1> QED
  BY <1>3, <1>4 DEF Failure

\* A restart: the cache is new, and the worker idle.
LEMMA RestartKeepsSecrets ==
  ASSUME PInv, SecretsInv, Restart
  PROVE  SecretsInv'
<1>1. TypeOK /\ SecretsTypeOK /\ EntriesKnown /\ OnlyExistingListed
  BY DEF PInv, TypeOK, SecretsInv
<1>2. /\ UNCHANGED <<nets, secrets, dapr, resource>> /\ netCache' = nets /\ wpc' = "idle"
      /\ \A n \in NetworkNames : latest'[n] = {"cache"}
  BY DEF Restart, secretVars
<1>3. KnownStays
  BY <1>2, KnownGrows
<1>4. CacheBehind' /\ OnlyExistingListed'
  BY <1>1, <1>2 DEF CacheBehind, OnlyExistingListed, SecretsTypeOK, NetObject
<1>5. CacheKnown'
  BY <1>2 DEF CacheKnown, Known
<1>6. EntriesKnown'
  BY <1>1, <1>2, <1>3 DEF EntriesKnown, KnownStays
<1>7. WorkerPlace' /\ WorkerKnown' /\ RemovalSoFar'
  BY <1>2 DEF WorkerPlace, WorkerKnown, RemovalSoFar, WriteSteps, RemoveSteps
<1> QED
  BY <1>4, <1>5, <1>6, <1>7 DEF SecretsInv

\* The worker removes the finalizer with a copy that is accepted: no component has
\* an entry of the Network any more, but for those that were deleted before.
LEMMA RemovalKeepsSecrets ==
  ASSUME PInv, SecretsInv, UNCHANGED <<secretVars, resource>>,
         wpc = "nextRemoval", work.todo = {}, Exists(work.network),
         "worker" \in latest[work.network],
         StoreNet("worker", work.network, GoneNet), wpc' = "idle"
  PROVE  SecretsInv'
<1> DEFINE n == work.network
<1>1. /\ TypeOK /\ SecretsTypeOK /\ n \in NetworkNames
      /\ CacheBehind /\ OnlyExistingListed /\ WorkerPlace /\ CacheKnown /\ EntriesKnown
      /\ RemovalSoFar
  BY DEF PInv, TypeOK, WorkBound, SecretsInv
<1>2. /\ GoneNet # nets[n] /\ GoneNet.life = "gone" /\ GoneNet.Components = {}
  BY DEF GoneNet, NoNet, Exists
<1>3. /\ nets'[n] = GoneNet /\ latest'[n] = {} /\ UNCHANGED netCache
      /\ \A m \in NetworkNames \ {n} : nets'[m] = nets[m] /\ latest'[m] = latest[m]
  BY <1>1, <1>2 DEF StoreNet, SecretsTypeOK
<1>4. \A c \in ComponentNames : n \in secrets[c] \cup dapr[c] => Deleted(n, c)
  BY <1>1 DEF RemovalSoFar, RemoveSteps
<1>5. \A m \in NetworkNames, c \in ComponentNames :
        /\ Deleted(m, c) => Deleted(m, c)'
        /\ m # n /\ Known(m, c) => Known(m, c)'
  BY <1>3 DEF Deleted, Known
<1>6. CacheBehind' /\ OnlyExistingListed'
  BY <1>1, <1>2, <1>3 DEF CacheBehind, OnlyExistingListed, WorkerPlace, RemoveSteps
<1>7. CacheKnown'
  BY <1>1, <1>2, <1>3, <1>5 DEF CacheKnown, SecretsTypeOK, NetObject
<1>8. EntriesKnown'
  <2>1. SUFFICES ASSUME NEW m \in NetworkNames, NEW c \in ComponentNames,
                        m \in secrets[c] \cup dapr[c]
                 PROVE  Known(m, c)'
    BY DEF EntriesKnown, secretVars
  <2>2. CASE m = n
    BY <1>4, <1>5, <2>1, <2>2 DEF Known
  <2>3. CASE m # n
    BY <1>1, <1>5, <2>1, <2>3 DEF EntriesKnown
  <2> QED
    BY <2>2, <2>3
<1>9. WorkerPlace' /\ WorkerKnown' /\ RemovalSoFar'
  BY <1>1, <1>3 DEF WorkerPlace, WorkerKnown, RemovalSoFar, WriteSteps, RemoveSteps
<1> QED
  BY <1>6, <1>7, <1>8, <1>9 DEF SecretsInv

\* The worker keeps the invariant.
LEMMA WorkKeepsSecrets ==
  ASSUME PInv, SecretsInv, WorkStep
  PROVE  SecretsInv'
<1>1. /\ TypeOK /\ SecretsTypeOK /\ WorkBound /\ NetsInv /\ WorkerPlace /\ WorkerKnown
      /\ EntriesKnown /\ RemovalSoFar
  BY DEF PInv, TypeOK, SecretsInv, NetsInv
<1>2. /\ work \in Work
      /\ wpc # "idle" => work.network \in NetworkNames
      /\ wpc \notin {"idle", "next", "nextRemoval"} => work.component \in ComponentNames
      /\ work.todo \subseteq ComponentNames /\ work.data \subseteq NetworkNames
  BY <1>1 DEF SecretsTypeOK, WorkBound, Work
<1>3. WorkNext /\ UNCHANGED resource
  BY DEF WorkStep, participantsVars
\* All but two steps leave the Networks and their copies alone.
<1> DEFINE Kept == WorkerPlace' /\ WorkerKnown' /\ EntriesKnown' /\ RemovalSoFar'
<1>4. ASSUME UNCHANGED <<nets, netCache>>,
             \A n \in NetworkNames : "cache" \in latest'[n] => "cache" \in latest[n]
      PROVE  /\ KnownStays
             /\ Kept => SecretsInv'
  BY <1>1, <1>3, <1>4, NetsLeftAlone DEF SecretsInv, NetsInv
<1>5. ASSUME NEW n \in NetworkNames, WorkStart(n)
      PROVE  SecretsInv'
  <2>1. /\ UNCHANGED <<nets, netCache, secrets, dapr>>
        /\ \A m \in NetworkNames : latest'[m] \subseteq latest[m] \cup {"worker"}
        /\ \A m \in NetworkNames \ {n} : latest'[m] = latest[m]
    BY <1>1, <1>5 DEF WorkStart, secretVars, SecretsTypeOK
  <2>2. KnownStays /\ (Kept => SecretsInv')
    BY <1>4, <2>1
  <2>3. /\ work'.network = n /\ work'.todo = netCache[n].Components
        /\ \/ netCache[n].life = "live" /\ wpc' = "next" /\ UNCHANGED latest
           \/ /\ netCache[n].life = "deleting" /\ wpc' = "nextRemoval"
              /\ "worker" \in latest'[n] => "cache" \in latest[n] \/ "worker" \in latest[n]
    BY <1>5 DEF WorkStart, NoWork
  <2>4. \A m \in NetworkNames : "worker" \notin latest[m]
    BY <1>1, <1>5 DEF WorkerPlace, WorkStart, RemoveSteps
  <2>5. WorkerPlace'
    BY <1>1, <2>1, <2>3, <2>4
       DEF WorkerPlace, WriteSteps, RemoveSteps, NetsInv, CacheBehind, SecretsTypeOK,
           NetObject
  <2>6. WorkerKnown'
    <3>1. CASE netCache[n].life = "live"
      <4>1. nets[n].life # "gone"
        BY <1>1, <3>1 DEF NetsInv, CacheBehind
      <4>2. \A c \in netCache[n].Components : Known(n, c)'
        BY <1>1, <2>2, <4>1
           DEF NetsInv, CacheKnown, KnownStays, SecretsTypeOK, NetObject
      <4> QED
        BY <2>3, <3>1, <4>2 DEF WorkerKnown
    <3>2. CASE netCache[n].life # "live"
      BY <2>3, <3>2 DEF WorkerKnown, WriteSteps
    <3> QED
      BY <3>1, <3>2
  <2>7. EntriesKnown'
    BY <1>1, <2>1, <2>2 DEF EntriesKnown, KnownStays
  <2>8. RemovalSoFar'
    <3>1. SUFFICES ASSUME "worker" \in latest'[n], NEW c \in ComponentNames,
                          n \in secrets[c] \cup dapr[c], wpc' = "nextRemoval"
                   PROVE  c \in work'.todo \/ Deleted(n, c)'
      BY <2>1, <2>3 DEF RemovalSoFar, RemoveSteps
    <3>2. netCache[n] = nets[n]
      BY <1>1, <2>3, <2>4, <3>1 DEF NetsInv, CacheBehind
    <3> QED
      BY <1>1, <2>2, <2>3, <3>1, <3>2 DEF EntriesKnown, Known, KnownStays
  <2> QED
    BY <2>2, <2>5, <2>6, <2>7, <2>8
<1>6. ASSUME NEW c \in ComponentNames, WorkRead(c)
      PROVE  SecretsInv'
  <2>1. UNCHANGED <<nets, netCache, latest, secrets, dapr>>
    BY <1>6 DEF WorkRead, secretVars, netsVars
  <2>2. KnownStays /\ (Kept => SecretsInv')
    BY <1>4, <2>1
  <2>3. /\ wpc = "next" /\ c \in work.todo
        /\ wpc' \in {"createSecret", "updateSecret"}
        /\ work'.network = work.network /\ work'.component = c
        /\ work'.todo = work.todo \ {c} /\ work'.data = secrets[c]
    BY <1>2, <1>6 DEF WorkRead, Work
  <2>4. WorkerPlace' /\ RemovalSoFar'
    BY <1>1, <2>1, <2>3 DEF WorkerPlace, RemovalSoFar, WriteSteps, RemoveSteps
  <2>5. WorkerKnown'
    <3>1. Known(work.network, c)' /\ \A b \in work.todo : Known(work.network, b)'
      BY <1>1, <1>2, <2>2, <2>3 DEF WorkerKnown, KnownStays, WriteSteps
    <3>2. \A n \in secrets[c] : Known(n, c)'
      BY <1>1, <2>2 DEF EntriesKnown, KnownStays, SecretsTypeOK
    <3> QED
      BY <2>3, <3>1, <3>2 DEF WorkerKnown
  <2>6. EntriesKnown'
    BY <1>1, <2>1, <2>2 DEF EntriesKnown, KnownStays
  <2> QED
    BY <2>2, <2>4, <2>5, <2>6
<1>7. CASE WorkUpdateSecret \/ WorkCreateSecret
  <2>1. /\ UNCHANGED <<nets, netCache, latest, dapr>>
        /\ wpc \in {"updateSecret", "createSecret"}
        /\ wpc' \in {"existsDapr", "createSecret"}
    BY <1>7 DEF WorkUpdateSecret, WorkCreateSecret, SecretWritten, Step, secretVars,
                netsVars
  <2>2. KnownStays /\ (Kept => SecretsInv')
    BY <1>4, <2>1
  <2>3. \/ UNCHANGED <<secrets, work>>
        \/ /\ secrets' = [secrets EXCEPT ![work.component] = Entries]
           /\ work'.network = work.network /\ work'.component = work.component
           /\ work'.todo = work.todo /\ work'.data = Entries
    BY <1>2, <1>7 DEF WorkUpdateSecret, WorkCreateSecret, SecretWritten, Step,
                      secretVars, Work
  <2>4. WorkerPlace' /\ RemovalSoFar'
    BY <1>1, <2>1, <2>3 DEF WorkerPlace, RemovalSoFar, WriteSteps, RemoveSteps
  <2>5. /\ work.network \in NetworkNames /\ work.component \in ComponentNames
        /\ Known(work.network, work.component)'
        /\ \A n \in work.data : Known(n, work.component)'
        /\ \A b \in work.todo : Known(work.network, b)'
    <3>1. UNCHANGED <<work.network, work.component>>
      BY <2>3
    <3> QED
      BY <1>1, <1>2, <2>1, <2>2, <3>1 DEF WorkerKnown, KnownStays, WriteSteps
  <2>6. \A n \in Entries : Known(n, work.component)'
    <3>1. UNCHANGED <<work.network, work.component>>
      BY <2>3
    <3> QED
      BY <2>5, <3>1 DEF Entries
  <2>7. CASE UNCHANGED <<secrets, work>>
    <3>1. WorkerKnown'
      BY <2>5, <2>7 DEF WorkerKnown
    <3>2. EntriesKnown'
      BY <1>1, <2>1, <2>2, <2>7 DEF EntriesKnown, KnownStays
    <3> QED
      BY <2>2, <2>4, <3>1, <3>2
  <2>8. CASE /\ secrets' = [secrets EXCEPT ![work.component] = Entries]
             /\ work'.network = work.network /\ work'.component = work.component
             /\ work'.todo = work.todo /\ work'.data = Entries
    <3> HIDE DEF Kept
    <3>1. WorkerKnown'
      BY <2>5, <2>6, <2>8 DEF WorkerKnown
    <3>2. /\ secrets'[work.component] = Entries
          /\ \A c \in ComponentNames \ {work.component} : secrets'[c] = secrets[c]
      BY <1>1, <2>5, <2>8 DEF SecretsTypeOK
    <3>3. ASSUME NEW n \in NetworkNames, NEW c \in ComponentNames,
                 n \in secrets'[c] \cup dapr'[c]
          PROVE  Known(n, c)'
      <4>1. CASE n \in secrets[c] \cup dapr[c]
        BY <1>1, <2>2, <4>1 DEF EntriesKnown, KnownStays
      <4>2. CASE c = work.component /\ n \in Entries
        BY <2>6, <2>8, <4>2
      <4> QED
        BY <2>1, <3>2, <3>3, <4>1, <4>2
    <3>4. EntriesKnown'
      BY <3>3 DEF EntriesKnown
    <3> QED
      BY <2>2, <2>4, <3>1, <3>4 DEF Kept
  <2> QED
    BY <2>3, <2>7, <2>8
<1>8. ASSUME WorkReturn, UNCHANGED secretVars
      PROVE  SecretsInv'
  BY <1>1, <1>3, <1>8, WorkerIdle DEF WorkReturn, SecretsTypeOK
<1>9. CASE WorkExistsDapr \/ WorkUpdateDapr \/ WorkCreateDapr
  <2>1. CASE WorkReturn /\ UNCHANGED secretVars
    BY <1>8, <2>1
  <2>2. CASE UNCHANGED <<nets, netCache, latest, secrets, work>>
             /\ wpc \in WriteSteps \ {"next"} /\ wpc' \in WriteSteps
             /\ (dapr' = dapr \/ dapr' = [dapr EXCEPT ![work.component] = work.data])
    <3>1. KnownStays /\ (Kept => SecretsInv')
      BY <1>4, <2>2
    <3>2. WorkerPlace' /\ RemovalSoFar'
      BY <1>1, <2>2 DEF WorkerPlace, RemovalSoFar, WriteSteps, RemoveSteps
    <3>3. /\ work.network \in NetworkNames /\ work.component \in ComponentNames
          /\ Known(work.network, work.component)'
          /\ \A n \in work.data : Known(n, work.component)'
          /\ \A b \in work.todo : Known(work.network, b)'
      BY <1>1, <1>2, <2>2, <3>1 DEF WorkerKnown, KnownStays, WriteSteps
    <3>4. WorkerKnown'
      BY <2>2, <3>3 DEF WorkerKnown
    <3>5. ASSUME NEW n \in NetworkNames, NEW c \in ComponentNames,
                 n \in secrets'[c] \cup dapr'[c]
          PROVE  Known(n, c)'
      <4>1. CASE n \in secrets[c] \cup dapr[c]
        BY <1>1, <3>1, <4>1 DEF EntriesKnown, KnownStays
      <4>2. CASE c = work.component /\ n \in work.data
        BY <2>2, <3>3, <4>2
      <4> QED
        BY <1>1, <2>2, <3>3, <3>5, <4>1, <4>2 DEF SecretsTypeOK
    <3>6. EntriesKnown'
      BY <3>5 DEF EntriesKnown
    <3> QED
      BY <3>1, <3>2, <3>4, <3>6
  <2> QED
    BY <1>9, <2>1, <2>2
       DEF WorkExistsDapr, WorkUpdateDapr, WorkCreateDapr, DaprWritten, Step,
           WriteSteps, netsVars, secretVars
<1>10. ASSUME UNCHANGED <<nets, netCache, latest>>,
              wpc \in RemoveSteps, wpc' \in RemoveSteps, work'.network = work.network,
              \A c \in ComponentNames : /\ secrets'[c] \subseteq secrets[c]
                                        /\ dapr'[c] \subseteq dapr[c],
              RemovalSoFar'
       PROVE  SecretsInv'
  <2>1. KnownStays /\ (Kept => SecretsInv')
    BY <1>4, <1>10
  <2>2. WorkerPlace' /\ WorkerKnown'
    BY <1>1, <1>10 DEF WorkerPlace, WorkerKnown, WriteSteps, RemoveSteps
  <2>3. EntriesKnown'
    BY <1>1, <1>10, <2>1 DEF EntriesKnown, KnownStays
  <2> QED
    BY <1>10, <2>1, <2>2, <2>3
<1>11. \A n \in NetworkNames, c \in ComponentNames : Deleted(n, c) => Deleted(n, c)'
  BY <1>3 DEF Deleted
<1>12. ASSUME NEW c \in ComponentNames, WorkReadRemoval(c)
       PROVE  SecretsInv'
  <2>1. /\ UNCHANGED <<nets, netCache, latest, secrets, dapr>>
        /\ wpc = "nextRemoval" /\ c \in work.todo
        /\ wpc' = IF work.network \in secrets[c] THEN "deleteSecret" ELSE "readDapr"
    BY <1>12 DEF WorkReadRemoval, secretVars, netsVars
  <2>2. /\ work'.network = work.network /\ work'.component = c
        /\ work'.todo = work.todo \ {c}
    BY <1>2, <1>12 DEF WorkReadRemoval, Work
  <2>3. RemovalSoFar'
    BY <1>1, <1>2, <1>11, <2>1, <2>2 DEF RemovalSoFar, RemoveSteps
  <2> QED
    BY <1>10, <2>1, <2>2, <2>3 DEF RemoveSteps
<1>13. CASE WorkDeleteSecret
  <2>1. /\ UNCHANGED <<nets, netCache, latest, dapr, work>>
        /\ wpc = "deleteSecret" /\ wpc' = "readDapr"
        /\ secrets' = [secrets EXCEPT ![work.component] = {}]
    BY <1>13 DEF WorkDeleteSecret, Step, netsVars
  <2>2. RemovalSoFar'
    BY <1>1, <1>2, <1>11, <2>1 DEF RemovalSoFar, RemoveSteps, SecretsTypeOK
  <2> QED
    BY <1>1, <1>10, <2>1, <2>2 DEF RemoveSteps, SecretsTypeOK
<1>14. CASE WorkReadDapr
  <2>1. /\ UNCHANGED <<nets, netCache, latest, secrets, dapr, work>>
        /\ wpc = "readDapr"
        /\ wpc' = IF work.network \in dapr[work.component] THEN "deleteDapr"
                                                            ELSE "nextRemoval"
    BY <1>14 DEF WorkReadDapr, Step, netsVars, secretVars
  <2>2. RemovalSoFar'
    BY <1>1, <1>2, <1>11, <2>1 DEF RemovalSoFar, RemoveSteps
  <2> QED
    BY <1>10, <2>1, <2>2 DEF RemoveSteps
<1>15. CASE WorkDeleteDapr
  <2>1. /\ UNCHANGED <<nets, netCache, latest, secrets, work>>
        /\ wpc = "deleteDapr" /\ wpc' = "nextRemoval"
        /\ dapr' = [dapr EXCEPT ![work.component] = {}]
    BY <1>15 DEF WorkDeleteDapr, Step, netsVars
  <2>2. RemovalSoFar'
    BY <1>1, <1>2, <1>11, <2>1 DEF RemovalSoFar, RemoveSteps, SecretsTypeOK
  <2> QED
    BY <1>1, <1>10, <2>1, <2>2 DEF RemoveSteps, SecretsTypeOK
<1>16. CASE WorkCreated
  BY <1>8, <1>16 DEF WorkCreated
<1>17. CASE WorkRemoveFinalizer
  BY <1>3, <1>8, <1>17, RemovalKeepsSecrets DEF WorkRemoveFinalizer
<1> QED
  BY <1>3, <1>5, <1>6, <1>7, <1>9, <1>12, <1>13, <1>14, <1>15, <1>16, <1>17 DEF WorkNext

-----------------------------------------------------------------------------
(* The theorem about the secrets.                                          *)

\* There are no Networks and no secrets at first.
LEMMA InitSecretsInv ==
  ASSUME Init
  PROVE  SecretsInv
<1>1. /\ \A n \in NetworkNames : /\ nets[n] = NoNet /\ netCache[n] = NoNet
                                 /\ latest[n] = {"cache"}
      /\ \A c \in ComponentNames : secrets[c] = {} /\ dapr[c] = {}
      /\ wpc = "idle"
  BY DEF Init, SecretsInit
<1>2. NoNet.life = "absent" /\ NoNet.Components = {}
  BY DEF NoNet
<1> QED
  BY <1>1, <1>2 DEF SecretsInv, CacheBehind, OnlyExistingListed, WorkerPlace, CacheKnown,
       WorkerKnown, EntriesKnown, RemovalSoFar, WriteSteps, RemoveSteps

\* Every step keeps the invariant.
LEMMA NextSecretsInv ==
  ASSUME PInv, SecretsInv, [Next]_vars
  PROVE  SecretsInv'
<1>1. CASE UNCHANGED vars
  <2>1. TypeOK /\ WorkBound /\ NetsInv
    BY DEF PInv, SecretsInv, NetsInv
  <2>2. NetsInv' /\ KnownStays /\ NetsMove
    BY <1>1, <2>1, NetsLeftAlone DEF NetsMove, vars, netsVars, participantsVars
  <2> QED
    BY <1>1, <2>1, <2>2, WorkerLeftAlone DEF SecretsInv, NetsInv, vars, secretVars
<1> QED
  BY <1>1, ClusterKeepsSecrets, WorkKeepsSecrets, RecKeepsSecrets, FilterKeepsSecrets,
     FailureKeepsSecrets, RestartKeepsSecrets DEF Next

\* The invariant of the secrets holds in every state.
THEOREM SecretsInvariance == Spec => []SecretsInv
<1>1. Init => SecretsInv
  BY InitSecretsInv
<1>2. PInv /\ SecretsInv /\ [Next]_vars => SecretsInv'
  BY NextSecretsInv
<1> QED
  BY <1>1, <1>2, ParticipantsInvariance, PTL DEF Spec

\* A Network takes its secrets with it, however the worker, the event filter,
\* failures, restarts and stale copies interleave: credentials of a Network that
\* is gone are only left with a component whose Participants resource was deleted.
THEOREM SecretsLeaveWithNetwork == Spec => []SecretsGoWithNetwork
<1>1. SecretsInv => SecretsGoWithNetwork
  <2>1. SUFFICES ASSUME SecretsInv, NEW n \in NetworkNames, NEW c \in ComponentNames,
                        nets[n].life = "gone", n \in secrets[c] \cup dapr[c]
                 PROVE  Deleted(n, c)
    BY DEF SecretsGoWithNetwork, Deleted
  <2> QED
    BY <2>1 DEF SecretsInv, EntriesKnown, OnlyExistingListed, Known
<1> QED
  BY <1>1, SecretsInvariance, PTL

-----------------------------------------------------------------------------
(* The refinement.  It needs of a copy that would be accepted exactly what *)
(* it changes (CopiesExact), and of Reconcile that its resource was        *)
(* created (RecCreated).                                                   *)

\* A step of Membership, or none.
RegistryStep == [Registry!Next]_(Registry!vars)

\* Networks and resources that stay as they are: no step of Membership.
LEMMA RegistryStutters ==
  ASSUME UNCHANGED <<nets, resource>>
  PROVE  RegistryStep
<1>1. UNCHANGED Registry!vars
  BY DEF Registry!vars
<1> QED
  BY <1>1 DEF RegistryStep

\* Reconcile and the event filter stay where they are, and their copies of what
\* changes are no longer accepted.
LEMMA CopiesStayExact ==
  ASSUME CallsBound, CallsInv, UNCHANGED <<rec, filter>>,
         \A o \in Resources : resource[o] # "absent" => resource'[o] # "absent",
         \A n \in NetworkNames, h \in {"reconcile", "filter"} :
           h \in latest'[n] =>
             h \in latest[n] /\ nets'[n].Components = nets[n].Components
  PROVE  CallsInv'
<1>1. /\ rec.pc # "idle" => rec.of \in Resources /\ NetworkOf[rec.of] \in NetworkNames
      /\ filter.pc = "write" => NetworkOf[filter.of] \in NetworkNames
  BY ParticipantsAssumption DEF CallsBound
<1>2. CopiesExact'
  BY <1>1 DEF CallsInv, CopiesExact
<1>3. RecCreated'
  BY <1>1 DEF CallsInv, RecCreated
<1> QED
  BY <1>2, <1>3 DEF CallsInv

\* Only Components change of a stored copy.
LEMMA StoredComponents ==
  ASSUME SecretsTypeOK, NEW n \in NetworkNames, NEW h, NEW C \in SUBSET ComponentNames,
         StoreNet(h, n, [nets[n] EXCEPT !.Components = C])
  PROVE  /\ [m \in NetworkNames |-> nets[m].life]' = [m \in NetworkNames |-> nets[m].life]
         /\ [m \in NetworkNames |-> nets[m].Components]'
              = [[m \in NetworkNames |-> nets[m].Components] EXCEPT ![n] = C]
<1>1. /\ nets'[n].Components = C
      /\ nets'[n].life = nets[n].life
      /\ \A m \in NetworkNames \ {n} : nets'[m] = nets[m]
  BY StoreKeepsTypes
<1> QED
  BY <1>1

\* The users, the watches and the other writers create and delete.
LEMMA ClusterImplements ==
  ASSUME PInv, CallsInv,
         \/ \E n \in NetworkNames : NetworkStep(n) \/ WatchStep(n)
         \/ \E o \in Resources : ResourceStep(o) \/ EventStep(o)
  PROVE  CallsInv' /\ RegistryStep
<1>1. TypeOK /\ SecretsTypeOK /\ CallsBound /\ AbsentEmpty
  BY DEF PInv, TypeOK
<1>2. ASSUME NEW o \in Resources, ResourceStep(o) \/ EventStep(o)
      PROVE  CallsInv' /\ RegistryStep
  <2>1. UNCHANGED <<nets, latest, rec, filter>>
    BY <1>2 DEF ResourceStep, EventStep, netsVars, CreateResource, DeleteResource,
                WatchResource
  <2>2. \/ UNCHANGED resource
        \/ resource[o] = "absent" /\ resource' = [resource EXCEPT ![o] = "live"]
        \/ resource[o] = "live" /\ resource' = [resource EXCEPT ![o] = "gone"]
    BY <1>2 DEF ResourceStep, EventStep, CreateResource, DeleteResource, WatchResource
  <2>3. CallsInv'
    BY <1>1, <2>1, <2>2, CopiesStayExact DEF TypeOK
  <2>4. CASE UNCHANGED resource
    BY <2>1, <2>3, <2>4, RegistryStutters
  <2>5. CASE \/ resource[o] = "absent" /\ resource' = [resource EXCEPT ![o] = "live"]
             \/ resource[o] = "live" /\ resource' = [resource EXCEPT ![o] = "gone"]
    <3>1. Registry!Resource(o, "absent", "live") \/ Registry!Resource(o, "live", "gone")
      BY <2>1, <2>5 DEF Registry!Resource
    <3> QED
      BY <2>3, <3>1 DEF RegistryStep, Registry!Next
  <2> QED
    BY <2>2, <2>4, <2>5
<1>3. ASSUME NEW n \in NetworkNames, NetworkStep(n) \/ WatchStep(n)
      PROVE  CallsInv' /\ RegistryStep
  <2>1. UNCHANGED <<resource, rec, filter>>
    BY <1>3 DEF NetworkStep, WatchStep, participantsVars
  <2>2. CASE OtherWrite(n) \/ WatchNet(n)
    <3>1. /\ UNCHANGED nets
          /\ \A m \in NetworkNames : latest'[m] \subseteq latest[m] \cup {"cache"}
      BY <1>1, <2>2 DEF OtherWrite, WatchNet, SecretsTypeOK
    <3> QED
      BY <1>1, <2>1, <3>1, CopiesStayExact, RegistryStutters
  <2>3. CASE CreateNetwork(n) \/ DeleteNetwork(n)
    <3>1. /\ nets'[n].Components = nets[n].Components
          /\ \A m \in NetworkNames \ {n} : nets'[m] = nets[m] /\ latest'[m] = latest[m]
          /\ latest'[n] = {}
      BY <1>1, <2>3, UserChanges
    <3>2. CallsInv'
      BY <1>1, <2>1, <3>1, CopiesStayExact
    <3>3. \/ nets[n].life = "absent" /\ nets'[n].life = "live"
          \/ nets[n].life = "live" /\ nets'[n].life = "deleting"
      BY <1>1, <2>3, UserChanges
    <3>4. Registry!Network(n, "absent", "live") \/ Registry!Network(n, "live", "deleting")
      BY <2>1, <3>1, <3>3 DEF Registry!Network
    <3> QED
      BY <3>2, <3>4 DEF RegistryStep, Registry!Next
  <2> QED
    BY <1>3, <2>2, <2>3 DEF NetworkStep, WatchStep
<1> QED
  BY <1>2, <1>3

\* The worker closes a Network that is being deleted, and changes no other.
LEMMA WorkImplements ==
  ASSUME PInv, SecretsInv, CallsInv, WorkStep
  PROVE  CallsInv' /\ RegistryStep
<1>1. TypeOK /\ SecretsTypeOK /\ CallsBound /\ WorkBound /\ WorkerPlace /\ CacheBehind
  BY DEF PInv, TypeOK, SecretsInv
<1>2. WorkNext /\ UNCHANGED <<resource, rec, filter>>
  BY DEF WorkStep, participantsVars
<1>3. CASE /\ UNCHANGED nets
           /\ \A n \in NetworkNames : latest'[n] \subseteq latest[n] \cup {"worker"}
  BY <1>1, <1>2, <1>3, CopiesStayExact, RegistryStutters
<1>4. CASE /\ wpc = "nextRemoval" /\ Exists(work.network)
           /\ StoreNet("worker", work.network, GoneNet)
  <2>1. PICK n \in NetworkNames : n = work.network /\ nets[n].life = "deleting"
    BY <1>1, <1>4 DEF WorkBound, WorkerPlace, CacheBehind, RemoveSteps, Exists
  <2>2. GoneNet.life = "gone" /\ GoneNet.Components = {}
    BY DEF GoneNet, NoNet
  <2>3. /\ nets'[n] = GoneNet /\ latest'[n] = {}
        /\ \A m \in NetworkNames \ {n} : nets'[m] = nets[m] /\ latest'[m] = latest[m]
    BY <1>1, <1>4, <2>1, <2>2 DEF StoreNet, SecretsTypeOK
  <2>4. CallsInv'
    BY <1>1, <1>2, <2>3, CopiesStayExact
  <2>5. Registry!Close(n)
    BY <1>2, <2>1, <2>2, <2>3 DEF Registry!Close
  <2> QED
    BY <2>1, <2>4, <2>5 DEF RegistryStep, Registry!Next
<1>5. ASSUME UNCHANGED netsVars
      PROVE  /\ UNCHANGED nets
             /\ \A n \in NetworkNames : latest'[n] \subseteq latest[n] \cup {"worker"}
  BY <1>5 DEF netsVars
<1>6. ASSUME WorkReturn
      PROVE  /\ UNCHANGED nets
             /\ \A n \in NetworkNames : latest'[n] \subseteq latest[n] \cup {"worker"}
  BY <1>6 DEF WorkReturn
<1>7. ASSUME NEW n \in NetworkNames, WorkStart(n)
      PROVE  /\ UNCHANGED nets
             /\ \A m \in NetworkNames : latest'[m] \subseteq latest[m] \cup {"worker"}
  BY <1>1, <1>7 DEF WorkStart, SecretsTypeOK
<1>8. \/ UNCHANGED netsVars
      \/ WorkReturn
      \/ \E n \in NetworkNames : WorkStart(n)
      \/ /\ wpc = "nextRemoval" /\ Exists(work.network)
         /\ StoreNet("worker", work.network, GoneNet)
  BY <1>2 DEF WorkNext, WorkRead, WorkReadRemoval, WorkUpdateSecret, WorkCreateSecret,
       WorkExistsDapr, WorkUpdateDapr, WorkCreateDapr, WorkDeleteSecret, WorkReadDapr,
       WorkDeleteDapr, WorkCreated, WorkRemoveFinalizer, SecretWritten, DaprWritten, Step
<1> QED
  BY <1>3, <1>4, <1>5, <1>6, <1>7, <1>8

\* Reconcile: a write that is accepted is a join.
LEMMA RecImplements ==
  ASSUME PInv, CallsInv, RecStep
  PROVE  CallsInv' /\ RegistryStep
<1>1. /\ TypeOK /\ SecretsTypeOK /\ CallsBound /\ DeletedAreGone
      /\ CopiesExact /\ RecCreated
  BY DEF PInv, TypeOK, CallsInv
<1>2. UNCHANGED <<resource, filter>>
  BY DEF RecStep, RecNext, RecStart, RecRead, RecWrite
<1>3. filter.pc = "write" => NetworkOf[filter.of] \in NetworkNames
  BY <1>1, ParticipantsAssumption DEF CallsBound
<1>4. ASSUME UNCHANGED netsVars, rec'.pc # "write",
             rec'.pc # "idle" => resource[rec'.of] # "absent"
      PROVE  CallsInv' /\ RegistryStep
  <2>1. CallsInv'
    BY <1>1, <1>2, <1>4 DEF CallsInv, CopiesExact, RecCreated, netsVars
  <2> QED
    BY <1>2, <1>4, <2>1, RegistryStutters DEF netsVars
<1>5. ASSUME NEW o \in Resources, RecStart(o)
      PROVE  CallsInv' /\ RegistryStep
  <2>1. /\ UNCHANGED netsVars
        /\ rec' = NoCall \/ (rec' = Start(o) /\ cache[o] = "live")
    BY <1>5 DEF RecStart
  <2>2. rec'.pc # "write" /\ (rec'.pc # "idle" => resource[rec'.of] # "absent")
    BY <1>1, <2>1, CallTypes DEF DeletedAreGone
  <2> QED
    BY <1>4, <2>1, <2>2
<1>6. CASE RecReturn /\ UNCHANGED netsVars
  BY <1>4, <1>6, CallTypes DEF RecReturn
<1>7. CASE RecRead /\ Exists(NetworkOf[rec.of])
  <2>1. PICK n \in NetworkNames : n = NetworkOf[rec.of]
    BY <1>1, <1>7, ParticipantsAssumption DEF RecRead, CallsBound
  <2>2. /\ rec \in Call /\ rec.pc = "read" /\ ReadNet("reconcile", n)
        /\ rec' = [rec EXCEPT !.pc = "write",
                     !.Components = addParticipant(nets[n].Components, rec.of)]
    BY <1>1, <1>7, <2>1 DEF RecRead, TypeOK
  <2>3. /\ rec'.pc = "write" /\ rec'.of = rec.of
        /\ rec'.Components = nets[n].Components \cup {ComponentOf[rec.of]}
    BY <2>2 DEF Call, addParticipant
  <2>4. /\ UNCHANGED nets
        /\ \A m \in NetworkNames : latest'[m] \subseteq latest[m] \cup {"reconcile"}
    BY <1>1, <2>2 DEF ReadNet, SecretsTypeOK
  <2>5. CallsInv'
    BY <1>1, <1>2, <1>3, <2>1, <2>2, <2>3, <2>4 DEF CallsInv, CopiesExact, RecCreated
  <2> QED
    BY <1>2, <2>4, <2>5, RegistryStutters
<1>8. CASE RecWrite /\ Retries(rec) /\ rec' = Again(rec) /\ UNCHANGED netsVars
  <2>1. rec \in Call /\ rec.of \in Resources /\ resource[rec.of] # "absent"
    BY <1>1, <1>8 DEF RecWrite, TypeOK, CallsBound, RecCreated
  <2>2. rec'.pc = "read" /\ rec'.of = rec.of
    BY <1>8, <2>1, AgainTypes
  <2> QED
    BY <1>4, <1>8, <2>1, <2>2
<1>9. CASE RecWrite /\ Accepted("reconcile", rec) /\ Write("reconcile", rec)
           /\ RecReturn
  <2>1. PICK o \in Resources : o = rec.of
    BY <1>1, <1>9 DEF RecWrite, CallsBound
  <2>2. PICK n \in NetworkNames : n = NetworkOf[o]
    BY ParticipantsAssumption
  <2>3. PICK C \in SUBSET ComponentNames : C = rec.Components
    BY <1>1 DEF TypeOK, Call
  <2>4. /\ Exists(n) /\ resource[o] # "absent"
        /\ C = nets[n].Components \cup {ComponentOf[o]}
    BY <1>1, <1>9, <2>1, <2>2, <2>3 DEF RecWrite, Accepted, CopiesExact, RecCreated
  <2>5. StoreNet("reconcile", n, [nets[n] EXCEPT !.Components = C])
    BY <1>9, <2>1, <2>2, <2>3 DEF Write
  <2>6. Registry!Change(o, C)
    BY <1>1, <1>2, <2>2, <2>4, <2>5, StoredComponents DEF Registry!Change, Exists
  <2>7. Registry!Join(o)
    BY <2>2, <2>4, <2>6 DEF Registry!Join, Registry!Change
  <2>8. \A m \in NetworkNames : \A g \in latest'[m] :
          g \in latest[m] /\ nets'[m] = nets[m]
    BY <1>1, <2>5, StoreKeepsTypes
  <2>9. CallsInv'
    BY <1>1, <1>2, <1>3, <1>9, <2>8, CallTypes
       DEF RecReturn, CallsInv, CopiesExact, RecCreated
  <2> QED
    BY <2>7, <2>9 DEF RegistryStep, Registry!Next
<1> QED
  BY <1>5, <1>6, <1>7, <1>8, <1>9 DEF RecStep, RecNext, RecRead, RecWrite

\* The event filter: a write that is accepted is a leave.
LEMMA FilterImplements ==
  ASSUME PInv, CallsInv, FilterStep
  PROVE  CallsInv' /\ RegistryStep
<1>1. /\ TypeOK /\ SecretsTypeOK /\ CallsBound /\ DeletedAreGone
      /\ CopiesExact /\ RecCreated
  BY DEF PInv, TypeOK, CallsInv
<1>2. UNCHANGED <<resource, rec>>
  BY DEF FilterStep, FilterNext
<1>3. rec.pc = "write" => NetworkOf[rec.of] \in NetworkNames
  BY <1>1, ParticipantsAssumption DEF CallsBound
<1>4. ASSUME UNCHANGED netsVars, filter'.pc # "write"
      PROVE  CallsInv' /\ RegistryStep
  <2>1. CallsInv'
    BY <1>1, <1>2, <1>4 DEF CallsInv, CopiesExact, RecCreated, netsVars
  <2> QED
    BY <1>2, <1>4, <2>1, RegistryStutters DEF netsVars
<1>5. ASSUME NEW o \in Resources, FilterStart(o)
      PROVE  CallsInv' /\ RegistryStep
  BY <1>4, <1>5, CallTypes DEF FilterStart
<1>6. CASE FilterDone /\ UNCHANGED netsVars
  BY <1>4, <1>6, CallTypes DEF FilterDone
<1>7. ASSUME NEW step \in {"deleteSecret", "readDapr", "deleteDapr"},
             FilterGoto(step), UNCHANGED netsVars
      PROVE  CallsInv' /\ RegistryStep
  <2>1. filter'.pc = step
    BY <1>1, <1>7 DEF FilterGoto, TypeOK, Call
  <2> QED
    BY <1>4, <1>7, <2>1
<1>8. CASE FilterReadSecret \/ FilterDeleteSecret \/ FilterReadDapr \/ FilterDeleteDapr
  BY <1>6, <1>7, <1>8 DEF FilterReadSecret, FilterDeleteSecret, FilterReadDapr,
                          FilterDeleteDapr
<1>9. CASE FilterRead /\ Exists(NetworkOf[filter.of])
  <2>1. PICK n \in NetworkNames : n = NetworkOf[filter.of]
    BY <1>1, <1>9, ParticipantsAssumption DEF FilterRead, CallsBound
  <2>2. /\ filter \in Call /\ filter.pc = "read" /\ ReadNet("filter", n)
        /\ filter' = [filter EXCEPT !.pc = "write",
                        !.Components = removeParticipant(nets[n].Components, filter.of)]
    BY <1>1, <1>9, <2>1 DEF FilterRead, TypeOK
  <2>3. /\ filter'.pc = "write" /\ filter'.of = filter.of
        /\ filter'.Components = nets[n].Components \ {ComponentOf[filter.of]}
    BY <2>2 DEF Call, removeParticipant
  <2>4. /\ UNCHANGED nets
        /\ \A m \in NetworkNames : latest'[m] \subseteq latest[m] \cup {"filter"}
    BY <1>1, <2>2 DEF ReadNet, SecretsTypeOK
  <2>5. CallsInv'
    BY <1>1, <1>2, <1>3, <2>1, <2>2, <2>3, <2>4 DEF CallsInv, CopiesExact, RecCreated
  <2> QED
    BY <1>2, <2>4, <2>5, RegistryStutters
<1>10. CASE FilterWrite /\ Retries(filter) /\ filter' = Again(filter)
            /\ UNCHANGED netsVars
  <2>1. filter \in Call /\ filter.of \in Resources
    BY <1>1, <1>10 DEF FilterWrite, TypeOK, CallsBound
  <2> QED
    BY <1>4, <1>10, <2>1, AgainTypes
<1>11. CASE FilterWrite /\ Accepted("filter", filter) /\ Write("filter", filter)
            /\ filter' = [filter EXCEPT !.pc = "readSecret", !.Components = {}]
  <2>1. PICK o \in Resources : o = filter.of
    BY <1>1, <1>11 DEF FilterWrite, CallsBound
  <2>2. PICK n \in NetworkNames : n = NetworkOf[o]
    BY ParticipantsAssumption
  <2>3. PICK C \in SUBSET ComponentNames : C = filter.Components
    BY <1>1 DEF TypeOK, Call
  <2>4. /\ Exists(n) /\ resource[o] = "gone"
        /\ C = nets[n].Components \ {ComponentOf[o]}
    BY <1>1, <1>11, <2>1, <2>2, <2>3 DEF FilterWrite, Accepted, CopiesExact, DeletedAreGone
  <2>5. StoreNet("filter", n, [nets[n] EXCEPT !.Components = C])
    BY <1>11, <2>1, <2>2, <2>3 DEF Write
  <2>6. Registry!Change(o, C)
    BY <1>1, <1>2, <2>2, <2>4, <2>5, StoredComponents DEF Registry!Change, Exists
  <2>7. Registry!Leave(o)
    BY <2>2, <2>4, <2>6 DEF Registry!Leave, Registry!Change
  <2>8. \A m \in NetworkNames : \A g \in latest'[m] :
          g \in latest[m] /\ nets'[m] = nets[m]
    BY <1>1, <2>5, StoreKeepsTypes
  <2>9. filter'.pc = "readSecret"
    BY <1>1, <1>11 DEF TypeOK, Call
  <2>10. CallsInv'
    BY <1>1, <1>2, <1>3, <2>8, <2>9 DEF CallsInv, CopiesExact, RecCreated
  <2> QED
    BY <2>7, <2>10 DEF RegistryStep, Registry!Next
<1> QED
  BY <1>5, <1>6, <1>8, <1>9, <1>10, <1>11
     DEF FilterStep, FilterNext, FilterRead, FilterWrite

\* Failures and restarts change no Network and no resource.
LEMMA DisturbanceImplements ==
  ASSUME PInv, CallsInv, Failure \/ Restart
  PROVE  CallsInv' /\ RegistryStep
<1>1. TypeOK /\ SecretsTypeOK /\ CallsBound /\ CopiesExact /\ RecCreated
  BY DEF PInv, TypeOK, CallsInv
<1>2. UNCHANGED <<nets, resource>>
  BY DEF Failure, Restart, WorkReturn, netsVars, participantsVars
<1>3. /\ rec' = rec \/ rec' = NoCall
      /\ filter' = filter \/ filter' = NoCall
  BY DEF Failure, Restart, RecReturn, FilterDone, participantsVars
<1>4. \A n \in NetworkNames, h \in {"reconcile", "filter"} :
        h \in latest'[n] => h \in latest[n]
  BY DEF Failure, Restart, WorkReturn, netsVars
<1>5. /\ rec.pc = "write" => NetworkOf[rec.of] \in NetworkNames
      /\ filter.pc = "write" => NetworkOf[filter.of] \in NetworkNames
  BY <1>1, ParticipantsAssumption DEF CallsBound
<1>6. CallsInv'
  BY <1>1, <1>2, <1>3, <1>4, <1>5, CallTypes DEF CallsInv, CopiesExact, RecCreated
<1> QED
  BY <1>2, <1>6, RegistryStutters

\* Every step keeps the invariant and is a step of Membership or none.
LEMMA NextImplements ==
  ASSUME PInv, SecretsInv, CallsInv, [Next]_vars
  PROVE  CallsInv' /\ RegistryStep
<1>1. CASE UNCHANGED vars
  <2>1. UNCHANGED <<nets, latest, resource, rec, filter>>
    BY <1>1 DEF vars, netsVars, participantsVars
  <2>2. CallsBound
    BY DEF PInv
  <2> QED
    BY <2>1, <2>2, CopiesStayExact, RegistryStutters
<1> QED
  BY <1>1, ClusterImplements, WorkImplements, RecImplements, FilterImplements,
     DisturbanceImplements DEF Next

\* Reconcile and the event filter, which read a Network, edit their copy and write
\* it back with retries while others write the same Network, implement
\* Membership: each write that is accepted is one join or one leave.
THEOREM ControllerImplementsMembership == Spec => ImplementsMembership
<1>1. Init => Registry!Init /\ CallsInv
  <2>1. SUFFICES ASSUME Init PROVE Registry!Init /\ CallsInv
    OBVIOUS
  <2>2. NoNet.life = "absent" /\ NoNet.Components = {}
    BY DEF NoNet
  <2>3. Registry!Init
    BY <2>1, <2>2 DEF Init, SecretsInit, Registry!Init
  <2>4. CallsInv
    BY <2>1, CallTypes DEF Init, CallsInv, CopiesExact, RecCreated
  <2> QED
    BY <2>3, <2>4
<1>2. PInv /\ SecretsInv /\ CallsInv /\ [Next]_vars => CallsInv'
  BY NextImplements
<1>3. PInv /\ SecretsInv /\ CallsInv /\ [Next]_vars => [Registry!Next]_(Registry!vars)
  BY NextImplements DEF RegistryStep
<1> QED
  BY <1>1, <1>2, <1>3, ParticipantsInvariance, SecretsInvariance, PTL
     DEF Spec, ImplementsMembership, Registry!Spec

=============================================================================
