--------------------------- MODULE StartupProofs ---------------------------
(***************************************************************************)
(* Proofs about Startup, for any number of instances and versions, any     *)
(* timeout and any number of failed calls and crashes.                     *)
(***************************************************************************)
EXTENDS Startup, TLAPS

-----------------------------------------------------------------------------
(* The steps of main and the manifests, one by one.                        *)

\* The order of the calls in main.
LEMMA StepsAre ==
  /\ Len(Steps) = 18 /\ DOMAIN Steps = 1..18
  /\ Steps[1] = "anckNamespace" /\ Steps[2] = "clusterRole"
  /\ Steps[3] = "clusterRoleBinding" /\ Steps[4] = "service"
  /\ Steps[5] = "serviceAccount" /\ Steps[6] = "deployment"
  /\ Steps[7] = "wait" /\ Steps[8] = "serverInfos" /\ Steps[9] = "controllers"
  /\ Steps[10] = "dnsNamespace" /\ Steps[11] = "dnsConfigMap"
  /\ Steps[12] = "dnsDaemonSet" /\ Steps[13] = "natsNamespace"
  /\ Steps[14] = "natsServerInfos" /\ Steps[15] = "natsConfigMap"
  /\ Steps[16] = "natsSecret" /\ Steps[17] = "natsDaemonSet"
  /\ Steps[18] = "start"
  BY DEF Steps, AnckCredentials, NodeDNS, LeafNats, LeafNatsContents

\* Which of them write a manifest.
LEMMA ManifestsAre ==
  /\ Updated = {"dnsNamespace", "dnsConfigMap", "dnsDaemonSet", "natsNamespace",
                "natsConfigMap", "natsSecret", "natsDaemonSet"}
  /\ ToSet(AnckCredentials) =
       {"anckNamespace", "clusterRole", "clusterRoleBinding", "service",
        "serviceAccount", "deployment"}
  /\ ToSet(NodeDNS) = {"dnsNamespace", "dnsConfigMap", "dnsDaemonSet"}
  /\ Manifests = ToSet(AnckCredentials) \cup Updated
  BY DEF Updated, Manifests, AnckCredentials, NodeDNS, LeafNatsContents, ToSet

\* Every manifest has its step.
LEMMA ManifestsHaveSteps ==
  /\ \A m \in Manifests : \E k \in 1..18 : Steps[k] = m
  /\ \A m \in Updated : \E k \in 10..17 : Steps[k] = m
  BY StepsAre, ManifestsAre

-----------------------------------------------------------------------------
(* The inductive invariant.                                                *)

\* What an instance has passed in main is in the cluster: nothing is ever
\* removed, and no error lets main go on.
PassedApplied ==
  \A i \in Instances : \A k \in 1..18 :
    k < pc[i] /\ pc[i] <= Started /\ Steps[k] \in Manifests
      => cluster[Steps[k]] # Absent

\* What instance i has applied is as it made it, of the answer it has in memory.
AsMade(i) ==
  /\ \A k \in 1..18 : k < pc[i] /\ Steps[k] \in Updated
       => cluster[Steps[k]].by = Version[i]
  /\ \A k \in 1..18 : k < pc[i] /\ Steps[k] \in FromInfos
       => cluster[Steps[k]].infos = infos[i]

\* That holds as long as an instance is alone in main.
AloneKeeps ==
  \A i \in Instances : alone[i] /\ InMain(i)
    => AsMade(i) /\ \A j \in Instances \ {i} : ~InMain(j)

SInv == TypeOK /\ PassedApplied /\ AloneKeeps

Manifest == [by : {0} \cup {Version[i] : i \in Instances}, infos : 0..MaxReadings]

\* What an instance applies is a manifest, and never an absent one.
LEMMA ContentTyped ==
  ASSUME TypeOK, NEW i \in Instances, NEW m \in Manifests
  PROVE  /\ Content(i, m) \in Manifest
         /\ Content(i, m) # Absent
         /\ Content(i, m).by = Version[i]
         /\ m \in FromInfos => Content(i, m).infos = infos[i]
  BY StartupAssumption DEF TypeOK, Content, Manifest, Absent

\* Either way of applying a manifest leaves it there, and all others alone.
LEMMA AppliedTyped ==
  ASSUME TypeOK, NEW i \in Instances, NEW m \in Manifests,
         NEW new \in {ApplyIgnoreExisting(i, m), ApplyOrUpdate(i, m)}
  PROVE  /\ new \in [Manifests -> Manifest]
         /\ new[m] # Absent
         /\ \A n \in Manifests \ {m} : new[n] = cluster[n]
         /\ cluster[m] # Absent => new[m] # Absent
<1>1. cluster \in [Manifests -> Manifest]
  BY DEF TypeOK, Manifest
<1> QED
  BY <1>1, ContentTyped DEF ApplyIgnoreExisting, ApplyOrUpdate

\* The places of an instance that is not in main come after the 18 steps.
LEMMA PlacesAre ==
  Down = 0 /\ Started = 19 /\ Removed = 20 /\ NotCreated = 21
  BY StepsAre DEF Down, Started, Removed, NotCreated

-----------------------------------------------------------------------------
(* How a step disturbs the invariant.                                      *)

\* A step that leaves alone what the invariant is about.
LEMMA IdleKeeps ==
  ASSUME SInv, UNCHANGED <<pc, cluster, infos, alone>>
  PROVE  PassedApplied' /\ AloneKeeps'
  BY DEF SInv, PassedApplied, AloneKeeps, AsMade, InMain, Started

\* The memory and the place of the other instances.
OthersUnchanged(i) ==
  \A j \in Instances \ {i} : pc'[j] = pc[j] /\ infos'[j] = infos[j]

\* A process that ends: a write it made before it ended can only be seen by
\* instances that are not alone.
LEMMA EndKeeps ==
  ASSUME SInv, TypeOK', NEW i \in Instances, OthersUnchanged(i),
         pc'[i] \in {Down, Removed}, alone' = alone,
         cluster' = cluster \/ InMain(i),
         \A m \in Manifests : cluster[m] # Absent => cluster'[m] # Absent
  PROVE  PassedApplied' /\ AloneKeeps'
<1>1. PassedApplied'
  <2> SUFFICES ASSUME NEW j \in Instances, NEW k \in 1..18,
                      k < pc'[j], pc'[j] <= 19, Steps[k] \in Manifests
               PROVE  cluster'[Steps[k]] # Absent
    BY PlacesAre DEF PassedApplied, Started
  <2>1. j # i
    BY PlacesAre
  <2>2. cluster[Steps[k]] # Absent
    BY <2>1, PlacesAre DEF SInv, PassedApplied, OthersUnchanged
  <2> QED
    BY <2>2
<1>2. AloneKeeps'
  <2> SUFFICES ASSUME NEW j \in Instances, alone[j], pc'[j] \in 1..18
               PROVE  /\ AsMade(j)'
                      /\ \A l \in Instances \ {j} : pc'[l] \notin 1..18
    BY StepsAre DEF AloneKeeps, InMain
  <2>1. j # i /\ pc[j] = pc'[j] /\ infos[j] = infos'[j] /\ InMain(j)
    BY PlacesAre, StepsAre DEF OthersUnchanged, InMain
  <2>2. AsMade(j) /\ \A l \in Instances \ {j} : ~InMain(l)
    BY <2>1 DEF SInv, AloneKeeps
  <2>3. cluster' = cluster
    BY <2>1, <2>2
  <2>4. AsMade(j)'
    BY <2>1, <2>2, <2>3 DEF AsMade
  <2>5. \A l \in Instances \ {j} : pc'[l] \notin 1..18
    BY <2>2, StepsAre, PlacesAre DEF OthersUnchanged, InMain
  <2> QED
    BY <2>4, <2>5
<1> QED
  BY <1>1, <1>2

\* A call of main that succeeds: the manifest of the step is applied, all others
\* are left alone, and the answer in memory is new only before leaf-nats is
\* applied with it.
LEMMA AdvanceKeeps ==
  ASSUME SInv, TypeOK', NEW i \in Instances, OthersUnchanged(i), InMain(i),
         pc'[i] = pc[i] + 1, alone' = alone,
         \A m \in Manifests \ {Steps[pc[i]]} : cluster'[m] = cluster[m],
         Steps[pc[i]] \in Manifests => cluster'[Steps[pc[i]]] # Absent,
         Steps[pc[i]] \in Updated => cluster'[Steps[pc[i]]].by = Version[i],
         Steps[pc[i]] \in FromInfos => cluster'[Steps[pc[i]]].infos = infos[i],
         infos'[i] = infos[i] \/ pc[i] = 14
  PROVE  PassedApplied' /\ AloneKeeps'
<1>0. pc[i] \in 1..18
  BY StepsAre DEF InMain
<1>1. PassedApplied'
  <2> SUFFICES ASSUME NEW j \in Instances, NEW k \in 1..18,
                      k < pc'[j], pc'[j] <= 19, Steps[k] \in Manifests
               PROVE  cluster'[Steps[k]] # Absent
    BY PlacesAre DEF PassedApplied, Started
  <2>1. CASE Steps[k] = Steps[pc[i]]
    BY <2>1
  <2>2. CASE Steps[k] # Steps[pc[i]]
    <3>1. k < pc[j] /\ pc[j] <= 19
      BY <2>2, <1>0 DEF OthersUnchanged
    <3>2. cluster[Steps[k]] # Absent
      BY <3>1, PlacesAre DEF SInv, PassedApplied
    <3> QED
      BY <2>2, <3>2
  <2> QED
    BY <2>1, <2>2
<1>2. AloneKeeps'
  <2> SUFFICES ASSUME NEW j \in Instances, alone[j], pc'[j] \in 1..18
               PROVE  /\ AsMade(j)'
                      /\ \A l \in Instances \ {j} : pc'[l] \notin 1..18
    BY StepsAre DEF AloneKeeps, InMain
  <2>1. j = i
    <3> SUFFICES ASSUME j # i PROVE FALSE
      OBVIOUS
    <3>1. InMain(j)
      BY StepsAre DEF OthersUnchanged, InMain
    <3> QED
      BY <3>1 DEF SInv, AloneKeeps
  <2>2. AsMade(i) /\ \A l \in Instances \ {i} : pc[l] \notin 1..18
    BY <2>1, StepsAre DEF SInv, AloneKeeps, InMain
  <2>3. \A l \in Instances \ {j} : pc'[l] \notin 1..18
    BY <2>1, <2>2 DEF OthersUnchanged
  <2>4. ASSUME NEW k \in 1..18, k < pc'[i], Steps[k] \in Updated
        PROVE  cluster'[Steps[k]].by = Version[i]
    <3>1. CASE Steps[k] = Steps[pc[i]]
      BY <3>1, <2>4
    <3>2. CASE Steps[k] # Steps[pc[i]]
      <4>1. k < pc[i]
        BY <2>4, <3>2, <1>0
      <4>2. cluster[Steps[k]].by = Version[i]
        BY <4>1, <2>2, <2>4 DEF AsMade
      <4> QED
        BY <4>2, <3>2, <2>4, ManifestsAre
    <3> QED
      BY <3>1, <3>2
  <2>5. ASSUME NEW k \in 1..18, k < pc'[i], Steps[k] \in FromInfos
        PROVE  cluster'[Steps[k]].infos = infos'[i]
    <3>0. k > 14
      BY <2>5, StepsAre DEF FromInfos
    <3>1. infos'[i] = infos[i]
      BY <3>0, <2>5, <1>0
    <3>2. CASE Steps[k] = Steps[pc[i]]
      BY <3>1, <3>2, <2>5
    <3>3. CASE Steps[k] # Steps[pc[i]]
      <4>1. k < pc[i]
        BY <2>5, <3>3, <1>0
      <4>2. cluster[Steps[k]].infos = infos[i]
        BY <4>1, <2>2, <2>5 DEF AsMade
      <4>3. Steps[k] \in Manifests
        BY <2>5, ManifestsAre DEF FromInfos
      <4> QED
        BY <4>2, <4>3, <3>1, <3>3
    <3> QED
      BY <3>2, <3>3
  <2> QED
    BY <2>1, <2>3, <2>4, <2>5 DEF AsMade
<1> QED
  BY <1>1, <1>2

-----------------------------------------------------------------------------
(* Every action keeps the invariant.                                       *)

\* A cluster without anck.
LEMMA InitSInv == Init => SInv
<1> SUFFICES ASSUME Init PROVE SInv
  OBVIOUS
<1>1. TypeOK
  <2>1. Absent \in [by : {0} \cup {Version[i] : i \in Instances},
                    infos : 0..MaxReadings]
    BY StartupAssumption DEF Absent
  <2>2. alone \in [Instances -> BOOLEAN] /\ service \in BOOLEAN
    BY Zenon DEF Init
  <2> QED
    BY <2>1, <2>2, StartupAssumption, PlacesAre DEF Init, TypeOK
<1>2. PassedApplied /\ AloneKeeps
  BY StepsAre, PlacesAre DEF Init, PassedApplied, AloneKeeps, InMain
<1> QED
  BY <1>1, <1>2 DEF SInv

\* The memory of a process that ends keeps its type.
LEMMA EndsTyped ==
  ASSUME TypeOK, NEW i \in Instances, NEW where \in {Down, Removed},
         Ends(i, where)
  PROVE  /\ pc' \in [Instances -> 0..NotCreated] /\ pc'[i] = where
         /\ infos' \in [Instances -> 0..MaxReadings]
         /\ poller' \in [Instances -> {"none", "poll", "sleep", "done"}]
         /\ ch' \in [Instances -> {"empty", "ok", "error"}]
         /\ clock' \in [Instances -> 0..Timeout]
         /\ alone' = alone
         /\ OthersUnchanged(i)
  BY PlacesAre, StartupAssumption DEF TypeOK, Ends, OthersUnchanged

\* main goes on with its next call.
LEMMA AdvanceTyped ==
  ASSUME TypeOK, NEW i \in Instances, InMain(i), Advance(i)
  PROVE  /\ pc' \in [Instances -> 0..NotCreated] /\ pc'[i] = pc[i] + 1
         /\ \A j \in Instances \ {i} : pc'[j] = pc[j]
  BY PlacesAre, StepsAre DEF TypeOK, Advance, InMain

\* A failed or slow call.
LEMMA DisturbanceTyped ==
  ASSUME TypeOK, Disturbance
  PROVE  disturbances' \in 0..MaxDisturbances
  BY StartupAssumption DEF TypeOK, Disturbance

\* An exit of main after a write with or without effect.
LEMMA ExitKeeps ==
  ASSUME SInv, NEW i \in Instances, NEW where \in {Down, Removed},
         Ends(i, where), UNCHANGED <<service, sysAccount>>,
         Disturbance \/ UNCHANGED disturbances,
         cluster' = cluster \/ InMain(i),
         cluster' \in [Manifests -> Manifest],
         \A m \in Manifests : cluster[m] # Absent => cluster'[m] # Absent
  PROVE  SInv'
<1>1. TypeOK'
  BY EndsTyped, DisturbanceTyped DEF SInv, TypeOK, Manifest
<1>2. PassedApplied' /\ AloneKeeps'
  BY <1>1, EndsTyped, EndKeeps DEF SInv
<1> QED
  BY <1>1, <1>2 DEF SInv

\* The step of a manifest, whichever way it is applied.
LEMMA ApplyKeeps ==
  ASSUME SInv, NEW i \in Instances, NEW m \in Manifests,
         NEW applied \in {ApplyIgnoreExisting(i, m), ApplyOrUpdate(i, m)},
         m \in Updated => applied = ApplyOrUpdate(i, m),
         ApplyOne(i, m, applied)
  PROVE  SInv'
<1>1. /\ InMain(i) /\ Steps[pc[i]] = m
      /\ cluster \in [Manifests -> Manifest]
      /\ UNCHANGED <<service, sysAccount>>
  BY DEF ApplyOne, At, SInv, TypeOK, Manifest
<1>2. /\ applied \in [Manifests -> Manifest]
      /\ applied[m] # Absent
      /\ \A n \in Manifests \ {m} : applied[n] = cluster[n]
  BY AppliedTyped DEF SInv
<1>3. CASE /\ cluster' = applied /\ Advance(i)
           /\ UNCHANGED <<infos, waitVars, alone, disturbances>>
  <2>1. TypeOK'
    BY <1>1, <1>2, <1>3, AdvanceTyped DEF SInv, TypeOK, waitVars, Manifest
  <2>2. OthersUnchanged(i) /\ pc'[i] = pc[i] + 1
    BY <1>1, <1>3, AdvanceTyped DEF SInv, OthersUnchanged
  <2>3. m \in Updated => applied[m] = Content(i, m)
    BY <1>1 DEF ApplyOrUpdate
  <2>4. /\ m \in Updated => cluster'[m].by = Version[i]
        /\ m \in FromInfos => cluster'[m].infos = infos[i]
    BY <1>3, <2>3, ContentTyped, ManifestsAre DEF SInv, FromInfos
  <2>5. PassedApplied' /\ AloneKeeps'
    BY <1>1, <1>2, <1>3, <2>1, <2>2, <2>4, AdvanceKeeps
  <2> QED
    BY <2>1, <2>5 DEF SInv
<1>4. CASE Disturbance /\ cluster' \in {cluster, applied} /\ Exit(i)
  <2>1. /\ cluster' \in [Manifests -> Manifest]
        /\ \A n \in Manifests : cluster[n] # Absent => cluster'[n] # Absent
    BY <1>1, <1>2, <1>4
  <2> QED
    BY <1>1, <1>4, <2>1, ExitKeeps DEF Exit
<1> QED
  BY <1>3, <1>4 DEF ApplyOne

\* A call of main that writes no manifest succeeds.
LEMMA PassKeeps ==
  ASSUME SInv, NEW i \in Instances, InMain(i), Steps[pc[i]] \notin Manifests,
         Advance(i), UNCHANGED <<cluster, service, sysAccount, alone, disturbances>>,
         \/ infos' = infos
         \/ pc[i] = 14 /\ infos' = [infos EXCEPT ![i] = sysAccount],
         \/ UNCHANGED waitVars
         \/ UNCHANGED <<poller, clock>> /\ ch' = [ch EXCEPT ![i] = "empty"]
  PROVE  SInv'
<1>1. infos' \in [Instances -> 0..MaxReadings] /\ OthersUnchanged(i)
  BY AdvanceTyped DEF SInv, TypeOK, OthersUnchanged
<1>2. TypeOK'
  BY <1>1, AdvanceTyped DEF SInv, TypeOK, waitVars
<1>3. Steps[pc[i]] \notin Updated \cup FromInfos
  BY ManifestsAre DEF FromInfos
<1>4. infos'[i] = infos[i] \/ pc[i] = 14
  OBVIOUS
<1>5. PassedApplied' /\ AloneKeeps'
  BY <1>1, <1>2, <1>3, <1>4, AdvanceTyped, AdvanceKeeps DEF SInv
<1> QED
  BY <1>2, <1>5 DEF SInv

\* The process is started: it is alone if no other one is in main, and no other
\* one in main is alone from now on.
LEMMA BeginKeeps ==
  ASSUME SInv, NEW i \in Instances, Begin(i)
  PROVE  SInv'
<1>1. TypeOK'
  <2>1. alone' \in [Instances -> BOOLEAN]
    <3> DEFINE flag(j) == IF j = i THEN \A k \in Instances \ {i} : ~InMain(k)
                                   ELSE alone[j] /\ ~InMain(j)
    <3>1. \A j \in Instances : flag(j) \in BOOLEAN
      OBVIOUS
    <3>2. alone' = [j \in Instances |-> flag(j)]
      BY DEF Begin
    <3> HIDE DEF flag
    <3> QED
      BY <3>1, <3>2
  <2>2. pc' \in [Instances -> 0..NotCreated]
    BY PlacesAre DEF SInv, TypeOK, Begin
  <2> QED
    BY <2>1, <2>2 DEF SInv, TypeOK, Begin, waitVars
<1>2. /\ pc'[i] = 1 /\ cluster' = cluster
      /\ \A j \in Instances \ {i} : pc'[j] = pc[j]
  BY DEF SInv, TypeOK, Begin
<1>3. PassedApplied'
  BY <1>2, <1>1, PlacesAre DEF SInv, PassedApplied, TypeOK
<1>4. AloneKeeps'
  <2> SUFFICES ASSUME NEW j \in Instances, alone'[j], pc'[j] \in 1..18
               PROVE  /\ AsMade(j)'
                      /\ \A l \in Instances \ {j} : pc'[l] \notin 1..18
    BY StepsAre DEF AloneKeeps, InMain
  <2>1. j = i
    BY <1>2, StepsAre DEF Begin, InMain
  <2>2. \A l \in Instances \ {i} : pc[l] \notin 1..18
    BY <2>1, StepsAre DEF Begin, InMain
  <2> QED
    BY <1>2, <2>1, <2>2 DEF AsMade
<1> QED
  BY <1>1, <1>3, <1>4 DEF SInv

\* The goroutine of the wait, and the passing of time.
LEMMA WaitKeeps ==
  ASSUME SInv, NEW i \in Instances, WaitBegin(i) \/ Poll(i) \/ Tick(i)
  PROVE  SInv'
<1>1. UNCHANGED <<pc, cluster, service, sysAccount, infos, alone>>
  BY DEF WaitBegin, Poll, Tick
<1>2. TypeOK'
  <2>1. CASE WaitBegin(i)
    BY <2>1 DEF SInv, TypeOK, WaitBegin
  <2>2. CASE Poll(i)
    BY <2>2, DisturbanceTyped DEF SInv, TypeOK, Poll, Send
  <2>3. CASE Tick(i)
    <3>1. clock' \in [Instances -> 0..Timeout]
      BY <2>3, StartupAssumption DEF SInv, TypeOK, Tick
    <3> QED
      BY <2>3, <3>1, DisturbanceTyped DEF SInv, TypeOK, Tick
  <2> QED
    BY <2>1, <2>2, <2>3
<1> QED
  BY <1>1, <1>2, IdleKeeps DEF SInv

\* The select of waitForAnckCredentials.
LEMMA SelectKeeps ==
  ASSUME SInv, NEW i \in Instances, Receive(i) \/ TimedOut(i)
  PROVE  SInv'
<1>1. /\ InMain(i) /\ Steps[pc[i]] = "wait" /\ Steps[pc[i]] \notin Manifests
      /\ UNCHANGED <<cluster, service, sysAccount, disturbances>>
      /\ cluster \in [Manifests -> Manifest]
  BY ManifestsAre DEF Receive, TimedOut, At, SInv, TypeOK, Manifest
<1>2. CASE Exit(i)
  BY <1>1, <1>2, ExitKeeps DEF Exit
<1>3. CASE /\ Advance(i) /\ ch' = [ch EXCEPT ![i] = "empty"]
           /\ UNCHANGED <<infos, poller, clock, alone>>
  <2>1. /\ UNCHANGED <<cluster, service, sysAccount, alone, disturbances>>
        /\ infos' = infos /\ UNCHANGED <<poller, clock>>
    BY <1>1, <1>3
  <2> QED
    BY <1>1, <1>3, <2>1, PassKeeps
<1> QED
  BY <1>2, <1>3 DEF Receive, TimedOut

\* The calls of anck-credentials, the controllers and the manager.
LEMMA CallKeeps ==
  ASSUME SInv, NEW i \in Instances,
         ServerInfos(i) \/ NatsServerInfos(i) \/ Local(i)
  PROVE  SInv'
<1>1. /\ InMain(i) /\ Steps[pc[i]] \notin Manifests
      /\ NatsServerInfos(i) => pc[i] = 14
      /\ UNCHANGED <<cluster, service, sysAccount>>
      /\ cluster \in [Manifests -> Manifest]
  BY StepsAre, ManifestsAre
  DEF ServerInfos, NatsServerInfos, Local, At, InMain, GetNatsServerInfos, SInv,
      TypeOK, Manifest
<1>2. CASE Exit(i) /\ (Disturbance \/ UNCHANGED disturbances)
  BY <1>1, <1>2, ExitKeeps DEF Exit
<1>3. CASE /\ Advance(i)
           /\ \/ infos' = infos
              \/ pc[i] = 14 /\ infos' = [infos EXCEPT ![i] = sysAccount]
           /\ UNCHANGED <<waitVars, alone, disturbances>>
  <2>1. /\ UNCHANGED <<cluster, service, sysAccount, alone, disturbances>>
        /\ UNCHANGED waitVars
    BY <1>1, <1>3
  <2> QED
    BY <1>1, <1>3, <2>1, PassKeeps
<1> QED
  BY <1>1, <1>2, <1>3 DEF ServerInfos, NatsServerInfos, Local, GetNatsServerInfos

\* The pod of anck-credentials, its system account, a rollout.
LEMMA ClusterKeeps ==
  ASSUME SInv,
         \/ ServiceUp \/ ServiceDown \/ NewSysAccount
         \/ \E i \in Instances : Deploy(i) \/ Crash(i) \/ Retire(i)
  PROVE  SInv'
<1>1. CASE ServiceUp \/ ServiceDown \/ NewSysAccount
  <2>1. UNCHANGED <<pc, cluster, infos, alone>>
    BY <1>1 DEF ServiceUp, ServiceDown, NewSysAccount
  <2>2. ServiceUp => TypeOK'
    BY DEF SInv, TypeOK, ServiceUp, waitVars
  <2>3. ServiceDown => TypeOK'
    BY DisturbanceTyped DEF SInv, TypeOK, ServiceDown, waitVars
  <2>4. NewSysAccount => TypeOK'
    BY StartupAssumption DEF SInv, TypeOK, NewSysAccount, waitVars
  <2>5. TypeOK'
    BY <1>1, <2>2, <2>3, <2>4
  <2> QED
    BY <2>1, <2>5, IdleKeeps DEF SInv
<1>2. ASSUME NEW i \in Instances, Crash(i) \/ Retire(i)
      PROVE  SInv'
  <2>1. cluster \in [Manifests -> Manifest]
    BY DEF SInv, TypeOK, Manifest
  <2> QED
    BY <1>2, <2>1, ExitKeeps DEF Crash, Retire
<1>3. ASSUME NEW i \in Instances, Deploy(i)
      PROVE  SInv'
  <2>1. /\ pc' \in [Instances -> 0..NotCreated] /\ pc'[i] = Down
        /\ OthersUnchanged(i)
    BY <1>3, PlacesAre DEF SInv, TypeOK, Deploy, OthersUnchanged
  <2>2. TypeOK'
    BY <1>3, <2>1 DEF SInv, TypeOK, Deploy, waitVars
  <2>3. PassedApplied' /\ AloneKeeps'
    BY <1>3, <2>1, <2>2, EndKeeps DEF Deploy
  <2> QED
    BY <2>2, <2>3 DEF SInv
<1> QED
  BY <1>1, <1>2, <1>3

\* Every step of the specification.
LEMMA NextSInv == SInv /\ [Next]_vars => SInv'
<1> SUFFICES ASSUME SInv, [Next]_vars PROVE SInv'
  OBVIOUS
<1>1. ASSUME NEW i \in Instances, ApplyAnckCredentials(i)
      PROVE  SInv'
  <2>1. PICK m \in ToSet(AnckCredentials) :
               ApplyOne(i, m, ApplyIgnoreExisting(i, m))
    BY <1>1 DEF ApplyAnckCredentials
  <2>2. m \in Manifests \ Updated
    BY ManifestsAre
  <2> QED
    BY <2>1, <2>2, ApplyKeeps
<1>2. ASSUME NEW i \in Instances, NEW m \in Updated,
             ApplyOne(i, m, ApplyOrUpdate(i, m))
      PROVE  SInv'
  BY <1>2, ManifestsAre, ApplyKeeps
<1>3. ASSUME NEW i \in Instances, ApplyNodeDNS(i)
      PROVE  SInv'
  BY <1>2, <1>3, ManifestsAre DEF ApplyNodeDNS
<1>4. ASSUME NEW i \in Instances,
             \/ ApplyNatsNamespace(i) \/ ApplyNatsConfigMap(i)
             \/ ApplyNatsSecret(i) \/ ApplyNatsDaemonSet(i)
      PROVE  SInv'
  BY <1>2, <1>4, ManifestsAre
  DEF ApplyNatsNamespace, ApplyNatsConfigMap, ApplyNatsSecret, ApplyNatsDaemonSet,
      ApplyLeafNats
<1>5. CASE UNCHANGED vars
  <2>1. TypeOK'
    BY <1>5 DEF SInv, TypeOK, vars, waitVars
  <2> QED
    BY <1>5, <2>1, IdleKeeps DEF SInv, vars
<1> QED
  BY <1>1, <1>3, <1>4, <1>5, BeginKeeps, WaitKeeps, SelectKeeps, CallKeeps,
     ClusterKeeps
  DEF Next, Step

-----------------------------------------------------------------------------
(* The theorems.                                                           *)

\* SInv is an invariant of main in all instances.
THEOREM StartupInvariance == Spec => []SInv
  BY InitSInv, NextSInv, PTL DEF Spec

\* The start-up keeps its types: in particular the timer never runs past its
\* timeout, and no manifest is made of an answer that was not given.
THEOREM StartupTypes == Spec => []TypeOK
<1>1. SInv => TypeOK
  BY DEF SInv
<1> QED
  BY <1>1, StartupInvariance, PTL

\* No instance runs its controllers unless every manifest was applied.
THEOREM StartedIsComplete == Spec => []StartedComplete
<1>1. SInv => StartedComplete
  <2> SUFFICES ASSUME SInv, NEW i \in Instances, pc[i] = Started,
                      NEW m \in Manifests
               PROVE  cluster[m] # Absent
    BY DEF StartedComplete
  <2>1. PICK k \in 1..18 : Steps[k] = m
    BY ManifestsHaveSteps
  <2> QED
    BY <2>1, PlacesAre DEF SInv, PassedApplied
<1> QED
  BY <1>1, StartupInvariance, PTL

\* An instance that was alone in main leaves node-dns and leaf-nats as its own
\* version has them, of one system account.
THEOREM StartLeavesItsOwn == Spec => StartLeavesItsManifests
<1>1. ASSUME SInv, [Next]_vars, NEW i \in Instances,
             pc[i] # Started, pc'[i] = Started, alone[i]
      PROVE  /\ \A m \in Updated : cluster'[m].by = Version[i]
             /\ cluster'["natsConfigMap"].infos = cluster'["natsSecret"].infos
  <2>1. At(i, "start") /\ cluster' = cluster /\ pc[i] = 18
    <3>1. pc \in [Instances -> 0..21] /\ pc'[i] = 19 /\ pc[i] # 19
      BY <1>1, PlacesAre DEF SInv, TypeOK
    <3>2. ~UNCHANGED pc
      BY <3>1
    <3>3. PICK j \in Instances : Deploy(j) \/ Step(j) \/ Crash(j) \/ Retire(j)
      BY <1>1, <3>2 DEF Next, vars, Tick, ServiceUp, ServiceDown, NewSysAccount
    <3>4. ASSUME NEW where \in {0, 1, 20}, pc' = [pc EXCEPT ![j] = where]
          PROVE  FALSE
      BY <3>1, <3>4
    <3>5. Advance(j) /\ InMain(j)
      BY <3>2, <3>3, <3>4, PlacesAre
      DEF Deploy, Step, Crash, Retire, Begin, ApplyAnckCredentials, ApplyNodeDNS,
          ApplyNatsNamespace, ApplyNatsConfigMap, ApplyNatsSecret,
          ApplyNatsDaemonSet, ApplyLeafNats, ApplyOne, WaitBegin, Poll, Receive,
          TimedOut, ServerInfos, NatsServerInfos, GetNatsServerInfos, Local, Exit,
          Ends, At
    <3>6. j = i /\ pc[i] = 18 /\ At(i, "start")
      BY <3>1, <3>5, StepsAre DEF Advance, At, InMain
    <3>7. ~(\E step \in Manifests \cup {"wait", "serverInfos", "natsServerInfos",
                                         "controllers"} : At(i, step))
      BY <3>6, StepsAre, ManifestsAre DEF At
    <3>8. Local(i)
      BY <3>2, <3>3, <3>4, <3>6, <3>7, PlacesAre, ManifestsAre
      DEF Deploy, Step, Crash, Retire, Begin, ApplyAnckCredentials, ApplyNodeDNS,
          ApplyNatsNamespace, ApplyNatsConfigMap, ApplyNatsSecret,
          ApplyNatsDaemonSet, ApplyLeafNats, ApplyOne, WaitBegin, Poll, Receive,
          TimedOut, ServerInfos, NatsServerInfos, Ends
    <3> QED
      BY <3>6, <3>8 DEF Local
  <2>2. AsMade(i)
    BY <1>1, <2>1 DEF At, SInv, AloneKeeps
  <2>3. \A m \in Updated : cluster[m].by = Version[i]
    BY <2>1, <2>2, ManifestsHaveSteps DEF AsMade
  <2>4. \A m \in FromInfos : cluster[m].infos = infos[i]
    BY <2>1, <2>2, StepsAre DEF AsMade, FromInfos
  <2> QED
    BY <2>1, <2>3, <2>4 DEF FromInfos
<1>2. SInv /\ [Next]_vars => StartLeavesItsManifests!1
  BY <1>1
<1> QED
  BY <1>2, StartupInvariance, PTL DEF Spec, StartLeavesItsManifests
=============================================================================
