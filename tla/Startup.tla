------------------------------- MODULE Startup -------------------------------
(***************************************************************************)
(* main: an instance of anck (a pod of its Deployment) applies the         *)
(* manifests of anck-credentials, waits for its pod, asks it for the NATS  *)
(* server, applies node-dns and leaf-nats, and starts the manager with the *)
(* three controllers.  Every error ends the process, which the kubelet     *)
(* starts again.                                                           *)
(*                                                                         *)
(* During a rollout the instance of the new version starts while that of   *)
(* the old one is still there.  Leader election takes place in mgr.Start:  *)
(* all that is modelled here happens before it, in every instance.         *)
(***************************************************************************)
EXTENDS Naturals, Sequences, SequencesExt

CONSTANTS Instances,        \* the pods anck runs in
          Version,          \* the version of the program in each of them
          Timeout,          \* seconds waitForAnckCredentials waits, 60 in main
          MaxReadings,      \* bound on the system accounts of the NATS server
          MaxDisturbances   \* bound on failed or slow calls and on crashes

ASSUME StartupAssumption ==
  /\ Version \in [Instances -> Nat \ {0}]
  /\ Timeout \in Nat \ {0}
  /\ MaxReadings \in Nat \ {0}
  /\ MaxDisturbances \in Nat

VARIABLES pc,           \* each instance's position in Steps
          cluster,      \* the manifests in the cluster
          service,      \* the pod of anck-credentials is running
          sysAccount,   \* the system account it answers with
          infos,        \* the answer an instance applies leaf-nats with
          poller,       \* the goroutine of waitForAnckCredentials
          ch,           \* its channel, which holds one response
          clock,        \* seconds since the wait began
          alone,        \* no other instance was in main since this one began
          disturbances

waitVars == <<poller, ch, clock>>
vars == <<pc, cluster, service, sysAccount, infos, waitVars, alone,
          disturbances>>

-----------------------------------------------------------------------------
(* The steps of main, in order.  The name of a manifest stands for its     *)
(* step.                                                                   *)

AnckCredentials == <<"anckNamespace", "clusterRole", "clusterRoleBinding",
                     "service", "serviceAccount", "deployment">>

NodeDNS == <<"dnsNamespace", "dnsConfigMap", "dnsDaemonSet">>

LeafNatsContents == <<"natsConfigMap", "natsSecret", "natsDaemonSet">>

LeafNats == <<"natsNamespace", "natsServerInfos">> \o LeafNatsContents

Steps == AnckCredentials \o <<"wait", "serverInfos", "controllers">>
         \o NodeDNS \o LeafNats \o <<"start">>

\* Where an instance is when it is not in main.
Down == 0
Started == Len(Steps) + 1
Removed == Len(Steps) + 2
NotCreated == Len(Steps) + 3

InMain(i) == pc[i] \in DOMAIN Steps
At(i, step) == InMain(i) /\ Steps[pc[i]] = step

Updated == ToSet(NodeDNS) \cup ToSet(LeafNatsContents) \cup {"natsNamespace"}
Manifests == ToSet(AnckCredentials) \cup Updated

\* The manifests that are made of the answer of anck-credentials.
FromInfos == {"natsConfigMap", "natsSecret"}

\* A manifest in the cluster: the version and the answer it was made of; 0 is
\* none.
Absent == [by |-> 0, infos |-> 0]

TypeOK ==
  /\ pc \in [Instances -> 0..NotCreated]
  /\ cluster \in [Manifests ->
       [by : {0} \cup {Version[i] : i \in Instances}, infos : 0..MaxReadings]]
  /\ service \in BOOLEAN
  /\ sysAccount \in 1..MaxReadings
  /\ infos \in [Instances -> 0..MaxReadings]
  /\ poller \in [Instances -> {"none", "poll", "sleep", "done"}]
  /\ ch \in [Instances -> {"empty", "ok", "error"}]
  /\ clock \in [Instances -> 0..Timeout]
  /\ alone \in [Instances -> BOOLEAN]
  /\ disturbances \in 0..MaxDisturbances

\* A cluster without anck.
Init ==
  /\ pc = [i \in Instances |-> NotCreated]
  /\ cluster = [m \in Manifests |-> Absent]
  /\ service = FALSE
  /\ sysAccount = 1
  /\ infos = [i \in Instances |-> 0]
  /\ poller = [i \in Instances |-> "none"]
  /\ ch = [i \in Instances |-> "empty"]
  /\ clock = [i \in Instances |-> 0]
  /\ alone = [i \in Instances |-> FALSE]
  /\ disturbances = 0

Disturbance == /\ disturbances < MaxDisturbances
               /\ disturbances' = disturbances + 1

-----------------------------------------------------------------------------
(* The process of an instance.                                             *)

Begin(i) ==
  /\ pc[i] = Down
  /\ pc' = [pc EXCEPT ![i] = 1]
  /\ alone' = [j \in Instances |->
                 IF j = i THEN \A k \in Instances \ {i} : ~InMain(k)
                          ELSE alone[j] /\ ~InMain(j)]
  /\ UNCHANGED <<cluster, service, sysAccount, infos, waitVars, disturbances>>

\* The memory of the process goes with it.
Ends(i, where) ==
  /\ pc' = [pc EXCEPT ![i] = where]
  /\ infos' = [infos EXCEPT ![i] = 0]
  /\ poller' = [poller EXCEPT ![i] = "none"]
  /\ ch' = [ch EXCEPT ![i] = "empty"]
  /\ clock' = [clock EXCEPT ![i] = 0]
  /\ UNCHANGED alone

\* Mutant of Exit: the error is only logged.
ExitForgotten(i) == Ends(i, pc[i] + 1)

\* os.Exit(1)
Exit(i) == Ends(i, Down)

Advance(i) == pc' = [pc EXCEPT ![i] = @ + 1]

-----------------------------------------------------------------------------
(* Manifests.                                                              *)

Content(i, m) ==
  [by |-> Version[i], infos |-> IF m \in FromInfos THEN infos[i] ELSE 0]

\* Create; an object that already exists is left as it is.
ApplyIgnoreExisting(i, m) ==
  IF cluster[m] = Absent THEN [cluster EXCEPT ![m] = Content(i, m)] ELSE cluster

\* Mutant of ApplyOrUpdate: no Update after the Create.
ApplyWithoutUpdate(i, m) == ApplyIgnoreExisting(i, m)

\* Create, and Update if it already exists.
ApplyOrUpdate(i, m) == [cluster EXCEPT ![m] = Content(i, m)]

\* The step of m: the call succeeds and leaves applied, or it fails with or
\* without effect and main returns the error.  The namespace of an object comes
\* before it.
ApplyOne(i, m, applied) ==
  /\ At(i, m)
  /\ \/ /\ cluster' = applied
        /\ Advance(i)
        /\ UNCHANGED <<infos, waitVars, alone, disturbances>>
     \/ /\ Disturbance
        /\ cluster' \in {cluster, applied}
        /\ Exit(i)
  /\ UNCHANGED <<service, sysAccount>>

ApplyAnckCredentials(i) ==
  \E m \in ToSet(AnckCredentials) : ApplyOne(i, m, ApplyIgnoreExisting(i, m))

ApplyNodeDNS(i) ==
  \E m \in ToSet(NodeDNS) : ApplyOne(i, m, ApplyOrUpdate(i, m))

ApplyLeafNats(i, m) == ApplyOne(i, m, ApplyOrUpdate(i, m))

ApplyNatsNamespace(i) == ApplyLeafNats(i, "natsNamespace")
ApplyNatsConfigMap(i) == ApplyLeafNats(i, "natsConfigMap")
ApplyNatsSecret(i) == ApplyLeafNats(i, "natsSecret")
ApplyNatsDaemonSet(i) == ApplyLeafNats(i, "natsDaemonSet")

-----------------------------------------------------------------------------
(* waitForAnckCredentials.                                                 *)

\* The channel is made, the goroutine and the timer are started.
WaitBegin(i) ==
  /\ At(i, "wait")
  /\ poller[i] = "none"
  /\ poller' = [poller EXCEPT ![i] = "poll"]
  /\ UNCHANGED <<pc, cluster, service, sysAccount, infos, ch, clock, alone,
                 disturbances>>

Send(i, response) ==
  /\ ch' = [ch EXCEPT ![i] = response]
  /\ poller' = [poller EXCEPT ![i] = "done"]

\* ListPods: the goroutine ends with an answer, or sleeps for a second.
Poll(i) ==
  /\ poller[i] = "poll"
  /\ \/ service /\ Send(i, "ok") /\ UNCHANGED disturbances
     \/ /\ ~service
        /\ poller' = [poller EXCEPT ![i] = "sleep"]
        /\ UNCHANGED <<ch, disturbances>>
     \/ Disturbance /\ Send(i, "error")
  /\ UNCHANGED <<pc, cluster, service, sysAccount, infos, clock, alone>>

\* Mutant of Tick: the wait goes on after the timeout.
TickForever(i) ==
  /\ At(i, "wait")
  /\ poller[i] = "sleep"
  /\ clock[i] <= Timeout
  /\ clock' = [clock EXCEPT ![i] = @ + 1]
  /\ poller' = [poller EXCEPT ![i] = "poll"]
  /\ UNCHANGED <<pc, cluster, service, sysAccount, infos, ch, alone,
                 disturbances>>

\* A second passes.  A call that takes longer, or an answer that is not taken
\* at once, is a disturbance.
Tick(i) ==
  /\ At(i, "wait")
  /\ poller[i] # "none"
  /\ clock[i] < Timeout
  /\ clock' = [clock EXCEPT ![i] = @ + 1]
  /\ \/ /\ poller[i] = "sleep"
        /\ poller' = [poller EXCEPT ![i] = "poll"]
        /\ UNCHANGED disturbances
     \/ /\ poller[i] # "sleep"
        /\ Disturbance
        /\ UNCHANGED poller
  /\ UNCHANGED <<pc, cluster, service, sysAccount, infos, ch, alone>>

\* select: the response.
Receive(i) ==
  /\ At(i, "wait")
  /\ ch[i] # "empty"
  /\ \/ /\ ch[i] = "ok"
        /\ Advance(i)
        /\ ch' = [ch EXCEPT ![i] = "empty"]
        /\ UNCHANGED <<infos, poller, clock, alone>>
     \/ ch[i] = "error" /\ Exit(i)
  /\ UNCHANGED <<cluster, service, sysAccount, disturbances>>

\* Mutant of Expired: a timer that was given no time.
ExpiredAtOnce(i) == TRUE

Expired(i) == clock[i] = Timeout

\* select: the timer, which may be chosen although there is a response.
TimedOut(i) ==
  /\ At(i, "wait")
  /\ poller[i] # "none"
  /\ Expired(i)
  /\ Exit(i)
  /\ UNCHANGED <<cluster, service, sysAccount, disturbances>>

-----------------------------------------------------------------------------
(* GetNatsServerInfos, the controllers and the manager.                    *)

\* Dial does not wait for a connection; the call fails at once when the service
\* is not there.  Nothing is kept between two calls.
GetNatsServerInfos(i, keep) ==
  /\ \/ /\ service
        /\ infos' = IF keep THEN [infos EXCEPT ![i] = sysAccount] ELSE infos
        /\ Advance(i)
        /\ UNCHANGED <<waitVars, alone, disturbances>>
     \/ ~service /\ Exit(i) /\ UNCHANGED disturbances
     \/ Disturbance /\ Exit(i)
  /\ UNCHANGED <<cluster, service, sysAccount>>

\* In main only for its error.
ServerInfos(i) == At(i, "serverInfos") /\ GetNatsServerInfos(i, FALSE)

NatsServerInfos(i) == At(i, "natsServerInfos") /\ GetNatsServerInfos(i, TRUE)

\* SetupWithManager of the controllers and the health checks, mgr.Start.
Local(i) ==
  /\ At(i, "controllers") \/ At(i, "start")
  /\ \/ /\ Advance(i)
        /\ UNCHANGED <<infos, waitVars, alone, disturbances>>
     \/ Disturbance /\ Exit(i)
  /\ UNCHANGED <<cluster, service, sysAccount>>

Step(i) ==
  \/ Begin(i)
  \/ ApplyAnckCredentials(i)
  \/ WaitBegin(i)
  \/ Poll(i)
  \/ Receive(i)
  \/ TimedOut(i)
  \/ ServerInfos(i)
  \/ Local(i)
  \/ ApplyNodeDNS(i)
  \/ ApplyNatsNamespace(i)
  \/ NatsServerInfos(i)
  \/ ApplyNatsConfigMap(i)
  \/ ApplyNatsSecret(i)
  \/ ApplyNatsDaemonSet(i)

-----------------------------------------------------------------------------
(* The cluster.                                                            *)

\* The pod of the Deployment is scheduled and runs.
ServiceUp ==
  /\ ~service
  /\ \A m \in {"deployment", "serviceAccount"} : cluster[m] # Absent
  /\ service' = TRUE
  /\ UNCHANGED <<pc, cluster, sysAccount, infos, waitVars, alone, disturbances>>

ServiceDown ==
  /\ service
  /\ Disturbance
  /\ service' = FALSE
  /\ UNCHANGED <<pc, cluster, sysAccount, infos, waitVars, alone>>

\* anck-credentials is given another system account.
NewSysAccount ==
  /\ sysAccount < MaxReadings
  /\ sysAccount' = sysAccount + 1
  /\ UNCHANGED <<pc, cluster, service, infos, waitVars, alone, disturbances>>

\* A process ends at any point, also after mgr.Start.
Crash(i) ==
  /\ InMain(i) \/ pc[i] = Started
  /\ Disturbance
  /\ Ends(i, Down)
  /\ UNCHANGED <<cluster, service, sysAccount>>

\* A rollout, once the version before runs: the new pod is created next to the
\* old one.
Deploy(i) ==
  /\ pc[i] = NotCreated
  /\ \A j \in Instances :
       Version[j] < Version[i] => pc[j] \in {Started, Removed}
  /\ pc' = [pc EXCEPT ![i] = Down]
  /\ UNCHANGED <<cluster, service, sysAccount, infos, waitVars, alone,
                 disturbances>>

\* The old pod is removed once the container of the new one runs.
Retire(i) ==
  /\ pc[i] # Removed
  /\ \E j \in Instances : /\ Version[j] > Version[i]
                          /\ pc[j] \in (DOMAIN Steps) \cup {Started}
  /\ Ends(i, Removed)
  /\ UNCHANGED <<cluster, service, sysAccount, disturbances>>

Next ==
  \/ \E i \in Instances :
       Deploy(i) \/ Step(i) \/ Tick(i) \/ Crash(i) \/ Retire(i)
  \/ ServiceUp
  \/ ServiceDown
  \/ NewSysAccount

Spec == Init /\ [][Next]_vars

\* Processes run and time passes; the kubelet starts a container that ended,
\* and the pod of a Deployment ends up running.
Fairness ==
  /\ \A i \in Instances : WF_vars(Step(i)) /\ WF_vars(Tick(i))
  /\ WF_vars(ServiceUp)

FairSpec == Spec /\ Fairness

-----------------------------------------------------------------------------
(* Properties.                                                             *)

\* An error of one of the many calls of main is not lost: the controllers of no
\* instance run unless every manifest was applied, whichever calls failed and
\* however often the start was repeated.
StartedComplete ==
  (\E i \in Instances : pc[i] = Started)
    => \A m \in Manifests : cluster[m] # Absent

\* An instance that no other one interfered with leaves node-dns and leaf-nats
\* as its own version has them, whatever an older version or an attempt that
\* failed half-way left behind; and the configuration and the credentials of
\* leaf-nats are of one system account, although anck-credentials may be given
\* another one between two calls.
StartLeavesItsManifests ==
  [][\A i \in Instances :
       pc[i] # Started /\ pc'[i] = Started /\ alone[i]
         => /\ \A m \in Updated : cluster'[m].by = Version[i]
            /\ cluster'["natsConfigMap"].infos = cluster'["natsSecret"].infos]_vars

\* Every instance that is created and not removed gets to run its controllers,
\* from some time on for good: a timeout that wins against the answer, a service
\* that goes away after it was seen running, or a failed call only costs a
\* restart.
StartsAtLast ==
  \A i \in Instances : <>[](pc[i] \in {NotCreated, Started, Removed})

=============================================================================
