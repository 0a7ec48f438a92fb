-------------------------- MODULE ComponentSecrets --------------------------
(***************************************************************************)
(* The secrets of the components.  A component has a secret with the       *)
(* credentials of its networks and a second one with their dapr files; all *)
(* networks write to the same two.  This module has the Networks, as far   *)
(* as their Components go, and the worker of NetworksReconciler, which     *)
(* creates, updates and removes secrets, one call per action.              *)
(*                                                                         *)
(* A secret is the set of the networks in it.  It is never left empty, so  *)
(* the empty set is no secret.  All secrets are in one namespace.  Anck's   *)
(* own component, which is in no Participants resource, is left out.       *)
(***************************************************************************)
EXTENDS Naturals

CONSTANTS NetworkNames,     \* the Networks of the namespace
          ComponentNames,   \* <app>.<component> of edge and cloud participants
          None              \* nothing: the worker is idle

ASSUME SecretsAssumption == None \notin NetworkNames \cup ComponentNames

VARIABLES nets,      \* each Network in the API server: its life and Components
          netCache,  \* the Networks in the manager's cache
          latest,    \* for each Network, the holders of its resourceVersion
          secrets,   \* the networks in the secret of each component
          dapr,      \* the networks in its dapr secret
          wpc,       \* the worker's next call
          work       \* what its Reconcile works on

netsVars == <<nets, netCache, latest>>
secretVars == <<secrets, dapr>>
workVars == <<wpc, work>>

NetObject == [life : {"absent", "live", "deleting", "gone"},
              Components : SUBSET ComponentNames]

NoNet == [life |-> "absent", Components |-> {}]
GoneNet == [NoNet EXCEPT !.life = "gone"]

Exists(n) == nets[n].life \in {"live", "deleting"}

\* Who holds a copy of a Network: the cache, this worker, and the Reconcile and
\* the event filter of the participants controller.
NetHolders == {"cache", "worker", "reconcile", "filter"}

\* network: its name; todo: components left; component: the current one;
\* data: the networks in the secret it read or wrote.
Work == [network : NetworkNames \cup {None}, todo : SUBSET ComponentNames,
         component : ComponentNames \cup {None}, data : SUBSET NetworkNames]

NoWork == [network |-> None, todo |-> {}, component |-> None, data |-> {}]

WriteSteps == {"next", "updateSecret", "createSecret", "existsDapr",
               "updateDapr", "createDapr"}
RemoveSteps == {"nextRemoval", "deleteSecret", "readDapr", "deleteDapr"}

SecretsTypeOK ==
  /\ nets \in [NetworkNames -> NetObject]
  /\ netCache \in [NetworkNames -> NetObject]
  /\ latest \in [NetworkNames -> SUBSET NetHolders]
  /\ secrets \in [ComponentNames -> SUBSET NetworkNames]
  /\ dapr \in [ComponentNames -> SUBSET NetworkNames]
  /\ wpc \in {"idle"} \cup WriteSteps \cup RemoveSteps
  /\ work \in Work

SecretsInit ==
  /\ nets = [n \in NetworkNames |-> NoNet]
  /\ netCache = nets
  /\ latest = [n \in NetworkNames |-> {"cache"}]
  /\ secrets = [c \in ComponentNames |-> {}]
  /\ dapr = [c \in ComponentNames |-> {}]
  /\ wpc = "idle"
  /\ work = NoWork

-----------------------------------------------------------------------------
(* The Networks in the API server.                                         *)

\* h stores new as Network n and drops its copy.
StoreNet(h, n, new) ==
  /\ nets' = [nets EXCEPT ![n] = new]
  /\ latest' = [latest EXCEPT ![n] = IF new = nets[n] THEN @ \ {h} ELSE {}]
  /\ UNCHANGED netCache

\* h reads Network n from the API server.
ReadNet(h, n) ==
  /\ latest' = [latest EXCEPT ![n] = @ \cup {h}]
  /\ UNCHANGED <<nets, netCache>>

CreateNetwork(n) ==
  /\ nets[n].life = "absent"
  /\ StoreNet(None, n, [NoNet EXCEPT !.life = "live"])

\* The finalizer of NetworksReconciler keeps the Network until it is removed.
DeleteNetwork(n) ==
  /\ nets[n].life = "live"
  /\ StoreNet(None, n, [nets[n] EXCEPT !.life = "deleting"])

\* Another part of Network n is written while someone holds a copy of it: by the
\* pod controller, or by this worker, whose copy is then still the latest one.
OtherWrite(n) ==
  /\ Exists(n)
  /\ latest[n] \ {"cache"} # {}
  /\ \E H \in {{}, latest[n] \cap {"worker"}} :
       /\ H # latest[n]
       /\ latest' = [latest EXCEPT ![n] = H]
  /\ UNCHANGED <<nets, netCache>>

WatchNet(n) ==
  /\ "cache" \notin latest[n]
  /\ netCache' = [netCache EXCEPT ![n] = nets[n]]
  /\ latest' = [latest EXCEPT ![n] = @ \cup {"cache"}]
  /\ UNCHANGED nets

-----------------------------------------------------------------------------
(* The loops over the components in reconcileCreateNetwork and in          *)
(* reconcileDeleteNetwork.  A live Network is always queued again.         *)

\* r.Get from the cache.  The version of the copy matters only for the removal
\* of the finalizer.
WorkStart(n) ==
  /\ wpc = "idle"
  /\ work' = [NoWork EXCEPT !.network = n, !.todo = netCache[n].Components]
  /\ \/ /\ netCache[n].life = "live"
        /\ wpc' = "next"
        /\ UNCHANGED latest
     \/ /\ netCache[n].life = "deleting"
        /\ wpc' = "nextRemoval"
        /\ latest' = IF "cache" \in latest[n]
                       THEN [latest EXCEPT ![n] = @ \cup {"worker"}] ELSE latest
  /\ UNCHANGED <<nets, netCache, secretVars>>

Step(step) == wpc' = step /\ UNCHANGED <<work, netsVars>>

\* Reconcile returns and its copy is no longer used.
WorkReturn ==
  /\ wpc' = "idle"
  /\ work' = NoWork
  /\ latest' = [n \in NetworkNames |-> latest[n] \ {"worker"}]
  /\ UNCHANGED <<nets, netCache>>

\* createOrUpdateComponentSecrets of component c: ReadSecret.
WorkRead(c) ==
  /\ wpc = "next"
  /\ c \in work.todo
  /\ wpc' = IF secrets[c] = {} THEN "createSecret" ELSE "updateSecret"
  /\ work' = [work EXCEPT !.todo = @ \ {c}, !.component = c, !.data = secrets[c]]
  /\ UNCHANGED <<netsVars, secretVars>>

\* Mutant of Entries: the networks read from the secret are not kept.
EntriesOfNetwork == {work.network}

\* The data to write: what was read, and the credentials of this network.
Entries == work.data \cup {work.network}

\* The secret is written; createOrUpdateComponentDaprSecrets goes on with what
\* was written.
SecretWritten ==
  /\ secrets' = [secrets EXCEPT ![work.component] = Entries]
  /\ work' = [work EXCEPT !.data = Entries]
  /\ wpc' = "existsDapr"
  /\ UNCHANGED <<dapr, netsVars>>

\* UpdateSecret.  Nobody else updates this secret, it can only be gone; it is
\* then created, with the data read before.
WorkUpdateSecret ==
  /\ wpc = "updateSecret"
  /\ \/ secrets[work.component] # {} /\ SecretWritten
     \/ /\ secrets[work.component] = {}
        /\ Step("createSecret")
        /\ UNCHANGED secretVars

\* CreateSecret.  Nobody else creates it.
WorkCreateSecret ==
  /\ wpc = "createSecret"
  /\ SecretWritten

\* ExistsSecret of the dapr secret.
WorkExistsDapr ==
  /\ wpc = "existsDapr"
  /\ Step(IF dapr[work.component] = {} THEN "createDapr" ELSE "updateDapr")
  /\ UNCHANGED secretVars

DaprWritten ==
  /\ dapr' = [dapr EXCEPT ![work.component] = work.data]
  /\ Step("next")
  /\ UNCHANGED secrets

\* UpdateSecret of the dapr secret.  One that is not found is no error; one
\* that goes away between its Get and its Update is.
WorkUpdateDapr ==
  /\ wpc = "updateDapr"
  /\ \/ dapr[work.component] # {} /\ DaprWritten
     \/ /\ dapr[work.component] = {}
        /\ Step("next") \/ WorkReturn
        /\ UNCHANGED secretVars

WorkCreateDapr == wpc = "createDapr" /\ DaprWritten

\* removeNetworkFromComponentSecret: ReadSecret.  A secret that is not found is
\* ignored here, one without this network is left alone.
WorkReadRemoval(c) ==
  /\ wpc = "nextRemoval"
  /\ c \in work.todo
  /\ wpc' = IF work.network \in secrets[c] THEN "deleteSecret" ELSE "readDapr"
  /\ work' = [work EXCEPT !.todo = @ \ {c}, !.component = c]
  /\ UNCHANGED <<netsVars, secretVars>>

\* Mutant of WorkDeleteSecret: the dapr secret is forgotten.
WorkDeleteSecretOnly ==
  /\ wpc = "deleteSecret"
  /\ secrets' = [secrets EXCEPT ![work.component] = {}]
  /\ Step("nextRemoval")
  /\ UNCHANGED dapr

\* Its DeleteSecret: filteredSecret has one entry whatever the secret holds, so
\* the secret goes with all its networks.
WorkDeleteSecret ==
  /\ wpc = "deleteSecret"
  /\ secrets' = [secrets EXCEPT ![work.component] = {}]
  /\ Step("readDapr")
  /\ UNCHANGED dapr

\* removeNetworkFromDaprSecret, in the same way.
WorkReadDapr ==
  /\ wpc = "readDapr"
  /\ Step(IF work.network \in dapr[work.component] THEN "deleteDapr"
                                                    ELSE "nextRemoval")
  /\ UNCHANGED secretVars

WorkDeleteDapr ==
  /\ wpc = "deleteDapr"
  /\ dapr' = [dapr EXCEPT ![work.component] = {}]
  /\ Step("nextRemoval")
  /\ UNCHANGED secrets

\* The end of reconcileCreateNetwork.
WorkCreated ==
  /\ wpc = "next"
  /\ work.todo = {}
  /\ WorkReturn
  /\ UNCHANGED secretVars

\* The Update without our finalizer, with which the Network goes.
WorkRemoveFinalizer ==
  /\ wpc = "nextRemoval"
  /\ work.todo = {}
  /\ UNCHANGED secretVars
  /\ LET n == work.network
     IN  \/ /\ Exists(n)
            /\ "worker" \in latest[n]
            /\ StoreNet("worker", n, GoneNet)
            /\ wpc' = "idle"
            /\ work' = NoWork
         \/ /\ ~Exists(n) \/ "worker" \notin latest[n]
            /\ WorkReturn

WorkNext ==
  \/ \E n \in NetworkNames : WorkStart(n)
  \/ \E c \in ComponentNames : WorkRead(c) \/ WorkReadRemoval(c)
  \/ WorkUpdateSecret
  \/ WorkCreateSecret
  \/ WorkExistsDapr
  \/ WorkUpdateDapr
  \/ WorkCreateDapr
  \/ WorkDeleteSecret
  \/ WorkReadDapr
  \/ WorkDeleteDapr
  \/ WorkCreated
  \/ WorkRemoveFinalizer

=============================================================================
