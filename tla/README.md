# anck in TLA+

anck is the Kubernetes operator of EdgeFarm.network. A user creates a `Network`
resource with the streams it wants; anck gets an account for it from the
service anck-credentials, stores credentials in secrets, creates JetStream
streams in the domain `main` and, for every node that runs a participating pod,
in the domain of that node. This directory holds TLA+ models of anck's
controllers, TLC configurations that check them on small instances, and TLAPS
proofs that hold for instances of any size.

## The system

| Part | State it keeps | Operations |
|---|---|---|
| Network controller, `controllers/network/network_controller.go`, `main_jetstreams.go` | none of its own: everything is in the Network's `Info` and finalizers | `Reconcile`: `reconcileCreate` (account, secrets, main-domain streams, node streams), `reconcileDelete` |
| Pod controller, `pod_controller.go` | none of its own; it writes `Info.Participating` of the Network and the finalizers of the pod | `Reconcile`: `reconcileCreatePod`, `reconcileDeletePod` |
| Participants controller, `participants_controller.go` | `Info.Participating.Components` of the Network | `Reconcile`, and deletions in its event filter |
| Network resource, `apis/network/v1alpha1`, `pkg/resources/network.go` | spec, `Info`, finalizers, deletion timestamp, resourceVersion | get, list, update, delete |
| Secrets, `secret.go`, `dapr.go`, `pkg/resources/secret.go` | a secret per component with the credentials and dapr files of its networks | create, update, remove a network |
| JetStream client, `pkg/jetstreams` | streams in each domain | `Exists`, `Create`, `CreateAggregate`, `UpdateSources`, `Delete` |
| anck-credentials, `pkg/grpc`, `pkg/nats/server.go` | accounts and users of each network | `DesiredState`, `DeleteNetwork` |
| Start-up, `main.go`, `pkg/additional` | the manifests in the cluster; a goroutine and its channel during the wait | applies manifests, waits for anck-credentials, registers the controllers |
| Builders, `pkg/nats`, `pkg/common`, `pkg/dapr` | - | NATS configuration, slices, dapr components |

The controllers share one process. controller-runtime gives each of them a work
queue and one worker, so two calls of `Reconcile` of the same controller never
overlap and calls of different controllers do. They meet in the Network
resource: the participants controller writes `Components`; the pod controller
writes `PodsCreating`, `PodsTerminating` and
`Nodes`; the network controller moves pods from `PodsCreating` to `Pods`,
activates and removes nodes, and writes the account name and `MainDomain`. All
send the *whole* object. The API server refuses an update whose resourceVersion
is not the stored one, the refused `Reconcile` returns an error, and the key is
queued again.

### What is hard here

* Each worker edits a copy that may be old. The network worker's copy comes from
  the informer cache, is edited during seconds of JetStream calls and written at
  the end; `SetNetworkAccountName` even changes the stored version behind it.
* A pod's whole life (`PodsCreating`, `Pods`, `PodsTerminating`, and its node
  `pending`, `active`, `terminating`) is spread over rounds of both workers, and
  pods of one node come and go in any order.
* Every `Reconcile` makes many calls, any of which may fail after those before
  it have taken effect, and the process may end between two of them.
* Deletion needs what it removes: anck's secret gives access to the streams.
* All networks of a component share its two secrets. The network worker writes
  and removes them; so does the event filter of the participants controller, in
  the informer's goroutine, where an error is dropped and nothing is retried.
* Nothing moves unless events and requeues bring a key back to its queue.
* The streams of a domain are made and removed one request at a time, from a list
  of nodes that changes meanwhile; all nodes have the same streams and hear each
  other's messages.
* The start-up writes thirteen objects before leader election, so two instances
  may do it at once; its wait races a timer against a goroutine, and every error
  ends the process.

`PROJECT.json` lists these hazards at their lines, with the properties that
cover them.

### What makes each part correct

* Network and pod controller together: no recorded live pod is lost; only
  deleted pods are recorded as terminating; a pod's end is recorded where its
  start was; pods are recorded only under nodes that the loop visits; streams
  exist before pods participate; every bound pod is served in the end.
* Network controller: what it creates outside before it comes to the nodes never
  exists without the finalizer that leads to its removal; a deleted Network
  releases everything it holds, node streams in domain `main` included, and lets
  go of the finalizer. The second does not hold (`StuckDeletion`).
* Participants and secrets: a live participant that is listed stays listed; a
  Network takes the credentials of its participants with it; a component that
  participates for good has its credentials for good, although other networks
  come and go; one that no longer participates loses them.
* JetStream client: a message is kept once and by the streams of its own domain;
  the streams of the main domain end up there, with the active nodes as sources;
  a deletion is reported only if nothing is left.
* Start-up: no controllers without all manifests; the manifests of the version
  that starts, made of one answer; every instance gets to run in the end.

## Modules

```
ParticipatingInfo      Info.Participating and the pure functions on it
   KubeApi             the Network in the API server, and every copy of it
     NetworkController    NetworksReconciler
     PodController        PodsReconiler, and the life of pods
       Anck               both, with watches, deletion and restarts; properties
         MCAnck           for TLC; faults that end
         AnckProofs            for TLAPS: types, what is recorded of pods
           ExternalsProofs     what exists outside of the Network
             ParticipationProofs  places and streams of pods; Participation
Participation          abstract: what both controllers promise; Anck implements it

ComponentSecrets       several Networks with their Components, the secrets, and
                       the loops over components of NetworksReconciler
   Participants        ParticipantsReconciler and its event filter beside it;
                       resources, events, failures, restarts; properties
     MCParticipants       for TLC
     ParticipantsProofs   for TLAPS: types, who is listed
       MembershipProofs     secrets; Membership
Membership             abstract: what the participants controller promises;
                       Participants implements it

JetStreams             the JetStream client, request by request, in the rounds
                       of the network controller; messages; properties
   MCJetStreams           for TLC
   StreamsProofs          for TLAPS

Startup                main up to mgr.Start, in several instances; properties
   MCStartup              for TLC
   StartupProofs          for TLAPS
```

The two families look at the same Network from two sides. `Anck` has the pods of
one Network and leaves out `Components`; `Participants` has the `Components` of
several and leaves out the pods, whose writes appear as `OtherWrite`: they change
nothing here but the version. `JetStreams` opens what is one action of
`NetworkController` (the creation or deletion of the streams of a domain) into
its requests, and reduces the Network to the states of its nodes. `Startup` is
what happens before any of this; `Restart` of `Anck` is all of it in one step.

**ParticipatingInfo.** `ParticipatingSpec` with its four maps as total functions
over `Domains` (the nodes and `main`): a missing entry of `Nodes` is `"none"`, a
missing pod list is empty. Pod lists are sets: each is made unique where it is
written, and they are only tested for membership, emptiness and `SliceEqual`,
which on lists without duplicates is equality of sets. `PodCreating` and
`PodTerminating` are the edits of the pod controller, `networkNodeState` with
`NodeActivated`, `CreatingMoved`, `NodeRemoved` and `TerminatedRemoved` those of
the loop of `reconcileJetstreams`.

**KubeApi.** `network` is the stored object, `copy` what each holder has: the
informer cache behind `r.Get`, the object of either worker, and the second object
`SetNetworkAccountName` fetches. A resourceVersion is only ever compared with the
stored one, so versions are the set `current` of the holders that have the stored
version. `Accepts` is the API server's test, `Stored` the removal of an object
whose last finalizer went. What is not code of this repository here is marked
external in the map and modelled by what the code relies on.

**NetworkController.** One action per call, in the order of the code; `npc` names
the call that comes next. What is computed between two calls belongs to the
action of the call.

| Action | Code |
|---|---|
| `NetGet` | `r.Get` from the cache, and the branch create / delete / return |
| `NetAddFinalizer` | `Update` with our finalizer |
| `NetDesiredState`, `NetGetAccount`, `NetSetAccount`, `NetSecrets`, `NetConfirmAccount` | `reconcileCreateNetwork` |
| `NetCreateMain`, `NetWriteMain` | `createMainJetstreams` |
| `NetJetstreams`, `NetNode(d)`, `NetWriteNodes` | `reconcileJetstreams`: credentials, one turn of the loop, the write; the loop visits `Nodes` in any order |
| `NetDeleteMain`, `NetDeleteNetwork`, `NetRemoveSecrets`, `NetRemoveFinalizer` | `reconcileDelete` and what follows it |

Outside the Network it keeps `creds` (an account at anck-credentials),
`anckSecret`, `streams` per domain and `aggregate`. A call that fails may have
taken effect (`creds' \in {creds, TRUE}`). A turn of the loop that fails may
leave any part of the node's streams behind, since a retry that succeeds does
not clear the error. `Exists` compares bare stream names with names that have a
prefix and never finds one, so `Create` is called every time, which loads a
stream that exists.

**PodController.** `PodGet(p)` takes a pod from the queue and decides on the
cached pod; `PodCreateRead` and `PodDeleteRead` read pod and Network live and edit
the Info; `PodRemoveFinalizers` is `UpdatePod`, `PodWrite` is `UpdateNetwork`. The
same module has what happens to pods outside anck (`CreatePod`, `SchedulePod`,
`DeletePod`, `PodGone`) and the event filters (`WatchPod`, `PodStatus`).

**Anck.** Interleaves the two workers, the watches, the user and `Restart`, which
loses everything in memory and lists all resources again. The properties of pods
and of the Network are stated here. `MCAnck` adds `FaultsEnd`, that calls fail for
some time only, as `<>[][Quiet!Next]_vars` with `Quiet` an instance of `Anck`
without faults, and `DeletionCompletes`, which is stated under it.

**ComponentSecrets.** `nets`, `netCache` and `latest` are the Networks, the cache
and the holders of each stored version, as in `KubeApi` but with `Components` as
the content. `secrets` and `dapr` give for each component the networks in its two
secrets. The worker's actions are the calls of `createOrUpdateComponentSecrets`
(`WorkRead`, `WorkUpdateSecret`, `WorkCreateSecret`),
`createOrUpdateComponentDaprSecrets` (`WorkExistsDapr`, `WorkUpdateDapr`,
`WorkCreateDapr`), `removeNetworkFromComponentSecret` and
`removeNetworkFromDaprSecret` (`WorkReadRemoval`, `WorkDeleteSecret`,
`WorkReadDapr`, `WorkDeleteDapr`), and the removal of the finalizer.
`removeNetworkFromComponentSecret` compares the number of entries of a filtered
copy that has one entry by construction, so it deletes the secret whatever else
is in it; the actions do the same.

**Participants.** `RecStart`, `RecRead` and `RecWrite` are `Reconcile` with
`addParticipant` inside `RetryOnConflict`; `FilterStart`, `FilterRead`,
`FilterWrite` and the four secret steps are `DeleteFunc` of the event filter with
`removeParticipant`. `Failure` ends any function in progress with an error,
`Restart` the process. A restart finds no Delete event of before: a Participants
resource has no finalizer, and what is gone is not listed.

**Participation.** The life of each pod and of the Network, the domains whose
streams are complete, and the pods announced and served in each domain. A pod that
exists or existed is announced (`Announce`); a round serves the announced pods of
domains that are ready, and forgets deleted pods only (`Settle`). There are no
queues, caches, copies or versions: every change of the Network is one atomic step
on its current state. `Contract` in `Anck` maps `PodsCreating` to `creating`, `Pods` to
`serving`, and what exists outside to `ready`. With two edge nodes the implementation
fails for the reason `ShadowedNode` shows, so it is checked with one edge node, a
cloud node, faults, deletions and a restart.

**Membership.** The resources, the Networks and the members of each Network, which
change by one component at a time: `Join` needs a resource that was created,
`Leave` one that is gone. `Registry` in `Participants` maps `Components` to
`members`.

**JetStreams.** A stream is a name (prefixed with the network's), its subjects
(prefixed with the domain, but for `local.>`) and its sources. `Accepted` is what
`createJetstreamConfig` and `parseDurationString` do not refuse: they refuse a node or
standard stream without subjects, and a maximal age that ends in no known unit.
The streams of a loop are the set `todo` of their places in `Streams`, and the loop
takes the first (`Turn`): the order is that of the list in the spec.

| Action | Code |
|---|---|
| `RoundStart`, `RoundEnd` | a round of `NetworksReconciler` on a copy of the Network, and its last write |
| `StandardExists`, `StandardCreate` | first loop of `createMainJetstreams`: `Exists`, `Create`; an error ends the loop |
| `AggregateExists`, `AggregateCreate`, `AggregateLoad`, `AggregateUpdate` | second loop: `CreateAggregate` with `UpdateSources`; an error goes on with the next stream |
| `NodeStart(d)`, `NodeExists`, `NodeCreate`, `NodeEnd` | creation of node streams with `retry.Do` in `reconcileJetstreams` |
| `DeleteList`, `DeleteStream`, `DeleteEnd` | `Delete` in `deleteMainJetstreams` |

`Move`, `MarkDeleted`, `Lost`, `Publish` and `Pull` are the pods, the user, the
servers, the applications and the sourcing of streams. `kept` has the messages in
each stream, with the domain they came from.

**Startup.** `Steps` lists the calls of `main` in order, and `pc` is each instance's
place in it. A manifest in the cluster is the version it is from and, for the ConfigMap
and the Secret of leaf-nats, the answer of anck-credentials it was made of.
`ApplyOne` is one `ApplyIgnoreExisting` or `ApplyOrUpdate`; `WaitBegin`, `Poll`,
`Tick`, `Receive` and `TimedOut` are the wait with its goroutine, its channel of
one response, its sleep and the two branches of its `select`;
`GetNatsServerInfos` is called twice, the first time for its error only. `Exit`
is `os.Exit(1)`. `Deploy` and `Retire` are a rollout: the new instance starts beside
the old one.

### Abstractions

* One Network, one life of it: a Network that is gone is not created again. A pod
  participates in this one network; a pod name is not used twice.
* `Watch` and `WatchPod` bring a cache to the latest version at once. Skipping the
  versions in between only makes caches fresher; every lag is still possible,
  because a watch may be delayed for as long as one likes.
* Pods come with a finalizer, as whoever creates them must provide one: without it
  the event filter drops the deletion before anck sees it.
* A Network comes with `info` and its maps, empty: the CRD requires the maps of an
  `info`, and nothing in the code makes them. Without them the first assignment
  panics, in any order of events (listed as a hazard).
* At most one standard and one aggregate stream in the main domain; they differ
  only by name, each is handled on its own. All node streams are handled alike.
* A requeue with a delay is a requeue: no property depends on the delay, and a
  delay of the worker is already a possible behaviour.
* `Participants`: a secret is the set of the networks in it and never empty, since
  the code deletes a secret instead of emptying it. All secrets are in one
  namespace. anck's own component is left out here, it is `anckSecret` in `Anck`.
  The types `edge` and `cloud` differ only in text and are one set. The loop over
  components that no longer participate in `createOrUpdateComponentSecrets` looks
  for them among those that do, finds none, and is left out. Networks
  have their finalizer from the start. Events of a resource arrive one at a time
  and in order; the name of a resource that is gone is not used again.
* A conflict of `UpdatePod` is one of the failures of `PodRemoveFinalizers`, with
  `Faults`. A write that is stored but whose reply is lost is a crash after the
  write, which `Restart` covers.
* `JetStreams`: a network has an account of its own, so the streams seen are its
  own. Subjects of different streams are different and not wildcards of each
  other, except `local.>`, which is a subject like any other here. Limits, storage and retention are left out: nothing
  drops a message. Streams that exist are loaded and never changed by `Create`.
  A node that has left takes its streams along only when its server does (`Lost`);
  the client never deletes streams of a node.
* `Startup`: the fields of a manifest other than the version and the answer are
  constants of the program. A namespace exists before what is in it because
  `main` applies it first. A rollout begins once the version before it runs. The
  pod of anck-credentials needs its Deployment and its ServiceAccount.

## Runs

Six runs pass. The first two use `MCAnck`, the next two `MCParticipants`:

| Run | Instance | Checks |
|---|---|---|
| `FaultsAndCrash` | 1 pod, an edge and a cloud node, an aggregate stream, every call may fail, 1 restart, pod and Network may be deleted | `TypeOK`, `TrackedNodes`, `TerminatingWereDeleted`, `ActiveHasStreams`, `SetupIsHeld`, `SourcesHaveStreams`, `LivePodStaysRecorded`, `ImplementsParticipation` |
| `Live` | 2 pods, 1 edge node, a standard and an aggregate stream, status updates of the pods, 1 restart, with fairness | `StreamsBeforePods`, `PodServed`, `AggregateCatchesUp` |
| `JoinAndLeave` | 1 network, 2 components that join, 1 that leaves; the Network may go; 1 restart, failure or other write | `TypeOK`, `SecretsGoWithNetwork`, `ListedStaysListed`, `ImplementsMembership` |
| `SharedSecrets` | 1 component in 2 networks, one of which may go; 1 restart, failure or other write, with fairness | `SecretsGoWithNetwork`, `ParticipantServed` |
| `Startup` (`MCStartup`) | an old and a new instance, 2 disturbances, 2 system accounts, with fairness | `TypeOK`, `StartedComplete`, `StartLeavesItsManifests`, `StartsAtLast` |
| `Streams` (`MCJetStreams`) | the main domain and one edge node, 1 node stream, 2 standard and 2 aggregate streams, of which one each is refused; 3 nodes that come or go, 1 message, 2 disturbances, with fairness | `TypeOK`, `KeptOnce`, `DeleteClears`, `StandardStreamsMade`, `AggregatesFollow` |

`StreamsBeforePods` holds in `Live`, for a single edge node, which is the case the
repository's own diagrams describe; with two nodes it is violated
(`ShadowedNode`, below). `SetupIsHeld` is about the account, anck's secret, and the
standard and aggregate stream in domain `main`: what is made before the loop over the
nodes. The node streams that this loop makes in `main` for pods of cloud nodes
are not part of it, since they can outlive the Network (`StuckDeletion`).

*Bounds.* The workers interfere through one object and one version, and each
holds a single copy. Two pods on one node (`Live`) are being created at the same time,
or one while the other is served, with the network worker at any of its
calls. One pod and one restart (`FaultsAndCrash`) are enough for a crash between
any two calls; the pod ends while its start is still on its way through caches
and copies, on a node that joins again; faults can hit every call, any
number of times. One stream per location suffices because the turn of a node is
modelled with every subset of its streams. With the standard stream as
well `FaultsAndCrash` has more than ten million states, and two pods that end have
five million without faults, restart and deletion; the safety properties of both runs are proved for every size, the standard stream and any pods included
(*Proofs*). In `Participants`, two components in one
network are what it takes for Reconcile and the event filter to write different
participants at the same time, and two networks of one component for one to
delete what the other wrote. `MaxTries` is 2 instead of the 5 of
`retry.DefaultRetry`, which is enough for a retry that succeeds and one that is
given up (`LeftBehind` uses 5); `MaxDisturbances` bounds restarts, failures and
other writes together, to one. Deadlock is checked except where a deleted Network
lets the system come to its end, and in `Startup`, where a rollout does.
In `Startup` the `Timeout` is 2 seconds instead of 60: enough for the goroutine to
poll twice and for the timer to fire before, with or after the answer. Two
instances are all that exist at a time; two disturbances give a failure in each of
them, or in two attempts of one, and the system account changes once. In `Streams`
one edge node and the main domain, which has streams of its own for pods of nodes
without the edge label, already are two sources of an aggregate stream and two
domains a message can reach. Three moves let one of them leave and join again.
`MaxTries` is 2 instead of 5.

*Fairness* (`Fairness` in `Anck`): weak fairness of each worker, because
controller-runtime runs them as long as their queue is not empty; of the watches,
because the API server delivers; of the kubelet, which finishes deletions. Strong
fairness of `PodGet(p)`, because the work queue is first in, first out: other pods
cannot take the worker forever. Users and the scheduler are under no fairness.
In `Participants` likewise: weak fairness of the worker, `Reconcile`, the event
filter and the watches, strong fairness of the start of a `Reconcile` of each
Network and each resource, since both queues are first in, first out and each
round of a live one ends with its requeue.
In `Startup`, weak fairness of the steps of each instance, of which `Begin` is the
kubelet's restart of a container that ended, of the clock, and of the pod of
anck-credentials, which its Deployment brings back. In `JetStreams`, weak fairness of the
worker: each of its rounds ends with a requeue. Failures are bounded in both by
`MaxDisturbances`.
The run `Live` has no faults: calls that fail for ever refute every liveness
property, and nothing in the code bounds them. Conflicts, the failures anck
causes by itself, are in. `StuckDeletion` has faults, and its property assumes that
they end (`FaultsEnd`); a deletion must survive failures of some time, since
`Reconcile` returns the error "so that it can be retried".

Six runs show where the program does not do what its documents, comments or types
say. Each states one property and TLC finds the counterexample:

| Run | What happens |
|---|---|
| `ShadowedNode` (`StreamsBeforePods`) | in the case `stillPartitipatingCreate` the inner loop redeclares `node`, so pods of another, pending node are moved to `Pods`; that node is no longer new and never gets streams |
| `DeletedWhileCreating` (`GonePodsForgotten`) | a pod deleted while in `PodsCreating` does not make its node terminating; it stays in `Pods` |
| `LostTermination` (`TerminationRecorded`) | the pod loses its finalizers before the Network is written; after a conflict the pod may be gone, and its end is never recorded |
| `KeyOfEnd` (`TerminatingUnderItsDomain`) | on a node without the edge label `reconcileCreatePod` records the pod under `main` (pod_controller.go:118), `reconcileDeletePod` its end under the node's name (pod_controller.go:167); the loop never visits that key and `Pods["main"]` keeps the pod |
| `StuckDeletion` (`DeletionCompletes`) | anck's secret is gone, or was never made, while it is still needed: streams cannot be deleted and every retry fails; see below |
| `LeftBehind` (`GoneParticipantForgotten`) | the network worker holds a secret, or a Network that lists a component, read before the event filter removed both; it creates the secret again, for good |

`DeletionCompletes` fails in three ways, all in the instance of `StuckDeletion` (one
pod that may come to a cloud node, a standard stream, faults that end). TLC
prints one of them; asked for the formula in the last column instead, in the
same instance, it prints the others.

| Way | What is left | Seen alone by |
|---|---|---|
| the Network is deleted before anck's secret exists, or its last update conflicts after the secret is gone: `deleteMainJetstreams` fails in every round | the Network with anck's finalizer | `DeletionCompletes` without `NoExternals` |
| one call of `js.Delete` fails; the round goes on and removes the secret (network_controller.go:161-164, 363). Or, without any failure, `reconcileJetstreams` makes streams in `main` for a pending pod after `js.Delete` has emptied it, the write with a new finalizer is refused, and the secret is removed | the Network with its finalizer, and streams in `main` | `FaultsEnd => (network.deleting ~> []NoExternals)` |
| in that same place the creation of the streams fails after some were made; the error is dropped (network_controller.go:544-550) and the finalizer is removed | streams in `main`, without a Network | `NoExternals \/ NetworkFinalizer \in network.finalizers`, an invariant |

A Network without the optional `spec.namespace` is the constant
`SpecNamespaceSet = FALSE`: its secret is stored in the resource's namespace and
looked up in none, so no pod is ever served. It takes no interleaving to see that
and no run is spent on it. The same is true of three smaller facts met on the way:

* `MaxAge: -1` ("-1 for unlimited", `docs/README.md:54`, `network_types.go:65`) is
  refused by `parseDurationString`: the last character, `1`, is no unit. A standard stream
  with it ends the loop over the standard streams in every round; `Streams` has
  one, and one aggregate stream, and shows what can still be relied on. Fractions
  of days, weeks, months and years are cut to whole hours.
* The comment of `Dial` (`pkg/grpc/client.go`) speaks of retries, but the connection is made
  in the background and the call after it fails at once.
* `Exists` is asked for a stream by its bare name and never finds it, so `Create`
  is what keeps streams from being made twice: it loads one that exists.

Every property of a passing run has a mutant in `PROJECT.json`: a plausible slip
in the code (a version that is not sent, an inverted test, an ignored error, a
dropped requeue), written next to the definition it changes, with which TLC finds
the property violated.

## Proofs

`AnckProofs` proves, for every set of pods, nodes and streams, with or without
faults, for every set of events and any number of restarts:

| Theorem | Statement |
|---|---|
| `TypeCorrect` | `Spec => []TypeOK` |
| `OnlyDeletedTerminate` | `Spec => []TerminatingWereDeleted` |
| `PodsAreTracked` | `Spec => []TrackedNodes` |
| `NoLostPod` | `Spec => LivePodStaysRecorded` |

They use only the `ASSUME`s of the modules: edge nodes are nodes, `main` is no
node's name, there are finitely many nodes, `None` is neither a node nor a pod,
and the streams of the nodes are not the standard stream.

None of the four is inductive. A worker writes what it read long before, so a
fact about the stored Network must also be known of each copy that may be
stored later. The invariant `IInv` is `TypeOK` with

* `ApiInv`: in the stored Network *and in every copy*, pods named are not absent,
  terminating pods have been deleted, and a domain with recorded pods is in
  `Nodes`; and whoever holds the stored version still records every live pod
  the stored Network records (`KeptBy`). That last part is the heart of
  `NoLostPod`: only holders of the stored version get an update accepted, and
  any accepted update of another holder takes the version away. Copies that are
  old may well have lost pods, and their writes are refused.
* `DeletesDead`: a pod in the delete path of the pod worker, and one that is
  deleting in the cache, has really been deleted. The cache may lag, but a
  deletion is never taken back.
* `KeysBound`: the pod the worker works on is bound to a node, now and in the
  cache; otherwise the edits would use a key that is no domain.

For each function of `ParticipatingInfo` a lemma says what it preserves; for each
action a lemma shows that it preserves `IInv`; `Invariance` puts them together.
`NoLostPod` follows from `IInv` step by step. One lemma shows that `Orders`, the
possible orders of a range loop over a map, are sequences of domains.

`ExternalsProofs` goes on from there, under one more assumption, that the name of
anck's finalizer (it has a slash) is not the name of a node:

| Theorem | Statement |
|---|---|
| `SetupHasFinalizer` | `Spec => []SetupIsHeld` |
| `ActiveNodesHaveStreams` | `Spec => []ActiveHasStreams` |
| `SourcesAreThere` | `Spec => []SourcesHaveStreams` |

Whether a round may create something outside depends on a finalizer it saw in the
cache, seconds ago. `XInv` says why that is enough:

* `CacheOK`: the finalizer is removed only by a round that itself read the deletion
  from the cache. So a cache that shows a Network that is not deleted, with the
  finalizer, is not older than the removal: the stored Network still has it.
* `RoundOK`: ties `npc` to what exists. A round is in the steps that create only
  while the finalizer is held, and comes to `removeFinalizer` only without an
  error, with no account, no secret and none of the streams of location `main`
  left. It says nothing of node streams in `main`, which the loop over the nodes can
  still make in that round.
* `CopiesOK`: every copy, of whatever age, is right about the active nodes (no
  step takes the streams of a node away, but for `main` after the deletion), and
  one with the stored version has the stored finalizers and deletion.
* `SourcesOK`: the same of the sources of the aggregate stream.

`ParticipationProofs` proves what needs the places of pods:

| Theorem | Statement |
|---|---|
| `PlaceInvariance` | `Spec => []PlaceInv` |
| `ServedPodsHaveStreams` | `Spec => []StreamsBeforePods`, if `NoNeighbours` |
| `ControllersImplementParticipation` | `Spec => ImplementsParticipation`, if `NoNeighbours` |

`PlaceInv` says where a pod is, in the Network and in all copies: under the domain of
its node, and as terminating under its node. For nodes without the edge label these
are two keys (`KeyOfEnd`). The hypothesis of the other two is the exact place where the
code goes wrong otherwise. `NoNeighbours` is that all nodes have the same domain, with any number of
pods, or that there is one pod, on any nodes: with two pods in two domains
the shadowed variable moves the pods of a node that has no streams
(`ShadowedNode`). Under it, `ServedInv` says of everyone who has the stored version
that what it would write is a step of `Participation`: the pod controller announces
or ends one pod, the network controller has served announced pods in domains that
are ready and forgotten deleted ones. A turn of the loop changes
the copy only; the abstract step happens at the accepted write, and everything
else is a stutter or a step of a pod's life. The streams come from `XInv`, the
identity of a pod under two keys from `PlaceInv`.

`ParticipantsProofs` proves, for any networks, components and resources, any of
which may be deleted, any number of tries and of restarts, failures and other
writes:

| Theorem | Statement |
|---|---|
| `ParticipantsTyped` | `Spec => []TypeOK` |
| `NoLostParticipant` | `Spec => ListedStaysListed` |

from the assumptions that each resource has a network and a component, that `None`
is none of them, and that there is at least one try. The invariant is `PInv`:

* `CopiesKeep`: as long as Reconcile holds the stored version of a Network, its
  edited copy has all stored Components; the event filter's copy has all but
  that of the resource it removes. `ListedStaysListed` alone says nothing of
  copies and is not inductive.
* `DeletedAreGone`: the event filter, its pending events and the cache say of a
  resource that it is gone only when it is. With it the one component a write
  may drop is never that of a live resource, unless two resources name the same
  component and network, which the property excludes (`Sole`).
* `CallsBound`, `WorkBound` and `AbsentEmpty`: functions in progress work on
  something that is there, and a Network yet to be created lists nobody.

One lemma per process (worker, users and watches, Reconcile, event filter, failure,
restart) shows that its steps keep `PInv`, and, except for the event filter, that
`Components` only grow while the Network exists.

`MembershipProofs` adds, from the same assumptions:

| Theorem | Statement |
|---|---|
| `SecretsLeaveWithNetwork` | `Spec => []SecretsGoWithNetwork` |
| `ControllerImplementsMembership` | `Spec => ImplementsMembership` |

For the first, `SecretsInv` follows an entry of a secret from where it comes: what is
cached (`CacheKnown`), about to be written (`WorkerKnown`) or stored (`EntriesKnown`)
belongs to a component that the Network lists or whose resource was deleted. The
last write of a Network needs the stored version, so nobody has joined since the
worker read it, and `RemovalSoFar` says that what is not yet removed is still on the
worker's list. The worker reads from a cache that may be old; `CacheBehind` says that
it cannot be older than the deletion by the time the Network goes. For the
second, `CopiesExact` says that a copy that would be accepted is the stored
`Components` with one joined or one left, where `CopiesKeep` only bounds it.

`StartupProofs` proves, for any number of instances and versions, any timeout and any
number of failures and crashes:

| Theorem | Statement |
|---|---|
| `StartupTypes` | `Spec => []TypeOK` |
| `StartedIsComplete` | `Spec => []StartedComplete` |
| `StartLeavesItsOwn` | `Spec => StartLeavesItsManifests` |

`PassedApplied` says that every manifest before an instance's place in `main` is in
the cluster; `AloneKeeps` that, as long as an instance is alone in `main`, what it
has applied is of its version and of the answer that it has in memory. The order
of the calls is used as `Steps` has it.

`StreamsProofs` proves, for any nodes and any list of streams with different names,
among them aggregates of aggregates, any number of attempts, messages, moves and
disturbances:

| Theorem | Statement |
|---|---|
| `StreamsTyped` | `Spec => []TypeOK` |
| `MessagesKeptOnce` | `Spec => []KeptOnce` |
| `DeleteReportsTrue` | `Spec => DeleteClears` |

The invariant `JInv` is `TypeOK` with

* `LoopOK`: the loops have streams of their own kind to do, and `StoreOK`: each
  stream in a domain is made from one of the spec, with the subjects of
  *that* domain and, if it is an aggregate, sources of the linked stream only.
* `KeptOK` and `OneHome`: `KeptOnce` compares two entries of one stream, but an
  aggregate gets its entries from other streams, so the invariant relates the
  entries of all streams: whoever has a message has it from the same
  domain, the one its subject names or, for `local.>`, where it was
  published. An aggregate of an aggregate has it from `main`.
* `DeleteOK`: unless an error was met, what is left in the main domain is on the
  list of `Delete`. Streams that get lost in between only make it shorter.

Every invariant was checked with TLC, on instances like those of the runs, before it
was proved.
`RECURSIVE` is not used in the modules proved about.

*Only model-checked:* the liveness properties (`PodServed`, `AggregateCatchesUp`,
`ParticipantServed`, `StartsAtLast`, `StandardStreamsMade`,
`AggregatesFollow`), since fairness and `ENABLED` are beyond the prover. For the same
reason the refinements are of `Participation` and `Membership` without fairness, as the
runs check them. `StreamsBeforePods` and `ImplementsParticipation` do not hold in
general and are proved under the hypothesis above. All other properties of the passing runs are proved as they are.

## Not modelled

* Contents of credentials, NATS configuration, dapr files and manifests, and the
  limits of a stream: formats and text. `pkg/nats/config.go` builds one
  configuration, for leaf-nats; loading and changing one is not called.
* `ApplyNatsResolver`: its call in `main` is commented out.
* `pkg/client`, deep copies: generated.
* `CreateMirror`, `Get`, `ListNames` and the JetStream calls without a domain, and
  `missingInSlice`: not called.
* Pods in several networks: the loops of the pod controller run once per pod.
* Changes of the spec of a Network or of a Participants resource.

## Plan

1. *(done)* `ParticipatingInfo`, `KubeApi`, `NetworkController`, `PodController`,
   `Anck`: the life of pods and of the Network, its runs and the first theorems.
2. *(done)* `ComponentSecrets` and `Participants`: `Components` with
   `RetryOnConflict`, the event filter beside `Reconcile`, and the secrets of
   several networks; the first theorems about them.
3. *(done)* `Participation` and `Membership`, abstract specifications of what the
   controllers promise, and `Anck` and `Participants` as implementations of them.
4. *(done)* `JetStreams`: the client of the streams request by request.
5. *(done)* `Startup`: manifests, goroutine, channel and timeout of the wait.
6. *(done)* Proofs of the safety properties of all runs: what exists outside
   (`ExternalsProofs`), places of pods and the refinement of `Participation`
   (`ParticipationProofs`), the secrets and the refinement of `Membership`
   (`MembershipProofs`), `Startup` and `JetStreams`.
7. Pods of several networks: the loop of `reconcileDeletePod` with one pod object,
   and anck's own secret, which the networks of one app share.
