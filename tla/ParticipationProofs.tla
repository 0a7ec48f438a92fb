------------------------- MODULE ParticipationProofs -------------------------
(***************************************************************************)
(* Proofs about the pods in the info of the Network: where they are        *)
(* recorded, that their streams exist, and that the two controllers        *)
(* implement Participation.  The last two hold only where no node has      *)
(* neighbours (NoNeighbours), because of the inner loop that moves the     *)
(* pods of every node (CreatingMoved).                                     *)
(***************************************************************************)
EXTENDS ExternalsProofs

-----------------------------------------------------------------------------
(* Where pods are recorded.                                                *)

\* The stored info and that of every copy.
Infos == {network.Participating} \cup {copy[h].Participating : h \in Holders}

RecordedIn(i, d) == i.Pods[d] \cup i.PodsCreating[d]

\* A pod that is there is recorded under the domain of its node, and as
\* terminating under its node.
PlacedIn(i) ==
  \A d \in Domains :
    /\ \A p \in RecordedIn(i, d) :
         Present(pod[p]) => pod[p].node \in NodeNames /\ d = DomainOf(pod[p].node)
    /\ \A p \in i.PodsTerminating[d] :
         d \in NodeNames /\ (Present(pod[p]) => pod[p].node = d)
    /\ RecordedIn(i, d) # {} => \E n \in NodeNames : d = DomainOf(n)

\* Two infos, of whatever age, name the same place for a pod: it is not known
\* any more once the pod is gone.
Consistent(i, j) ==
  \A d, e \in Domains, p \in PodNames : p \in RecordedIn(j, e) =>
    /\ p \in RecordedIn(i, d) => e = d
    /\ p \in i.PodsTerminating[d] => e = DomainOf(d)

PlaceInv == /\ \A i \in Infos : PlacedIn(i)
            /\ \A i, j \in Infos : Consistent(i, j)

-----------------------------------------------------------------------------
(* The streams of the pods, and what is written.                           *)

\* All pods are in one domain, or there is only one pod.
NoNeighbours ==
  \/ \A m, n \in NodeNames : DomainOf(m) = DomainOf(n)
  \/ \A p, q \in PodNames : p = q

\* A domain with pods has its streams; those of the main domain go once the
\* Network is to be deleted.
PodsReady(i) ==
  \A d \in Domains : i.Pods[d] # {} /\ (d = Main => Wanted)
    => NodeStreams \subseteq streams[d]

\* i is the stored info after some turns of the loop, for one domain: either
\* its new pods wait, or all are served and have their streams.
Waits(i, d) ==
  /\ i.PodsCreating[d] = info.PodsCreating[d]
  /\ i.Pods[d] \subseteq info.Pods[d]
  /\ \A p \in info.Pods[d] \ i.Pods[d] : Dead(p)

Served(i, d) ==
  /\ i.PodsCreating[d] = {}
  /\ i.Pods[d] \subseteq Recorded(network, d)
  /\ \A p \in Recorded(network, d) \ i.Pods[d] : Dead(p)
  /\ Wanted => NodeStreams \subseteq streams[d]

SettledFrom(i) == \A d \in Domains : Waits(i, d) \/ Served(i, d)

SamePodsAs(i) == i.Pods = info.Pods /\ i.PodsCreating = info.PodsCreating

\* What the pod controller would write: one more pod, or the end of one.
PodWrites(i) ==
  \/ ppc = "createWrite" /\ \E d \in Domains : i = PodCreating(info, d, key)
  \/ ppc \in {"removeFinalizers", "deleteWrite"} /\ SamePodsAs(i)

\* What a holder of the stored resourceVersion would write.
WriteOK(h) ==
  /\ h \in {Informer, Account} => copy[h].Participating = info
  /\ h = NetWorker => SettledFrom(copy[h].Participating)
  /\ h = PodWorker => PodWrites(copy[h].Participating)

ServedInv == /\ \A i \in Infos : PodsReady(i)
             /\ \A h \in current : network.exists => WriteOK(h)

-----------------------------------------------------------------------------
(* Which infos there are after a step.                                     *)

\* No info but the old ones and i.
InfosOldOr(i) == Infos' \subseteq Infos \cup {i}

InfosOld == InfosOldOr(NoParticipants)

\* Every info is one.
LEMMA InfosTyped == ApiTypeOK => Infos \subseteq ParticipatingSpec
  BY DEF ApiTypeOK, Infos, Network

\* The infos of the holders and of the Network are infos.
LEMMA InfosHas ==
  info \in Infos /\ \A h \in Holders : copy[h].Participating \in Infos
  BY DEF Infos, info

\* The info of each holder and of the Network is known.
LEMMA InfosStep ==
  ASSUME NEW i,
         network'.Participating \in Infos \cup {i},
         \A h \in Holders : copy'[h].Participating \in Infos \cup {i}
  PROVE  InfosOldOr(i)
  BY DEF Infos, InfosOldOr

\* No object has no pods.
LEMMA NoNetworkInfo == NoNetwork.Participating = NoParticipants
  BY DEF NoNetwork

\* What is stored has an info that was written, or none.
LEMMA StoredInfo ==
  ASSUME NEW o PROVE Stored(o).Participating \in {o.Participating, NoParticipants}
  BY NoNetworkInfo DEF Stored

\* The steps of the API server but for edited reads bring no new info.
LEMMA DropInfos ==
  ASSUME ApiTypeOK, NEW H \in SUBSET Holders, Drop(H) PROVE InfosOld
  BY InfosHas, InfosStep, NoNetworkInfo DEF Drop, Dropped, InfosOld, info

\* Nothing changes.
LEMMA UnchangedInfos ==
  ASSUME UNCHANGED apiVars PROVE InfosOld
  BY InfosHas, InfosStep DEF apiVars, InfosOld, info

\* One holder has a new object, with an old info or with i.
LEMMA CopyInfos ==
  ASSUME ApiTypeOK, NEW h \in Holders, NEW f, NEW i,
         f.Participating \in Infos \cup {i},
         copy' = [copy EXCEPT ![h] = f], UNCHANGED network
  PROVE  InfosOldOr(i)
<1>1. \A g \in Holders : copy'[g] \in {copy[g], f}
  BY DEF ApiTypeOK
<1> QED
  BY <1>1, InfosHas, InfosStep DEF info

\* An update writes the info of its writer.
LEMMA UpdateInfos ==
  ASSUME ApiTypeOK, NEW h \in Holders, NEW new,
         new.Participating = copy[h].Participating, Update(h, new)
  PROVE  InfosOld
<1>1. \A g \in Holders : copy'[g] \in {copy[g], new}
  BY DEF ApiTypeOK, Update
<1>2. network'.Participating \in {new.Participating, NoParticipants}
  BY StoredInfo DEF Update
<1> QED
  BY <1>1, <1>2, InfosHas, InfosStep DEF InfosOld

\* So does one after which the holders H are done.
LEMMA UpdateAndDropInfos ==
  ASSUME ApiTypeOK, NEW h \in Holders, NEW H \in SUBSET Holders, NEW new,
         new.Participating = copy[h].Participating, UpdateAndDrop(H, new)
  PROVE  InfosOld
<1>1. \A g \in Holders : copy'[g] \in {copy[g], NoNetwork}
  BY DEF ApiTypeOK, UpdateAndDrop, Dropped
<1>2. network'.Participating \in {new.Participating, NoParticipants}
  BY StoredInfo DEF UpdateAndDrop
<1> QED
  BY <1>1, <1>2, InfosHas, InfosStep, NoNetworkInfo DEF InfosOld

\* Only the loop of reconcileJetstreams makes a new info in the network
\* controller.
LEMMA NetInfos ==
  ASSUME TypeOK, NetNext, \A d \in Domains : ~NetNode(d) PROVE InfosOld
<1>0. /\ ApiTypeOK /\ obj \in Network /\ copy[Account] \in Network
      /\ copy[Informer] \in Network /\ network \in Network
  BY HoldersAre DEF TypeOK, ApiTypeOK, obj
<1>1. CASE UNCHANGED apiVars
  BY <1>1, UnchangedInfos
<1>2. CASE Drop({NetWorker, Account})
  BY <1>0, <1>2, HoldersAre, DropInfos
<1>3. CASE ReadCached(NetWorker)
  BY <1>0, <1>3, HoldersAre, InfosHas, CopyInfos DEF ReadCached, InfosOld
<1>4. CASE NetAddFinalizer
  <2> DEFINE new == [obj EXCEPT !.finalizers = @ \cup {NetworkFinalizer}]
  <2>1. new.Participating = copy[NetWorker].Participating
    BY <1>0 DEF Network, obj
  <2>2. Update(NetWorker, new) \/ Drop({NetWorker, Account})
    BY <1>4 DEF NetAddFinalizer, ReturnError
  <2> HIDE DEF new
  <2> QED
    BY <1>0, <1>2, <2>1, <2>2, HoldersAre, UpdateInfos
<1>5. CASE NetGetAccount
  <2> DEFINE new == [network EXCEPT !.UsedAccount = TRUE]
  <2>1. new.Participating = info
    BY <1>0 DEF Network, info
  <2>2. ReadInto(Account, new) \/ Drop({NetWorker, Account})
    BY <1>5 DEF NetGetAccount, ReturnError
  <2> HIDE DEF new
  <2> QED
    BY <1>0, <1>2, <2>1, <2>2, HoldersAre, InfosHas, CopyInfos DEF ReadInto, InfosOld
<1>6. CASE NetSetAccount \/ NetConfirmAccount
  BY <1>0, <1>2, <1>6, HoldersAre, UpdateInfos, UpdateAndDropInfos
  DEF NetSetAccount, NetConfirmAccount, ReturnError
<1>7. CASE NetCreateMain
  <2>1. CASE UNCHANGED copy
    BY <1>1, <1>7, <2>1 DEF NetCreateMain, apiVars
  <2>2. ASSUME NEW main, copy' = [copy EXCEPT ![NetWorker].MainDomain = main]
        PROVE  InfosOld
    <3> DEFINE new == [obj EXCEPT !.MainDomain = main]
    <3>1. new.Participating = copy[NetWorker].Participating
      BY <1>0 DEF Network, obj
    <3>2. copy' = [copy EXCEPT ![NetWorker] = new] /\ UNCHANGED network
      BY <1>7, <2>2 DEF obj, NetCreateMain
    <3> HIDE DEF new
    <3> QED
      BY <1>0, <3>1, <3>2, HoldersAre, InfosHas, CopyInfos DEF InfosOld
  <2> QED
    BY <1>7, <2>1, <2>2 DEF NetCreateMain
<1>8. CASE NetWriteMain \/ NetWriteNodes
  BY <1>0, <1>1, <1>2, <1>8, HoldersAre, UpdateInfos, UpdateAndDropInfos
  DEF NetWriteMain, NetWriteNodes, KeepOrDrop, obj
<1>9. CASE NetRemoveFinalizer
  <2> DEFINE new == [obj EXCEPT !.finalizers = @ \ {NetworkFinalizer}]
  <2>1. new.Participating = copy[NetWorker].Participating
    BY <1>0 DEF Network, obj
  <2>2. UpdateAndDrop({NetWorker, Account}, new) \/ Drop({NetWorker, Account})
    BY <1>9 DEF NetRemoveFinalizer, ReturnError
  <2> HIDE DEF new
  <2> QED
    BY <1>0, <1>2, <2>1, <2>2, HoldersAre, UpdateAndDropInfos
<1> QED
  BY <1>1, <1>2, <1>3, <1>4, <1>5, <1>6, <1>7, <1>8, <1>9
  DEF NetNext, NetGet, NetDesiredState, NetSecrets, NetJetstreams, KeepOrDrop,
      NetDeleteMain, NetDeleteNetwork, NetRemoveSecrets, ReturnError

\* Of the pod controller only a successful read does.
LEMMA PodInfos ==
  ASSUME TypeOK, PodNext,
         \A i \in ParticipatingSpec :
           ~ReadInto(PodWorker, [network EXCEPT !.Participating = i])
  PROVE  InfosOld \/ ~PodInv
<1> SUFFICES ASSUME PodInv PROVE InfosOld
  OBVIOUS
<1>0. ApiTypeOK /\ info \in ParticipatingSpec
  BY DEF TypeOK, ApiTypeOK, Network, info
<1>1. CASE UNCHANGED apiVars
  BY <1>1, UnchangedInfos
<1>2. CASE Drop({PodWorker})
  BY <1>0, <1>2, HoldersAre, DropInfos
<1>3. CASE PodCreateRead
  <2>1. CASE Present(pod[key])
    <3>1. key \in PodNames /\ DomainOf(pod[key].node) \in Domains
      BY <1>3, <2>1 DEF PodCreateRead, PodInv, KeysBound, Bound, DomainOf, Domains, Present
    <3>2. PodCreating(info, DomainOf(pod[key].node), key) \in ParticipatingSpec
      BY <1>0, <3>1, PodEditsTyped
    <3> QED
      BY <1>2, <1>3, <3>2 DEF PodCreateRead, PodRead, PodReturnError, info
  <2> QED
    BY <1>2, <1>3, <2>1 DEF PodCreateRead, PodRead, PodReturnError
<1>4. CASE PodDeleteRead
  <2>1. CASE Present(pod[key])
    <3>1. key \in PodNames /\ pod[key].node \in Domains
      BY <1>4, <2>1 DEF PodDeleteRead, PodInv, KeysBound, Bound, Domains
    <3>2. PodTerminating(info, pod[key].node, key) \in ParticipatingSpec
      BY <1>0, <3>1, PodEditsTyped
    <3> QED
      BY <1>2, <1>4, <3>2 DEF PodDeleteRead, PodRead, PodReturnError, info
  <2> QED
    BY <1>2, <1>4, <2>1 DEF PodDeleteRead, PodRead, PodReturnError
<1>5. CASE PodWrite
  BY <1>0, <1>2, <1>5, HoldersAre, UpdateAndDropInfos DEF PodWrite, PodReturnError
<1> QED
  BY <1>1, <1>2, <1>3, <1>4, <1>5
  DEF PodNext, PodGet, PodRemoveFinalizers, PodReturnError

-----------------------------------------------------------------------------
(* Pods stay where they are recorded.                                      *)

\* i names no pod in a place j does not.
Within(i, j) ==
  \A d \in Domains : /\ RecordedIn(i, d) \subseteq RecordedIn(j, d)
                     /\ i.PodsTerminating[d] \subseteq j.PodsTerminating[d]

\* i is in order and in accordance with all infos.
Fits(i) ==
  /\ PlacedIn(i) /\ Consistent(i, i)
  /\ \A j \in Infos : Consistent(i, j) /\ Consistent(j, i)

\* Nothing happens to the phase and the node of a pod.
SamePods ==
  \A p \in PodNames : pod'[p].phase = pod[p].phase /\ pod'[p].node = pod[p].node

\* An info within another fits.
LEMMA WithinFits ==
  ASSUME PlaceInv, NEW i, NEW j \in Infos, Within(i, j) PROVE Fits(i)
<1>1. PlacedIn(i)
  BY DEF PlaceInv, PlacedIn, Within
<1>2. ASSUME NEW k \in Infos PROVE Consistent(i, k) /\ Consistent(k, i)
  BY DEF PlaceInv, Consistent, Within
<1>3. Consistent(i, i)
  BY DEF PlaceInv, Consistent, Within
<1> QED
  BY <1>1, <1>2, <1>3 DEF Fits

\* An empty info fits.
LEMMA NobodyFits == PlaceInv => Fits(NoParticipants)
<1> SUFFICES ASSUME PlaceInv PROVE Fits(NoParticipants)
  OBVIOUS
<1>1. Within(NoParticipants, info)
  BY DEF Within, RecordedIn, NoParticipants
<1> QED
  BY <1>1, InfosHas, WithinFits

\* No step but a new info that does not fit could disturb PlaceInv.
LEMMA PlaceKept ==
  ASSUME PlaceInv, ApiTypeOK, NEW i \in ParticipatingSpec, Fits(i), InfosOldOr(i), SamePods
  PROVE  PlaceInv'
<1>1. ASSUME NEW j \in ParticipatingSpec, PlacedIn(j)
      PROVE  \A d \in Domains :
               /\ \A p \in RecordedIn(j, d) : Present(pod'[p]) =>
                    pod'[p].node \in NodeNames /\ d = DomainOf(pod'[p].node)
               /\ \A p \in j.PodsTerminating[d] :
                    d \in NodeNames /\ (Present(pod'[p]) => pod'[p].node = d)
               /\ RecordedIn(j, d) # {} => \E n \in NodeNames : d = DomainOf(n)
  BY <1>1 DEF PlacedIn, SamePods, Present, ParticipatingSpec, RecordedIn
<1>2. \A j \in Infos \cup {i} : j \in ParticipatingSpec /\ PlacedIn(j)
  BY InfosTyped DEF PlaceInv, Fits
<1>3. \A j \in Infos' : PlacedIn(j)'
  <2> SUFFICES ASSUME NEW j \in Infos' PROVE PlacedIn(j)'
    OBVIOUS
  <2>1. j \in ParticipatingSpec /\ PlacedIn(j)
    BY <1>2 DEF InfosOldOr
  <2> QED
    BY <1>1, <2>1 DEF PlacedIn, RecordedIn
<1>4. \A j, k \in Infos' : Consistent(j, k)
  BY DEF PlaceInv, Fits, InfosOldOr
<1> QED
  BY <1>3, <1>4 DEF PlaceInv, Consistent, RecordedIn

\* The turn of a node moves pods only within their domain.
LEMMA NodeTurnWithin ==
  ASSUME NEW o \in Network, NEW d \in Domains, NEW created \in BOOLEAN
  PROVE  Within(NodeTurn(o, d, created).Participating, o.Participating)
<1> DEFINE i == o.Participating
           t == NodeTurn(o, d, created).Participating
<1>1. i \in ParticipatingSpec
  BY DEF Network
<1>2. t \in {i, NodeActivated(i, d), CreatingMoved(i), NodeRemoved(i, d),
             TerminatedRemoved(i, d)}
  BY DEF NodeTurn, Network
<1>3. Within(NodeActivated(i, d), i)
  BY <1>1 DEF Within, RecordedIn, NodeActivated, ParticipatingSpec
<1>4. Within(CreatingMoved(i), i)
  BY <1>1 DEF Within, RecordedIn, CreatingMoved, ParticipatingSpec
<1>5. Within(NodeRemoved(i, d), i)
  BY <1>1 DEF Within, RecordedIn, NodeRemoved, ParticipatingSpec
<1>6. Within(TerminatedRemoved(i, d), i)
  BY <1>1 DEF Within, RecordedIn, TerminatedRemoved, ParticipatingSpec
<1>7. Within(i, i)
  BY DEF Within
<1> HIDE DEF t
<1> QED
  BY <1>2, <1>3, <1>4, <1>5, <1>6, <1>7 DEF t

\* A pod that is bound to a node may be recorded under the domain of the node.
LEMMA CreatingFits ==
  ASSUME PlaceInv, ApiTypeOK, NEW p \in PodNames, Present(pod[p]),
         pod[p].node \in NodeNames
  PROVE  Fits(PodCreating(info, DomainOf(pod[p].node), p))
<1> DEFINE c == DomainOf(pod[p].node)
           i == PodCreating(info, c, p)
<1>0. /\ info \in ParticipatingSpec /\ c \in Domains /\ info \in Infos
      /\ Infos \subseteq ParticipatingSpec
  BY InfosTyped, InfosHas DEF DomainOf, Domains
<1>1. \A d \in Domains :
        /\ i.PodsTerminating[d] = info.PodsTerminating[d]
        /\ RecordedIn(i, d) \subseteq RecordedIn(info, d) \cup {q \in {p} : d = c}
  BY <1>0 DEF PodCreating, ParticipatingSpec, RecordedIn
<1> HIDE DEF i
<1>2. PlacedIn(i)
  BY <1>0, <1>1 DEF PlaceInv, PlacedIn
<1>3. \A j \in Infos : \A d \in Domains :
        /\ p \in RecordedIn(j, d) => d = c
        /\ p \in j.PodsTerminating[d] => DomainOf(d) = c
  BY DEF PlaceInv, PlacedIn
<1>4. ASSUME NEW j \in Infos PROVE Consistent(i, j) /\ Consistent(j, i)
  <2>1. Consistent(info, j) /\ Consistent(j, info)
    BY <1>0 DEF PlaceInv
  <2> QED
    BY <1>1, <1>3, <2>1 DEF Consistent
<1>5. Consistent(i, i)
  <2>1. Consistent(info, info)
    BY <1>0 DEF PlaceInv
  <2> QED
    BY <1>0, <1>1, <1>3, <2>1 DEF Consistent
<1> QED
  BY <1>2, <1>4, <1>5 DEF Fits, i

\* It may be recorded as terminating under its node.
LEMMA TerminatingFits ==
  ASSUME PlaceInv, ApiTypeOK, NEW p \in PodNames, Present(pod[p]),
         pod[p].node \in NodeNames
  PROVE  Fits(PodTerminating(info, pod[p].node, p))
<1> DEFINE c == pod[p].node
           i == PodTerminating(info, c, p)
<1>0. /\ info \in ParticipatingSpec /\ c \in Domains /\ info \in Infos
      /\ Infos \subseteq ParticipatingSpec
  BY InfosTyped, InfosHas DEF DomainOf, Domains
<1>1. \A d \in Domains :
        /\ i.PodsTerminating[d] \subseteq info.PodsTerminating[d] \cup {q \in {p} : d = c}
        /\ RecordedIn(i, d) = RecordedIn(info, d)
  BY <1>0 DEF PodTerminating, ParticipatingSpec, RecordedIn
<1> HIDE DEF i
<1>2. PlacedIn(i)
  BY <1>0, <1>1 DEF PlaceInv, PlacedIn
<1>3. \A j \in Infos : \A d \in Domains : p \in RecordedIn(j, d) => d = DomainOf(c)
  BY DEF PlaceInv, PlacedIn
<1>4. ASSUME NEW j \in Infos PROVE Consistent(i, j) /\ Consistent(j, i)
  <2>1. Consistent(info, j) /\ Consistent(j, info)
    BY <1>0 DEF PlaceInv
  <2> QED
    BY <1>1, <1>3, <2>1 DEF Consistent
<1>5. Consistent(i, i)
  <2>1. Consistent(info, info)
    BY <1>0 DEF PlaceInv
  <2> QED
    BY <1>0, <1>1, <1>3, <2>1 DEF Consistent
<1> QED
  BY <1>2, <1>4, <1>5 DEF Fits, i

\* The life of the pods: a pod that is bound or gone was recorded nowhere, or
\* stays where it is.
LEMMA ClusterPlaces ==
  ASSUME IInv, PlaceInv, NEW p \in PodNames, ClusterStep(p) PROVE PlaceInv'
<1>0. UNCHANGED <<network, copy, current>> /\ ApiTypeOK
  BY DEF ClusterStep, apiVars, IInv, TypeOK
<1>1. Infos' = Infos /\ Infos \subseteq ParticipatingSpec
  BY <1>0, InfosTyped DEF Infos
<1>2. ASSUME NEW i \in Infos, NEW d \in Domains, NEW q \in RecordedIn(i, d)
      PROVE  /\ q \in PodNames /\ pod[q].phase # "absent"
             /\ Present(pod[q]) => pod[q].node \in NodeNames
  <2>1. InfoOK(i)
    BY DEF IInv, ApiInv, Infos
  <2> QED
    BY <1>1, <2>1 DEF InfoOK, RecordedIn, PlaceInv, PlacedIn, ParticipatingSpec
<1>3. ASSUME NEW i \in Infos, NEW d \in Domains, NEW q \in i.PodsTerminating[d]
      PROVE  /\ q \in PodNames /\ pod[q].phase # "absent"
             /\ Present(pod[q]) => pod[q].node \in NodeNames
  <2>1. InfoOK(i)
    BY DEF IInv, ApiInv, Infos
  <2> QED
    BY <1>1, <2>1 DEF InfoOK, PlaceInv, PlacedIn, ParticipatingSpec
<1>4. \A q \in PodNames :
        \/ pod[q].phase = "absent"
        \/ pod[q].node = None
        \/ pod'[q].phase = "gone"
        \/ (Present(pod'[q]) => Present(pod[q])) /\ pod'[q].node = pod[q].node
  BY DEF IInv, TypeOK, PodTypeOK, Pod, ClusterStep, CreatePod, SchedulePod,
         DeletePod, PodGone, WatchPod, PodStatus, GonePod, NoPod, Present
<1>5. ASSUME NEW i \in Infos PROVE PlacedIn(i)'
  <2>1. PlacedIn(i)
    BY DEF PlaceInv
  <2>2. \A d \in Domains :
          /\ \A q \in RecordedIn(i, d) : Present(pod'[q]) =>
               pod'[q].node \in NodeNames /\ d = DomainOf(pod'[q].node)
          /\ \A q \in i.PodsTerminating[d] :
               d \in NodeNames /\ (Present(pod'[q]) => pod'[q].node = d)
          /\ RecordedIn(i, d) # {} => \E n \in NodeNames : d = DomainOf(n)
    <3>1. ASSUME NEW q \in PodNames, pod[q].phase # "absent", Present(pod'[q]),
                 Present(pod[q]) => pod[q].node \in NodeNames
          PROVE  Present(pod[q]) /\ pod'[q].node = pod[q].node
      <4>1. Present(pod[q])
        BY <3>1 DEF IInv, TypeOK, PodTypeOK, Pod, ClusterStep, CreatePod, SchedulePod,
          DeletePod, PodGone, WatchPod, PodStatus, GonePod, NoPod, Present
      <4> QED
        BY <1>4, <3>1, <4>1, PodAssumption DEF Present
    <3> QED
      BY <1>2, <1>3, <2>1, <3>1 DEF PlacedIn
  <2> QED
    BY <2>2 DEF PlacedIn, RecordedIn
<1> QED
  BY <1>1, <1>5 DEF PlaceInv, Consistent, RecordedIn

\* A step that brings no new info and moves no pod.
LEMMA OldPlaces ==
  ASSUME PlaceInv, ApiTypeOK, InfosOld, SamePods PROVE PlaceInv'
<1>1. NoParticipants \in ParticipatingSpec
  BY DEF NoParticipants, ParticipatingSpec, NodeStates
<1> QED
  BY <1>1, NobodyFits, PlaceKept DEF InfosOld

\* The network controller moves pods only within their domain.
LEMMA NetPlaces ==
  ASSUME IInv, PlaceInv, NetworkStep PROVE PlaceInv'
<1>0. TypeOK /\ ApiTypeOK /\ SamePods /\ NetNext /\ obj \in Network
  BY HoldersAre DEF IInv, TypeOK, ApiTypeOK, NetworkStep, podVars, SamePods, obj
<1>1. CASE \A d \in Domains : ~NetNode(d)
  BY <1>0, <1>1, NetInfos, OldPlaces
<1>2. ASSUME NEW d \in Domains, NetNode(d) PROVE PlaceInv'
  <2>1. PICK created \in BOOLEAN :
          /\ copy' = [copy EXCEPT ![NetWorker] = NodeTurn(obj, d, created)]
          /\ UNCHANGED network
    BY <1>2 DEF NetNode
  <2> DEFINE new == NodeTurn(obj, d, created)
             i == new.Participating
  <2>2. Within(i, obj.Participating) /\ new \in Network
    BY <1>0, NodeTurnWithin, NodeTurnTyped
  <2>3. i \in ParticipatingSpec
    BY <2>2 DEF Network
  <2> HIDE DEF new
  <2>4. Fits(i)
    BY <2>2, InfosHas, HoldersAre, WithinFits DEF obj
  <2>5. InfosOldOr(i)
    BY <1>0, <2>1, HoldersAre, CopyInfos DEF new
  <2> QED
    BY <1>0, <2>3, <2>4, <2>5, PlaceKept
<1> QED
  BY <1>1, <1>2

\* The pod controller records a pod where it runs.
LEMMA PodPlaces ==
  ASSUME IInv, PlaceInv, PodStep PROVE PlaceInv'
<1>0. /\ TypeOK /\ ApiTypeOK /\ PodNext /\ PodInv /\ network \in Network
      /\ info \in ParticipatingSpec
  BY DEF IInv, TypeOK, ApiTypeOK, PodStep, PodInv, Network, info
<1>1. SamePods
  <2>1. pod' = pod \/ pod' = [pod EXCEPT ![key].finalizer = FALSE]
    BY <1>0 DEF PodNext, PodGet, PodCreateRead, PodDeleteRead, PodRead,
       PodRemoveFinalizers, PodWrite, PodReturnError
  <2>2. CASE pod' = [pod EXCEPT ![key].finalizer = FALSE]
    BY <1>0, <2>2 DEF SamePods, PodInv, PodTypeOK, Pod
  <2> QED
    BY <2>1, <2>2 DEF SamePods
<1>2. ASSUME NEW i \in ParticipatingSpec, Fits(i),
             ReadInto(PodWorker, [network EXCEPT !.Participating = i])
      PROVE  PlaceInv'
  <2> DEFINE new == [network EXCEPT !.Participating = i]
  <2>1. new.Participating = i
    BY <1>0 DEF Network
  <2>2. copy' = [copy EXCEPT ![PodWorker] = new] /\ UNCHANGED network
    BY <1>2 DEF ReadInto
  <2> HIDE DEF new
  <2>3. InfosOldOr(i)
    BY <1>0, <2>1, <2>2, HoldersAre, CopyInfos
  <2> QED
    BY <1>0, <1>1, <1>2, <2>3, PlaceKept
<1>3. CASE /\ PodCreateRead /\ Present(pod[key])
           /\ ReadInto(PodWorker, [network EXCEPT !.Participating =
                                     PodCreating(info, DomainOf(pod[key].node), key)])
  <2>1. /\ key \in PodNames /\ pod[key].node \in NodeNames
        /\ DomainOf(pod[key].node) \in Domains
    BY <1>0, <1>3 DEF PodCreateRead, PodInv, KeysBound, Bound, DomainOf, Domains, Present
  <2> DEFINE i == PodCreating(info, DomainOf(pod[key].node), key)
  <2>2. Fits(i) /\ i \in ParticipatingSpec
    BY <1>0, <1>3, <2>1, CreatingFits, PodEditsTyped
  <2> HIDE DEF i
  <2> QED
    BY <1>2, <1>3, <2>2 DEF i
<1>4. CASE /\ PodDeleteRead /\ Present(pod[key])
           /\ ReadInto(PodWorker, [network EXCEPT !.Participating =
                                     PodTerminating(info, pod[key].node, key)])
  <2>1. key \in PodNames /\ pod[key].node \in NodeNames /\ pod[key].node \in Domains
    BY <1>0, <1>4 DEF PodDeleteRead, PodInv, KeysBound, Bound, Domains
  <2> DEFINE i == PodTerminating(info, pod[key].node, key)
  <2>2. Fits(i) /\ i \in ParticipatingSpec
    BY <1>0, <1>4, <2>1, TerminatingFits, PodEditsTyped
  <2> HIDE DEF i
  <2> QED
    BY <1>2, <1>4, <2>2 DEF i
<1>5. CASE Drop({PodWorker}) \/ UNCHANGED apiVars
  BY <1>0, <1>1, <1>5, HoldersAre, DropInfos, UnchangedInfos, OldPlaces
<1>6. CASE PodWrite
  <2>1. CASE Drop({PodWorker})
    BY <1>5, <2>1
  <2>2. CASE UpdateAndDrop({PodWorker}, copy[PodWorker])
    BY <1>0, <1>1, <2>2, HoldersAre, UpdateAndDropInfos, OldPlaces
  <2> QED
    BY <1>6, <2>1, <2>2 DEF PodWrite, PodReturnError
<1> QED
  BY <1>0, <1>3, <1>4, <1>5, <1>6
  DEF PodNext, PodGet, PodCreateRead, PodDeleteRead, PodRead, PodRemoveFinalizers,
      PodReturnError, info

\* A new Network has no pods.
LEMMA InitPlaceInv == Init => PlaceInv
<1> SUFFICES ASSUME Init PROVE PlaceInv
  OBVIOUS
<1>1. NewNetwork.Participating = NoParticipants
  BY DEF NewNetwork, NoNetwork
<1>2. \A i \in Infos : i = NoParticipants
  BY <1>1, NoNetworkInfo DEF Init, ApiInit, Infos
<1> QED
  BY <1>2 DEF PlaceInv, PlacedIn, Consistent, RecordedIn, NoParticipants

\* Every step leaves the pods where they are recorded.
LEMMA NextPlaceInv ==
  ASSUME IInv, PlaceInv, [Next]_vars PROVE PlaceInv'
<1>0. ApiTypeOK /\ network \in Network
  BY DEF IInv, TypeOK, ApiTypeOK
<1>1. CASE WatchNetwork
  <2>1. InfosOld
    BY <1>0, <1>1, HoldersAre, InfosHas, CopyInfos DEF WatchNetwork, Watch, InfosOld, info
  <2> QED
    BY <1>0, <1>1, <2>1, OldPlaces DEF WatchNetwork, podVars, SamePods
<1>2. CASE DeleteNetwork
  <2> DEFINE new == [network EXCEPT !.deleting = TRUE]
  <2>1. new.Participating = info
    BY <1>0 DEF Network, info
  <2>2. network' = Stored(new) /\ copy' = copy
    BY <1>2 DEF DeleteNetwork, MarkDeleted
  <2> HIDE DEF new
  <2>3. InfosOld
    BY <2>1, <2>2, StoredInfo, InfosHas, InfosStep DEF InfosOld
  <2> QED
    BY <1>0, <1>2, <2>3, OldPlaces DEF DeleteNetwork, podVars, SamePods
<1>3. CASE Restart
  <2>1. InfosOld
    BY <1>3, NoNetworkInfo, InfosHas, InfosStep DEF InfosOld, Restart, info
  <2> QED
    BY <1>0, <1>3, <2>1, OldPlaces DEF Restart, SamePods
<1>4. CASE UNCHANGED vars
  BY <1>0, <1>4, UnchangedInfos, OldPlaces DEF vars, podVars, SamePods
<1> QED
  BY <1>1, <1>2, <1>3, <1>4, NetPlaces, PodPlaces, ClusterPlaces DEF Next

\* Where a pod is recorded never changes, in the Network and in every copy of
\* it: under the domain of the node it runs on, and as terminating under the
\* node itself, however old the pod was that the pod controller looked at.
THEOREM PlaceInvariance == Spec => []PlaceInv
<1>1. Init => PlaceInv
  BY InitPlaceInv
<1>2. IInv /\ PlaceInv /\ [Next]_vars => PlaceInv'
  BY NextPlaceInv
<1> QED
  BY <1>1, <1>2, Invariance, PTL DEF Spec

-----------------------------------------------------------------------------
(* What a step does to the Network and to the copies of its version.       *)

\* g had its info before this step, which wrote nothing, or has what is stored.
HeldAs(g) ==
  \/ g \in current /\ UNCHANGED network /\ copy'[g].Participating = copy[g].Participating
  \/ g # PodWorker /\ copy'[g].Participating = info'

\* h wrote the info it had.
WroteBy(h) ==
  /\ network.exists /\ h \in current
  /\ \E new \in Network :
       /\ new.exists /\ (new.deleting <=> network.deleting)
       /\ new.Participating = copy[h].Participating
       /\ network' = Stored(new)

CurrentHeld == network'.exists => \A g \in current' : HeldAs(g)

ApiStep ==
  /\ CurrentHeld
  /\ UNCHANGED network \/ \E h \in {NetWorker, Account, PodWorker} : WroteBy(h)

\* The Network and the copies as they are.
LEMMA UnchangedStep ==
  ASSUME UNCHANGED apiVars PROVE ApiStep /\ UNCHANGED network
  BY DEF ApiStep, CurrentHeld, HeldAs, apiVars

\* Reconcile returns.
LEMMA DropStep ==
  ASSUME ApiTypeOK, NEW H \in SUBSET Holders, Drop(H)
  PROVE  ApiStep /\ UNCHANGED network
  BY DEF ApiStep, CurrentHeld, HeldAs, Drop, Dropped, ApiTypeOK

\* A holder gets an object with the stored info, or edits only the rest of it.
LEMMA CopyStep ==
  ASSUME ApiTypeOK, NEW h \in Holders, NEW f, copy' = [copy EXCEPT ![h] = f],
         UNCHANGED network, current' \subseteq current \cup {h},
         h \in current' =>
           \/ h \in current /\ f.Participating = copy[h].Participating
           \/ h # PodWorker /\ f.Participating = info
  PROVE  ApiStep
<1>1. copy'[h] = f /\ \A g \in Holders \ {h} : copy'[g] = copy[g]
  BY DEF ApiTypeOK
<1>2. \A g \in current' : HeldAs(g)
  BY <1>1 DEF HeldAs, ApiTypeOK, info
<1> QED
  BY <1>2 DEF ApiStep, CurrentHeld

\* What is stored of an update that is not the last.
LEMMA StoredAs ==
  ASSUME NEW o, Stored(o).exists PROVE Stored(o) = o
  BY DEF Stored, NoNetwork

\* An update that is accepted.
LEMMA UpdateStep ==
  ASSUME ApiTypeOK, CopiesOK, NEW h \in {NetWorker, Account}, NEW new \in Network,
         Accepts(h, new), new.exists <=> copy[h].exists,
         new.deleting <=> copy[h].deleting,
         new.Participating = copy[h].Participating, Update(h, new)
  PROVE  ApiStep /\ WroteBy(h)
<1>0. h \in Holders /\ h # PodWorker
  BY HoldersAre DEF Account, PodWorker
<1>1. WroteBy(h)
  BY DEF WroteBy, Accepts, CopiesOK, Agrees, Update
<1>2. /\ copy'[h] = new /\ \A g \in Holders \ {h} : copy'[g] = copy[g]
      /\ network' = Stored(new)
      /\ current' = {h} \/ (new = network /\ current' = current)
  BY <1>0 DEF Update, ApiTypeOK
<1>3. network'.exists => network' = new
  BY <1>2, StoredAs
<1>4. CurrentHeld
  BY <1>0, <1>2, <1>3 DEF CurrentHeld, HeldAs, ApiTypeOK, info
<1> QED
  BY <1>1, <1>4 DEF ApiStep

\* An update that is accepted, after which the holders H are done.
LEMMA UpdateAndDropStep ==
  ASSUME ApiTypeOK, CopiesOK, NEW h \in {NetWorker, Account, PodWorker},
         NEW H \in SUBSET Holders, NEW new \in Network,
         Accepts(h, new), new.exists <=> copy[h].exists,
         new.deleting <=> copy[h].deleting,
         new.Participating = copy[h].Participating, UpdateAndDrop(H, new)
  PROVE  ApiStep /\ WroteBy(h)
<1>1. WroteBy(h)
  BY DEF WroteBy, Accepts, CopiesOK, Agrees, UpdateAndDrop
<1>2. /\ \A g \in Holders \ H : copy'[g] = copy[g]
      /\ network' = Stored(new)
      /\ current' = {} \/ (new = network /\ current' = current \ H)
  BY DEF UpdateAndDrop, Dropped, ApiTypeOK
<1>3. network'.exists => network' = new
  BY <1>2, StoredAs
<1>4. CurrentHeld
  BY <1>2, <1>3 DEF CurrentHeld, HeldAs, ApiTypeOK
<1> QED
  BY <1>1, <1>4 DEF ApiStep

\* The network controller outside of its loop: what it writes, as NetWorker or
\* as Account, is the info it read.
LEMMA NetSteps ==
  ASSUME TypeOK, XInv, ServedInv, NetNext, \A d \in Domains : ~NetNode(d)
  PROVE  ApiStep /\ (UNCHANGED network \/ WroteBy(NetWorker) \/ WroteBy(Account))
<1>0. /\ ApiTypeOK /\ obj \in Network /\ copy[Account] \in Network
      /\ copy[Informer] \in Network /\ network \in Network /\ CopiesOK
      /\ NetWorker # PodWorker /\ Account # PodWorker
  BY HoldersAre DEF TypeOK, ApiTypeOK, obj, XInv, Account, PodWorker
<1>1. CASE UNCHANGED apiVars
  BY <1>1, UnchangedStep
<1>2. CASE Drop({NetWorker, Account})
  BY <1>0, <1>2, HoldersAre, DropStep
<1>3. CASE ReadCached(NetWorker)
  <2>1. network.exists /\ Informer \in current => copy[Informer].Participating = info
    BY DEF ServedInv, WriteOK
  <2>2. CASE network.exists
    BY <1>0, <1>3, <2>1, <2>2, HoldersAre, CopyStep DEF ReadCached
  <2>3. CASE ~network.exists
    BY <1>3, <2>3 DEF ReadCached, ApiStep, CurrentHeld
  <2> QED
    BY <1>3, <2>2, <2>3 DEF ReadCached
<1>4. CASE NetAddFinalizer
  <2> DEFINE new == [obj EXCEPT !.finalizers = @ \cup {NetworkFinalizer}]
  <2>1. /\ new \in Network /\ new.Participating = copy[NetWorker].Participating
        /\ new.exists = copy[NetWorker].exists /\ new.deleting = copy[NetWorker].deleting
    BY <1>0 DEF Network, obj, Finalizers
  <2>2. (Accepts(NetWorker, new) /\ Update(NetWorker, new)) \/ Drop({NetWorker, Account})
    BY <1>4 DEF NetAddFinalizer, ReturnError
  <2> HIDE DEF new
  <2> QED
    BY <1>0, <1>2, <2>1, <2>2, UpdateStep
<1>5. CASE NetGetAccount
  <2> DEFINE new == [network EXCEPT !.UsedAccount = TRUE]
  <2>1. new.Participating = info
    BY <1>0 DEF Network, info
  <2>2. ReadInto(Account, new) \/ Drop({NetWorker, Account})
    BY <1>5 DEF NetGetAccount, ReturnError
  <2> HIDE DEF new
  <2> QED
    BY <1>0, <1>2, <2>1, <2>2, HoldersAre, CopyStep DEF ReadInto
<1>6. CASE NetSetAccount \/ NetConfirmAccount
  BY <1>0, <1>2, <1>6, HoldersAre, UpdateStep, UpdateAndDropStep
  DEF NetSetAccount, NetConfirmAccount, ReturnError
<1>7. CASE NetCreateMain
  <2>1. CASE UNCHANGED copy
    BY <1>1, <1>7, <2>1 DEF NetCreateMain, apiVars
  <2>2. ASSUME NEW main, copy' = [copy EXCEPT ![NetWorker].MainDomain = main]
        PROVE  ApiStep /\ UNCHANGED network
    <3> DEFINE new == [obj EXCEPT !.MainDomain = main]
    <3>1. new.Participating = copy[NetWorker].Participating
      BY <1>0 DEF Network, obj
    <3>2. copy' = [copy EXCEPT ![NetWorker] = new] /\ UNCHANGED <<network, current>>
      BY <1>7, <2>2 DEF obj, NetCreateMain
    <3> HIDE DEF new
    <3> QED
      BY <1>0, <3>1, <3>2, HoldersAre, CopyStep
  <2> QED
    BY <1>7, <2>1, <2>2 DEF NetCreateMain
<1>8. CASE NetWriteMain \/ NetWriteNodes
  BY <1>0, <1>1, <1>2, <1>8, HoldersAre, UpdateStep, UpdateAndDropStep
  DEF NetWriteMain, NetWriteNodes, KeepOrDrop, obj
<1>9. CASE NetRemoveFinalizer
  <2> DEFINE new == [obj EXCEPT !.finalizers = @ \ {NetworkFinalizer}]
  <2>1. /\ new \in Network /\ new.Participating = copy[NetWorker].Participating
        /\ new.exists = copy[NetWorker].exists /\ new.deleting = copy[NetWorker].deleting
    BY <1>0 DEF Network, obj
  <2>2. \/ Accepts(NetWorker, new) /\ UpdateAndDrop({NetWorker, Account}, new)
        \/ Drop({NetWorker, Account})
    BY <1>9 DEF NetRemoveFinalizer, ReturnError
  <2> HIDE DEF new
  <2> QED
    BY <1>0, <1>2, <2>1, <2>2, HoldersAre, UpdateAndDropStep
<1> QED
  BY <1>1, <1>2, <1>3, <1>4, <1>5, <1>6, <1>7, <1>8, <1>9
  DEF NetNext, NetGet, NetDesiredState, NetSecrets, NetJetstreams, KeepOrDrop,
      NetDeleteMain, NetDeleteNetwork, NetRemoveSecrets, ReturnError

\* A write does not undo a deletion.
LEMMA WroteForward ==
  ASSUME NEW h, UNCHANGED network \/ WroteBy(h) PROVE Forward
<1>1. CASE WroteBy(h)
  BY <1>1, StoredAs DEF WroteBy, Forward, Wanted
<1> QED
  BY <1>1 DEF Forward, Wanted

\* The network controller takes streams away only in the main domain, of a
\* Network that is to be deleted, and does nothing to them once it is gone.
LEMMA NetStreams ==
  ASSUME TypeOK, XInv, NetNext
  PROVE  /\ StreamsKept
         /\ UNCHANGED streams \/ (network.exists /\ UNCHANGED network)
<1>0. /\ streams \in [Domains -> SUBSET (NodeStreams \cup {Standard})] /\ Main \in Domains
      /\ Connects => network.exists
  BY DEF TypeOK, NetTypeOK, Domains, Connects, XInv, SetupIsHeld, NoSetup
<1>1. CASE NetCreateMain
  <2>1. network.exists /\ UNCHANGED network
    BY <1>1 DEF NetCreateMain, XInv, RoundOK, CreateSteps, Held
  <2>2. \A std \in StandardOutcomes : streams[Main] \subseteq std.streams
    BY DEF StandardOutcomes
  <2>3. \A d \in Domains : streams[d] \subseteq streams'[d]
    BY <1>0, <1>1, <2>2 DEF NetCreateMain
  <2> QED
    BY <2>1, <2>3 DEF StreamsKept
<1>2. ASSUME NEW d \in Domains, NetNode(d)
      PROVE  /\ StreamsKept
             /\ UNCHANGED streams \/ (network.exists /\ UNCHANGED network)
  <2>1. PICK made \in SUBSET NodeStreams :
          /\ made # {} => Connects
          /\ streams' = [streams EXCEPT ![d] = @ \cup made]
    BY <1>2 DEF NetNode
  <2>2. StreamsKept
    BY <1>0, <2>1 DEF StreamsKept
  <2>3. made = {} => UNCHANGED streams
    BY <1>0, <2>1
  <2> QED
    BY <1>0, <1>2, <2>1, <2>2, <2>3 DEF NetNode
<1>3. CASE NetDeleteMain
  <2>1. ~Wanted
    BY <1>3, HoldersAre DEF NetDeleteMain, XInv, RoundOK, DeleteSteps, CopiesOK, CopyOK, obj
  <2>2. \A d \in Domains : d # Main => streams'[d] = streams[d]
    BY <1>0, <1>3 DEF NetDeleteMain
  <2>3. StreamsKept
    BY <2>1, <2>2 DEF StreamsKept
  <2> QED
    BY <1>0, <1>3, <2>3 DEF NetDeleteMain, apiVars
<1>4. CASE UNCHANGED streams
  BY <1>4 DEF StreamsKept
<1> QED
  BY <1>1, <1>2, <1>3, <1>4
  DEF NetNext, NetGet, NetAddFinalizer, NetDesiredState, NetGetAccount, NetSetAccount,
      NetSecrets, NetConfirmAccount, NetWriteMain, NetJetstreams, NetWriteNodes,
      NetDeleteNetwork, NetRemoveSecrets, NetRemoveFinalizer, externalVars

-----------------------------------------------------------------------------
(* Pods have their streams, and what would be written.                     *)

\* What is true of an info stays true.
LEMMA ReadyStable ==
  ASSUME StreamsKept, Forward, NEW i, PodsReady(i) PROVE PodsReady(i)'
  BY DEF PodsReady, StreamsKept, Forward

\* No info but one that is in order is new.
LEMMA ReadyKept ==
  ASSUME ServedInv, StreamsKept, Forward, NEW i, PodsReady(i)', InfosOldOr(i)
  PROVE  \A j \in Infos' : PodsReady(j)'
  BY ReadyStable DEF ServedInv, InfosOldOr

\* An empty info is in order.
LEMMA NobodyReady == PodsReady(NoParticipants)'
  BY DEF PodsReady, NoParticipants

\* A domain stays as it was, or becomes served, as long as nothing is written.
LEMMA SettledStable ==
  ASSUME ApiTypeOK, UNCHANGED network, StreamsKept, PhasesAdvance,
         NEW i \in ParticipatingSpec, SettledFrom(i)
  PROVE  SettledFrom(i)'
<1>1. /\ info' = info /\ info \in ParticipatingSpec
      /\ \A d \in Domains : Recorded(network, d) \subseteq PodNames
      /\ \A d \in Domains : Recorded(network, d)' = Recorded(network, d)
      /\ (Wanted' <=> Wanted)
      /\ \A p \in PodNames : Dead(p) => Dead(p)'
  BY DEF info, ApiTypeOK, Network, ParticipatingSpec, Recorded, Wanted, PhasesAdvance, Dead
<1>2. ASSUME NEW d \in Domains, Waits(i, d) PROVE Waits(i, d)'
  BY <1>1, <1>2 DEF Waits, ParticipatingSpec
<1>3. ASSUME NEW d \in Domains, Served(i, d) PROVE Served(i, d)'
  BY <1>1, <1>3 DEF Served, StreamsKept
<1> QED
  BY <1>2, <1>3 DEF SettledFrom

\* What is stored is settled.
LEMMA StoredSettled ==
  SettledFrom(info) /\ SettledFrom(info)'
  BY DEF SettledFrom, Waits

\* A holder that keeps or gets its info as HeldAs says would write the right
\* thing, as long as the pod controller does not move on.
LEMMA HeldWrites ==
  ASSUME ApiTypeOK, ServedInv, StreamsKept, PhasesAdvance, NEW h \in Holders,
         HeldAs(h), h = PodWorker => UNCHANGED <<ppc, key>>, network'.exists
  PROVE  WriteOK(h)'
<1>0. copy[h].Participating \in ParticipatingSpec
  BY DEF ApiTypeOK, Network
<1>1. CASE /\ h \in current /\ UNCHANGED network
           /\ copy'[h].Participating = copy[h].Participating
  <2>0. WriteOK(h) /\ info' = info
    BY <1>1 DEF ServedInv, info
  <2>1. h \in {Informer, Account} => copy'[h].Participating = info'
    BY <1>1, <2>0 DEF WriteOK
  <2>2. h = NetWorker => SettledFrom(copy[h].Participating)'
    <3>1. ASSUME NEW i \in ParticipatingSpec, i = copy[h].Participating, h = NetWorker
          PROVE  SettledFrom(i)'
      BY <1>1, <2>0, <3>1, SettledStable DEF WriteOK
    <3>2. h = NetWorker => \A i \in {copy[h].Participating} : SettledFrom(i)'
      BY <1>0, <3>1
    <3> QED
      BY <1>1, <3>2 DEF SettledFrom, Waits, Served
  <2>3. h = PodWorker => PodWrites(copy[h].Participating)'
    BY <1>1, <2>0 DEF WriteOK, PodWrites, SamePodsAs
  <2> QED
    BY <2>1, <2>2, <2>3 DEF WriteOK
<1>2. CASE h # PodWorker /\ copy'[h].Participating = info'
  BY <1>2, StoredSettled DEF WriteOK, SettledFrom, Waits
<1> QED
  BY <1>1, <1>2 DEF HeldAs

\* Without neighbours all pods of an info are in one domain.
LEMMA OneDomain ==
  ASSUME NoNeighbours, ApiTypeOK, PlaceInv, NEW i \in Infos, NEW d \in Domains, NEW e \in Domains,
         RecordedIn(i, d) # {}, RecordedIn(i, e) # {}
  PROVE  d = e
<1>1. PlacedIn(i) /\ Consistent(i, i) /\ i \in ParticipatingSpec
  BY InfosTyped DEF PlaceInv
<1>2. CASE \A m, n \in NodeNames : DomainOf(m) = DomainOf(n)
  BY <1>1, <1>2 DEF PlacedIn
<1>3. CASE \A p, q \in PodNames : p = q
  <2>1. PICK p \in PodNames : p \in RecordedIn(i, d)
    BY <1>1 DEF ParticipatingSpec, RecordedIn
  <2>2. PICK q \in PodNames : q \in RecordedIn(i, e)
    BY <1>1 DEF ParticipatingSpec, RecordedIn
  <2> QED
    BY <1>1, <1>3, <2>1, <2>2 DEF Consistent
<1> QED
  BY <1>2, <1>3 DEF NoNeighbours

\* What the turn of a node makes of the pods of each domain: all that wait are
\* moved, if the streams of the domain are there, or terminating ones go.
TurnOf(i, t, e, created) ==
  \/ t.Pods[e] = i.Pods[e] /\ t.PodsCreating[e] = i.PodsCreating[e]
  \/ /\ i.PodsCreating[e] # {}
     /\ i.Pods[e] # {} \/ created
     /\ t.Pods[e] = i.Pods[e] \cup i.PodsCreating[e]
     /\ t.PodsCreating[e] = {}
  \/ /\ t.PodsCreating[e] = i.PodsCreating[e]
     /\ i.PodsCreating[e] = {}
     /\ t.Pods[e] \subseteq i.Pods[e]
     /\ i.Pods[e] \ t.Pods[e] \subseteq i.PodsTerminating[e]

\* Only in the domain of the turn streams are created.
LEMMA NodeTurnOf ==
  ASSUME NoNeighbours, ApiTypeOK, PlaceInv, NEW o \in Network, o.Participating \in Infos,
         NEW d \in Domains, NEW created \in BOOLEAN
  PROVE  \A e \in Domains :
           TurnOf(o.Participating, NodeTurn(o, d, created).Participating, e, created /\ e = d)
<1> DEFINE i == o.Participating
           t == NodeTurn(o, d, created).Participating
<1>1. i \in ParticipatingSpec /\ i \in Infos
  BY DEF Network
<1>2. \/ t = i
      \/ t = NodeActivated(i, d) /\ created /\ i.PodsCreating[d] # {}
      \/ t = CreatingMoved(i) /\ i.Pods[d] # {} /\ i.PodsCreating[d] # {}
      \/ t = NodeRemoved(i, d) /\ i.PodsCreating[d] = {} /\ i.PodsTerminating[d] = i.Pods[d]
      \/ t = TerminatedRemoved(i, d) /\ i.PodsCreating[d] = {}
  BY <1>1 DEF NodeTurn, Network, networkNodeState
<1> SUFFICES ASSUME NEW e \in Domains PROVE TurnOf(i, t, e, created /\ e = d)
  OBVIOUS
<1> HIDE DEF t, i
<1>3. CASE t = NodeActivated(i, d) /\ created /\ i.PodsCreating[d] # {}
  BY <1>1, <1>3 DEF TurnOf, NodeActivated, ParticipatingSpec
<1>4. CASE t = CreatingMoved(i) /\ i.Pods[d] # {} /\ i.PodsCreating[d] # {}
  <2>1. e # d => i.Pods[e] = {} /\ i.PodsCreating[e] = {}
    <3>1. e # d => RecordedIn(i, e) = {}
      BY <1>1, <1>4, OneDomain DEF RecordedIn
    <3> QED
      BY <3>1 DEF RecordedIn
  <2> QED
    BY <1>1, <1>4, <2>1 DEF TurnOf, CreatingMoved, ParticipatingSpec
<1>5. CASE /\ t = NodeRemoved(i, d) /\ i.PodsCreating[d] = {}
           /\ i.PodsTerminating[d] = i.Pods[d]
  BY <1>1, <1>5 DEF TurnOf, NodeRemoved, ParticipatingSpec
<1>6. CASE t = TerminatedRemoved(i, d) /\ i.PodsCreating[d] = {}
  BY <1>1, <1>6 DEF TurnOf, TerminatedRemoved, ParticipatingSpec
<1> QED
  BY <1>2, <1>3, <1>4, <1>5, <1>6 DEF TurnOf

\* A turn leaves a settled info that has its streams.
LEMMA TurnSettles ==
  ASSUME NEW i \in ParticipatingSpec, NEW t \in ParticipatingSpec, NEW d \in Domains,
         NEW created \in BOOLEAN,
         \A e \in Domains : TurnOf(i, t, e, created /\ e = d),
         created => NodeStreams \subseteq streams'[d],
         InfoOK(i)', PodsReady(i)'
  PROVE  PodsReady(t)' /\ (SettledFrom(i)' => SettledFrom(t)')
<1>1. \A e \in Domains : \A p \in i.PodsTerminating[e] : Dead(p)'
  BY DEF InfoOK, Dead
<1>2. PodsReady(t)'
  BY DEF TurnOf, PodsReady
<1>3. ASSUME SettledFrom(i)', NEW e \in Domains PROVE Waits(t, e)' \/ Served(t, e)'
  <2>1. CASE t.Pods[e] = i.Pods[e] /\ t.PodsCreating[e] = i.PodsCreating[e]
    BY <1>3, <2>1 DEF SettledFrom, Waits, Served
  <2>2. CASE /\ i.PodsCreating[e] # {}
             /\ i.Pods[e] # {} \/ (created /\ e = d)
             /\ t.Pods[e] = i.Pods[e] \cup i.PodsCreating[e]
             /\ t.PodsCreating[e] = {}
    <3>1. Waits(i, e)'
      BY <1>3, <2>2 DEF SettledFrom, Served
    <3>2. Wanted' => NodeStreams \subseteq streams'[e]
      BY <2>2 DEF PodsReady
    <3> QED
      BY <2>2, <3>1, <3>2 DEF Waits, Served, Recorded, info
  <2>3. CASE /\ t.PodsCreating[e] = i.PodsCreating[e]
             /\ i.PodsCreating[e] = {}
             /\ t.Pods[e] \subseteq i.Pods[e]
             /\ i.Pods[e] \ t.Pods[e] \subseteq i.PodsTerminating[e]
    <3>1. CASE Waits(i, e)'
      BY <1>1, <2>3, <3>1 DEF Waits
    <3>2. CASE Served(i, e)'
      BY <1>1, <2>3, <3>2 DEF Served
    <3> QED
      BY <1>3, <3>1, <3>2 DEF SettledFrom
  <2> QED
    BY <2>1, <2>2, <2>3 DEF TurnOf
<1> QED
  BY <1>2, <1>3 DEF SettledFrom

\* An iteration of the loop.
LEMMA NetNodeServed ==
  ASSUME NoNeighbours, IInv, XInv, PlaceInv, ServedInv, NEW d \in Domains, NetNode(d),
         UNCHANGED podVars
  PROVE  ServedInv'
<1>0. /\ ApiTypeOK /\ obj \in Network /\ TypeOK /\ UNCHANGED <<network, current, pod, ppc, key>>
      /\ obj.Participating \in ParticipatingSpec /\ obj.Participating \in Infos
      /\ NetNext /\ InfoOK(obj.Participating)
  BY HoldersAre, InfosHas
  DEF IInv, TypeOK, ApiTypeOK, ApiInv, obj, NetNode, podVars, Network, NetNext
<1>1. StreamsKept /\ Forward /\ PhasesAdvance
  BY <1>0, NetStreams DEF Forward, Wanted, PhasesAdvance
<1>2. PICK created \in BOOLEAN :
        /\ copy' = [copy EXCEPT ![NetWorker] = NodeTurn(obj, d, created)]
        /\ created => NodeStreams \subseteq streams'[d]
  <2>1. PICK created \in BOOLEAN, made \in SUBSET NodeStreams :
          /\ created => made = NodeStreams
          /\ streams' = [streams EXCEPT ![d] = @ \cup made]
          /\ copy' = [copy EXCEPT ![NetWorker] = NodeTurn(obj, d, created)]
    BY DEF NetNode
  <2>2. created => NodeStreams \subseteq streams'[d]
    BY <1>0, <2>1 DEF TypeOK, NetTypeOK
  <2> QED
    BY <2>1, <2>2
<1>3. ASSUME NEW i \in ParticipatingSpec, i = obj.Participating,
             NEW t \in ParticipatingSpec, t = NodeTurn(obj, d, created).Participating
      PROVE  PodsReady(t)' /\ (SettledFrom(i) => SettledFrom(t)')
  <2>1. \A e \in Domains : TurnOf(i, t, e, created /\ e = d)
    BY <1>0, <1>3, NodeTurnOf
  <2>2. PodsReady(i)'
    BY <1>0, <1>1, <1>3, ReadyStable DEF ServedInv
  <2>3. InfoOK(i)'
    BY <1>0, <1>3 DEF InfoOK
  <2>4. SettledFrom(i) => SettledFrom(i)'
    BY <1>0, <1>1, SettledStable
  <2> QED
    BY <1>2, <2>1, <2>2, <2>3, <2>4, TurnSettles
<1>4. PICK t \in ParticipatingSpec : t = NodeTurn(obj, d, created).Participating
  BY <1>0, NodeTurnTyped DEF Network
<1>5. PodsReady(t)' /\ (SettledFrom(obj.Participating) => SettledFrom(t)')
  BY <1>0, <1>3, <1>4
<1>6. InfosOldOr(t)
  <2> DEFINE f == NodeTurn(obj, d, created)
  <2>1. f.Participating = t /\ copy' = [copy EXCEPT ![NetWorker] = f]
    BY <1>2, <1>4
  <2> HIDE DEF f
  <2> QED
    BY <1>0, <2>1, HoldersAre, CopyInfos
<1>7. \A j \in Infos' : PodsReady(j)'
  BY <1>1, <1>5, <1>6, ReadyKept
<1>8. ASSUME NEW h \in current', network'.exists PROVE WriteOK(h)'
  <2>1. h \in Holders /\ network.exists /\ h \in current
    BY <1>0, <1>8 DEF ApiTypeOK
  <2>2. CASE h = NetWorker
    <3>1. SettledFrom(t)'
      BY <1>5, <2>1, <2>2 DEF ServedInv, WriteOK, obj
    <3>2. copy'[h].Participating = t
      BY <1>0, <1>2, <1>4, <2>1, <2>2 DEF ApiTypeOK
    <3> QED
      BY <2>2, <3>1, <3>2, HoldersAre DEF WriteOK, SettledFrom, Waits, Served
  <2>3. CASE h # NetWorker
    <3>1. copy'[h] = copy[h]
      BY <1>0, <1>2, <2>1, <2>3 DEF ApiTypeOK
    <3> QED
      BY <1>0, <2>1, <2>3, <3>1 DEF WriteOK, ServedInv, PodWrites, SamePodsAs, info
  <2> QED
    BY <2>2, <2>3
<1> QED
  BY <1>7, <1>8 DEF ServedInv

\* The steps that HeldWrites is for.
LEMMA HeldServed ==
  ASSUME TypeOK, ServedInv, CurrentHeld, InfosOld, StreamsKept, Forward, PhasesAdvance,
         UNCHANGED <<ppc, key>>, current' \subseteq Holders
  PROVE  ServedInv'
<1>1. \A j \in Infos' : PodsReady(j)'
  BY NobodyReady, ReadyKept DEF InfosOld
<1>2. ASSUME NEW h \in current', network'.exists PROVE WriteOK(h)'
  BY <1>2, HeldWrites DEF CurrentHeld, TypeOK
<1> QED
  BY <1>1, <1>2 DEF ServedInv

\* Pods only move on.
LEMMA PodsAdvance ==
  ASSUME PodInv, PodNext PROVE PhasesAdvance
<1>1. pod' = pod \/ pod' = [pod EXCEPT ![key].finalizer = FALSE]
  BY DEF PodNext, PodGet, PodCreateRead, PodDeleteRead, PodRead,
     PodRemoveFinalizers, PodWrite, PodReturnError
<1>2. CASE pod' = [pod EXCEPT ![key].finalizer = FALSE]
  BY <1>2 DEF PhasesAdvance, PodInv, PodTypeOK, Pod
<1> QED
  BY <1>1, <1>2 DEF PhasesAdvance

\* Every read of the pod controller leaves the pods of a domain that have their
\* streams alone.
LEMMA PodEditsReady ==
  ASSUME NEW i \in ParticipatingSpec, NEW d \in Domains, NEW p \in PodNames
  PROVE  /\ PodCreating(i, d, p).Pods = i.Pods
         /\ PodTerminating(i, d, p).Pods = i.Pods
         /\ PodTerminating(i, d, p).PodsCreating = i.PodsCreating
  BY DEF PodCreating, PodTerminating, ParticipatingSpec

\* The steps of the pod controller.
LEMMA PodStepServed ==
  ASSUME IInv, XInv, ServedInv, PodStep PROVE ServedInv'
<1>0. /\ TypeOK /\ ApiTypeOK /\ PodInv /\ CopiesOK /\ PodNext
      /\ network \in Network /\ copy[PodWorker] \in Network /\ info \in ParticipatingSpec
  BY HoldersAre DEF IInv, TypeOK, ApiTypeOK, PodInv, XInv, PodStep, Network, info
<1>1. StreamsKept /\ PhasesAdvance /\ current' \subseteq Holders
  <2>1. StreamsKept
    BY DEF PodStep, netVars, externalVars, StreamsKept
  <2>2. IInv'
    BY NextIInv DEF Next
  <2> QED
    BY <1>0, <2>1, <2>2, PodsAdvance DEF IInv, TypeOK, ApiTypeOK
<1>2. network.exists /\ PodWorker \in current =>
        ppc \in {"createWrite", "removeFinalizers", "deleteWrite"}
  BY DEF ServedInv, WriteOK, PodWrites
\* All but PodWorker hold what they held.
<1>3. ASSUME ApiStep, InfosOld, network'.exists /\ PodWorker \in current' => WriteOK(PodWorker)'
      PROVE  ServedInv'
  <2>1. Forward
    BY <1>3, WroteForward DEF ApiStep
  <2>2. \A j \in Infos' : PodsReady(j)'
    BY <1>1, <1>3, <2>1, NobodyReady, ReadyKept DEF InfosOld
  <2>3. ASSUME NEW h \in current', network'.exists PROVE WriteOK(h)'
    BY <1>0, <1>1, <1>3, <2>3, HeldWrites DEF ApiStep, CurrentHeld
  <2> QED
    BY <2>2, <2>3 DEF ServedInv
<1>4. CASE Drop({PodWorker})
  <2>1. PodWorker \notin current'
    BY <1>4 DEF Drop
  <2> QED
    BY <1>0, <1>3, <1>4, <2>1, HoldersAre, DropStep, DropInfos
<1>5. ASSUME NEW p \in PodNames, PodGet(p) PROVE ServedInv'
  <2>1. UNCHANGED <<network, current>>
    BY <1>5 DEF PodGet, apiVars
  <2>2. ~(network'.exists /\ PodWorker \in current')
    BY <1>2, <1>5, <2>1 DEF PodGet
  <2> QED
    BY <1>3, <1>5, <2>2, UnchangedStep, UnchangedInfos DEF PodGet
<1>6. ASSUME NEW i \in ParticipatingSpec, i.Pods = info.Pods, ppc \in {"createRead", "deleteRead"},
             ReadInto(PodWorker, [network EXCEPT !.Participating = i]),
             \/ ppc' = "createWrite" /\ \E d \in Domains : i = PodCreating(info, d, key')
             \/ ppc' = "removeFinalizers" /\ SamePodsAs(i)
      PROVE  ServedInv'
  <2> DEFINE new == [network EXCEPT !.Participating = i]
  <2>1. new.Participating = i
    BY <1>0 DEF Network
  <2>2. /\ copy' = [copy EXCEPT ![PodWorker] = new] /\ UNCHANGED network
        /\ current' = current \cup {PodWorker}
    BY <1>6 DEF ReadInto
  <2> HIDE DEF new
  <2>3. InfosOldOr(i)
    BY <1>0, <2>1, <2>2, HoldersAre, CopyInfos
  <2>4. Forward /\ info' = info
    BY <2>2 DEF Forward, Wanted, info
  <2>5. PodsReady(i)'
    <3>1. PodsReady(i)
      BY <1>6, InfosHas DEF ServedInv, PodsReady
    <3> QED
      BY <1>1, <2>4, <3>1, ReadyStable
  <2>6. \A j \in Infos' : PodsReady(j)'
    BY <1>1, <2>3, <2>4, <2>5, ReadyKept
  <2>7. /\ copy'[PodWorker].Participating = i
        /\ \A g \in Holders \ {PodWorker} : copy'[g] = copy[g]
    BY <1>0, <2>1, <2>2, HoldersAre DEF ApiTypeOK
  <2>8. ASSUME NEW h \in current', network'.exists PROVE WriteOK(h)'
    <3>1. CASE h = PodWorker
      BY <1>6, <2>4, <2>7, <3>1, HoldersAre
      DEF WriteOK, PodWrites, SamePodsAs, Account, PodWorker, Informer
    <3>2. CASE h # PodWorker
      BY <1>0, <1>1, <2>2, <2>7, <2>8, <3>2, HeldWrites DEF HeldAs, ApiTypeOK
    <3> QED
      BY <3>1, <3>2
  <2> QED
    BY <2>6, <2>8 DEF ServedInv
<1>7. CASE PodCreateRead
  <2> DEFINE d == DomainOf(pod[key].node)
             i == PodCreating(info, d, key)
  <2>1. CASE /\ Present(pod[key]) /\ ppc' = "createWrite" /\ UNCHANGED key
             /\ ReadInto(PodWorker, [network EXCEPT !.Participating = i])
    <3>1. key \in PodNames /\ d \in Domains
      BY <1>0, <1>7, <2>1 DEF PodCreateRead, PodInv, KeysBound, Bound, DomainOf, Domains, Present
    <3>2. i \in ParticipatingSpec /\ i.Pods = info.Pods
      BY <1>0, <3>1, PodEditsTyped, PodEditsReady
    <3>3. \E e \in Domains : i = PodCreating(info, e, key')
      BY <2>1, <3>1
    <3> HIDE DEF i
    <3> QED
      BY <1>6, <1>7, <2>1, <3>2, <3>3 DEF PodCreateRead
  <2> QED
    BY <1>4, <1>7, <2>1 DEF PodCreateRead, PodRead, PodReturnError, info
<1>8. CASE PodDeleteRead
  <2> DEFINE i == PodTerminating(info, pod[key].node, key)
  <2>1. CASE /\ Present(pod[key]) /\ ppc' = "removeFinalizers"
             /\ ReadInto(PodWorker, [network EXCEPT !.Participating = i])
    <3>1. key \in PodNames /\ pod[key].node \in Domains
      BY <1>0, <1>8, <2>1 DEF PodDeleteRead, PodInv, KeysBound, Bound, Domains
    <3>2. i \in ParticipatingSpec /\ i.Pods = info.Pods /\ SamePodsAs(i)
      BY <1>0, <3>1, PodEditsTyped, PodEditsReady DEF SamePodsAs
    <3> HIDE DEF i
    <3> QED
      BY <1>6, <1>8, <2>1, <3>2 DEF PodDeleteRead
  <2> QED
    BY <1>4, <1>8, <2>1 DEF PodDeleteRead, PodRead, PodReturnError, info
<1>9. CASE PodRemoveFinalizers
  <2>1. CASE UNCHANGED apiVars /\ ppc' = "deleteWrite"
    <3>1. network'.exists /\ PodWorker \in current' => WriteOK(PodWorker)'
      <4>1. UNCHANGED <<network, copy, current, info>>
        BY <2>1 DEF apiVars, info
      <4>2. network.exists /\ PodWorker \in current => SamePodsAs(copy[PodWorker].Participating)
        BY <1>9 DEF PodRemoveFinalizers, ServedInv, WriteOK, PodWrites
      <4> QED
        BY <2>1, <4>1, <4>2, HoldersAre
        DEF WriteOK, PodWrites, SamePodsAs, Account, PodWorker, Informer
    <3> QED
      BY <1>3, <2>1, <3>1, UnchangedStep, UnchangedInfos
  <2> QED
    BY <1>4, <1>9, <2>1 DEF PodRemoveFinalizers, PodReturnError
<1>10. CASE PodWrite
  <2>1. CASE /\ Accepts(PodWorker, copy[PodWorker])
             /\ UpdateAndDrop({PodWorker}, copy[PodWorker])
    <3>1. PodWorker \notin current'
      BY <2>1 DEF UpdateAndDrop
    <3> QED
      BY <1>0, <1>3, <2>1, <3>1, HoldersAre, UpdateAndDropStep, UpdateAndDropInfos
  <2> QED
    BY <1>4, <1>10, <2>1 DEF PodWrite, PodReturnError
<1> QED
  BY <1>0, <1>5, <1>7, <1>8, <1>9, <1>10 DEF PodNext

\* Nobody is recorded at first.
LEMMA InitServedInv == Init => ServedInv
<1> SUFFICES ASSUME Init PROVE ServedInv
  OBVIOUS
<1>1. NewNetwork.Participating = NoParticipants
  BY DEF NewNetwork, NoNetwork
<1>2. \A i \in Infos : i = NoParticipants
  BY <1>1, NoNetworkInfo DEF Init, ApiInit, Infos
<1>3. copy[Informer].Participating = info /\ current = {Informer}
  BY HoldersAre DEF Init, ApiInit, info
<1> QED
  BY <1>2, <1>3, HoldersAre DEF ServedInv, PodsReady, WriteOK, NoParticipants

\* Every step of the specification.
LEMMA NextServedInv ==
  ASSUME NoNeighbours, IInv, XInv, PlaceInv, ServedInv, [Next]_vars PROVE ServedInv'
<1>0. /\ TypeOK /\ ApiTypeOK /\ PodInv /\ ApiInv /\ network \in Network
      /\ current' \subseteq Holders
  <2>1. IInv'
    BY NextIInv
  <2> QED
    BY <2>1 DEF IInv, TypeOK, ApiTypeOK, PodInv
<1>1. CASE NetworkStep
  <2>1. UNCHANGED <<podVars, pod, ppc, key>> /\ NetNext
    BY <1>1 DEF NetworkStep, podVars
  <2>2. CASE \A d \in Domains : ~NetNode(d)
    <3>1. CurrentHeld /\ Forward
      BY <1>0, <2>1, <2>2, NetSteps, WroteForward DEF ApiStep
    <3>2. StreamsKept /\ InfosOld /\ PhasesAdvance
      BY <1>0, <2>1, <2>2, NetStreams, NetInfos DEF PhasesAdvance
    <3> QED
      BY <1>0, <2>1, <3>1, <3>2, HeldServed
  <2> QED
    BY <2>1, <2>2, NetNodeServed
<1>2. CASE PodStep
  BY <1>2, PodStepServed
<1>3. ASSUME UNCHANGED <<apiVars, netVars, ppc, key>>, PhasesAdvance PROVE ServedInv'
  <2>1. StreamsKept /\ Forward
    BY <1>3 DEF StreamsKept, Forward, Wanted, netVars, externalVars, apiVars
  <2> QED
    BY <1>0, <1>3, <2>1, UnchangedStep, UnchangedInfos, HeldServed DEF ApiStep
<1>4. ASSUME NEW p \in PodNames, ClusterStep(p) PROVE ServedInv'
  <2>1. UNCHANGED <<ppc, key>>
    BY <1>4 DEF ClusterStep, CreatePod, SchedulePod, DeletePod, PodGone, WatchPod, PodStatus
  <2>2. PhasesAdvance
    BY <1>0, <1>4 DEF PhasesAdvance, ClusterStep, CreatePod, SchedulePod, DeletePod, PodGone,
         WatchPod, PodStatus, GonePod, NoPod, PodInv, PodTypeOK, Pod
  <2> QED
    BY <1>3, <1>4, <2>1, <2>2 DEF ClusterStep
<1>5. CASE WatchNetwork
  <2>1. /\ StreamsKept /\ Forward /\ PhasesAdvance /\ UNCHANGED <<ppc, key>>
    BY <1>5 DEF WatchNetwork, Watch, StreamsKept, Forward, Wanted, PhasesAdvance, podVars,
       externalVars
  <2>2. InfosOld
    BY <1>0, <1>5, HoldersAre, InfosHas, CopyInfos DEF WatchNetwork, Watch, InfosOld, info
  <2>3. CurrentHeld
    BY <1>0, <1>5, HoldersAre, CopyStep DEF WatchNetwork, Watch, info, ApiStep
  <2> QED
    BY <1>0, <2>1, <2>2, <2>3, HeldServed
<1>6. CASE DeleteNetwork
  <2> DEFINE new == [network EXCEPT !.deleting = TRUE]
  <2>1. new.Participating = info /\ new.deleting
    BY <1>0 DEF Network, info
  <2>2. network' = Stored(new) /\ copy' = copy /\ current' = {}
    BY <1>6 DEF DeleteNetwork, MarkDeleted
  <2> HIDE DEF new
  <2>3. InfosOld
    BY <2>1, <2>2, StoredInfo, InfosHas, InfosStep DEF InfosOld
  <2>4. Forward
    BY <2>1, <2>2, StoredAs DEF Forward, Wanted
  <2>5. StreamsKept /\ PhasesAdvance /\ UNCHANGED <<ppc, key>>
    BY <1>6 DEF DeleteNetwork, StreamsKept, PhasesAdvance, podVars, netVars, externalVars
  <2> QED
    BY <1>0, <2>2, <2>3, <2>4, <2>5, HeldServed DEF CurrentHeld
<1>7. CASE Restart
  <2>1. InfosOld
    BY <1>7, NoNetworkInfo, InfosHas, InfosStep DEF InfosOld, Restart, info
  <2>2. StreamsKept /\ PhasesAdvance /\ Forward /\ network' = network
    BY <1>7 DEF Restart, StreamsKept, PhasesAdvance, externalVars, Forward, Wanted
  <2>3. \A j \in Infos' : PodsReady(j)'
    BY <2>1, <2>2, NobodyReady, ReadyKept DEF InfosOld
  <2>4. copy'[Informer].Participating = info' /\ current' = {Informer}
    BY <1>7, HoldersAre DEF Restart, info
  <2>5. WriteOK(Informer)'
    BY <2>4, HoldersAre DEF WriteOK
  <2> QED
    BY <2>3, <2>4, <2>5 DEF ServedInv
<1>8. CASE UNCHANGED vars
  <2>1. UNCHANGED <<apiVars, netVars, ppc, key>> /\ PhasesAdvance
    BY <1>8 DEF vars, podVars, PhasesAdvance
  <2> QED
    BY <1>3, <2>1
<1> QED
  BY <1>1, <1>2, <1>4, <1>5, <1>6, <1>7, <1>8 DEF Next

\* Without neighbours, whoever has the stored resourceVersion would write no
\* more than it may: one pod announced, or announced pods that have their
\* streams served and deleted ones forgotten.
THEOREM ServedInvariance ==
  ASSUME NoNeighbours PROVE Spec => []ServedInv
<1>1. IInv /\ XInv /\ PlaceInv /\ ServedInv /\ [Next]_vars => ServedInv'
  BY NextServedInv
<1> QED
  BY <1>1, InitServedInv, Invariance, ExternalsInvariance, PlaceInvariance, PTL DEF Spec

\* A pod is served only when the streams of its node exist, however old the
\* Network is that the loop of reconcileJetstreams works on.  Not so where a
\* node has neighbours: their pods are moved with its own (CreatingMoved).
THEOREM ServedPodsHaveStreams ==
  ASSUME NoNeighbours PROVE Spec => []StreamsBeforePods
<1>1. ServedInv => StreamsBeforePods
  <2> SUFFICES ASSUME ServedInv, NEW d \in NodeNames, info.Pods[d] # {}
               PROVE  NodeStreams \subseteq streams[d]
    BY DEF StreamsBeforePods
  <2>1. PodsReady(info) /\ d \in Domains /\ d # Main
    BY InfosHas, ParticipatingAssumption DEF ServedInv, Domains
  <2> QED
    BY <2>1 DEF PodsReady
<1> QED
  BY <1>1, ServedInvariance, PTL

-----------------------------------------------------------------------------
(* The two controllers implement Participation.                            *)

\* What Participation sees of the life of the Network.
State == IF ~network.exists THEN "gone"
         ELSE IF network.deleting THEN "deleting" ELSE "live"

Life == [p \in PodNames |-> pod[p].phase]

Ready == {d \in Domains : NodeStreams \subseteq streams[d]}

\* A step that is allowed.
ContractStep == [Contract!Next]_(Contract!vars)

\* Nothing but streams changes.
LEMMA StreamsStep ==
  ASSUME UNCHANGED <<network, Life>>, StreamsKept, UNCHANGED streams \/ network.exists
  PROVE  ContractStep
<1>1. UNCHANGED <<State, info>>
  BY DEF State, info
<1>2. CASE UNCHANGED streams
  BY <1>1, <1>2 DEF ContractStep, Contract!vars, State, Life, info
<1>3. CASE network.exists
  <2>1. Ready' \in SUBSET Domains /\ State # "gone"
    BY <1>3 DEF Ready, State
  <2>2. Ready \ Ready' \subseteq {d \in {Main} : State = "deleting"}
    BY <1>3 DEF Ready, State, StreamsKept, Wanted
  <2>3. Contract!Streams
    BY <1>1, <2>1, <2>2 DEF Contract!Streams, State, Life, info, Ready
  <2> QED
    BY <2>3 DEF ContractStep, Contract!Next
<1> QED
  BY <1>2, <1>3

\* The Network is gone.
LEMMA GoneStep ==
  ASSUME UNCHANGED <<streams, Life>>, network' = NoNetwork PROVE ContractStep
<1>1. Contract!Gone
  BY DEF Contract!Gone, Contract!Nobody, State, Life, info, NoNetwork, NoParticipants
<1> QED
  BY <1>1 DEF ContractStep, Contract!Next

\* What is written of an object that stays: it is there as before.
LEMMA WroteState ==
  ASSUME NEW h, WroteBy(h)
  PROVE  \/ network' = NoNetwork
         \/ /\ State' = State /\ State # "gone"
            /\ info' = copy[h].Participating
<1>1. PICK new \in Network :
        /\ network.exists /\ new.exists /\ (new.deleting <=> network.deleting)
        /\ new.Participating = copy[h].Participating
        /\ network' = Stored(new)
  BY DEF WroteBy
<1> QED
  BY <1>1 DEF Stored, State, info

\* A settled info is written: one round of Participation.
LEMMA SettleStep ==
  ASSUME TypeOK, NEW h \in Holders, WroteBy(h), SettledFrom(copy[h].Participating),
         UNCHANGED <<streams, Life>>
  PROVE  ContractStep
<1> DEFINE i == copy[h].Participating
           D == {d \in Domains : Served(i, d)}
<1>0. i \in ParticipatingSpec /\ info \in ParticipatingSpec
  BY DEF TypeOK, ApiTypeOK, Network, info
<1>1. CASE State' = State /\ State # "gone" /\ info' = i
  <2>1. State = "live" => D \subseteq Ready
    BY DEF State, Served, Ready, Wanted
  <2>2. i.PodsCreating = [d \in Domains |-> IF d \in D THEN {} ELSE info.PodsCreating[d]]
    BY <1>0 DEF ParticipatingSpec, SettledFrom, Waits, Served
  <2>3. i.Pods \in [Domains -> SUBSET PodNames]
    BY <1>0 DEF ParticipatingSpec
  <2>4. ASSUME NEW d \in Domains
        PROVE  LET served == IF d \in D THEN info.Pods[d] \cup info.PodsCreating[d]
                                        ELSE info.Pods[d]
               IN  /\ i.Pods[d] \subseteq served
                   /\ \A p \in served \ i.Pods[d] : Life[p] \in {"deleting", "gone"}
    <3>1. info.Pods[d] \cup info.PodsCreating[d] \subseteq PodNames
      BY <1>0 DEF ParticipatingSpec
    <3>2. \A p \in PodNames : Dead(p) => Life[p] \in {"deleting", "gone"}
      BY DEF Dead, Life
    <3>3. CASE d \in D
      BY <3>1, <3>2, <3>3 DEF Served, Recorded, info
    <3>4. CASE d \notin D
      BY <3>1, <3>2, <3>4 DEF SettledFrom, Waits
    <3> QED
      BY <3>3, <3>4
  <2>5. Contract!Settle(D)
    <3> HIDE DEF i, D
    <3> QED
      BY <1>1, <2>1, <2>2, <2>3, <2>4 DEF Contract!Settle, State, Life, Ready, info
  <2>6. D \in SUBSET Domains
    OBVIOUS
  <2> HIDE DEF D
  <2> QED
    BY <2>5, <2>6 DEF ContractStep, Contract!Next
<1>2. CASE network' = NoNetwork
  BY <1>2, GoneStep
<1> QED
  BY <1>1, <1>2, WroteState

\* The pod controller writes: a pod is announced, or the end of one noted.
LEMMA PodWriteStep ==
  ASSUME TypeOK, KeysBound, WroteBy(PodWorker), PodWrites(copy[PodWorker].Participating),
         UNCHANGED <<streams, Life>>
  PROVE  ContractStep
<1> DEFINE i == copy[PodWorker].Participating
<1>0. info \in ParticipatingSpec
  BY DEF TypeOK, ApiTypeOK, Network, info
<1>1. CASE State' = State /\ State # "gone" /\ info' = i
  <2>1. CASE SamePodsAs(i)
    BY <1>1, <2>1 DEF SamePodsAs, ContractStep, Contract!vars, State, Life, info
  <2>2. ASSUME NEW d \in Domains, i = PodCreating(info, d, key), ppc = "createWrite"
        PROVE  ContractStep
    <3>0. key \in PodNames /\ Life[key] # "absent"
      BY <2>2 DEF KeysBound, Bound, Life
    <3>1. CASE key \in info.Pods[d]
      BY <1>1, <2>1, <2>2, <3>1 DEF PodCreating, SamePodsAs
    <3>2. CASE key \notin info.Pods[d]
      <4>1. /\ i.Pods = info.Pods
            /\ i.PodsCreating = [info.PodsCreating EXCEPT ![d] = @ \cup {key}]
        BY <1>0, <2>2, <3>2 DEF PodCreating, ParticipatingSpec
      <4> HIDE DEF i
      <4>2. Contract!Announce(key, d)
        BY <1>1, <3>0, <3>2, <4>1 DEF Contract!Announce, State, Life, info
      <4> QED
        BY <2>2, <3>0, <4>2 DEF ContractStep, Contract!Next
    <3> QED
      BY <3>1, <3>2
  <2> QED
    BY <2>1, <2>2 DEF PodWrites
<1>2. CASE network' = NoNetwork
  BY <1>2, GoneStep
<1> QED
  BY <1>1, <1>2, WroteState

\* The life of the pods.
LEMMA LiveStep ==
  ASSUME PodInv, NEW p \in PodNames, ClusterStep(p) PROVE ContractStep
<1>1. UNCHANGED <<network, streams>> /\ UNCHANGED <<State, info>>
  BY DEF ClusterStep, apiVars, netVars, externalVars, State, info
<1>2. CASE UNCHANGED Life
  BY <1>1, <1>2, StreamsStep DEF StreamsKept
<1>3. ASSUME NEW from, NEW to, Life[p] = from, Life' = [Life EXCEPT ![p] = to],
             \/ from = "absent" /\ to = "live"
             \/ from = "live" /\ to = "deleting"
             \/ from = "deleting" /\ to = "gone"
      PROVE  ContractStep
  <2>1. Contract!Live(p, from, to)
    BY <1>1, <1>3 DEF Contract!Live, State, Life, info
  <2> QED
    BY <1>3, <2>1 DEF ContractStep, Contract!Next
<1>4. CASE CreatePod(p)
  <2>1. Life[p] = "absent" /\ Life' = [Life EXCEPT ![p] = "live"]
    BY <1>4 DEF CreatePod, Life, PodInv, PodTypeOK, Pod
  <2> QED
    BY <1>3, <2>1
<1>5. CASE DeletePod(p)
  <2>1. Life[p] = "live" /\ Life' = [Life EXCEPT ![p] = "deleting"]
    BY <1>5 DEF DeletePod, Life, PodInv, PodTypeOK, Pod
  <2> QED
    BY <1>3, <2>1
<1>6. CASE PodGone(p)
  <2>1. Life[p] = "deleting" /\ Life' = [Life EXCEPT ![p] = "gone"]
    BY <1>6 DEF PodGone, GonePod, NoPod, Life, PodInv, PodTypeOK, Pod
  <2> QED
    BY <1>3, <2>1
<1>7. CASE (\E n \in NodeNames : SchedulePod(p, n)) \/ WatchPod(p) \/ PodStatus(p)
  <2>1. UNCHANGED Life
    BY <1>7 DEF SchedulePod, WatchPod, PodStatus, Life, PodInv, PodTypeOK, Pod
  <2> QED
    BY <1>2, <2>1
<1> QED
  BY <1>4, <1>5, <1>6, <1>7 DEF ClusterStep

\* The steps of the network controller.
LEMMA NetContract ==
  ASSUME IInv, XInv, ServedInv, NetworkStep PROVE ContractStep
<1>0. TypeOK /\ NetNext /\ UNCHANGED Life
  BY DEF IInv, NetworkStep, podVars, Life
<1>1. StreamsKept /\ (UNCHANGED streams \/ (network.exists /\ UNCHANGED network))
  BY <1>0, NetStreams
<1>2. CASE UNCHANGED network
  BY <1>0, <1>1, <1>2, StreamsStep
<1>3. ASSUME NEW h \in {NetWorker, Account}, WroteBy(h), UNCHANGED streams
      PROVE  ContractStep
  <2>1. h \in Holders /\ WriteOK(h)
    BY <1>3, HoldersAre DEF ServedInv, WroteBy
  <2>2. SettledFrom(copy[h].Participating)
    BY <1>3, <2>1, StoredSettled DEF WriteOK
  <2> QED
    BY <1>0, <1>3, <2>1, <2>2, SettleStep
<1>4. CASE \A d \in Domains : ~NetNode(d)
  BY <1>0, <1>1, <1>2, <1>3, <1>4, NetSteps
<1> QED
  BY <1>2, <1>4 DEF NetNode

\* The steps of the pod controller.
LEMMA PodContract ==
  ASSUME IInv, XInv, ServedInv, PodStep PROVE ContractStep
<1>0. /\ TypeOK /\ ApiTypeOK /\ PodInv /\ CopiesOK /\ PodNext /\ KeysBound
      /\ UNCHANGED streams /\ copy[PodWorker] \in Network
  BY HoldersAre DEF IInv, TypeOK, ApiTypeOK, PodInv, XInv, PodStep, netVars, externalVars
<1>1. UNCHANGED Life
  <2>1. pod' = pod \/ pod' = [pod EXCEPT ![key].finalizer = FALSE]
    BY <1>0 DEF PodNext, PodGet, PodCreateRead, PodDeleteRead, PodRead,
       PodRemoveFinalizers, PodWrite, PodReturnError
  <2> QED
    BY <1>0, <2>1 DEF Life, PodInv, PodTypeOK, Pod
<1>2. CASE UNCHANGED network
  BY <1>0, <1>1, <1>2, StreamsStep DEF StreamsKept
<1>3. CASE /\ Accepts(PodWorker, copy[PodWorker])
           /\ UpdateAndDrop({PodWorker}, copy[PodWorker])
  <2>1. WroteBy(PodWorker)
    BY <1>0, <1>3, HoldersAre, UpdateAndDropStep
  <2>2. PodWrites(copy[PodWorker].Participating)
    BY <2>1 DEF ServedInv, WriteOK, WroteBy
  <2> QED
    BY <1>0, <1>1, <2>1, <2>2, PodWriteStep
<1> QED
  BY <1>0, <1>2, <1>3
  DEF PodNext, PodGet, PodCreateRead, PodDeleteRead, PodRead, PodRemoveFinalizers,
      PodWrite, PodReturnError, Drop, ReadInto, apiVars

\* Every step of the specification is one of Participation or none at all.
LEMMA NextContract ==
  ASSUME IInv, XInv, ServedInv, [Next]_vars PROVE ContractStep
<1>0. TypeOK /\ PodInv /\ network \in Network
  BY DEF IInv, TypeOK, ApiTypeOK, PodInv
<1>1. CASE WatchNetwork \/ Restart \/ UNCHANGED vars
  <2>1. UNCHANGED <<network, pod, streams>>
    BY <1>1 DEF WatchNetwork, Watch, Restart, vars, apiVars, podVars, netVars, externalVars
  <2> QED
    BY <2>1, StreamsStep DEF StreamsKept, Life
<1>2. CASE DeleteNetwork
  <2> DEFINE new == [network EXCEPT !.deleting = TRUE]
  <2>1. new.Participating = info /\ new.deleting /\ new.exists = network.exists
    BY <1>0 DEF Network, info
  <2>2. /\ network' = Stored(new) /\ State = "live" /\ network.exists
        /\ UNCHANGED <<streams, Life>>
    BY <1>2 DEF DeleteNetwork, MarkDeleted, State, Life, podVars, netVars, externalVars
  <2> HIDE DEF new
  <2>3. CASE network' = NoNetwork
    BY <2>2, <2>3, GoneStep
  <2>4. CASE network' = new
    <3>1. State' = "deleting" /\ info' = info
      BY <2>1, <2>2, <2>4 DEF State, info
    <3>2. Contract!Delete
      BY <2>2, <3>1 DEF Contract!Delete, State, Life, info
    <3> QED
      BY <3>2 DEF ContractStep, Contract!Next
  <2> QED
    BY <2>2, <2>3, <2>4 DEF Stored
<1> QED
  BY <1>0, <1>1, <1>2, NetContract, PodContract, LiveStep DEF Next

\* The initial states are those of Participation.
LEMMA InitContract == Init => Contract!Init
<1> SUFFICES ASSUME Init PROVE Contract!Init
  OBVIOUS
<1>1. /\ network.exists /\ ~network.deleting /\ info = NoParticipants
  BY DEF Init, ApiInit, NewNetwork, NoNetwork, info
<1>2. Life = [p \in PodNames |-> "absent"]
  BY DEF Init, PodInit, NoPod, Life
<1> QED
  BY <1>1, <1>2 DEF Contract!Init, Contract!Nobody, info, Life, NoParticipants

\* Without neighbours the two controllers, with all their caches, copies of any
\* age, conflicts, faults and restarts, implement Participation.
THEOREM ControllersImplementParticipation ==
  ASSUME NoNeighbours PROVE Spec => ImplementsParticipation
<1>1. IInv /\ XInv /\ ServedInv /\ [Next]_vars => [Contract!Next]_(Contract!vars)
  BY NextContract DEF ContractStep
<1> QED
  BY <1>1, InitContract, Invariance, ExternalsInvariance, ServedInvariance, PTL
  DEF Spec, ImplementsParticipation, Contract!Spec
=============================================================================
