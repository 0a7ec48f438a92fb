--------------------------- MODULE ExternalsProofs ---------------------------
(***************************************************************************)
(* Proofs about what anck keeps outside of the Network: the account, anck's*)
(* secret and the streams.  Like AnckProofs, for any pods, nodes, streams  *)
(* and events, with or without faults, and any number of restarts.         *)
(***************************************************************************)
EXTENDS AnckProofs

-----------------------------------------------------------------------------
(* The inductive invariant.                                                *)

\* The stored Network carries the finalizer of anck.
Held == network.exists /\ NetworkFinalizer \in network.finalizers

\* To the holder of o the Network is there to stay.
Unmarked(o) == o.exists /\ ~o.deleting

\* What o says of active nodes is true; the streams of the main domain go once
\* the Network is to be deleted.
ActiveOK(i) ==
  \A d \in Domains : i.Nodes[d] = "active" /\ (d = Main => Wanted)
    => NodeStreams \subseteq streams[d]

\* A copy with the stored resourceVersion has the metadata that is stored; the
\* network controller may have edited the finalizers of nodes.
Agrees(o) ==
  /\ o.exists
  /\ (o.deleting <=> network.deleting)
  /\ (NetworkFinalizer \in o.finalizers <=> NetworkFinalizer \in network.finalizers)

\* Every copy, however old, is right about the active nodes, and a deletion is
\* never undone.
CopyOK(o) == ActiveOK(o.Participating) /\ (o.deleting => ~Wanted)

CopiesOK ==
  /\ ~network.exists => network = NoNetwork
  /\ ActiveOK(network.Participating)
  /\ \A h \in Holders : CopyOK(copy[h])
  /\ \A h \in current : network.exists => Agrees(copy[h])

\* The finalizer is removed only by a round of the network controller that saw
\* the deletion in the cache.  So what the cache has of a Network that is not
\* deleted is no older than the finalizer.
CacheOK ==
  /\ obj.deleting => ~Unmarked(copy[Informer])
  /\ Unmarked(copy[Informer]) /\ NetworkFinalizer \in copy[Informer].finalizers
       => Held

MainCleared == Standard \notin streams[Main] /\ ~aggregate.exists

\* A round creates something outside only while the finalizer is held, and
\* comes to removing the finalizer only when nothing is left.
RoundOK ==
  /\ npc \in CreateSteps => ~obj.deleting
  /\ npc \in CreateSteps \ {"addFinalizer", "writeMain"} => Held
  /\ npc \in DeleteSteps => obj.deleting
  /\ /\ npc \in SharedSteps \cup (DeleteSteps \ {"deleteMain"})
     /\ obj.deleting
     /\ ~failed
     => MainCleared
  /\ npc \in {"removeSecrets", "removeFinalizer"} => ~creds
  /\ npc = "removeFinalizer" => ~anckSecret /\ ~failed

\* The sources of the aggregate stream were active nodes.
SourcesOK ==
  /\ ~aggregate.exists => aggregate.sources = {}
  /\ \A d \in aggregate.sources : (d = Main => Wanted) => NodeStreams \subseteq streams[d]

XInv == CopiesOK /\ CacheOK /\ RoundOK /\ SourcesOK /\ SetupIsHeld

-----------------------------------------------------------------------------
(* The steps of the API server keep CopiesOK.                              *)

\* A step takes no streams away but those of the main domain of a Network that
\* is to be deleted.
StreamsKept ==
  \A d \in Domains : (d = Main => Wanted) => streams[d] \subseteq streams'[d]

\* A deletion is never undone.
Forward == Wanted' => Wanted

\* What an unchanged info says of active nodes stays true.
ActiveThen(i) ==
  \A d \in Domains : i.Nodes[d] = "active" /\ (d = Main => Wanted')
    => NodeStreams \subseteq streams'[d]

\* ActiveOK is stable.
LEMMA ActiveStable ==
  ASSUME NEW i, ActiveOK(i), StreamsKept, Forward PROVE ActiveThen(i)
  BY DEF ActiveOK, StreamsKept, Forward, ActiveThen

\* No object has no active nodes.
LEMMA NoNetworkIdle ==
  /\ ~NoNetwork.exists /\ ~NoNetwork.deleting
  /\ ActiveThen(NoNetwork.Participating) /\ ActiveOK(NoNetwork.Participating)
  /\ ActiveOK(NoNetwork.Participating)'
  BY DEF NoNetwork, NoParticipants, ActiveThen, ActiveOK

\* A step that does not write the Network: the objects of the holders H are
\* new, and in order.
LEMMA NotWritten ==
  ASSUME ApiTypeOK, CopiesOK, StreamsKept, NEW H \in SUBSET Holders,
         network' = network, copy' \in [Holders -> Network],
         \A g \in Holders \ H : copy'[g] = copy[g],
         \A h \in H : ActiveThen(copy'[h].Participating)
                      /\ (copy'[h].deleting => ~Wanted),
         \A h \in H \cap current' : network.exists => Agrees(copy'[h]),
         current' \subseteq current \cup H
  PROVE  CopiesOK' /\ Forward /\ (Held => Held')
<1>1. Forward /\ (Held => Held')
  BY DEF Forward, Wanted, Held
<1>2. ActiveOK(network.Participating)'
  BY <1>1, ActiveStable DEF CopiesOK, ActiveThen, ActiveOK
<1>3. ASSUME NEW h \in Holders PROVE CopyOK(copy[h])'
  <2>1. CASE h \in H
    BY <1>1, <2>1 DEF CopyOK, ActiveThen, ActiveOK, Forward
  <2>2. CASE h \notin H
    <3>1. ActiveThen(copy[h].Participating) /\ copy'[h] = copy[h]
      BY <1>1, <2>2, ActiveStable DEF CopiesOK, CopyOK
    <3> QED
      BY <1>1, <2>2, <3>1 DEF CopiesOK, CopyOK, ActiveThen, ActiveOK, Forward
  <2> QED
    BY <2>1, <2>2
<1>4. ASSUME NEW h \in current', network.exists PROVE Agrees(copy[h])'
  <2>0. h \in Holders
    BY DEF ApiTypeOK
  <2>1. CASE h \in H
    BY <1>4, <2>1 DEF Agrees
  <2>2. CASE h \notin H
    BY <1>4, <2>0, <2>2 DEF CopiesOK, Agrees
  <2> QED
    BY <2>1, <2>2
<1> QED
  BY <1>1, <1>2, <1>3, <1>4 DEF CopiesOK

\* A step that writes new: the holders H drop their objects, the others, of
\* which at most the writer has the new version, keep theirs; or the version is
\* the old one.
LEMMA Written ==
  ASSUME ApiTypeOK, CopiesOK, UNCHANGED streams, NEW H \in SUBSET Holders,
         NEW h \in Holders, NEW new \in Network,
         network.exists, Agrees(copy[h]),
         new.exists, new.deleting <=> copy[h].deleting,
         new.Participating = copy[h].Participating,
         network' = Stored(new), copy' \in [Holders -> Network],
         \A g \in H : copy'[g] = NoNetwork,
         \A g \in Holders \ H : copy'[g] = IF g = h THEN new ELSE copy[g],
         \/ current' \subseteq {h} \ H
         \/ new = network /\ current' \subseteq (current \cup {h}) \ H
  PROVE  /\ CopiesOK' /\ Forward
         /\ Held /\ NetworkFinalizer \in new.finalizers => Held'
<1>1. network' \in Network /\ (network'.exists => network' = new)
  BY StoredTyped, NoNetworkIdle DEF Stored
<1>2. Forward
  BY <1>1 DEF Forward, Wanted, Agrees
<1>3. StreamsKept
  BY DEF StreamsKept
<1>4. Held /\ NetworkFinalizer \in new.finalizers => Held'
  BY DEF Held, Stored
<1>5. ~network'.exists => network' = NoNetwork
  BY DEF Stored
<1>6. ActiveThen(new.Participating)
  BY <1>2, <1>3, ActiveStable DEF CopiesOK, CopyOK
<1>7. ActiveOK(network.Participating)'
  BY <1>6, NoNetworkIdle DEF Stored, ActiveThen, ActiveOK
<1>8. ASSUME NEW g \in Holders PROVE CopyOK(copy[g])'
  <2>1. CASE g \in H
    BY <2>1, NoNetworkIdle DEF CopyOK, ActiveThen, ActiveOK
  <2>2. CASE g \notin H /\ g = h
    <3>1. copy'[g] = new
      BY <2>2
    <3> QED
      BY <1>1, <1>2, <1>6, <2>2, <3>1 DEF CopiesOK, CopyOK, ActiveThen, ActiveOK, Forward
  <2>3. CASE g \notin H /\ g # h
    <3>1. ActiveThen(copy[g].Participating) /\ copy'[g] = copy[g]
      BY <1>2, <1>3, <2>3, ActiveStable DEF CopiesOK, CopyOK
    <3> QED
      BY <1>2, <2>3, <3>1 DEF CopiesOK, CopyOK, ActiveThen, ActiveOK, Forward
  <2> QED
    BY <2>1, <2>2, <2>3
<1>9. ASSUME NEW g \in current', network'.exists PROVE Agrees(copy[g])'
  <2>1. g \in Holders \ H
    BY DEF ApiTypeOK
  <2>2. CASE g = h
    BY <1>1, <1>9, <2>1, <2>2 DEF Agrees
  <2>3. CASE g # h
    <3>1. g \in current /\ network' = network /\ copy'[g] = copy[g]
      BY <1>1, <1>9, <2>1, <2>3
    <3> QED
      BY <3>1 DEF CopiesOK, Agrees
  <2> QED
    BY <2>2, <2>3
<1> QED
  BY <1>2, <1>4, <1>5, <1>7, <1>8, <1>9 DEF CopiesOK

\* What a step leaves: the copies in order, and the finalizer.
CopiesKept == CopiesOK' /\ Forward /\ (Held => Held')

\* NotWritten for one holder.
LEMMA OneChanged ==
  ASSUME ApiTypeOK, CopiesOK, StreamsKept, NEW h \in Holders,
         network' = network, copy' \in [Holders -> Network],
         \A g \in Holders \ {h} : copy'[g] = copy[g],
         ActiveThen(copy'[h].Participating), copy'[h].deleting => ~Wanted,
         h \in current' /\ network.exists => Agrees(copy'[h]),
         current' \subseteq current \cup {h}
  PROVE  CopiesKept
<1> DEFINE H == {h}
<1>1. /\ H \in SUBSET Holders
      /\ \A g \in Holders \ H : copy'[g] = copy[g]
      /\ \A g \in H : ActiveThen(copy'[g].Participating)
                      /\ (copy'[g].deleting => ~Wanted)
      /\ \A g \in H \cap current' : network.exists => Agrees(copy'[g])
      /\ current' \subseteq current \cup H
  OBVIOUS
<1> HIDE DEF H
<1> QED
  BY <1>1, NotWritten DEF CopiesKept

\* The Network and its copies as they are.
LEMMA UnchangedFine ==
  ASSUME ApiTypeOK, CopiesOK, StreamsKept, UNCHANGED apiVars
  PROVE  CopiesKept
<1>1. /\ network' = network /\ copy' \in [Holders -> Network]
      /\ current' = current /\ \A g \in Holders : copy'[g] = copy[g]
  BY DEF apiVars, ApiTypeOK
<1>2. /\ Informer \in Holders
      /\ ActiveThen(copy[Informer].Participating)
      /\ copy[Informer].deleting => ~Wanted
      /\ Informer \in current /\ network.exists => Agrees(copy[Informer])
  <2>1. Informer \in Holders
    BY DEF Holders
  <2>2. Forward
    BY <1>1 DEF Forward, Wanted
  <2> QED
    BY <2>1, <2>2, ActiveStable DEF CopiesOK, CopyOK
<1> QED
  BY <1>1, <1>2, OneChanged

\* Reconcile returns.
LEMMA DropFine ==
  ASSUME ApiTypeOK, CopiesOK, StreamsKept, NEW H \in SUBSET Holders, Drop(H)
  PROVE  /\ CopiesKept
         /\ \A h \in H : ~copy'[h].deleting
         /\ \A h \in Holders \ H : copy'[h] = copy[h]
<1>1. /\ network' = network /\ copy' \in [Holders -> Network]
      /\ current' = current \ H
      /\ \A g \in Holders \ H : copy'[g] = copy[g]
      /\ \A g \in H : copy'[g] = NoNetwork
  BY NoNetworkTyped DEF Drop, Dropped, ApiTypeOK
<1> QED
  BY <1>1, NotWritten, NoNetworkIdle DEF CopiesKept

\* A live read and the edit of what was read.
LEMMA ReadFine ==
  ASSUME ApiTypeOK, CopiesOK, UNCHANGED streams, NEW h \in Holders,
         NEW f \in Network, Agrees(f), network.exists, ActiveOK(f.Participating),
         ReadInto(h, f)
  PROVE  CopiesKept /\ \A g \in Holders \ {h} : copy'[g] = copy[g]
<1>1. /\ network' = network /\ copy' \in [Holders -> Network]
      /\ current' = current \cup {h} /\ copy'[h] = f
      /\ \A g \in Holders \ {h} : copy'[g] = copy[g]
  BY DEF ReadInto, ApiTypeOK
<1>2. ActiveThen(f.Participating) /\ StreamsKept /\ (f.deleting => ~Wanted)
  BY <1>1 DEF ActiveThen, ActiveOK, StreamsKept, Wanted, Agrees
<1> QED
  BY <1>1, <1>2, OneChanged

\* A read of the cache.
LEMMA ReadCachedFine ==
  ASSUME ApiTypeOK, CopiesOK, UNCHANGED streams, NEW h \in Holders, ReadCached(h)
  PROVE  /\ CopiesKept /\ copy'[h] = copy[Informer]
         /\ copy'[Informer] = copy[Informer]
<1>0. Informer \in Holders
  BY DEF Holders
<1>1. /\ network' = network /\ copy' \in [Holders -> Network]
      /\ copy'[h] = copy[Informer]
      /\ \A g \in Holders \ {h} : copy'[g] = copy[g]
      /\ current' \subseteq current \cup {h}
      /\ h \in current' => Informer \in current
  BY <1>0 DEF ReadCached, ApiTypeOK
<1>2. StreamsKept /\ Forward
  BY <1>1 DEF StreamsKept, Forward, Wanted
<1>3. ActiveThen(copy[Informer].Participating)
  BY <1>0, <1>2, ActiveStable DEF CopiesOK, CopyOK
<1> QED
  BY <1>0, <1>1, <1>2, <1>3, OneChanged DEF CopiesOK, CopyOK

\* A holder edits its object.
LEMMA EditFine ==
  ASSUME ApiTypeOK, CopiesOK, StreamsKept, NEW h \in Holders, NEW f \in Network,
         UNCHANGED <<network, current>>, copy' = [copy EXCEPT ![h] = f],
         ActiveThen(f.Participating), f.exists <=> copy[h].exists,
         f.deleting <=> copy[h].deleting,
         NetworkFinalizer \in f.finalizers <=> NetworkFinalizer \in copy[h].finalizers
  PROVE  CopiesKept /\ \A g \in Holders \ {h} : copy'[g] = copy[g]
<1>1. /\ copy' \in [Holders -> Network] /\ copy'[h] = f
      /\ \A g \in Holders \ {h} : copy'[g] = copy[g]
  BY DEF ApiTypeOK
<1>2. f.deleting => ~Wanted
  BY DEF CopiesOK, CopyOK
<1>3. h \in current /\ network.exists => Agrees(f)
  BY DEF CopiesOK, Agrees
<1> QED
  BY <1>1, <1>2, <1>3, OneChanged

\* What an accepted update leaves.
WrittenBy(new) ==
  /\ CopiesOK' /\ Forward
  /\ Held /\ NetworkFinalizer \in new.finalizers => Held'

\* An update by h that is accepted.
LEMMA UpdateFine ==
  ASSUME ApiTypeOK, CopiesOK, UNCHANGED streams, NEW h \in Holders,
         NEW new \in Network, Accepts(h, new), new.exists <=> copy[h].exists,
         new.deleting <=> copy[h].deleting,
         new.Participating = copy[h].Participating, Update(h, new)
  PROVE  /\ WrittenBy(new) /\ copy'[h] = new /\ Agrees(copy[h]) /\ new.exists
         /\ \A g \in Holders \ {h} : copy'[g] = copy[g]
<1>1. /\ copy' \in [Holders -> Network] /\ copy'[h] = new /\ network' = Stored(new)
      /\ \A g \in Holders \ {h} : copy'[g] = copy[g]
      /\ current' \subseteq {h} \/ (new = network /\ current' \subseteq current)
  BY DEF Update, ApiTypeOK
<1>2. network.exists /\ Agrees(copy[h]) /\ new.exists
  BY DEF Accepts, CopiesOK, Agrees
<1> DEFINE H == {}
<1>3. /\ H \in SUBSET Holders
      /\ \A g \in H : copy'[g] = NoNetwork
      /\ \A g \in Holders \ H : copy'[g] = IF g = h THEN new ELSE copy[g]
      /\ \/ current' \subseteq {h} \ H
         \/ new = network /\ current' \subseteq (current \cup {h}) \ H
  BY <1>1
<1> HIDE DEF H
<1>4. WrittenBy(new)
  BY <1>1, <1>2, <1>3, Written DEF WrittenBy
<1> QED
  BY <1>1, <1>2, <1>4

\* An update by h that is accepted, after which the holders H are done.
LEMMA UpdateAndDropFine ==
  ASSUME ApiTypeOK, CopiesOK, UNCHANGED streams, NEW H \in SUBSET Holders,
         NEW h \in H, NEW new \in Network, Accepts(h, new),
         new.exists <=> copy[h].exists, new.deleting <=> copy[h].deleting,
         new.Participating = copy[h].Participating, UpdateAndDrop(H, new)
  PROVE  /\ WrittenBy(new) /\ Agrees(copy[h]) /\ new.exists
         /\ \A g \in H : ~copy'[g].deleting
         /\ \A g \in Holders \ H : copy'[g] = copy[g]
<1>1. /\ copy' \in [Holders -> Network] /\ network' = Stored(new)
      /\ \A g \in H : copy'[g] = NoNetwork
      /\ \A g \in Holders \ H : copy'[g] = copy[g]
      /\ current' \subseteq {h} \ H \/ (new = network /\ current' \subseteq (current \cup {h}) \ H)
  BY NoNetworkTyped DEF UpdateAndDrop, Dropped, ApiTypeOK
<1>2. network.exists /\ Agrees(copy[h]) /\ new.exists
  BY DEF Accepts, CopiesOK, Agrees
<1>3. \A g \in Holders \ H : copy'[g] = IF g = h THEN new ELSE copy[g]
  BY <1>1
<1> QED
  BY <1>1, <1>2, <1>3, NoNetworkIdle, Written DEF WrittenBy

\* The watch.
LEMMA WatchFine ==
  ASSUME ApiTypeOK, CopiesOK, UNCHANGED streams, Watch
  PROVE  /\ CopiesKept /\ copy'[Informer] = network /\ network' = network
         /\ \A g \in Holders \ {Informer} : copy'[g] = copy[g]
<1>1. /\ network' = network /\ copy' \in [Holders -> Network]
      /\ copy'[Informer] = network
      /\ \A g \in Holders \ {Informer} : copy'[g] = copy[g]
      /\ current' = current \cup {Informer} /\ Informer \in Holders
  BY DEF Watch, ApiTypeOK, Holders
<1>2. StreamsKept /\ Forward
  BY <1>1 DEF StreamsKept, Forward, Wanted
<1>3. ActiveThen(network.Participating) /\ (network.deleting => ~Wanted)
  BY <1>2, ActiveStable DEF CopiesOK, Wanted
<1>4. network.exists => Agrees(network)
  BY DEF Agrees
<1> QED
  BY <1>1, <1>2, <1>3, <1>4, OneChanged

\* The user deletes the Network: one without finalizers is gone at once.
LEMMA MarkDeletedFine ==
  ASSUME ApiTypeOK, CopiesOK, UNCHANGED streams, MarkDeleted
  PROVE  CopiesKept /\ copy' = copy
<1> DEFINE new == [network EXCEPT !.deleting = TRUE]
<1>1. /\ new.deleting /\ new.Participating = network.Participating
      /\ new.finalizers = network.finalizers /\ new.exists
  BY DEF ApiTypeOK, Network, MarkDeleted
<1>0. network' = Stored(new) /\ copy' = copy /\ current' = {}
  BY DEF MarkDeleted
<1> HIDE DEF new
<1>2. network' \in {new, NoNetwork}
      /\ (network' = NoNetwork => network.finalizers = {})
  BY <1>0, <1>1, NoNetworkIdle DEF Stored
<1>3. ~Wanted' /\ Forward /\ StreamsKept /\ (Held => Held')
  BY <1>1, <1>2, NoNetworkIdle DEF Wanted, Forward, StreamsKept, Held
<1>4. ActiveThen(network.Participating)
  BY <1>3, ActiveStable DEF CopiesOK
<1>5. ActiveOK(network.Participating)' /\ (~network'.exists => network' = NoNetwork)
  BY <1>1, <1>2, <1>4, NoNetworkIdle DEF ActiveOK, ActiveThen
<1>6. \A h \in Holders : CopyOK(copy[h])'
  <2> SUFFICES ASSUME NEW h \in Holders PROVE CopyOK(copy[h])'
    OBVIOUS
  <2>1. ActiveThen(copy[h].Participating)
    BY <1>3, ActiveStable DEF CopiesOK, CopyOK
  <2> QED
    BY <1>0, <1>3, <2>1 DEF CopyOK, ActiveOK, ActiveThen
<1> QED
  BY <1>0, <1>3, <1>5, <1>6 DEF CopiesKept, CopiesOK

\* The new process has the stored object in its cache and no other.
LEMMA RestartFine ==
  ASSUME ApiTypeOK, CopiesOK, UNCHANGED streams, Restart
  PROVE  /\ CopiesKept /\ copy'[Informer] = network /\ network' = network
         /\ \A g \in Holders \ {Informer} : copy'[g] = NoNetwork
<1>1. /\ network' = network /\ copy' \in [Holders -> Network]
      /\ copy'[Informer] = network
      /\ \A g \in Holders \ {Informer} : copy'[g] = NoNetwork
      /\ current' = {Informer} /\ Informer \in Holders
  BY NoNetworkTyped DEF Restart, ApiTypeOK, Holders
<1>2. StreamsKept /\ Forward
  BY <1>1 DEF StreamsKept, Forward, Wanted
<1>3. ActiveThen(network.Participating) /\ (network.deleting => ~Wanted)
  BY <1>2, ActiveStable DEF CopiesOK, Wanted
<1>4. network.exists => Agrees(network)
  BY DEF Agrees
<1>5. \A h \in Holders : ActiveThen(copy'[h].Participating)
                         /\ (copy'[h].deleting => ~Wanted)
  BY <1>1, <1>3, NoNetworkIdle
<1>6. \A h \in Holders \cap current' : network.exists => Agrees(copy'[h])
  BY <1>1, <1>4
<1>7. Holders \in SUBSET Holders /\ current' \subseteq current \cup Holders
  BY <1>1
<1> QED
  BY <1>1, <1>2, <1>5, <1>6, <1>7, NotWritten DEF CopiesKept

-----------------------------------------------------------------------------
(* The parts of the invariant about the cache and the externals, as far as *)
(* they depend only on the finalizer and on what grows.                    *)

\* The view of the cache and of the round does not change.
SameView == copy'[Informer] = copy[Informer] /\ (obj'.deleting => obj.deleting)

\* While the cache is the same and the finalizer is kept.
LEMMA CacheKept ==
  ASSUME CacheOK, SameView, Held => Held'
  PROVE  CacheOK'
  BY DEF CacheOK, SameView, Unmarked

\* The sources of the aggregate stream stay what they are.
LEMMA SourcesKept ==
  ASSUME SourcesOK, StreamsKept, Forward, UNCHANGED aggregate,
         NetTypeOK
  PROVE  SourcesOK'
  BY DEF SourcesOK, StreamsKept, Forward, NetTypeOK

\* Nothing new outside without the finalizer.
FewerExternals ==
  /\ creds' => creds
  /\ anckSecret' => anckSecret
  /\ Standard \in streams'[Main] => Standard \in streams[Main]
  /\ aggregate'.exists => aggregate.exists

\* The finalizer is there, or there is nothing new.
LEMMA ExternalsKept ==
  ASSUME SetupIsHeld, Held => Held', FewerExternals \/ Held
  PROVE  SetupIsHeld'
  BY DEF SetupIsHeld, NoSetup, FewerExternals, Held

\* A step of others than the network controller: its round goes on.
LEMMA RoundKept ==
  ASSUME RoundOK, UNCHANGED netVars, obj'.deleting <=> obj.deleting, Held => Held'
  PROVE  RoundOK'
  BY DEF RoundOK, netVars, workerVars, externalVars, MainCleared

\* A round that returns.
LEMMA ReturnFine ==
  ASSUME npc' = "idle" PROVE RoundOK'
  BY DEF RoundOK, CreateSteps, DeleteSteps, SharedSteps

\* Reconcile returns an error: whatever has happened, the invariant is about
\* the externals alone.
LEMMA ReturnErrorFine ==
  ASSUME TypeOK, XInv, ReturnError, UNCHANGED <<streams, aggregate>>,
         FewerExternals \/ Held
  PROVE  XInv'
<1>1. /\ {NetWorker, Account} \in SUBSET Holders /\ Informer \in Holders
      /\ Informer \notin {NetWorker, Account}
  BY DEF Holders, NetWorker, Account, Informer
<1>2. StreamsKept
  BY DEF StreamsKept
<1>3. CopiesKept /\ SameView
  BY <1>1, <1>2, DropFine DEF ReturnError, XInv, TypeOK, SameView, obj
<1>4. RoundOK'
  BY ReturnFine DEF ReturnError, Return
<1> QED
  BY <1>2, <1>3, <1>4, CacheKept, SourcesKept, ExternalsKept
  DEF XInv, CopiesKept, TypeOK

-----------------------------------------------------------------------------
(* The network controller.                                                 *)

\* A step of a round that leaves the streams alone and takes the finalizer from
\* no one.
LEMMA StepFine ==
  ASSUME TypeOK, XInv, UNCHANGED <<streams, aggregate>>, CopiesOK', Forward,
         Held => Held', SameView, RoundOK', FewerExternals \/ Held
  PROVE  XInv'
<1>1. StreamsKept
  BY DEF StreamsKept
<1> QED
  BY <1>1, CacheKept, SourcesKept, ExternalsKept DEF XInv, TypeOK

\* The holders by name.
LEMMA HoldersAre ==
  /\ NetWorker \in Holders /\ Account \in Holders /\ Informer \in Holders
  /\ PodWorker \in Holders
  /\ {NetWorker, Account} \in SUBSET Holders /\ {Account} \in SUBSET Holders
  /\ {PodWorker} \in SUBSET Holders
  /\ Informer \notin {NetWorker, Account, PodWorker}
  /\ NetWorker \notin {Account, PodWorker}
  BY DEF Holders, NetWorker, Account, Informer, PodWorker

\* The Network is read from the cache: one that is not deleted and has the
\* finalizer there has it still.
LEMMA NetGetFine ==
  ASSUME TypeOK, XInv, NetGet PROVE XInv'
<1> USE DEF CreateSteps, DeleteSteps, SharedSteps
<1>1. UNCHANGED <<creds, anckSecret, streams, aggregate, failed>>
  BY DEF NetGet, externalVars
<1>2. FewerExternals
  BY <1>1 DEF FewerExternals
<1> DEFINE cached == copy[Informer]
           ours == NetworkFinalizer \in cached.finalizers
<1>3. CASE /\ ReadCached(NetWorker) /\ cached.exists
           /\ \/ npc' = "deleteMain" /\ cached.deleting
              \/ npc' = "desiredState" /\ ~cached.deleting /\ ours
              \/ npc' = "addFinalizer" /\ ~cached.deleting
  <2>1. /\ CopiesKept /\ obj' = copy[Informer] /\ copy'[Informer] = copy[Informer]
    BY <1>1, <1>3, HoldersAre, ReadCachedFine DEF XInv, TypeOK, obj
  <2>2. CacheOK'
    BY <2>1 DEF XInv, CacheOK, CopiesKept, Unmarked
  <2>3. RoundOK'
    BY <1>3, <2>1 DEF XInv, CacheOK, RoundOK, CopiesKept, Unmarked
  <2>4. StreamsKept
    BY <1>1 DEF StreamsKept
  <2> QED
    BY <1>1, <1>2, <2>1, <2>2, <2>3, <2>4, SourcesKept, ExternalsKept
    DEF XInv, CopiesKept, TypeOK
<1>4. CASE UNCHANGED <<npc, apiVars>>
  <2>1. StreamsKept
    BY <1>1 DEF StreamsKept
  <2>2. CopiesKept
    BY <1>4, <2>1, UnchangedFine DEF XInv, TypeOK
  <2>3. SameView
    BY <1>4 DEF SameView, apiVars, obj
  <2>4. RoundOK'
    BY <1>4 DEF NetGet, RoundOK
  <2> QED
    BY <1>1, <1>2, <2>2, <2>3, <2>4, StepFine DEF CopiesKept
<1> QED
  BY <1>3, <1>4 DEF NetGet

\* The finalizer is added to the Network that was read.
LEMMA NetAddFinalizerFine ==
  ASSUME TypeOK, XInv, NetAddFinalizer PROVE XInv'
<1> USE DEF CreateSteps, DeleteSteps, SharedSteps
<1>0. obj \in Network /\ UNCHANGED <<creds, anckSecret, streams, aggregate>>
  BY HoldersAre DEF TypeOK, ApiTypeOK, obj, NetAddFinalizer, externalVars
<1>1. FewerExternals
  BY <1>0 DEF FewerExternals
<1> DEFINE new == [obj EXCEPT !.finalizers = @ \cup {NetworkFinalizer}]
<1>2. /\ new \in Network /\ new.Participating = obj.Participating
      /\ new.exists = obj.exists /\ new.deleting = obj.deleting
      /\ NetworkFinalizer \in new.finalizers
  BY <1>0 DEF Network, Finalizers
<1>3. \/ Accepts(NetWorker, new) /\ Update(NetWorker, new) /\ Goto("desiredState")
      \/ ReturnError
  BY DEF NetAddFinalizer
<1> HIDE DEF new
<1>4. CASE Accepts(NetWorker, new) /\ Update(NetWorker, new) /\ Goto("desiredState")
  <2>1. /\ WrittenBy(new) /\ copy'[NetWorker] = new /\ new.exists
        /\ \A g \in Holders \ {NetWorker} : copy'[g] = copy[g]
    BY <1>0, <1>2, <1>4, HoldersAre, UpdateFine DEF XInv, TypeOK, obj
  <2>2. Held'
    BY <1>2, <1>4, <2>1 DEF Update, Stored, Held
  <2>3. SameView
    BY <1>2, <2>1, HoldersAre DEF SameView, obj
  <2>4. ~obj.deleting /\ ~obj'.deleting
    BY <1>2, <2>1 DEF XInv, RoundOK, NetAddFinalizer, obj
  <2>5. RoundOK'
    BY <1>4, <2>2, <2>4 DEF RoundOK, Goto
  <2> QED
    BY <1>0, <1>1, <2>1, <2>2, <2>3, <2>5, StepFine DEF WrittenBy
<1> QED
  BY <1>0, <1>1, <1>3, <1>4, ReturnErrorFine

\* A step that leaves the API server alone and goes on in the round.
LEMMA LocalFine ==
  ASSUME TypeOK, XInv, UNCHANGED <<apiVars, streams, aggregate>>, RoundOK',
         FewerExternals \/ Held
  PROVE  XInv'
<1>1. StreamsKept
  BY DEF StreamsKept
<1>2. CopiesKept
  BY <1>1, UnchangedFine DEF XInv, TypeOK
<1>3. SameView
  BY DEF SameView, apiVars, obj
<1> QED
  BY <1>2, <1>3, StepFine DEF CopiesKept

\* The account and the secrets come with the finalizer.
LEMMA NetAccountFine ==
  ASSUME TypeOK, XInv, NetDesiredState \/ NetSecrets
  PROVE  XInv'
<1> USE DEF CreateSteps, DeleteSteps, SharedSteps
<1>1. Held /\ ~obj.deleting /\ UNCHANGED <<streams, aggregate>>
  BY DEF XInv, RoundOK, NetDesiredState, NetSecrets
<1>2. CASE ReturnError
  BY <1>1, <1>2, ReturnErrorFine
<1>3. CASE /\ UNCHANGED apiVars
           /\ npc' \in {"secrets", "getAccount", "createMain", "confirmAccount"}
  <2>1. Held' /\ ~obj'.deleting
    BY <1>1, <1>3 DEF apiVars, Held, obj
  <2>2. RoundOK'
    BY <1>3, <2>1 DEF RoundOK
  <2> QED
    BY <1>1, <1>3, <2>2, LocalFine
<1> QED
  BY <1>2, <1>3 DEF NetDesiredState, NetSecrets, Goto

\* SetNetworkAccountName reads and writes the Network as it is stored.
LEMMA NetSetAccountFine ==
  ASSUME TypeOK, XInv, NetGetAccount \/ NetSetAccount \/ NetConfirmAccount
  PROVE  XInv'
<1> USE DEF CreateSteps, DeleteSteps, SharedSteps
<1>0. /\ Held /\ ~obj.deleting
      /\ UNCHANGED <<creds, anckSecret, streams, aggregate>>
      /\ network \in Network /\ copy[Account] \in Network
  BY HoldersAre
  DEF XInv, RoundOK, NetGetAccount, NetSetAccount, NetConfirmAccount, externalVars,
      TypeOK, ApiTypeOK
<1>1. CASE ReturnError
  BY <1>0, <1>1, ReturnErrorFine
<1>2. ASSUME CopiesOK', Forward, Held', copy'[NetWorker] = copy[NetWorker],
             copy'[Informer] = copy[Informer],
             npc' \in {"setAccount", "secrets", "createMain"}
      PROVE  XInv'
  <2>1. SameView /\ ~obj'.deleting
    BY <1>0, <1>2 DEF SameView, obj
  <2>2. RoundOK'
    BY <1>2, <2>1 DEF RoundOK
  <2> QED
    BY <1>0, <1>2, <2>1, <2>2, StepFine
<1>3. CASE NetGetAccount
  <2> DEFINE new == [network EXCEPT !.UsedAccount = TRUE]
  <2>1. new \in Network /\ Agrees(new) /\ new.Participating = network.Participating
    BY <1>0 DEF Network, Agrees, Held
  <2>2. CASE ReadInto(Account, new) /\ network.exists /\ Goto("setAccount")
    <3> HIDE DEF new
    <3>1. CopiesKept /\ \A g \in Holders \ {Account} : copy'[g] = copy[g]
      BY <1>0, <2>1, <2>2, HoldersAre, ReadFine DEF XInv, CopiesOK, TypeOK
    <3> QED
      BY <1>0, <1>2, <2>2, <3>1, HoldersAre DEF CopiesKept, Goto
  <2> QED
    BY <1>1, <1>3, <2>2 DEF NetGetAccount
<1>4. Accepts(Account, copy[Account]) => NetworkFinalizer \in copy[Account].finalizers
  BY <1>0 DEF XInv, CopiesOK, Accepts, Agrees, Held
<1>5. CASE NetSetAccount
  <2>1. CASE /\ Accepts(Account, copy[Account]) /\ Goto("secrets")
             /\ Update(Account, copy[Account])
    <3>1. /\ WrittenBy(copy[Account])
          /\ \A g \in Holders \ {Account} : copy'[g] = copy[g]
      BY <1>0, <2>1, HoldersAre, UpdateFine DEF XInv, TypeOK
    <3> QED
      BY <1>0, <1>2, <1>4, <2>1, <3>1, HoldersAre DEF WrittenBy, Goto
  <2> QED
    BY <1>1, <1>5, <2>1 DEF NetSetAccount
<1>6. CASE NetConfirmAccount
  <2>1. CASE /\ Accepts(Account, copy[Account]) /\ Goto("createMain")
             /\ UpdateAndDrop({Account}, copy[Account])
    <3>1. /\ WrittenBy(copy[Account])
          /\ \A g \in Holders \ {Account} : copy'[g] = copy[g]
      BY <1>0, <2>1, HoldersAre, UpdateAndDropFine DEF XInv, TypeOK
    <3> QED
      BY <1>0, <1>2, <1>4, <2>1, <3>1, HoldersAre DEF WrittenBy, Goto
  <2> QED
    BY <1>1, <1>6, <2>1 DEF NetConfirmAccount
<1> QED
  BY <1>3, <1>5, <1>6

\* createMainJetstreams adds to the streams of the main domain, and gives the
\* aggregate stream the nodes that are active in its copy of the Network.
LEMMA MainOutcomesFine ==
  ASSUME TypeOK, XInv, NEW std \in StandardOutcomes, NEW agg \in AggregateOutcomes
  PROVE  /\ streams[Main] \subseteq std.streams
         /\ ~agg.aggregate.exists => agg.aggregate.sources = {}
         /\ \A d \in agg.aggregate.sources :
              (d = Main => Wanted) => NodeStreams \subseteq streams[d]
<1>1. streams[Main] \subseteq std.streams
  BY DEF StandardOutcomes
<1>2. agg.aggregate \in {aggregate, AggregateWith(ActiveNodes)}
  BY DEF AggregateOutcomes
<1>3. \A d \in ActiveNodes : (d = Main => Wanted) => NodeStreams \subseteq streams[d]
  BY HoldersAre DEF ActiveNodes, XInv, CopiesOK, CopyOK, ActiveOK, obj
<1>4. CASE agg.aggregate = aggregate
  BY <1>1, <1>4 DEF XInv, SourcesOK
<1>5. CASE agg.aggregate = [exists |-> TRUE, sources |-> ActiveNodes]
  <2>1. agg.aggregate.exists /\ agg.aggregate.sources = ActiveNodes
    BY <1>5
  <2> QED
    BY <1>1, <1>3, <2>1
<1> QED
  BY <1>2, <1>4, <1>5 DEF AggregateWith

\* The streams of the main domain and the aggregate stream come with the
\* finalizer.
LEMMA NetCreateMainFine ==
  ASSUME TypeOK, XInv, NetCreateMain PROVE XInv'
<1> USE DEF CreateSteps, DeleteSteps, SharedSteps
<1>0. /\ Held /\ ~obj.deleting /\ obj \in Network
      /\ UNCHANGED <<creds, anckSecret, network, current>>
      /\ npc' \in {"jetstreams", "writeMain"}
      /\ Main \in Domains
  BY HoldersAre DEF XInv, RoundOK, NetCreateMain, TypeOK, ApiTypeOK, Goto, obj, Domains
<1>1. CASE UNCHANGED <<streams, aggregate, copy>>
  <2>1. UNCHANGED apiVars /\ ~obj'.deleting
    BY <1>0, <1>1 DEF apiVars, obj
  <2>2. RoundOK'
    BY <1>0, <2>1 DEF RoundOK
  <2> QED
    BY <1>0, <1>1, <2>1, <2>2, LocalFine
<1>2. ASSUME NEW std \in StandardOutcomes, NEW agg \in AggregateOutcomes,
             streams' = [streams EXCEPT ![Main] = std.streams],
             aggregate' = agg.aggregate,
             copy' = [copy EXCEPT ![NetWorker].MainDomain =
                        [Standard |-> std.info, Aggregate |-> agg.info]]
      PROVE  XInv'
  <2> DEFINE main == [Standard |-> std.info, Aggregate |-> agg.info]
             new == [obj EXCEPT !.MainDomain = main]
  <2>1. main \in MainDomainSpec
    BY MainOutcomesTyped
  <2>2. copy' = [copy EXCEPT ![NetWorker] = new]
    BY <1>2, HoldersAre DEF obj, TypeOK, ApiTypeOK
  <2> HIDE DEF main
  <2>3. /\ new \in Network /\ new.Participating = obj.Participating
        /\ new.exists = obj.exists /\ new.deleting = obj.deleting
        /\ new.finalizers = obj.finalizers
    BY <1>0, <2>1 DEF Network
  <2>4. StreamsKept /\ Forward
    BY <1>0, <1>2, MainOutcomesFine DEF StreamsKept, Forward, Wanted, TypeOK, NetTypeOK
  <2>5. ActiveThen(obj.Participating)
    BY <2>4, HoldersAre, ActiveStable DEF XInv, CopiesOK, CopyOK, obj
  <2> HIDE DEF new
  <2>6. CopiesKept /\ \A g \in Holders \ {NetWorker} : copy'[g] = copy[g]
    BY <1>0, <2>2, <2>3, <2>4, <2>5, HoldersAre, EditFine DEF XInv, TypeOK, obj
  <2>7. obj' = new
    BY <2>2, HoldersAre DEF obj, TypeOK, ApiTypeOK
  <2>8. SameView /\ RoundOK'
    BY <1>0, <2>3, <2>6, <2>7, HoldersAre DEF SameView, RoundOK
  <2>9. SourcesOK'
    <3>1. \A d \in aggregate'.sources :
            (d = Main => Wanted) => NodeStreams \subseteq streams[d]
      BY <1>2, MainOutcomesFine
    <3>2. aggregate'.sources \subseteq Domains
      BY <1>2, MainOutcomesTyped
    <3> QED
      BY <1>2, <2>4, <3>1, <3>2, MainOutcomesFine DEF SourcesOK, StreamsKept, Forward
  <2> QED
    BY <1>0, <2>6, <2>8, <2>9, CacheKept, ExternalsKept DEF XInv, CopiesKept
<1> QED
  BY <1>1, <1>2 DEF NetCreateMain

\* updateInfoAndReturn of createMainJetstreams.
LEMMA NetWriteMainFine ==
  ASSUME TypeOK, XInv, NetWriteMain PROVE XInv'
<1> USE DEF CreateSteps, DeleteSteps, SharedSteps
<1>0. /\ ~obj.deleting /\ obj \in Network /\ npc' = "jetstreams"
      /\ UNCHANGED <<creds, anckSecret, streams, aggregate>>
  BY HoldersAre DEF XInv, RoundOK, NetWriteMain, TypeOK, ApiTypeOK, Goto, obj,
    externalVars
<1>1. FewerExternals
  BY <1>0 DEF FewerExternals
<1>2. CASE UNCHANGED apiVars
  <2>1. RoundOK'
    BY <1>0, <1>2 DEF RoundOK, apiVars, obj
  <2> QED
    BY <1>0, <1>1, <1>2, <2>1, LocalFine
<1>3. CASE Accepts(NetWorker, obj) /\ Update(NetWorker, obj)
  <2>1. /\ WrittenBy(obj) /\ copy'[NetWorker] = obj /\ Agrees(obj)
        /\ \A g \in Holders \ {NetWorker} : copy'[g] = copy[g]
    BY <1>0, <1>3, HoldersAre, UpdateFine DEF XInv, TypeOK, obj
  <2>2. Held => Held'
    BY <2>1 DEF WrittenBy, Agrees, Held
  <2>3. SameView /\ RoundOK'
    BY <1>0, <2>1, HoldersAre DEF SameView, RoundOK, obj
  <2> QED
    BY <1>0, <1>1, <2>1, <2>2, <2>3, StepFine DEF WrittenBy
<1> QED
  BY <1>2, <1>3 DEF NetWriteMain

\* The end of reconcileJetstreams without a write.
LEMMA AfterJetstreamsFine ==
  ASSUME TypeOK, XInv, npc \in SharedSteps, NEW error \in BOOLEAN,
         AfterJetstreams(error), KeepOrDrop, UNCHANGED externalVars
  PROVE  XInv'
<1> USE DEF CreateSteps, DeleteSteps, SharedSteps
<1>0. FewerExternals /\ UNCHANGED <<streams, aggregate>>
  BY DEF externalVars, FewerExternals
<1>1. CASE obj.deleting
  <2>1. npc' = "deleteNetwork" /\ (~failed' => ~failed) /\ UNCHANGED apiVars
    BY <1>1 DEF AfterJetstreams, KeepOrDrop
  <2>2. RoundOK'
    BY <1>0, <1>1, <2>1 DEF RoundOK, XInv, apiVars, obj, MainCleared
  <2> QED
    BY <1>0, <2>1, <2>2, LocalFine
<1>2. CASE ~obj.deleting
  BY <1>0, <1>2, ReturnErrorFine DEF AfterJetstreams, KeepOrDrop, ReturnError
<1> QED
  BY <1>1, <1>2

\* The loop of reconcileJetstreams starts.
LEMMA NetJetstreamsFine ==
  ASSUME TypeOK, XInv, NetJetstreams PROVE XInv'
<1> USE DEF CreateSteps, DeleteSteps, SharedSteps
<1>0. FewerExternals /\ UNCHANGED <<streams, aggregate, creds, anckSecret>>
  BY DEF NetJetstreams, externalVars, FewerExternals
<1>1. CASE npc' = "nodes" /\ UNCHANGED <<failed, apiVars>>
  <2>1. RoundOK'
    BY <1>0, <1>1 DEF NetJetstreams, RoundOK, XInv, apiVars, obj, MainCleared
  <2> QED
    BY <1>0, <1>1, <2>1, LocalFine
<1>2. CASE AfterJetstreams(TRUE) /\ KeepOrDrop
  BY <1>2, AfterJetstreamsFine DEF NetJetstreams
<1> QED
  BY <1>1, <1>2 DEF NetJetstreams

\* A node is active after its turn if it was before, or if its streams were
\* created in this turn; the finalizer of anck is not touched.
LEMMA NodeTurnFine ==
  ASSUME NEW o \in Network, NEW d \in Domains, NEW created \in BOOLEAN
  PROVE  /\ \A e \in Domains :
              NodeTurn(o, d, created).Participating.Nodes[e] = "active"
                => o.Participating.Nodes[e] = "active" \/ (e = d /\ created)
         /\ NetworkFinalizer \in NodeTurn(o, d, created).finalizers
              <=> NetworkFinalizer \in o.finalizers
<1>1. o.Participating \in ParticipatingSpec /\ d # NetworkFinalizer
  BY FinalizerAssumption DEF Network
<1> DEFINE i == o.Participating
           t == NodeTurn(o, d, created)
<1>2. /\ t.finalizers \in {o.finalizers, o.finalizers \cup {d}, o.finalizers \ {d}}
      /\ \/ t.Participating = NodeActivated(i, d) /\ created
         \/ t.Participating \in {i, CreatingMoved(i), NodeRemoved(i, d),
                                 TerminatedRemoved(i, d)}
  BY DEF NodeTurn, Network
<1>3. \A e \in Domains :
        /\ e # d => NodeActivated(i, d).Nodes[e] = i.Nodes[e]
        /\ CreatingMoved(i).Nodes[e] = i.Nodes[e]
        /\ NodeRemoved(i, d).Nodes[e] \in {"none", i.Nodes[e]}
        /\ TerminatedRemoved(i, d).Nodes[e] = i.Nodes[e]
  BY <1>1 DEF ParticipatingSpec, NodeActivated, CreatingMoved, NodeRemoved,
    TerminatedRemoved
<1> HIDE DEF t
<1>4. \A e \in Domains : t.Participating.Nodes[e] = "active"
        => i.Nodes[e] = "active" \/ (e = d /\ created)
  BY <1>2, <1>3
<1>5. NetworkFinalizer \in t.finalizers <=> NetworkFinalizer \in o.finalizers
  BY <1>1, <1>2
<1> QED
  BY <1>4, <1>5 DEF t

\* One iteration of the loop.
LEMMA NetNodeFine ==
  ASSUME TypeOK, XInv, NEW d \in Domains, NetNode(d) PROVE XInv'
<1> USE DEF CreateSteps, DeleteSteps, SharedSteps
<1>0. /\ obj \in Network /\ Main \in Domains /\ npc = "nodes"
      /\ UNCHANGED <<npc, failed, creds, anckSecret, aggregate, network, current>>
  BY HoldersAre DEF TypeOK, ApiTypeOK, obj, Domains, NetNode
<1>1. PICK created \in BOOLEAN, made \in SUBSET NodeStreams :
        /\ created => made = NodeStreams
        /\ streams' = [streams EXCEPT ![d] = @ \cup made]
        /\ copy' = [copy EXCEPT ![NetWorker] = NodeTurn(obj, d, created)]
  BY DEF NetNode
<1> DEFINE new == NodeTurn(obj, d, created)
<1>2. /\ new \in Network /\ new.exists = obj.exists /\ new.deleting = obj.deleting
      /\ NetworkFinalizer \in new.finalizers <=> NetworkFinalizer \in obj.finalizers
      /\ \A e \in Domains : new.Participating.Nodes[e] = "active"
           => obj.Participating.Nodes[e] = "active" \/ (e = d /\ created)
  BY <1>0, NodeTurnTyped, NodeTurnFine
<1>3. copy' = [copy EXCEPT ![NetWorker] = new]
  BY <1>1
<1> HIDE DEF new
<1>4. \A e \in Domains : /\ streams[e] \subseteq streams'[e]
                         /\ streams'[e] \subseteq streams[e] \cup NodeStreams
                         /\ e = d /\ created => NodeStreams \subseteq streams'[e]
  BY <1>1 DEF TypeOK, NetTypeOK
<1>5. StreamsKept /\ Forward
  BY <1>0, <1>4 DEF StreamsKept, Forward, Wanted
<1>6. ActiveThen(obj.Participating)
  BY <1>5, HoldersAre, ActiveStable DEF XInv, CopiesOK, CopyOK, obj
<1>7. ActiveThen(new.Participating)
  BY <1>2, <1>4, <1>6 DEF ActiveThen
<1>8. CopiesKept /\ \A g \in Holders \ {NetWorker} : copy'[g] = copy[g]
  BY <1>0, <1>2, <1>3, <1>5, <1>7, HoldersAre, EditFine DEF XInv, TypeOK, obj
<1>9. obj' = new
  BY <1>3, HoldersAre DEF obj, TypeOK, ApiTypeOK
<1>10. Standard \in streams'[Main] => Standard \in streams[Main]
  BY <1>0, <1>4, NetworkAssumption
<1>11. FewerExternals /\ SameView
  BY <1>0, <1>2, <1>8, <1>9, <1>10, HoldersAre DEF FewerExternals, SameView
<1>12. RoundOK'
  BY <1>0, <1>2, <1>9, <1>10 DEF RoundOK, XInv, MainCleared
<1> QED
  BY <1>0, <1>5, <1>8, <1>11, <1>12, CacheKept, SourcesKept, ExternalsKept
  DEF XInv, CopiesKept, TypeOK

\* The write at the end of the loop.
LEMMA NetWriteNodesFine ==
  ASSUME TypeOK, XInv, NetWriteNodes PROVE XInv'
<1> USE DEF CreateSteps, DeleteSteps, SharedSteps
<1>0. /\ obj \in Network /\ npc = "nodes" /\ UNCHANGED externalVars
      /\ FewerExternals /\ UNCHANGED <<streams, aggregate, creds, anckSecret>>
  BY HoldersAre DEF TypeOK, ApiTypeOK, obj, NetWriteNodes, externalVars, FewerExternals
<1>1. CASE KeepOrDrop /\ (AfterJetstreams(TRUE) \/ AfterJetstreams(FALSE))
  BY <1>0, <1>1, AfterJetstreamsFine
<1>2. CASE /\ Accepts(NetWorker, obj) /\ AfterJetstreams(FALSE)
           /\ obj.deleting /\ Update(NetWorker, obj)
  <2>1. /\ WrittenBy(obj) /\ copy'[NetWorker] = obj /\ Agrees(obj)
        /\ \A g \in Holders \ {NetWorker} : copy'[g] = copy[g]
    BY <1>0, <1>2, HoldersAre, UpdateFine DEF XInv, TypeOK, obj
  <2>2. Held => Held'
    BY <2>1 DEF WrittenBy, Agrees, Held
  <2>3. SameView
    BY <2>1, HoldersAre DEF SameView, obj
  <2>4. npc' = "deleteNetwork" /\ (~failed' => ~failed)
    BY <1>2 DEF AfterJetstreams
  <2>5. RoundOK'
    BY <1>0, <1>2, <2>1, <2>4 DEF RoundOK, XInv, MainCleared, obj
  <2> QED
    BY <1>0, <2>1, <2>2, <2>3, <2>5, StepFine DEF WrittenBy
<1>3. CASE /\ Accepts(NetWorker, obj) /\ AfterJetstreams(FALSE)
           /\ ~obj.deleting /\ UpdateAndDrop({NetWorker, Account}, obj)
  <2>1. /\ WrittenBy(obj) /\ Agrees(obj) /\ ~copy'[NetWorker].deleting
        /\ \A g \in Holders \ {NetWorker, Account} : copy'[g] = copy[g]
    BY <1>0, <1>3, HoldersAre, UpdateAndDropFine DEF XInv, TypeOK, obj
  <2>2. Held => Held'
    BY <2>1 DEF WrittenBy, Agrees, Held
  <2>3. SameView
    BY <2>1, HoldersAre DEF SameView, obj
  <2>4. RoundOK'
    BY <1>3, ReturnFine DEF AfterJetstreams, Return
  <2> QED
    BY <1>0, <2>1, <2>2, <2>3, <2>4, StepFine DEF WrittenBy
<1> QED
  BY <1>1, <1>2, <1>3 DEF NetWriteNodes

\* The streams of the main domain are deleted: the Network is to be deleted.
LEMMA NetDeleteMainFine ==
  ASSUME TypeOK, XInv, NetDeleteMain PROVE XInv'
<1> USE DEF CreateSteps, DeleteSteps, SharedSteps
<1>0. /\ obj.deleting /\ ~Wanted /\ Main \in Domains /\ npc' = "jetstreams"
      /\ UNCHANGED <<creds, anckSecret, apiVars>>
  BY HoldersAre DEF XInv, RoundOK, CopiesOK, CopyOK, obj, Domains, NetDeleteMain
<1>1. /\ \A d \in Domains \ {Main} : streams'[d] = streams[d]
      /\ streams'[Main] \subseteq streams[Main]
      /\ aggregate' \in {aggregate, [exists |-> FALSE, sources |-> {}]}
      /\ ~failed' => streams'[Main] = {} /\ ~aggregate'.exists
  <2>1. streams \in [Domains -> SUBSET (NodeStreams \cup {Standard})]
    BY DEF TypeOK, NetTypeOK
  <2> QED
    BY <1>0, <2>1 DEF NetDeleteMain
<1>2. StreamsKept /\ UNCHANGED <<network, copy, current>>
  BY <1>0, <1>1 DEF StreamsKept, apiVars
<1>3. CopiesKept /\ SameView
  BY <1>0, <1>2, UnchangedFine DEF XInv, TypeOK, SameView, obj
<1>4. (aggregate'.exists => aggregate.exists) /\ FewerExternals
  BY <1>0, <1>1 DEF FewerExternals
<1>5. SourcesOK'
  <2>1. CASE aggregate' = aggregate
    BY <1>2, <1>3, <2>1, SourcesKept DEF XInv, TypeOK, CopiesKept
  <2>2. CASE aggregate' = [exists |-> FALSE, sources |-> {}]
    BY <2>2 DEF SourcesOK
  <2> QED
    BY <1>1, <2>1, <2>2
<1>6. RoundOK'
  BY <1>0, <1>1, <1>2 DEF RoundOK, MainCleared, obj
<1> QED
  BY <1>3, <1>4, <1>5, <1>6, CacheKept, ExternalsKept DEF XInv, CopiesKept

\* The account and the secrets are removed.
LEMMA NetRemoveFine ==
  ASSUME TypeOK, XInv, NetDeleteNetwork \/ NetRemoveSecrets PROVE XInv'
<1> USE DEF CreateSteps, DeleteSteps, SharedSteps
<1>0. (creds' => creds) /\ (anckSecret' => anckSecret)
  <2>1. /\ creds' = creds \/ creds' = FALSE
        /\ anckSecret' = anckSecret \/ anckSecret' = FALSE
    BY DEF NetDeleteNetwork, NetRemoveSecrets
  <2>2. creds' => creds
    BY <2>1, Zenon
  <2>3. anckSecret' => anckSecret
    BY <2>1, Zenon
  <2> QED
    BY <2>2, <2>3
<1>1. obj.deleting /\ UNCHANGED <<streams, aggregate>> /\ FewerExternals
  BY <1>0 DEF XInv, RoundOK, NetDeleteNetwork, NetRemoveSecrets, FewerExternals
<1>2. CASE ReturnError
  BY <1>1, <1>2, ReturnErrorFine
<1>3. CASE NetDeleteNetwork /\ Goto("removeSecrets") /\ UNCHANGED apiVars /\ ~creds'
  <2>1. RoundOK'
    BY <1>1, <1>3 DEF NetDeleteNetwork, RoundOK, XInv, Goto, apiVars, obj, MainCleared
  <2> QED
    BY <1>1, <1>3, <2>1, LocalFine
<1>4. CASE /\ NetRemoveSecrets /\ Goto("removeFinalizer") /\ UNCHANGED apiVars
           /\ ~anckSecret' /\ ~failed
  <2>1. RoundOK'
    BY <1>1, <1>4 DEF NetRemoveSecrets, RoundOK, XInv, Goto, apiVars, obj, MainCleared
  <2> QED
    BY <1>1, <1>4, <2>1, LocalFine
<1> QED
  BY <1>2, <1>3, <1>4 DEF NetDeleteNetwork, NetRemoveSecrets

\* The finalizer is removed: nothing is left, and the cache knows of the
\* deletion.
LEMMA NetRemoveFinalizerFine ==
  ASSUME TypeOK, XInv, NetRemoveFinalizer PROVE XInv'
<1> USE DEF CreateSteps, DeleteSteps, SharedSteps
<1>0. /\ obj \in Network /\ obj.deleting /\ NoSetup
      /\ UNCHANGED <<streams, aggregate, creds, anckSecret>>
  BY HoldersAre
  DEF TypeOK, ApiTypeOK, XInv, RoundOK, MainCleared, NoSetup, obj,
      NetRemoveFinalizer, externalVars
<1>1. FewerExternals
  BY <1>0 DEF FewerExternals
<1> DEFINE new == [obj EXCEPT !.finalizers = @ \ {NetworkFinalizer}]
<1>2. /\ new \in Network /\ new.Participating = obj.Participating
      /\ new.exists = obj.exists /\ new.deleting = obj.deleting
  BY <1>0 DEF Network
<1>3. \/ /\ Accepts(NetWorker, new) /\ Return(FALSE)
         /\ UpdateAndDrop({NetWorker, Account}, new)
      \/ ReturnError
  BY DEF NetRemoveFinalizer
<1> HIDE DEF new
<1>4. CASE /\ Accepts(NetWorker, new) /\ Return(FALSE)
           /\ UpdateAndDrop({NetWorker, Account}, new)
  <2>1. /\ WrittenBy(new) /\ ~copy'[NetWorker].deleting
        /\ \A g \in Holders \ {NetWorker, Account} : copy'[g] = copy[g]
    BY <1>0, <1>2, <1>4, HoldersAre, UpdateAndDropFine DEF XInv, TypeOK, obj
  <2>2. CacheOK'
    BY <1>0, <2>1, HoldersAre DEF XInv, CacheOK, Unmarked, obj
  <2>3. RoundOK'
    BY <1>4, ReturnFine DEF Return
  <2>4. StreamsKept
    BY <1>0 DEF StreamsKept
  <2>5. SourcesOK' /\ SetupIsHeld'
    BY <1>0, <2>1, <2>4, SourcesKept
    DEF XInv, TypeOK, WrittenBy, SetupIsHeld, NoSetup
  <2> QED
    BY <2>1, <2>2, <2>3, <2>5 DEF XInv, WrittenBy
<1> QED
  BY <1>0, <1>1, <1>3, <1>4, ReturnErrorFine

\* Every step of the network controller.
LEMMA NetStepFine ==
  ASSUME TypeOK, XInv, NetNext PROVE XInv'
  BY NetGetFine, NetAddFinalizerFine, NetAccountFine, NetSetAccountFine,
     NetCreateMainFine, NetWriteMainFine, NetJetstreamsFine, NetNodeFine,
     NetWriteNodesFine, NetDeleteMainFine, NetRemoveFine, NetRemoveFinalizerFine
  DEF NetNext

-----------------------------------------------------------------------------
(* The pod controller, the cluster and the process.                        *)

\* Nothing outside, and nothing of the network controller, changes.
LEMMA ElsewhereFine ==
  ASSUME TypeOK, XInv, UNCHANGED netVars, CopiesOK', Forward, Held => Held',
         copy'[Informer] = copy[Informer], copy'[NetWorker] = copy[NetWorker]
  PROVE  XInv'
<1>1. UNCHANGED <<creds, anckSecret, streams, aggregate>>
  BY DEF netVars, externalVars
<1>2. SameView /\ FewerExternals /\ (obj'.deleting <=> obj.deleting)
  BY <1>1 DEF SameView, FewerExternals, obj
<1>3. RoundOK'
  BY <1>2, RoundKept DEF XInv
<1> QED
  BY <1>1, <1>2, <1>3, StepFine

\* The edits of the pod controller activate no node.
LEMMA PodEditsFine ==
  ASSUME NEW i \in ParticipatingSpec, NEW d \in Domains, NEW p \in PodNames,
         ActiveOK(i)
  PROVE  ActiveOK(PodCreating(i, d, p)) /\ ActiveOK(PodTerminating(i, d, p))
<1>1. \A e \in Domains :
        /\ PodCreating(i, d, p).Nodes[e] \in {i.Nodes[e], "pending"}
        /\ PodTerminating(i, d, p).Nodes[e] \in {i.Nodes[e], "terminating"}
  BY DEF PodCreating, PodTerminating, ParticipatingSpec
<1> QED
  BY <1>1 DEF ActiveOK

\* The steps of the pod controller.
LEMMA PodStepFine ==
  ASSUME TypeOK, PodInv, XInv, PodNext, UNCHANGED netVars PROVE XInv'
<1>0. /\ UNCHANGED streams /\ StreamsKept /\ network \in Network
      /\ network.Participating \in ParticipatingSpec
      /\ copy[PodWorker] \in Network
  BY HoldersAre DEF netVars, externalVars, StreamsKept, TypeOK, ApiTypeOK, Network
<1>1. CASE UNCHANGED apiVars
  <2>1. CopiesKept
    BY <1>0, <1>1, UnchangedFine DEF XInv, TypeOK
  <2> QED
    BY <1>1, <2>1, ElsewhereFine DEF CopiesKept, apiVars
<1>2. CASE Drop({PodWorker})
  <2>1. CopiesKept /\ \A g \in Holders \ {PodWorker} : copy'[g] = copy[g]
    BY <1>0, <1>2, HoldersAre, DropFine DEF XInv, TypeOK
  <2> QED
    BY <2>1, HoldersAre, ElsewhereFine DEF CopiesKept
<1>3. ASSUME NEW i \in ParticipatingSpec, ActiveOK(i), network.exists,
             ReadInto(PodWorker, [network EXCEPT !.Participating = i])
      PROVE  XInv'
  <2> DEFINE new == [network EXCEPT !.Participating = i]
  <2>1. new \in Network /\ new.Participating = i /\ Agrees(new)
    BY <1>0, <1>3 DEF Network, Agrees
  <2>2. ReadInto(PodWorker, new)
    BY <1>3
  <2> HIDE DEF new
  <2>3. CopiesKept /\ \A g \in Holders \ {PodWorker} : copy'[g] = copy[g]
    BY <1>0, <1>3, <2>1, <2>2, HoldersAre, ReadFine DEF XInv, TypeOK
  <2> QED
    BY <2>3, HoldersAre, ElsewhereFine DEF CopiesKept
<1>4. CASE PodCreateRead
  <2> DEFINE i == PodCreating(network.Participating, DomainOf(pod[key].node), key)
  <2>1. CASE /\ Present(pod[key]) /\ network.exists
             /\ ReadInto(PodWorker, [network EXCEPT !.Participating = i])
    <3>1. key \in PodNames /\ DomainOf(pod[key].node) \in Domains
      BY <1>4, <2>1 DEF PodCreateRead, PodInv, KeysBound, Bound, DomainOf, Domains, Present
    <3>2. i \in ParticipatingSpec /\ ActiveOK(i)
      BY <1>0, <3>1, PodEditsTyped, PodEditsFine DEF XInv, CopiesOK
    <3> HIDE DEF i
    <3> QED
      BY <1>3, <2>1, <3>2
  <2> QED
    BY <1>2, <1>4, <2>1 DEF PodCreateRead, PodRead, PodReturnError
<1>5. CASE PodDeleteRead
  <2> DEFINE i == PodTerminating(network.Participating, pod[key].node, key)
  <2>1. CASE /\ Present(pod[key]) /\ network.exists
             /\ ReadInto(PodWorker, [network EXCEPT !.Participating = i])
    <3>1. key \in PodNames /\ pod[key].node \in Domains
      BY <1>5, <2>1 DEF PodDeleteRead, PodInv, KeysBound, Bound, Domains
    <3>2. i \in ParticipatingSpec /\ ActiveOK(i)
      BY <1>0, <3>1, PodEditsTyped, PodEditsFine DEF XInv, CopiesOK
    <3> HIDE DEF i
    <3> QED
      BY <1>3, <2>1, <3>2
  <2> QED
    BY <1>2, <1>5, <2>1 DEF PodDeleteRead, PodRead, PodReturnError
<1>6. CASE PodWrite
  <2>1. CASE /\ Accepts(PodWorker, copy[PodWorker])
             /\ UpdateAndDrop({PodWorker}, copy[PodWorker])
    <3>1. /\ WrittenBy(copy[PodWorker]) /\ Agrees(copy[PodWorker])
          /\ \A g \in Holders \ {PodWorker} : copy'[g] = copy[g]
      BY <1>0, <2>1, HoldersAre, UpdateAndDropFine DEF XInv, TypeOK
    <3>2. Held => Held'
      BY <3>1 DEF WrittenBy, Agrees, Held
    <3> QED
      BY <3>1, <3>2, HoldersAre, ElsewhereFine DEF WrittenBy
  <2> QED
    BY <1>2, <1>6, <2>1 DEF PodWrite, PodReturnError
<1> QED
  BY <1>1, <1>2, <1>4, <1>5, <1>6 DEF PodNext, PodGet, PodRemoveFinalizers, PodReturnError

\* The Network was just created; nothing is outside.
LEMMA InitXInv == Init => XInv
<1> SUFFICES ASSUME Init PROVE XInv
  OBVIOUS
<1>1. /\ network = NewNetwork /\ current = {Informer}
      /\ \A h \in Holders : copy[h] \in {NewNetwork, NoNetwork}
      /\ copy[Informer] = NewNetwork /\ obj = NoNetwork
  BY HoldersAre DEF Init, ApiInit, obj
<1>2. /\ NewNetwork.exists /\ ~NewNetwork.deleting
      /\ NewNetwork.finalizers = {} /\ ~NoNetwork.deleting
      /\ NewNetwork.Participating = NoParticipants
      /\ NoNetwork.Participating = NoParticipants
  BY DEF NewNetwork, NoNetwork
<1>3. ActiveOK(NoParticipants)
  BY DEF ActiveOK, NoParticipants
<1>4. CopiesOK
  BY <1>1, <1>2, <1>3 DEF CopiesOK, CopyOK, Agrees
<1>5. CacheOK
  BY <1>1, <1>2 DEF CacheOK
<1>6. RoundOK
  BY DEF Init, NetInit, RoundOK, CreateSteps, DeleteSteps, SharedSteps
<1>7. SourcesOK /\ SetupIsHeld
  BY DEF Init, NetInit, SourcesOK, SetupIsHeld, NoSetup, Domains
<1> QED
  BY <1>4, <1>5, <1>6, <1>7 DEF XInv

\* Every step of the specification.
LEMMA NextXInv ==
  ASSUME IInv, XInv, [Next]_vars PROVE XInv'
<1>0. TypeOK /\ PodInv /\ ApiTypeOK /\ CopiesOK
  BY DEF IInv, PodInv, TypeOK, XInv
<1>1. CASE NetworkStep
  BY <1>0, <1>1, NetStepFine DEF NetworkStep
<1>2. CASE PodStep
  BY <1>0, <1>2, PodStepFine DEF PodStep
<1>3. CASE UNCHANGED <<apiVars, netVars>>
  <2>1. StreamsKept
    BY <1>3 DEF StreamsKept, netVars, externalVars
  <2>2. CopiesKept
    BY <1>0, <1>3, <2>1, UnchangedFine
  <2> QED
    BY <1>0, <1>3, <2>2, ElsewhereFine DEF CopiesKept, apiVars
<1>4. CASE WatchNetwork
  <2>1. UNCHANGED <<npc, failed, creds, anckSecret, streams, aggregate>>
    BY <1>4 DEF WatchNetwork, externalVars
  <2>2. /\ CopiesKept /\ copy'[Informer] = network /\ network' = network
        /\ obj' = obj
    BY <1>0, <1>4, <2>1, HoldersAre, WatchFine DEF WatchNetwork, obj
  <2>3. CacheOK'
    BY <2>2, HoldersAre DEF XInv, CopiesOK, CopyOK, CacheOK, Unmarked, Wanted, Held, obj
  <2>4. RoundOK'
    BY <2>1, <2>2 DEF XInv, RoundOK, CopiesKept, MainCleared
  <2>5. StreamsKept /\ FewerExternals
    BY <2>1 DEF StreamsKept, FewerExternals
  <2> QED
    BY <1>0, <2>1, <2>2, <2>3, <2>4, <2>5, SourcesKept, ExternalsKept
    DEF XInv, CopiesKept, TypeOK
<1>5. CASE DeleteNetwork
  <2>1. UNCHANGED netVars /\ UNCHANGED streams
    BY <1>5 DEF DeleteNetwork, netVars, externalVars
  <2>2. CopiesKept /\ copy' = copy
    BY <1>0, <1>5, <2>1, MarkDeletedFine DEF DeleteNetwork
  <2> QED
    BY <1>0, <2>1, <2>2, ElsewhereFine DEF CopiesKept
<1>6. CASE Restart
  <2>1. UNCHANGED <<creds, anckSecret, streams, aggregate>>
    BY <1>6 DEF Restart, externalVars
  <2>2. /\ CopiesKept /\ copy'[Informer] = network /\ network' = network
        /\ obj' = NoNetwork
    BY <1>0, <1>6, <2>1, HoldersAre, RestartFine DEF obj
  <2>3. CacheOK'
    BY <2>2, NoNetworkIdle DEF CacheOK, Unmarked, Held
  <2>4. RoundOK'
    BY <1>6, ReturnFine DEF Restart
  <2>5. StreamsKept /\ FewerExternals
    BY <2>1 DEF StreamsKept, FewerExternals
  <2> QED
    BY <1>0, <2>1, <2>2, <2>3, <2>4, <2>5, SourcesKept, ExternalsKept
    DEF XInv, CopiesKept, TypeOK
<1> QED
  BY <1>1, <1>2, <1>3, <1>4, <1>5, <1>6 DEF Next, ClusterStep, vars

-----------------------------------------------------------------------------
(* The theorems.                                                           *)

\* XInv is an invariant.
THEOREM ExternalsInvariance == Spec => []XInv
<1>1. IInv /\ XInv /\ [Next]_vars => XInv'
  BY NextXInv
<1> QED
  BY <1>1, InitXInv, Invariance, PTL DEF Spec

\* The account, anck's secret, the standard stream and the aggregate stream in
\* domain main exist only while the Network exists and has the finalizer that
\* makes reconcileDelete clean up, whichever calls fail.
THEOREM SetupHasFinalizer == Spec => []SetupIsHeld
<1>1. XInv => SetupIsHeld
  BY DEF XInv
<1> QED
  BY <1>1, ExternalsInvariance, PTL

\* A node that is recorded as active has its streams.
THEOREM ActiveNodesHaveStreams == Spec => []ActiveHasStreams
<1>1. XInv => ActiveHasStreams
  BY DEF XInv, CopiesOK, ActiveOK, ActiveHasStreams, info, Wanted, NoNetwork,
    NoParticipants
<1> QED
  BY <1>1, ExternalsInvariance, PTL

\* The aggregate stream has no source without streams.
THEOREM SourcesAreThere == Spec => []SourcesHaveStreams
<1>1. XInv => SourcesHaveStreams
  BY DEF XInv, SourcesOK, SetupIsHeld, NoSetup, SourcesHaveStreams, Wanted
<1> QED
  BY <1>1, ExternalsInvariance, PTL
=============================================================================
