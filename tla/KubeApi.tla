------------------------------ MODULE KubeApi ------------------------------
(***************************************************************************)
(* One Network resource in the Kubernetes API server, and the copies the   *)
(* anck process holds of it: the informer's cache, the object each of the  *)
(* two reconcilers works on, and the one SetNetworkAccountName fetches.    *)
(*                                                                         *)
(* A resourceVersion is only ever compared with the stored one, so it is   *)
(* the set current of the holders whose copy has the stored version.  An   *)
(* update that changes nothing keeps the version.                          *)
(***************************************************************************)
EXTENDS ParticipatingInfo, Naturals, Sequences

CONSTANT Faults   \* whether a call to the API server or a service may fail

ASSUME FaultsAssumption == Faults \in BOOLEAN

VARIABLES network,   \* the stored Network
          copy,      \* what each holder read (or last wrote)
          current    \* the holders whose copy has the stored resourceVersion

apiVars == <<network, copy, current>>

Informer == "informer"     \* the manager's cache, behind r.Get
NetWorker == "network"     \* the object NetworksReconciler works on
PodWorker == "pod"         \* the object PodsReconiler works on
Account == "account"       \* the object SetNetworkAccountName returns
Holders == {Informer, NetWorker, PodWorker, Account}

NetworkFinalizer == "network.edgefarm.io/finalizer"
Finalizers == Domains \cup {NetworkFinalizer}

\* A slash is not allowed in the name of a node.
ASSUME FinalizerAssumption == NetworkFinalizer \notin Domains

\* Info.MainDomain, for at most one standard and one aggregate stream.
MainDomainSpec ==
  [Standard : {"none", "created", "error"},
   Aggregate : [State : {"none", "created", "error"},
                SourceDomains : Seq(Domains)]]

NoMainDomain ==
  [Standard |-> "none",
   Aggregate |-> [State |-> "none", SourceDomains |-> << >>]]

\* UsedAccount tells whether the account name is set.
Network ==
  [exists : BOOLEAN, deleting : BOOLEAN, finalizers : SUBSET Finalizers,
   Participating : ParticipatingSpec, UsedAccount : BOOLEAN,
   MainDomain : MainDomainSpec]

\* No object; also what a holder that is not in use holds.
NoNetwork ==
  [exists |-> FALSE, deleting |-> FALSE, finalizers |-> {},
   Participating |-> NoParticipants, UsedAccount |-> FALSE,
   MainDomain |-> NoMainDomain]

NewNetwork == [NoNetwork EXCEPT !.exists = TRUE]

ApiTypeOK ==
  /\ network \in Network
  /\ copy \in [Holders -> Network]
  /\ current \subseteq Holders

ApiInit ==
  /\ network = NewNetwork
  /\ copy = [h \in Holders |-> IF h = Informer THEN NewNetwork ELSE NoNetwork]
  /\ current = {Informer}

-----------------------------------------------------------------------------
\* A live read by holder h, which then edits its object to f.
ReadInto(h, f) ==
  /\ copy' = [copy EXCEPT ![h] = f]
  /\ current' = current \cup {h}
  /\ UNCHANGED network

\* A read by h of the informer's cache: as fresh as the cache is.
ReadCached(h) ==
  /\ copy' = [copy EXCEPT ![h] = copy[Informer]]
  /\ current' = IF Informer \in current THEN current \cup {h} ELSE current \ {h}
  /\ UNCHANGED network

\* The API server takes an update only for the stored resourceVersion, and
\* takes no new finalizer on an object that is being deleted.
Accepts(h, new) ==
  /\ network.exists
  /\ h \in current
  /\ network.deleting => new.finalizers \subseteq network.finalizers

\* What is stored: an object being deleted goes with its last finalizer.
Stored(new) ==
  IF new.deleting /\ new.finalizers = {} THEN NoNetwork ELSE new

\* The update is stored.  h's object is the one the API server returned.
Update(h, new) ==
  /\ network' = Stored(new)
  /\ copy' = [copy EXCEPT ![h] = new]
  /\ current' = IF new = network THEN current ELSE {h}

\* The holders H drop their objects.
Dropped(H) == [h \in Holders |-> IF h \in H THEN NoNetwork ELSE copy[h]]

Drop(H) ==
  /\ copy' = Dropped(H)
  /\ current' = current \ H
  /\ UNCHANGED network

\* The update is stored and the holders H, the writer among them, drop theirs.
UpdateAndDrop(H, new) ==
  /\ network' = Stored(new)
  /\ copy' = Dropped(H)
  /\ current' = IF new = network THEN current \ H ELSE {}

-----------------------------------------------------------------------------
(* Steps of the API server and of its user.                                *)

\* The watch brings the cache up to date.
Watch ==
  /\ Informer \notin current
  /\ copy' = [copy EXCEPT ![Informer] = network]
  /\ current' = current \cup {Informer}
  /\ UNCHANGED network

\* The generation changes with everything but the metadata, and on deletion.
GenerationChanged(old, new) ==
  \/ old.deleting # new.deleting
  \/ old.Participating # new.Participating
  \/ old.UsedAccount # new.UsedAccount
  \/ old.MainDomain # new.MainDomain

\* The user deletes the Network.
MarkDeleted ==
  /\ network.exists
  /\ ~network.deleting
  /\ network' = Stored([network EXCEPT !.deleting = TRUE])
  /\ current' = {}
  /\ UNCHANGED copy

=============================================================================
