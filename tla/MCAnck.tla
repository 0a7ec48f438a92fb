------------------------------- MODULE MCAnck -------------------------------
(***************************************************************************)
(* Anck for TLC.  The constants are in the .cfg files; pods are all alike. *)
(***************************************************************************)
EXTENDS Anck, TLC

PodSymmetry == Permutations(PodNames)

\* Calls fail for some time only: from then on every step is one that Anck can
\* also take without faults.
Quiet == INSTANCE Anck WITH Faults <- FALSE

FaultsEnd == <>[][Quiet!Next]_vars

\* reconcileDelete is retried until it is done: when a Network is deleted, its
\* account, anck's secret and all its streams in domain main go for good, and
\* anck's finalizer with them, if the calls that fail do not fail for ever.
DeletionCompletes ==
  FaultsEnd => (network.deleting ~>
                  [](NoExternals /\ NetworkFinalizer \notin network.finalizers))

=============================================================================
