---------------------------- MODULE MCRunControl ----------------------------
(***************************************************************************)
(* Small instances of RunControl. A command or a reconciler is a model     *)
(* value and interchangeable with any other of its kind.                   *)
(***************************************************************************)
EXTENDS RunControl, TLC

Interchangeable == Permutations(Clis) \cup Permutations(Reconcilers)

\* Bound for the two-issue instance: agents stay silent, runs are younger than
\* 24 hours and lock files younger than stale_secs.
Quiet == agents = {} /\ old = {} /\ lockAged = {}

\* Cut of the liveness instance: no lock file reaches stale_secs. Nothing obliges
\* one to (LockAges has no fairness), so behaviours are left out and none ends early.
FreshLocks == lockAged = {}

\* Asserted of every state that is reached.
Typed == Assert(TypeOK, "ill-typed")

=============================================================================
