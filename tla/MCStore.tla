------------------------------ MODULE MCStore -------------------------------
(* Store on small instances: constants for the .cfg files. *)
EXTENDS Store, TLC

CONSTANTS k1, k2, v1, v2

AllFaults == FaultKinds
AllSteps == Running
AllStepsAndDown == Running \cup {"down"}

\* Keys are interchangeable: Store compares them, and nothing else.
Symmetry == Permutations({k1, k2})

\* Not from the rename of a merged table until its inputs are gone for good,
\* nor while the unlinks of a FLUSHALL are being made and made durable.
OutsideWindows == Running \ (MergeWindow \cup {"wipe_unlink", "wipe_sync"})
OutsideWindowsOrDown == OutsideWindows \cup {"down"}

\* A kill, in addition, not between the cut of the log by a FLUSHALL, which
\* has no reply yet, and the fsync after it.
OutsideWindowsAndCut == OutsideWindows \ {"wipe_logsync"}

=============================================================================
