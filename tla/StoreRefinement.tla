-------------------------- MODULE StoreRefinement ---------------------------
(***************************************************************************)
(* The engine implements KvStore.  The dictionary is what a restart would  *)
(* read off the log and the directory; the values at risk are the ones     *)
(* some outcome of a power cut would leave.                                *)
(***************************************************************************)
EXTENDS MCStore

AtRisk ==
  LET views == {RestartView(l, d) : l \in LogsAfterPowerLoss, d \in DirsAfterPowerLoss}
  IN  [k \in Keys |-> {view[k] : view \in views}]

Kv == INSTANCE KvStore WITH
        db <- RestartView(log, dir), may <- AtRisk, up <- pc # "down"

\* Every step of the engine, crash or not, is one the dictionary allows: only
\* commands and time change a key, nothing else does on the way through a
\* flush, a merge or a restart, and no reply is released over data at risk.
ImplementsKvStore == Kv!Spec

=============================================================================
