-------------------------------- MODULE Wal ---------------------------------
(***************************************************************************)
(* The write-ahead log (class Wal and replay() of wal.cpp) on a file whose *)
(* page cache the kernel keeps apart from the disk.  Operations are        *)
(* actions on the log's variables; the module that owns the log (Store)    *)
(* says when each one is called.                                           *)
(***************************************************************************)
EXTENDS Layers

CONSTANTS
  SyncPolicy,    \* "always", "everysec" or "no"
  group_commit,  \* set_group_commit: the event loop does the fsync
  FreshDir,      \* wal.log is created by this run, in an empty directory
  Faults,        \* the system calls that may fail
  MaxLog         \* bound: records the log may hold

FaultKinds == {"log_write", "log_sync", "log_truncate",
               "table_write", "rename", "dir_sync", "unlink"}

ASSUME WalAssumption ==
  /\ SyncPolicy \in {"always", "everysec", "no"}
  /\ group_commit \in BOOLEAN
  /\ FreshDir \in BOOLEAN
  /\ Faults \subseteq FaultKinds
  /\ MaxLog \in Nat

VARIABLES
  log,     \* wal.log as any process reads it: records, or Torn bytes
  dlog,    \* what is on the disk under its name
  synced,  \* how many leading records of log are in dlog too, for good
  dirty,   \* bytes_since_sync_ > 0
  dnamed   \* the directory entry "wal.log" is on the disk

walVars == <<log, dlog, synced, dirty, dnamed>>

\* What encode_record wrote and decode_record finds: the whole record, or
\* bytes whose length or checksum does not fit.
LogItem == Record \cup {Torn}

WalTypeOK ==
  /\ log \in Seq(LogItem)
  /\ dlog \in Seq(LogItem)
  /\ synced \in Nat
  /\ dirty \in BOOLEAN
  /\ dnamed \in BOOLEAN

WalInit ==
  /\ log = <<>>
  /\ dlog = <<>>
  /\ synced = 0
  /\ dirty = FALSE
  /\ dnamed = ~FreshDir

-----------------------------------------------------------------------------
(* The object's operations *)

SyncsEachAppend == SyncPolicy = "always" /\ ~group_commit

AppendOkUnforced(recs) ==
  /\ Len(log) + Len(recs) <= MaxLog
  /\ log' = log \o recs
  /\ dirty' = TRUE
  /\ UNCHANGED <<dlog, synced, dnamed>>

\* append and append_batch: one write of the encoded records, then the fsync
\* unless the event loop owes it.
AppendOk(recs) ==
  /\ Len(log) + Len(recs) <= MaxLog
  /\ log' = log \o recs
  /\ dlog' = IF SyncsEachAppend THEN log \o recs ELSE dlog
  /\ synced' = IF SyncsEachAppend THEN Len(log) + Len(recs) ELSE synced
  /\ dirty' = ~SyncsEachAppend
  /\ UNCHANGED dnamed

\* write_all gives up partway: some whole records and perhaps a piece of the
\* next one are in the file, and neither size_ nor bytes_since_sync_ moves.
AppendShort(recs) ==
  /\ "log_write" \in Faults
  /\ Len(log) + Len(recs) <= MaxLog
  /\ \E n \in 0..(Len(recs) - 1), piece \in {<<>>, <<Torn>>} :
       log' = log \o SubSeq(recs, 1, n) \o piece
  /\ UNCHANGED <<dlog, synced, dirty, dnamed>>

\* The records are in the file and the fsync that should follow fails.
AppendUnsynced(recs) ==
  /\ SyncsEachAppend
  /\ "log_sync" \in Faults
  /\ Len(log) + Len(recs) <= MaxLog
  /\ log' = log \o recs
  /\ dirty' = TRUE
  /\ UNCHANGED <<dlog, synced, dnamed>>

SyncOk ==
  /\ dlog' = log
  /\ synced' = Len(log)
  /\ dirty' = FALSE
  /\ UNCHANGED <<log, dnamed>>

\* truncate up to its fsync: ftruncate and the two counters.
CutLog ==
  /\ log' = <<>>
  /\ synced' = 0
  /\ dirty' = FALSE
  /\ UNCHANGED <<dlog, dnamed>>

\* maybe_sync; the second may not have passed, or the fsync may fail.
MaybeSync ==
  IF SyncPolicy = "everysec" /\ dirty THEN SyncOk \/ UNCHANGED walVars
  ELSE UNCHANGED walVars

-----------------------------------------------------------------------------
(* Crashes and recovery *)

\* A process that dies takes its counters with it and nothing else.
WalDies == dirty' = FALSE /\ UNCHANGED <<log, dlog, synced, dnamed>>

\* What wal.log may hold after power is lost: the synced records and any
\* part of what was appended since, the last one perhaps torn; or the bytes
\* last synced, which matters when they have been cut since.
LogsOnDisk ==
  {SubSeq(log, 1, n) : n \in synced..Len(log)}
  \cup {SubSeq(log, 1, n) \o <<Torn>> : n \in synced..(Len(log) - 1)}
  \cup {dlog}

\* A file whose name was never forced to disk may also be gone altogether.
LogsAfterPowerLoss == LogsOnDisk \cup (IF dnamed THEN {} ELSE {<<>>})

WalLosesPower(left) ==
  /\ log' = left
  /\ dlog' = left
  /\ synced' = Len(left)
  /\ dirty' = FALSE
  /\ dnamed' = (dnamed \/ (left \in LogsOnDisk /\ left # <<>>))

\* replay() cuts the damaged tail, and the constructor opens for append.
WalReopens ==
  /\ log' = Intact(log)
  /\ synced' = IF synced <= Len(Intact(log)) THEN synced ELSE Len(Intact(log))
  /\ dirty' = FALSE
  /\ UNCHANGED <<dlog, dnamed>>

=============================================================================
