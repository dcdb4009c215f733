------------------------------- MODULE Store --------------------------------
(***************************************************************************)
(* The storage engine (store.cpp) driven by the event loop (Server::run):  *)
(* a memtable in front of a newest-first vector of SSTables, the log, and  *)
(* the directory that holds both.  The process is single-threaded; what    *)
(* interleaves with it is the outside: the clock, failing system calls, a  *)
(* kill between any two system calls, and loss of power, after which only  *)
(* what was fsynced is sure to be there.  So every system call that        *)
(* changes the disk is a step of its own, and pc is where the process is.  *)
(***************************************************************************)
EXTENDS Wal

CONSTANTS
  Commands,            \* the client commands this instance issues
  kCompactionTrigger,  \* tables a run needs before it is merged
  use_compaction,      \* StoreOptions::use_compaction
  KillAt,              \* where the process may be killed (values of pc)
  PowerAt,             \* where power may be lost (values of pc)
  MaxSeq,              \* bound: highest table number
  MaxHeld,             \* bound: log records behind replies held at one time
  MaxNow               \* bound: the last time the clock shows

\* What clients may ask for, and the SIGTERM an operator may send.
CommandNames == {"set", "del", "del_many", "expire", "flush_all", "shutdown"}

\* Inside Server::run, flush, maybe_compact and flush_all, in their order.
LoopSteps  == {"serve", "sweep", "compact", "sync"}
FlushSteps == {"flush_write", "flush_rename", "flush_sync",
               "flush_truncate", "flush_logsync"}
MergeSteps == {"merge_write", "merge_rename", "merge_sync", "merge_unlink",
               "merge_unlink_sync", "merge_empty", "merge_empty_sync"}
WipeSteps  == {"wipe_unlink", "wipe_sync", "wipe_truncate", "wipe_logsync"}
Running    == LoopSteps \cup FlushSteps \cup MergeSteps \cup WipeSteps

\* From the rename of the merged table until its inputs are gone for good.
MergeWindow == {"merge_sync", "merge_unlink", "merge_unlink_sync",
                "merge_empty", "merge_empty_sync"}

SeqNo == 1..MaxSeq

\* A file is whole once finish() returned, and on the disk once it is synced.
File  == [data : Layer, status : {"partial", "whole", "synced"}]

ASSUME StoreAssumption ==
  /\ Nil \notin File
  /\ Commands \subseteq CommandNames
  /\ kCompactionTrigger \in Nat \ {0}
  /\ use_compaction \in BOOLEAN
  /\ KillAt \subseteq Running
  /\ PowerAt \subseteq Running \cup {"down"}
  /\ MaxSeq \in Nat
  /\ MaxHeld \in Nat
  /\ MaxNow \in Nat

VARIABLES
  memtable,       \* memtable_
  sstables,       \* sstables_, newest first: the number in each one's name
                  \* and the content of the file its descriptor holds open
  next_sequence,  \* next_sequence_
  dir,            \* the directory as a process sees it: table number -> file
  ddir,           \* the directory on the disk
  tmp,            \* flush.tmp or compact.tmp, whichever is being written
  pc,             \* where the process is
  job,            \* locals of the maybe_compact or flush_all in progress
  now,            \* the wall clock
  hist,           \* history: the states a client may find after a crash,
                  \* first what was acknowledged, last what is being served
  held,           \* history: a reply to a write is waiting for its fsync
  wiping          \* history: a FLUSHALL has started and not succeeded

memVars  == <<memtable, sstables, next_sequence>>
diskVars == <<dir, ddir, tmp>>
histVars == <<hist, held, wiping>>
vars == <<walVars, memVars, diskVars, pc, job, now, histVars>>

Table == [seq : SeqNo, data : Layer]
Db    == Layer
Job   == [at : Nat, target : 0..MaxSeq, paths : Seq(SeqNo), ok : BOOLEAN]
NoJob == [at |-> 0, target |-> 0, paths |-> <<>>, ok |-> TRUE]

\* Every variable keeps its type.
TypeOK ==
  /\ WalTypeOK
  /\ memtable \in Layer
  /\ sstables \in Seq(Table)
  /\ next_sequence \in 1..(MaxSeq + 1)
  /\ dir \in [SeqNo -> File \cup {Nil}]
  /\ ddir \in [SeqNo -> File \cup {Nil}]
  /\ tmp \in File \cup {Nil}
  /\ pc \in Running \cup {"down"}
  /\ job \in Job
  /\ now \in 1..(MaxNow + 1)
  /\ hist \in Seq(Db)
  /\ hist # <<>>
  /\ held \in BOOLEAN
  /\ wiping \in BOOLEAN

Last(s) == s[Len(s)]

Init ==
  /\ WalInit
  /\ memtable = EmptyLayer
  /\ sstables = <<>>
  /\ next_sequence = 1
  /\ dir = [n \in SeqNo |-> Nil]
  /\ ddir = [n \in SeqNo |-> Nil]
  /\ tmp = Nil
  /\ pc = "serve"
  /\ job = NoJob
  /\ now = 1
  /\ hist = <<EmptyLayer>>
  /\ held = FALSE
  /\ wiping = FALSE

-----------------------------------------------------------------------------
(* Reads *)

\* get answers with the value of this entry and ttl with its stamp.
Get(k) == Seen(Lookup(memtable, sstables, k), now)

\* What a table lookup answers after a restart on directory d: recency is
\* the number in the name.
DirLookup(d, k) ==
  LET hits == {n \in SeqNo : d[n] # Nil /\ d[n].data[k] # Nil}
  IN  IF hits = {} THEN Nil
      ELSE d[CHOOSE n \in hits : \A m \in hits : m <= n].data[k]

\* What clients would be served after a restart on log l and directory d.
RestartView(l, d) ==
  [k \in Keys |-> Seen(IF Replayed(l)[k] # Nil THEN Replayed(l)[k]
                       ELSE DirLookup(d, k), now)]

-----------------------------------------------------------------------------
(* Commands: the service phase of one iteration of the event loop *)

\* The states recs lead through, one per record, from state s.
Outcomes(s, recs) ==
  [i \in 1..Len(recs) |->
     [k \in Keys |-> IF Replayed(SubSeq(recs, 1, i))[k] = Nil THEN s[k]
                     ELSE Seen(Replayed(SubSeq(recs, 1, i))[k], now)]]

\* memtable_.bytes() against memtable_limit_bytes: how many bytes a value
\* has is not modelled, so any mutation may be the one that fills it.
MaybeFlush ==
  \/ UNCHANGED <<pc, tmp>>
  \/ /\ next_sequence <= MaxSeq
     /\ pc' = "flush_write"
     /\ tmp' = [data |-> memtable', status |-> "partial"]

\* The log first; only what it accepted reaches the memtable.
Mutate(recs) ==
  /\ Len(hist) + Len(recs) <= MaxHeld + 1
  /\ \/ /\ AppendOk(recs)
        /\ memtable' = [k \in Keys |-> IF Replayed(recs)[k] = Nil
                                       THEN memtable[k] ELSE Replayed(recs)[k]]
        /\ hist' = hist \o Outcomes(Last(hist), recs)
        /\ held' = TRUE
        /\ MaybeFlush
     \/ /\ AppendShort(recs) \/ AppendUnsynced(recs)
        /\ UNCHANGED <<memtable, hist, held, pc, tmp>>
  /\ UNCHANGED <<sstables, next_sequence, dir, ddir, job, now, wiping>>

Set(k, v, at) ==
  /\ pc = "serve" /\ "set" \in Commands
  /\ Mutate(<<[key |-> k, entry |-> Live(v, at)]>>)

Del(k) ==
  /\ pc = "serve" /\ "del" \in Commands
  /\ Mutate(<<[key |-> k, entry |-> Tombstone]>>)

DelMany(ks) ==
  /\ pc = "serve" /\ "del_many" \in Commands
  /\ Mutate([i \in 1..Len(ks) |-> [key |-> ks[i], entry |-> Tombstone]])

\* lookup, then set with the value found and the new stamp.
Expire(k, at) ==
  /\ pc = "serve" /\ "expire" \in Commands
  /\ Get(k) # Nil
  /\ Mutate(<<[key |-> k, entry |-> Live(Get(k).value, at)]>>)

-----------------------------------------------------------------------------
(* flush *)

Goto(label) == pc' = label

\* A step of the process that touches neither the log nor the reply history.
Quiet == UNCHANGED <<walVars, histVars, now>>

FsyncDirOk == ddir' = dir /\ dnamed' = TRUE /\ UNCHANGED <<log, dlog, synced, dirty>>

FlushWriteUnforced ==
  /\ pc = "flush_write"
  /\ \/ tmp' = [tmp EXCEPT !.status = "whole"] /\ Goto("flush_rename")
     \/ "table_write" \in Faults /\ tmp' = Nil /\ Goto("serve")
  /\ UNCHANGED <<memVars, dir, ddir, job>> /\ Quiet

FlushWrite ==
  /\ pc = "flush_write"
  /\ \/ tmp' = [tmp EXCEPT !.status = "synced"] /\ Goto("flush_rename")
     \/ "table_write" \in Faults /\ tmp' = Nil /\ Goto("serve")
  /\ UNCHANGED <<memVars, dir, ddir, job>> /\ Quiet

FlushRename ==
  /\ pc = "flush_rename"
  /\ tmp' = Nil
  /\ \/ dir' = [dir EXCEPT ![next_sequence] = tmp] /\ Goto("flush_sync")
     \/ "rename" \in Faults /\ UNCHANGED dir /\ Goto("serve")
  /\ UNCHANGED <<memVars, ddir, job>> /\ Quiet

FlushSyncSkipped ==
  /\ pc = "flush_sync"
  /\ Goto("flush_truncate")
  /\ UNCHANGED <<memVars, diskVars, job>> /\ Quiet

FlushSync ==
  /\ pc = "flush_sync"
  /\ \/ FsyncDirOk /\ Goto("flush_truncate")
     \/ "dir_sync" \in Faults /\ UNCHANGED <<ddir, walVars>> /\ Goto("serve")
  /\ UNCHANGED <<memVars, dir, tmp, job, now, histVars>>

FlushTruncate ==
  /\ pc = "flush_truncate"
  /\ \/ CutLog /\ Goto("flush_logsync")
     \/ "log_truncate" \in Faults /\ UNCHANGED walVars /\ Goto("serve")
  /\ UNCHANGED <<memVars, diskVars, job, now, histVars>>

FlushLogSync ==
  /\ pc = "flush_logsync"
  /\ Goto("serve")
  /\ \/ /\ SyncOk
        /\ sstables' = <<[seq |-> next_sequence,
                          data |-> dir[next_sequence].data]>> \o sstables
        /\ next_sequence' = next_sequence + 1
        /\ memtable' = EmptyLayer
     \/ "log_sync" \in Faults /\ UNCHANGED <<walVars, memVars>>
  /\ UNCHANGED <<diskVars, job, now, histVars>>

-----------------------------------------------------------------------------
(* The tail of an iteration: group commit, release, sweep, compaction *)

\* What a crash adds to the states a client may find: what the next process
\* will serve; and, if a FLUSHALL was under way, nothing at all.
Found == IF wiping THEN <<EmptyLayer, RestartView(log, dir)>>
         ELSE IF RestartView(log, dir) = Last(hist) THEN <<>>
         ELSE <<RestartView(log, dir)>>

\* What goes with the process, however it ends.
MemoryGone ==
  /\ Goto("down")
  /\ memtable' = EmptyLayer
  /\ sstables' = <<>>
  /\ next_sequence' = 1
  /\ job' = NoJob
  /\ held' = FALSE
  /\ wiping' = FALSE
  /\ hist' = hist \o Found
  /\ UNCHANGED <<diskVars, now>>

ProcessDies == MemoryGone /\ WalDies

EndBatchReleasesFirst ==
  /\ pc = "serve"
  /\ Goto("sweep")
  /\ hist' = IF held THEN <<Last(hist)>> ELSE hist
  /\ held' = FALSE
  /\ UNCHANGED <<walVars, memVars, diskVars, job, now, wiping>>

EndBatchIfDirty ==
  /\ pc = "serve"
  /\ Goto("sweep")
  /\ IF dirty THEN SyncOk ELSE UNCHANGED walVars
  /\ hist' = IF held /\ dirty THEN <<Last(hist)>> ELSE hist
  /\ held' = (held /\ ~dirty)
  /\ UNCHANGED <<memVars, diskVars, job, now, wiping>>

\* One fsync for all the iteration logged, then every held reply goes out.
EndBatch ==
  /\ pc = "serve"
  /\ Goto("sweep")
  /\ IF dirty THEN SyncOk ELSE UNCHANGED walVars
  /\ hist' = IF held THEN <<Last(hist)>> ELSE hist
  /\ held' = FALSE
  /\ UNCHANGED <<memVars, diskVars, job, now, wiping>>

\* The fsync fails: no reply is sent and the process exits.
EndBatchFails ==
  /\ pc = "serve"
  /\ dirty
  /\ "log_sync" \in Faults
  /\ ProcessDies

\* memtable_.sweep_expired looks at a bounded slice of the keys, so any of
\* the expired entries may be the ones it turns into tombstones.
SweepExpired ==
  /\ pc = "sweep"
  /\ Goto("compact")
  /\ \E swept \in SUBSET {k \in Keys :
            memtable[k] # Nil /\ Expired(memtable[k].expires_at_ms, now)} :
       memtable' = [k \in Keys |-> IF k \in swept THEN Tombstone ELSE memtable[k]]
  /\ UNCHANGED <<sstables, next_sequence, diskVars, job>> /\ Quiet

\* Too few tables, or none of like size.
NoCompaction ==
  /\ pc = "compact"
  /\ Goto("sync")
  /\ UNCHANGED <<memVars, diskVars, job>> /\ Quiet

\* A contiguous run of the vector, chosen by file size; sizes are not
\* modelled, so any run long enough may be the one.  It ends at the oldest
\* table or it may not drop anything.
Compact(first, last) ==
  /\ pc = "compact"
  /\ use_compaction
  /\ last - first + 1 >= kCompactionTrigger
  /\ Goto("merge_write")
  /\ tmp' = [data   |-> Merged(SubSeq(sstables, first, last),
                               last = Len(sstables), now),
             status |-> "partial"]
  /\ job' = [at |-> first, target |-> sstables[first].seq, ok |-> TRUE,
             paths |-> [i \in 1..(last - first) |-> sstables[first + i].seq]]
  /\ UNCHANGED <<memVars, dir, ddir>> /\ Quiet

\* Every way out of maybe_compact.
CompactionOver == Goto("sync") /\ job' = NoJob

MergeWrite ==
  /\ pc = "merge_write"
  /\ \/ /\ tmp' = [tmp EXCEPT !.status = "synced"]
        /\ Goto("merge_rename") /\ UNCHANGED job
     \/ "table_write" \in Faults /\ tmp' = Nil /\ CompactionOver
  /\ UNCHANGED <<memVars, dir, ddir>> /\ Quiet

MergeRename ==
  /\ pc = "merge_rename"
  /\ tmp' = Nil
  /\ \/ /\ dir' = [dir EXCEPT ![job.target] = tmp]
        /\ Goto("merge_sync") /\ UNCHANGED job
     \/ "rename" \in Faults /\ UNCHANGED dir /\ CompactionOver
  /\ UNCHANGED <<memVars, ddir>> /\ Quiet

Erased(from) ==
  SubSeq(sstables, 1, from - 1) \o
  SubSeq(sstables, job.at + Len(job.paths) + 1, Len(sstables))

MergeSyncErasesFirst ==
  /\ pc = "merge_sync"
  /\ sstables' = Erased(job.at)
  /\ \/ FsyncDirOk /\ Goto("merge_unlink") /\ UNCHANGED job
     \/ "dir_sync" \in Faults /\ CompactionOver /\ UNCHANGED <<ddir, walVars>>
  /\ UNCHANGED <<memtable, next_sequence, dir, tmp, now, histVars>>

MergeSyncKeepsFirst ==
  /\ pc = "merge_sync"
  /\ FsyncDirOk
  /\ sstables' = Erased(job.at + 1)
  /\ Goto("merge_unlink")
  /\ UNCHANGED <<memtable, next_sequence, dir, tmp, job, now, histVars>>

\* Once the merged name is durable the inputs leave the vector; if it cannot
\* be made durable they stay, still open on the content they had.
MergeSync ==
  /\ pc = "merge_sync"
  /\ \/ /\ FsyncDirOk
        /\ sstables' = Erased(job.at)
        /\ Goto("merge_unlink") /\ UNCHANGED job
     \/ /\ "dir_sync" \in Faults
        /\ CompactionOver /\ UNCHANGED <<sstables, ddir, walVars>>
  /\ UNCHANGED <<memtable, next_sequence, dir, tmp, now, histVars>>

\* unlink(paths[n]), newest of the rest first, its result ignored.
MergeUnlink ==
  /\ pc = "merge_unlink"
  /\ IF job.paths = <<>>
     THEN Goto("merge_unlink_sync") /\ UNCHANGED <<dir, job>>
     ELSE /\ \/ dir' = [dir EXCEPT ![Head(job.paths)] = Nil]
             \/ "unlink" \in Faults /\ UNCHANGED dir
          /\ job' = [job EXCEPT !.paths = Tail(@)]
          /\ UNCHANGED pc
  /\ UNCHANGED <<memVars, ddir, tmp>> /\ Quiet

FsyncDirSkipped == UNCHANGED <<ddir, walVars>>

\* fsync_dir, its result ignored.
FsyncDirIgnored ==
  \/ FsyncDirOk
  \/ "dir_sync" \in Faults /\ UNCHANGED <<ddir, walVars>>

MergedGoesFirst ==
  /\ pc = "merge_unlink_sync"
  /\ FsyncDirIgnored
  /\ IF dir[job.target].data = EmptyLayer
     THEN Goto("merge_empty") /\ UNCHANGED <<sstables, job>>
     ELSE /\ sstables' = <<[seq |-> job.target, data |-> dir[job.target].data]>> \o sstables
          /\ CompactionOver
  /\ UNCHANGED <<memtable, next_sequence, dir, tmp, now, histVars>>

\* Then the merged table takes the run's place, unless it came out empty.
MergeUnlinkSync ==
  /\ pc = "merge_unlink_sync"
  /\ FsyncDirIgnored
  /\ IF dir[job.target].data = EmptyLayer
     THEN Goto("merge_empty") /\ UNCHANGED <<sstables, job>>
     ELSE /\ sstables' = SubSeq(sstables, 1, job.at - 1)
                \o <<[seq |-> job.target, data |-> dir[job.target].data]>>
                \o SubSeq(sstables, job.at, Len(sstables))
          /\ CompactionOver
  /\ UNCHANGED <<memtable, next_sequence, dir, tmp, now, histVars>>

MergeEmpty ==
  /\ pc = "merge_empty"
  /\ \/ dir' = [dir EXCEPT ![job.target] = Nil]
     \/ "unlink" \in Faults /\ UNCHANGED dir
  /\ Goto("merge_empty_sync")
  /\ UNCHANGED <<memVars, ddir, tmp, job>> /\ Quiet

MergeEmptySync ==
  /\ pc = "merge_empty_sync"
  /\ FsyncDirIgnored
  /\ CompactionOver
  /\ UNCHANGED <<memVars, dir, tmp, now, histVars>>

-----------------------------------------------------------------------------
(* The end of an iteration *)

\* maybe_sync; whether it worked is only printed.
LoopAgain ==
  /\ pc = "sync"
  /\ MaybeSync
  /\ Goto("serve")
  /\ UNCHANGED <<memVars, diskVars, job, now, histVars>>

\* g_shutdown is seen at the head of the loop: a last sync, and the end.
Shutdown ==
  /\ pc = "sync" /\ "shutdown" \in Commands
  /\ SyncOk \/ ("log_sync" \in Faults /\ WalDies)
  /\ MemoryGone

-----------------------------------------------------------------------------
(* flush_all *)

FlushAll ==
  /\ pc = "serve" /\ "flush_all" \in Commands
  /\ Len(hist) <= MaxHeld
  /\ Goto("wipe_unlink")
  /\ job' = [NoJob EXCEPT !.paths = [i \in 1..Len(sstables) |-> sstables[i].seq]]
  /\ sstables' = <<>>
  /\ wiping' = TRUE
  /\ UNCHANGED <<walVars, memtable, next_sequence, diskVars, now, hist, held>>

\* An error reply: what is gone is gone and the rest stays.
FlushAllFails == Goto("serve") /\ job' = NoJob

WipeUnlinkAllButLast ==
  /\ pc = "wipe_unlink"
  /\ IF Len(job.paths) <= 1
     THEN Goto("wipe_sync") /\ UNCHANGED <<dir, job>>
     ELSE /\ dir' = [dir EXCEPT ![Head(job.paths)] = Nil]
          /\ job' = [job EXCEPT !.paths = Tail(@)]
          /\ UNCHANGED pc
  /\ UNCHANGED <<memVars, ddir, tmp>> /\ Quiet

WipeUnlink ==
  /\ pc = "wipe_unlink"
  /\ IF job.paths = <<>>
     THEN Goto("wipe_sync") /\ UNCHANGED <<dir, job>>
     ELSE /\ \/ /\ dir' = [dir EXCEPT ![Head(job.paths)] = Nil]
                /\ job' = [job EXCEPT !.paths = Tail(@)]
             \/ /\ "unlink" \in Faults /\ UNCHANGED dir
                /\ job' = [job EXCEPT !.paths = Tail(@), !.ok = FALSE]
          /\ UNCHANGED pc
  /\ UNCHANGED <<memVars, ddir, tmp>> /\ Quiet

WipeSync ==
  /\ pc = "wipe_sync"
  /\ \/ /\ FsyncDirOk
        /\ IF job.ok THEN Goto("wipe_truncate") /\ UNCHANGED job
                     ELSE FlushAllFails
     \/ "dir_sync" \in Faults /\ UNCHANGED <<ddir, walVars>> /\ FlushAllFails
  /\ UNCHANGED <<memVars, dir, tmp, now, histVars>>

WipeTruncate ==
  /\ pc = "wipe_truncate"
  /\ \/ CutLog /\ Goto("wipe_logsync") /\ UNCHANGED job
     \/ "log_truncate" \in Faults /\ UNCHANGED walVars /\ FlushAllFails
  /\ UNCHANGED <<memVars, diskVars, now, histVars>>

WipeLogSync ==
  /\ pc = "wipe_logsync"
  /\ Goto("serve")
  /\ job' = NoJob
  /\ \/ /\ SyncOk
        /\ memtable' = EmptyLayer
        /\ next_sequence' = 1
        /\ hist' = Append(hist, EmptyLayer)
        /\ held' = TRUE
        /\ wiping' = FALSE
     \/ "log_sync" \in Faults
        /\ UNCHANGED <<walVars, memtable, next_sequence, histVars>>
  /\ UNCHANGED <<sstables, diskVars, now>>

-----------------------------------------------------------------------------
(* Crash and restart *)

\* kill -9, or an exception that unwinds to main: the page cache stays.
Kill == pc \in KillAt /\ ProcessDies

\* Each name not yet forced to disk is found as it was at the last fsync_dir
\* or as it is now, and a file not synced is found torn.
Settled(f) == IF f = Nil \/ f.status = "synced" THEN f
              ELSE [f EXCEPT !.status = "partial"]

DirsAfterPowerLoss ==
  {[n \in SeqNo |-> Settled(IF n \in undone THEN ddir[n] ELSE dir[n])] :
     undone \in SUBSET {n \in SeqNo : dir[n] # ddir[n]}}

PowerLoss ==
  /\ pc \in PowerAt
  /\ Goto("down")
  /\ \E left \in LogsAfterPowerLoss, d \in DirsAfterPowerLoss :
       /\ WalLosesPower(left)
       /\ dir' = d
       /\ ddir' = d
       /\ hist' = <<RestartView(left, d)>>
  /\ tmp' = Nil
  /\ memtable' = EmptyLayer
  /\ sstables' = <<>>
  /\ next_sequence' = 1
  /\ job' = NoJob
  /\ held' = FALSE
  /\ wiping' = FALSE
  /\ UNCHANGED now

\* The Sstable constructor finds a footer, and an index and a filter where it
\* says they are.
Opens(f) == f.status # "partial"

Names(d) == {n \in SeqNo : d[n] # Nil}

\* std::sort, highest number first.
NewestFirst(names) ==
  {s \in UNION {[1..n -> names] : n \in 0..MaxSeq} :
     /\ \A i, j \in DOMAIN s : i < j => s[i] > s[j]
     /\ \A n \in names : \E i \in DOMAIN s : s[i] = n}

\* The Store constructor opens every table by its name's order, throwing on
\* one that is not whole; then the log is replayed into the memtable, cut and
\* opened for append.
Restart ==
  /\ pc = "down"
  /\ \A n \in Names(dir) : Opens(dir[n])
  /\ Goto("serve")
  /\ tmp' = Nil
  /\ \E order \in NewestFirst(Names(dir)) :
       /\ sstables' = [i \in DOMAIN order |->
                         [seq |-> order[i], data |-> dir[order[i]].data]]
       /\ next_sequence' = IF Names(dir) = {} THEN 1 ELSE order[1] + 1
  /\ memtable' = Replayed(log)
  /\ WalReopens
  /\ UNCHANGED <<dir, ddir, job, now, histVars>>

\* Time passes, and what expires leaves every state a client may find.
Tick ==
  /\ now <= MaxNow
  /\ now' = now + 1
  /\ hist' = [i \in DOMAIN hist |-> [k \in Keys |-> Seen(hist[i][k], now + 1)]]
  /\ UNCHANGED <<walVars, memVars, diskVars, pc, job, held, wiping>>

Command ==
  \/ \E k \in Keys, v \in Values, at \in Stamps : Set(k, v, at)
  \/ \E k \in Keys : Del(k)
  \/ \E j, k \in Keys : DelMany(<<j, k>>)
  \/ \E k \in Keys, at \in Stamps \ {0} : Expire(k, at)
  \/ FlushAll

Flush == FlushWrite \/ FlushRename \/ FlushSync \/ FlushTruncate \/ FlushLogSync

Compaction ==
  \/ NoCompaction
  \/ \E first, last \in 1..Len(sstables) : Compact(first, last)
  \/ MergeWrite \/ MergeRename \/ MergeSync \/ MergeUnlink \/ MergeUnlinkSync
  \/ MergeEmpty \/ MergeEmptySync

Wipe == WipeUnlink \/ WipeSync \/ WipeTruncate \/ WipeLogSync

\* What the process does of its own accord, once per iteration or within one.
Loop == \/ EndBatch \/ EndBatchFails \/ SweepExpired
        \/ Flush \/ Compaction \/ Wipe \/ LoopAgain

Next == Command \/ Loop \/ Shutdown \/ Restart \/ Kill \/ PowerLoss \/ Tick

Spec == Init /\ [][Next]_vars

\* The event loop is one thread that never blocks for ever: epoll_wait has a
\* timeout and every other call it makes returns.
FairSpec == Spec /\ WF_vars(Loop)

-----------------------------------------------------------------------------
(* Properties *)

\* Each key of a state found after a crash has a value the clients allow for:
\* one it had at or after the last released reply; or, if a FLUSHALL is under
\* way, none.
Allowed(view) ==
  \A k \in Keys : \/ \E i \in DOMAIN hist : view[k] = hist[i][k]
                  \/ wiping /\ view[k] = Nil

\* Every read answers with the last write executed, whatever flushes, merges,
\* sweeps, expiries and restarts lie between (Store::lookup).
ServesLatest ==
  pc = "serve" =>
    \A k \in Keys : Get(k) = Last(hist)[k] \/ (wiping /\ Get(k) = Nil)

\* A restart after a kill at this point serves everything executed so far and
\* nothing else (log before memtable, rename before unlink, table before cut).
KillSafe ==
  pc \in KillAt =>
    IF wiping THEN Allowed(RestartView(log, dir))
    ELSE RestartView(log, dir) = Last(hist)

\* A restart after power is lost at this point serves a state at least as new
\* as the last released reply, whatever unsynced writes and names survived.
PowerSafe ==
  pc \in PowerAt =>
    \A l \in LogsAfterPowerLoss, d \in DirsAfterPowerLoss : Allowed(RestartView(l, d))

\* No crash at this point loses or invents anything: after a kill every
\* executed command is found, after a power cut every acknowledged one.
CrashSafe == KillSafe /\ PowerSafe

\* Without group commit a write is on the disk before its command returns, so
\* between commands a power cut changes nothing at all (Wal::append, kAlways).
DurableOnReturn ==
  SyncsEachAppend /\ pc = "serve" /\ ~wiping =>
    \A l \in LogsAfterPowerLoss, d \in DirsAfterPowerLoss :
      RestartView(l, d) = Last(hist)

\* A key that every client allows to be nothing but deleted or expired is
\* still so after a kill.
DeletesSurviveKill ==
  pc \in KillAt =>
    \A k \in Keys : (\A i \in DOMAIN hist : hist[i][k] = Nil) =>
      RestartView(log, dir)[k] = Nil

\* A FLUSHALL that succeeds leaves no table for a restart to find.
FlushAllRemovesEverything ==
  [][wiping /\ ~wiping' /\ pc' = "serve" => Names(dir') = {}]_vars

\* A held reply is released, or its client sees the connection drop: neither
\* a flush in mid-batch nor a failing call leaves it waiting (Server::run).
HeldRepliesGoOut == held ~> ~held

\* A crash never leaves a table under its real name that cannot be opened, so
\* a restart never has to refuse (temporary name, fsync, then rename).
AlwaysRestartable ==
  /\ \A n \in Names(dir) : dir[n].status # "partial"
  /\ pc \in PowerAt =>
       \A d \in DirsAfterPowerLoss, n \in SeqNo : d[n] # Nil => d[n].status # "partial"

\* The vector is ordered by name, so that recency in memory is the recency a
\* restart reads from the names, and the next name is above them all.
NamesInOrder ==
  /\ \A i, j \in 1..Len(sstables) : i < j => sstables[i].seq > sstables[j].seq
  /\ \A i \in 1..Len(sstables) : sstables[i].seq < next_sequence

\* What flush, maybe_compact and flush_all worked out before a system call is
\* still so after it: the names, the position the merged table goes back to
\* once its inputs are erased, and the files they are about to open.
LocalsStillHold ==
  /\ pc \in FlushSteps => next_sequence \in SeqNo
  /\ pc \in {"flush_write", "flush_rename", "merge_write", "merge_rename"} =>
       tmp # Nil
  /\ pc \in {"flush_sync", "flush_truncate", "flush_logsync"} =>
       dir[next_sequence] # Nil
  /\ pc \in MergeSteps =>
       /\ job.target \in SeqNo /\ job.target < next_sequence
       /\ \A i \in 1..Len(job.paths) : job.paths[i] < job.target
  /\ pc \in {"merge_write", "merge_rename", "merge_sync"} =>
       /\ job.at \in 1..Len(sstables) /\ job.target = sstables[job.at].seq
       /\ job.at + Len(job.paths) <= Len(sstables)
  /\ pc \in {"merge_unlink", "merge_unlink_sync"} =>
       /\ job.at \in 1..(Len(sstables) + 1)
       /\ \A i \in 1..Len(sstables) :
            IF i < job.at THEN sstables[i].seq > job.target
                          ELSE sstables[i].seq < job.target
  /\ pc \in {"merge_sync", "merge_unlink", "merge_unlink_sync"} =>
       dir[job.target] # Nil
  /\ pc \in WipeSteps => sstables = <<>>

\* flush cuts the log only when the tables on the disk alone already answer
\* for every key it holds.
LogCutOnlyWhenRedundant ==
  [][pc = "flush_truncate" /\ log' # log =>
       \A k \in Keys : Replayed(log)[k] # Nil =>
         Seen(DirLookup(ddir, k), now) = Seen(Replayed(log)[k], now)]_vars

=============================================================================
