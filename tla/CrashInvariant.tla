--------------------------- MODULE CrashInvariant ---------------------------
(***************************************************************************)
(* What the log, the two views of the directory and the history have to do *)
(* with each other, so that a crash loses nothing; and that the commands,  *)
(* the loop and flush keep it so.                                          *)
(***************************************************************************)
EXTENDS StoreReads

\* Where the code promises this: no write or fsync of the log fails, the
\* log's own name is on the disk, nobody asks for FLUSHALL; and if tables
\* are merged, nothing fails and nothing stops the process between the
\* rename of the merged table and the last unlink.
Guarded ==
  /\ Faults \cap {"log_write", "log_sync"} = {}
  /\ ~FreshDir
  /\ "flush_all" \notin Commands
  /\ use_compaction =>
       /\ Faults \cap {"dir_sync", "unlink"} = {}
       /\ (KillAt \cup PowerAt) \cap MergeWindow = {}

-----------------------------------------------------------------------------
(* The invariant *)

\* What a file says of a key.
Says(f, k) == IF f = Nil THEN Nil ELSE f.data[k]

\* What an aborted flush left under the name the next one will use.
Leftover(d, next) ==
  IF next \in SeqNo /\ d[next] # Nil THEN d[next].data ELSE EmptyLayer

Orphan == Leftover(dir, next_sequence)

\* The tables in memory, a merged one that is not in the vector yet included.
Tables == IF pc \in Apart THEN Replaced(sstables, job.at, job.at - 1, OnDisk)
          ELSE sstables

\* A directory with some names as they were at the last fsync_dir.
Mixed(undone, old, new) == [n \in SeqNo |-> IF n \in undone THEN old[n] ELSE new[n]]

\* A client may be served this entry for the key.
Possible(e, k, h, t) == \E i \in DOMAIN h : Seen(e, t) = h[i][k]

\* The keys for which what the tables say may be served, whichever names
\* are found.
TableKeys ==
  {k \in Keys :
     IF pc \in MergeWindow THEN Possible(Lookup(Orphan, Tables, k), k, hist, now)
     ELSE \A undone \in SUBSET SeqNo :
            Possible(DirLookup(Mixed(undone, ddir, dir), k), k, hist, now)}

\* What is found with log l may be served.
Recovers(l, tablekeys, h, t) ==
  \A k \in Keys : IF Replayed(l)[k] # Nil THEN Possible(Replayed(l)[k], k, h, t)
                  ELSE k \in tablekeys

\* Whatever part of the log is found.
AtRisk ==
  /\ Recovers(dlog, TableKeys, hist, now)
  /\ \A n \in synced..Len(log) : Recovers(SubSeq(log, 1, n), TableKeys, hist, now)

\* The log's own bookkeeping.
LogKept ==
  /\ dnamed
  /\ synced <= Len(log)
  /\ pc \in Running => \A i \in 1..Len(log) : log[i] # Torn
  /\ pc = "flush_logsync" => log = <<>>
  /\ pc \in {"flush_truncate", "flush_logsync"} => ddir = dir
  /\ held /\ ~dirty /\ pc # "flush_logsync" => synced = Len(log) /\ dlog = log
  /\ pc = "down" => ~held

\* The log says what the memtable says, and speaks wherever an orphan does.
LogCovers ==
  pc \in Running \ {"flush_logsync"} =>
    \A k \in Keys :
      /\ memtable[k] = Nil <=> Replayed(log)[k] = Nil
      /\ Seen(memtable[k], now) = Seen(Replayed(log)[k], now)
      /\ Replayed(log)[k] = Nil => Orphan[k] = Nil

\* Directory d holds these tables, and besides them at most the named others.
Mirrors(d, tables, others) ==
  /\ \A i \in 1..Len(tables) :
       d[tables[i].seq] # Nil /\ d[tables[i].seq].data = tables[i].data
  /\ \A n \in SeqNo : d[n] # Nil =>
       n \in others \/ \E i \in 1..Len(tables) : tables[i].seq = n

\* The names a compaction has yet to settle.
Inputs == {job.target} \cup {job.paths[i] : i \in 1..Len(job.paths)}

\* None of these tables is still to be unlinked.
Clear(tables, names) == \A i \in 1..Len(tables) : tables[i].seq \notin names

\* What memory and directory have in common.
InDir ==
  /\ pc \in Running \ MergeWindow => Mirrors(dir, sstables, {next_sequence})
  /\ pc \in {"merge_write", "merge_rename"} =>
       \A i \in 1..Len(job.paths) : job.paths[i] = sstables[job.at + i].seq
  /\ pc = "merge_sync" =>
       Mirrors(dir, Erased(job.at), {next_sequence} \cup Inputs) /\ Clear(Erased(job.at), Inputs)
  /\ pc \in Apart =>
       Mirrors(dir, sstables, {next_sequence} \cup Inputs) /\ Clear(sstables, Inputs)
  /\ pc = "merge_unlink_sync" => job.paths = <<>>
  /\ pc = "merge_empty" =>
       Mirrors(dir, sstables, {next_sequence, job.target}) /\ Clear(sstables, {job.target})
  /\ pc = "merge_empty_sync" => Mirrors(dir, sstables, {next_sequence})

\* Where names are not forced to disk yet, the log speaks for both versions.
Loose ==
  pc \notin MergeWindow =>
    /\ \A n \in SeqNo : ddir[n] # Nil => dir[n] # Nil
    /\ \A k \in Keys, n \in SeqNo :
         Replayed(log)[k] = Nil => Says(dir[n], k) = Says(ddir[n], k)

\* With an fsync per append the log on the disk is never behind.
NeverBehind ==
  SyncsEachAppend =>
    /\ synced = Len(log)
    /\ \A k \in Keys : IF Replayed(dlog)[k] = Nil THEN Replayed(log)[k] = Nil
                       ELSE Seen(Replayed(dlog)[k], now) = Last(hist)[k]

NoWipe == ~wiping /\ pc \notin WipeSteps /\ (~use_compaction => pc \notin MergeSteps)

CInv == /\ NoWipe /\ LogKept /\ LogCovers /\ InDir /\ Loose /\ AtRisk /\ NeverBehind

-----------------------------------------------------------------------------
(* Directories *)

\* Nothing says anything.
LEMMA DirLookupNone ==
  ASSUME NEW d, NEW k \in Keys, \A n \in SeqNo : Says(d[n], k) = Nil
  PROVE  DirLookup(d, k) = Nil
<1>1. {n \in SeqNo : d[n] # Nil /\ d[n].data[k] # Nil} = {}
  BY DEF Says
<1> QED BY <1>1, DirLookupIs

\* The highest name that says something settles it.
LEMMA DirLookupTop ==
  ASSUME NEW d, NEW k \in Keys, NEW n \in SeqNo, Says(d[n], k) # Nil,
         \A m \in SeqNo : Says(d[m], k) # Nil => m <= n
  PROVE  DirLookup(d, k) = Says(d[n], k)
<1> DEFINE H == {m \in SeqNo : d[m] # Nil /\ d[m].data[k] # Nil}
<1>1. \A m \in SeqNo : m \in H <=> Says(d[m], k) # Nil
  BY DEF Says
<1>2. H # {} => \E m \in H : (\A j \in H : j <= m) /\ DirLookup(d, k) = d[m].data[k]
  BY DirLookupIs, Zenon
<1>3. H \subseteq SeqNo
  OBVIOUS
<1> HIDE DEF H
<1>4. n \in H
  BY <1>1
<1>5. PICK m \in H : (\A j \in H : j <= m) /\ DirLookup(d, k) = d[m].data[k]
  BY <1>2, <1>4
<1>6. m \in SeqNo /\ Says(d[m], k) # Nil /\ n <= m /\ m <= n
  BY <1>1, <1>3, <1>4, <1>5
<1>7. m = n
  BY <1>6 DEF SeqNo
<1> QED BY <1>5, <1>6, <1>7 DEF Says

\* Directories that say the same of a key.
LEMMA DirLookupAlike ==
  ASSUME NEW d, NEW e, NEW k \in Keys, \A n \in SeqNo : Says(d[n], k) = Says(e[n], k)
  PROVE  DirLookup(d, k) = DirLookup(e, k)
<1>1. CASE \A n \in SeqNo : Says(d[n], k) = Nil
  BY <1>1, DirLookupNone
<1>2. CASE \E n \in SeqNo : Says(d[n], k) # Nil
  <2> DEFINE H == {n \in SeqNo : Says(d[n], k) # Nil}
  <2>1. H \in SUBSET (1..MaxSeq) /\ MaxSeq \in Nat /\ H # {}
    BY <1>2, StoreAssumption DEF SeqNo
  <2>2. PICK n \in H : \A m \in H : m <= n
    <3> HIDE DEF H
    <3> QED BY <2>1, IntervalMax, Zenon
  <2>3. DirLookup(d, k) = Says(d[n], k)
    BY <2>2, DirLookupTop
  <2>4. DirLookup(e, k) = Says(e[n], k)
    BY <2>2, DirLookupTop
  <2> QED BY <2>3, <2>4
<1> QED BY <1>1, <1>2

\* A vector whose tables are in the order of their names, all below next.
Ordered(tables, next) ==
  /\ \A i, j \in 1..Len(tables) : i < j => tables[i].seq > tables[j].seq
  /\ \A i \in 1..Len(tables) : tables[i].seq \in SeqNo /\ tables[i].seq < next

\* A directory that mirrors the vector reads as it, but for an orphan.
LEMMA MirrorReads ==
  ASSUME NEW d, NEW tables, Len(tables) \in Nat, NEW next \in Int, Ordered(tables, next),
         Mirrors(d, tables, {next}), NEW k \in Keys
  PROVE  DirLookup(d, k) = Lookup(Leftover(d, next), tables, k)
<1>1. PICK n \in Nat : n = Len(tables)
  OBVIOUS
<1>2. ASSUME NEW m \in SeqNo, Says(d[m], k) # Nil
      PROVE  m = next \/ \E i \in 1..n : tables[i].seq = m
  BY <1>1, <1>2 DEF Says, Mirrors
<1>3. ASSUME NEW i \in 1..n
      PROVE  /\ tables[i].seq \in SeqNo /\ tables[i].seq < next
             /\ Says(d[tables[i].seq], k) = tables[i].data[k]
  BY <1>1 DEF Ordered, Mirrors, Says
<1>4. CASE Leftover(d, next)[k] # Nil
  <2>1. next \in SeqNo /\ Says(d[next], k) = Leftover(d, next)[k]
    BY <1>4 DEF Leftover, Says, EmptyLayer
  <2>2. ASSUME NEW m \in SeqNo, Says(d[m], k) # Nil PROVE m <= next
    <3>1. CASE m = next
      BY <3>1
    <3>2. CASE \E i \in 1..n : tables[i].seq = m
      BY <1>3, <3>2 DEF SeqNo
    <3> QED BY <1>2, <2>2, <3>1, <3>2
  <2>3. DirLookup(d, k) = Says(d[next], k)
    BY <1>4, <2>1, <2>2, DirLookupTop
  <2> QED BY <1>4, <2>1, <2>3 DEF Lookup
<1>5. CASE Leftover(d, next)[k] = Nil
  <2>1. ASSUME next \in SeqNo PROVE Says(d[next], k) = Nil
    BY <1>5, <2>1 DEF Leftover, Says
  <2>2. Lookup(Leftover(d, next), tables, k) = TableLookup(tables, k)
    BY <1>5 DEF Lookup
  <2>3. CASE Hits(tables, k) = {}
    <3>1. TableLookup(tables, k) = Nil
      BY <2>3, TableLookupIs
    <3>2. \A i \in 1..n : tables[i].data[k] = Nil
      BY <1>1, <2>3 DEF Hits
    <3>3. \A m \in SeqNo : Says(d[m], k) = Nil
      BY <1>2, <1>3, <2>1, <3>2
    <3> QED BY <2>2, <3>1, <3>3, DirLookupNone
  <2>4. CASE Hits(tables, k) # {}
    <3>1. PICK i \in Hits(tables, k) :
            (\A j \in Hits(tables, k) : i <= j) /\ TableLookup(tables, k) = tables[i].data[k]
      BY <2>4, TableLookupIs
    <3>2. i \in 1..n /\ tables[i].data[k] # Nil
      BY <1>1 DEF Hits
    <3>3. ASSUME NEW m \in SeqNo, Says(d[m], k) # Nil PROVE m <= tables[i].seq
      <4>1. m # next
        BY <2>1, <3>3
      <4>2. PICK j \in 1..n : tables[j].seq = m
        BY <1>2, <3>3, <4>1
      <4>3. j \in Hits(tables, k)
        BY <1>1, <1>3, <3>3, <4>2 DEF Hits
      <4>4. i <= j
        BY <3>1, <4>3
      <4>5. CASE i = j
        BY <4>2, <4>5 DEF SeqNo
      <4>6. CASE i < j
        <5>1. tables[i].seq > tables[j].seq
          BY <1>1, <3>2, <4>6 DEF Ordered
        <5> QED BY <1>3, <3>2, <4>2, <5>1 DEF SeqNo
      <4> QED BY <3>2, <4>4, <4>5, <4>6
    <3>4. DirLookup(d, k) = Says(d[tables[i].seq], k)
      BY <1>3, <3>2, <3>3, DirLookupTop
    <3> QED BY <1>3, <2>2, <3>1, <3>2, <3>4
  <2> QED BY <2>3, <2>4
<1> QED BY <1>4, <1>5

-----------------------------------------------------------------------------
(* What the invariant says of a restart *)

\* The tables in memory.
LEMMA InOrder ==
  ASSUME IInv
  PROVE  /\ Ordered(sstables, next_sequence)
         /\ Len(sstables) \in Nat /\ next_sequence \in Int
<1>1. \A i \in 1..Len(sstables) : sstables[i].seq \in SeqNo
  BY TablesType DEF IInv
<1>2. Len(sstables) \in Nat
  BY TablesType DEF IInv
<1>3. NamesInOrder /\ next_sequence \in Int
  BY StoreAssumption DEF IInv, TypeOK
<1> QED BY <1>1, <1>2, <1>3, Zenon DEF NamesInOrder, Ordered

\* Outside a merge the directory reads as the vector, but for an orphan.
LEMMA DirReads ==
  ASSUME IInv, InDir, pc \in Running \ MergeWindow, NEW k \in Keys
  PROVE  DirLookup(dir, k) = Lookup(Orphan, sstables, k)
<1>1. Mirrors(dir, sstables, {next_sequence})
  BY DEF InDir
<1> QED BY <1>1, InOrder, MirrorReads, Zenon DEF Orphan

\* Every version of the directory has files.
LEMMA MixedType ==
  ASSUME TypeOK, NEW undone
  PROVE  /\ Mixed(undone, ddir, dir) \in [SeqNo -> File \cup {Nil}]
         /\ \A k \in Keys : DirLookup(Mixed(undone, ddir, dir), k) \in Entry \cup {Nil}
<1>1. Mixed(undone, ddir, dir) \in [SeqNo -> File \cup {Nil}]
  BY DEF TypeOK, Mixed
<1> QED BY <1>1, DirLookupType, Zenon

\* What a vector serves, when no FLUSHALL is under way.
LEMMA Served ==
  ASSUME RInv, NoWipe, pc \in Running \ Apart, NEW k \in Keys
  PROVE  Seen(Lookup(memtable, sstables, k), now) = Last(hist)[k]
<1>1. ServedBy(sstables)
  BY DEF RInv, Serves
<1> QED BY <1>1 DEF ServedBy, NoWipe

\* With the whole log a restart serves what is being served, whichever names
\* are found.
LEMMA FullLogServes ==
  ASSUME IInv, RInv, CInv, pc \in Running \ MergeWindow,
         NEW undone \in SUBSET SeqNo, NEW k \in Keys
  PROVE  Seen(IF Replayed(log)[k] # Nil THEN Replayed(log)[k]
              ELSE DirLookup(Mixed(undone, ddir, dir), k), now) = Last(hist)[k]
<1>1. pc \in Running \ Apart
  BY DEF Apart, MergeWindow
<1>2. Seen(Lookup(memtable, sstables, k), now) = Last(hist)[k]
  BY <1>1, Served DEF CInv
<1>3. DirLookup(dir, k) = Lookup(Orphan, sstables, k)
  BY DirReads DEF CInv
<1>4. CASE pc = "flush_logsync"
  <2>1. log = <<>> /\ ddir = dir
    BY <1>4 DEF CInv, LogKept
  <2>2. Replayed(log)[k] = Nil
    BY <2>1, ReplayedNothing
  <2>3. DirLookup(Mixed(undone, ddir, dir), k) = DirLookup(dir, k)
    <3>1. \A n \in SeqNo : Mixed(undone, ddir, dir)[n] = dir[n]
      BY <2>1 DEF Mixed
    <3>2. \A n \in SeqNo : Says(Mixed(undone, ddir, dir)[n], k) = Says(dir[n], k)
      BY <3>1
    <3> QED BY <3>2, DirLookupAlike, Zenon
  <2>4. next_sequence \in SeqNo /\ dir[next_sequence] # Nil
        /\ dir[next_sequence].data = memtable
    BY <1>4 DEF IInv, LocalsStillHold, FlushSteps, RInv, Flushing
  <2>5. Orphan = memtable
    BY <2>4 DEF Orphan, Leftover
  <2> QED BY <1>2, <1>3, <2>2, <2>3, <2>5
<1>5. CASE pc # "flush_logsync"
  <2>1. /\ memtable[k] = Nil <=> Replayed(log)[k] = Nil
        /\ Seen(memtable[k], now) = Seen(Replayed(log)[k], now)
        /\ Replayed(log)[k] = Nil => Orphan[k] = Nil
    BY <1>5 DEF CInv, LogCovers
  <2>2. CASE Replayed(log)[k] # Nil
    BY <1>2, <2>1, <2>2 DEF Lookup
  <2>3. CASE Replayed(log)[k] = Nil
    <3>1. \A n \in SeqNo : Says(dir[n], k) = Says(ddir[n], k)
      BY <2>3 DEF CInv, Loose
    <3>2. \A n \in SeqNo : Says(Mixed(undone, ddir, dir)[n], k) = Says(dir[n], k)
      BY <3>1 DEF Mixed
    <3>3. DirLookup(Mixed(undone, ddir, dir), k) = DirLookup(dir, k)
      BY <3>2, DirLookupAlike, Zenon
    <3> QED BY <1>2, <1>3, <2>1, <2>3, <3>3 DEF Lookup
  <2> QED BY <2>2, <2>3
<1> QED BY <1>4, <1>5

\* A restart on the directory as it is.
LEMMA RestartServes ==
  ASSUME IInv, RInv, CInv, pc \in Running \ MergeWindow
  PROVE  RestartView(log, dir) = Last(hist)
<1>1. \A n \in SeqNo : Mixed({}, ddir, dir)[n] = dir[n]
  BY DEF Mixed
<1>2. ASSUME NEW k \in Keys PROVE DirLookup(Mixed({}, ddir, dir), k) = DirLookup(dir, k)
  <2>1. \A n \in SeqNo : Says(Mixed({}, ddir, dir)[n], k) = Says(dir[n], k)
    BY <1>1
  <2> QED BY <2>1, DirLookupAlike, Zenon
<1>3. ASSUME NEW k \in Keys PROVE RestartView(log, dir)[k] = Last(hist)[k]
  <2>1. {} \in SUBSET SeqNo
    OBVIOUS
  <2>2. Seen(IF Replayed(log)[k] # Nil THEN Replayed(log)[k]
             ELSE DirLookup(Mixed({}, ddir, dir), k), now) = Last(hist)[k]
    BY <2>1, FullLogServes
  <2> QED BY <1>2, <2>2 DEF RestartView
<1>4. Last(hist) \in Layer
  BY HistIs DEF IInv, Db
<1>5. RestartView(log, dir) = [k \in Keys |-> RestartView(log, dir)[k]]
  BY DEF RestartView
<1> QED BY <1>3, <1>4, <1>5 DEF Layer

\* What was possible stays possible.
StillPossible(h, t, hh, tt) ==
  \A k \in Keys : \A e \in Entry \cup {Nil} : Possible(e, k, h, t) => Possible(e, k, hh, tt)

\* So may what a log recovers.
LEMMA RecoversStill ==
  ASSUME NEW l \in AnyLog, NEW keys, NEW more, keys \subseteq more, NEW h, NEW t, NEW hh, NEW tt,
         StillPossible(h, t, hh, tt), Recovers(l, keys, h, t)
  PROVE  Recovers(l, more, hh, tt)
<1> SUFFICES ASSUME NEW k \in Keys
             PROVE  IF Replayed(l)[k] # Nil THEN Possible(Replayed(l)[k], k, hh, tt)
                    ELSE k \in more
  BY DEF Recovers
<1>1. Replayed(l)[k] \in Entry \cup {Nil}
  BY ReplayedType DEF Layer, AnyLog
<1> QED BY <1>1 DEF Recovers, StillPossible

\* The log stays, as far as anything can find it.
LEMMA RiskKept ==
  ASSUME TypeOK, AtRisk, synced <= Len(log), TableKeys \subseteq TableKeys',
         StillPossible(hist, now, hist', now'),
         log' = log, dlog' = dlog \/ dlog' = log, synced' \in synced..Len(log)
  PROVE  AtRisk'
<1>1. ASSUME NEW l \in AnyLog, Recovers(l, TableKeys, hist, now)
      PROVE  Recovers(l, TableKeys', hist', now')
  BY <1>1, RecoversStill, Zenon
<1>2. log \in AnyLog /\ dlog \in AnyLog /\ Len(log) \in Nat /\ synced \in Nat
  BY SeqIs DEF TypeOK, WalTypeOK, LogItem, AnyLog
<1>3. ASSUME NEW n \in synced..Len(log)
      PROVE  Recovers(SubSeq(log, 1, n), TableKeys', hist', now')
  <2>1. SubSeq(log, 1, n) \in AnyLog
    BY <1>2, PrefixIs DEF AnyLog
  <2> QED BY <1>1, <2>1 DEF AtRisk
<1>4. Recovers(log, TableKeys', hist', now')
  <2>1. SubSeq(log, 1, Len(log)) = log /\ Len(log) \in synced..Len(log)
    BY <1>2 DEF AnyLog
  <2> QED BY <1>3, <2>1, Zenon
<1>5. Recovers(dlog', TableKeys', hist', now')
  BY <1>1, <1>2, <1>4 DEF AtRisk
<1>6. ASSUME NEW n \in synced'..Len(log') PROVE n \in synced..Len(log)
  BY <1>2
<1> QED BY <1>3, <1>5, <1>6 DEF AtRisk

\* So do the keys the tables answer for, when no name changes.
LEMMA KeysKept ==
  ASSUME TypeOK, dir' = dir, ddir' = ddir, pc \notin MergeWindow, pc' \notin MergeWindow,
         StillPossible(hist, now, hist', now')
  PROVE  TableKeys \subseteq TableKeys'
<1> SUFFICES ASSUME NEW k \in TableKeys
             PROVE  k \in Keys /\ \A undone \in SUBSET SeqNo :
                      Possible(DirLookup(Mixed(undone, ddir, dir), k), k, hist', now')
  BY Zenon DEF TableKeys
<1>1. k \in Keys /\ \A undone \in SUBSET SeqNo :
        Possible(DirLookup(Mixed(undone, ddir, dir), k), k, hist, now)
  BY DEF TableKeys
<1> QED BY <1>1, MixedType, Zenon DEF StillPossible

\* Steps that touch no record, no name and no reply; memory may change as
\* long as it still agrees with the disk.
LEMMA CalmCrash ==
  ASSUME IInv, RInv, CInv, UNCHANGED <<log, dnamed, dir, ddir, hist, now>>,
         UNCHANGED <<dlog, synced>> \/ SyncOk,
         dirty' = dirty \/ SyncOk \/ ~held', held' => held, pc' = "down" => ~held',
         pc \in Running \ MergeWindow, pc = "flush_logsync" => SyncOk \/ pc' = "down",
         pc' \notin MergeWindow \cup {"flush_truncate", "flush_logsync"},
         NoWipe', LogCovers', InDir'
  PROVE  CInv'
<1>1. /\ log \in AnyLog /\ dlog \in AnyLog /\ Len(log) \in Nat /\ synced \in Nat
      /\ synced <= Len(log) /\ dnamed
  BY SeqIs DEF IInv, TypeOK, WalTypeOK, LogItem, AnyLog, CInv, LogKept
<1>2. StillPossible(hist, now, hist', now')
  BY DEF StillPossible
<1>3. AtRisk'
  <2>1. TableKeys \subseteq TableKeys'
    BY <1>2, KeysKept DEF IInv
  <2>2. (dlog' = dlog \/ dlog' = log) /\ synced' \in synced..Len(log)
    BY <1>1 DEF SyncOk
  <2> QED BY <1>1, <1>2, <2>1, <2>2, RiskKept DEF IInv, CInv
<1>4. Loose'
  BY DEF CInv, Loose
<1>5. LogKept'
  <2>1. pc' \in Running => \A i \in 1..Len(log') : log'[i] # Torn
    BY DEF CInv, LogKept
  <2>2. dnamed' /\ synced' <= Len(log')
    BY <1>1 DEF SyncOk
  <2>3. held' /\ ~dirty' /\ pc' # "flush_logsync" => synced' = Len(log') /\ dlog' = log'
    BY DEF SyncOk, CInv, LogKept
  <2> QED BY <2>1, <2>2, <2>3 DEF LogKept
<1>6. NeverBehind'
  <2>1. CASE UNCHANGED <<dlog, synced>>
    BY <2>1 DEF CInv, NeverBehind, SyncsEachAppend, Last
  <2>2. CASE SyncOk
    <3>1. synced' = Len(log') /\ dlog' = log' /\ log' = log /\ now' = now /\ Last(hist)' = Last(hist)
      BY <2>2 DEF SyncOk, Last
    <3>2. ASSUME NEW k \in Keys, Replayed(log)[k] # Nil
          PROVE  Seen(Replayed(log)[k], now) = Last(hist)[k]
      <4>1. {} \in SUBSET SeqNo
        OBVIOUS
      <4> QED BY <3>2, <4>1, FullLogServes
    <3> QED BY <3>1, <3>2 DEF NeverBehind
  <2> QED BY <2>1, <2>2
<1> QED BY <1>3, <1>4, <1>5, <1>6 DEF CInv

-----------------------------------------------------------------------------
(* Commands *)

\* More states to find.
LEMMA HistGrows ==
  ASSUME NEW h \in Seq(Db), NEW x \in Seq(Db), NEW t
  PROVE  /\ StillPossible(h, t, h \o x, t)
         /\ \A i \in 1..Len(x) : \A e, k : Seen(e, t) = x[i][k] => Possible(e, k, h \o x, t)
<1>1. PICK v : v = h \o x
  BY Zenon
<1>2. PICK m \in Nat, n \in Nat : m = Len(h) /\ n = Len(x)
  BY SeqIs
<1>3. /\ DOMAIN h = 1..m /\ DOMAIN v = 1..(m + n)
      /\ \A i \in 1..m : v[i] = h[i]
      /\ \A i \in 1..n : v[m + i] = x[i]
  <2>1. v \in Seq(Db) /\ Len(v) = m + n
    BY <1>1, <1>2, ConcatIs
  <2>2. DOMAIN h = 1..m /\ DOMAIN v = 1..(m + n)
    BY <1>2, <2>1
  <2> QED BY <1>1, <1>2, <2>2, ConcatIs
<1>4. (\A i \in 1..m : i \in 1..(m + n)) /\ \A i \in 1..n : m + i \in 1..(m + n)
  OBVIOUS
<1>5. StillPossible(h, t, v, t)
  BY <1>3, <1>4 DEF StillPossible, Possible
<1>6. \A i \in 1..n : \A e, k : Seen(e, t) = x[i][k] => Possible(e, k, v, t)
  BY <1>3, <1>4 DEF Possible
<1> QED BY <1>1, <1>2, <1>5, <1>6

\* What a crash may find of the records being appended.
LEMMA AppendedRecovers ==
  ASSUME IInv, CInv, pc = "serve", NEW recs \in Seq(Record),
         NEW h, NEW keys, TableKeys \subseteq keys, h = hist \o Outcomes(Last(hist), recs),
         NEW i \in 0..Len(recs)
  PROVE  Recovers(log \o SubSeq(recs, 1, i), keys, h, now)
<1> DEFINE x == Outcomes(Last(hist), recs)
<1>1. hist \in Seq(Db) /\ x \in Seq(Db)
  BY HistIs, OutcomesType DEF IInv
<1>2. /\ log \in AnyLog /\ Len(log) \in Nat /\ synced \in Nat /\ synced <= Len(log)
      /\ \A j \in 1..Len(log) : log[j] # Torn
  BY SeqIs
     DEF IInv, TypeOK, WalTypeOK, LogItem, AnyLog, CInv, LogKept, Running, LoopSteps
<1>3. PICK r : r = SubSeq(recs, 1, i)
  BY Zenon
<1>4. r \in AnyLog
  <2>1. i \in Nat /\ i <= Len(recs)
    BY SeqIs
  <2>2. r \in Seq(Record)
    BY <1>3, <2>1, PrefixIs, Zenon
  <2> QED BY <2>2, SeqWidens DEF AnyLog
<1>5. Recovers(log, TableKeys, hist, now)
  <2>1. SubSeq(log, 1, Len(log)) = log /\ Len(log) \in synced..Len(log)
    BY <1>2 DEF AnyLog
  <2> QED BY <2>1, Zenon DEF CInv, AtRisk
<1>6. /\ StillPossible(hist, now, h, now)
      /\ \A j \in 1..Len(x) : \A e, k : Seen(e, now) = x[j][k] => Possible(e, k, h, now)
  <2> HIDE DEF x
  <2>1. h = hist \o x
    BY DEF x
  <2> QED BY <1>1, <2>1, HistGrows, Zenon
<1>7. Len(x) = Len(recs) /\ Len(recs) \in Nat
  <2>1. Len(recs) \in Nat /\ DOMAIN x = 1..Len(recs)
    BY SeqIs DEF Outcomes
  <2> HIDE DEF x
  <2> QED BY <1>1, <2>1
<1> SUFFICES ASSUME NEW k \in Keys
             PROVE  IF Replayed(log \o r)[k] # Nil THEN Possible(Replayed(log \o r)[k], k, h, now)
                    ELSE k \in keys
  BY <1>3 DEF Recovers
<1>8. Replayed(log \o r)[k] = IF Replayed(r)[k] # Nil THEN Replayed(r)[k] ELSE Replayed(log)[k]
  BY <1>2, <1>4, ReplayedConcat, Zenon
<1>9. CASE Replayed(r)[k] = Nil
  <2>1. Replayed(log)[k] \in Entry \cup {Nil}
    BY <1>2, ReplayedType DEF Layer, AnyLog
  <2> QED BY <1>5, <1>6, <1>8, <1>9, <2>1 DEF Recovers, StillPossible
<1>10. CASE Replayed(r)[k] # Nil
  <2>1. i # 0
    <3> SUFFICES ASSUME i = 0 PROVE FALSE
      OBVIOUS
    <3>1. r = <<>>
      BY <1>3
    <3> QED BY <1>10, <3>1, ReplayedNothing
  <2>2. i \in 1..Len(recs)
    BY <1>7, <2>1
  <2>3. x[i][k] = Seen(Replayed(r)[k], now)
    BY <1>3, <1>10, <2>2 DEF Outcomes
  <2>4. Possible(Replayed(r)[k], k, h, now)
    <3> HIDE DEF x
    <3> QED BY <1>6, <1>7, <2>2, <2>3
  <2> QED BY <1>8, <1>10, <2>4
<1> QED BY <1>9, <1>10

\* A mutation: in the log, in the memtable, and owed an fsync.
LEMMA MutateCrash ==
  ASSUME IInv, RInv, CInv, Guarded, IInv', RInv', pc = "serve", NEW recs \in Seq(Record), recs # <<>>,
         Mutate(recs)
  PROVE  CInv'
<1>1. /\ AppendOk(recs)
      /\ memtable' = [k \in Keys |-> IF Replayed(recs)[k] = Nil
                                     THEN memtable[k] ELSE Replayed(recs)[k]]
      /\ hist' = hist \o Outcomes(Last(hist), recs)
      /\ held' = TRUE
      /\ pc' \in {"serve", "flush_write"}
      /\ UNCHANGED <<sstables, next_sequence, dir, ddir, job, now, wiping>>
  BY Zenon DEF Mutate, MaybeFlush, AppendShort, AppendUnsynced, Guarded
<1>2. /\ log \in AnyLog /\ Len(log) \in Nat /\ synced \in Nat /\ synced <= Len(log) /\ dnamed
      /\ \A j \in 1..Len(log) : log[j] # Torn
  BY SeqIs
     DEF IInv, TypeOK, WalTypeOK, LogItem, AnyLog, CInv, LogKept, Running, LoopSteps
<1>3. recs \in AnyLog /\ Len(recs) \in Nat /\ \A j \in 1..Len(recs) : recs[j] # Torn
  <2>1. \A j \in 1..Len(recs) : recs[j] \in Record
    BY ElementIs
  <2> QED BY <2>1, SeqWidens, SeqIs, LayersAssumption DEF AnyLog
<1>4. /\ log' = log \o recs /\ Len(log') = Len(log) + Len(recs)
      /\ \A j \in 1..Len(log) : log'[j] = log[j]
      /\ \A j \in 1..Len(recs) : log'[Len(log) + j] = recs[j]
  <2>1. log' = log \o recs
    BY <1>1 DEF AppendOk
  <2> QED BY <1>2, <1>3, <2>1, ConcatIs DEF AnyLog
<1>5. \A k \in Keys : Replayed(log')[k] = IF Replayed(recs)[k] # Nil THEN Replayed(recs)[k]
                                          ELSE Replayed(log)[k]
  BY <1>2, <1>3, <1>4, ReplayedConcat, Zenon
<1>6. NoWipe'
  BY <1>1 DEF CInv, NoWipe, WipeSteps, MergeSteps
<1>7. LogKept'
  <2>1. ASSUME NEW j \in 1..Len(log') PROVE log'[j] # Torn
    <3>1. CASE j \in 1..Len(log)
      BY <1>2, <1>4, <3>1
    <3>2. CASE j \notin 1..Len(log)
      <4>1. j - Len(log) \in 1..Len(recs) /\ Len(log) + (j - Len(log)) = j
        BY <1>2, <1>3, <1>4, <3>2
      <4> QED BY <1>3, <1>4, <4>1
    <3> QED BY <3>1, <3>2
  <2>2. dnamed' /\ synced' <= Len(log')
    BY <1>1, <1>2, <1>3, <1>4 DEF AppendOk
  <2>3. ~dirty' => synced' = Len(log') /\ dlog' = log'
    BY <1>1, <1>4, Zenon DEF AppendOk
  <2> QED BY <1>1, <2>1, <2>2, <2>3 DEF LogKept
<1>8. LogCovers'
  <2> SUFFICES ASSUME NEW k \in Keys
               PROVE  /\ memtable'[k] = Nil <=> Replayed(log')[k] = Nil
                      /\ Seen(memtable'[k], now) = Seen(Replayed(log')[k], now)
                      /\ Replayed(log')[k] = Nil => Orphan'[k] = Nil
    BY <1>1 DEF LogCovers
  <2>1. Orphan' = Orphan
    BY <1>1 DEF Orphan
  <2>2. /\ memtable[k] = Nil <=> Replayed(log)[k] = Nil
        /\ Seen(memtable[k], now) = Seen(Replayed(log)[k], now)
        /\ Replayed(log)[k] = Nil => Orphan[k] = Nil
    BY DEF CInv, LogCovers, Running, LoopSteps
  <2>3. memtable'[k] = IF Replayed(recs)[k] = Nil THEN memtable[k] ELSE Replayed(recs)[k]
    BY <1>1
  <2> QED BY <1>5, <2>1, <2>2, <2>3
<1>9. InDir'
  <2>1. Mirrors(dir, sstables, {next_sequence})
    BY DEF CInv, InDir, Running, LoopSteps, MergeWindow
  <2> QED BY <1>1, <2>1 DEF InDir, Apart
<1>10. pc \notin MergeWindow /\ pc' \notin MergeWindow
  BY <1>1 DEF MergeWindow
<1>11. Loose'
  BY <1>1, <1>5, <1>10 DEF CInv, Loose
<1>12. TableKeys \subseteq TableKeys'
  <2>1. hist \in Seq(Db) /\ Outcomes(Last(hist), recs) \in Seq(Db)
    BY HistIs, OutcomesType DEF IInv
  <2>2. StillPossible(hist, now, hist', now')
    BY <1>1, <2>1, HistGrows, Zenon
  <2> QED BY <1>1, <1>10, <2>2, KeysKept, Zenon DEF IInv
<1>13. AtRisk'
  <2>1. ASSUME NEW i \in 0..Len(recs)
        PROVE  Recovers(log \o SubSeq(recs, 1, i), TableKeys', hist', now')
    BY <1>1, <1>12, AppendedRecovers, Zenon
  <2>2. ASSUME NEW n \in Len(log)..Len(log')
        PROVE  Recovers(SubSeq(log', 1, n), TableKeys', hist', now')
    <3>1. n - Len(log) \in 0..Len(recs)
      BY <1>2, <1>3, <1>4
    <3>2. SubSeq(log', 1, n) = log \o SubSeq(recs, 1, n - Len(log))
      BY <1>2, <1>3, <1>4, <3>1, PrefixOfConcat
    <3> QED BY <2>1, <3>1, <3>2, Zenon
  <2>3. CASE SyncsEachAppend
    <3>1. synced' = Len(log') /\ dlog' = log' /\ log' \in AnyLog /\ Len(log') \in Nat
      BY <1>1, <1>2, <1>3, <1>4, <2>3, ConcatIs DEF AppendOk, AnyLog
    <3>2. SubSeq(log', 1, Len(log')) = log' /\ Len(log') \in Len(log)..Len(log')
      BY <1>2, <1>3, <1>4, <3>1 DEF AnyLog
    <3>3. Recovers(log', TableKeys', hist', now')
      BY <2>2, <3>2, Zenon
    <3>4. \A n \in synced'..Len(log') : n = Len(log')
      BY <3>1
    <3> QED BY <3>1, <3>2, <3>3, <3>4, Zenon DEF AtRisk
  <2>4. CASE ~SyncsEachAppend
    <3>1. synced' = synced /\ dlog' = dlog
      BY <1>1, <2>4 DEF AppendOk
    <3>2. StillPossible(hist, now, hist', now')
      <4>1. hist \in Seq(Db) /\ Outcomes(Last(hist), recs) \in Seq(Db)
        BY HistIs, OutcomesType DEF IInv
      <4> QED BY <1>1, <4>1, HistGrows, Zenon
    <3>3. ASSUME NEW l \in AnyLog, Recovers(l, TableKeys, hist, now)
          PROVE  Recovers(l, TableKeys', hist', now')
      BY <1>12, <3>2, <3>3, RecoversStill
    <3>4. dlog \in AnyLog
      BY DEF IInv, TypeOK, WalTypeOK, LogItem, AnyLog
    <3>5. ASSUME NEW n \in synced..Len(log), n <= Len(log)
          PROVE  Recovers(SubSeq(log', 1, n), TableKeys', hist', now')
      <4>1. SubSeq(log', 1, n) = SubSeq(log, 1, n) /\ SubSeq(log, 1, n) \in AnyLog
        BY <1>2, <1>3, <1>4, PrefixOfConcat, PrefixIs DEF AnyLog
      <4> QED BY <3>3, <4>1, Zenon DEF CInv, AtRisk
    <3>6. ASSUME NEW n \in synced'..Len(log')
          PROVE  (n \in synced..Len(log) /\ n <= Len(log)) \/ n \in Len(log)..Len(log')
      BY <1>2, <1>3, <1>4, <3>1
    <3> QED BY <2>2, <3>1, <3>3, <3>4, <3>5, <3>6 DEF CInv, AtRisk
  <2> QED BY <2>3, <2>4
<1>14. NeverBehind'
  <2> SUFFICES ASSUME SyncsEachAppend
               PROVE  /\ synced' = Len(log') /\ dlog' = log'
                      /\ \A k \in Keys : Replayed(log')[k] # Nil =>
                           Seen(Replayed(log')[k], now') = Last(hist)'[k]
    BY DEF NeverBehind
  <2>1. synced' = Len(log') /\ dlog' = log'
    BY <1>1, <1>4 DEF AppendOk
  <2>2. ASSUME NEW k \in Keys, Replayed(log')[k] # Nil
        PROVE  Seen(Replayed(log')[k], now') = Last(hist)'[k]
    <3>1. memtable'[k] # Nil /\ Seen(memtable'[k], now') = Seen(Replayed(log')[k], now')
      BY <1>1, <1>8, <2>2 DEF LogCovers, Running, LoopSteps, FlushSteps
    <3>2. ServedBy(sstables)' /\ ~wiping'
      BY <1>1, <1>6 DEF RInv, Serves, Running, LoopSteps, FlushSteps, Apart, NoWipe
    <3>3. Seen(Lookup(memtable', sstables', k), now') = Last(hist)'[k]
      BY <3>2 DEF ServedBy
    <3> QED BY <3>1, <3>3 DEF Lookup
  <2> QED BY <2>1, <2>2
<1> QED BY <1>6, <1>7, <1>8, <1>9, <1>11, <1>13, <1>14 DEF CInv

-----------------------------------------------------------------------------
(* The loop *)

\* Memory and log as they were.
LEMMA CoversKept ==
  ASSUME LogCovers, UNCHANGED <<memtable, log, now, dir, next_sequence>>,
         pc \in Running \ {"flush_logsync"}
  PROVE  LogCovers'
<1>1. Orphan' = Orphan
  BY DEF Orphan
<1> QED BY <1>1 DEF LogCovers

\* Vector and directory as they were, outside a merge.
LEMMA InDirKept ==
  ASSUME InDir, UNCHANGED <<dir, sstables, next_sequence>>, pc \in Running \ MergeWindow,
         pc' \notin MergeWindow \cup {"merge_write", "merge_rename"}
  PROVE  InDir'
<1>1. Mirrors(dir, sstables, {next_sequence})
  BY DEF InDir
<1>2. pc' \notin {"merge_write", "merge_rename", "merge_sync", "merge_unlink",
                  "merge_unlink_sync", "merge_empty", "merge_empty_sync"}
  BY DEF MergeWindow
<1> QED BY <1>1, <1>2 DEF InDir, Apart

\* Nothing but the process's place changes, except that the log may be synced
\* and a compaction that wrote nothing may begin or end.
LEMMA CalmSteps ==
  ASSUME IInv, RInv, CInv,
         \/ FlushWrite
         \/ FlushRename /\ pc' = "serve"
         \/ FlushSync /\ pc' = "serve"
         \/ FlushTruncate /\ pc' = "serve"
         \/ NoCompaction
         \/ \E first, last \in 1..Len(sstables) : Compact(first, last)
         \/ MergeWrite
         \/ MergeRename /\ pc' = "sync"
         \/ LoopAgain
  PROVE  CInv'
<1>1. /\ pc \in {"flush_write", "flush_rename", "flush_sync", "flush_truncate", "compact",
                 "merge_write", "merge_rename", "sync"}
      /\ pc' \in {"serve", "sync", "flush_rename", "merge_write", "merge_rename"}
      /\ pc' \in {"merge_write", "merge_rename"} => use_compaction \/ pc = "merge_write"
      /\ UNCHANGED <<memtable, sstables, next_sequence, dir, ddir, hist, held, wiping, now>>
      /\ UNCHANGED walVars \/ SyncOk
  <2> USE DEF memVars, diskVars, histVars, Quiet, Goto
  <2>1. CASE FlushWrite
    BY <2>1 DEF FlushWrite
  <2>2. CASE FlushRename /\ pc' = "serve"
    BY <2>2 DEF FlushRename
  <2>3. CASE FlushSync /\ pc' = "serve"
    BY <2>3 DEF FlushSync
  <2>4. CASE FlushTruncate /\ pc' = "serve"
    BY <2>4 DEF FlushTruncate
  <2>5. CASE NoCompaction
    BY <2>5 DEF NoCompaction
  <2>6. CASE \E first, last \in 1..Len(sstables) : Compact(first, last)
    BY <2>6, Zenon DEF Compact
  <2>7. CASE MergeWrite
    BY <2>7 DEF MergeWrite, CompactionOver
  <2>8. CASE MergeRename /\ pc' = "sync"
    BY <2>8 DEF MergeRename, CompactionOver
  <2>9. CASE LoopAgain
    BY <2>9 DEF LoopAgain, MaybeSync
  <2> QED BY <2>1, <2>2, <2>3, <2>4, <2>5, <2>6, <2>7, <2>8, <2>9
<1>2. UNCHANGED <<log, dnamed>> /\ (UNCHANGED <<dlog, synced, dirty>> \/ SyncOk)
  BY <1>1 DEF walVars, SyncOk
<1>3. pc \in Running \ MergeWindow /\ pc # "flush_logsync"
      /\ pc' \notin MergeWindow \cup {"flush_truncate", "flush_logsync", "down"}
  BY <1>1 DEF Running, LoopSteps, FlushSteps, MergeSteps, MergeWindow
<1>4. NoWipe'
  BY <1>1 DEF CInv, NoWipe, MergeSteps, WipeSteps
<1>5. LogCovers'
  BY <1>1, <1>2, <1>3, CoversKept DEF CInv
<1>6. InDir'
  <2>1. CASE pc' \notin {"merge_write", "merge_rename"}
    BY <1>1, <1>3, <2>1, InDirKept DEF CInv
  <2>2. CASE pc' \in {"merge_write", "merge_rename"}
    <3>1. ASSUME NEW i \in 1..Len(job'.paths)
          PROVE  job'.paths[i] = sstables[job'.at + i].seq
      <4>1. CASE pc = "merge_write"
        <5>1. job' = job
          BY <2>2, <4>1 DEF FlushWrite, FlushRename, FlushSync, FlushTruncate, NoCompaction,
                            Compact, MergeWrite, MergeRename, LoopAgain, CompactionOver, Goto
        <5> QED BY <4>1, <5>1 DEF CInv, InDir
      <4>2. CASE pc # "merge_write"
        <5>1. PICK first \in 1..Len(sstables), last \in 1..Len(sstables) : Compact(first, last)
          BY <2>2, <4>2 DEF FlushWrite, FlushRename, FlushSync, FlushTruncate, NoCompaction,
                            MergeWrite, MergeRename, LoopAgain, CompactionOver, Goto
        <5>2. /\ job'.at = first
              /\ job'.paths = [j \in 1..(last - first) |-> sstables[first + j].seq]
          BY <5>1 DEF Compact
        <5>3. Len(sstables) \in Nat
          BY TablesType, Zenon DEF IInv
        <5>4. last - first \in Nat
          BY <5>1, <5>3, StoreAssumption, SMTT(30) DEF Compact
        <5>5. Len(job'.paths) = last - first
          BY <5>2, <5>4, SMTT(30)
        <5> QED BY <5>2, <5>5, Zenon
      <4> QED BY <4>1, <4>2
    <3>2. Mirrors(dir, sstables, {next_sequence})
      BY <1>3 DEF CInv, InDir
    <3>3. pc' \notin Apart \cup {"merge_sync", "merge_unlink_sync", "merge_empty", "merge_empty_sync"}
      BY <2>2 DEF Apart
    <3> QED BY <1>1, <3>1, <3>2, <3>3 DEF InDir
  <2> QED BY <2>1, <2>2
<1>7. pc' # "down" /\ (dirty' = dirty \/ SyncOk) /\ (UNCHANGED <<dlog, synced>> \/ SyncOk)
  BY <1>2, <1>3
<1> QED BY <1>1, <1>2, <1>3, <1>4, <1>5, <1>6, <1>7, CalmCrash

\* One fsync for the batch, then the replies.
LEMMA EndBatchCrash ==
  ASSUME IInv, RInv, CInv, EndBatch
  PROVE  CInv'
<1>1. /\ pc = "serve" /\ pc' = "sweep" /\ ~held' /\ log' = log /\ dnamed' = dnamed
      /\ UNCHANGED <<memtable, sstables, next_sequence, dir, ddir, now, wiping>>
      /\ SyncOk \/ (~dirty /\ UNCHANGED <<dlog, synced, dirty>>)
      /\ hist' = IF held THEN <<Last(hist)>> ELSE hist
  BY DEF EndBatch, Goto, memVars, diskVars, walVars, SyncOk, IInv, TypeOK, WalTypeOK
<1>2. pc \in Running \ MergeWindow /\ pc # "flush_logsync" /\ pc' \notin MergeWindow
      /\ pc' \notin {"flush_truncate", "flush_logsync", "down", "merge_write", "merge_rename"}
  BY <1>1 DEF Running, LoopSteps, MergeWindow
<1>3. NoWipe' /\ LogCovers' /\ InDir'
  <2>1. NoWipe'
    BY <1>1 DEF CInv, NoWipe, MergeSteps, WipeSteps
  <2>2. LogCovers'
    BY <1>1, <1>2, CoversKept DEF CInv
  <2>3. InDir'
    BY <1>1, <1>2, InDirKept DEF CInv
  <2> QED BY <2>1, <2>2, <2>3
<1>4. CASE ~held
  <2>1. hist' = hist
    BY <1>1, <1>4
  <2>2. (UNCHANGED <<dlog, synced>> \/ SyncOk) /\ (dirty' = dirty \/ SyncOk)
    BY <1>1
  <2> QED BY <1>1, <1>2, <1>3, <1>4, <2>1, <2>2, CalmCrash
<1>5. CASE held
  <2>1. hist' = <<Last(hist)>> /\ Last(hist)' = Last(hist)
    <3>1. hist' = <<Last(hist)>>
      BY <1>1, <1>5
    <3> QED BY <3>1 DEF Last
  <2>2. dlog' = log /\ synced' = Len(log)
    BY <1>1, <1>2, <1>5 DEF SyncOk, CInv, LogKept
  <2>3. log \in AnyLog /\ Len(log) \in Nat /\ SubSeq(log, 1, Len(log)) = log
    BY SeqIs DEF IInv, TypeOK, WalTypeOK, LogItem, AnyLog
  <2>4. ASSUME NEW k \in Keys, NEW undone \in SUBSET SeqNo
        PROVE  IF Replayed(log)[k] # Nil THEN Possible(Replayed(log)[k], k, hist', now')
               ELSE Possible(DirLookup(Mixed(undone, ddir, dir), k), k, hist', now')
    <3>1. \A e : Seen(e, now) = Last(hist)[k] => Possible(e, k, hist', now')
      <4>1. 1 \in DOMAIN hist' /\ hist'[1] = Last(hist)
        BY <2>1
      <4> QED BY <1>1, <4>1 DEF Possible
    <3> QED BY <1>2, <3>1, FullLogServes, Zenon
  <2>5. Recovers(log, TableKeys', hist', now')
    <3> SUFFICES ASSUME NEW k \in Keys
                 PROVE  IF Replayed(log)[k] # Nil THEN Possible(Replayed(log)[k], k, hist', now')
                        ELSE k \in TableKeys'
      BY DEF Recovers
    <3>1. CASE Replayed(log)[k] # Nil
      <4>1. {} \in SUBSET SeqNo
        OBVIOUS
      <4> QED BY <2>4, <3>1, <4>1
    <3>2. CASE Replayed(log)[k] = Nil
      <4>1. \A undone \in SUBSET SeqNo : Possible(DirLookup(Mixed(undone, ddir', dir'), k), k, hist', now')
        BY <1>1, <2>4, <3>2
      <4> QED BY <1>2, <3>2, <4>1 DEF TableKeys
    <3> QED BY <3>1, <3>2
  <2>6. AtRisk'
    <3>1. \A n \in synced'..Len(log') : SubSeq(log', 1, n) = log
      BY <1>1, <2>2, <2>3
    <3> QED BY <1>1, <2>2, <2>5, <3>1, Zenon DEF AtRisk
  <2>7. LogKept'
    <3>1. pc' \in Running => \A i \in 1..Len(log') : log'[i] # Torn
      BY <1>1, <1>2 DEF CInv, LogKept
    <3>2. dnamed' /\ synced' <= Len(log')
      BY <1>1, <2>2, <2>3 DEF CInv, LogKept
    <3> QED BY <1>1, <1>2, <3>1, <3>2 DEF LogKept
  <2>8. Loose'
    BY <1>1, <1>2 DEF CInv, Loose
  <2>9. NeverBehind'
    <3>1. ASSUME NEW k \in Keys, Replayed(log)[k] # Nil
          PROVE  Seen(Replayed(log)[k], now) = Last(hist)[k]
      <4>1. {} \in SUBSET SeqNo
        OBVIOUS
      <4> QED BY <1>2, <3>1, <4>1, FullLogServes, Zenon
    <3> QED BY <1>1, <2>1, <2>2, <3>1 DEF NeverBehind
  <2> QED BY <1>3, <2>6, <2>7, <2>8, <2>9 DEF CInv
<1> QED BY <1>4, <1>5

\* The sweep turns what nobody can see into what nobody can see.
LEMMA SweepCrash ==
  ASSUME IInv, RInv, CInv, SweepExpired
  PROVE  CInv'
<1>1. PICK swept \in SUBSET {k \in Keys :
              memtable[k] # Nil /\ Expired(memtable[k].expires_at_ms, now)} :
        memtable' = [k \in Keys |-> IF k \in swept THEN Tombstone ELSE memtable[k]]
  BY DEF SweepExpired
<1>2. /\ pc = "sweep" /\ pc' = "compact"
      /\ UNCHANGED <<sstables, next_sequence, dir, ddir, log, dlog, synced, dirty, dnamed,
                     hist, held, wiping, now>>
  BY DEF SweepExpired, Goto, diskVars, Quiet, walVars, histVars
<1>3. pc \in Running \ MergeWindow /\ pc # "flush_logsync" /\ pc' \notin MergeWindow
      /\ pc' \notin {"flush_truncate", "flush_logsync", "down", "merge_write", "merge_rename"}
  BY <1>2 DEF Running, LoopSteps, MergeWindow
<1>4. LogCovers'
  <2> SUFFICES ASSUME NEW k \in Keys
               PROVE  /\ memtable'[k] = Nil <=> Replayed(log)[k] = Nil
                      /\ Seen(memtable'[k], now) = Seen(Replayed(log)[k], now)
                      /\ Replayed(log)[k] = Nil => Orphan[k] = Nil
    <3>1. Orphan' = Orphan
      BY <1>2 DEF Orphan
    <3> QED BY <1>2, <3>1 DEF LogCovers
  <2>1. /\ memtable[k] = Nil <=> Replayed(log)[k] = Nil
        /\ Seen(memtable[k], now) = Seen(Replayed(log)[k], now)
        /\ Replayed(log)[k] = Nil => Orphan[k] = Nil
    BY <1>3 DEF CInv, LogCovers
  <2>2. CASE k \notin swept
    BY <1>1, <2>1, <2>2
  <2>3. CASE k \in swept
    <3>1. memtable'[k] = Tombstone /\ memtable[k] # Nil /\ Expired(memtable[k].expires_at_ms, now)
      BY <1>1, <2>3
    <3>2. Seen(Tombstone, now) = Nil /\ Seen(memtable[k], now) = Nil /\ Tombstone # Nil
      <4>1. memtable[k] \in Entry
        BY <3>1 DEF IInv, TypeOK, Layer
      <4> QED BY <3>1, <4>1, EntryTypes, LayersAssumption, Zenon DEF Seen, Tombstone
    <3> QED BY <2>1, <3>1, <3>2
  <2> QED BY <2>2, <2>3
<1>5. InDir'
  BY <1>2, <1>3, InDirKept DEF CInv
<1>6. NoWipe'
  BY <1>2 DEF CInv, NoWipe, MergeSteps, WipeSteps
<1> QED BY <1>2, <1>3, <1>4, <1>5, <1>6, CalmCrash

-----------------------------------------------------------------------------
(* flush *)

\* What is being served may be found.
LEMMA LatestPossible ==
  ASSUME TypeOK, NEW k \in Keys, NEW e, Seen(e, now) = Last(hist)[k]
  PROVE  Possible(e, k, hist, now)
<1>1. hist \in Seq(Db) /\ hist # <<>>
  BY DEF TypeOK
<1>2. Len(hist) \in DOMAIN hist
  BY <1>1, EmptyIs
<1> QED BY <1>2 DEF Possible, Last

\* The table gets its name: what it says was in the log or nowhere.
LEMMA FlushRenameCrash ==
  ASSUME IInv, RInv, CInv, FlushRename, pc' # "serve"
  PROVE  CInv'
<1>1. /\ pc = "flush_rename" /\ pc' = "flush_sync" /\ dir' = [dir EXCEPT ![next_sequence] = tmp]
      /\ UNCHANGED <<memtable, sstables, next_sequence, ddir, log, dlog, synced, dirty, dnamed,
                     hist, held, wiping, now>>
  BY DEF FlushRename, Goto, memVars, Quiet, walVars, histVars
<1>2. pc \in Running \ MergeWindow /\ pc # "flush_logsync" /\ pc' \notin MergeWindow
      /\ pc' \notin {"flush_truncate", "flush_logsync", "down", "merge_write", "merge_rename"}
  BY <1>1 DEF Running, FlushSteps, MergeWindow
<1>3. /\ tmp # Nil /\ tmp.data = memtable /\ next_sequence \in SeqNo
      /\ dir \in [SeqNo -> File \cup {Nil}] /\ ddir \in [SeqNo -> File \cup {Nil}]
  BY <1>1 DEF IInv, TypeOK, LocalsStillHold, FlushSteps, RInv, Flushing
<1>4. dir'[next_sequence] = tmp /\ \A m \in SeqNo \ {next_sequence} : dir'[m] = dir[m]
  BY <1>1, <1>3
<1>5. ASSUME NEW k \in Keys
      PROVE  /\ memtable[k] = Nil <=> Replayed(log)[k] = Nil
             /\ Seen(memtable[k], now) = Seen(Replayed(log)[k], now)
             /\ Replayed(log)[k] = Nil => Orphan[k] = Nil
  BY <1>2 DEF CInv, LogCovers
<1>6. \A k \in Keys : Says(tmp, k) = memtable[k]
  BY <1>3 DEF Says
<1>7. \A k \in Keys : Says(dir[next_sequence], k) = Orphan[k]
  BY <1>3 DEF Says, Orphan, Leftover, EmptyLayer
<1>8. Mirrors(dir, sstables, {next_sequence})
  BY <1>2 DEF CInv, InDir
<1>9. \A i \in 1..Len(sstables) : sstables[i].seq \in SeqNo \ {next_sequence}
                                   /\ sstables[i].seq < next_sequence
  <2>1. \A i \in 1..Len(sstables) : sstables[i].seq \in SeqNo /\ sstables[i].seq < next_sequence
    BY InOrder DEF Ordered
  <2> QED BY <1>3, <2>1 DEF SeqNo
<1>10. NoWipe'
  BY <1>1 DEF CInv, NoWipe, MergeSteps, WipeSteps
<1>11. LogKept'
  BY <1>1, <1>2 DEF CInv, LogKept
<1>12. LogCovers'
  <2>1. Orphan' = memtable
    BY <1>1, <1>3, <1>4 DEF Orphan, Leftover
  <2> QED BY <1>1, <1>5, <2>1 DEF LogCovers
<1>13. InDir'
  <2>1. Mirrors(dir', sstables, {next_sequence})
    BY <1>4, <1>8, <1>9, Zenon DEF Mirrors
  <2> QED BY <1>1, <2>1 DEF InDir, Apart
<1>14. \A k \in Keys, m \in SeqNo : Replayed(log)[k] = Nil => Says(dir'[m], k) = Says(ddir[m], k)
  <2> SUFFICES ASSUME NEW k \in Keys, NEW m \in SeqNo, Replayed(log)[k] = Nil
               PROVE  Says(dir'[m], k) = Says(ddir[m], k)
    OBVIOUS
  <2>1. Says(dir[m], k) = Says(ddir[m], k)
    BY <1>2 DEF CInv, Loose
  <2>2. CASE m = next_sequence
    BY <1>4, <1>5, <1>6, <1>7, <2>1, <2>2
  <2> QED BY <1>4, <2>1, <2>2
<1>15. \A m \in SeqNo : ddir[m] # Nil => dir[m] # Nil
  BY <1>2 DEF CInv, Loose
<1>16. Loose'
  BY <1>1, <1>3, <1>4, <1>14, <1>15 DEF Loose
<1>17. TableKeys \subseteq TableKeys'
  <2> SUFFICES ASSUME NEW k \in TableKeys, NEW undone \in SUBSET SeqNo
               PROVE  Possible(DirLookup(Mixed(undone, ddir, dir'), k), k, hist, now)
    BY <1>1, <1>2, Zenon DEF TableKeys
  <2>1. k \in Keys /\ Possible(DirLookup(Mixed(undone, ddir, dir), k), k, hist, now)
    BY <1>2 DEF TableKeys
  <2> DEFINE d == Mixed(undone, ddir, dir')
  <2>2. \A m \in SeqNo : d[m] = IF m \in undone THEN ddir[m] ELSE dir'[m]
    BY DEF Mixed
  <2>3. \A m \in SeqNo : Mixed(undone, ddir, dir)[m] = IF m \in undone THEN ddir[m] ELSE dir[m]
    BY DEF Mixed
  <2> HIDE DEF d
  <2>4. CASE next_sequence \in undone
    <3>1. \A m \in SeqNo : Says(d[m], k) = Says(Mixed(undone, ddir, dir)[m], k)
      BY <1>4, <2>2, <2>3, <2>4
    <3>2. DirLookup(d, k) = DirLookup(Mixed(undone, ddir, dir), k)
      BY <2>1, <3>1, DirLookupAlike, Zenon
    <3> QED BY <2>1, <3>2 DEF d
  <2>5. CASE Replayed(log)[k] = Nil
    <3>1. \A m \in SeqNo : Says(dir[m], k) = Says(ddir[m], k)
      BY <1>2, <2>1, <2>5, Zenon DEF CInv, Loose
    <3>2. \A m \in SeqNo : Says(d[m], k) = Says(Mixed(undone, ddir, dir)[m], k)
      BY <1>14, <2>1, <2>2, <2>3, <2>5, <3>1, Zenon
    <3>3. DirLookup(d, k) = DirLookup(Mixed(undone, ddir, dir), k)
      BY <2>1, <3>2, DirLookupAlike, Zenon
    <3> QED BY <2>1, <3>3 DEF d
  <2>6. CASE next_sequence \notin undone /\ Replayed(log)[k] # Nil
    <3>1. memtable[k] # Nil /\ Says(d[next_sequence], k) = memtable[k]
      BY <1>3, <1>4, <1>5, <1>6, <2>1, <2>2, <2>6, Zenon
    <3>2. ASSUME NEW m \in SeqNo, Says(d[m], k) # Nil PROVE m <= next_sequence
      <4>1. m = next_sequence \/ dir[m] # Nil
        BY <1>4, <1>15, <2>2, <3>2 DEF Says
      <4>2. m = next_sequence \/ \E i \in 1..Len(sstables) : sstables[i].seq = m
        BY <1>8, <4>1 DEF Mirrors
      <4> QED BY <1>3, <1>9, <4>2 DEF SeqNo
    <3>3. DirLookup(d, k) = memtable[k]
      BY <1>3, <2>1, <3>1, <3>2, DirLookupTop
    <3>4. Seen(Lookup(memtable, sstables, k), now) = Last(hist)[k]
      BY <1>2, <2>1, Served DEF CInv, Apart, MergeWindow
    <3>5. Seen(DirLookup(d, k), now) = Last(hist)[k]
      BY <3>1, <3>3, <3>4 DEF Lookup
    <3> QED BY <2>1, <3>5, LatestPossible DEF d, IInv
  <2> QED BY <2>4, <2>5, <2>6
<1>18. AtRisk'
  <2>1. StillPossible(hist, now, hist', now')
    BY <1>1 DEF StillPossible
  <2>2. synced <= Len(log) /\ synced \in Nat /\ Len(log) \in Nat
    BY SeqIs DEF CInv, LogKept, IInv, TypeOK, WalTypeOK
  <2>3. synced' \in synced..Len(log)
    BY <1>1, <2>2
  <2> QED BY <1>1, <1>17, <2>1, <2>2, <2>3, RiskKept DEF IInv, CInv
<1>19. NeverBehind'
  BY <1>1, Zenon DEF CInv, NeverBehind, SyncsEachAppend, Last
<1> QED BY <1>10, <1>11, <1>12, <1>13, <1>16, <1>18, <1>19 DEF CInv

\* The name is forced to disk.
LEMMA FlushSyncCrash ==
  ASSUME IInv, RInv, CInv, FlushSync, pc' # "serve"
  PROVE  CInv'
<1>1. /\ pc = "flush_sync" /\ pc' = "flush_truncate" /\ ddir' = dir /\ dnamed'
      /\ UNCHANGED <<memtable, sstables, next_sequence, dir, log, dlog, synced, dirty,
                     hist, held, wiping, now>>
  BY DEF FlushSync, FsyncDirOk, Goto, memVars, histVars
<1>2. pc \in Running \ MergeWindow /\ pc # "flush_logsync" /\ pc' \notin MergeWindow
      /\ pc' \notin {"flush_logsync", "down", "merge_write", "merge_rename"}
  BY <1>1 DEF Running, FlushSteps, MergeWindow
<1>3. NoWipe'
  BY <1>1 DEF CInv, NoWipe, MergeSteps, WipeSteps
<1>4. LogKept'
  BY <1>1, <1>2 DEF CInv, LogKept
<1>5. LogCovers'
  BY <1>1, <1>2, CoversKept DEF CInv
<1>6. InDir'
  BY <1>1, <1>2, InDirKept DEF CInv
<1>7. Loose'
  BY <1>1 DEF Loose
<1>8. TableKeys \subseteq TableKeys'
  <2> SUFFICES ASSUME NEW k \in TableKeys, NEW undone \in SUBSET SeqNo
               PROVE  Possible(DirLookup(Mixed(undone, dir, dir), k), k, hist, now)
    BY <1>1, <1>2, Zenon DEF TableKeys
  <2>1. {} \in SUBSET SeqNo
    OBVIOUS
  <2>2. k \in Keys /\ Possible(DirLookup(Mixed({}, ddir, dir), k), k, hist, now)
    BY <1>2, <2>1 DEF TableKeys
  <2>3. \A m \in SeqNo : Says(Mixed(undone, dir, dir)[m], k) = Says(Mixed({}, ddir, dir)[m], k)
    BY DEF Mixed
  <2>4. DirLookup(Mixed(undone, dir, dir), k) = DirLookup(Mixed({}, ddir, dir), k)
    BY <2>2, <2>3, DirLookupAlike, Zenon
  <2> QED BY <2>2, <2>4
<1>9. AtRisk'
  <2>1. StillPossible(hist, now, hist', now')
    BY <1>1 DEF StillPossible
  <2>2. synced <= Len(log) /\ synced \in Nat /\ Len(log) \in Nat
    BY SeqIs DEF CInv, LogKept, IInv, TypeOK, WalTypeOK
  <2>3. synced' \in synced..Len(log)
    BY <1>1, <2>2
  <2> QED BY <1>1, <1>8, <2>1, <2>2, <2>3, RiskKept DEF IInv, CInv
<1>10. NeverBehind'
  BY <1>1, Zenon DEF CInv, NeverBehind, SyncsEachAppend, Last
<1> QED BY <1>3, <1>4, <1>5, <1>6, <1>7, <1>9, <1>10 DEF CInv

\* Once the new table's name is on the disk, the tables alone serve everything.
LEMMA TablesAlone ==
  ASSUME IInv, RInv, CInv, pc = "flush_truncate", NEW k \in Keys
  PROVE  /\ Orphan = memtable /\ ddir = dir
         /\ DirLookup(dir, k) = Lookup(memtable, sstables, k)
         /\ Seen(DirLookup(dir, k), now) = Last(hist)[k]
<1>1. pc \in Running \ MergeWindow /\ pc \notin Apart
  BY DEF Running, FlushSteps, MergeWindow, Apart
<1>2. next_sequence \in SeqNo /\ dir[next_sequence] # Nil /\ dir[next_sequence].data = memtable
  BY DEF IInv, LocalsStillHold, FlushSteps, RInv, Flushing
<1>3. Orphan = memtable
  BY <1>2 DEF Orphan, Leftover
<1>4. DirLookup(dir, k) = Lookup(Orphan, sstables, k)
  BY <1>1, DirReads DEF CInv
<1>5. Seen(Lookup(memtable, sstables, k), now) = Last(hist)[k]
  BY <1>1, Served DEF CInv
<1>6. ddir = dir
  BY DEF CInv, LogKept
<1> QED BY <1>3, <1>4, <1>5, <1>6

\* The cut.
LEMMA FlushTruncateCrash ==
  ASSUME IInv, RInv, CInv, FlushTruncate, pc' # "serve"
  PROVE  CInv'
<1>1. /\ pc = "flush_truncate" /\ pc' = "flush_logsync" /\ log' = <<>> /\ synced' = 0
      /\ UNCHANGED <<memtable, sstables, next_sequence, dir, ddir, dlog, dnamed,
                     hist, held, wiping, now>>
  BY DEF FlushTruncate, CutLog, Goto, memVars, diskVars, histVars
<1>2. pc \in Running \ MergeWindow /\ pc # "flush_logsync" /\ pc' \notin MergeWindow
      /\ pc' \notin {"down", "merge_write", "merge_rename"}
  BY <1>1 DEF Running, FlushSteps, MergeWindow
<1>3. NoWipe'
  BY <1>1 DEF CInv, NoWipe, MergeSteps, WipeSteps
<1>4. ddir = dir /\ dnamed
  BY <1>1 DEF CInv, LogKept
<1>5. LogKept'
  BY <1>1, <1>4 DEF LogKept
<1>6. LogCovers'
  BY <1>1 DEF LogCovers
<1>7. InDir'
  BY <1>1, <1>2, InDirKept DEF CInv
<1>8. Loose'
  BY <1>1, <1>4 DEF Loose
<1>9. TableKeys' = TableKeys
  BY <1>1, <1>2 DEF TableKeys
<1>10. \A k \in Keys : k \in TableKeys
  <2> SUFFICES ASSUME NEW k \in Keys, NEW undone \in SUBSET SeqNo
               PROVE  Possible(DirLookup(Mixed(undone, ddir, dir), k), k, hist, now)
    BY <1>2 DEF TableKeys
  <2>1. \A m \in SeqNo : Says(Mixed(undone, ddir, dir)[m], k) = Says(dir[m], k)
    BY <1>4 DEF Mixed
  <2>2. DirLookup(Mixed(undone, ddir, dir), k) = DirLookup(dir, k)
    BY <2>1, DirLookupAlike, Zenon
  <2>3. Seen(DirLookup(dir, k), now) = Last(hist)[k]
    BY <1>1, TablesAlone
  <2> QED BY <2>2, <2>3, LatestPossible DEF IInv
<1>11. AtRisk'
  <2>1. Recovers(<<>>, TableKeys, hist, now)
    BY <1>10, ReplayedNothing DEF Recovers
  <2>2. \A n \in synced'..Len(log') : SubSeq(log', 1, n) = <<>>
    BY <1>1
  <2>3. Recovers(dlog, TableKeys, hist, now)
    BY DEF CInv, AtRisk
  <2> QED BY <1>1, <1>9, <2>1, <2>2, <2>3, Zenon DEF AtRisk
<1>12. NeverBehind'
  <2>1. Last(hist)' = Last(hist) /\ Len(log') = 0
    BY <1>1 DEF Last
  <2>2. \A k \in Keys : Replayed(log')[k] = Nil
    BY <1>1, ReplayedNothing
  <2> QED BY <1>1, <2>1, <2>2 DEF CInv, NeverBehind
<1> QED BY <1>3, <1>5, <1>6, <1>7, <1>8, <1>11, <1>12 DEF CInv

\* The memtable is emptied and its table joins the vector.
LEMMA FlushLogSyncCrash ==
  ASSUME IInv, RInv, CInv, Guarded, FlushLogSync
  PROVE  CInv'
<1>1. /\ pc = "flush_logsync" /\ pc' = "serve" /\ SyncOk
      /\ sstables' = <<[seq |-> next_sequence, data |-> dir[next_sequence].data]>> \o sstables
      /\ next_sequence' = next_sequence + 1 /\ memtable' = EmptyLayer
      /\ UNCHANGED <<dir, ddir, hist, held, wiping, now, log, dnamed>>
  BY DEF FlushLogSync, Goto, diskVars, histVars, SyncOk, Guarded
<1>2. pc \in Running \ MergeWindow /\ pc' \notin MergeWindow
      /\ pc' \notin {"flush_truncate", "flush_logsync", "down", "merge_write", "merge_rename"}
  BY <1>1 DEF Running, FlushSteps, MergeWindow
<1>3. next_sequence \in SeqNo /\ dir[next_sequence] # Nil
  BY <1>1 DEF IInv, LocalsStillHold, FlushSteps
<1>4. Mirrors(dir, sstables, {next_sequence})
  BY <1>2 DEF CInv, InDir
<1>5. \A i \in 1..Len(sstables) : sstables[i].seq \in SeqNo /\ sstables[i].seq < next_sequence
  BY InOrder DEF Ordered
<1>6. ASSUME next_sequence + 1 \in SeqNo PROVE dir[next_sequence + 1] = Nil
  <2>1. next_sequence + 1 # next_sequence
        /\ \A i \in 1..Len(sstables) : sstables[i].seq # next_sequence + 1
    BY <1>3, <1>5 DEF SeqNo
  <2> QED BY <1>4, <1>6, <2>1 DEF Mirrors
<1>7. LogCovers'
  <2>1. \A k \in Keys : Orphan'[k] = Nil
    BY <1>1, <1>6, Zenon DEF Orphan, Leftover, EmptyLayer
  <2>2. log = <<>>
    BY <1>1 DEF CInv, LogKept
  <2>3. \A k \in Keys : memtable'[k] = Nil /\ Replayed(log')[k] = Nil
    BY <1>1, <2>2, ReplayedNothing DEF EmptyLayer
  <2> QED BY <2>1, <2>3, Zenon DEF LogCovers
<1>8. InDir'
  <2>1. PICK t : t = [seq |-> next_sequence, data |-> dir[next_sequence].data]
    BY Zenon
  <2>2. sstables' = <<t>> \o sstables /\ t.seq = next_sequence /\ t.data = dir[next_sequence].data
    BY <1>1, <2>1
  <2>3. /\ Len(sstables) \in Nat /\ Len(sstables') = 1 + Len(sstables) /\ sstables'[1] = t
        /\ \A i \in 1..Len(sstables) : sstables'[1 + i] = sstables[i]
    <3>1. sstables \in Seq(Table) /\ t \in Table
      <4>1. dir[next_sequence].data \in Layer
        BY <1>3 DEF IInv, TypeOK, File
      <4> QED BY <1>3, <2>1, <4>1 DEF IInv, TypeOK, Table
    <3>2. <<t>> \in Seq(Table) /\ Len(<<t>>) = 1 /\ <<t>>[1] = t
      BY <3>1
    <3>3. /\ Len(<<t>> \o sstables) = Len(<<t>>) + Len(sstables)
          /\ \A i \in 1..Len(<<t>>) : (<<t>> \o sstables)[i] = <<t>>[i]
          /\ \A i \in 1..Len(sstables) : (<<t>> \o sstables)[Len(<<t>>) + i] = sstables[i]
      BY <3>1, <3>2, ConcatIs
    <3>4. 1 \in 1..Len(<<t>>) /\ Len(sstables) \in Nat
      BY <3>1, <3>2, SeqIs
    <3> QED BY <2>2, <3>2, <3>3, <3>4, Zenon
  <2>4. Mirrors(dir, sstables', {next_sequence + 1})
    <3>1. ASSUME NEW i \in 1..Len(sstables')
          PROVE  dir[sstables'[i].seq] # Nil /\ dir[sstables'[i].seq].data = sstables'[i].data
      <4>1. CASE i = 1
        BY <1>3, <2>2, <2>3, <4>1
      <4>2. CASE i # 1
        <5>1. i - 1 \in 1..Len(sstables) /\ 1 + (i - 1) = i
          BY <2>3, <4>2
        <5>2. sstables'[i] = sstables[i - 1]
          BY <2>3, <5>1
        <5> QED BY <1>4, <5>1, <5>2 DEF Mirrors
      <4> QED BY <4>1, <4>2
    <3>2. ASSUME NEW m \in SeqNo, dir[m] # Nil
          PROVE  \E i \in 1..Len(sstables') : sstables'[i].seq = m
      <4>1. CASE m = next_sequence
        <5>1. 1 \in 1..Len(sstables')
          BY <2>3
        <5> QED BY <2>2, <2>3, <4>1, <5>1
      <4>2. CASE m # next_sequence
        <5>1. PICK i \in 1..Len(sstables) : sstables[i].seq = m
          BY <1>4, <3>2, <4>2 DEF Mirrors
        <5>2. 1 + i \in 1..Len(sstables') /\ sstables'[1 + i] = sstables[i]
          BY <2>3
        <5> QED BY <5>1, <5>2
      <4> QED BY <4>1, <4>2
    <3> QED BY <3>1, <3>2 DEF Mirrors
  <2> QED BY <1>1, <2>4, Zenon DEF InDir, Apart
<1>9. NoWipe'
  BY <1>1 DEF CInv, NoWipe, MergeSteps, WipeSteps
<1> QED BY <1>1, <1>2, <1>7, <1>8, <1>9, CalmCrash

\* Every step of flush.
LEMMA FlushCrash ==
  ASSUME IInv, RInv, CInv, Guarded, Flush
  PROVE  CInv'
<1>1. CASE FlushRename
  BY <1>1, FlushRenameCrash, CalmSteps, Zenon
<1>2. CASE FlushSync
  BY <1>2, FlushSyncCrash, CalmSteps, Zenon
<1>3. CASE FlushTruncate
  BY <1>3, FlushTruncateCrash, CalmSteps, Zenon
<1>4. CASE FlushWrite
  BY <1>4, CalmSteps, Zenon
<1>5. CASE FlushLogSync
  BY <1>5, FlushLogSyncCrash, Zenon
<1> QED BY <1>1, <1>2, <1>3, <1>4, <1>5, Zenon DEF Flush

=============================================================================
