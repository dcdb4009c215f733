----------------------------- MODULE StoreCrash -----------------------------
(***************************************************************************)
(* No crash loses or invents anything: after a kill every executed command *)
(* is found again, after a loss of power every acknowledged one (the log   *)
(* before the memtable, the table before the cut, one fsync before the     *)
(* held replies).                                                          *)
(***************************************************************************)
EXTENDS CrashInvariant

-----------------------------------------------------------------------------
(* Crash, restart and the clock *)

\* A crash adds nothing to what a client may find.
LEMMA DeathCrash ==
  ASSUME IInv, RInv, CInv, MemoryGone, WalDies \/ SyncOk, pc \in Running \ MergeWindow
  PROVE  CInv'
<1>1. /\ pc' = "down" /\ ~held' /\ ~wiping' /\ hist' = hist \o Found
      /\ UNCHANGED <<dir, ddir, now>>
  BY DEF MemoryGone, Goto, diskVars
<1>2. UNCHANGED <<log, dnamed>> /\ (UNCHANGED <<dlog, synced>> \/ SyncOk)
  BY DEF WalDies, SyncOk
<1>3. hist' = hist
  <2>1. Found = <<>>
    BY RestartServes DEF Found, CInv, NoWipe
  <2>2. hist \in Seq(Db)
    BY DEF IInv, TypeOK
  <2> QED BY <1>1, <2>1, <2>2
<1>4. /\ pc' \notin Running /\ pc' \notin MergeWindow \cup {"flush_truncate", "flush_logsync"}
      /\ pc' \notin WipeSteps /\ pc' \notin MergeSteps
  BY <1>1 DEF Running, LoopSteps, FlushSteps, MergeSteps, WipeSteps, MergeWindow
<1>5. NoWipe'
  BY <1>1, <1>4 DEF NoWipe
<1>6. LogCovers'
  BY <1>4 DEF LogCovers
<1>7. InDir'
  BY <1>1, <1>4 DEF InDir, Apart
<1> QED BY <1>1, <1>2, <1>3, <1>4, <1>5, <1>6, <1>7, CalmCrash

\* Where a kill or a loss of power may come, no merge is half done.
LEMMA CrashPoints ==
  ASSUME CInv, Guarded, pc \in KillAt \cup PowerAt
  PROVE  pc \notin MergeWindow
BY StoreAssumption DEF Guarded, CInv, NoWipe, MergeWindow, MergeSteps

\* After a loss of power what is left is all there is.
LEMMA PowerLossCrash ==
  ASSUME IInv, CInv, PowerLoss, IInv'
  PROVE  CInv'
<1>1. PICK left \in LogsAfterPowerLoss, d \in DirsAfterPowerLoss :
        WalLosesPower(left) /\ dir' = d /\ ddir' = d /\ hist' = <<RestartView(left, d)>>
  BY DEF PowerLoss
<1>2. pc' = "down" /\ ~held' /\ ~wiping' /\ now' = now
  BY DEF PowerLoss, Goto
<1>3. log' = left /\ dlog' = left /\ synced' = Len(left) /\ dnamed'
  BY <1>1, Zenon DEF WalLosesPower, CInv, LogKept
<1>4. left \in AnyLog /\ Len(left) \in Nat /\ SubSeq(left, 1, Len(left)) = left
  BY <1>3, SeqIs DEF IInv, TypeOK, WalTypeOK, LogItem, AnyLog
<1>5. /\ pc' \notin Running /\ pc' \notin MergeWindow \cup {"flush_truncate", "flush_logsync"}
      /\ pc' \notin WipeSteps /\ pc' \notin MergeSteps
  BY <1>2 DEF Running, LoopSteps, FlushSteps, MergeSteps, WipeSteps, MergeWindow
<1>6. Last(hist)' = RestartView(left, d) /\ 1 \in DOMAIN hist' /\ hist'[1] = RestartView(left, d)
  BY <1>1 DEF Last
<1>7. ASSUME NEW k \in Keys
      PROVE  RestartView(left, d)[k] = Seen(IF Replayed(left)[k] # Nil THEN Replayed(left)[k]
                                            ELSE DirLookup(d, k), now)
  BY DEF RestartView
<1>8. NoWipe'
  BY <1>2, <1>5 DEF NoWipe
<1>9. LogKept'
  BY <1>2, <1>3, <1>4, <1>5 DEF LogKept
<1>10. LogCovers' /\ Loose'
  BY <1>1, <1>5, Zenon DEF LogCovers, Loose
<1>11. InDir'
  BY <1>2, <1>5, Zenon DEF InDir, Apart
<1>12. Recovers(left, TableKeys', hist', now')
  <2> SUFFICES ASSUME NEW k \in Keys
               PROVE  IF Replayed(left)[k] # Nil THEN Possible(Replayed(left)[k], k, hist', now')
                      ELSE k \in TableKeys'
    BY DEF Recovers
  <2>1. CASE Replayed(left)[k] # Nil
    BY <1>2, <1>6, <1>7, <2>1, Zenon DEF Possible
  <2>2. CASE Replayed(left)[k] = Nil
    <3>1. Possible(DirLookup(d, k), k, hist', now')
      BY <1>2, <1>6, <1>7, <2>2, Zenon DEF Possible
    <3>2. ASSUME NEW undone \in SUBSET SeqNo
          PROVE  Possible(DirLookup(Mixed(undone, d, d), k), k, hist', now')
      <4>1. \A n \in SeqNo : Says(Mixed(undone, d, d)[n], k) = Says(d[n], k)
        BY DEF Mixed
      <4>2. DirLookup(Mixed(undone, d, d), k) = DirLookup(d, k)
        BY <4>1, DirLookupAlike, Zenon
      <4> QED BY <3>1, <4>2
    <3> QED BY <1>1, <1>5, <2>2, <3>2 DEF TableKeys
  <2> QED BY <2>1, <2>2
<1>13. AtRisk'
  <2>1. \A n \in synced'..Len(log') : SubSeq(log', 1, n) = left
    BY <1>3, <1>4
  <2> QED BY <1>3, <1>12, <2>1, Zenon DEF AtRisk
<1>14. NeverBehind'
  <2>1. ASSUME NEW k \in Keys, Replayed(left)[k] # Nil
        PROVE  Seen(Replayed(left)[k], now') = Last(hist)'[k]
    BY <1>2, <1>6, <1>7, <2>1, Zenon
  <2> QED BY <1>3, <2>1 DEF NeverBehind
<1> QED BY <1>8, <1>9, <1>10, <1>11, <1>13, <1>14 DEF CInv

\* The constructor finds log and tables as they were.
LEMMA RestartCrash ==
  ASSUME IInv, RInv, CInv, Restart, IInv'
  PROVE  CInv'
<1>1. /\ pc = "down" /\ pc' = "serve" /\ memtable' = Replayed(log) /\ WalReopens
      /\ UNCHANGED <<dir, ddir, now, hist, held, wiping>>
  BY DEF Restart, Goto, histVars
<1>2. pc \notin MergeWindow /\ pc' \notin MergeWindow /\ pc' \notin MergeSteps
      /\ pc' \notin {"flush_truncate", "flush_logsync", "down"}
  BY <1>1 DEF MergeWindow, MergeSteps
<1>3. log \in AnyLog /\ synced \in Nat /\ Len(log) \in Nat /\ synced <= Len(log) /\ dnamed /\ ~held
  BY <1>1, SeqIs DEF IInv, TypeOK, WalTypeOK, LogItem, AnyLog, CInv, LogKept
<1>4. PICK c \in 0..Len(log) :
        /\ Intact(log) = SubSeq(log, 1, c) /\ Len(Intact(log)) = c /\ Intact(log) \in AnyLog
        /\ \A i \in 1..c : Intact(log)[i] # Torn
        /\ \A k \in Keys : Replayed(Intact(log))[k] = Replayed(log)[k]
  BY <1>3, IntactIs
<1>5. /\ log' = SubSeq(log, 1, c) /\ Len(log') = c /\ dlog' = dlog /\ dnamed'
      /\ synced' = IF synced <= c THEN synced ELSE c
      /\ \A i \in 1..c : log'[i] # Torn
      /\ \A k \in Keys : Replayed(log')[k] = Replayed(log)[k]
  BY <1>1, <1>3, <1>4 DEF WalReopens
<1>6. NoWipe'
  BY <1>1, <1>2 DEF CInv, NoWipe, WipeSteps
<1>7. LogKept'
  <2>1. synced' <= Len(log')
    BY <1>3, <1>4, <1>5
  <2> QED BY <1>1, <1>2, <1>3, <1>5, <2>1 DEF LogKept
<1>8. PICK n, order :
        /\ n \in Nat /\ order \in [1..n -> Names(dir)]
        /\ sstables' = [i \in 1..n |-> [seq |-> order[i], data |-> dir[order[i]].data]]
        /\ \A m \in Names(dir) : \E i \in 1..n : order[i] = m
        /\ Len(sstables') = n
  <2>1. PICK order \in NewestFirst(Names(dir)) :
          sstables' = [i \in DOMAIN order |-> [seq |-> order[i], data |-> dir[order[i]].data]]
    BY DEF Restart
  <2>2. PICK n \in Nat : /\ order \in [1..n -> Names(dir)]
                         /\ \A m \in Names(dir) : \E i \in 1..n : order[i] = m
    BY NewestFirstIs
  <2>3. sstables' = [i \in 1..n |-> [seq |-> order[i], data |-> dir[order[i]].data]]
    BY <2>1, <2>2
  <2>4. Len(sstables') = n
    <3>1. sstables' \in Seq(Table)
      BY DEF IInv, TypeOK
    <3>2. DOMAIN sstables' = 1..n
      BY <2>3
    <3> QED BY <2>2, <3>1, <3>2
  <2> QED BY <2>2, <2>3, <2>4, Zenon
<1>9. \A i \in 1..n : sstables'[i].seq = order[i] /\ sstables'[i].data = dir[order[i]].data
  BY <1>8
<1>10. Mirrors(dir, sstables', {next_sequence'})
  <2>1. \A i \in 1..n : dir[order[i]] # Nil
    BY <1>8 DEF Names
  <2>2. \A m \in SeqNo : dir[m] # Nil => \E i \in 1..n : order[i] = m
    BY <1>8 DEF Names
  <2> QED BY <1>8, <1>9, <2>1, <2>2 DEF Mirrors
<1>11. next_sequence' \in SeqNo => dir[next_sequence'] = Nil
  <2> SUFFICES ASSUME next_sequence' \in SeqNo, dir[next_sequence'] # Nil PROVE FALSE
    OBVIOUS
  <2>1. PICK i \in 1..n : order[i] = next_sequence'
    BY <1>8 DEF Names
  <2>2. sstables'[i].seq < next_sequence'
    BY <1>8 DEF IInv, NamesInOrder
  <2> QED BY <1>9, <2>1, <2>2 DEF SeqNo
<1>12. LogCovers'
  <2>1. \A k \in Keys : Orphan'[k] = Nil
    BY <1>1, <1>11 DEF Orphan, Leftover, EmptyLayer
  <2> QED BY <1>1, <1>5, <2>1 DEF LogCovers
<1>13. InDir'
  BY <1>1, <1>10 DEF InDir, Apart
<1>14. Loose'
  BY <1>1, <1>2, <1>5 DEF CInv, Loose
<1>15. TableKeys' = TableKeys
  BY <1>1, <1>2 DEF TableKeys
<1>16. AtRisk'
  <2>1. \A j \in synced..Len(log) : Recovers(SubSeq(log, 1, j), TableKeys, hist, now)
    BY DEF CInv, AtRisk
  <2>2. Recovers(log', TableKeys, hist, now)
    <3>1. SubSeq(log, 1, Len(log)) = log /\ Len(log) \in synced..Len(log)
      BY <1>3 DEF AnyLog
    <3>2. Recovers(log, TableKeys, hist, now)
      BY <2>1, <3>1, Zenon
    <3> QED BY <1>5, <3>2 DEF Recovers
  <2>3. ASSUME NEW j \in synced'..Len(log') PROVE Recovers(SubSeq(log', 1, j), TableKeys, hist, now)
    <3>1. CASE synced <= c
      <4>1. j \in synced..Len(log) /\ j \in 0..c
        BY <1>3, <1>4, <1>5, <3>1
      <4>2. SubSeq(log', 1, j) = SubSeq(log, 1, j)
        BY <1>3, <1>4, <1>5, <4>1, PrefixOfPrefix DEF AnyLog
      <4> QED BY <2>1, <4>1, <4>2, Zenon
    <3>2. CASE ~(synced <= c)
      <4>1. j = Len(log')
        BY <1>3, <1>4, <1>5, <3>2
      <4>2. SubSeq(log', 1, Len(log')) = log'
        BY <1>4, <1>1 DEF WalReopens, AnyLog
      <4> QED BY <2>2, <4>1, <4>2, Zenon
    <3> QED BY <3>1, <3>2
  <2>4. Recovers(dlog, TableKeys, hist, now)
    BY DEF CInv, AtRisk
  <2> QED BY <1>1, <1>5, <1>15, <2>3, <2>4 DEF AtRisk
<1>17. NeverBehind'
  <2>1. SyncsEachAppend => synced' = Len(log')
    BY <1>3, <1>4, <1>5, SMTT(30) DEF CInv, NeverBehind
  <2> QED BY <1>1, <1>5, <2>1 DEF CInv, NeverBehind, Last
<1> QED BY <1>6, <1>7, <1>12, <1>13, <1>14, <1>16, <1>17 DEF CInv

\* Time passes.
LEMMA TickCrash ==
  ASSUME IInv, RInv, CInv, Tick
  PROVE  CInv'
<1>1. /\ now' = now + 1 /\ now \in Int
      /\ UNCHANGED <<log, dlog, synced, dirty, dnamed, memtable, sstables, next_sequence,
                     dir, ddir, pc, job, held, wiping>>
  BY DEF Tick, walVars, memVars, diskVars, IInv, TypeOK
<1>2. /\ hist \in Seq(Db) /\ hist # <<>> /\ DOMAIN hist' = DOMAIN hist
      /\ \A i \in DOMAIN hist : \A k \in Keys : hist'[i][k] = Seen(hist[i][k], now + 1)
  BY DEF Tick, IInv, TypeOK
<1>3. \A k \in Keys : Last(hist)'[k] = Seen(Last(hist)[k], now + 1)
  <2>1. Len(hist) \in DOMAIN hist /\ DOMAIN hist = 1..Len(hist) /\ Len(hist) \in Nat
    BY <1>2, EmptyIs
  <2>2. hist' \in Seq(Db)
    <3>1. hist' \in [1..Len(hist) -> Db]
      BY <2>1, <1>1, <1>2, EntryTypes DEF Tick, Db, Layer
    <3> QED BY <2>1, <3>1, FunctionIsSeq
  <2>3. Len(hist') = Len(hist)
    BY <1>2, <2>1, <2>2
  <2> QED BY <1>2, <2>1, <2>3 DEF Last
<1>4. \A e \in Entry \cup {Nil} : Seen(Seen(e, now), now + 1) = Seen(e, now + 1)
  BY <1>1, SeenLater
<1>5. StillPossible(hist, now, hist', now')
  BY <1>1, <1>2, <1>4 DEF StillPossible, Possible
<1>6. Orphan' = Orphan /\ Tables' = Tables /\ Inputs' = Inputs /\ Erased(job.at)' = Erased(job.at)
  <2>1. OnDisk' = OnDisk
    BY <1>1 DEF OnDisk
  <2> QED BY <1>1, <2>1, Zenon DEF Orphan, Tables, Inputs, Erased
<1>7. NoWipe' /\ LogKept'
  BY <1>1 DEF CInv, NoWipe, LogKept
<1>8. LogCovers'
  <2> SUFFICES ASSUME pc \in Running \ {"flush_logsync"}, NEW k \in Keys
               PROVE  /\ memtable[k] = Nil <=> Replayed(log)[k] = Nil
                      /\ Seen(memtable[k], now + 1) = Seen(Replayed(log)[k], now + 1)
                      /\ Replayed(log)[k] = Nil => Orphan[k] = Nil
    BY <1>1, <1>6, Zenon DEF LogCovers
  <2>1. /\ memtable[k] = Nil <=> Replayed(log)[k] = Nil
        /\ Seen(memtable[k], now) = Seen(Replayed(log)[k], now)
        /\ Replayed(log)[k] = Nil => Orphan[k] = Nil
    BY Zenon DEF CInv, LogCovers
  <2>2. memtable[k] \in Entry \cup {Nil} /\ Replayed(log)[k] \in Entry \cup {Nil}
    BY ReplayedType, Zenon DEF IInv, TypeOK, WalTypeOK, LogItem, Layer
  <2>3. Seen(memtable[k], now + 1) = Seen(Replayed(log)[k], now + 1)
    BY <1>4, <2>1, <2>2, Zenon
  <2> QED BY <2>1, <2>3, Zenon
<1>9. InDir'
  BY <1>1, <1>6, Zenon DEF CInv, InDir
<1>10. Loose'
  BY <1>1 DEF CInv, Loose
<1>11. TableKeys \subseteq TableKeys'
  <2>1. CASE pc \notin MergeWindow
    BY <1>1, <1>5, <2>1, KeysKept DEF IInv
  <2>2. CASE pc \in MergeWindow
    <3>1. Vector(Tables)
      <4>1. CASE pc \in Apart
        <5>1. OnDisk \in AnyTable
          BY <4>1, OnDiskType DEF IInv, Apart
        <5>2. job.at \in 1..(Len(sstables) + 1) /\ Len(sstables) \in Nat
          BY <4>1, TablesType, Zenon DEF IInv, LocalsStillHold, Apart
        <5>3. job.at - 1 \in (job.at - 1)..Len(sstables)
          BY <5>2
        <5> QED BY <4>1, <5>1, <5>2, <5>3, VectorWith DEF Tables, IInv
      <4>2. CASE pc \notin Apart
        <5>1. Tables = sstables /\ Len(sstables) \in Nat /\ sstables \in Seq(Table)
          BY <4>2, TablesType, Zenon DEF Tables, IInv, TypeOK
        <5>2. \A i \in 1..Len(sstables) : sstables[i] \in Table
          BY <5>1, ElementIs
        <5> QED BY <5>1, <5>2 DEF Vector, Table
      <4> QED BY <4>1, <4>2
    <3>2. Orphan \in Layer
      BY EntryTypes DEF Orphan, Leftover, IInv, TypeOK, File
    <3>3. \A k \in Keys : Lookup(Orphan, Tables, k) \in Entry \cup {Nil}
      <4>1. \A k \in Keys : TableLookup(Tables, k) \in Entry \cup {Nil}
        BY <3>1, TableLookupType DEF Vector
      <4> QED BY <3>2, <4>1 DEF Lookup, Layer
    <3> QED BY <1>1, <1>5, <1>6, <2>2, <3>3 DEF TableKeys, StillPossible
  <2> QED BY <2>1, <2>2
<1>12. AtRisk'
  <2>1. synced <= Len(log) /\ synced \in Nat /\ Len(log) \in Nat
    BY SeqIs DEF CInv, LogKept, IInv, TypeOK, WalTypeOK
  <2>2. synced' \in synced..Len(log)
    BY <1>1, <2>1
  <2> QED BY <1>1, <1>5, <1>11, <2>1, <2>2, RiskKept DEF IInv, CInv
<1>13. NeverBehind'
  <2>1. \A k \in Keys : Replayed(dlog)[k] \in Entry \cup {Nil}
    BY ReplayedType DEF IInv, TypeOK, WalTypeOK, LogItem, Layer
  <2> QED BY <1>1, <1>3, <1>4, <2>1 DEF CInv, NeverBehind
<1> QED BY <1>7, <1>8, <1>9, <1>10, <1>12, <1>13 DEF CInv

-----------------------------------------------------------------------------
(* maybe_compact, from the rename to the end *)

\* The steps that no crash interrupts and no error cuts short.
Window == MergeWindow \cup {"merge_rename"}

\* What they leave alone.
Steady == UNCHANGED <<log, dlog, synced, dirty, hist, held, wiping, now, memtable, next_sequence>>

\* Where an exit leaves memory and directory in agreement, nothing is lost.
LEMMA WindowCrash ==
  ASSUME IInv, CInv, Steady, dnamed', pc \in Window, pc' \in MergeWindow \cup {"sync"},
         pc' = "sync" => ddir' = dir', Orphan' = Orphan, TableKeys \subseteq TableKeys', InDir'
  PROVE  CInv'
<1>1. UNCHANGED <<log, dlog, synced, dirty, hist, held, wiping, now, memtable, next_sequence>>
  BY DEF Steady
<1>2. pc \in Running /\ pc' \in Running /\ pc' \notin {"flush_truncate", "flush_logsync", "down"}
      /\ pc \notin {"flush_truncate", "flush_logsync", "down"}
  BY DEF Window, MergeWindow, Running, LoopSteps, MergeSteps
<1>3. NoWipe'
  <2>1. use_compaction \in BOOLEAN /\ pc \in MergeSteps
    BY StoreAssumption DEF Window, MergeWindow, MergeSteps
  <2> QED BY <1>1, <2>1 DEF CInv, NoWipe, WipeSteps, MergeWindow
<1>4. LogKept'
  BY <1>1, <1>2 DEF CInv, LogKept
<1>5. LogCovers'
  BY <1>1, <1>2 DEF CInv, LogCovers
<1>6. Loose'
  BY DEF Loose
<1>7. AtRisk'
  <2>1. StillPossible(hist, now, hist', now')
    BY <1>1 DEF StillPossible
  <2>2. synced <= Len(log) /\ synced \in Nat /\ Len(log) \in Nat
    BY SeqIs DEF CInv, LogKept, IInv, TypeOK, WalTypeOK
  <2>3. synced' \in synced..Len(log)
    BY <1>1, <2>2
  <2> QED BY <1>1, <2>1, <2>2, <2>3, RiskKept DEF IInv, CInv
<1>8. NeverBehind'
  BY <1>1 DEF CInv, NeverBehind, SyncsEachAppend, Last
<1> QED BY <1>3, <1>4, <1>5, <1>6, <1>7, <1>8 DEF CInv

\* What the tables in memory say decides, within the window ...
LEMMA WindowKeys ==
  ASSUME UNCHANGED <<hist, now>>, Orphan' = Orphan, pc \in MergeWindow, pc' \in MergeWindow,
         \A k \in Keys : Seen(Lookup(Orphan, Tables, k), now) = Seen(Lookup(Orphan, Tables', k), now)
  PROVE  TableKeys \subseteq TableKeys'
BY DEF TableKeys, Possible

\* ... and at its end, when the directory is the vector's again.
LEMMA WindowLeft ==
  ASSUME UNCHANGED <<hist, now, next_sequence>>, Orphan' = Orphan, pc \in MergeWindow,
         pc' \notin MergeWindow, ddir' = dir', Mirrors(dir', sstables', {next_sequence}),
         Len(sstables') \in Nat, next_sequence \in Int, Ordered(sstables', next_sequence),
         \A k \in Keys :
           Seen(Lookup(Orphan, Tables, k), now) = Seen(Lookup(Orphan, sstables', k), now)
  PROVE  TableKeys \subseteq TableKeys'
<1> SUFFICES ASSUME NEW k \in TableKeys, NEW undone \in SUBSET SeqNo
             PROVE  Possible(DirLookup(Mixed(undone, ddir', dir'), k), k, hist, now)
  BY Zenon DEF TableKeys
<1>1. k \in Keys /\ Possible(Lookup(Orphan, Tables, k), k, hist, now)
  BY DEF TableKeys
<1>2. \A m \in SeqNo : Says(Mixed(undone, ddir', dir')[m], k) = Says(dir'[m], k)
  BY DEF Mixed
<1>3. DirLookup(Mixed(undone, ddir', dir'), k) = DirLookup(dir', k)
  BY <1>1, <1>2, DirLookupAlike, Zenon
<1>4. DirLookup(dir', k) = Lookup(Leftover(dir', next_sequence), sstables', k)
  BY <1>1, MirrorReads, Zenon
<1>5. Leftover(dir', next_sequence) = Orphan
  BY DEF Orphan
<1> QED BY <1>1, <1>3, <1>4, <1>5 DEF Possible

\* A name that is not the next one leaves the orphan alone.
LEMMA OrphanKept ==
  ASSUME TypeOK, next_sequence' = next_sequence, NEW n \in SeqNo, n # next_sequence, NEW f,
         dir' = [dir EXCEPT ![n] = f]
  PROVE  Orphan' = Orphan
BY DEF TypeOK, Orphan, Leftover

\* The vector without a run: the tables either side, and no other.
LEMMA Parted ==
  ASSUME NEW tables \in Seq(Table),
         NEW at \in 1..Len(tables), NEW n \in Nat, at + n <= Len(tables)
  PROVE  LET r == SubSeq(tables, 1, at - 1) \o SubSeq(tables, at + n + 1, Len(tables))
         IN  /\ \A i \in 1..Len(r) : \E a \in 1..Len(tables) :
                  (a < at \/ a > at + n) /\ r[i] = tables[a]
             /\ \A a \in 1..Len(tables) : a < at \/ a > at + n =>
                  \E i \in 1..Len(r) : r[i] = tables[a]
<1> DEFINE last == at + n
<1>1. PICK r : r = SubSeq(tables, 1, at - 1) \o SubSeq(tables, at + n + 1, Len(tables))
  BY Zenon
<1>2. PICK len \in Nat : len = Len(tables)
  BY SeqIs
<1>3. last \in at..Len(tables) /\ last - at + 1 = n + 1 /\ at \in 1..len /\ at + n <= len
  BY <1>2
<1>4. /\ Len(r) = Len(tables) - (last - at + 1)
      /\ \A i \in 1..(at - 1) : r[i] = tables[i]
      /\ \A i \in at..Len(r) : r[i] = tables[i + (last - at + 1)]
  <2> HIDE DEF last
  <2>1. r = SubSeq(tables, 1, at - 1) \o SubSeq(tables, last + 1, Len(tables))
    BY <1>1 DEF last
  <2> QED BY <1>3, <2>1, RemovedIs, ZenonT(30)
<1>5. /\ Len(r) = len - (n + 1)
      /\ \A i \in 1..(at - 1) : r[i] = tables[i]
      /\ \A i \in at..Len(r) : r[i] = tables[i + (n + 1)]
  BY <1>2, <1>3, <1>4, Zenon
<1>6. ASSUME NEW i \in 1..Len(r)
      PROVE  \E a \in 1..len : (a < at \/ a > at + n) /\ r[i] = tables[a]
  <2>1. CASE i < at
    <3>1. i \in 1..(at - 1) /\ i \in 1..len
      BY <1>3, <1>5, <2>1
    <3> QED BY <1>5, <2>1, <3>1
  <2>2. CASE ~(i < at)
    <3>1. i \in at..Len(r) /\ i + (n + 1) \in 1..len /\ i + (n + 1) > at + n
      BY <1>3, <1>5, <2>2
    <3> QED BY <1>5, <3>1
  <2> QED BY <2>1, <2>2
<1>7. ASSUME NEW a \in 1..len, a < at \/ a > at + n
      PROVE  \E i \in 1..Len(r) : r[i] = tables[a]
  <2>1. CASE a < at
    <3>1. a \in 1..(at - 1) /\ a \in 1..Len(r)
      BY <1>3, <1>5, <2>1
    <3> QED BY <1>5, <3>1
  <2>2. CASE a > at + n
    <3>1. PICK i \in Int : i = a - (n + 1)
      BY <1>3
    <3>2. i \in at..Len(r) /\ i \in 1..Len(r) /\ i + (n + 1) = a
      BY <1>3, <1>5, <2>2, <3>1
    <3> QED BY <1>5, <3>2
  <2> QED BY <1>7, <2>1, <2>2
<1> QED BY <1>1, <1>2, <1>6, <1>7, Zenon

\* The merged table takes the name of its newest input.
LEMMA MergeRenameCrash ==
  ASSUME IInv, RInv, CInv, MergeRename, pc' # "sync"
  PROVE  CInv'
<1>1. /\ pc = "merge_rename" /\ pc' = "merge_sync" /\ dir' = [dir EXCEPT ![job.target] = tmp]
      /\ UNCHANGED <<job, sstables, ddir, dnamed>> /\ Steady
  BY DEF MergeRename, CompactionOver, Goto, memVars, Quiet, walVars, histVars, Steady
<1>2. pc \in Running \ MergeWindow /\ pc' \in MergeWindow /\ pc \in Window
  BY <1>1 DEF Running, MergeSteps, MergeWindow, Window
<1>3. /\ job.target \in SeqNo /\ job.target < next_sequence /\ next_sequence \in Int
      /\ dir \in [SeqNo -> File \cup {Nil}]
  BY <1>1, InOrder DEF IInv, TypeOK, LocalsStillHold, MergeSteps
<1>4. job.target # next_sequence /\ \A m \in SeqNo \ {job.target} : dir'[m] = dir[m]
  BY <1>1, <1>3 DEF SeqNo
<1>5. Orphan' = Orphan
  BY <1>1, <1>3, <1>4, OrphanKept, Zenon DEF IInv, Steady
<1>6. PICK at, n, r : at = job.at /\ n = Len(job.paths) /\ r = Erased(at)
  BY Zenon
<1>7. /\ sstables \in Seq(Table) /\ at \in 1..Len(sstables) /\ n \in Nat /\ at + n <= Len(sstables)
      /\ job.target = sstables[at].seq /\ Len(sstables) \in Nat
  <2>1. job.paths \in Seq(SeqNo)
    BY DEF IInv, TypeOK, Job
  <2>2. Len(job.paths) \in Nat /\ Len(sstables) \in Nat /\ sstables \in Seq(Table)
    BY <2>1, SeqIs DEF IInv, TypeOK
  <2> QED BY <1>1, <1>6, <2>2 DEF IInv, LocalsStillHold
<1>8. /\ \A i \in 1..Len(r) : \E a \in 1..Len(sstables) : (a < at \/ a > at + n) /\ r[i] = sstables[a]
      /\ \A a \in 1..Len(sstables) : a < at \/ a > at + n => \E i \in 1..Len(r) : r[i] = sstables[a]
  <2>1. r = SubSeq(sstables, 1, at - 1) \o SubSeq(sstables, at + n + 1, Len(sstables))
    BY <1>6 DEF Erased
  <2> QED BY <1>7, <2>1, Parted, Zenon
<1>9. Inputs = {sstables[a].seq : a \in at..(at + n)}
  <2>1. \A i \in 1..n : job.paths[i] = sstables[at + i].seq
    BY <1>1, <1>6 DEF CInv, InDir
  <2>2. Inputs = {sstables[at].seq} \cup {sstables[at + i].seq : i \in 1..n}
    <3>1. {job.paths[i] : i \in 1..n} = {sstables[at + i].seq : i \in 1..n}
      BY <2>1, Zenon
    <3>2. Inputs = {job.target} \cup {job.paths[i] : i \in 1..n}
      BY <1>6 DEF Inputs
    <3> QED BY <1>7, <3>1, <3>2, Zenon
  <2>3. \A i \in 1..n : at + i \in at..(at + n)
    BY <1>7
  <2>4. \A a \in at..(at + n) : a = at \/ (a - at \in 1..n /\ at + (a - at) = a)
    BY <1>7
  <2>5. at \in at..(at + n)
    BY <1>7
  <2>6. ASSUME NEW x \in Inputs PROVE x \in {sstables[a].seq : a \in at..(at + n)}
    BY <2>2, <2>3, <2>5
  <2>7. ASSUME NEW a \in at..(at + n) PROVE sstables[a].seq \in Inputs
    BY <2>2, <2>4
  <2> QED BY <2>6, <2>7
<1>10. \A a, b \in 1..Len(sstables) : a # b => sstables[a].seq # sstables[b].seq
  <2>1. \A a, b \in 1..Len(sstables) : a < b => sstables[a].seq > sstables[b].seq
    BY DEF IInv, NamesInOrder
  <2>2. \A a \in 1..Len(sstables) : sstables[a].seq \in Int
    <3>1. \A a \in 1..Len(sstables) : sstables[a].seq \in SeqNo
      BY InOrder DEF Ordered
    <3> QED BY <3>1 DEF SeqNo
  <2>3. \A a, b \in 1..Len(sstables) : a # b => a < b \/ b < a
    OBVIOUS
  <2> QED BY <2>1, <2>2, <2>3
<1>11. Mirrors(dir, sstables, {next_sequence})
  BY <1>2 DEF CInv, InDir
<1>12. Clear(r, Inputs)
  <2> SUFFICES ASSUME NEW i \in 1..Len(r), r[i].seq \in Inputs PROVE FALSE
    BY DEF Clear
  <2>1. PICK a \in 1..Len(sstables) : (a < at \/ a > at + n) /\ r[i] = sstables[a]
    BY <1>8
  <2>2. PICK b \in at..(at + n) : r[i].seq = sstables[b].seq
    BY <1>9
  <2>3. b \in 1..Len(sstables) /\ a # b
    BY <1>7, <2>1
  <2> QED BY <1>10, <2>1, <2>2, <2>3
<1>13. Mirrors(dir', r, {next_sequence} \cup Inputs)
  <2>1. job.target \in Inputs
    BY DEF Inputs
  <2>2. ASSUME NEW i \in 1..Len(r)
        PROVE  dir'[r[i].seq] # Nil /\ dir'[r[i].seq].data = r[i].data
    <3>1. PICK a \in 1..Len(sstables) : r[i] = sstables[a]
      BY <1>8
    <3>2. r[i].seq \in SeqNo \ {job.target}
      BY <1>12, <2>1, <3>1, InOrder DEF Ordered, Clear
    <3>3. dir'[r[i].seq] = dir[r[i].seq]
      BY <1>4, <3>2
    <3> QED BY <1>11, <3>1, <3>3 DEF Mirrors
  <2>3. ASSUME NEW m \in SeqNo, dir'[m] # Nil, m # next_sequence, m \notin Inputs
        PROVE  \E i \in 1..Len(r) : r[i].seq = m
    <3>1. dir[m] # Nil
      BY <1>4, <2>1, <2>3
    <3>2. PICK a \in 1..Len(sstables) : sstables[a].seq = m
      BY <1>11, <2>3, <3>1 DEF Mirrors
    <3>3. a \notin at..(at + n)
      BY <1>9, <2>3, <3>2
    <3>4. a < at \/ a > at + n
      BY <1>7, <3>3
    <3> QED BY <1>8, <3>2, <3>4
  <2> QED BY <2>2, <2>3, Zenon DEF Mirrors
<1>14. InDir'
  <2>1. Erased(job.at)' = r /\ Inputs' = Inputs
    BY <1>1, <1>6 DEF Erased, Inputs
  <2> QED BY <1>1, <1>12, <1>13, <2>1 DEF InDir, Apart, MergeWindow, Steady
<1>15. TableKeys \subseteq TableKeys'
  <2> SUFFICES ASSUME NEW k \in TableKeys
               PROVE  Possible(Lookup(Orphan, sstables, k), k, hist, now)
    <3>1. Tables' = sstables
      BY <1>1 DEF Tables, Apart
    <3> QED BY <1>1, <1>2, <1>5, <3>1 DEF TableKeys, Steady
  <2>1. {} \in SUBSET SeqNo
    OBVIOUS
  <2>2. k \in Keys /\ Possible(DirLookup(Mixed({}, ddir, dir), k), k, hist, now)
    BY <1>2, <2>1 DEF TableKeys
  <2>3. \A m \in SeqNo : Says(Mixed({}, ddir, dir)[m], k) = Says(dir[m], k)
    BY DEF Mixed
  <2>4. DirLookup(Mixed({}, ddir, dir), k) = DirLookup(dir, k)
    BY <2>2, <2>3, DirLookupAlike, Zenon
  <2>5. DirLookup(dir, k) = Lookup(Orphan, sstables, k)
    BY <1>2, <2>2, DirReads DEF CInv
  <2> QED BY <2>2, <2>4, <2>5
<1>16. dnamed'
  BY <1>1 DEF CInv, LogKept
<1>17. pc' # "sync"
  OBVIOUS
<1> QED BY <1>1, <1>2, <1>5, <1>14, <1>15, <1>16, <1>17, WindowCrash, Zenon

\* Its name is on the disk; the inputs leave the vector.
LEMMA MergeSyncCrash ==
  ASSUME IInv, RInv, CInv, Guarded, MergeSync
  PROVE  CInv'
<1>1. pc = "merge_sync" /\ use_compaction
  <2>1. pc = "merge_sync" /\ pc \in MergeSteps
    BY DEF MergeSync, MergeSteps
  <2> QED BY <2>1, StoreAssumption DEF CInv, NoWipe
<1>2. /\ pc' = "merge_unlink" /\ sstables' = Erased(job.at) /\ UNCHANGED <<dir, job>>
      /\ dnamed' /\ Steady
  BY <1>1 DEF MergeSync, FsyncDirOk, Goto, histVars, Steady, Guarded
<1>3. pc \in MergeWindow /\ pc' \in MergeWindow /\ pc \in Window
  BY <1>1, <1>2 DEF MergeWindow, Window
<1>4. Orphan' = Orphan
  BY <1>2 DEF Orphan, Steady
<1>5. Mirrors(dir, Erased(job.at), {next_sequence} \cup Inputs) /\ Clear(Erased(job.at), Inputs)
  BY <1>1 DEF CInv, InDir
<1>6. InDir'
  <2>1. Inputs' = Inputs
    BY <1>2 DEF Inputs
  <2> QED BY <1>2, <1>3, <1>5, <2>1 DEF InDir, Apart, Steady
<1>7. PICK at, last, m : at = job.at /\ last = job.at + Len(job.paths) /\ m = OnDisk
  OBVIOUS
<1>8. at \in 1..Len(sstables) /\ last \in at..Len(sstables) /\ sstables \in Seq(Table)
  <2>1. job.paths \in Seq(SeqNo)
    BY DEF IInv, TypeOK, Job
  <2>2. Len(job.paths) \in Nat /\ Len(sstables) \in Nat /\ sstables \in Seq(Table)
    BY <2>1, SeqIs DEF IInv, TypeOK
  <2>3. job.at \in 1..Len(sstables) /\ job.at + Len(job.paths) <= Len(sstables)
    BY <1>1 DEF IInv, LocalsStillHold
  <2> QED BY <1>7, <2>2, <2>3
<1>9. Tables' = Replaced(sstables, at, last, m)
  <2>1. sstables' = SubSeq(sstables, 1, at - 1) \o SubSeq(sstables, last + 1, Len(sstables))
    BY <1>2, <1>7 DEF Erased
  <2>2. Replaced(sstables', at, at - 1, m) = Replaced(sstables, at, last, m)
    BY <1>8, <2>1, PutBack, Zenon
  <2>3. OnDisk' = m /\ job'.at = at
    BY <1>2, <1>7 DEF OnDisk
  <2> QED BY <1>2, <2>2, <2>3 DEF Tables, Apart
<1>10. \A k \in Keys : Seen(Lookup(Orphan, Tables, k), now) = Seen(Lookup(Orphan, Tables', k), now)
  <2>1. SameReads(Replaced(sstables, at, last, m), sstables)
    BY <1>1, <1>7 DEF RInv, Merging
  <2>2. Tables = sstables
    BY <1>1 DEF Tables, Apart
  <2> QED BY <1>9, <2>1, <2>2 DEF SameReads, Lookup
<1>11. TableKeys \subseteq TableKeys'
  BY <1>2, <1>3, <1>4, <1>10, WindowKeys DEF Steady
<1>12. pc' # "sync"
  BY <1>2
<1> QED BY <1>2, <1>3, <1>4, <1>6, <1>11, <1>12, WindowCrash, Zenon

\* One input after another goes.
LEMMA MergeUnlinkCrash ==
  ASSUME IInv, RInv, CInv, Guarded, MergeUnlink
  PROVE  CInv'
<1>1. pc = "merge_unlink" /\ use_compaction
  <2>1. pc = "merge_unlink" /\ pc \in MergeSteps
    BY DEF MergeUnlink, MergeSteps
  <2> QED BY <2>1, StoreAssumption DEF CInv, NoWipe
<1>2. /\ UNCHANGED <<sstables, ddir>> /\ dnamed' /\ Steady /\ pc' \in Apart
  <2>1. dnamed
    BY DEF CInv, LogKept
  <2> QED BY <1>1, <2>1 DEF MergeUnlink, Goto, memVars, Quiet, walVars, histVars, Steady, Apart
<1>3. pc \in MergeWindow /\ pc' \in MergeWindow /\ pc \in Window /\ pc \in Apart /\ pc' # "sync"
  BY <1>1, <1>2 DEF MergeWindow, Window, Apart
<1>4. Mirrors(dir, sstables, {next_sequence} \cup Inputs) /\ Clear(sstables, Inputs)
  BY <1>3 DEF CInv, InDir
<1>5. /\ job \in Job /\ job.target \in SeqNo /\ job.target < next_sequence
      /\ job.paths \in Seq(SeqNo) /\ dir \in [SeqNo -> File \cup {Nil}]
  BY <1>1 DEF IInv, TypeOK, LocalsStillHold, MergeSteps, Job
<1>6. /\ Orphan' = Orphan /\ job'.at = job.at /\ OnDisk' = OnDisk /\ InDir'
  <2>1. CASE job.paths = <<>>
    <3>1. pc' = "merge_unlink_sync" /\ UNCHANGED <<dir, job>>
      BY <2>1 DEF MergeUnlink, Goto
    <3>2. Inputs' = Inputs /\ Orphan' = Orphan /\ OnDisk' = OnDisk
      BY <1>2, <3>1 DEF Inputs, Orphan, OnDisk, Steady
    <3>3. InDir'
      BY <1>2, <1>3, <1>4, <2>1, <3>1, <3>2 DEF InDir, Apart, Steady
    <3> QED BY <3>1, <3>2, <3>3
  <2>2. CASE job.paths # <<>>
    <3>1. PICK h : h = Head(job.paths)
      OBVIOUS
    <3>2. /\ dir' = [dir EXCEPT ![h] = Nil] /\ job' = [job EXCEPT !.paths = Tail(@)]
          /\ pc' = "merge_unlink"
      BY <1>1, <2>2, <3>1 DEF MergeUnlink, Guarded
    <3>3. job'.paths = Tail(job.paths) /\ job'.target = job.target /\ job'.at = job.at
      BY <1>5, <3>2 DEF Job
    <3>4. PICK n \in Nat : /\ n = Len(job.paths) /\ n # 0 /\ h = job.paths[1]
                           /\ Len(job'.paths) = n - 1
                           /\ \A i \in 1..(n - 1) : job'.paths[i] = job.paths[i + 1]
      BY <1>5, <2>2, <3>1, <3>3, TailIs, EmptyIs
    <3>5. h \in SeqNo /\ h \in Inputs /\ h < job.target
      <4>1. 1 \in 1..Len(job.paths)
        BY <3>4
      <4>2. job.paths[1] \in SeqNo
        BY <1>5, <4>1, ElementIs
      <4> QED BY <1>1, <3>4, <4>1, <4>2 DEF Inputs, IInv, LocalsStillHold, MergeSteps
    <3>6. h # job.target /\ h # next_sequence
      BY <1>5, <3>5, InOrder DEF SeqNo
    <3>7. \A m \in SeqNo \ {h} : dir'[m] = dir[m]
      BY <1>5, <3>2
    <3>8. dir'[h] = Nil
      BY <1>5, <3>2, <3>5
    <3>9. Orphan' = Orphan
      BY <1>2, <3>2, <3>5, <3>6, OrphanKept, Zenon DEF IInv, Steady
    <3>10. OnDisk' = OnDisk
      BY <1>5, <3>3, <3>6, <3>7 DEF OnDisk
    <3>11. Inputs' \subseteq Inputs
      <4> SUFFICES ASSUME NEW i \in 1..(n - 1) PROVE job'.paths[i] \in Inputs
        BY <3>3, <3>4 DEF Inputs
      <4>1. i + 1 \in 1..n
        OBVIOUS
      <4> QED BY <3>4, <4>1 DEF Inputs
    <3>12. ASSUME NEW x \in Inputs, x # h PROVE x \in Inputs'
      <4>1. CASE x = job.target
        BY <3>3, <4>1 DEF Inputs
      <4>2. CASE x # job.target
        <5>1. PICK i \in 1..n : x = job.paths[i]
          BY <3>4, <4>2 DEF Inputs
        <5>2. i - 1 \in 1..(n - 1) /\ (i - 1) + 1 = i
          BY <3>4, <3>12, <5>1
        <5>3. x = job'.paths[i - 1]
          BY <3>4, <5>1, <5>2
        <5> QED BY <3>4, <5>2, <5>3 DEF Inputs
      <4> QED BY <4>1, <4>2
    <3>13. Clear(sstables, Inputs')
      BY <1>4, <3>11 DEF Clear
    <3>14. Mirrors(dir', sstables, {next_sequence} \cup Inputs')
      <4>1. ASSUME NEW i \in 1..Len(sstables)
            PROVE  dir'[sstables[i].seq] # Nil /\ dir'[sstables[i].seq].data = sstables[i].data
        <5>1. sstables[i].seq \in SeqNo \ {h}
          BY <1>4, <3>5, InOrder DEF Ordered, Clear
        <5> QED BY <1>4, <3>7, <5>1 DEF Mirrors
      <4>2. ASSUME NEW m \in SeqNo, dir'[m] # Nil
            PROVE  m \in {next_sequence} \cup Inputs' \/ \E i \in 1..Len(sstables) : sstables[i].seq = m
        <5>1. m # h /\ dir[m] # Nil
          BY <3>7, <3>8, <4>2
        <5>2. m \in {next_sequence} \cup Inputs \/ \E i \in 1..Len(sstables) : sstables[i].seq = m
          BY <1>4, <5>1 DEF Mirrors
        <5> QED BY <3>12, <5>1, <5>2
      <4> QED BY <4>1, <4>2 DEF Mirrors
    <3>15. InDir'
      BY <1>2, <1>3, <3>2, <3>13, <3>14 DEF InDir, Apart, Steady
    <3> QED BY <3>3, <3>9, <3>10, <3>15
  <2> QED BY <2>1, <2>2
<1>7. Tables' = Tables
  BY <1>2, <1>3, <1>6 DEF Tables
<1>8. TableKeys \subseteq TableKeys'
  BY <1>2, <1>3, <1>6, <1>7, WindowKeys DEF Steady
<1> QED BY <1>2, <1>3, <1>6, <1>8, WindowCrash, Zenon

\* The merged table takes the run's place, or turns out to be empty.
LEMMA MergeUnlinkSyncCrash ==
  ASSUME IInv, RInv, CInv, Guarded, MergeUnlinkSync, IInv'
  PROVE  CInv'
<1>1. pc = "merge_unlink_sync" /\ use_compaction
  <2>1. pc = "merge_unlink_sync" /\ pc \in MergeSteps
    BY DEF MergeUnlinkSync, MergeSteps
  <2> QED BY <2>1, StoreAssumption DEF CInv, NoWipe
<1>2. ddir' = dir /\ dir' = dir /\ dnamed' /\ Steady
  BY <1>1 DEF MergeUnlinkSync, FsyncDirIgnored, FsyncDirOk, histVars, Steady, Guarded
<1>3. pc \in MergeWindow /\ pc \in Window /\ pc \in Apart
  BY <1>1 DEF MergeWindow, Window, Apart
<1>4. Mirrors(dir, sstables, {next_sequence, job.target}) /\ Clear(sstables, {job.target})
  <2>1. job.paths = <<>>
    BY <1>1 DEF CInv, InDir
  <2>2. Inputs = {job.target}
    BY <2>1 DEF Inputs
  <2>3. {next_sequence} \cup {job.target} = {next_sequence, job.target}
    OBVIOUS
  <2> QED BY <1>3, <2>2, <2>3, Zenon DEF CInv, InDir
<1>5. /\ job.target \in SeqNo /\ dir[job.target] # Nil /\ job.at \in 1..(Len(sstables) + 1)
      /\ job.at \in Nat
  BY <1>1 DEF IInv, TypeOK, Job, LocalsStillHold, MergeSteps
<1>6. PICK at, m : at = job.at /\ m = OnDisk
  OBVIOUS
<1>7. m.seq = job.target /\ m.data = dir[job.target].data /\ m \in Table
  BY <1>5, <1>6 DEF OnDisk, Table, IInv, TypeOK, File
<1>8. Tables = Replaced(sstables, at, at - 1, m) /\ Orphan' = Orphan
  BY <1>2, <1>3, <1>6 DEF Tables, Orphan, Steady
<1>9. CASE dir[job.target].data = EmptyLayer
  <2>1. pc' = "merge_empty" /\ UNCHANGED <<sstables, job>>
    BY <1>9 DEF MergeUnlinkSync, Goto
  <2>2. Tables' = sstables /\ pc' \in MergeWindow /\ pc' # "sync"
    BY <2>1 DEF Tables, Apart, MergeWindow
  <2>3. \A k \in Keys : TableLookup(Tables, k) = TableLookup(sstables, k)
    <3>1. \A k \in Keys : m.data[k] = Nil
      BY <1>7, <1>9 DEF EmptyLayer
    <3>2. sstables \in Seq(Table) /\ at \in 1..(Len(sstables) + 1)
      BY <1>5, <1>6 DEF IInv, TypeOK
    <3> QED BY <1>7, <1>8, <3>1, <3>2, SilentSkipped, Zenon
  <2>4. \A k \in Keys : Seen(Lookup(Orphan, Tables, k), now) = Seen(Lookup(Orphan, Tables', k), now)
    BY <2>2, <2>3 DEF Lookup
  <2>5. TableKeys \subseteq TableKeys'
    BY <1>2, <1>3, <1>8, <2>2, <2>4, WindowKeys DEF Steady
  <2>6. InDir'
    BY <1>2, <1>4, <2>1 DEF InDir, Apart, Running, MergeSteps, MergeWindow, Steady
  <2> QED BY <1>2, <1>3, <1>8, <2>2, <2>5, <2>6, WindowCrash, Zenon
<1>10. CASE dir[job.target].data # EmptyLayer
  <2>1. /\ pc' = "sync"
        /\ sstables' = SubSeq(sstables, 1, at - 1) \o <<m>> \o SubSeq(sstables, at, Len(sstables))
    BY <1>6, <1>10, ZenonT(30) DEF MergeUnlinkSync, CompactionOver, OnDisk, Goto
  <2>2. sstables' = Tables
    <3>1. (at - 1) + 1 = at
      BY <1>5, <1>6
    <3> QED BY <1>8, <2>1, <3>1, Zenon DEF Replaced
  <2>3. pc' \notin MergeWindow /\ pc' \in MergeWindow \cup {"sync"} /\ ddir' = dir'
    BY <1>2, <2>1 DEF MergeWindow
  <2>4. PICK len \in Nat : len = Len(sstables)
    BY TablesType DEF IInv
  <2>5. at \in 1..(len + 1)
    BY <1>5, <1>6, <2>4
  <2>6. /\ Len(sstables') = len + 1 /\ sstables'[at] = m
        /\ \A i \in 1..(at - 1) : sstables'[i] = sstables[i]
        /\ \A i \in (at + 1)..(len + 1) : sstables'[i] = sstables[i - 1]
    <3>1. PICK last : last = at - 1
      OBVIOUS
    <3>2. last \in (at - 1)..len /\ len - (last - at) = len + 1
          /\ \A i \in (at + 1)..(len + 1) : i + (last - at) = i - 1
      BY <2>4, <2>5, <3>1
    <3>3. Spliced(sstables', Table, sstables, at, last, m)
      <4>1. sstables \in Seq(Table) /\ at \in 1..(Len(sstables) + 1) /\ last \in (at - 1)..Len(sstables)
        BY <2>4, <2>5, <3>2 DEF IInv, TypeOK
      <4>2. sstables' = Replaced(sstables, at, last, m)
        BY <1>8, <2>2, <3>1
      <4> QED BY <1>7, <4>1, <4>2, ReplacedIs, Zenon
    <3>4. /\ Len(sstables') = Len(sstables) - (last - at) /\ sstables'[at] = m
          /\ \A i \in 1..(at - 1) : sstables'[i] = sstables[i]
          /\ \A i \in (at + 1)..Len(sstables') : sstables'[i] = sstables[i + (last - at)]
      BY <3>3 DEF Spliced
    <3> QED BY <2>4, <3>2, <3>4
  <2>7. Mirrors(dir', sstables', {next_sequence})
    <3>1. ASSUME NEW i \in 1..(len + 1)
          PROVE  dir[sstables'[i].seq] # Nil /\ dir[sstables'[i].seq].data = sstables'[i].data
      <4>1. CASE i < at
        <5>1. i \in 1..(at - 1) /\ i \in 1..len
          BY <2>5, <4>1
        <5> QED BY <1>4, <2>4, <2>6, <5>1 DEF Mirrors
      <4>2. CASE i = at
        BY <1>5, <1>7, <2>6, <4>2
      <4>3. CASE i > at
        <5>1. i \in (at + 1)..(len + 1) /\ i - 1 \in 1..len
          BY <2>5, <4>3
        <5> QED BY <1>4, <2>4, <2>6, <5>1 DEF Mirrors
      <4>4. i < at \/ i = at \/ i > at
        BY <2>5
      <4> QED BY <4>1, <4>2, <4>3, <4>4
    <3>2. ASSUME NEW n \in SeqNo, dir[n] # Nil, n # next_sequence
          PROVE  \E i \in 1..(len + 1) : sstables'[i].seq = n
      <4>1. CASE n = job.target
        <5>1. at \in 1..(len + 1)
          BY <2>5
        <5> QED BY <1>7, <2>6, <4>1, <5>1
      <4>2. CASE n # job.target
        <5>1. PICK i \in 1..len : sstables[i].seq = n
          BY <1>4, <2>4, <3>2, <4>2 DEF Mirrors
        <5>2. CASE i < at
          <6>1. i \in 1..(at - 1) /\ i \in 1..(len + 1)
            BY <2>5, <5>2
          <6> QED BY <2>6, <5>1, <6>1
        <5>3. CASE ~(i < at)
          <6>1. i + 1 \in (at + 1)..(len + 1) /\ i + 1 \in 1..(len + 1) /\ (i + 1) - 1 = i
            BY <2>5, <5>3
          <6>2. sstables'[i + 1] = sstables[i]
            BY <2>6, <6>1
          <6> QED BY <5>1, <6>1, <6>2
        <5> QED BY <5>2, <5>3
      <4> QED BY <4>1, <4>2
    <3> QED BY <1>2, <2>6, <3>1, <3>2 DEF Mirrors
  <2>8. Ordered(sstables', next_sequence) /\ Len(sstables') \in Nat /\ next_sequence \in Int
    <3>1. sstables' \in Seq(Table) /\ next_sequence' = next_sequence
      BY <1>2 DEF IInv, TypeOK, Steady
    <3>2. \A i \in 1..Len(sstables') : sstables'[i].seq \in SeqNo
      <4>1. \A i \in 1..Len(sstables') : sstables'[i] \in Table
        BY <3>1, ElementIs
      <4> QED BY <4>1 DEF Table
    <3>3. NamesInOrder'
      BY DEF IInv
    <3>4. Len(sstables') \in Nat
      BY <2>6
    <3> QED BY <3>1, <3>2, <3>3, <3>4, InOrder DEF Ordered, NamesInOrder
  <2>9. InDir'
    <3>1. Mirrors(dir, sstables, {next_sequence})'
      BY <1>2, <2>7 DEF Steady
    <3> QED BY <2>1, <3>1 DEF InDir, Apart
  <2>10. TableKeys \subseteq TableKeys'
    BY <1>2, <1>3, <1>8, <2>2, <2>3, <2>7, <2>8, WindowLeft DEF Steady
  <2> QED BY <1>2, <1>3, <1>8, <2>3, <2>9, <2>10, WindowCrash, Zenon
<1> QED BY <1>9, <1>10

\* An empty merged table goes too ...
LEMMA MergeEmptyCrash ==
  ASSUME IInv, RInv, CInv, Guarded, MergeEmpty
  PROVE  CInv'
<1>1. pc = "merge_empty" /\ use_compaction
  <2>1. pc = "merge_empty" /\ pc \in MergeSteps
    BY DEF MergeEmpty, MergeSteps
  <2> QED BY <2>1, StoreAssumption DEF CInv, NoWipe
<1>2. /\ pc' = "merge_empty_sync" /\ dir' = [dir EXCEPT ![job.target] = Nil]
      /\ UNCHANGED <<sstables, job>> /\ dnamed' /\ Steady
  <2>1. dnamed
    BY DEF CInv, LogKept
  <2> QED BY <1>1, <2>1 DEF MergeEmpty, Goto, memVars, Quiet, walVars, histVars, Steady, Guarded
<1>3. /\ pc \in MergeWindow /\ pc \in Window /\ pc \notin Apart
      /\ pc' \in MergeWindow /\ pc' \notin Apart /\ pc' # "sync"
  BY <1>1, <1>2 DEF MergeWindow, Window, Apart
<1>4. Mirrors(dir, sstables, {next_sequence, job.target}) /\ Clear(sstables, {job.target})
  BY <1>1 DEF CInv, InDir
<1>5. job.target \in SeqNo /\ job.target < next_sequence /\ dir \in [SeqNo -> File \cup {Nil}]
  BY <1>1 DEF IInv, TypeOK, LocalsStillHold, MergeSteps
<1>6. job.target # next_sequence
  BY <1>5, InOrder DEF SeqNo
<1>7. Orphan' = Orphan
  BY <1>2, <1>5, <1>6, OrphanKept, Zenon DEF IInv, Steady
<1>8. dir'[job.target] = Nil /\ \A n \in SeqNo \ {job.target} : dir'[n] = dir[n]
  BY <1>2, <1>5
<1>9. Mirrors(dir', sstables, {next_sequence})
  <2>1. ASSUME NEW i \in 1..Len(sstables)
        PROVE  dir'[sstables[i].seq] # Nil /\ dir'[sstables[i].seq].data = sstables[i].data
    <3>1. sstables[i].seq \in SeqNo \ {job.target}
      BY <1>4, InOrder DEF Ordered, Clear
    <3> QED BY <1>4, <1>8, <3>1 DEF Mirrors
  <2> QED BY <1>4, <1>8, <2>1 DEF Mirrors
<1>10. InDir'
  BY <1>2, <1>3, <1>9 DEF InDir, Running, MergeSteps, Steady
<1>11. Tables' = Tables
  BY <1>2, <1>3 DEF Tables
<1>12. TableKeys \subseteq TableKeys'
  BY <1>2, <1>3, <1>7, <1>11, WindowKeys DEF Steady
<1> QED BY <1>2, <1>3, <1>7, <1>10, <1>12, WindowCrash, Zenon

\* ... and for good.
LEMMA MergeEmptySyncCrash ==
  ASSUME IInv, RInv, CInv, Guarded, MergeEmptySync
  PROVE  CInv'
<1>1. pc = "merge_empty_sync" /\ use_compaction
  <2>1. pc = "merge_empty_sync" /\ pc \in MergeSteps
    BY DEF MergeEmptySync, MergeSteps
  <2> QED BY <2>1, StoreAssumption DEF CInv, NoWipe
<1>2. ddir' = dir /\ dir' = dir /\ sstables' = sstables /\ dnamed' /\ Steady /\ pc' = "sync"
  BY <1>1 DEF MergeEmptySync, FsyncDirIgnored, FsyncDirOk, CompactionOver, Goto, memVars,
              histVars, Steady, Guarded
<1>3. /\ pc \in MergeWindow /\ pc \in Window /\ pc \notin Apart
      /\ pc' \notin MergeWindow /\ pc' \in MergeWindow \cup {"sync"}
  BY <1>1, <1>2 DEF MergeWindow, Window, Apart
<1>4. Mirrors(dir, sstables, {next_sequence})
  BY <1>1 DEF CInv, InDir
<1>5. Orphan' = Orphan /\ Tables = sstables
  BY <1>2, <1>3 DEF Orphan, Tables, Steady
<1>6. InDir'
  BY <1>2, <1>4 DEF InDir, Apart, Steady
<1>7. TableKeys \subseteq TableKeys'
  BY <1>2, <1>3, <1>4, <1>5, InOrder, WindowLeft DEF Steady
<1>8. ddir' = dir'
  BY <1>2
<1> QED BY <1>2, <1>3, <1>5, <1>6, <1>7, <1>8, WindowCrash, Zenon

\* Every step of maybe_compact.
LEMMA CompactionCrash ==
  ASSUME IInv, RInv, CInv, Guarded, Compaction, IInv'
  PROVE  CInv'
<1>1. CASE MergeRename
  BY <1>1, MergeRenameCrash, CalmSteps, Zenon
<1>2. CASE \/ NoCompaction \/ MergeWrite
           \/ \E first, last \in 1..Len(sstables) : Compact(first, last)
  BY <1>2, CalmSteps, Zenon
<1>3. CASE MergeSync \/ MergeUnlink \/ MergeUnlinkSync \/ MergeEmpty \/ MergeEmptySync
  BY <1>3, MergeSyncCrash, MergeUnlinkCrash, MergeUnlinkSyncCrash, MergeEmptyCrash,
     MergeEmptySyncCrash, Zenon
<1> QED BY <1>1, <1>2, <1>3, Zenon DEF Compaction

-----------------------------------------------------------------------------
(* Every step *)

\* A store on an empty directory.
LEMMA InitCrash == Guarded /\ Init => CInv
<1> SUFFICES ASSUME Guarded, Init PROVE CInv
  OBVIOUS
<1>1. /\ log = <<>> /\ dlog = <<>> /\ synced = 0 /\ dnamed
      /\ memtable = EmptyLayer /\ Len(sstables) = 0 /\ pc = "serve" /\ hist = <<EmptyLayer>>
      /\ ~held /\ ~wiping
      /\ \A n \in SeqNo : dir[n] = Nil /\ ddir[n] = Nil
  BY Zenon DEF Init, WalInit, Guarded
<1>2. pc \notin MergeWindow /\ pc \notin MergeSteps /\ pc \notin WipeSteps /\ pc \notin Apart
  BY <1>1 DEF MergeWindow, MergeSteps, WipeSteps, Apart
<1>3. Len(log) = 0 /\ \A k \in Keys : Replayed(log)[k] = Nil /\ Replayed(dlog)[k] = Nil
  BY <1>1, ReplayedNothing
<1>4. \A k \in Keys : memtable[k] = Nil /\ Orphan[k] = Nil
  BY <1>1 DEF Orphan, Leftover, EmptyLayer
<1>5. NoWipe /\ LogKept
  <2>1. NoWipe
    BY <1>1, <1>2, Zenon DEF NoWipe
  <2>2. synced <= Len(log) /\ \A i \in 1..Len(log) : log[i] # Torn
    BY <1>1, <1>3
  <2> QED BY <1>1, <2>1, <2>2, Zenon DEF LogKept
<1>6. LogCovers
  BY <1>3, <1>4, Zenon DEF LogCovers
<1>7. InDir
  <2>1. Mirrors(dir, sstables, {next_sequence})
    BY <1>1 DEF Mirrors
  <2> QED BY <1>1, <1>2, <2>1 DEF InDir
<1>8. Loose
  BY <1>1 DEF Loose
<1>9. ASSUME NEW k \in Keys PROVE k \in TableKeys
  <2> SUFFICES ASSUME NEW undone \in SUBSET SeqNo
               PROVE  Possible(DirLookup(Mixed(undone, ddir, dir), k), k, hist, now)
    BY <1>2 DEF TableKeys
  <2>1. \A n \in SeqNo : Says(Mixed(undone, ddir, dir)[n], k) = Nil
    BY <1>1 DEF Mixed, Says
  <2>2. DirLookup(Mixed(undone, ddir, dir), k) = Nil
    BY <2>1, DirLookupNone
  <2>3. 1 \in DOMAIN hist /\ hist[1][k] = Nil
    BY <1>1 DEF EmptyLayer
  <2> QED BY <2>2, <2>3 DEF Possible, Seen
<1>10. AtRisk
  <2>1. Recovers(<<>>, TableKeys, hist, now)
    BY <1>9, ReplayedNothing DEF Recovers
  <2>2. \A n \in synced..Len(log) : SubSeq(log, 1, n) = <<>>
    BY <1>1
  <2> QED BY <1>1, <2>1, <2>2, Zenon DEF AtRisk
<1>11. NeverBehind
  BY <1>1, <1>3 DEF NeverBehind
<1> QED BY <1>5, <1>6, <1>7, <1>8, <1>10, <1>11 DEF CInv

\* Every step.
LEMMA NextCrash ==
  ASSUME Guarded, IInv, RInv, CInv, [Next]_vars
  PROVE  CInv'
<1>1. IInv' /\ RInv'
  BY NextKeeps, NextReads
<1>2. CASE Command
  <2>1. ~FlushAll
    BY DEF FlushAll, Guarded
  <2>2. PICK recs \in Seq(Record) : recs # <<>> /\ pc = "serve" /\ Mutate(recs)
    BY <1>2, <2>1, CommandIs
  <2> QED BY <1>1, <2>2, MutateCrash
<1>3. CASE Flush \/ Compaction
  BY <1>1, <1>3, FlushCrash, CompactionCrash, Zenon
<1>4. CASE EndBatch \/ LoopAgain \/ SweepExpired
  BY <1>4, EndBatchCrash, CalmSteps, SweepCrash, Zenon
<1>5. CASE Wipe \/ EndBatchFails
  <2>1. ~Wipe
    BY DEF Wipe, WipeUnlink, WipeSync, WipeTruncate, WipeLogSync, CInv, NoWipe, WipeSteps
  <2>2. ~EndBatchFails
    BY DEF EndBatchFails, Guarded
  <2> QED BY <1>5, <2>1, <2>2
<1>6. CASE Kill
  <2>1. pc \in Running \ MergeWindow
    BY <1>6, CrashPoints, StoreAssumption DEF Kill
  <2> QED BY <1>6, <2>1, DeathCrash DEF Kill, ProcessDies
<1>7. CASE Shutdown
  <2>1. pc \in Running \ MergeWindow
    BY <1>7 DEF Shutdown, Running, LoopSteps, MergeWindow
  <2> QED BY <1>7, <2>1, DeathCrash DEF Shutdown
<1>8. CASE PowerLoss \/ Restart \/ Tick
  BY <1>1, <1>8, PowerLossCrash, RestartCrash, TickCrash, Zenon
<1>9. CASE UNCHANGED vars
  <2>1. UNCHANGED <<log, dlog, synced, dirty, dnamed, memtable, sstables, next_sequence, dir, ddir,
                    pc, job, now, hist, held, wiping>>
    BY <1>9 DEF vars, walVars, memVars, diskVars, histVars
  <2>2. /\ Orphan' = Orphan /\ Tables' = Tables /\ Inputs' = Inputs /\ TableKeys' = TableKeys
        /\ Erased(job.at)' = Erased(job.at) /\ Last(hist)' = Last(hist)
    BY <2>1, Zenon DEF Orphan, Tables, Inputs, TableKeys, Erased, Last, OnDisk
  <2>3. NoWipe' /\ LogKept' /\ LogCovers'
    BY <2>1, <2>2 DEF CInv, NoWipe, LogKept, LogCovers
  <2>4. InDir'
    BY <2>1, <2>2, Zenon DEF CInv, InDir
  <2>5. Loose' /\ AtRisk' /\ NeverBehind'
    BY <2>1, <2>2, Zenon DEF CInv, Loose, AtRisk, NeverBehind
  <2> QED BY <2>3, <2>4, <2>5 DEF CInv
<1> QED BY <1>2, <1>3, <1>4, <1>5, <1>6, <1>7, <1>8, <1>9, Zenon DEF Next, Loop

\* So it always holds.
LEMMA CInvAlways ==
  ASSUME Guarded
  PROVE  Spec => [](IInv /\ RInv /\ CInv)
<1>1. Init => IInv /\ RInv /\ CInv
  BY InitEstablishes, InitReads, InitCrash
<1>2. IInv /\ RInv /\ CInv /\ [Next]_vars => (IInv /\ RInv /\ CInv)'
  BY NextKeeps, NextReads, NextCrash
<1> QED BY <1>1, <1>2, PTL DEF Spec

-----------------------------------------------------------------------------
(* What a crash finds *)

\* A directory found after a loss of power says what some mix of names says.
LEMMA DirFound ==
  ASSUME TypeOK, NEW d \in DirsAfterPowerLoss
  PROVE  \E undone \in SUBSET SeqNo : \A k \in Keys :
           DirLookup(d, k) = DirLookup(Mixed(undone, ddir, dir), k)
<1>1. PICK undone \in SUBSET {n \in SeqNo : dir[n] # ddir[n]} :
        d = [n \in SeqNo |-> Settled(IF n \in undone THEN ddir[n] ELSE dir[n])]
  BY DEF DirsAfterPowerLoss
<1>2. undone \in SUBSET SeqNo
  OBVIOUS
<1>3. ASSUME NEW f \in File \cup {Nil}, NEW k \in Keys PROVE Says(Settled(f), k) = Says(f, k)
  <2>1. CASE f = Nil \/ f.status = "synced"
    BY <2>1 DEF Settled
  <2>2. CASE f # Nil /\ f.status # "synced"
    <3>1. Settled(f) = [f EXCEPT !.status = "partial"] /\ f \in File
      BY <2>2 DEF Settled
    <3>2. Settled(f) \in File /\ Settled(f).data = f.data
      BY <3>1 DEF File
    <3> QED BY <2>2, <3>2, StoreAssumption DEF Says
  <2> QED BY <2>1, <2>2
<1>4. ASSUME NEW k \in Keys PROVE DirLookup(d, k) = DirLookup(Mixed(undone, ddir, dir), k)
  <2>1. ASSUME NEW n \in SeqNo PROVE Says(d[n], k) = Says(Mixed(undone, ddir, dir)[n], k)
    <3>1. Mixed(undone, ddir, dir)[n] \in File \cup {Nil}
          /\ d[n] = Settled(Mixed(undone, ddir, dir)[n])
      BY <1>1 DEF Mixed, TypeOK
    <3> QED BY <1>3, <3>1
  <2> QED BY <2>1, DirLookupAlike, Zenon
<1> QED BY <1>2, <1>4

\* So is a log.
LEMMA LogFound ==
  ASSUME TypeOK, dnamed, NEW l \in LogsAfterPowerLoss
  PROVE  \/ \A k \in Keys : Replayed(l)[k] = Replayed(dlog)[k]
         \/ \E n \in synced..Len(log) : \A k \in Keys : Replayed(l)[k] = Replayed(SubSeq(log, 1, n))[k]
<1>1. l \in LogsOnDisk
  BY DEF LogsAfterPowerLoss
<1>2. log \in AnyLog /\ synced \in Nat /\ Len(log) \in Nat
  BY SeqIs DEF TypeOK, WalTypeOK, LogItem, AnyLog
<1>3. ASSUME NEW n \in synced..(Len(log) - 1), l = SubSeq(log, 1, n) \o <<Torn>>
      PROVE  n \in synced..Len(log) /\ \A k \in Keys : Replayed(l)[k] = Replayed(SubSeq(log, 1, n))[k]
  <2>1. n \in synced..Len(log) /\ n \in Nat /\ n <= Len(log)
    BY <1>2
  <2>2. SubSeq(log, 1, n) \in AnyLog
    BY <1>2, <2>1, PrefixIs DEF AnyLog
  <2> QED BY <1>3, <2>1, <2>2, ReplayedTorn
<1>4. CASE l \in {SubSeq(log, 1, n) : n \in synced..Len(log)}
  BY <1>4, Zenon
<1>5. CASE l \in {SubSeq(log, 1, n) \o <<Torn>> : n \in synced..(Len(log) - 1)}
  BY <1>3, <1>5, Zenon
<1> QED BY <1>1, <1>4, <1>5 DEF LogsOnDisk

\* After a kill every executed command is found.
LEMMA InvariantKillSafe ==
  ASSUME Guarded, IInv, RInv, CInv
  PROVE  KillSafe
<1> SUFFICES ASSUME pc \in KillAt PROVE RestartView(log, dir) = Last(hist)
  BY DEF KillSafe, CInv, NoWipe
<1>1. pc \in Running \ MergeWindow
  BY CrashPoints, StoreAssumption
<1> QED BY <1>1, RestartServes

\* After a loss of power every released one.
LEMMA InvariantPowerSafe ==
  ASSUME Guarded, IInv, RInv, CInv
  PROVE  PowerSafe
<1> SUFFICES ASSUME pc \in PowerAt, NEW l \in LogsAfterPowerLoss, NEW d \in DirsAfterPowerLoss,
                    NEW k \in Keys
             PROVE  \E i \in DOMAIN hist : RestartView(l, d)[k] = hist[i][k]
  BY DEF PowerSafe, Allowed
<1>1. pc \notin MergeWindow
  BY CrashPoints
<1>2. PICK undone \in SUBSET SeqNo : DirLookup(d, k) = DirLookup(Mixed(undone, ddir, dir), k)
  BY DirFound DEF IInv
<1>3. IF Replayed(l)[k] # Nil THEN Possible(Replayed(l)[k], k, hist, now) ELSE k \in TableKeys
  <2>1. dnamed
    BY DEF CInv, LogKept
  <2>2. CASE \A j \in Keys : Replayed(l)[j] = Replayed(dlog)[j]
    BY <2>2 DEF CInv, AtRisk, Recovers
  <2>3. CASE \E n \in synced..Len(log) :
               \A j \in Keys : Replayed(l)[j] = Replayed(SubSeq(log, 1, n))[j]
    BY <2>3 DEF CInv, AtRisk, Recovers
  <2> QED BY <2>1, <2>2, <2>3, LogFound DEF IInv
<1>4. RestartView(l, d)[k] = Seen(IF Replayed(l)[k] # Nil THEN Replayed(l)[k]
                                  ELSE DirLookup(d, k), now)
  BY DEF RestartView
<1>5. CASE Replayed(l)[k] # Nil
  BY <1>3, <1>4, <1>5 DEF Possible
<1>6. CASE Replayed(l)[k] = Nil
  <2>1. Possible(DirLookup(d, k), k, hist, now)
    BY <1>1, <1>2, <1>3, <1>6 DEF TableKeys
  <2> QED BY <1>4, <1>6, <2>1 DEF Possible
<1> QED BY <1>5, <1>6

\* Wherever a kill or a power cut comes, no executed command is lost to a
\* kill, no released reply to a power cut, and nothing is found that no client
\* wrote: the log is written before the memtable, the table is durable before
\* the log is cut, the fsync comes before the replies, and the constructor
\* puts the pieces back (Store, Wal and Server::run).
THEOREM CrashesLoseNothing ==
  ASSUME Guarded
  PROVE  Spec => []CrashSafe
<1>1. IInv /\ RInv /\ CInv => CrashSafe
  BY InvariantKillSafe, InvariantPowerSafe DEF CrashSafe
<1> QED BY <1>1, CInvAlways, PTL

\* Without group commit a command that has returned is on the disk: between
\* commands a power cut changes nothing at all (Wal::append under kAlways).
THEOREM ReturnedIsDurable ==
  ASSUME Guarded
  PROVE  Spec => []DurableOnReturn
<1>1. ASSUME IInv, RInv, CInv PROVE DurableOnReturn
  <2> SUFFICES ASSUME SyncsEachAppend, pc = "serve",
                      NEW l \in LogsAfterPowerLoss, NEW d \in DirsAfterPowerLoss
               PROVE  RestartView(l, d) = Last(hist)
    BY DEF DurableOnReturn
  <2>1. pc \in Running \ MergeWindow
    BY DEF Running, LoopSteps, MergeWindow
  <2>2. PICK undone \in SUBSET SeqNo : \A k \in Keys :
          DirLookup(d, k) = DirLookup(Mixed(undone, ddir, dir), k)
    BY <1>1, DirFound DEF IInv
  <2>3. synced = Len(log) /\ dnamed
    BY <1>1 DEF CInv, NeverBehind, LogKept
  <2>4. \/ \A k \in Keys : Replayed(l)[k] = Replayed(dlog)[k]
        \/ \A k \in Keys : Replayed(l)[k] = Replayed(log)[k]
    <3>1. log \in AnyLog /\ Len(log) \in Nat
      BY <1>1, SeqIs DEF IInv, TypeOK, WalTypeOK, LogItem, AnyLog
    <3>2. \A n \in synced..Len(log) : SubSeq(log, 1, n) = log
      BY <2>3, <3>1 DEF AnyLog
    <3> QED BY <1>1, <2>3, <3>2, LogFound, Zenon DEF IInv
  <2>5. ASSUME NEW k \in Keys PROVE RestartView(l, d)[k] = Last(hist)[k]
    <3>1. RestartView(l, d)[k] = Seen(IF Replayed(l)[k] # Nil THEN Replayed(l)[k]
                                      ELSE DirLookup(d, k), now)
      BY DEF RestartView
    <3>2. Seen(IF Replayed(log)[k] # Nil THEN Replayed(log)[k] ELSE DirLookup(d, k), now) = Last(hist)[k]
      BY <1>1, <2>1, <2>2, FullLogServes
    <3>3. IF Replayed(dlog)[k] = Nil THEN Replayed(log)[k] = Nil
          ELSE Seen(Replayed(dlog)[k], now) = Last(hist)[k]
      BY <1>1 DEF CInv, NeverBehind
    <3> QED BY <2>4, <3>1, <3>2, <3>3
  <2>6. Last(hist) \in Layer /\ RestartView(l, d) = [k \in Keys |-> RestartView(l, d)[k]]
    BY <1>1, HistIs DEF IInv, Db, RestartView
  <2> QED BY <2>5, <2>6 DEF Layer
<1> QED BY <1>1, CInvAlways, PTL

\* flush cuts the log only once the tables on the disk answer for every key
\* it holds, whatever an earlier flush left behind (Store::flush).
THEOREM CutLogIsRedundant ==
  ASSUME Guarded
  PROVE  Spec => LogCutOnlyWhenRedundant
<1>1. ASSUME IInv, RInv, CInv, pc = "flush_truncate", NEW k \in Keys, Replayed(log)[k] # Nil
      PROVE  Seen(DirLookup(ddir, k), now) = Seen(Replayed(log)[k], now)
  <2>1. ddir = dir /\ DirLookup(dir, k) = Lookup(memtable, sstables, k)
    BY <1>1, TablesAlone
  <2>2. memtable[k] # Nil /\ Seen(memtable[k], now) = Seen(Replayed(log)[k], now)
    BY <1>1 DEF CInv, LogCovers, Running, FlushSteps
  <2> QED BY <2>1, <2>2 DEF Lookup
<1>2. IInv /\ RInv /\ CInv =>
        (pc = "flush_truncate" /\ log' # log =>
           \A k \in Keys : Replayed(log)[k] # Nil =>
             Seen(DirLookup(ddir, k), now) = Seen(Replayed(log)[k], now))
  BY <1>1
<1> QED BY <1>2, CInvAlways, PTL DEF LogCutOnlyWhenRedundant

=============================================================================
