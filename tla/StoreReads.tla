----------------------------- MODULE StoreReads -----------------------------
(***************************************************************************)
(* Every read answers with the last write executed, whatever fails and     *)
(* wherever the process is killed or power is lost (Store::lookup over     *)
(* flush, maybe_compact, flush_all and the constructor).                   *)
(***************************************************************************)
EXTENDS StoreProofs

\* The merged table, once it has its name and while it is being written.
OnDisk == [seq |-> job.target, data |-> dir[job.target].data]
InTmp  == [seq |-> job.target, data |-> tmp.data]

\* With this vector every key reads as it should.
ServedBy(tables) ==
  \A k \in Keys :
    LET e == Seen(Lookup(memtable, tables, k), now)
    IN  e = Last(hist)[k] \/ (wiping /\ e = Nil)

SameReads(t1, t2) ==
  \A k \in Keys : Seen(TableLookup(t1, k), now) = Seen(TableLookup(t2, k), now)

\* While its inputs are out of the vector the merged table is not in it yet.
Apart == {"merge_unlink", "merge_unlink_sync"}

Serves ==
  /\ pc \in Running \ Apart => ServedBy(sstables)
  /\ pc \in Apart => ServedBy(Replaced(sstables, job.at, job.at - 1, OnDisk))
  /\ pc = "down" => RestartView(log, dir) = Last(hist)

\* What a flush writes is the memtable, which does not change under it.
Flushing ==
  /\ pc \in {"flush_write", "flush_rename"} => tmp.data = memtable
  /\ pc \in {"flush_sync", "flush_truncate", "flush_logsync"} =>
       dir[next_sequence].data = memtable

\* What a compaction writes reads as its inputs do, also later.
Merging ==
  /\ pc \in {"merge_write", "merge_rename"} =>
       SameReads(Replaced(sstables, job.at, job.at + Len(job.paths), InTmp), sstables)
  /\ pc = "merge_sync" =>
       SameReads(Replaced(sstables, job.at, job.at + Len(job.paths), OnDisk), sstables)

RInv == Serves /\ Flushing /\ Merging

-----------------------------------------------------------------------------
(* Pieces *)

\* The last element of a history.
LEMMA LastIs ==
  ASSUME NEW S, NEW s \in Seq(S), NEW t \in Seq(S), NEW x \in S
  PROVE  /\ t # <<>> => Last(s \o t) = Last(t)
         /\ Last(Append(s, x)) = x /\ Last(<<x>>) = x
         /\ s # <<>> => Last(s) \in S
<1>1. Len(s) \in Nat /\ Len(t) \in Nat /\ (t # <<>> => Len(t) \in 1..Len(t))
      /\ (s # <<>> => Len(s) \in 1..Len(s))
  BY EmptyIs
<1>2. ASSUME t # <<>> PROVE Last(s \o t) = Last(t)
  BY <1>1, <1>2, ConcatIs DEF Last
<1>3. Last(Append(s, x)) = x
  BY <1>1, AppendIs DEF Last
<1>4. Last(<<x>>) = x
  BY DEF Last
<1>5. s # <<>> => Last(s) \in S
  BY <1>1, ElementIs DEF Last
<1> QED BY <1>2, <1>3, <1>4, <1>5

\* A sequence over a set is one over a larger set.
LEMMA SeqWidens ==
  ASSUME NEW S, NEW T, S \subseteq T, NEW s \in Seq(S)
  PROVE  s \in Seq(T)
<1>1. PICK n \in Nat : s \in [1..n -> S]
  OBVIOUS
<1>2. s \in [1..n -> T]
  BY <1>1
<1> QED BY <1>2, FunctionIsSeq

\* The open tables, whatever their numbers.
LEMMA VectorIs ==
  ASSUME TypeOK
  PROVE  sstables \in Seq(AnyTable)
<1>1. Table \subseteq AnyTable
  BY DEF Table, AnyTable, SeqNo
<1> QED BY <1>1, SeqWidens DEF TypeOK

\* The last state of the history, one key at a time.
LEMMA HistIs ==
  ASSUME TypeOK
  PROVE  /\ hist \in Seq(Db) /\ Last(hist) \in Db
         /\ \A k \in Keys : Last(hist)[k] \in Entry \cup {Nil}
<1>1. hist \in Seq(Db) /\ hist # <<>> /\ EmptyLayer \in Db
  BY EntryTypes DEF TypeOK, Db
<1>2. Last(hist) \in Db
  BY <1>1, LastIs, ZenonT(30)
<1> QED BY <1>1, <1>2 DEF Db, Layer

\* A step that leaves alone all that reads depend on.
LEMMA CalmServes ==
  ASSUME RInv, memtable' = memtable, sstables' = sstables, now' = now,
         Last(hist)' = Last(hist), wiping' = wiping,
         pc \in Running \ Apart, pc' \in Running \ Apart
  PROVE  Serves'
<1>1. ServedBy(sstables)
  BY DEF RInv, Serves
<1>2. ServedBy(sstables)'
  BY <1>1 DEF ServedBy
<1>3. pc' \notin Apart /\ pc' # "down"
  BY DEF Running, LoopSteps, FlushSteps, MergeSteps, WipeSteps
<1> QED BY <1>2, <1>3 DEF Serves

-----------------------------------------------------------------------------
(* Commands *)

\* The record that reaches the log reaches the memtable and the history.
LEMMA MutateReads ==
  ASSUME IInv, RInv, IInv', pc = "serve", NEW recs \in Seq(Record), recs # <<>>, Mutate(recs)
  PROVE  RInv'
<1> USE DEF Running, LoopSteps, FlushSteps, MergeSteps, WipeSteps, Apart
<1>1. /\ UNCHANGED <<sstables, next_sequence, dir, ddir, job, now, wiping>>
      /\ \/ pc' = "serve"
         \/ pc' = "flush_write" /\ tmp' = [data |-> memtable', status |-> "partial"]
  BY DEF Mutate, MaybeFlush
<1>2. Flushing' /\ Merging'
  BY <1>1 DEF Flushing, Merging
<1>3. CASE UNCHANGED <<memtable, hist>>
  BY <1>1, <1>2, <1>3, CalmServes DEF RInv
<1>4. CASE /\ memtable' = [k \in Keys |-> IF Replayed(recs)[k] = Nil
                                          THEN memtable[k] ELSE Replayed(recs)[k]]
           /\ hist' = hist \o Outcomes(Last(hist), recs)
  <2> DEFINE n == Len(recs)
             out == Outcomes(Last(hist), recs)
  <2>1. n \in Nat /\ n \in 1..n /\ SubSeq(recs, 1, n) = recs
    <3>1. n \in Nat /\ n # 0
      BY EmptyIs
    <3>2. SubSeq(recs, 1, n) = recs
      OBVIOUS
    <3> QED BY <3>1, <3>2
  <2>2. out \in Seq(Db) /\ hist \in Seq(Db)
    BY HistIs, OutcomesType DEF IInv
  <2>3. Len(out) = n /\ out # <<>>
    <3>1. out = [i \in 1..n |-> out[i]]
      BY DEF Outcomes
    <3>2. DOMAIN out = 1..n
      BY DEF Outcomes
    <3>3. DOMAIN out = 1..Len(out) /\ Len(out) \in Nat
      BY <2>2, EmptyIs
    <3> HIDE DEF out, n
    <3>4. Len(out) = n
      BY <2>1, <3>2, <3>3
    <3> QED BY <2>1, <2>2, <3>4, EmptyIs
  <2>4. Last(hist)' = out[n]
    <3>1. Last(hist \o out) = Last(out)
      BY <2>2, <2>3, EntryTypes, LastIs, Zenon DEF Db
    <3> QED BY <1>4, <2>3, <3>1 DEF Last
  <2>5. \A k \in Keys : out[n][k] = IF Replayed(recs)[k] = Nil THEN Last(hist)[k]
                                    ELSE Seen(Replayed(recs)[k], now)
    BY <2>1, Zenon DEF Outcomes
  <2> HIDE DEF out, n
  <2>6. ServedBy(sstables)
    BY DEF RInv, Serves
  <2>7. ServedBy(sstables)'
    <3> SUFFICES ASSUME NEW k \in Keys
                 PROVE  \/ Seen(Lookup(memtable, sstables, k), now)' = Last(hist)'[k]
                        \/ wiping' /\ Seen(Lookup(memtable, sstables, k), now)' = Nil
      BY DEF ServedBy
    <3>1. CASE Replayed(recs)[k] = Nil
      <4>1. memtable'[k] = memtable[k] /\ Last(hist)'[k] = Last(hist)[k]
        BY <1>4, <2>4, <2>5, <3>1
      <4> QED BY <1>1, <2>6, <4>1 DEF ServedBy, Lookup
    <3>2. CASE Replayed(recs)[k] # Nil
      <4>1. memtable'[k] = Replayed(recs)[k]
        BY <1>4, <3>2
      <4>2. Last(hist)'[k] = Seen(Replayed(recs)[k], now)
        BY <2>4, <2>5, <3>2
      <4> QED BY <1>1, <3>2, <4>1, <4>2 DEF Lookup
    <3> QED BY <3>1, <3>2
  <2> QED BY <1>1, <1>2, <2>7 DEF RInv, Serves
<1> QED BY <1>3, <1>4 DEF Mutate

\* flush_all empties the vector before anything else.
LEMMA FlushAllReads ==
  ASSUME IInv, RInv, FlushAll
  PROVE  RInv'
<1> USE DEF Running, LoopSteps, FlushSteps, MergeSteps, WipeSteps, Apart
<1>1. /\ pc = "serve" /\ pc' = "wipe_unlink" /\ sstables' = <<>> /\ wiping' = TRUE
      /\ memtable' = memtable /\ now' = now /\ hist' = hist
  BY DEF FlushAll, Goto
<1>2. ServedBy(sstables)
  BY <1>1 DEF RInv, Serves
<1>3. \A k : TableLookup(<<>>, k) = Nil
  BY DEF TableLookup
<1>4. ServedBy(sstables)'
  <2> SUFFICES ASSUME NEW k \in Keys
               PROVE  \/ Seen(Lookup(memtable, <<>>, k), now) = Last(hist)[k]
                      \/ Seen(Lookup(memtable, <<>>, k), now) = Nil
    BY <1>1 DEF ServedBy
  <2>1. CASE memtable[k] # Nil
    BY <1>2, <2>1 DEF ServedBy, Lookup
  <2>2. CASE memtable[k] = Nil
    BY <1>3, <2>2 DEF Lookup, Seen
  <2> QED BY <2>1, <2>2
<1> QED BY <1>1, <1>4 DEF RInv, Serves, Flushing, Merging
\* Every command.
LEMMA CommandReads ==
  ASSUME IInv, RInv, IInv', Command
  PROVE  RInv'
<1>1. ASSUME NEW recs \in Seq(Record), recs # <<>>, pc = "serve", Mutate(recs)
      PROVE  RInv'
  BY <1>1, MutateReads
<1> QED BY <1>1, CommandIs, FlushAllReads, ZenonT(30)

-----------------------------------------------------------------------------
(* The event loop and flush *)

\* Every step of flush: the table takes over what the memtable said.
LEMMA FlushReads ==
  ASSUME IInv, RInv, Flush
  PROVE  RInv'
<1> USE DEF Running, LoopSteps, FlushSteps, MergeSteps, WipeSteps, Apart, Goto
<1>1. pc \in FlushSteps /\ now' = now /\ hist' = hist /\ wiping' = wiping
      /\ pc' \in FlushSteps \cup {"serve"}
  BY DEF Flush, FlushWrite, FlushRename, FlushSync, FlushTruncate, FlushLogSync, Quiet, histVars
<1>2. Merging'
  BY <1>1 DEF Merging
<1>3. ASSUME UNCHANGED memVars, Flushing'
      PROVE  RInv'
  BY <1>1, <1>2, <1>3, CalmServes DEF RInv, memVars
<1>4. CASE FlushWrite
  <2>1. tmp \in File
    BY <1>4 DEF FlushWrite, IInv, TypeOK, LocalsStillHold
  <2>2. [tmp EXCEPT !.status = "synced"].data = tmp.data
    BY <2>1 DEF File
  <2>3. Flushing' /\ UNCHANGED memVars
    BY <1>4, <2>2, Zenon DEF FlushWrite, Flushing, RInv, memVars
  <2> QED BY <1>3, <2>3
<1>5. CASE FlushRename
  <2>1. next_sequence \in SeqNo /\ dir \in [SeqNo -> File \cup {Nil}]
    BY <1>5 DEF FlushRename, IInv, TypeOK, LocalsStillHold
  <2>2. Flushing' /\ UNCHANGED memVars
    BY <1>5, <2>1 DEF FlushRename, Flushing, RInv, memVars
  <2> QED BY <1>3, <2>2
<1>6. CASE FlushSync \/ FlushTruncate
  <2>1. Flushing' /\ UNCHANGED memVars
    BY <1>6 DEF FlushSync, FlushTruncate, Flushing, RInv, memVars, diskVars
  <2> QED BY <1>3, <2>1
<1>7. CASE FlushLogSync
  <2>1. pc = "flush_logsync" /\ pc' = "serve"
    BY <1>7 DEF FlushLogSync
  <2>2. Flushing'
    BY <2>1 DEF Flushing
  <2>3. CASE UNCHANGED memVars
    BY <1>3, <2>2, <2>3
  <2>4. CASE /\ sstables' = <<[seq |-> next_sequence, data |-> dir[next_sequence].data]>> \o sstables
             /\ memtable' = EmptyLayer
    <3> DEFINE m == [seq |-> next_sequence, data |-> dir[next_sequence].data]
    <3>1. m.data = memtable
      BY <2>1 DEF RInv, Flushing
    <3>2. sstables \in Seq(AnyTable) /\ m \in AnyTable
      BY <3>1, VectorIs DEF IInv, TypeOK, AnyTable
    <3> HIDE DEF m
    <3>3. ASSUME NEW k \in Keys
          PROVE  Lookup(memtable, sstables, k)' = Lookup(memtable, sstables, k)
      <4>1. TableLookup(<<m>> \o sstables, k) =
              IF m.data[k] # Nil THEN m.data[k] ELSE TableLookup(sstables, k)
        BY <3>2, PutFirst
      <4>2. memtable'[k] = Nil /\ sstables' = <<m>> \o sstables
        BY <2>4 DEF EmptyLayer, m
      <4> QED BY <3>1, <4>1, <4>2 DEF Lookup
    <3>4. ServedBy(sstables)
      BY <2>1 DEF RInv, Serves
    <3>5. ServedBy(sstables)'
      BY <1>1, <3>3, <3>4 DEF ServedBy
    <3> QED BY <1>2, <2>1, <2>2, <3>5 DEF RInv, Serves
  <2> QED BY <1>7, <2>3, <2>4 DEF FlushLogSync
<1> QED BY <1>4, <1>5, <1>6, <1>7 DEF Flush

\* The steps of the loop that touch no data.
LEMMA LoopReads ==
  ASSUME IInv, RInv, EndBatch \/ NoCompaction \/ LoopAgain
  PROVE  RInv'
<1> USE DEF Running, LoopSteps, FlushSteps, MergeSteps, WipeSteps, Apart, Goto
<1>1. /\ pc \in LoopSteps /\ pc' \in LoopSteps /\ now' = now /\ wiping' = wiping
      /\ memtable' = memtable /\ sstables' = sstables
  BY DEF EndBatch, NoCompaction, LoopAgain, Quiet, memVars, histVars
<1>2. hist' = hist \/ hist' = <<Last(hist)>>
  BY DEF EndBatch, NoCompaction, LoopAgain, Quiet, histVars
<1>3. Last(hist)' = Last(hist)
  BY <1>2 DEF Last
<1>4. Flushing' /\ Merging'
  BY <1>1 DEF Flushing, Merging
<1> QED BY <1>1, <1>3, <1>4, CalmServes DEF RInv

\* Sweeping takes out only what no read sees.
LEMMA SweepReads ==
  ASSUME IInv, RInv, SweepExpired
  PROVE  RInv'
<1> USE DEF Running, LoopSteps, FlushSteps, MergeSteps, WipeSteps, Apart, Goto
<1>1. /\ pc = "sweep" /\ pc' = "compact" /\ now' = now /\ wiping' = wiping /\ hist' = hist
      /\ sstables' = sstables
  BY DEF SweepExpired, Quiet, histVars
<1>2. PICK swept \in SUBSET {k \in Keys :
               memtable[k] # Nil /\ Expired(memtable[k].expires_at_ms, now)} :
        memtable' = [k \in Keys |-> IF k \in swept THEN Tombstone ELSE memtable[k]]
  BY DEF SweepExpired
<1>3. Tombstone # Nil /\ Tombstone.tombstone
  BY EntryTypes, LayersAssumption, ZenonT(30) DEF Tombstone
<1>4. ASSUME NEW k \in Keys
      PROVE  Seen(Lookup(memtable, sstables, k), now)' = Seen(Lookup(memtable, sstables, k), now)
  <2>1. CASE k \in swept
    <3>1. memtable'[k] = Tombstone /\ memtable[k] # Nil /\ Expired(memtable[k].expires_at_ms, now)
      BY <1>2, <2>1
    <3> QED BY <1>1, <1>3, <3>1 DEF Lookup, Seen
  <2>2. CASE k \notin swept
    <3>1. memtable'[k] = memtable[k]
      BY <1>2, <2>2
    <3> QED BY <1>1, <3>1 DEF Lookup
  <2> QED BY <2>1, <2>2
<1>5. ServedBy(sstables)
  BY <1>1 DEF RInv, Serves
<1>6. ServedBy(sstables)'
  BY <1>1, <1>4, <1>5 DEF ServedBy
<1> QED BY <1>1, <1>6 DEF RInv, Serves, Flushing, Merging

-----------------------------------------------------------------------------
(* flush_all *)

\* Every later step of flush_all.
LEMMA WipeReads ==
  ASSUME IInv, RInv, Wipe
  PROVE  RInv'
<1> USE DEF Running, LoopSteps, FlushSteps, MergeSteps, WipeSteps, Apart, Goto
<1>1. pc \in WipeSteps /\ pc' \in WipeSteps \cup {"serve"} /\ now' = now /\ sstables' = sstables
  BY DEF Wipe, WipeUnlink, WipeSync, WipeTruncate, WipeLogSync, FlushAllFails, Quiet, memVars
<1>2. Flushing' /\ Merging'
  BY <1>1 DEF Flushing, Merging
<1>3. CASE UNCHANGED <<memtable, hist, wiping>>
  BY <1>1, <1>2, <1>3, CalmServes DEF RInv
<1>4. CASE memtable' = EmptyLayer /\ hist' = Append(hist, EmptyLayer) /\ pc' = "serve"
  <2>1. sstables' = <<>>
    BY <1>1 DEF IInv, LocalsStillHold
  <2>2. Last(hist)' = EmptyLayer
    <3>1. hist \in Seq(Db) /\ EmptyLayer \in Db
      BY HistIs, EntryTypes DEF IInv, Db
    <3>2. Last(Append(hist, EmptyLayer)) = EmptyLayer
      BY <3>1, LastIs, ZenonT(30)
    <3> QED BY <1>4, <3>2 DEF Last
  <2>3. \A k \in Keys : EmptyLayer[k] = Nil /\ TableLookup(<<>>, k) = Nil
    BY DEF EmptyLayer, TableLookup
  <2>4. ServedBy(sstables)'
    BY <1>4, <2>1, <2>2, <2>3 DEF ServedBy, Lookup, Seen
  <2> QED BY <1>2, <1>4, <2>4 DEF RInv, Serves
<1> QED
  BY <1>3, <1>4
  DEF Wipe, WipeUnlink, WipeSync, WipeTruncate, WipeLogSync, Quiet, memVars, histVars
-----------------------------------------------------------------------------
(* maybe_compact *)

\* A vector that reads as a good one is good.
LEMMA SameReadsServe ==
  ASSUME NEW t1, NEW t2, SameReads(t1, t2), ServedBy(t2)
  PROVE  ServedBy(t1)
<1>1. \A k \in Keys : Seen(Lookup(memtable, t1, k), now) = Seen(Lookup(memtable, t2, k), now)
  BY DEF SameReads, Lookup
<1> QED BY <1>1 DEF ServedBy

\* The run taken out and the merge put in, or the merge put in its place.
LEMMA PutBack ==
  ASSUME NEW S, NEW tables \in Seq(S), NEW m, NEW at \in 1..Len(tables), NEW last \in at..Len(tables),
         NEW rest, rest = SubSeq(tables, 1, at - 1) \o SubSeq(tables, last + 1, Len(tables))
  PROVE  Replaced(rest, at, at - 1, m) = Replaced(tables, at, last, m)
<1>1. PICK n \in Nat : n = Len(tables)
  BY SeqIs
<1>2. at \in 1..n /\ last \in at..n
  BY <1>1
<1>3. PICK a \in Seq(S) : a = SubSeq(tables, 1, at - 1) /\ Len(a) = at - 1
  <2>1. at - 1 \in Nat /\ at - 1 <= Len(tables)
    BY <1>1, <1>2
  <2> QED BY <2>1, PrefixIs, Zenon
<1>4. PICK c \in Seq(S) : c = SubSeq(tables, last + 1, n) /\ Len(c) = n - last
  <2>1. last \in Nat /\ last <= Len(tables)
    BY <1>1, <1>2
  <2> QED BY <1>1, <2>1, SuffixIs, Zenon
<1>5. rest = a \o c
  BY <1>1, <1>3, <1>4
<1>6. /\ SubSeq(a \o c, 1, Len(a)) = a
      /\ SubSeq(a \o c, Len(a) + 1, Len(a \o c)) = c
  BY SplitIs
<1>7. SubSeq(rest, 1, at - 1) = a
  BY <1>3, <1>5, <1>6, ZenonT(30)
<1>8. SubSeq(rest, at, Len(rest)) = c
  <2>1. Len(a) + 1 = at
    BY <1>2, <1>3
  <2> QED BY <1>5, <1>6, <2>1, ZenonT(30)
<1>9. (at - 1) + 1 = at
  BY <1>2
<1> QED BY <1>1, <1>3, <1>4, <1>7, <1>8, <1>9, Zenon DEF Replaced

\* The merge written to the temporary file reads as its inputs.
LEMMA CompactReads ==
  ASSUME IInv, RInv, IInv', NEW first \in 1..Len(sstables), NEW last \in 1..Len(sstables),
         Compact(first, last)
  PROVE  RInv'
<1> USE DEF Running, LoopSteps, FlushSteps, MergeSteps, WipeSteps, Apart, Goto
<1>1. /\ pc = "compact" /\ pc' = "merge_write" /\ UNCHANGED <<memtable, sstables, now, hist, wiping>>
  BY DEF Compact, memVars, Quiet, histVars
<1>2. Serves'
  BY <1>1, CalmServes DEF Last
<1> DEFINE data == Merged(SubSeq(sstables, first, last), last = Len(sstables), now)
           paths == [i \in 1..(last - first) |-> sstables[first + i].seq]
<1>3. /\ tmp' = [data |-> data, status |-> "partial"]
      /\ job' = [at |-> first, target |-> sstables[first].seq, ok |-> TRUE, paths |-> paths]
  BY DEF Compact
<1>4. Len(sstables) \in Nat /\ sstables[first].seq \in Nat /\ sstables \in Seq(AnyTable)
  <2>1. Len(sstables) \in Nat /\ sstables[first].seq \in SeqNo
    BY TablesType DEF IInv
  <2> QED BY <2>1, VectorIs DEF SeqNo, IInv
<1>5. first \in Nat /\ last \in Nat /\ last - first \in Nat /\ last \in first..Len(sstables)
  <2>1. last - first + 1 >= kCompactionTrigger /\ kCompactionTrigger \in Nat \ {0}
    BY StoreAssumption DEF Compact
  <2> QED BY <1>4, <2>1
<1>6. Len(paths) = last - first
  BY <1>5
<1> HIDE DEF data, paths
<1>7. job'.at + Len(job'.paths) = last /\ job'.at = first /\ job'.target = sstables[first].seq
  BY <1>3, <1>5, <1>6
<1>8. InTmp' = [seq |-> sstables[first].seq, data |-> data]
  BY <1>3, <1>7 DEF InTmp
<1>9. ASSUME NEW k \in Keys
      PROVE  Seen(TableLookup(Replaced(sstables, first, last, InTmp'), k), now)
               = Seen(TableLookup(sstables, k), now)
  <2>1. PICK m \in AnyTable : m = [seq |-> sstables[first].seq, data |-> data]
    <3>1. tmp'.data \in Layer
      BY <1>1 DEF IInv, TypeOK, LocalsStillHold, File
    <3> QED BY <1>3, <1>4, <3>1, ZenonT(30) DEF AnyTable
  <2>2. StandsFor(m, sstables, first, last, k, now)
    BY <2>1 DEF data, Merged, StandsFor
  <2>3. last \in first..Len(sstables)
    BY <1>5
  <2> QED BY <1>4, <1>8, <2>1, <2>2, <2>3, InPlaceOfRun
<1>10. SameReads(Replaced(sstables, job.at, job.at + Len(job.paths), InTmp), sstables)'
  BY <1>1, <1>7, <1>9 DEF SameReads
<1> QED BY <1>1, <1>2, <1>10 DEF RInv, Flushing, Merging

\* Writing it out and giving it its name.
LEMMA MergeReads ==
  ASSUME IInv, RInv, MergeWrite \/ MergeRename
  PROVE  RInv'
<1> USE DEF Running, LoopSteps, FlushSteps, MergeSteps, WipeSteps, Apart, Goto
<1>1. /\ pc \in {"merge_write", "merge_rename"} /\ pc' \in {"merge_rename", "merge_sync", "sync"}
      /\ UNCHANGED <<memtable, sstables, now, hist, wiping>>
  BY DEF MergeWrite, MergeRename, CompactionOver, memVars, Quiet, histVars
<1>2. Serves' /\ Flushing'
  BY <1>1, CalmServes DEF Last, Flushing
<1>3. CASE pc' = "sync"
  BY <1>2, <1>3 DEF RInv, Merging
<1>4. tmp \in File /\ job.target \in SeqNo /\ dir \in [SeqNo -> File \cup {Nil}]
  BY <1>1 DEF IInv, TypeOK, LocalsStillHold
<1>5. CASE MergeWrite /\ pc' = "merge_rename"
  <2>1. tmp'.data = tmp.data /\ job' = job
    BY <1>4, <1>5 DEF MergeWrite, CompactionOver, File
  <2> QED BY <1>1, <1>2, <1>5, <2>1 DEF RInv, Merging, InTmp, SameReads
<1>6. CASE MergeRename /\ pc' = "merge_sync"
  <2>1. dir'[job.target].data = tmp.data /\ job' = job
    BY <1>4, <1>6 DEF MergeRename, CompactionOver
  <2> QED BY <1>1, <1>2, <1>6, <2>1 DEF RInv, Merging, InTmp, OnDisk, SameReads
<1> QED BY <1>3, <1>5, <1>6 DEF MergeWrite, MergeRename, CompactionOver

\* Inputs out of the vector: the vector and the merged table read on.
LEMMA MergeSyncReads ==
  ASSUME IInv, RInv, MergeSync
  PROVE  RInv'
<1> USE DEF Running, LoopSteps, FlushSteps, MergeSteps, WipeSteps, Apart, Goto
<1>1. pc = "merge_sync" /\ UNCHANGED <<memtable, dir, now, hist, wiping>>
  BY DEF MergeSync, histVars
<1>2. CASE pc' = "sync" /\ sstables' = sstables
  BY <1>1, <1>2, CalmServes DEF Last, RInv, Flushing, Merging
<1>3. CASE pc' = "merge_unlink" /\ sstables' = Erased(job.at) /\ job' = job
  <2>1. PICK at, last, m :
          at = job.at /\ last = job.at + Len(job.paths) /\ m = OnDisk
    OBVIOUS
  <2>2. at \in 1..Len(sstables) /\ last \in at..Len(sstables) /\ sstables \in Seq(Table)
    <3>1. job \in Job
      BY DEF IInv, TypeOK
    <3>2. job.paths \in Seq(SeqNo)
      BY <3>1 DEF Job
    <3>3. Len(job.paths) \in Nat /\ job.at \in 1..Len(sstables)
          /\ job.at + Len(job.paths) <= Len(sstables)
      BY <1>1, <3>2, SeqIs DEF IInv, LocalsStillHold
    <3>4. Len(sstables) \in Nat /\ sstables \in Seq(Table)
      BY TablesType DEF IInv
    <3> QED BY <2>1, <3>3, <3>4
  <2>3. sstables' = SubSeq(sstables, 1, at - 1) \o SubSeq(sstables, last + 1, Len(sstables))
    BY <1>3, <2>1 DEF Erased
  <2>4. Replaced(sstables', at, at - 1, m) = Replaced(sstables, at, last, m)
    BY <2>2, <2>3, PutBack, Zenon
  <2>5. SameReads(Replaced(sstables, at, last, m), sstables) /\ ServedBy(sstables)
    BY <1>1, <2>1 DEF RInv, Merging, Serves
  <2>6. ServedBy(Replaced(sstables', at, at - 1, m))
    BY <2>4, <2>5, SameReadsServe
  <2>7. job'.at = at /\ OnDisk' = m
    BY <1>1, <1>3, <2>1 DEF OnDisk
  <2>8. ServedBy(Replaced(sstables, job.at, job.at - 1, OnDisk))'
    BY <1>1, <2>6, <2>7 DEF ServedBy, Last
  <2> QED BY <1>3, <2>8 DEF RInv, Serves, Flushing, Merging
<1> QED BY <1>2, <1>3 DEF MergeSync, CompactionOver

\* Unlinking an input leaves the merged table alone.
LEMMA MergeUnlinkReads ==
  ASSUME IInv, RInv, MergeUnlink
  PROVE  RInv'
<1> USE DEF Running, LoopSteps, FlushSteps, MergeSteps, WipeSteps, Apart, Goto
<1>1. /\ pc = "merge_unlink" /\ pc' \in Apart
      /\ UNCHANGED <<memtable, sstables, now, hist, wiping>>
  BY DEF MergeUnlink, memVars, Quiet, histVars
<1>2. job'.at = job.at /\ job'.target = job.target
  <2>1. job \in Job
    BY DEF IInv, TypeOK
  <2> QED BY <2>1 DEF MergeUnlink, Job
<1>3. dir'[job.target] = dir[job.target]
  <2>1. CASE job.paths = <<>>
    BY <2>1 DEF MergeUnlink
  <2>2. CASE job.paths # <<>>
    <3>1. job.paths \in Seq(SeqNo) /\ job.target \in SeqNo
      BY <1>1 DEF IInv, TypeOK, Job, LocalsStillHold
    <3>2. Head(job.paths) = job.paths[1] /\ 1 \in 1..Len(job.paths)
      BY <2>2, <3>1, TailIs
    <3>3. Head(job.paths) # job.target
      <4>1. job.paths[1] < job.target
        BY <1>1, <3>2 DEF IInv, LocalsStillHold
      <4>2. job.paths[1] \in SeqNo
        BY <3>1, <3>2, ElementIs
      <4> QED BY <3>1, <3>2, <4>1, <4>2 DEF SeqNo
    <3>4. dir \in [SeqNo -> File \cup {Nil}]
      BY DEF IInv, TypeOK
    <3> QED BY <2>2, <3>1, <3>3, <3>4 DEF MergeUnlink
  <2> QED BY <2>1, <2>2
<1>4. ServedBy(Replaced(sstables, job.at, job.at - 1, OnDisk))
  BY <1>1 DEF RInv, Serves
<1>5. OnDisk' = OnDisk
  BY <1>2, <1>3 DEF OnDisk
<1>6. ServedBy(Replaced(sstables, job.at, job.at - 1, OnDisk))'
  BY <1>1, <1>2, <1>4, <1>5 DEF ServedBy, Last
<1> QED BY <1>1, <1>6 DEF RInv, Serves, Flushing, Merging

\* The merged table, once it has its name.
LEMMA OnDiskType ==
  ASSUME TypeOK, LocalsStillHold, pc \in {"merge_sync", "merge_unlink", "merge_unlink_sync"}
  PROVE  OnDisk \in AnyTable
<1>1. pc \in MergeSteps
  BY Zenon DEF MergeSteps
<1>2. job.target \in SeqNo /\ dir[job.target] # Nil
  BY <1>1, Zenon DEF LocalsStillHold
<1>3. dir[job.target] \in File
  BY <1>2 DEF TypeOK
<1>4. dir[job.target].data \in Layer /\ job.target \in Nat
  BY <1>2, <1>3 DEF File, SeqNo
<1> QED BY <1>4 DEF OnDisk, AnyTable

\* The merged table enters the vector where its inputs were.
LEMMA MergeUnlinkSyncReads ==
  ASSUME IInv, RInv, MergeUnlinkSync
  PROVE  RInv'
<1> USE DEF Running, LoopSteps, FlushSteps, MergeSteps, WipeSteps, Apart, Goto
<1>1. /\ pc = "merge_unlink_sync" /\ UNCHANGED <<memtable, now, hist, wiping>>
  BY DEF MergeUnlinkSync, histVars
<1>2. PICK at, m : at = job.at /\ m = OnDisk
  OBVIOUS
<1>3. ServedBy(Replaced(sstables, at, at - 1, m))
  BY <1>1, <1>2 DEF RInv, Serves
<1>4. at \in 1..(Len(sstables) + 1) /\ Len(sstables) \in Nat
  BY <1>1, <1>2, TablesType DEF IInv, LocalsStillHold
<1>5. CASE dir[job.target].data = EmptyLayer
  <2>1. pc' = "merge_empty" /\ sstables' = sstables
    BY <1>5 DEF MergeUnlinkSync
  <2>2. m \in AnyTable /\ \A k \in Keys : m.data[k] = Nil
    <3>1. m \in AnyTable
      BY <1>1, <1>2, OnDiskType, Zenon DEF IInv
    <3> QED BY <1>2, <1>5, <3>1 DEF OnDisk, EmptyLayer
  <2>3. sstables \in Seq(AnyTable)
    BY VectorIs DEF IInv
  <2>4. \A k \in Keys : TableLookup(Replaced(sstables, at, at - 1, m), k) = TableLookup(sstables, k)
    BY <1>4, <2>2, <2>3, SilentSkipped
  <2>5. SameReads(sstables, Replaced(sstables, at, at - 1, m))
    BY <2>4 DEF SameReads
  <2>6. ServedBy(sstables)
    BY <1>3, <2>5, SameReadsServe
  <2>7. ServedBy(sstables)'
    BY <1>1, <2>1, <2>6 DEF ServedBy, Last
  <2> QED BY <2>1, <2>7 DEF RInv, Serves, Flushing, Merging
<1>6. CASE dir[job.target].data # EmptyLayer
  <2>1. /\ pc' = "sync"
        /\ sstables' = SubSeq(sstables, 1, at - 1) \o <<m>> \o SubSeq(sstables, at, Len(sstables))
    BY <1>2, <1>6, ZenonT(30) DEF MergeUnlinkSync, CompactionOver, OnDisk
  <2>2. (at - 1) + 1 = at
    BY <1>4
  <2>3. sstables' = Replaced(sstables, at, at - 1, m)
    BY <2>1, <2>2, Zenon DEF Replaced
  <2>4. ServedBy(sstables)'
    BY <1>1, <1>3, <2>3 DEF ServedBy, Last
  <2> QED BY <2>1, <2>4 DEF RInv, Serves, Flushing, Merging
<1> QED BY <1>5, <1>6

\* A merged table with nothing in it is dropped.
LEMMA MergeEmptyReads ==
  ASSUME IInv, RInv, MergeEmpty \/ MergeEmptySync
  PROVE  RInv'
<1> USE DEF Running, LoopSteps, FlushSteps, MergeSteps, WipeSteps, Apart, Goto
<1>1. /\ pc \in {"merge_empty", "merge_empty_sync"} /\ pc' \in {"merge_empty_sync", "sync"}
      /\ UNCHANGED <<memtable, sstables, now, hist, wiping>>
  BY DEF MergeEmpty, MergeEmptySync, CompactionOver, memVars, Quiet, histVars
<1> QED BY <1>1, CalmServes DEF Last, RInv, Flushing, Merging

\* Every step of maybe_compact.
LEMMA CompactionReads ==
  ASSUME IInv, RInv, IInv', Compaction
  PROVE  RInv'
BY LoopReads, CompactReads, MergeReads, MergeSyncReads, MergeUnlinkReads, MergeUnlinkSyncReads,
   MergeEmptyReads
   DEF Compaction
-----------------------------------------------------------------------------
(* Crash, restart and the clock *)

\* The process dies: the next one will serve log and directory.
LEMMA DeathReads ==
  ASSUME IInv, RInv, MemoryGone, WalDies \/ SyncOk
  PROVE  RInv'
<1>1. pc' = "down" /\ log' = log /\ dir' = dir /\ now' = now /\ hist' = hist \o Found
  BY DEF MemoryGone, WalDies, SyncOk, diskVars, Goto
<1>2. RestartView(log, dir)' = RestartView(log, dir)
  BY <1>1 DEF RestartView
<1>3. hist \in Seq(Db) /\ hist # <<>> /\ EmptyLayer \in Db /\ RestartView(log, dir) \in Db
  BY RestartViewType, EntryTypes DEF IInv, TypeOK, WalTypeOK, Db
<1>4. Last(hist \o Found) = RestartView(log, dir)
  <2>1. PICK v \in Db : v = RestartView(log, dir)
    BY <1>3
  <2>2. CASE wiping
    <3>1. Found = <<EmptyLayer>> \o <<v>>
      BY <2>1, <2>2 DEF Found
    <3>2. <<EmptyLayer>> \in Seq(Db) /\ <<v>> \in Seq(Db) /\ <<v>> # <<>>
      BY <1>3
    <3>3. <<EmptyLayer>> \o <<v>> \in Seq(Db) /\ <<EmptyLayer>> \o <<v>> # <<>>
      BY <1>3
    <3>4. Last(<<EmptyLayer>> \o <<v>>) = v
      BY <3>2, LastIs, Zenon
    <3>5. Last(hist \o (<<EmptyLayer>> \o <<v>>)) = v
      BY <1>3, <3>3, <3>4, LastIs, Zenon
    <3> QED BY <2>1, <3>1, <3>5
  <2>3. CASE ~wiping /\ v = Last(hist)
    <3>1. Found = <<>>
      BY <2>1, <2>3 DEF Found
    <3>2. hist \o <<>> = hist
      BY <1>3
    <3> QED BY <2>1, <2>3, <3>1, <3>2
  <2>4. CASE ~wiping /\ v # Last(hist)
    <3>1. Found = <<v>>
      BY <2>1, <2>4 DEF Found
    <3>2. <<v>> \in Seq(Db) /\ <<v>> # <<>>
      OBVIOUS
    <3>3. Last(hist \o <<v>>) = v
      BY <1>3, <3>2, LastIs, Zenon
    <3> QED BY <2>1, <3>1, <3>3
  <2> QED BY <2>2, <2>3, <2>4
<1>5. RestartView(log, dir)' = Last(hist)'
  BY <1>1, <1>2, <1>4 DEF Last
<1> QED BY <1>1, <1>5
     DEF RInv, Serves, Flushing, Merging, Apart, Running, LoopSteps, FlushSteps, MergeSteps, WipeSteps

\* Power is lost: the next process will serve what is left.
LEMMA PowerLossReads ==
  ASSUME IInv, IInv', PowerLoss
  PROVE  RInv'
<1>1. pc' = "down" /\ now' = now /\ hist' = <<RestartView(log', dir')>>
  BY DEF PowerLoss, WalLosesPower, Goto
<1>2. RestartView(log, dir)' = RestartView(log', dir')
  BY <1>1 DEF RestartView
<1>3. Last(hist)' = RestartView(log', dir')
  BY <1>1 DEF Last
<1> QED BY <1>1, <1>2, <1>3
     DEF RInv, Serves, Flushing, Merging, Apart, Running, LoopSteps, FlushSteps, MergeSteps, WipeSteps

\* The newest file with something to say settles the key.
LEMMA DirLookupIs ==
  ASSUME NEW d, NEW k \in Keys
  PROVE  LET H == {n \in SeqNo : d[n] # Nil /\ d[n].data[k] # Nil}
         IN  /\ H = {} => DirLookup(d, k) = Nil
             /\ H # {} => \E n \in H : (\A m \in H : m <= n) /\ DirLookup(d, k) = d[n].data[k]
<1> DEFINE H == {n \in SeqNo : d[n] # Nil /\ d[n].data[k] # Nil}
           Newest(n) == \A m \in H : m <= n
<1>1. CASE H = {}
  BY <1>1 DEF DirLookup
<1>2. CASE H # {}
  <2>1. DirLookup(d, k) = d[CHOOSE n \in H : Newest(n)].data[k]
    BY <1>2 DEF DirLookup
  <2>2. H \in SUBSET (1..MaxSeq) /\ MaxSeq \in Nat
    BY StoreAssumption DEF SeqNo
  <2> HIDE DEF H
  <2>3. \E n \in H : Newest(n)
    BY <1>2, <2>2, IntervalMax, ZenonT(30)
  <2>4. (CHOOSE n \in H : Newest(n)) \in H /\ Newest(CHOOSE n \in H : Newest(n))
    BY <2>3
  <2>5. PICK n \in H : Newest(n) /\ DirLookup(d, k) = d[n].data[k]
    BY <2>1, <2>4, ZenonT(30)
  <2> QED BY <1>2, <2>5 DEF H
<1> QED BY <1>1, <1>2

\* The tables of directory d, opened in the order of their names.
Opened(tables, d, order) ==
  /\ Len(tables) \in Nat
  /\ order \in [1..Len(tables) -> Names(d)]
  /\ \A i, j \in 1..Len(tables) : i < j => order[i] > order[j]
  /\ \A m \in Names(d) : \E i \in 1..Len(tables) : order[i] = m
  /\ \A i \in 1..Len(tables) : tables[i].data = d[order[i]].data

\* They read as the directory does.
LEMMA OpenedReads ==
  ASSUME NEW d, NEW k \in Keys, NEW order, NEW tables, Opened(tables, d, order)
  PROVE  TableLookup(tables, k) = DirLookup(d, k)
<1>0. PICK n \in Nat :
        /\ Len(tables) = n
        /\ order \in [1..n -> Names(d)]
        /\ \A i, j \in 1..n : i < j => order[i] > order[j]
        /\ \A m \in Names(d) : \E i \in 1..n : order[i] = m
        /\ \A i \in 1..n : tables[i].data = d[order[i]].data
  BY DEF Opened
<1> DEFINE H == {m \in SeqNo : d[m] # Nil /\ d[m].data[k] # Nil}
<1>1. /\ H = {} => DirLookup(d, k) = Nil
      /\ H # {} => \E m \in H : (\A j \in H : j <= m) /\ DirLookup(d, k) = d[m].data[k]
  BY DirLookupIs
<1>2. ASSUME NEW i \in 1..n PROVE order[i] \in SeqNo /\ d[order[i]] # Nil /\ order[i] \in Int
  BY <1>0 DEF Names, SeqNo
<1>3. ASSUME NEW i \in 1..n PROVE i \in Hits(tables, k) <=> order[i] \in H
  BY <1>0, <1>2 DEF Hits
<1>4. \A m \in H : m \in Names(d)
  BY DEF Names
<1> HIDE DEF H
<1>5. CASE H = {}
  <2>1. Hits(tables, k) = {}
    <3> SUFFICES ASSUME NEW i \in Hits(tables, k) PROVE FALSE
      OBVIOUS
    <3>1. i \in 1..n
      BY <1>0 DEF Hits
    <3> QED BY <1>3, <1>5, <3>1
  <2> QED BY <1>0, <1>1, <1>5, <2>1, TableLookupIs
<1>6. CASE H # {}
  <2>1. PICK m \in H : (\A j \in H : j <= m) /\ DirLookup(d, k) = d[m].data[k]
    BY <1>1, <1>6
  <2>2. PICK i \in 1..n : order[i] = m
    BY <1>0, <1>4
  <2>3. i \in Hits(tables, k)
    BY <1>3, <2>2
  <2>4. ASSUME NEW j \in Hits(tables, k) PROVE i <= j
    <3>1. j \in 1..n
      BY <1>0 DEF Hits
    <3>2. order[j] <= order[i]
      BY <1>3, <2>1, <2>2, <3>1
    <3>3. order[i] \in Int /\ order[j] \in Int
      BY <1>2, <3>1
    <3>4. ~(j < i)
      <4> SUFFICES ASSUME j < i PROVE FALSE
        OBVIOUS
      <4>1. order[j] > order[i]
        BY <1>0, <3>1
      <4> QED BY <3>2, <3>3, <4>1
    <3> QED BY <3>1, <3>4
  <2>5. TableLookup(tables, k) = tables[i].data[k]
    BY <1>0, <2>3, <2>4, TableLookupFirst
  <2> QED BY <1>0, <2>1, <2>2, <2>5
<1> QED BY <1>5, <1>6

\* The constructor: tables by their names, then the log.
LEMMA RestartReads ==
  ASSUME IInv, RInv, IInv', Restart
  PROVE  RInv'
<1>1. /\ pc = "down" /\ pc' = "serve" /\ memtable' = Replayed(log)
      /\ UNCHANGED <<dir, now, hist, wiping>>
  BY DEF Restart, Goto, histVars
<1>2. PICK order \in NewestFirst(Names(dir)) :
        sstables' = [i \in DOMAIN order |-> [seq |-> order[i], data |-> dir[order[i]].data]]
  BY DEF Restart
<1>3. PICK n \in Nat : /\ order \in [1..n -> Names(dir)]
                       /\ \A i, j \in 1..n : i < j => order[i] > order[j]
                       /\ \A m \in Names(dir) : \E i \in 1..n : order[i] = m
  BY NewestFirstIs
<1>4. sstables' = [i \in 1..n |-> [seq |-> order[i], data |-> dir[order[i]].data]]
  BY <1>2, <1>3
<1>5. Len(sstables') = n
  <2>1. sstables' \in Seq(Table)
    BY DEF IInv, TypeOK
  <2>2. DOMAIN sstables' = 1..n
    BY <1>4
  <2> QED BY <1>3, <2>1, <2>2
<1>6. \A i \in 1..n : sstables'[i].data = dir[order[i]].data
  BY <1>4
<1>7. \A k \in Keys : TableLookup(sstables', k) = DirLookup(dir, k)
  <2>1. Opened(sstables', dir, order)
    BY <1>3, <1>5, <1>6 DEF Opened
  <2> QED BY <2>1, OpenedReads
<1>8. RestartView(log, dir) = Last(hist)
  BY <1>1 DEF RInv, Serves
<1>9. \A k \in Keys : Seen(Lookup(memtable', sstables', k), now) = Last(hist)[k]
  <2> SUFFICES ASSUME NEW k \in Keys
               PROVE  Seen(Lookup(memtable', sstables', k), now) = Last(hist)[k]
    OBVIOUS
  <2>1. Last(hist)[k] = Seen(IF Replayed(log)[k] # Nil THEN Replayed(log)[k]
                             ELSE DirLookup(dir, k), now)
    BY <1>8 DEF RestartView
  <2>2. Lookup(memtable', sstables', k) = IF Replayed(log)[k] # Nil THEN Replayed(log)[k]
                                          ELSE DirLookup(dir, k)
    BY <1>1, <1>7 DEF Lookup
  <2> QED BY <2>1, <2>2
<1>10. ServedBy(sstables)'
  BY <1>1, <1>9 DEF ServedBy, Last
<1> QED BY <1>1, <1>10
     DEF RInv, Serves, Flushing, Merging, Apart, Running, LoopSteps, FlushSteps, MergeSteps, WipeSteps
\* What answers alike now answers alike later.
LEMMA LaterAlike ==
  ASSUME NEW e \in Entry \cup {Nil}, NEW f \in Entry \cup {Nil}, NEW t \in Int,
         Seen(e, t) = Seen(f, t)
  PROVE  Seen(e, t + 1) = Seen(f, t + 1)
<1>1. Seen(Seen(e, t), t + 1) = Seen(e, t + 1)
  BY SeenLater
<1>2. Seen(Seen(f, t), t + 1) = Seen(f, t + 1)
  BY SeenLater, ZenonT(30)
<1> QED BY <1>1, <1>2

\* A vector of tables, one that has one of them in place of a run included.
Vector(tables) == Len(tables) \in Nat /\ \A i \in 1..Len(tables) : tables[i].data \in Layer

\* Putting a table in place of a run gives a vector.
LEMMA VectorWith ==
  ASSUME TypeOK, NEW m \in AnyTable, NEW at \in 1..(Len(sstables) + 1),
         NEW last \in (at - 1)..Len(sstables)
  PROVE  Vector(Replaced(sstables, at, last, m))
<1>1. sstables \in Seq(AnyTable)
  BY VectorIs
<1> DEFINE q == Replaced(sstables, at, last, m)
<1>2. q \in Seq(AnyTable)
  BY <1>1, ReplacedIs, Zenon DEF Spliced
<1> HIDE DEF q
<1>3. Len(q) \in Nat /\ \A i \in 1..Len(q) : q[i] \in AnyTable
  BY <1>2, SeqIs, ElementIs
<1> QED BY <1>3 DEF Vector, AnyTable, q

\* As time passes a vector keeps serving what it served.
LEMMA StillServes ==
  ASSUME TypeOK, NEW tables, Vector(tables), ServedBy(tables), NEW k \in Keys
  PROVE  LET e == Seen(Lookup(memtable, tables, k), now + 1)
         IN  e = Seen(Last(hist)[k], now + 1) \/ (wiping /\ e = Nil)
<1>1. PICK f \in Entry \cup {Nil} : f = Lookup(memtable, tables, k)
  <2>1. TableLookup(tables, k) \in Entry \cup {Nil}
    BY TableLookupType DEF Vector
  <2>2. memtable[k] \in Entry \cup {Nil}
    BY DEF TypeOK, Layer
  <2> QED BY <2>1, <2>2 DEF Lookup
<1>2. now \in Int
  BY DEF TypeOK
<1>3. Seen(Seen(f, now), now + 1) = Seen(f, now + 1)
  BY <1>2, SeenLater
<1>4. Seen(f, now) = Last(hist)[k] \/ (wiping /\ Seen(f, now) = Nil)
  BY <1>1 DEF ServedBy
<1>5. Seen(Nil, now + 1) = Nil
  BY DEF Seen
<1> QED BY <1>1, <1>3, <1>4, <1>5

\* Vectors that read alike go on doing so.
LEMMA StillSame ==
  ASSUME TypeOK, NEW t1, Vector(t1), NEW t2, Vector(t2), SameReads(t1, t2), NEW k \in Keys
  PROVE  Seen(TableLookup(t1, k), now + 1) = Seen(TableLookup(t2, k), now + 1)
<1>1. TableLookup(t1, k) \in Entry \cup {Nil} /\ TableLookup(t2, k) \in Entry \cup {Nil}
  BY TableLookupType DEF Vector
<1>2. now \in Int
  BY DEF TypeOK
<1>3. Seen(TableLookup(t1, k), now) = Seen(TableLookup(t2, k), now)
  BY DEF SameReads
<1> QED BY <1>1, <1>2, <1>3, LaterAlike

\* The same of what a restart would serve.
LEMMA StillRestarts ==
  ASSUME TypeOK
  PROVE  \A k \in Keys :
           Seen(RestartView(log, dir)[k], now + 1)
             = Seen(IF Replayed(log)[k] # Nil THEN Replayed(log)[k] ELSE DirLookup(dir, k), now + 1)
<1> SUFFICES ASSUME NEW k \in Keys
             PROVE  Seen(RestartView(log, dir)[k], now + 1)
                      = Seen(IF Replayed(log)[k] # Nil THEN Replayed(log)[k]
                             ELSE DirLookup(dir, k), now + 1)
  OBVIOUS
<1>1. PICK f \in Entry \cup {Nil} :
        f = IF Replayed(log)[k] # Nil THEN Replayed(log)[k] ELSE DirLookup(dir, k)
  <2>1. Replayed(log) \in Layer
    BY ReplayedType DEF TypeOK, WalTypeOK, LogItem
  <2>2. DirLookup(dir, k) \in Entry \cup {Nil}
    BY DirLookupType DEF TypeOK
  <2> QED BY <2>1, <2>2 DEF Layer
<1>2. now \in Int
  BY DEF TypeOK
<1>3. Seen(Seen(f, now), now + 1) = Seen(f, now + 1)
  BY <1>2, SeenLater
<1>4. RestartView(log, dir)[k] = Seen(f, now)
  BY <1>1 DEF RestartView
<1> QED BY <1>1, <1>3, <1>4

\* Time passes.
LEMMA TickReads ==
  ASSUME IInv, RInv, Tick
  PROVE  RInv'
<1>1. /\ now' = now + 1
      /\ UNCHANGED <<log, memtable, sstables, next_sequence, dir, tmp, pc, job, wiping>>
  BY DEF Tick, walVars, memVars, diskVars
<1>2. TypeOK /\ LocalsStillHold
  BY DEF IInv
<1>3. Last(hist)' = [k \in Keys |-> Seen(Last(hist)[k], now + 1)]
  <2>1. hist \in Seq(Db) /\ Len(hist) \in 1..Len(hist) /\ DOMAIN hist = 1..Len(hist)
    BY <1>2, EmptyIs DEF TypeOK
  <2>2. hist' = [i \in 1..Len(hist) |-> [k \in Keys |-> Seen(hist[i][k], now + 1)]]
    BY <2>1 DEF Tick
  <2>3. Len(hist') = Len(hist)
    BY <2>1, <2>2
  <2>4. Last(hist)' = [k \in Keys |-> Seen(hist[Len(hist)][k], now + 1)]
    BY <2>1, <2>2, <2>3 DEF Last
  <2> QED BY <2>4 DEF Last
<1>4. Vector(sstables)
  <2>1. sstables \in Seq(AnyTable)
    BY <1>2, VectorIs
  <2>2. Len(sstables) \in Nat /\ \A i \in 1..Len(sstables) : sstables[i] \in AnyTable
    BY <2>1, SeqIs, ElementIs
  <2> QED BY <2>2 DEF Vector, AnyTable
<1>5. Len(sstables) \in Nat
  BY <1>4 DEF Vector
<1>6. Serves'
  <2>1. ASSUME pc \in Running \ Apart PROVE ServedBy(sstables)'
    <3>1. ServedBy(sstables)
      BY <2>1 DEF RInv, Serves
    <3>2. ASSUME NEW k \in Keys
          PROVE  LET e == Seen(Lookup(memtable, sstables, k), now + 1)
                 IN  e = Seen(Last(hist)[k], now + 1) \/ (wiping /\ e = Nil)
      BY <1>2, <1>4, <3>1, StillServes
    <3> QED BY <1>1, <1>3, <3>2 DEF ServedBy
  <2>2. ASSUME pc \in Apart PROVE ServedBy(Replaced(sstables, job.at, job.at - 1, OnDisk))'
    <3>1. PICK m : m = OnDisk
      OBVIOUS
    <3>2. PICK tables : tables = Replaced(sstables, job.at, job.at - 1, m)
      OBVIOUS
    <3>3. ServedBy(tables)
      BY <2>2, <3>1, <3>2 DEF RInv, Serves
    <3>4. m \in AnyTable
      BY <1>2, <2>2, <3>1, OnDiskType DEF Apart
    <3>5. job.at \in 1..(Len(sstables) + 1) /\ job.at - 1 \in (job.at - 1)..Len(sstables)
      <4>1. job.at \in 1..(Len(sstables) + 1)
        BY <1>2, <2>2, Zenon DEF LocalsStillHold, Apart
      <4> QED BY <1>5, <4>1
    <3>6. Vector(tables)
      BY <1>2, <3>2, <3>4, <3>5, VectorWith
    <3>7. ASSUME NEW k \in Keys
          PROVE  LET e == Seen(Lookup(memtable, tables, k), now + 1)
                 IN  e = Seen(Last(hist)[k], now + 1) \/ (wiping /\ e = Nil)
      BY <1>2, <3>3, <3>6, StillServes
    <3>8. Replaced(sstables, job.at, job.at - 1, OnDisk)' = tables
      <4>1. OnDisk' = m
        BY <1>1, <3>1 DEF OnDisk
      <4> QED BY <1>1, <3>2, <4>1
    <3> QED BY <1>1, <1>3, <3>7, <3>8 DEF ServedBy
  <2>3. ASSUME pc = "down" PROVE RestartView(log, dir)' = Last(hist)'
    <3>1. RestartView(log, dir) = Last(hist)
      BY <2>3 DEF RInv, Serves
    <3>2. \A k \in Keys : (RestartView(log, dir)')[k] = (Last(hist)')[k]
      BY <1>1, <1>2, <1>3, <3>1, StillRestarts DEF RestartView
    <3>3. RestartView(log, dir)' = [k \in Keys |-> (RestartView(log, dir)')[k]]
      BY DEF RestartView
    <3>4. Last(hist)' = [k \in Keys |-> (Last(hist)')[k]]
      BY <1>3
    <3> QED BY <3>2, <3>3, <3>4
  <2> QED BY <1>1, <2>1, <2>2, <2>3 DEF Serves
<1>7. Flushing'
  BY <1>1 DEF RInv, Flushing
<1>8. Merging'
  <2>1. ASSUME pc \in {"merge_write", "merge_rename", "merge_sync"}, NEW m \in AnyTable,
               SameReads(Replaced(sstables, job.at, job.at + Len(job.paths), m), sstables)
        PROVE  \A k \in Keys :
                 Seen(TableLookup(Replaced(sstables, job.at, job.at + Len(job.paths), m), k), now + 1)
                   = Seen(TableLookup(sstables, k), now + 1)
    <3>1. PICK tables : tables = Replaced(sstables, job.at, job.at + Len(job.paths), m)
      OBVIOUS
    <3>2. /\ job.at \in 1..(Len(sstables) + 1)
          /\ job.at + Len(job.paths) \in (job.at - 1)..Len(sstables)
      <4>1. Len(job.paths) \in Nat
        BY <1>2, SeqIs DEF TypeOK, Job
      <4>2. job.at \in 1..Len(sstables) /\ job.at + Len(job.paths) <= Len(sstables)
        BY <1>2, <2>1, Zenon DEF LocalsStillHold
      <4> QED BY <1>5, <4>1, <4>2
    <3>3. Vector(tables)
      BY <1>2, <3>1, <3>2, VectorWith
    <3> QED BY <1>2, <1>4, <2>1, <3>1, <3>3, StillSame
  <2>2. ASSUME pc \in {"merge_write", "merge_rename", "merge_sync"} PROVE job.target \in Nat
    BY <1>2, <2>2 DEF LocalsStillHold, MergeSteps, SeqNo
  <2>3. ASSUME pc \in {"merge_write", "merge_rename"}
        PROVE  SameReads(Replaced(sstables, job.at, job.at + Len(job.paths), InTmp), sstables)'
    <3>1. InTmp \in AnyTable
      BY <1>2, <2>2, <2>3 DEF InTmp, AnyTable, LocalsStillHold, TypeOK, File
    <3>2. PICK m \in AnyTable : m = InTmp
      BY <3>1
    <3>3. SameReads(Replaced(sstables, job.at, job.at + Len(job.paths), m), sstables)
      BY <2>3, <3>2 DEF RInv, Merging
    <3>4. InTmp' = m
      BY <1>1, <3>2 DEF InTmp
    <3> QED BY <1>1, <2>1, <2>3, <3>3, <3>4 DEF SameReads
  <2>4. ASSUME pc = "merge_sync"
        PROVE  SameReads(Replaced(sstables, job.at, job.at + Len(job.paths), OnDisk), sstables)'
    <3>1. OnDisk \in AnyTable
      BY <1>2, <2>4, OnDiskType
    <3>2. PICK m \in AnyTable : m = OnDisk
      BY <3>1
    <3>3. SameReads(Replaced(sstables, job.at, job.at + Len(job.paths), m), sstables)
      BY <2>4, <3>2 DEF RInv, Merging
    <3>4. OnDisk' = m
      BY <1>1, <3>2 DEF OnDisk
    <3> QED BY <1>1, <2>1, <2>4, <3>3, <3>4 DEF SameReads
  <2> QED BY <1>1, <2>3, <2>4 DEF Merging
<1> QED BY <1>6, <1>7, <1>8 DEF RInv

-----------------------------------------------------------------------------
(* Every step *)

\* A store on an empty directory.
LEMMA InitReads == Init => RInv
<1> SUFFICES ASSUME Init PROVE RInv
  OBVIOUS
<1>1. pc = "serve" /\ Len(sstables) = 0 /\ memtable = EmptyLayer /\ Last(hist) = EmptyLayer
  BY DEF Init, Last
<1>2. ASSUME NEW k \in Keys PROVE Seen(Lookup(memtable, sstables, k), now) = Last(hist)[k]
  <2>1. Hits(sstables, k) = {}
    BY <1>1 DEF Hits
  <2>2. TableLookup(sstables, k) = Nil
    BY <1>1, <2>1, TableLookupIs
  <2> QED BY <1>1, <2>2 DEF Lookup, Seen, EmptyLayer
<1>3. ServedBy(sstables)
  BY <1>2 DEF ServedBy
<1> QED BY <1>1, <1>3, Zenon
     DEF RInv, Serves, Flushing, Merging, Apart, Running, LoopSteps, FlushSteps, MergeSteps, WipeSteps

\* Every step.
LEMMA NextReads == IInv /\ RInv /\ [Next]_vars => RInv'
<1> SUFFICES ASSUME IInv, RInv, [Next]_vars PROVE RInv'
  OBVIOUS
<1>1. IInv'
  BY NextKeeps
<1>2. CASE Command
  BY <1>1, <1>2, CommandReads
<1>3. CASE Flush
  BY <1>1, <1>3, FlushReads
<1>4. CASE EndBatch \/ LoopAgain
  BY <1>4, LoopReads
<1>5. CASE SweepExpired
  BY <1>1, <1>5, SweepReads
<1>6. CASE Compaction
  BY <1>1, <1>6, CompactionReads
<1>7. CASE Wipe
  BY <1>1, <1>7, WipeReads
<1>8. CASE EndBatchFails \/ Kill \/ Shutdown
  BY <1>8, DeathReads DEF EndBatchFails, Kill, Shutdown, ProcessDies
<1>9. CASE PowerLoss
  BY <1>1, <1>9, PowerLossReads
<1>10. CASE Restart
  BY <1>1, <1>10, RestartReads
<1>11. CASE Tick
  BY <1>11, TickReads
<1>12. CASE UNCHANGED vars
  <2>1. UNCHANGED <<log, memtable, sstables, next_sequence, dir, tmp, pc, job, now, hist, wiping>>
    BY <1>12 DEF vars, walVars, memVars, diskVars, histVars
  <2> QED BY <2>1, ZenonT(30) DEF RInv, Serves, Flushing, Merging, ServedBy, SameReads, OnDisk, InTmp,
                      RestartView, Last
<1> QED BY <1>2, <1>3, <1>4, <1>5, <1>6, <1>7, <1>8, <1>9, <1>10, <1>11, <1>12 DEF Next, Loop

\* Every read the event loop serves answers with the last write executed, for
\* every key and whatever flushes, merges, sweeps, failed calls, kills, power
\* cuts, restarts and expiries came between (Store::lookup).
THEOREM ReadsServeLatest == Spec => []ServesLatest
<1>1. RInv => ServesLatest
  BY DEF RInv, Serves, ServedBy, ServesLatest, Get, Apart, Running, LoopSteps
<1> QED BY <1>1, IInvAlways, InitReads, NextReads, PTL DEF Spec

=============================================================================
