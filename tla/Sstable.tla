------------------------------- MODULE Sstable ------------------------------
(***************************************************************************)
(* SSTables as files: the writer's one pass over sorted keys, the sparse   *)
(* index and the filter it leaves, the lookup through them (sstable.cpp),  *)
(* and the merge of several tables through windowed cursors and a heap     *)
(* (compaction.cpp), a write or a read failing at any point.  Offsets and  *)
(* sizes are bytes; an entry's bytes are the entry.  Layers.tla takes a    *)
(* table for a function from keys; this module says why it may.            *)
(***************************************************************************)
EXTENDS Layers, Bloom

CONSTANTS
  Inputs,           \* the sequences of layers, newest first, to be merged
  ValueSize,        \* bytes of each value
  HeaderSize,       \* bytes of klen, vlen and flags
  KeySize,
  StampSize,        \* bytes of an expiry, where there is one
  kIndexInterval,
  kCursorWindow,
  bits_per_key,
  Now               \* now_ms when the merge starts

ASSUME SstableAssumption ==
  /\ Keys \subseteq Nat
  /\ Keys \subseteq DOMAIN probe_for
  /\ Inputs \subseteq Seq(Layer)
  /\ ValueSize \in [Values -> Nat]
  /\ {HeaderSize, KeySize, StampSize, kIndexInterval, kCursorWindow} \subseteq Nat \ {0}
  /\ bits_per_key \in Int /\ Now \in Int

VARIABLES
  run,            \* the layers the inputs were flushed from (Inputs)
  tables,         \* the inputs
  drop_obsolete,
  pc,             \* "start", "merge", then "done" (ok) or "refused"
  cursors,
  writer,
  previous,       \* the last key that came out of the heap, or Nil
  written, dropped

vars == <<run, tables, drop_obsolete, pc, cursors, writer, previous, written, dropped>>

-----------------------------------------------------------------------------
(* SstableWriter *)

SizeOf(e) ==
  HeaderSize + KeySize
    + (IF e.expires_at_ms # 0 THEN StampSize ELSE 0)
    + (IF e.value = Nil THEN 0 ELSE ValueSize[e.value])

\* data is what the data block holds; its keys are bloom_keys_.
NewWriter == [data |-> <<>>, index |-> <<>>, offset |-> 0, since |-> 0, failed |-> FALSE]

Stored(e) == IF e.tombstone THEN [e EXCEPT !.expires_at_ms = 0] ELSE e

NeedsIndex(w) == w.index = <<>> \/ w.since >= kIndexInterval

\* The index entry, where one is due, points at where this entry begins.
IndexFor(w, k) ==
  IF NeedsIndex(w)
  THEN [w EXCEPT !.index = Append(@, [key |-> k, offset |-> w.offset]), !.since = 0]
  ELSE w

add(w, k, e) ==
  LET size    == SizeOf(Stored(e))
      indexed == IndexFor(w, k)
  IN  [indexed EXCEPT
         !.data   = Append(@, [key |-> k, entry |-> Stored(e), at |-> w.offset, size |-> size]),
         !.offset = @ + size,
         !.since  = @ + size]

AddOutcomes(w, k, e) ==
  IF w.failed THEN {w}
  ELSE {add(w, k, e), [IndexFor(w, k) EXCEPT !.failed = TRUE]}

KeysOf(data) == {data[i].key : i \in 1..Len(data)}

\* The file a successful finish() leaves.
finish(w) ==
  [data |-> w.data, index |-> w.index, data_end |-> w.offset,
   filter |-> build(KeysOf(w.data), bits_per_key)]

\* The keys of a layer in order, as the memtable iterates them.
Sorted(l) ==
  LET held == {k \in Keys : l[k] # Nil}
  IN  [i \in 1..Cardinality(held) |->
         CHOOSE k \in held : Cardinality({j \in held : j <= k}) = i]

\* The writer after the first n keys of a layer were added to it.
Flushing(l) ==
  LET keys == Sorted(l)
      upto[n \in 0..Len(keys)] ==
        IF n = 0 THEN NewWriter ELSE add(upto[n - 1], keys[n], l[keys[n]])
  IN  upto[Len(keys)]

Flushed(l) == finish(Flushing(l))

-----------------------------------------------------------------------------
(* Sstable::get *)

Last(S) == CHOOSE i \in S : \A j \in S : j <= i
First(S) == CHOOSE i \in S : \A j \in S : i <= j

NoSlot == 0

\* The last index entry whose key is not above k.
Slot(t, k) ==
  LET upto == {i \in 1..Len(t.index) : t.index[i].key <= k}
  IN  IF upto = {} THEN NoSlot ELSE Last(upto)

BlockFrom(t, slot) == t.index[slot].offset
BlockTo(t, slot) == IF slot < Len(t.index) THEN t.index[slot + 1].offset ELSE t.data_end

\* Entries in the block, in file order, up to the first not below k.
ScanBlock(t, slot, k) ==
  LET stop == {i \in 1..Len(t.data) : /\ BlockFrom(t, slot) <= t.data[i].at
                                      /\ t.data[i].at + t.data[i].size <= BlockTo(t, slot)
                                      /\ t.data[i].key >= k}
  IN  IF stop = {} \/ t.data[First(stop)].key # k THEN Nil ELSE t.data[First(stop)].entry

Get(t, k) ==
  IF ~may_contain(t.filter, k) \/ Slot(t, k) = NoSlot THEN Nil
  ELSE ScanBlock(t, Slot(t, k), k)

-----------------------------------------------------------------------------
(* Sstable::Cursor *)

\* head is the entry the cursor stands on, Nil when it is not valid.
NewCursor == [pos |-> 0, buf_start |-> 0, buf_len |-> 0, head |-> Nil, failed |-> FALSE]

StartsInWindow(c, need) == c.pos >= c.buf_start /\ c.pos - c.buf_start <= c.buf_len

InWindow(c, need) == c.pos >= c.buf_start /\ c.pos - c.buf_start + need <= c.buf_len

\* ensure(need): the cursors it may leave, and what it returned.
Ensured(t, c, need) ==
  LET remaining == t.data_end - c.pos
      least     == IF need > kCursorWindow THEN need ELSE kCursorWindow
      want      == IF remaining < least THEN remaining ELSE least
  IN  IF InWindow(c, need) THEN {[ok |-> TRUE, c |-> c]}
      ELSE IF c.pos + need > t.data_end THEN {[ok |-> FALSE, c |-> c]}
      ELSE {[ok |-> TRUE,  c |-> [c EXCEPT !.buf_start = c.pos, !.buf_len = want]],
            [ok |-> FALSE, c |-> [c EXCEPT !.failed = TRUE]]}

EntryAt(t, pos) == t.data[CHOOSE i \in 1..Len(t.data) : t.data[i].at = pos]

\* load(): the cursors it may leave.
Loaded(t, c) ==
  LET off == [c EXCEPT !.head = Nil]
  IN  IF c.failed \/ c.pos >= t.data_end THEN {off}
      ELSE LET d    == EntryAt(t, c.pos)
               body == UNION {IF h.ok THEN Ensured(t, h.c, d.size) ELSE {h} :
                                h \in Ensured(t, off, HeaderSize)}
           IN  {IF r.ok THEN [r.c EXCEPT !.head = d, !.pos = @ + d.size] ELSE r.c : r \in body}

-----------------------------------------------------------------------------
(* compact *)

Init ==
  /\ run \in Inputs
  /\ tables = [i \in 1..Len(run) |-> Flushed(run[i])]
  /\ drop_obsolete \in BOOLEAN
  /\ pc = "start"
  /\ cursors = [i \in 1..Len(run) |-> NewCursor]
  /\ writer = NewWriter
  /\ previous = Nil
  /\ written = 0 /\ dropped = 0

\* Every cursor reads its first entry; one that cannot ends the merge.
Start ==
  /\ pc = "start"
  /\ \E cs \in [1..Len(run) -> UNION {Loaded(tables[i], cursors[i]) : i \in 1..Len(run)}] :
       /\ \A i \in 1..Len(run) : cs[i] \in Loaded(tables[i], cursors[i])
       /\ cursors' = cs
       /\ pc' = IF \E i \in 1..Len(run) : cs[i].failed THEN "refused" ELSE "merge"
  /\ UNCHANGED <<run, tables, drop_obsolete, writer, previous, written, dropped>>

Heap == {i \in 1..Len(run) : cursors[i].head # Nil}

TopOldestFirst ==
  CHOOSE i \in Heap : \A j \in Heap :
    \/ cursors[i].head.key < cursors[j].head.key
    \/ cursors[i].head.key = cursors[j].head.key /\ i >= j

\* Smallest key, ties to the newest input.
Top ==
  CHOOSE i \in Heap : \A j \in Heap :
    \/ cursors[i].head.key < cursors[j].head.key
    \/ cursors[i].head.key = cursors[j].head.key /\ i <= j

\* Whether the entry on top goes no further.
Obsolete(e) == drop_obsolete /\ (e.tombstone \/ Expired(e.expires_at_ms, Now))

PopEmitting(d) ==
  /\ writer' \in AddOutcomes(writer, d.key, d.entry)
  /\ written' = written + 1
  /\ previous' = d.key
  /\ UNCHANGED dropped

PopDropping(d) ==
  /\ dropped' = dropped + 1
  /\ previous' = d.key
  /\ UNCHANGED <<writer, written>>

RefusedIgnored(failed) == "merge"

\* A read error ends the merge without a table.
AfterNext(failed) == IF failed THEN "refused" ELSE "merge"

Pop ==
  /\ pc = "merge" /\ Heap # {}
  /\ LET d == cursors[Top].head
     IN  IF previous = d.key \/ Obsolete(d.entry) THEN PopDropping(d) ELSE PopEmitting(d)
  /\ \E c \in Loaded(tables[Top], cursors[Top]) :
       /\ cursors' = [cursors EXCEPT ![Top] = c]
       /\ pc' = AfterNext(c.failed)
  /\ UNCHANGED <<run, tables, drop_obsolete>>

\* finish(): index, filter and footer are written and the file forced down.
Finish ==
  /\ pc = "merge" /\ Heap = {}
  /\ pc' \in IF writer.failed THEN {"refused"} ELSE {"done", "refused"}
  /\ UNCHANGED <<run, tables, drop_obsolete, cursors, writer, previous, written, dropped>>

Next == Start \/ Pop \/ Finish

Spec == Init /\ [][Next]_vars

-----------------------------------------------------------------------------
(* Properties *)

\* A lookup through filter, index and block finds in a table exactly what the
\* layer it was flushed from says of every key, absence included.
LookupExact ==
  pc = "start" => \A i \in 1..Len(run) : \A k \in Keys : Get(tables[i], k) = run[i][k]

\* A merge that succeeds leaves a table in which every key reads as the
\* newest version the inputs have of it, the dead ones gone only when nothing
\* older is left for them to hide (the heap's order, superseded, drop_obsolete).
MergeExact ==
  pc = "done" =>
    \A k \in Keys :
      Get(finish(writer), k)
        = Merged([i \in 1..Len(run) |-> [data |-> run[i]]], drop_obsolete, Now)[k]

\* A merge succeeds only if it read every entry of every input and wrote all
\* it kept: a read or write error anywhere refuses the table rather than
\* shortening it.
NothingSkipped ==
  pc = "done" =>
    /\ \A i \in 1..Len(run) : cursors[i].pos = tables[i].data_end
    /\ written = Len(writer.data)
    /\ written + dropped
         = Cardinality({<<i, k>> \in (1..Len(run)) \X Keys : run[i][k] # Nil})

\* What a cursor hands out lay wholly inside its window when it was decoded,
\* however the entries straddle windows (Cursor::ensure, called twice).
WindowCoversEntry ==
  \A i \in 1..Len(run) :
    LET c == cursors[i] IN
    c.head # Nil => c.buf_start <= c.head.at /\ c.head.at + c.head.size <= c.buf_start + c.buf_len

=============================================================================
