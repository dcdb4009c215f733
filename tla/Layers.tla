------------------------------- MODULE Layers -------------------------------
(***************************************************************************)
(* The data of the storage engine and the pure functions on it: what an    *)
(* entry is, what a layer (memtable or SSTable) says about a key, what a   *)
(* layered read answers, what a merge writes and what replaying a log      *)
(* rebuilds.  Keys and values are opaque; a layer is a total function from *)
(* keys, with Nil where the layer says nothing (Memtable::find returning   *)
(* nullptr, Sstable::Lookup with found = false).                           *)
(***************************************************************************)
EXTENDS Integers, Sequences, FiniteSets

CONSTANTS
  Keys,     \* the keys clients name
  Values,   \* the values clients store
  Stamps,   \* absolute expiry times a client may give; 0 is "never"
  Nil,      \* "nothing here"
  Torn      \* bytes in the log that do not decode as a record

Entry == [value         : Values \cup {Nil},
          tombstone     : BOOLEAN,
          expires_at_ms : Stamps]

\* One log record: a kSet or kDelete for a key, with the entry it leaves in
\* the memtable when it is applied.
Record == [key : Keys, entry : Entry]

ASSUME LayersAssumption ==
  /\ Stamps \subseteq Int
  /\ 0 \in Stamps
  /\ Nil \notin Entry
  /\ Nil \notin Values
  /\ Torn \notin Record

Live(v, at) == [value |-> v, tombstone |-> FALSE, expires_at_ms |-> at]

TombstoneDated == [value |-> Nil, tombstone |-> TRUE, expires_at_ms |-> 1]

Tombstone == [value |-> Nil, tombstone |-> TRUE, expires_at_ms |-> 0]

Layer == [Keys -> Entry \cup {Nil}]

EmptyLayer == [k \in Keys |-> Nil]

-----------------------------------------------------------------------------
(* Reading *)

Expired(at, now) == at # 0 /\ at <= now

\* What a client sees of an entry: nothing at all once it is a tombstone or
\* its stamp has passed.
Seen(e, now) ==
  IF e = Nil \/ e.tombstone \/ Expired(e.expires_at_ms, now) THEN Nil ELSE e

\* The first table, in vector order, with anything to say settles the key.
TableLookup(tables, k) ==
  LET hits == {i \in 1..Len(tables) : tables[i].data[k] # Nil}
  IN  IF hits = {} THEN Nil
      ELSE tables[CHOOSE i \in hits : \A j \in hits : i <= j].data[k]

\* Memtable first; an entry there ends the search, whatever it is.
Lookup(memtable, tables, k) ==
  IF memtable[k] # Nil THEN memtable[k] ELSE TableLookup(tables, k)

-----------------------------------------------------------------------------
(* Compaction *)

MergedDroppingAlways(run, drop_obsolete, now) ==
  [k \in Keys |-> IF Seen(TableLookup(run, k), now) = Nil
                  THEN Nil ELSE TableLookup(run, k)]

\* One pass over the inputs, newest first: the newest version of every key,
\* minus the dead ones when nothing older is left for them to hide.
Merged(run, drop_obsolete, now) ==
  [k \in Keys |-> IF drop_obsolete /\ Seen(TableLookup(run, k), now) = Nil
                  THEN Nil ELSE TableLookup(run, k)]

-----------------------------------------------------------------------------
(* Recovery *)

\* The records replay applies to key k: those before the first damaged one.
Replayable(log, k) ==
  {i \in 1..Len(log) : (\A j \in 1..i : log[j] # Torn) /\ log[i].key = k}

\* Applying records in order leaves, for each key, what its last one says.
Replayed(log) ==
  [k \in Keys |->
     IF Replayable(log, k) = {} THEN Nil
     ELSE log[CHOOSE i \in Replayable(log, k) :
                \A j \in Replayable(log, k) : j <= i].entry]

\* The intact prefix replay leaves in the file.
Intact(log) ==
  LET good == {n \in 0..Len(log) : \A j \in 1..n : log[j] # Torn}
  IN  SubSeq(log, 1, CHOOSE n \in good : \A m \in good : m <= n)

=============================================================================
