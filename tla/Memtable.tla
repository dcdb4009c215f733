------------------------------ MODULE Memtable ------------------------------
(***************************************************************************)
(* The memtable (memtable.cpp) with what Store.tla leaves out of it: the   *)
(* resumable sweep, the live count and the byte estimate that triggers a   *)
(* flush.  Keys are numbers in key order; of a value only its length is    *)
(* kept.  The table is used by one thread, so each method is one action.   *)
(***************************************************************************)
EXTENDS Integers, FiniteSets, FiniteSetsExt

CONSTANTS
  Keys,      \* keys, ordered as std::map orders them, all above 0
  Lengths,   \* lengths of the values stored
  Stamps,    \* expiry stamps; 0 is "never"
  Nil,       \* no entry
  key_len,   \* the length of a key
  budget,    \* entries one sweep may examine
  MaxNow,    \* bound: the last time the clock shows
  MaxBytes   \* bound: the estimate past which no more is written

ASSUME MemtableAssumption ==
  /\ Keys \subseteq Nat \ {0} /\ IsFiniteSet(Keys)
  /\ Lengths \subseteq Nat /\ 0 \in Lengths
  /\ Stamps \subseteq Int /\ 0 \in Stamps
  /\ key_len \in Nat /\ budget \in Nat \ {0}
  /\ MaxNow \in Nat \ {0} /\ MaxBytes \in Nat

VARIABLES
  entries,       \* entries_, Nil where there is none
  sweep_cursor,  \* sweep_cursor_: a key, or 0 for the empty string
  live_count,    \* live_count_
  bytes,         \* bytes_
  now,           \* the wall clock, as Store passes it in
  capacity       \* the length each value's string has room for: capacity()

vars == <<entries, sweep_cursor, live_count, bytes, now, capacity>>

Entry == [len : Lengths, tombstone : BOOLEAN, expires_at_ms : Stamps]

ASSUME NilAssumption == Nil \notin Entry

Tombstone == [len |-> 0, tombstone |-> TRUE, expires_at_ms |-> 0]

Present == {k \in Keys : entries[k] # Nil}
Live    == {k \in Present : ~entries[k].tombstone}
Expired == {k \in Live : entries[k].expires_at_ms # 0 /\ entries[k].expires_at_ms <= now}

kEntryOverhead == 128
kSsoCapacity == 15

Init ==
  /\ entries = [k \in Keys |-> Nil]
  /\ sweep_cursor = 0
  /\ live_count = 0
  /\ bytes = 0
  /\ now = 1
  /\ capacity = [k \in Keys |-> kSsoCapacity]

-----------------------------------------------------------------------------
(* The byte estimate *)

\* Rounded up to the allocator's 16-byte grain, one header on top.
heap_cost(length) ==
  IF length <= kSsoCapacity THEN 0 ELSE ((length + 16) \div 16) * 16 + 16

entry_cost(length) == kEntryOverhead + heap_cost(key_len) + heap_cost(length)

-----------------------------------------------------------------------------
(* The operations *)

LiveAfterSetOverTombstone(k) == IF k \in Present THEN live_count ELSE live_count + 1

\* A key that was absent, or only marked, is one more.
LiveAfterSet(k) == IF k \in Live THEN live_count ELSE live_count + 1

BytesAfterSetRefunding(k, len) ==
  IF k \notin Present THEN bytes + entry_cost(len)
  ELSE bytes + heap_cost(len) - heap_cost(entries[k].len)

\* A new key costs a whole entry, a longer value the difference and a shorter
\* one nothing: assign() never gives a string's capacity back.
BytesAfterSet(k, len) ==
  IF k \notin Present THEN bytes + entry_cost(len)
  ELSE bytes + Max({0, heap_cost(len) - heap_cost(entries[k].len)})

\* What a string has room for: a new one for its bytes, one assigned to for
\* what it had, or at least for twice that when it has to grow.
RoomAfterSet(k, len) ==
  IF k \notin Present THEN Max({kSsoCapacity, len})
  ELSE IF len <= capacity[k] THEN capacity[k]
  ELSE Max({len, 2 * capacity[k]})

Set(k, len, at) ==
  /\ bytes <= MaxBytes
  /\ entries' = [entries EXCEPT ![k] = [len |-> len, tombstone |-> FALSE,
                                        expires_at_ms |-> at]]
  /\ live_count' = LiveAfterSet(k)
  /\ bytes' = BytesAfterSet(k, len)
  /\ capacity' = [capacity EXCEPT ![k] = RoomAfterSet(k, len)]
  /\ UNCHANGED <<sweep_cursor, now>>

\* The tombstone goes in even for a key that is not here, and swaps the
\* value's string away.
Del(k) ==
  /\ bytes <= MaxBytes
  /\ entries' = [entries EXCEPT ![k] = Tombstone]
  /\ live_count' = IF k \in Live THEN live_count - 1 ELSE live_count
  /\ bytes' = IF k \notin Present THEN bytes + entry_cost(0) ELSE bytes
  /\ capacity' = [capacity EXCEPT ![k] = kSsoCapacity]
  /\ UNCHANGED <<sweep_cursor, now>>

\* lower_bound(sweep_cursor_) and what follows it, in key order.
Ahead == {k \in Present : k >= sweep_cursor}
Examined == {k \in Ahead : Cardinality({j \in Ahead : j < k}) < budget}

SweepStallingAtEnd ==
  /\ entries' = [k \in Keys |-> IF k \in Examined \cap Expired THEN Tombstone ELSE entries[k]]
  /\ capacity' = [k \in Keys |-> IF k \in Examined \cap Expired THEN kSsoCapacity ELSE capacity[k]]
  /\ live_count' = live_count - Cardinality(Examined \cap Expired)
  /\ sweep_cursor' = IF Ahead = Examined THEN sweep_cursor ELSE Min(Ahead \ Examined)
  /\ UNCHANGED <<bytes, now>>

\* Expired entries among those examined become tombstones; the cursor moves
\* to the next key, or back to the beginning when the end is reached.
Sweep ==
  /\ entries' = [k \in Keys |-> IF k \in Examined \cap Expired THEN Tombstone ELSE entries[k]]
  /\ capacity' = [k \in Keys |-> IF k \in Examined \cap Expired THEN kSsoCapacity ELSE capacity[k]]
  /\ live_count' = live_count - Cardinality(Examined \cap Expired)
  /\ sweep_cursor' = IF Ahead = Examined THEN 0 ELSE Min(Ahead \ Examined)
  /\ UNCHANGED <<bytes, now>>

\* What a flush and a FLUSHALL end with.
Clear ==
  /\ entries' = [k \in Keys |-> Nil]
  /\ sweep_cursor' = 0
  /\ live_count' = 0
  /\ bytes' = 0
  /\ capacity' = [k \in Keys |-> kSsoCapacity]
  /\ UNCHANGED now

Tick ==
  /\ now < MaxNow
  /\ now' = now + 1
  /\ UNCHANGED <<entries, sweep_cursor, live_count, bytes, capacity>>

Next ==
  \/ \E k \in Keys, len \in Lengths, at \in Stamps : Set(k, len, at)
  \/ \E k \in Keys : Del(k)
  \/ Sweep
  \/ Clear
  \/ Tick

Spec == Init /\ [][Next]_vars

\* Server::run sweeps on every iteration, and iterations never stop coming.
FairSpec == Spec /\ WF_vars(Sweep)

-----------------------------------------------------------------------------
(* Properties *)

\* The count INFO reports follows every set over a tombstone, every repeated
\* delete and every sweep: it is the number of entries that are not markers.
LiveCountExact == live_count = Cardinality(Live)

\* The estimate charges the values at least half of what their strings hold on
\* the heap, whatever they grew, shrank or were emptied to since: a growing
\* string doubles its room and only its new length is charged, but that is all
\* the estimate can fall behind (set, del and sweep_expired never refund).
EstimateAtLeastHalf ==
  MapThenSumSet(LAMBDA k : heap_cost(capacity[k]), Present)
    <= 2 * (bytes - Cardinality(Present) * entry_cost(0))

\* No expired entry is passed over for ever, whatever is written or flushed
\* between two sweeps ("guarantees every key is looked at eventually").
EveryExpiredKeySwept == \A k \in Keys : (k \in Expired) ~> (k \notin Expired)

=============================================================================
