--------------------------- MODULE MemtableProofs ---------------------------
(***************************************************************************)
(* The live count of the memtable is exact for every set of keys, lengths, *)
(* stamps and every sweep budget.  The types make the count inductive.     *)
(***************************************************************************)
EXTENDS Memtable, FiniteSetTheorems, TLAPS

\* The part of the types the count rests on.
Entries == entries \in [Keys -> Entry \cup {Nil}]

IInv == Entries /\ live_count = Cardinality(Live)

\* A marker is an entry, and no entry is Nil.
LEMMA TombstoneIs ==
  Tombstone \in Entry /\ Tombstone # Nil /\ Tombstone.tombstone = TRUE
<1>1. Tombstone \in Entry /\ Tombstone.tombstone = TRUE
  BY MemtableAssumption DEF Tombstone, Entry
<1> QED BY <1>1, NilAssumption

\* The live keys are finitely many.
LEMMA LiveFinite == IsFiniteSet(Live) /\ Cardinality(Live) \in Nat
<1>1. IsFiniteSet(Live)
  BY FS_Subset, MemtableAssumption DEF Live, Present
<1> QED BY <1>1, FS_CardinalityType

\* Writing one entry adds its key to the live ones, or takes it out.
LEMMA ReplacedLive ==
  ASSUME Entries, NEW k \in Keys, NEW e \in Entry, entries' = [entries EXCEPT ![k] = e]
  PROVE  /\ Entries'
         /\ Live' = IF e.tombstone THEN Live \ {k} ELSE Live \cup {k}
<1>1. Entries'
  BY DEF Entries
<1>2. e # Nil /\ entries'[k] = e /\ \A j \in Keys \ {k} : entries'[j] = entries[j]
  BY NilAssumption DEF Entries
<1>3. CASE e.tombstone
  BY <1>1, <1>2, <1>3 DEF Live, Present
<1>4. CASE ~e.tombstone
  BY <1>1, <1>2, <1>4 DEF Live, Present
<1> QED BY <1>1, <1>3, <1>4

\* set counts a key that was absent or dead.
LEMMA SetKeeps ==
  ASSUME IInv, NEW k \in Keys, NEW len \in Lengths, NEW at \in Stamps, Set(k, len, at)
  PROVE  IInv'
<1> DEFINE e == [len |-> len, tombstone |-> FALSE, expires_at_ms |-> at]
<1>1. e \in Entry /\ e.tombstone = FALSE
  BY DEF Entry
<1>2. /\ entries' = [entries EXCEPT ![k] = e]
      /\ live_count' = IF k \in Live THEN live_count ELSE live_count + 1
  BY DEF Set, LiveAfterSet
<1> HIDE DEF e
<1>3. Entries' /\ Live' = Live \cup {k}
  BY <1>1, <1>2, ReplacedLive, Zenon DEF IInv
<1>4. Cardinality(Live \cup {k}) = IF k \in Live THEN Cardinality(Live) ELSE Cardinality(Live) + 1
  BY LiveFinite, FS_AddElement, Zenon
<1> QED BY <1>2, <1>3, <1>4 DEF IInv

\* del takes a live key out of the count.
LEMMA DelKeeps ==
  ASSUME IInv, NEW k \in Keys, Del(k)
  PROVE  IInv'
<1>1. /\ entries' = [entries EXCEPT ![k] = Tombstone]
      /\ live_count' = IF k \in Live THEN live_count - 1 ELSE live_count
  BY DEF Del
<1>2. Entries' /\ Live' = Live \ {k}
  BY <1>1, TombstoneIs, ReplacedLive, Zenon DEF IInv
<1>3. Cardinality(Live \ {k}) = IF k \in Live THEN Cardinality(Live) - 1 ELSE Cardinality(Live)
  BY LiveFinite, FS_RemoveElement
<1> QED BY <1>1, <1>2, <1>3 DEF IInv

\* What a sweep marks was live, so the count drops by as many.
LEMMA SweepKeeps ==
  ASSUME IInv, Sweep
  PROVE  IInv'
<1> DEFINE M == Examined \cap Expired
<1>1. /\ entries' = [k \in Keys |-> IF k \in M THEN Tombstone ELSE entries[k]]
      /\ live_count' = live_count - Cardinality(M)
  BY DEF Sweep
<1>2. M \subseteq Live
  BY DEF Expired
<1> HIDE DEF M
<1>3. Entries'
  BY <1>1, TombstoneIs DEF IInv, Entries
<1>4. \A k \in Keys : entries'[k] = IF k \in M THEN Tombstone ELSE entries[k]
  BY <1>1
<1>5. Live' = Live \ M
  BY <1>2, <1>4, TombstoneIs DEF Live, Present
<1>6. Cardinality(Live \ M) = Cardinality(Live) - Cardinality(Live \cap M) /\ Live \cap M = M
  BY <1>2, LiveFinite, FS_Difference
<1> QED BY <1>1, <1>3, <1>5, <1>6 DEF IInv

\* An empty table counts nothing.
LEMMA EmptyKeeps ==
  ASSUME entries = [k \in Keys |-> Nil]
  PROVE  Entries /\ Live = {} /\ Cardinality(Live) = 0
BY FS_EmptySet DEF Entries, Live, Present

\* From the empty table on, every operation keeps the count.
THEOREM CountInvariant == Spec => []IInv
<1>1. Init => IInv
  BY EmptyKeeps DEF Init, IInv
<1>2. IInv /\ [Next]_vars => IInv'
  <2> SUFFICES ASSUME IInv, [Next]_vars PROVE IInv'
    OBVIOUS
  <2>1. CASE \E k \in Keys, len \in Lengths, at \in Stamps : Set(k, len, at)
    BY <2>1, SetKeeps
  <2>2. CASE \E k \in Keys : Del(k)
    BY <2>2, DelKeeps
  <2>3. CASE Sweep
    BY <2>3, SweepKeeps
  <2>4. CASE Clear
    <3>1. entries' = [k \in Keys |-> Nil] /\ live_count' = 0
      BY <2>4 DEF Clear
    <3>2. Entries' /\ Live' = {} /\ Cardinality({}) = 0
      BY <3>1, FS_EmptySet DEF Entries, Live, Present
    <3> QED BY <3>1, <3>2 DEF IInv
  <2>5. CASE Tick \/ UNCHANGED vars
    BY <2>5, Zenon DEF Tick, vars, IInv, Entries, Live, Present
  <2> QED BY <2>1, <2>2, <2>3, <2>4, <2>5 DEF Next
<1> QED BY <1>1, <1>2, PTL DEF Spec

\* The count INFO reports is the number of entries that are not markers, after
\* any sequence of sets, deletes, sweeps and clears.
THEOREM LiveCountIsExact == Spec => []LiveCountExact
<1>1. IInv => LiveCountExact
  BY DEF IInv, LiveCountExact
<1> QED BY <1>1, CountInvariant, PTL

=============================================================================
