---------------------------- MODULE StoreProofs -----------------------------
(***************************************************************************)
(* The pure functions of Layers return what they should, and replacing a   *)
(* run of tables by its merge changes no read.  Store keeps its types, the *)
(* order of its tables and the locals of the jobs in progress.  All for    *)
(* every set of keys, values and stamps, every sync policy and every       *)
(* choice of faults and crashes.                                           *)
(***************************************************************************)
EXTENDS Store, Positions

-----------------------------------------------------------------------------
(* What the functions return *)

\* What an entry is and what Seen makes of it.
LEMMA EntryTypes ==
  /\ Tombstone \in Entry
  /\ \A v \in Values, at \in Stamps : Live(v, at) \in Entry
  /\ \A t : \A e \in Entry \cup {Nil} : Seen(e, t) \in Entry \cup {Nil}
  /\ \A t : \A e \in Entry \cup {Nil} : Seen(e, t) # Nil => Seen(e, t).value = e.value
  /\ EmptyLayer \in Layer
BY LayersAssumption DEF Tombstone, Live, Seen, Entry, EmptyLayer, Layer

\* The tables that have something to say of a key.
Hits(tables, k) == {i \in 1..Len(tables) : tables[i].data[k] # Nil}

\* A lookup answers with the first of them, and with nothing if there is none.
LEMMA TableLookupIs ==
  ASSUME NEW tables, Len(tables) \in Nat, NEW k
  PROVE  /\ Hits(tables, k) = {} => TableLookup(tables, k) = Nil
         /\ Hits(tables, k) # {} =>
              \E i \in Hits(tables, k) :
                /\ \A j \in Hits(tables, k) : i <= j
                /\ TableLookup(tables, k) = tables[i].data[k]
<1> DEFINE H == Hits(tables, k)
           Least(i) == \A j \in H : i <= j
<1>1. CASE H = {}
  BY <1>1 DEF TableLookup, Hits
<1>2. CASE H # {}
  <2>1. H \in SUBSET (1..Len(tables))
    BY DEF Hits
  <2>2. \E i \in H : Least(i)
    <3> HIDE DEF H
    <3> QED BY <1>2, <2>1, IntervalMin, Zenon
  <2>3. TableLookup(tables, k) = tables[CHOOSE i \in H : Least(i)].data[k]
    BY <1>2 DEF TableLookup, Hits
  <2> HIDE DEF H
  <2>4. (CHOOSE i \in H : Least(i)) \in H /\ Least(CHOOSE i \in H : Least(i))
    BY <2>2
  <2> QED BY <1>2, <2>3, <2>4, Zenon DEF H
<1> QED BY <1>1, <1>2

\* The answer is decided by any table that speaks before all others that do.
LEMMA TableLookupFirst ==
  ASSUME NEW tables, Len(tables) \in Nat, NEW k,
         NEW i \in Hits(tables, k), \A j \in Hits(tables, k) : i <= j
  PROVE  TableLookup(tables, k) = tables[i].data[k]
<1>1. PICK l \in Hits(tables, k) :
        /\ \A j \in Hits(tables, k) : l <= j
        /\ TableLookup(tables, k) = tables[l].data[k]
  BY TableLookupIs
<1>2. l \in Int /\ i \in Int /\ l <= i /\ i <= l
  BY <1>1 DEF Hits
<1> QED BY <1>1, <1>2

\* A lookup over tables answers with an entry or nothing.
LEMMA TableLookupType ==
  ASSUME NEW tables, Len(tables) \in Nat, NEW k \in Keys,
         \A i \in 1..Len(tables) : tables[i].data \in Layer
  PROVE  TableLookup(tables, k) \in Entry \cup {Nil}
<1>1. CASE Hits(tables, k) = {}
  BY <1>1, TableLookupIs
<1>2. CASE Hits(tables, k) # {}
  <2>1. PICK i \in Hits(tables, k) : TableLookup(tables, k) = tables[i].data[k]
    BY <1>2, TableLookupIs
  <2> QED BY <2>1 DEF Hits, Layer
<1> QED BY <1>1, <1>2

\* A merge of tables is a layer.
LEMMA MergedType ==
  ASSUME NEW run, Len(run) \in Nat, NEW drop_obsolete, NEW t,
         \A i \in 1..Len(run) : run[i].data \in Layer
  PROVE  Merged(run, drop_obsolete, t) \in Layer
<1>1. \A k \in Keys : TableLookup(run, k) \in Entry \cup {Nil}
  BY TableLookupType
<1> QED BY <1>1 DEF Merged, Layer

\* Replaying a log gives a layer.
LEMMA ReplayedType ==
  ASSUME NEW l \in Seq(Record \cup {Torn})
  PROVE  Replayed(l) \in Layer
<1> SUFFICES ASSUME NEW k \in Keys, Replayable(l, k) # {}
             PROVE  l[CHOOSE i \in Replayable(l, k) :
                          \A j \in Replayable(l, k) : j <= i].entry \in Entry
  BY Zenon DEF Replayed, Layer
<1> DEFINE R == Replayable(l, k)
           Greatest(i) == \A j \in R : j <= i
<1>1. R \in SUBSET (1..Len(l)) /\ R # {} /\ Len(l) \in Nat
  BY SeqIs DEF Replayable
<1>2. \E i \in R : Greatest(i)
  <2> HIDE DEF R
  <2> QED BY <1>1, IntervalMax, Zenon
<1>3. ASSUME NEW i \in R PROVE l[i].entry \in Entry
  <2>1. i \in 1..Len(l) /\ l[i] # Torn
    BY <1>1 DEF Replayable
  <2>2. l[i] \in Record
    BY <2>1, ElementIs
  <2> QED BY <2>2 DEF Record
<1> HIDE DEF R
<1>4. (CHOOSE i \in R : Greatest(i)) \in R
  BY <1>2
<1> QED BY <1>3, <1>4 DEF R

\* The records before the first damage are a prefix.
LEMMA IntactPrefix ==
  ASSUME NEW S, NEW l \in Seq(S)
  PROVE  \E c \in 0..Len(l) : /\ Intact(l) = SubSeq(l, 1, c)
                              /\ {i \in 1..Len(l) : \A j \in 1..i : l[j] # Torn} = 1..c
<1> DEFINE P == {i \in 1..Len(l) : \A j \in 1..i : l[j] # Torn}
<1>1. PICK n \in Nat : n = Len(l)
  BY SeqIs
<1>2. PICK c \in 0..n : P = 1..c
  <2>1. P \in SUBSET (1..n)
    BY <1>1
  <2>2. CASE P = {}
    <3>1. P = 1..0 /\ 0 \in 0..n
      BY <2>2
    <3> QED BY <3>1
  <2>3. CASE P # {}
    <3>1. PICK c \in P : \A j \in P : j <= c
      <4> HIDE DEF P
      <4> QED BY <2>1, <2>3, IntervalMax, Zenon
    <3>2. c \in 1..n /\ \A j \in 1..c : l[j] # Torn
      BY <1>1, <3>1
    <3>3. ASSUME NEW i \in 1..c PROVE i \in P
      <4>1. i \in 1..n /\ \A j \in 1..i : j \in 1..c
        BY <3>2
      <4> QED BY <1>1, <3>2, <4>1
    <3>4. ASSUME NEW i \in P PROVE i \in 1..c
      BY <1>1, <3>1, <3>2
    <3> QED BY <3>2, <3>3, <3>4
  <2> QED BY <2>2, <2>3, Zenon
<1> DEFINE good == {i \in 0..n : \A j \in 1..i : l[j] # Torn}
<1>3. good = 0..c
  <2>1. ASSUME NEW i \in 0..n PROVE i = 0 \/ i \in 1..n
    OBVIOUS
  <2>2. ASSUME NEW i \in good PROVE i \in 0..c
    BY <1>1, <1>2, <2>1
  <2>3. ASSUME NEW i \in 0..c PROVE i \in good
    <3>1. CASE i = 0
      BY <3>1
    <3>2. CASE i # 0
      <4>1. i \in P /\ i \in 0..n
        BY <1>1, <1>2, <3>2
      <4> QED BY <4>1
    <3> QED BY <3>1, <3>2
  <2> QED BY <2>2, <2>3, Zenon
<1>4. (CHOOSE i \in 0..c : \A m \in 0..c : m <= i) = c
  OBVIOUS
<1>5. Intact(l) = SubSeq(l, 1, c)
  BY <1>1, <1>3, <1>4, Zenon DEF Intact
<1> QED BY <1>1, <1>2, <1>5

\* What replay leaves of a log is a log.
LEMMA IntactType ==
  ASSUME NEW S, NEW l \in Seq(S)
  PROVE  Intact(l) \in Seq(S) /\ Len(Intact(l)) \in Nat
<1>1. PICK c \in 0..Len(l) : Intact(l) = SubSeq(l, 1, c)
  BY IntactPrefix
<1>2. c \in Nat /\ c <= Len(l)
  BY SeqIs
<1>3. SubSeq(l, 1, c) \in Seq(S)
  BY <1>2, PrefixIs
<1> QED BY <1>1, <1>3, SeqIs

-----------------------------------------------------------------------------
(* A merge changes no read *)

\* A vector of tables with those from first to last replaced by the table m,
\* or with m put in before first when last is first - 1.
Replaced(tables, first, last, m) ==
  SubSeq(tables, 1, first - 1) \o <<m>> \o SubSeq(tables, last + 1, Len(tables))

\* The tables around a replaced run stay, in order.
Spliced(r, S, tables, first, last, m) ==
  /\ r \in Seq(S)
  /\ Len(r) = Len(tables) - (last - first)
  /\ r[first] = m
  /\ \A i \in 1..(first - 1) : r[i] = tables[i]
  /\ \A i \in (first + 1)..Len(r) : r[i] = tables[i + (last - first)]

\* That is what Replaced makes of them.
LEMMA ReplacedIs ==
  ASSUME NEW S, NEW tables \in Seq(S), NEW m \in S,
         NEW first \in 1..(Len(tables) + 1), NEW last \in (first - 1)..Len(tables)
  PROVE  Spliced(Replaced(tables, first, last, m), S, tables, first, last, m)
<1> DEFINE a == SubSeq(tables, 1, first - 1)
           b == a \o <<m>>
           c == SubSeq(tables, last + 1, Len(tables))
<1>0. Len(tables) \in Nat
  BY SeqIs
<1>1. /\ a \in Seq(S) /\ Len(a) = first - 1
      /\ \A i \in 1..(first - 1) : a[i] = tables[i]
  BY <1>0, SubSeqIs
<1>2. /\ c \in Seq(S) /\ Len(c) = Len(tables) - last
      /\ \A i \in 1..(Len(tables) - last) : c[i] = tables[last + i]
  BY <1>0, SubSeqIs
<1> HIDE DEF a, c
<1>3. /\ b \in Seq(S) /\ Len(b) = first
      /\ b[first] = m
      /\ \A i \in 1..(first - 1) : b[i] = tables[i]
  BY <1>0, <1>1
<1> HIDE DEF b
<1>4. Replaced(tables, first, last, m) = b \o c
  BY DEF Replaced, a, b, c
<1>5. /\ b \o c \in Seq(S)
      /\ Len(b \o c) = Len(tables) - (last - first)
      /\ \A i \in 1..Len(b \o c) :
           (b \o c)[i] = IF i <= first THEN b[i] ELSE c[i - first]
  <2>1. /\ b \o c \in Seq(S)
        /\ Len(b \o c) = Len(b) + Len(c)
        /\ \A i \in 1..(Len(b) + Len(c)) :
             (b \o c)[i] = IF i <= Len(b) THEN b[i] ELSE c[i - Len(b)]
    BY <1>2, <1>3, ConcatAt, Zenon
  <2>2. Len(b) = first /\ Len(b) + Len(c) = Len(tables) - (last - first)
    BY <1>0, <1>2, <1>3
  <2> QED BY <2>1, <2>2
<1>6. \A i \in (first + 1)..Len(b \o c) : (b \o c)[i] = tables[i + (last - first)]
  <2> SUFFICES ASSUME NEW i \in (first + 1)..Len(b \o c)
               PROVE  (b \o c)[i] = tables[i + (last - first)]
    OBVIOUS
  <2>1. (b \o c)[i] = c[i - first] /\ i - first \in 1..(Len(tables) - last)
    BY <1>0, <1>5
  <2>2. c[i - first] = tables[last + (i - first)]
    BY <1>2, <2>1, Zenon
  <2>3. i \in Int /\ first \in Int /\ last \in Int
    BY <1>0, <1>5
  <2>4. last + (i - first) = i + (last - first)
    BY <2>3
  <2> QED BY <2>1, <2>2, <2>4
<1>7. first \in 1..Len(b \o c) /\ \A i \in 1..(first - 1) : i \in 1..Len(b \o c)
  BY <1>0, <1>5
<1>8. (b \o c)[first] = m /\ \A i \in 1..(first - 1) : (b \o c)[i] = tables[i]
  BY <1>0, <1>3, <1>5, <1>7
<1>9. Spliced(b \o c, S, tables, first, last, m)
  BY <1>5, <1>6, <1>8, Zenon DEF Spliced
<1> QED BY <1>4, <1>9, Zenon

\* ... and with those from first to last taken out.
LEMMA RemovedIs ==
  ASSUME NEW S, NEW tables \in Seq(S),
         NEW first \in 1..Len(tables), NEW last \in first..Len(tables)
  PROVE  LET r == SubSeq(tables, 1, first - 1) \o SubSeq(tables, last + 1, Len(tables))
         IN  /\ r \in Seq(S)
             /\ Len(r) = Len(tables) - (last - first + 1)
             /\ \A i \in 1..(first - 1) : r[i] = tables[i]
             /\ \A i \in first..Len(r) : r[i] = tables[i + (last - first + 1)]
<1> DEFINE a == SubSeq(tables, 1, first - 1)
           c == SubSeq(tables, last + 1, Len(tables))
<1>0. Len(tables) \in Nat
  BY SeqIs
<1>1. /\ a \in Seq(S) /\ Len(a) = first - 1
      /\ \A i \in 1..(first - 1) : a[i] = tables[i]
  BY <1>0, SubSeqIs
<1>2. /\ c \in Seq(S) /\ Len(c) = Len(tables) - last
      /\ \A i \in 1..(Len(tables) - last) : c[i] = tables[last + i]
  BY <1>0, SubSeqIs
<1> HIDE DEF a, c
<1>3. /\ a \o c \in Seq(S)
      /\ Len(a \o c) = Len(tables) - (last - first + 1)
      /\ \A i \in 1..Len(a \o c) :
           (a \o c)[i] = IF i <= first - 1 THEN a[i] ELSE c[i - (first - 1)]
  <2>1. /\ a \o c \in Seq(S)
        /\ Len(a \o c) = Len(a) + Len(c)
        /\ \A i \in 1..(Len(a) + Len(c)) :
             (a \o c)[i] = IF i <= Len(a) THEN a[i] ELSE c[i - Len(a)]
    BY <1>1, <1>2, ConcatAt, Zenon
  <2>2. Len(a) = first - 1 /\ Len(a) + Len(c) = Len(tables) - (last - first + 1)
    BY <1>0, <1>1, <1>2
  <2> QED BY <2>1, <2>2
<1>4. ASSUME NEW i \in first..Len(a \o c)
      PROVE  (a \o c)[i] = tables[i + (last - first + 1)]
  <2>1. (a \o c)[i] = c[i - (first - 1)] /\ i - (first - 1) \in 1..(Len(tables) - last)
    BY <1>0, <1>3
  <2>2. c[i - (first - 1)] = tables[last + (i - (first - 1))]
    BY <1>2, <2>1, Zenon
  <2>3. i \in Int /\ first \in Int /\ last \in Int
    BY <1>0, <1>3
  <2>4. last + (i - (first - 1)) = i + (last - first + 1)
    BY <2>3
  <2> QED BY <2>1, <2>2, <2>4
<1>5. ASSUME NEW i \in 1..(first - 1)
      PROVE  (a \o c)[i] = tables[i]
  BY <1>0, <1>1, <1>3
<1> QED BY <1>3, <1>4, <1>5, Zenon DEF a, c

\* A table, whatever it is called.
AnyTable == [seq : Nat, data : Layer]

\* A run of adjacent tables.
LEMMA RunIs ==
  ASSUME NEW S, NEW tables \in Seq(S), NEW first \in 1..Len(tables), NEW last \in first..Len(tables)
  PROVE  LET run == SubSeq(tables, first, last)
         IN  /\ run \in Seq(S) /\ Len(run) \in Nat /\ Len(run) = last - first + 1
             /\ \A i \in 1..(last - first + 1) : run[i] = tables[first + i - 1]
<1>1. Len(tables) \in Nat
  BY SeqIs
<1>2. SubSeq(tables, first, last) \in Seq(S)
  BY <1>1, SubSeqIs
<1> QED BY <1>1, <1>2, SubSeqIs

\* The table m keeps what the run says of k, or says nothing of a key the run
\* shows dead when no older table is left.
StandsFor(m, tables, first, last, k, t) ==
  LET run == SubSeq(tables, first, last)
  IN  \/ m.data[k] = TableLookup(run, k)
      \/ last = Len(tables) /\ m.data[k] = Nil /\ Seen(TableLookup(run, k), t) = Nil

\* Such a table in place of the run reads as the run did.
LEMMA InPlaceOfRun ==
  ASSUME NEW tables \in Seq(AnyTable), NEW m \in AnyTable, NEW t, NEW k \in Keys,
         NEW first \in 1..Len(tables), NEW last \in first..Len(tables),
         StandsFor(m, tables, first, last, k, t)
  PROVE  Seen(TableLookup(Replaced(tables, first, last, m), k), t)
           = Seen(TableLookup(tables, k), t)
<1> DEFINE run == SubSeq(tables, first, last)
           r   == Replaced(tables, first, last, m)
           gap == last - first
<1>1. /\ Len(tables) \in Nat
      /\ \A i \in 1..Len(tables) : tables[i] \in AnyTable /\ tables[i].data \in Layer
  <2>1. Len(tables) \in Nat
    BY SeqIs
  <2>2. \A i \in 1..Len(tables) : tables[i] \in AnyTable
    BY ElementIs, Zenon
  <2> QED BY <2>1, <2>2 DEF AnyTable
<1>2. /\ run \in Seq(AnyTable) /\ Len(run) = gap + 1
      /\ \A i \in 1..(gap + 1) : run[i] = tables[first + i - 1]
  BY RunIs
<1>3. \A i \in 1..Len(run) : run[i].data \in Layer
  BY <1>1, <1>2
<1>5. /\ Len(r) = Len(tables) - gap /\ Len(r) \in Nat
      /\ r[first] = m
      /\ \A i \in 1..(first - 1) : r[i] = tables[i]
      /\ \A i \in (first + 1)..Len(r) : r[i] = tables[i + gap]
  <2> HIDE DEF r
  <2>2. /\ r \in Seq(AnyTable)
        /\ Len(r) = Len(tables) - (last - first)
        /\ r[first] = m
        /\ \A i \in 1..(first - 1) : r[i] = tables[i]
        /\ \A i \in (first + 1)..Len(r) : r[i] = tables[i + (last - first)]
    <3>1. first \in 1..(Len(tables) + 1) /\ last \in (first - 1)..Len(tables)
      BY <1>1
    <3>2. Spliced(r, AnyTable, tables, first, last, m)
      BY <3>1, ReplacedIs, Zenon DEF r
    <3> QED BY <3>2, Zenon DEF Spliced
  <2>3. Len(r) \in Nat
    BY <2>2, SeqIs
  <2> QED BY <2>2, <2>3
<1>6. \/ m.data[k] = TableLookup(run, k)
      \/ last = Len(tables) /\ m.data[k] = Nil /\ Seen(TableLookup(run, k), t) = Nil
  BY DEF StandsFor
<1>7. gap \in Nat /\ last \in Nat /\ first \in Nat /\ first >= 1 /\ last <= Len(tables)
      /\ last = first + gap
  BY <1>1
<1>8. Len(run) \in Nat
  BY <1>2, <1>7
<1> HIDE DEF run, r, gap
<1>9. ASSUME NEW j \in Hits(run, k) PROVE first + j - 1 \in Hits(tables, k)
  <2>1. j \in 1..(gap + 1) /\ run[j].data[k] # Nil
    BY <1>2 DEF Hits
  <2>2. tables[first + j - 1].data[k] # Nil
    BY <1>2, <2>1
  <2>3. first + j - 1 \in 1..Len(tables)
    BY <1>1, <1>7, <2>1
  <2> QED BY <2>2, <2>3 DEF Hits
<1>10. CASE \E i \in Hits(tables, k) : i < first
  <2>1. PICK i \in Hits(tables, k) :
          /\ \A j \in Hits(tables, k) : i <= j
          /\ TableLookup(tables, k) = tables[i].data[k]
    BY <1>1, <1>10, TableLookupIs
  <2>2. i \in 1..(first - 1)
    BY <1>1, <1>7, <1>10, <2>1 DEF Hits
  <2>3. i \in Hits(r, k)
    BY <1>5, <1>7, <2>1, <2>2 DEF Hits
  <2>4. ASSUME NEW j \in Hits(r, k) PROVE i <= j
    <3>1. j \in 1..Len(r) /\ r[j].data[k] # Nil
      BY DEF Hits
    <3>2. CASE j < first
      <4>1. j \in 1..(first - 1) /\ j \in 1..Len(tables)
        BY <1>1, <1>7, <3>1, <3>2, <1>5
      <4>2. j \in Hits(tables, k)
        BY <1>5, <3>1, <4>1 DEF Hits
      <4> QED BY <2>1, <4>2
    <3>3. CASE j >= first
      BY <1>7, <2>2, <3>1, <3>3, <1>5
    <3> QED BY <1>7, <3>1, <3>2, <3>3, <1>5
  <2>5. TableLookup(r, k) = r[i].data[k]
    BY <1>5, <2>3, <2>4, TableLookupFirst
  <2> QED BY <1>5, <2>1, <2>2, <2>5 DEF r, run
<1>11. CASE /\ \A i \in Hits(tables, k) : i >= first
           /\ \E i \in Hits(tables, k) : i <= last
  <2>1. PICK i \in Hits(tables, k) :
          /\ \A j \in Hits(tables, k) : i <= j
          /\ TableLookup(tables, k) = tables[i].data[k]
    BY <1>1, <1>11, TableLookupIs
  <2>2. i \in first..last /\ tables[i].data[k] # Nil /\ i - first + 1 \in 1..(gap + 1)
    BY <1>1, <1>7, <1>11, <2>1 DEF Hits
  <2>3. run[i - first + 1] = tables[i]
    BY <1>2, <1>7, <2>2
  <2>4. i - first + 1 \in Hits(run, k)
    BY <1>2, <2>2, <2>3 DEF Hits
  <2>5. ASSUME NEW j \in Hits(run, k) PROVE i - first + 1 <= j
    <3>1. j \in 1..(gap + 1) /\ run[j].data[k] # Nil
      BY <1>2 DEF Hits
    <3>2. first + j - 1 \in Hits(tables, k)
      BY <1>9
    <3>3. i <= first + j - 1
      BY <2>1, <3>2
    <3> QED BY <1>7, <2>2, <3>1, <3>3
  <2>6. TableLookup(run, k) = TableLookup(tables, k)
    <3>1. TableLookup(run, k) = run[i - first + 1].data[k]
      BY <1>8, <2>4, <2>5, TableLookupFirst
    <3> QED BY <2>1, <2>3, <3>1
  <2>7. ASSUME NEW j \in Hits(r, k) PROVE j >= first
    <3>1. j \in 1..Len(r) /\ r[j].data[k] # Nil
      BY DEF Hits
    <3>2. SUFFICES ASSUME j < first PROVE FALSE
      BY <1>5, <1>7, <3>1
    <3>3. j \in Hits(tables, k)
      BY <1>1, <1>5, <1>7, <3>1, <3>2 DEF Hits
    <3> QED BY <1>7, <1>11, <3>1, <3>2, <3>3
  <2>8. CASE m.data[k] # Nil
    <3>1. first \in Hits(r, k)
      BY <1>5, <1>7, <2>8 DEF Hits
    <3>2. TableLookup(r, k) = m.data[k]
      BY <1>5, <2>7, <3>1, TableLookupFirst
    <3> QED BY <1>6, <2>6, <2>8, <3>2 DEF r, run
  <2>9. CASE m.data[k] = Nil
    <3>1. last = Len(tables) /\ Seen(TableLookup(tables, k), t) = Nil
      BY <1>6, <2>1, <2>2, <2>6, <2>9
    <3>2. Len(r) = first
      <4>1. Len(r) = last - gap
        BY <1>5, <3>1
      <4> QED BY <1>7, <4>1
    <3>3. Hits(r, k) = {}
      <4> SUFFICES ASSUME NEW j \in Hits(r, k) PROVE FALSE
        OBVIOUS
      <4>1. j = first
        BY <1>7, <2>7, <3>2 DEF Hits
      <4> QED BY <1>5, <2>9, <4>1 DEF Hits
    <3>4. TableLookup(r, k) = Nil
      BY <1>5, <3>3, TableLookupIs
    <3> QED BY <3>1, <3>4 DEF Seen, r, run
  <2> QED BY <2>8, <2>9
<1>12. CASE \A i \in Hits(tables, k) : i > last
  <2>1. TableLookup(run, k) = Nil
    <3>1. Hits(run, k) = {}
      <4> SUFFICES ASSUME NEW j \in Hits(run, k) PROVE FALSE
        OBVIOUS
      <4>1. j \in 1..(gap + 1) /\ run[j].data[k] # Nil
        BY <1>2 DEF Hits
      <4>2. first + j - 1 \in Hits(tables, k)
        BY <1>9
      <4> QED BY <1>7, <1>12, <4>1, <4>2
    <3> QED BY <1>8, <3>1, TableLookupIs
  <2>2. m.data[k] = Nil
    BY <1>6, <2>1
  <2>3. ASSUME NEW j \in Hits(r, k) PROVE j > first /\ j + gap \in Hits(tables, k)
    <3>1. j \in 1..Len(r) /\ r[j].data[k] # Nil
      BY DEF Hits
    <3>2. j # first
      BY <1>5, <2>2, <3>1
    <3>3. j >= first
      <4> SUFFICES ASSUME j < first PROVE FALSE
        BY <1>5, <1>7, <3>1
      <4>1. j \in Hits(tables, k)
        BY <1>1, <1>5, <1>7, <3>1 DEF Hits
      <4> QED BY <1>7, <1>12, <4>1, <3>1
    <3>4. r[j] = tables[j + gap] /\ j + gap \in 1..Len(tables)
      BY <1>5, <1>7, <1>1, <3>1, <3>2, <3>3
    <3> QED BY <1>7, <3>1, <3>2, <3>3, <3>4 DEF Hits
  <2>4. CASE Hits(tables, k) = {}
    <3>1. Hits(r, k) = {}
      BY <2>3, <2>4
    <3> QED BY <1>1, <1>5, <2>4, <3>1, TableLookupIs DEF r, run
  <2>5. CASE Hits(tables, k) # {}
    <3>1. PICK i \in Hits(tables, k) :
            /\ \A j \in Hits(tables, k) : i <= j
            /\ TableLookup(tables, k) = tables[i].data[k]
      BY <1>1, <2>5, TableLookupIs
    <3>2. /\ i \in 1..Len(tables) /\ tables[i].data[k] # Nil /\ i > last
      BY <1>12 DEF Hits
    <3>3. i - gap \in (first + 1)..Len(r) /\ (i - gap) + gap = i
      BY <1>1, <1>5, <1>7, <3>2
    <3>4. r[i - gap] = tables[i]
      BY <1>5, <3>3
    <3>5. i - gap \in Hits(r, k)
      BY <1>5, <1>7, <3>2, <3>3, <3>4 DEF Hits
    <3>6. ASSUME NEW j \in Hits(r, k) PROVE i - gap <= j
      <4>1. j + gap \in Hits(tables, k)
        BY <2>3
      <4>2. i <= j + gap
        BY <3>1, <4>1
      <4>3. j \in Int
        BY DEF Hits
      <4> QED BY <1>7, <3>2, <4>2, <4>3
    <3>7. TableLookup(r, k) = r[i - gap].data[k]
      BY <1>5, <3>5, <3>6, TableLookupFirst
    <3> QED BY <3>1, <3>4, <3>7 DEF r, run
  <2> QED BY <2>4, <2>5
<1>13. \A i \in Hits(tables, k) : i \in Int
  BY DEF Hits
<1> QED BY <1>7, <1>10, <1>11, <1>12, <1>13
-----------------------------------------------------------------------------
(* Reads of a vector that gains a table, and reads later *)

\* Replacing a run of adjacent tables by their merge, dropping the dead only
\* if the run reaches the oldest table, leaves every key reading as it did:
\* what Store::maybe_compact relies on when it swaps the tables under readers.
THEOREM MergeChangesNoRead ==
  ASSUME NEW tables \in Seq(AnyTable),
         NEW first \in 1..Len(tables), NEW last \in first..Len(tables),
         NEW drop_obsolete \in BOOLEAN, drop_obsolete => last = Len(tables),
         NEW t, NEW n \in Nat, NEW k \in Keys
  PROVE  LET m == [seq  |-> n,
                   data |-> Merged(SubSeq(tables, first, last), drop_obsolete, t)]
         IN  Seen(TableLookup(Replaced(tables, first, last, m), k), t)
               = Seen(TableLookup(tables, k), t)
<1> DEFINE run == SubSeq(tables, first, last)
           m   == [seq |-> n, data |-> Merged(run, drop_obsolete, t)]
<1>1. m \in AnyTable
  <2>1. run \in Seq(AnyTable) /\ Len(run) \in Nat
    BY RunIs
  <2>2. \A i \in 1..Len(run) : run[i] \in AnyTable
    BY <2>1, ElementIs, Zenon
  <2>3. \A i \in 1..Len(run) : run[i].data \in Layer
    BY <2>2 DEF AnyTable
  <2> HIDE DEF run
  <2>4. Merged(run, drop_obsolete, t) \in Layer
    BY <2>1, <2>3, MergedType
  <2> QED BY <2>4 DEF AnyTable
<1>2. StandsFor(m, tables, first, last, k, t)
  BY DEF Merged, StandsFor
<1> HIDE DEF m
<1>3. Seen(TableLookup(Replaced(tables, first, last, m), k), t)
        = Seen(TableLookup(tables, k), t)
  BY <1>1, <1>2, InPlaceOfRun
<1> QED BY <1>3 DEF m

\* What has passed stays passed.
LEMMA SeenLater ==
  ASSUME NEW e \in Entry \cup {Nil}, NEW t \in Int
  PROVE  Seen(Seen(e, t), t + 1) = Seen(e, t + 1)
<1>1. e # Nil => e.expires_at_ms \in Int
  BY LayersAssumption, Zenon DEF Entry
<1> QED BY <1>1 DEF Seen, Expired

\* A table put in front answers for the keys it has, the others for the rest.
LEMMA PutFirst ==
  ASSUME NEW S, NEW tables \in Seq(S), NEW m \in S, NEW k
  PROVE  TableLookup(<<m>> \o tables, k) =
           IF m.data[k] # Nil THEN m.data[k] ELSE TableLookup(tables, k)
<1>1. PICK r : r = <<m>> \o tables
  BY Zenon
<1>2. PICK v \in Seq(S) : v = <<m>> /\ Len(v) = 1 /\ v[1] = m
  <2>1. <<m>> \in Seq(S) /\ Len(<<m>>) = 1 /\ <<m>>[1] = m
    OBVIOUS
  <2> QED BY <2>1, Zenon
<1>3. PICK n \in Nat : n = Len(tables)
  BY SeqIs
<1>4. Len(r) = n + 1 /\ r[1] = m /\ \A i \in 1..n : r[i + 1] = tables[i]
  <2>1. /\ Len(r) = Len(v) + Len(tables) /\ \A i \in 1..Len(v) : r[i] = v[i]
        /\ \A i \in 1..Len(tables) : r[Len(v) + i] = tables[i]
    BY <1>1, <1>2, ConcatIs
  <2>2. \A i \in 1..n : 1 + i = i + 1
    OBVIOUS
  <2> QED BY <1>2, <1>3, <2>1, <2>2
<1>5. Len(r) \in Nat /\ Len(tables) \in Nat
  BY <1>3, <1>4
<1>6. ASSUME NEW j \in Hits(r, k) PROVE j \in Nat \ {0} /\ (j # 1 => j - 1 \in Hits(tables, k))
  <2>1. j \in 1..(n + 1) /\ r[j].data[k] # Nil
    BY <1>4 DEF Hits
  <2>2. j # 1 => j - 1 \in 1..n /\ (j - 1) + 1 = j
    BY <2>1
  <2> QED BY <1>3, <1>4, <2>1, <2>2 DEF Hits
<1>7. ASSUME NEW i \in Hits(tables, k) PROVE i \in Nat \ {0} /\ i + 1 \in Hits(r, k)
  <2>1. i \in 1..n /\ tables[i].data[k] # Nil
    BY <1>3 DEF Hits
  <2> QED BY <1>4, <2>1 DEF Hits
<1>8. CASE m.data[k] # Nil
  <2>1. 1 \in Hits(r, k)
    BY <1>4, <1>8 DEF Hits
  <2>2. \A j \in Hits(r, k) : 1 <= j
    BY <1>6
  <2>3. TableLookup(r, k) = r[1].data[k]
    BY <1>5, <2>1, <2>2, TableLookupFirst
  <2> QED BY <1>1, <1>4, <1>8, <2>3
<1>9. CASE m.data[k] = Nil
  <2>1. 1 \notin Hits(r, k)
    BY <1>4, <1>9 DEF Hits
  <2>2. CASE Hits(tables, k) = {}
    <3>1. Hits(r, k) = {}
      BY <1>6, <2>1, <2>2
    <3> QED BY <1>1, <1>5, <1>9, <2>2, <3>1, TableLookupIs, Zenon
  <2>3. CASE Hits(tables, k) # {}
    <3>1. PICK i \in Hits(tables, k) :
            /\ \A j \in Hits(tables, k) : i <= j
            /\ TableLookup(tables, k) = tables[i].data[k]
      BY <1>5, <2>3, TableLookupIs
    <3>2. i + 1 \in Hits(r, k) /\ i \in Nat /\ i \in 1..n
      BY <1>3, <1>7 DEF Hits
    <3>3. ASSUME NEW j \in Hits(r, k) PROVE i + 1 <= j
      <4>1. j \in Nat /\ j - 1 \in Hits(tables, k)
        BY <1>6, <2>1
      <4>2. i <= j - 1
        BY <3>1, <4>1
      <4> QED BY <3>2, <4>1, <4>2
    <3>4. TableLookup(r, k) = r[i + 1].data[k]
      BY <1>5, <3>2, <3>3, TableLookupFirst
    <3> QED BY <1>1, <1>4, <1>9, <3>1, <3>2, <3>4
  <2> QED BY <2>2, <2>3
<1> QED BY <1>8, <1>9

\* A table with nothing to say of a key may as well not be there.
LEMMA SilentSkipped ==
  ASSUME NEW S, NEW tables \in Seq(S), NEW m \in S, NEW at \in 1..(Len(tables) + 1),
         NEW k, m.data[k] = Nil
  PROVE  TableLookup(Replaced(tables, at, at - 1, m), k) = TableLookup(tables, k)
<1>1. PICK r : r = Replaced(tables, at, at - 1, m)
  OBVIOUS
<1>2. PICK n \in Nat : n = Len(tables)
  BY SeqIs
<1>3. at \in 1..(n + 1)
  BY <1>2
<1>4. PICK last : last = at - 1
  OBVIOUS
<1>5. /\ Len(r) = n + 1 /\ r[at] = m
      /\ \A i \in 1..(at - 1) : r[i] = tables[i]
      /\ \A i \in (at + 1)..(n + 1) : r[i] = tables[i - 1]
  <2>1. last \in (at - 1)..Len(tables) /\ at \in 1..(Len(tables) + 1)
    BY <1>2, <1>3, <1>4
  <2>2. /\ Len(r) = Len(tables) - (last - at) /\ r[at] = m
        /\ \A i \in 1..(at - 1) : r[i] = tables[i]
        /\ \A i \in (at + 1)..Len(r) : r[i] = tables[i + (last - at)]
    <3> DEFINE q == Replaced(tables, at, last, m)
    <3>1. /\ Len(q) = Len(tables) - (last - at) /\ q[at] = m
          /\ \A i \in 1..(at - 1) : q[i] = tables[i]
          /\ \A i \in (at + 1)..Len(q) : q[i] = tables[i + (last - at)]
      <4>1. Spliced(q, S, tables, at, last, m)
        BY <2>1, ReplacedIs, Zenon
      <4> HIDE DEF q
      <4> QED BY <4>1, Zenon DEF Spliced
    <3>2. r = q
      BY <1>1, <1>4
    <3> HIDE DEF q
    <3> QED BY <3>1, <3>2, Zenon
  <2>3. n - (last - at) = n + 1 /\ \A i \in Int : i + (last - at) = i - 1
    <3>1. at \in Int /\ last \in Int /\ last - at = -1
      BY <1>3, <1>4
    <3> QED BY <3>1
  <2>4. Len(r) = n + 1
    BY <1>2, <2>2, <2>3, Zenon
  <2>5. ASSUME NEW i \in (at + 1)..(n + 1) PROVE r[i] = tables[i - 1]
    <3>1. i \in Int
      BY <1>3
    <3> QED BY <2>2, <2>3, <2>4, <3>1, Zenon
  <2> QED BY <2>2, <2>4, <2>5, Zenon
<1>6. Len(r) \in Nat /\ Len(tables) \in Nat
  BY <1>2, <1>5
<1> DEFINE To(i) == IF i < at THEN i ELSE i + 1
<1>7. ASSUME NEW i \in Hits(tables, k)
      PROVE  i \in 1..n /\ To(i) \in Hits(r, k) /\ r[To(i)] = tables[i]
  <2>1. i \in 1..n /\ tables[i].data[k] # Nil
    BY <1>2 DEF Hits
  <2>2. To(i) \in 1..(n + 1)
    BY <1>3, <2>1
  <2>3. r[To(i)] = tables[i]
    <3>1. CASE i < at
      BY <1>3, <1>5, <2>1, <3>1
    <3>2. CASE i >= at
      <4>1. i + 1 \in (at + 1)..(n + 1) /\ (i + 1) - 1 = i
        BY <1>3, <2>1, <3>2
      <4> QED BY <1>3, <1>5, <2>1, <3>2, <4>1
    <3> QED BY <1>3, <2>1, <3>1, <3>2
  <2> QED BY <1>5, <2>1, <2>2, <2>3 DEF Hits
<1>8. ASSUME NEW j \in Hits(r, k)
      PROVE  \E i \in Hits(tables, k) : j = To(i)
  <2>1. j \in 1..(n + 1) /\ r[j].data[k] # Nil
    BY <1>5 DEF Hits
  <2>2. j # at
    BY <1>5, <2>1
  <2>3. CASE j < at
    <3>1. j \in 1..(at - 1) /\ j \in 1..n
      BY <1>3, <2>1, <2>3
    <3> QED BY <1>2, <1>5, <2>1, <2>3, <3>1 DEF Hits
  <2>4. CASE j > at
    <3>1. j \in (at + 1)..(n + 1) /\ j - 1 \in 1..n /\ ~(j - 1 < at) /\ (j - 1) + 1 = j
      BY <1>3, <2>1, <2>4
    <3>2. j - 1 \in Hits(tables, k)
      BY <1>2, <1>5, <2>1, <3>1 DEF Hits
    <3> QED BY <3>1, <3>2
  <2> QED BY <1>3, <2>1, <2>2, <2>3, <2>4
<1>9. CASE Hits(tables, k) = {}
  <2>1. Hits(r, k) = {}
    BY <1>8, <1>9
  <2> QED BY <1>1, <1>6, <1>9, <2>1, TableLookupIs
<1>10. CASE Hits(tables, k) # {}
  <2>1. PICK i \in Hits(tables, k) :
          /\ \A j \in Hits(tables, k) : i <= j
          /\ TableLookup(tables, k) = tables[i].data[k]
    BY <1>6, <1>10, TableLookupIs
  <2>2. To(i) \in Hits(r, k) /\ r[To(i)] = tables[i] /\ i \in Int
    BY <1>7
  <2>3. ASSUME NEW j \in Hits(r, k) PROVE To(i) <= j
    <3>1. PICK l \in Hits(tables, k) : j = To(l)
      BY <1>8
    <3>2. i <= l /\ l \in Int
      BY <1>7, <2>1
    <3> QED BY <1>3, <2>2, <3>1, <3>2
  <2> HIDE DEF To
  <2>4. TableLookup(r, k) = r[To(i)].data[k]
    BY <1>6, <2>2, <2>3, TableLookupFirst, Zenon
  <2> QED BY <1>1, <2>1, <2>2, <2>4
<1> QED BY <1>9, <1>10

-----------------------------------------------------------------------------
(* What a log replays to *)

AnyLog == Seq(Record \cup {Torn})

\* The last record of a key before any damage is the one that counts.
LEMMA ReplayedIs ==
  ASSUME NEW q \in AnyLog, NEW k \in Keys
  PROVE  /\ Replayable(q, k) = {} => Replayed(q)[k] = Nil
         /\ Replayable(q, k) # {} =>
              \E i \in Replayable(q, k) :
                /\ \A j \in Replayable(q, k) : j <= i
                /\ Replayed(q)[k] = q[i].entry /\ q[i].entry # Nil
<1> DEFINE R == Replayable(q, k)
           Newest(i) == \A j \in R : j <= i
<1>1. R \in SUBSET (1..Len(q)) /\ Len(q) \in Nat
  BY SeqIs DEF Replayable, AnyLog
<1>2. Replayed(q)[k] = IF R = {} THEN Nil ELSE q[CHOOSE i \in R : Newest(i)].entry
  BY DEF Replayed
<1>3. ASSUME NEW i \in R PROVE q[i].entry # Nil
  <2>1. i \in 1..Len(q) /\ q[i] # Torn
    BY <1>1 DEF Replayable
  <2>2. q[i] \in Record
    BY <2>1, ElementIs DEF AnyLog
  <2> QED BY <2>2, LayersAssumption DEF Record
<1> HIDE DEF R
<1>4. CASE R # {}
  <2>1. \E i \in R : Newest(i)
    BY <1>1, <1>4, IntervalMax, Zenon
  <2>2. PICK i \in R : Newest(i) /\ Replayed(q)[k] = q[i].entry
    BY <1>2, <1>4, <2>1, Zenon
  <2> QED BY <1>3, <1>4, <2>2 DEF R
<1> QED BY <1>2, <1>4 DEF R

\* Two logs with the same records of a key in the same places.
LEMMA ReplayedAlike ==
  ASSUME NEW p \in AnyLog, NEW q \in AnyLog, NEW k \in Keys, Replayable(p, k) = Replayable(q, k),
         \A i \in Replayable(q, k) : p[i] = q[i]
  PROVE  Replayed(p)[k] = Replayed(q)[k]
<1>1. CASE Replayable(q, k) = {}
  BY <1>1, ReplayedIs
<1>2. CASE Replayable(q, k) # {}
  <2>1. PICK i \in Replayable(q, k) :
          (\A j \in Replayable(q, k) : j <= i) /\ Replayed(q)[k] = q[i].entry
    BY <1>2, ReplayedIs
  <2>2. PICK j \in Replayable(q, k) :
          (\A l \in Replayable(q, k) : l <= j) /\ Replayed(p)[k] = p[j].entry
    BY <1>2, ReplayedIs
  <2>3. i \in Int /\ j \in Int /\ i <= j /\ j <= i
    BY <2>1, <2>2 DEF Replayable
  <2>4. i = j
    BY <2>3
  <2> QED BY <2>1, <2>2, <2>4
<1> QED BY <1>1, <1>2

\* Nothing to replay.
LEMMA ReplayedNothing ==
  ASSUME NEW k \in Keys
  PROVE  Replayed(<<>>)[k] = Nil
BY DEF Replayed, Replayable

\* A damaged tail changes nothing.
LEMMA ReplayedTorn ==
  ASSUME NEW q \in AnyLog, NEW k \in Keys
  PROVE  Replayed(q \o <<Torn>>)[k] = Replayed(q)[k]
<1>1. PICK v : v = q \o <<Torn>>
  BY Zenon
<1>2. /\ v \in AnyLog /\ Len(q) \in Nat /\ Len(v) = Len(q) + 1
      /\ \A i \in 1..Len(q) : v[i] = q[i]
      /\ v[Len(q) + 1] = Torn
  BY <1>1 DEF AnyLog
<1>3. PICK n \in Nat : n = Len(q)
  BY <1>2
<1>4. ASSUME NEW i \in Replayable(v, k) PROVE i \in Replayable(q, k)
  <2>1. i \in 1..(n + 1) /\ (\A j \in 1..i : v[j] # Torn) /\ v[i].key = k
    BY <1>2, <1>3 DEF Replayable
  <2>2. i # n + 1
    BY <1>2, <1>3, <2>1
  <2>3. i \in 1..n /\ \A j \in 1..i : j \in 1..n
    BY <2>1, <2>2
  <2> QED BY <1>2, <1>3, <2>1, <2>3 DEF Replayable
<1>5. ASSUME NEW i \in Replayable(q, k) PROVE i \in Replayable(v, k)
  <2>1. i \in 1..n /\ (\A j \in 1..i : q[j] # Torn) /\ q[i].key = k
    BY <1>3 DEF Replayable
  <2>2. i \in 1..(n + 1) /\ \A j \in 1..i : j \in 1..n
    BY <2>1
  <2> QED BY <1>2, <1>3, <2>1, <2>2 DEF Replayable
<1>6. \A i \in Replayable(q, k) : v[i] = q[i]
  BY <1>2 DEF Replayable
<1>7. Replayable(v, k) = Replayable(q, k)
  BY <1>4, <1>5
<1> QED BY <1>1, <1>2, <1>6, <1>7, ReplayedAlike, Zenon

\* Records after an undamaged log: what they say goes, and for the other keys
\* what the log said.
LEMMA ReplayedConcat ==
  ASSUME NEW p \in AnyLog, NEW r \in AnyLog, NEW k \in Keys, \A i \in 1..Len(p) : p[i] # Torn
  PROVE  Replayed(p \o r)[k] = IF Replayed(r)[k] # Nil THEN Replayed(r)[k] ELSE Replayed(p)[k]
<1>1. PICK v : v = p \o r
  BY Zenon
<1>2. PICK m \in Nat, n \in Nat : m = Len(p) /\ n = Len(r)
  BY SeqIs DEF AnyLog
<1>3. /\ v \in AnyLog /\ Len(v) = m + n
      /\ \A i \in 1..m : v[i] = p[i]
      /\ \A i \in 1..n : v[m + i] = r[i]
  BY <1>1, <1>2, ConcatIs DEF AnyLog
<1>4. ASSUME NEW i \in 1..m PROVE i \in Replayable(v, k) <=> i \in Replayable(p, k)
  <2>1. i \in 1..(m + n) /\ \A j \in 1..i : j \in 1..m
    OBVIOUS
  <2> QED BY <1>2, <1>3, <2>1 DEF Replayable
<1>5. ASSUME NEW i \in 1..n PROVE m + i \in Replayable(v, k) <=> i \in Replayable(r, k)
  <2>1. m + i \in 1..(m + n)
    OBVIOUS
  <2>2. ASSUME \A j \in 1..(m + i) : v[j] # Torn, NEW j \in 1..i PROVE r[j] # Torn
    <3>1. m + j \in 1..(m + i) /\ j \in 1..n
      OBVIOUS
    <3> QED BY <1>3, <2>2, <3>1
  <2>3. ASSUME \A j \in 1..i : r[j] # Torn, NEW j \in 1..(m + i) PROVE v[j] # Torn
    <3>1. CASE j \in 1..m
      BY <1>2, <1>3, <3>1
    <3>2. CASE j \notin 1..m
      <4>1. j - m \in 1..i /\ j - m \in 1..n /\ m + (j - m) = j
        BY <3>2
      <4> QED BY <1>3, <2>3, <4>1
    <3> QED BY <3>1, <3>2
  <2> QED BY <1>2, <1>3, <2>1, <2>2, <2>3 DEF Replayable
<1>6. ASSUME NEW i \in Replayable(v, k), i \notin 1..m PROVE i - m \in 1..n /\ m + (i - m) = i
  <2>1. i \in 1..(m + n)
    BY <1>3 DEF Replayable
  <2> QED BY <1>6, <2>1
<1>7. CASE Replayable(r, k) # {}
  <2>1. PICK i \in Replayable(r, k) :
          (\A j \in Replayable(r, k) : j <= i) /\ Replayed(r)[k] = r[i].entry /\ r[i].entry # Nil
    BY <1>7, ReplayedIs
  <2>2. i \in 1..n
    BY <1>2 DEF Replayable
  <2>3. m + i \in Replayable(v, k)
    BY <1>5, <2>2
  <2>4. PICK l \in Replayable(v, k) :
          (\A j \in Replayable(v, k) : j <= l) /\ Replayed(v)[k] = v[l].entry
    BY <1>3, <2>3, ReplayedIs
  <2>5. m + i <= l
    BY <2>3, <2>4
  <2>6. l \in Int /\ l \notin 1..m
    BY <2>2, <2>5 DEF Replayable
  <2>7. l - m \in 1..n /\ m + (l - m) = l
    BY <1>6, <2>6
  <2>8. l - m \in Replayable(r, k)
    BY <1>5, <2>7
  <2>9. l - m <= i
    BY <2>1, <2>8
  <2>10. l = m + i
    BY <2>2, <2>5, <2>6, <2>9
  <2> QED BY <1>1, <1>3, <2>1, <2>2, <2>4, <2>10
<1>8. CASE Replayable(r, k) = {}
  <2>1. Replayed(r)[k] = Nil
    BY <1>8, ReplayedIs
  <2>2. ASSUME NEW i \in Replayable(v, k) PROVE i \in Replayable(p, k)
    <3>1. i \in 1..m
      <4> SUFFICES ASSUME i \notin 1..m PROVE FALSE
        OBVIOUS
      <4>1. i - m \in 1..n /\ m + (i - m) = i
        BY <1>6
      <4> QED BY <1>5, <1>8, <4>1
    <3> QED BY <1>4, <3>1
  <2>3. ASSUME NEW i \in Replayable(p, k) PROVE i \in Replayable(v, k) /\ v[i] = p[i]
    <3>1. i \in 1..m
      BY <1>2 DEF Replayable
    <3> QED BY <1>3, <1>4, <3>1
  <2> QED BY <1>1, <1>3, <2>1, <2>2, <2>3, ReplayedAlike, Zenon
<1> QED BY <1>7, <1>8

\* The records before the first damage are a prefix, all of it undamaged, and
\* replay to the same.
LEMMA IntactIs ==
  ASSUME NEW q \in AnyLog
  PROVE  \E c \in 0..Len(q) :
           /\ Intact(q) = SubSeq(q, 1, c) /\ Len(Intact(q)) = c /\ Intact(q) \in AnyLog
           /\ \A i \in 1..c : Intact(q)[i] # Torn
           /\ \A k \in Keys : Replayed(Intact(q))[k] = Replayed(q)[k]
<1> DEFINE P == {i \in 1..Len(q) : \A j \in 1..i : q[j] # Torn}
<1>1. PICK n \in Nat : n = Len(q)
  BY SeqIs DEF AnyLog
<1>2. PICK c \in 0..n : Intact(q) = SubSeq(q, 1, c) /\ P = 1..c
  BY <1>1, IntactPrefix DEF AnyLog
<1>5. PICK w : w = SubSeq(q, 1, c)
  BY Zenon
<1>6. w \in AnyLog /\ Len(w) = c /\ \A i \in 1..c : w[i] = q[i]
  BY <1>1, <1>5, PrefixIs DEF AnyLog
<1>7. \A i \in 1..c : q[i] # Torn
  <2> SUFFICES ASSUME NEW i \in 1..c PROVE q[i] # Torn
    OBVIOUS
  <2>1. i \in P /\ i \in 1..i
    BY <1>2
  <2> QED BY <2>1
<1>8. ASSUME NEW k \in Keys PROVE Replayed(w)[k] = Replayed(q)[k]
  <2>1. ASSUME NEW i \in Replayable(q, k) PROVE i \in 1..c
    <3>1. i \in P
      BY DEF Replayable
    <3> QED BY <1>2, <3>1
  <2>2. ASSUME NEW i \in 1..c PROVE i \in Replayable(w, k) <=> i \in Replayable(q, k)
    <3>1. i \in 1..n /\ \A j \in 1..i : j \in 1..c
      OBVIOUS
    <3> QED BY <1>1, <1>6, <3>1 DEF Replayable
  <2>3. ASSUME NEW i \in Replayable(w, k) PROVE i \in 1..c
    BY <1>6 DEF Replayable
  <2>4. Replayable(w, k) = Replayable(q, k)
    BY <2>1, <2>2, <2>3
  <2>5. \A i \in Replayable(q, k) : w[i] = q[i]
    BY <1>6, <2>1
  <2> QED BY <1>6, <2>4, <2>5, ReplayedAlike, Zenon
<1>9. Intact(q) = w /\ c \in 0..Len(q) /\ \A i \in 1..c : w[i] # Torn
  BY <1>1, <1>2, <1>5, <1>6, <1>7, Zenon
<1> HIDE DEF P
<1>10. /\ Intact(q) = SubSeq(q, 1, c) /\ Len(Intact(q)) = c /\ Intact(q) \in AnyLog
       /\ \A i \in 1..c : Intact(q)[i] # Torn
       /\ \A k \in Keys : Replayed(Intact(q))[k] = Replayed(q)[k]
  BY <1>5, <1>6, <1>8, <1>9, Zenon
<1> QED BY <1>9, <1>10

-----------------------------------------------------------------------------
(* The engine *)

\* TypeOK and NamesInOrder are not inductive by themselves: the position and
\* the names a merge carries from one system call to the next must be right.
IInv == TypeOK /\ NamesInOrder /\ LocalsStillHold

-----------------------------------------------------------------------------
(* Types of the pieces *)

\* A lookup over the files of a directory answers with an entry or nothing.
LEMMA DirLookupType ==
  ASSUME NEW d \in [SeqNo -> File \cup {Nil}], NEW k \in Keys
  PROVE  DirLookup(d, k) \in Entry \cup {Nil}
<1> DEFINE H == {n \in SeqNo : d[n] # Nil /\ d[n].data[k] # Nil}
           Newest(n) == \A m \in H : m <= n
<1>1. CASE H = {}
  BY <1>1 DEF DirLookup
<1>2. CASE H # {}
  <2>1. DirLookup(d, k) = d[CHOOSE n \in H : Newest(n)].data[k]
    BY <1>2 DEF DirLookup
  <2>2. ASSUME NEW n \in H PROVE d[n].data[k] \in Entry \cup {Nil}
    BY DEF File, Layer
  <2>3. H \in SUBSET (1..MaxSeq) /\ MaxSeq \in Nat
    BY StoreAssumption DEF SeqNo
  <2> HIDE DEF H
  <2>4. \E n \in H : Newest(n)
    BY <1>2, <2>3, IntervalMax, Zenon
  <2>5. (CHOOSE n \in H : Newest(n)) \in H
    BY <2>4
  <2> QED BY <2>1, <2>2, <2>5
<1> QED BY <1>1, <1>2

\* What a restart would serve is a state of the database.
LEMMA RestartViewType ==
  ASSUME NEW l \in Seq(LogItem), NEW d \in [SeqNo -> File \cup {Nil}]
  PROVE  RestartView(l, d) \in Db
<1>1. Replayed(l) \in Layer
  BY ReplayedType DEF LogItem
<1>2. \A k \in Keys : DirLookup(d, k) \in Entry \cup {Nil}
  BY DirLookupType
<1>3. \A k \in Keys : RestartView(l, d)[k] \in Entry \cup {Nil}
  BY <1>1, <1>2, EntryTypes DEF RestartView, Layer
<1> QED BY <1>3 DEF RestartView, Db, Layer

\* So is every state a batch of records leads through.
LEMMA OutcomesType ==
  ASSUME NEW s \in Db, NEW recs \in Seq(Record)
  PROVE  Outcomes(s, recs) \in Seq(Db)
<1>1. Len(recs) \in Nat
  BY SeqIs
<1>2. ASSUME NEW i \in 1..Len(recs) PROVE Replayed(SubSeq(recs, 1, i)) \in Layer
  <2>1. \A j \in 1..i : recs[j] \in Record \cup {Torn}
    BY <1>1, ElementIs
  <2>2. SubSeq(recs, 1, i) \in Seq(Record \cup {Torn})
    BY <1>1, <2>1, SubSeqIs
  <2> QED BY <2>2, ReplayedType, Zenon
<1>3. ASSUME NEW i \in 1..Len(recs)
      PROVE  [k \in Keys |-> IF Replayed(SubSeq(recs, 1, i))[k] = Nil THEN s[k]
                ELSE Seen(Replayed(SubSeq(recs, 1, i))[k], now)] \in Db
  BY <1>2, EntryTypes DEF Db, Layer
<1>4. Outcomes(s, recs) \in [1..Len(recs) -> Db]
  BY <1>3 DEF Outcomes
<1> QED BY <1>1, <1>4, FunctionIsSeq

\* The vector of open tables.
LEMMA TablesType ==
  ASSUME TypeOK
  PROVE  /\ sstables \in Seq(Table) /\ Len(sstables) \in Nat
         /\ \A i \in 1..Len(sstables) :
              /\ sstables[i] \in Table
              /\ sstables[i].seq \in SeqNo /\ sstables[i].seq \in Int
              /\ sstables[i].data \in Layer
<1>1. sstables \in Seq(Table)
  BY DEF TypeOK
<1>2. \A i \in 1..Len(sstables) : sstables[i] \in Table
  BY <1>1, ElementIs
<1>3. \A t \in Table : t.seq \in SeqNo /\ t.seq \in Int /\ t.data \in Layer
  BY DEF Table, SeqNo
<1> QED BY <1>1, <1>2, <1>3, SeqIs

-----------------------------------------------------------------------------
(* Steps *)

\* A command that logs records.
LEMMA MutateKeeps ==
  ASSUME IInv, pc = "serve", NEW recs \in Seq(Record), Mutate(recs)
  PROVE  IInv'
<1> USE DEF IInv
<1>1. recs \in Seq(LogItem) /\ Len(recs) \in Nat /\ <<Torn>> \in Seq(LogItem) /\ <<>> \in Seq(LogItem)
  BY SeqIs DEF LogItem
<1>2. log \in Seq(LogItem) /\ Len(log) \in Nat
  BY SeqIs DEF TypeOK, WalTypeOK
<1>3. hist \in Seq(Db) /\ hist # <<>> /\ Last(hist) \in Db
  <2>1. hist \in Seq(Db) /\ hist # <<>>
    BY DEF TypeOK
  <2>2. Len(hist) \in 1..Len(hist)
    BY <2>1, NothingIs
  <2> QED BY <2>1, <2>2, ElementIs DEF Last
<1>4. /\ UNCHANGED <<sstables, next_sequence, dir, ddir, job, now, wiping>>
      /\ pc' \in {"serve", "flush_write"}
      /\ \/ pc' = "serve" /\ tmp' = tmp
         \/ /\ pc' = "flush_write" /\ next_sequence <= MaxSeq
            /\ tmp' = [data |-> memtable', status |-> "partial"]
  BY DEF Mutate, MaybeFlush
<1>5. WalTypeOK'
  <2>1. CASE AppendOk(recs)
    BY <1>1, <1>2, <2>1, ConcatAt DEF AppendOk, TypeOK, WalTypeOK
  <2>2. CASE AppendShort(recs)
    <3>1. PICK n \in 0..(Len(recs) - 1), piece \in {<<>>, <<Torn>>} :
            log' = log \o SubSeq(recs, 1, n) \o piece
      BY <2>2, Zenon DEF AppendShort
    <3>2. \A i \in 1..n : recs[i] \in LogItem
      BY <1>1, ElementIs
    <3>3. SubSeq(recs, 1, n) \in Seq(LogItem)
      BY <3>2, SubSeqIs
    <3>4. log \o SubSeq(recs, 1, n) \in Seq(LogItem)
      BY <1>2, <3>3, ConcatAt
    <3>5. log' \in Seq(LogItem)
      BY <1>1, <3>1, <3>4, ConcatAt, ZenonT(30)
    <3> QED BY <2>2, <3>5 DEF AppendShort, TypeOK, WalTypeOK
  <2>3. CASE AppendUnsynced(recs)
    BY <1>1, <1>2, <2>3, ConcatAt DEF AppendUnsynced, TypeOK, WalTypeOK
  <2> QED BY <2>1, <2>2, <2>3 DEF Mutate
<1>6. memtable' \in Layer
  <2>1. Replayed(recs) \in Layer
    BY <1>1, ReplayedType DEF LogItem
  <2> QED BY <2>1 DEF Mutate, TypeOK, Layer
<1>7. hist' \in Seq(Db) /\ hist' # <<>> /\ held' \in BOOLEAN
  <2>1. Outcomes(Last(hist), recs) \in Seq(Db)
    BY <1>3, OutcomesType
  <2>2. /\ hist \o Outcomes(Last(hist), recs) \in Seq(Db)
        /\ Len(hist \o Outcomes(Last(hist), recs)) # 0
    BY <1>3, <2>1, ConcatAt, NothingIs, SeqIs
  <2>3. hist \o Outcomes(Last(hist), recs) # <<>>
    BY <2>2, NothingIs
  <2> QED BY <1>3, <2>2, <2>3, Zenon DEF Mutate, TypeOK
<1>8. TypeOK'
  <2>1. tmp' \in File \cup {Nil}
    BY <1>4, <1>6 DEF TypeOK, File
  <2>2. pc' \in Running \cup {"down"}
    BY <1>4 DEF Running, LoopSteps, FlushSteps
  <2> QED BY <1>4, <1>5, <1>6, <1>7, <2>1, <2>2 DEF TypeOK
<1>9. NamesInOrder'
  BY <1>4 DEF NamesInOrder
<1>10. LocalsStillHold'
  <2>1. pc' = "flush_write" => next_sequence' \in SeqNo /\ tmp' # Nil
    <3>1. [data |-> memtable', status |-> "partial"] \in File
      BY <1>6 DEF File
    <3>2. tmp' \in File => tmp' # Nil
      BY StoreAssumption, Zenon
    <3> QED BY <1>4, <3>1, <3>2 DEF TypeOK, SeqNo
  <2> QED BY <1>4, <2>1 DEF LocalsStillHold, FlushSteps, MergeSteps, WipeSteps
<1> QED BY <1>8, <1>9, <1>10

\* Every command but FLUSHALL logs records.
LEMMA CommandIs ==
  ASSUME IInv, Command
  PROVE  \/ FlushAll
         \/ \E recs \in Seq(Record) : recs # <<>> /\ pc = "serve" /\ Mutate(recs)
<1> DEFINE Logs(recs) == recs \in Seq(Record) /\ recs # <<>> /\ pc = "serve" /\ Mutate(recs)
<1>1. ASSUME NEW k \in Keys, NEW v \in Values, NEW at \in Stamps, Set(k, v, at)
      PROVE  \E recs : Logs(recs)
  <2>1. <<[key |-> k, entry |-> Live(v, at)]>> \in Seq(Record)
    BY EntryTypes DEF Record
  <2> QED BY <1>1, <2>1, Zenon DEF Set
<1>2. ASSUME NEW k \in Keys, Del(k)
      PROVE  \E recs : Logs(recs)
  <2>1. <<[key |-> k, entry |-> Tombstone]>> \in Seq(Record)
    BY EntryTypes DEF Record
  <2> QED BY <1>2, <2>1, Zenon DEF Del
<1>3. ASSUME NEW j \in Keys, NEW k \in Keys, DelMany(<<j, k>>)
      PROVE  \E recs : Logs(recs)
  <2> DEFINE ks == <<j, k>>
             recs == [i \in 1..Len(ks) |-> [key |-> ks[i], entry |-> Tombstone]]
  <2>1. Len(ks) = 2 /\ \A i \in 1..2 : ks[i] \in Keys
    OBVIOUS
  <2>2. recs \in [1..2 -> Record]
    BY <2>1, EntryTypes DEF Record
  <2>3. recs \in Seq(Record) /\ Len(recs) = 2
    <3> HIDE DEF recs
    <3> QED BY <2>2, FunctionIsSeq, Zenon
  <2>4. pc = "serve" /\ Mutate(recs)
    BY <1>3 DEF DelMany
  <2> HIDE DEF recs
  <2>5. recs # <<>>
    BY <2>3, EmptyIs
  <2> QED BY <2>3, <2>4, <2>5
<1>4. ASSUME NEW k \in Keys, NEW at \in Stamps \ {0}, Expire(k, at)
      PROVE  \E recs : Logs(recs)
  <2>1. Lookup(memtable, sstables, k) \in Entry \cup {Nil}
    <3>1. TableLookup(sstables, k) \in Entry \cup {Nil}
      BY TablesType, TableLookupType DEF IInv
    <3> QED BY <3>1 DEF Lookup, IInv, TypeOK, Layer
  <2>2. Get(k) \in Entry
    BY <1>4, <2>1, EntryTypes DEF Get, Expire
  <2>3. [key |-> k, entry |-> [value |-> Get(k).value, tombstone |-> FALSE,
                               expires_at_ms |-> at]] \in Record
    BY <2>2 DEF Entry, Record
  <2>4. <<[key |-> k, entry |-> Live(Get(k).value, at)]>> \in Seq(Record)
    BY <2>3 DEF Live
  <2> QED BY <1>4, <2>4, Zenon DEF Expire
<1> HIDE DEF Logs
<1>5. FlushAll \/ \E recs : Logs(recs)
  BY <1>1, <1>2, <1>3, <1>4, Zenon DEF Command
<1> QED BY <1>5, Zenon DEF Logs

\* Every command keeps the invariant.
LEMMA CommandKeeps ==
  ASSUME IInv, Command
  PROVE  IInv'
<1>1. ASSUME NEW recs \in Seq(Record), pc = "serve", Mutate(recs)
      PROVE  IInv'
  BY <1>1, MutateKeeps
<1>2. ASSUME FlushAll
      PROVE  IInv'
  <2>1. /\ pc' = "wipe_unlink" /\ sstables' = <<>> /\ wiping' = TRUE
        /\ job' = [NoJob EXCEPT !.paths = [i \in 1..Len(sstables) |-> sstables[i].seq]]
        /\ UNCHANGED <<walVars, memtable, next_sequence, diskVars, now, hist, held>>
    BY <1>2 DEF FlushAll, Goto
  <2>2. job' \in Job
    <3>1. Len(sstables) \in Nat /\ \A i \in 1..Len(sstables) : sstables[i].seq \in SeqNo
      BY TablesType DEF IInv
    <3>2. [i \in 1..Len(sstables) |-> sstables[i].seq] \in [1..Len(sstables) -> SeqNo]
      BY <3>1
    <3>3. [i \in 1..Len(sstables) |-> sstables[i].seq] \in Seq(SeqNo)
      BY <3>1, <3>2, FunctionIsSeq
    <3>4. 0 \in 0..MaxSeq
      BY StoreAssumption
    <3> QED BY <2>1, <3>3, <3>4, ZenonT(30) DEF Job, NoJob
  <2>3. WalTypeOK'
    BY <2>1 DEF IInv, TypeOK, WalTypeOK, walVars
  <2>4. TypeOK'
    BY <2>1, <2>2, <2>3 DEF IInv, TypeOK, diskVars, Running, WipeSteps
  <2>5. NamesInOrder'
    BY <2>1 DEF NamesInOrder
  <2>6. LocalsStillHold'
    BY <2>1 DEF LocalsStillHold, FlushSteps, MergeSteps, WipeSteps
  <2> QED BY <2>4, <2>5, <2>6 DEF IInv
<1> QED BY <1>1, <1>2, CommandIs, Zenon

\* Steps that leave the log's variables alone, cut it or sync it, type it.
LEMMA WalStepsType ==
  ASSUME WalTypeOK,
         \/ UNCHANGED walVars \/ SyncOk \/ CutLog \/ MaybeSync \/ WalDies
         \/ FsyncDirOk \/ WalReopens
  PROVE  WalTypeOK'
<1> USE DEF WalTypeOK
<1>1. log \in Seq(LogItem) /\ Len(log) \in Nat
  BY SeqIs
<1>2. CASE UNCHANGED walVars
  BY <1>2 DEF walVars
<1>3. CASE SyncOk
  BY <1>1, <1>3, Zenon DEF SyncOk
<1>4. CASE CutLog
  BY <1>4, NothingIs, Zenon DEF CutLog
<1>5. CASE MaybeSync
  BY <1>2, <1>3, <1>5 DEF MaybeSync
<1>6. CASE WalDies
  BY <1>6, Zenon DEF WalDies
<1>7. CASE FsyncDirOk
  BY <1>7 DEF FsyncDirOk
<1>8. CASE WalReopens
  <2>1. Intact(log) \in Seq(LogItem) /\ Len(Intact(log)) \in Nat
    BY <1>1, IntactType
  <2> QED BY <1>8, <2>1, Zenon DEF WalReopens
<1> QED BY <1>2, <1>3, <1>4, <1>5, <1>6, <1>7, <1>8

\* Every step of flush.
LEMMA FlushKeeps ==
  ASSUME IInv, Flush
  PROVE  IInv'
<1> USE DEF IInv, Goto
<1>0. WalTypeOK /\ (tmp # Nil => [tmp EXCEPT !.status = "synced"] \in File)
  BY DEF TypeOK, File
<1>1. CASE FlushWrite
  <2>1. WalTypeOK'
    BY <1>0, <1>1, WalStepsType DEF FlushWrite, Quiet
  <2>2. TypeOK'
    BY <1>0, <1>1, <2>1
       DEF FlushWrite, Quiet, TypeOK, memVars, histVars, Running, LoopSteps, FlushSteps,
           LocalsStillHold
  <2>3. NamesInOrder'
    BY <1>1 DEF FlushWrite, NamesInOrder, memVars
  <2>4. LocalsStillHold'
    BY <1>0, <1>1, StoreAssumption
       DEF FlushWrite, LocalsStillHold, memVars, FlushSteps, MergeSteps, WipeSteps
  <2> QED BY <2>2, <2>3, <2>4
<1>2. CASE FlushRename
  <2>1. WalTypeOK'
    BY <1>0, <1>2, WalStepsType DEF FlushRename, Quiet
  <2>2. TypeOK'
    BY <1>2, <2>1
       DEF FlushRename, Quiet, TypeOK, memVars, histVars, Running, LoopSteps, FlushSteps
  <2>3. NamesInOrder'
    BY <1>2 DEF FlushRename, NamesInOrder, memVars
  <2>4. LocalsStillHold'
    BY <1>2 DEF FlushRename, LocalsStillHold, memVars, FlushSteps, MergeSteps, WipeSteps, TypeOK
  <2> QED BY <2>2, <2>3, <2>4
<1>3. CASE FlushSync
  <2>1. WalTypeOK'
    BY <1>0, <1>3, WalStepsType DEF FlushSync
  <2>2. TypeOK'
    BY <1>3, <2>1
       DEF FlushSync, FsyncDirOk, TypeOK, memVars, histVars, Running, LoopSteps, FlushSteps
  <2>3. NamesInOrder'
    BY <1>3 DEF FlushSync, NamesInOrder, memVars
  <2>4. LocalsStillHold'
    BY <1>3 DEF FlushSync, LocalsStillHold, memVars, FlushSteps, MergeSteps, WipeSteps
  <2> QED BY <2>2, <2>3, <2>4
<1>4. CASE FlushTruncate
  <2>1. WalTypeOK'
    BY <1>0, <1>4, WalStepsType DEF FlushTruncate
  <2>2. TypeOK'
    BY <1>4, <2>1
       DEF FlushTruncate, TypeOK, memVars, diskVars, histVars, Running, LoopSteps, FlushSteps
  <2>3. NamesInOrder'
    BY <1>4 DEF FlushTruncate, NamesInOrder, memVars
  <2>4. LocalsStillHold'
    BY <1>4 DEF FlushTruncate, LocalsStillHold, memVars, diskVars, FlushSteps, MergeSteps, WipeSteps
  <2> QED BY <2>2, <2>3, <2>4
<1>5. CASE FlushLogSync
  <2>1. WalTypeOK'
    BY <1>0, <1>5, WalStepsType DEF FlushLogSync
  <2> DEFINE t == [seq |-> next_sequence, data |-> dir[next_sequence].data]
  <2>2. /\ pc' = "serve" /\ UNCHANGED <<diskVars, job, now, histVars>>
        /\ \/ /\ sstables' = <<t>> \o sstables
              /\ next_sequence' = next_sequence + 1
              /\ memtable' = EmptyLayer
           \/ UNCHANGED memVars
    BY <1>5 DEF FlushLogSync
  <2>3. next_sequence \in SeqNo /\ t \in Table
    BY <1>5 DEF FlushLogSync, LocalsStillHold, FlushSteps, TypeOK, File, Table
  <2>4. <<t>> \in Seq(Table) /\ Len(<<t>>) = 1 /\ <<t>>[1] = t
    BY <2>3
  <2>5. sstables \in Seq(Table) /\ Len(sstables) \in Nat
        /\ \A i \in 1..Len(sstables) : sstables[i].seq \in Int
    BY TablesType
  <2>6. t.seq = next_sequence
    OBVIOUS
  <2> HIDE DEF t
  <2>7. /\ <<t>> \o sstables \in Seq(Table)
        /\ Len(<<t>> \o sstables) = Len(sstables) + 1
        /\ (<<t>> \o sstables)[1] = t
        /\ \A i \in 2..(Len(sstables) + 1) : (<<t>> \o sstables)[i] = sstables[i - 1]
    BY <2>4, <2>5, ConcatAt
  <2>8. TypeOK'
    <3>1. next_sequence + 1 \in 1..(MaxSeq + 1)
      BY <2>3, StoreAssumption DEF SeqNo
    <3>2. /\ sstables' \in Seq(Table) /\ memtable' \in Layer
          /\ next_sequence' \in 1..(MaxSeq + 1)
      BY <2>2, <2>7, <3>1, EntryTypes, ZenonT(30) DEF TypeOK, memVars
    <3> QED BY <2>1, <2>2, <3>2 DEF TypeOK, diskVars, histVars, Running, LoopSteps
  <2>9. NamesInOrder'
    <3>1. CASE UNCHANGED memVars
      BY <3>1 DEF NamesInOrder, memVars
    <3>2. CASE sstables' = <<t>> \o sstables /\ next_sequence' = next_sequence + 1
      <4>1. Len(sstables') = Len(sstables) + 1 /\ sstables'[1].seq = next_sequence
            /\ \A i \in 2..(Len(sstables) + 1) : sstables'[i] = sstables[i - 1]
        BY <2>6, <2>7, <3>2
      <4>2. \A i \in 1..Len(sstables) : sstables[i].seq < next_sequence
        BY DEF NamesInOrder
      <4>3. ASSUME NEW i \in 1..Len(sstables'), NEW j \in 1..Len(sstables'), i < j
            PROVE  sstables'[i].seq > sstables'[j].seq
        <5>1. j \in 2..(Len(sstables) + 1) /\ j - 1 \in 1..Len(sstables)
              /\ sstables'[j] = sstables[j - 1]
          BY <2>5, <4>1, <4>3
        <5>2. CASE i = 1
          BY <2>3, <2>5, <4>1, <4>2, <5>1, <5>2 DEF SeqNo
        <5>3. CASE i # 1
          <6>1. i - 1 \in 1..Len(sstables) /\ i - 1 < j - 1 /\ sstables'[i] = sstables[i - 1]
            BY <2>5, <4>1, <4>3, <5>3
          <6> QED BY <5>1, <6>1 DEF NamesInOrder
        <5> QED BY <5>2, <5>3
      <4>4. ASSUME NEW i \in 1..Len(sstables')
            PROVE  sstables'[i].seq < next_sequence'
        <5>1. CASE i = 1
          BY <2>3, <3>2, <4>1, <5>1 DEF SeqNo
        <5>2. CASE i # 1
          <6>1. i - 1 \in 1..Len(sstables) /\ sstables'[i] = sstables[i - 1]
            BY <2>5, <4>1, <5>2
          <6>2. sstables[i - 1].seq < next_sequence /\ sstables[i - 1].seq \in Int
            BY <2>5, <4>2, <6>1
          <6> QED BY <2>3, <3>2, <6>1, <6>2 DEF SeqNo
        <5> QED BY <5>1, <5>2
      <4> QED BY <4>3, <4>4 DEF NamesInOrder
    <3> QED BY <2>2, <3>1, <3>2
  <2>10. LocalsStillHold'
    BY <2>2 DEF LocalsStillHold, FlushSteps, MergeSteps, WipeSteps
  <2> QED BY <2>8, <2>9, <2>10
<1> QED BY <1>1, <1>2, <1>3, <1>4, <1>5 DEF Flush

\* The parts of an iteration that are one step each.
LEMMA TailKeeps ==
  ASSUME IInv, \/ EndBatch \/ SweepExpired \/ NoCompaction \/ LoopAgain \/ Tick
  PROVE  IInv'
<1> USE DEF IInv, Goto
<1>0. /\ WalTypeOK
      /\ hist \in Seq(Db) /\ Len(hist) \in Nat \ {0} /\ Last(hist) \in Db
  <2>1. hist \in Seq(Db) /\ Len(hist) \in Nat \ {0}
    BY NothingIs DEF TypeOK
  <2>2. Len(hist) \in 1..Len(hist)
    BY <2>1
  <2> QED BY <2>1, <2>2, ElementIs DEF TypeOK, Last
<1>1. CASE EndBatch
  <2>1. WalTypeOK'
    BY <1>0, <1>1, WalStepsType DEF EndBatch
  <2>2. hist' \in Seq(Db) /\ hist' # <<>>
    BY <1>0, <1>1 DEF EndBatch, TypeOK
  <2> QED BY <1>1, <2>1, <2>2, ZenonT(30)
          DEF EndBatch, TypeOK, NamesInOrder, LocalsStillHold, memVars, diskVars,
              Running, LoopSteps, FlushSteps, MergeSteps, WipeSteps
<1>2. CASE SweepExpired
  <2>1. WalTypeOK'
    BY <1>0, <1>2, WalStepsType DEF SweepExpired, Quiet
  <2>2. memtable' \in Layer
    BY <1>2, EntryTypes DEF SweepExpired, TypeOK, Layer
  <2> QED BY <1>2, <2>1, <2>2
          DEF SweepExpired, TypeOK, NamesInOrder, LocalsStillHold, Quiet, histVars, diskVars,
              Running, LoopSteps, FlushSteps, MergeSteps, WipeSteps
<1>3. CASE NoCompaction \/ LoopAgain
  <2>1. WalTypeOK'
    BY <1>0, <1>3, WalStepsType DEF NoCompaction, LoopAgain, Quiet
  <2> QED BY <1>3, <2>1
          DEF NoCompaction, LoopAgain, TypeOK, NamesInOrder, LocalsStillHold, Quiet, memVars,
              histVars, diskVars, Running, LoopSteps, FlushSteps, MergeSteps, WipeSteps
<1>4. CASE Tick
  <2>1. WalTypeOK'
    BY <1>0, <1>4, WalStepsType DEF Tick
  <2>2. now' \in 1..(MaxNow + 1)
    BY <1>4, StoreAssumption DEF Tick, TypeOK
  <2>3. \A i \in 1..Len(hist) : hist[i] \in Layer
    BY <1>0, ElementIs DEF Db
  <2>4. hist' \in [1..Len(hist) -> Db]
    <3>1. DOMAIN hist = 1..Len(hist)
      BY <1>0, SeqIs, Zenon
    <3>2. ASSUME NEW i \in 1..Len(hist), NEW k \in Keys
          PROVE  Seen(hist[i][k], now + 1) \in Entry \cup {Nil}
      <4>1. hist[i][k] \in Entry \cup {Nil}
        BY <2>3, Zenon DEF Layer
      <4> QED BY <4>1, EntryTypes, Zenon
    <3>3. \A i \in 1..Len(hist) : [k \in Keys |-> Seen(hist[i][k], now + 1)] \in Db
      BY <3>2, Zenon DEF Db, Layer
    <3>4. hist' = [i \in 1..Len(hist) |-> [k \in Keys |-> Seen(hist[i][k], now + 1)]]
      BY <1>4, <3>1, Zenon DEF Tick
    <3> QED BY <3>3, <3>4, Zenon
  <2>5. hist' \in Seq(Db) /\ Len(hist') # 0
    BY <1>0, <2>4, FunctionIsSeq
  <2>6. hist' # <<>>
    BY <2>5, NothingIs
  <2>7. UNCHANGED <<memVars, diskVars, pc, job, held, wiping>>
    BY <1>4 DEF Tick
  <2>8. TypeOK'
    BY <2>1, <2>2, <2>5, <2>6, <2>7 DEF TypeOK, memVars, diskVars
  <2>9. NamesInOrder' /\ LocalsStillHold'
    BY <2>7, Zenon DEF NamesInOrder, LocalsStillHold, memVars, diskVars
  <2> QED BY <2>8, <2>9
<1> QED BY <1>1, <1>2, <1>3, <1>4

\* Choosing the run to merge and naming its inputs.
LEMMA CompactKeeps ==
  ASSUME IInv, NEW first \in 1..Len(sstables), NEW last \in 1..Len(sstables),
         Compact(first, last)
  PROVE  IInv'
<1> USE DEF IInv
<1> DEFINE run   == SubSeq(sstables, first, last)
           paths == [i \in 1..(last - first) |-> sstables[first + i].seq]
<1>1. /\ pc' = "merge_write"
      /\ tmp' = [data |-> Merged(run, last = Len(sstables), now), status |-> "partial"]
      /\ job' = [at |-> first, target |-> sstables[first].seq, ok |-> TRUE, paths |-> paths]
      /\ UNCHANGED <<memVars, dir, ddir>> /\ Quiet
  BY DEF Compact, Goto
<1>2. /\ sstables \in Seq(Table) /\ Len(sstables) \in Nat
      /\ \A i \in 1..Len(sstables) :
           /\ sstables[i] \in Table
           /\ sstables[i].seq \in SeqNo /\ sstables[i].seq \in Int
           /\ sstables[i].data \in Layer
  BY TablesType
<1>3. last - first \in Nat /\ first \in Nat /\ last \in Nat
  <2>1. first \in Nat /\ last \in Nat
    BY <1>2
  <2>2. last - first + 1 >= kCompactionTrigger
    BY DEF Compact
  <2>3. kCompactionTrigger \in Nat /\ kCompactionTrigger # 0
    BY StoreAssumption
  <2> QED BY <2>1, <2>2, <2>3
<1>4. tmp' \in File
  <2>1. \A i \in first..last : sstables[i] \in Table
    BY <1>2
  <2>2. /\ Len(run) \in Nat /\ Len(run) = last - first + 1
        /\ \A i \in 1..(last - first + 1) : run[i] = sstables[first + i - 1]
    BY <1>3, <2>1, SubSeqIs
  <2> HIDE DEF run
  <2>3. ASSUME NEW i \in 1..Len(run) PROVE run[i].data \in Layer
    <3>1. i \in 1..(last - first + 1)
      BY <2>2
    <3>2. run[i] = sstables[first + i - 1]
      BY <2>2, <3>1
    <3>3. first + i - 1 \in 1..Len(sstables)
      BY <1>2, <1>3, <3>1
    <3> QED BY <1>2, <3>2, <3>3
  <2>4. Merged(run, last = Len(sstables), now) \in Layer
    BY <2>2, <2>3, MergedType
  <2> QED BY <1>1, <2>4 DEF File
<1>5. paths \in Seq(SeqNo) /\ Len(paths) = last - first
  <2>1. paths \in [1..(last - first) -> SeqNo]
    <3> SUFFICES ASSUME NEW i \in 1..(last - first) PROVE sstables[first + i].seq \in SeqNo
      OBVIOUS
    <3>1. first + i \in 1..Len(sstables)
      BY <1>2, <1>3
    <3> QED BY <1>2, <3>1
  <2> HIDE DEF paths
  <2> QED BY <1>3, <2>1, FunctionIsSeq
<1>6. \A i \in 1..(last - first) :
        paths[i] = sstables[first + i].seq /\ first + i \in 1..Len(sstables)
  BY <1>2, <1>3
<1> HIDE DEF run, paths
<1>7. job' \in Job
  <2>1. sstables[first].seq \in 0..MaxSeq
    BY <1>2, StoreAssumption DEF SeqNo
  <2> QED BY <1>1, <1>3, <1>5, <2>1 DEF Job
<1>8. TypeOK'
  <2>1. WalTypeOK'
    BY <1>1, WalStepsType DEF Quiet, TypeOK
  <2> QED BY <1>1, <1>4, <1>7, <2>1
          DEF TypeOK, Quiet, memVars, histVars, Running, MergeSteps
<1>9. NamesInOrder'
  BY <1>1 DEF NamesInOrder, memVars
<1>10. LocalsStillHold'
  <2>1. sstables[first].seq \in SeqNo /\ sstables[first].seq < next_sequence
    BY <1>2 DEF NamesInOrder
  <2>2. \A i \in 1..Len(paths) : paths[i] < sstables[first].seq
    <3> SUFFICES ASSUME NEW i \in 1..Len(paths) PROVE paths[i] < sstables[first].seq
      OBVIOUS
    <3>1. paths[i] = sstables[first + i].seq /\ first + i \in 1..Len(sstables)
          /\ first < first + i
      BY <1>3, <1>5, <1>6
    <3>2. sstables[first].seq > sstables[first + i].seq
      BY <3>1 DEF NamesInOrder
    <3> QED BY <1>2, <3>1, <3>2
  <2>3. first + Len(paths) <= Len(sstables)
    BY <1>2, <1>3, <1>5
  <2>4. /\ job'.at = first /\ job'.target = sstables[first].seq /\ job'.paths = paths
    BY <1>1
  <2>5. tmp' # Nil /\ pc' = "merge_write" /\ sstables' = sstables
        /\ next_sequence' = next_sequence
    BY <1>1, <1>4, StoreAssumption DEF memVars
  <2> QED BY <2>1, <2>2, <2>3, <2>4, <2>5 DEF LocalsStillHold, FlushSteps, MergeSteps, WipeSteps
<1> QED BY <1>8, <1>9, <1>10

-----------------------------------------------------------------------------
(* Taking a run out of the vector and putting its merge back *)

Descending(tables) ==
  \A i, j \in 1..Len(tables) : i < j => tables[i].seq > tables[j].seq

\* The tables of a vector either side of a number that goes in at position at.
SplitsAt(tables, at, n) ==
  /\ at \in 1..(Len(tables) + 1)
  /\ \A i \in 1..Len(tables) : IF i < at THEN tables[i].seq > n ELSE tables[i].seq < n

\* Once a run is out, the number of its newest table fits where the run was.
LEMMA RemovedKeepsOrder ==
  ASSUME NEW tables \in Seq(Table), Descending(tables),
         NEW first \in 1..Len(tables), NEW gap \in Nat \ {0},
         first + gap <= Len(tables) + 1,
         NEW r \in Seq(Table), Len(r) = Len(tables) - gap,
         \A i \in 1..(first - 1) : r[i] = tables[i],
         \A i \in first..Len(r) : r[i] = tables[i + gap]
  PROVE  /\ Descending(r)
         /\ SplitsAt(r, first, tables[first].seq)
         /\ \A i \in 1..Len(r) : \E a \in 1..Len(tables) : r[i] = tables[a]
<1>1. Len(tables) \in Nat /\ Len(r) \in Nat /\ first \in Nat \ {0}
  <2>1. Len(tables) \in Nat
    BY SeqIs
  <2> QED BY <2>1
<1>3. \A i \in 1..Len(tables) : tables[i].seq \in Int
  <2>1. \A i \in 1..Len(tables) : tables[i] \in Table
    BY ElementIs
  <2> QED BY <2>1 DEF Table, SeqNo
\* Where each of the tables left comes from.
<1> DEFINE from(i) == IF i < first THEN i ELSE i + gap
<1>4. \A i \in 1..Len(r) : r[i] = tables[from(i)] /\ from(i) \in 1..Len(tables)
  <2> SUFFICES ASSUME NEW i \in 1..Len(r)
               PROVE  r[i] = tables[from(i)] /\ from(i) \in 1..Len(tables)
    OBVIOUS
  <2>1. CASE i < first
    <3>1. i \in 1..(first - 1) /\ i \in 1..Len(tables)
      BY <1>1, <2>1
    <3> QED BY <2>1, <3>1
  <2>2. CASE ~(i < first)
    <3>1. i \in first..Len(r) /\ i + gap \in 1..Len(tables)
      BY <1>1, <2>2
    <3> QED BY <2>2, <3>1
  <2> QED BY <2>1, <2>2
<1>5. \A i, j \in 1..Len(r) : i < j => from(i) < from(j)
  BY <1>1
<1>6. \A i \in 1..Len(r) : IF i < first THEN from(i) < first ELSE first < from(i)
  BY <1>1
<1> HIDE DEF from
<1>7. Descending(r)
  BY <1>4, <1>5 DEF Descending
<1>8. \A i \in 1..Len(r) : IF i < first THEN r[i].seq > tables[first].seq
                                         ELSE r[i].seq < tables[first].seq
  BY <1>3, <1>4, <1>6, ZenonT(30) DEF Descending
<1>9. first \in 1..(Len(r) + 1)
  BY <1>1
<1> QED BY <1>4, <1>7, <1>8, <1>9, ZenonT(30) DEF SplitsAt

\* A table put in where its number fits leaves the vector in order.
LEMMA InsertedKeepsOrder ==
  ASSUME NEW tables \in Seq(Table), Descending(tables),
         NEW m \in Table, NEW at \in Nat, SplitsAt(tables, at, m.seq),
         NEW r \in Seq(Table), Len(r) = Len(tables) + 1, r[at] = m,
         \A i \in 1..(at - 1) : r[i] = tables[i],
         \A i \in (at + 1)..Len(r) : r[i] = tables[i - 1]
  PROVE  /\ Descending(r)
         /\ \A i \in 1..Len(r) : r[i] = m \/ \E a \in 1..Len(tables) : r[i] = tables[a]
<1>0. Len(tables) \in Nat /\ at \in 1..(Len(tables) + 1)
  <2>1. Len(tables) \in Nat
    BY SeqIs
  <2> QED BY <2>1 DEF SplitsAt
<1>4. \A i \in 1..Len(tables) : tables[i].seq \in Int
  <2>1. \A i \in 1..Len(tables) : tables[i] \in Table
    BY ElementIs
  <2> QED BY <2>1 DEF Table, SeqNo
<1>5. m.seq \in Int
  BY DEF Table, SeqNo
<1>6. ASSUME NEW i \in 1..Len(r), NEW j \in 1..Len(r), i < j
      PROVE  r[i].seq > r[j].seq
  <2>1. CASE j < at
    <3>1. i \in 1..(at - 1) /\ j \in 1..(at - 1)
      BY <1>0, <1>6, <2>1
    <3>2. i \in 1..Len(tables) /\ j \in 1..Len(tables)
      BY <1>0, <3>1
    <3>3. r[i] = tables[i] /\ r[j] = tables[j]
      BY <3>1
    <3> QED BY <1>6, <3>2, <3>3 DEF Descending
  <2>2. CASE j = at
    <3>1. r[i] = tables[i] /\ i \in 1..Len(tables) /\ i < at
      BY <1>0, <1>6, <2>2
    <3>2. tables[i].seq > m.seq
      BY <3>1 DEF SplitsAt
    <3> QED BY <2>2, <3>1, <3>2
  <2>3. CASE i = at
    <3>1. r[j] = tables[j - 1] /\ j - 1 \in 1..Len(tables) /\ ~(j - 1 < at)
      BY <1>0, <1>6, <2>3
    <3>2. tables[j - 1].seq < m.seq
      BY <3>1 DEF SplitsAt
    <3> QED BY <1>4, <1>5, <2>3, <3>1, <3>2
  <2>4. CASE i < at /\ at < j
    <3>1. r[i] = tables[i] /\ i \in 1..Len(tables) /\ r[j] = tables[j - 1]
          /\ j - 1 \in 1..Len(tables) /\ ~(j - 1 < at)
      BY <1>0, <1>6, <2>4
    <3>2. tables[i].seq > m.seq /\ tables[j - 1].seq < m.seq
      BY <2>4, <3>1 DEF SplitsAt
    <3>3. tables[i].seq \in Int /\ tables[j - 1].seq \in Int
      BY <1>4, <3>1
    <3>4. tables[i].seq > tables[j - 1].seq
      BY <1>5, <3>2, <3>3
    <3> QED BY <3>1, <3>4
  <2>5. CASE at < i
    <3>1. r[i] = tables[i - 1] /\ i - 1 \in 1..Len(tables) /\ r[j] = tables[j - 1]
          /\ j - 1 \in 1..Len(tables) /\ i - 1 < j - 1
      BY <1>0, <1>6, <2>5
    <3>2. tables[i - 1].seq > tables[j - 1].seq
      BY <3>1 DEF Descending
    <3> QED BY <3>1, <3>2
  <2>6. i \in Int /\ j \in Int /\ at \in Int /\ i < j
    BY <1>6
  <2>7. \/ j < at \/ j = at \/ i = at
        \/ i < at /\ at < j
        \/ at < i
    BY <2>6
  <2> QED BY <2>1, <2>2, <2>3, <2>4, <2>5, <2>7
<1>7. ASSUME NEW i \in 1..Len(r)
      PROVE  r[i] = m \/ \E a \in 1..Len(tables) : r[i] = tables[a]
  <2>1. CASE i < at
    <3>1. r[i] = tables[i] /\ i \in 1..Len(tables)
      BY <1>0, <2>1
    <3> QED BY <3>1
  <2>2. CASE i > at
    <3>1. r[i] = tables[i - 1] /\ i - 1 \in 1..Len(tables)
      BY <1>0, <2>2
    <3> QED BY <3>1
  <2>3. i \in Int /\ at \in Int
    OBVIOUS
  <2>4. i < at \/ i = at \/ i > at
    BY <2>3
  <2> QED BY <2>1, <2>2, <2>4
<1> QED BY <1>6, <1>7 DEF Descending

\* What MergeSync leaves of the vector.
LEMMA TakenOut ==
  ASSUME NEW tables \in Seq(Table), Descending(tables),
         NEW at \in 1..Len(tables), NEW n \in Nat, at + n <= Len(tables)
  PROVE  LET r == SubSeq(tables, 1, at - 1) \o SubSeq(tables, at + n + 1, Len(tables))
         IN  /\ r \in Seq(Table)
             /\ Descending(r)
             /\ SplitsAt(r, at, tables[at].seq)
             /\ \A i \in 1..Len(r) : \E a \in 1..Len(tables) : r[i] = tables[a]
<1> DEFINE last == at + n
           gap == n + 1
           r == SubSeq(tables, 1, at - 1) \o SubSeq(tables, last + 1, Len(tables))
<1>1. Len(tables) \in Nat
  BY SeqIs
<1>2. last \in at..Len(tables) /\ last - at + 1 = gap
      /\ gap \in Nat \ {0} /\ at + gap <= Len(tables) + 1
  BY <1>1
<1>3. r = SubSeq(tables, 1, at - 1) \o SubSeq(tables, at + n + 1, Len(tables))
  OBVIOUS
<1> HIDE DEF last, gap
<1>4. /\ r \in Seq(Table)
      /\ Len(r) = Len(tables) - (last - at + 1)
      /\ \A i \in 1..(at - 1) : r[i] = tables[i]
      /\ \A i \in at..Len(r) : r[i] = tables[i + (last - at + 1)]
  BY <1>2, RemovedIs, ZenonT(30)
<1> HIDE DEF r
<1>5. /\ Len(r) = Len(tables) - gap
      /\ \A i \in 1..(at - 1) : r[i] = tables[i]
      /\ \A i \in at..Len(r) : r[i] = tables[i + gap]
  BY <1>2, <1>4, Zenon
<1>6. /\ Descending(r)
      /\ SplitsAt(r, at, tables[at].seq)
      /\ \A i \in 1..Len(r) : \E a \in 1..Len(tables) : r[i] = tables[a]
  BY <1>2, <1>4, <1>5, RemovedKeepsOrder, ZenonT(30)
<1> QED BY <1>3, <1>4, <1>6, ZenonT(30)

\* ... and what MergeUnlinkSync makes of it.
LEMMA PutIn ==
  ASSUME NEW tables \in Seq(Table), Descending(tables),
         NEW m \in Table, NEW at \in Nat, SplitsAt(tables, at, m.seq)
  PROVE  LET r == SubSeq(tables, 1, at - 1) \o <<m>> \o SubSeq(tables, at, Len(tables))
         IN  /\ r \in Seq(Table)
             /\ Descending(r)
             /\ \A i \in 1..Len(r) : r[i] = m \/ \E a \in 1..Len(tables) : r[i] = tables[a]
<1> DEFINE last == at - 1
           r == Replaced(tables, at, last, m)
<1>1. Len(tables) \in Nat
  BY SeqIs
<1>2. at \in 1..(Len(tables) + 1)
  BY DEF SplitsAt
<1>3. last \in (at - 1)..Len(tables) /\ last - at = -1 /\ last + 1 = at
  BY <1>1, <1>2
<1>4. r = SubSeq(tables, 1, at - 1) \o <<m>> \o SubSeq(tables, at, Len(tables))
  <2> HIDE DEF last
  <2> QED BY <1>3, ZenonT(30) DEF Replaced
<1> HIDE DEF last
<1>5. /\ r \in Seq(Table)
      /\ Len(r) = Len(tables) - (last - at)
      /\ r[at] = m
      /\ \A i \in 1..(at - 1) : r[i] = tables[i]
      /\ \A i \in (at + 1)..Len(r) : r[i] = tables[i + (last - at)]
  <2>1. last \in (at - 1)..Len(tables)
    BY <1>3, Zenon
  <2>2. Spliced(r, Table, tables, at, last, m)
    BY <1>2, <2>1, ReplacedIs, Zenon
  <2> HIDE DEF r
  <2> QED BY <2>2, Zenon DEF Spliced
<1> HIDE DEF r
<1>6. Len(r) = Len(tables) + 1
  <2>1. Len(r) = Len(tables) - (last - at) /\ last - at = -1
    BY <1>3, <1>5, Zenon
  <2> QED BY <1>1, <2>1
<1>7. \A i \in (at + 1)..Len(r) : r[i] = tables[i - 1]
  <2>1. \A i \in (at + 1)..Len(r) : i + (last - at) = i - 1
    BY <1>1, <1>2, <1>3, <1>6
  <2> QED BY <1>5, <2>1
<1>8. /\ Descending(r)
      /\ \A i \in 1..Len(r) : r[i] = m \/ \E a \in 1..Len(tables) : r[i] = tables[a]
  BY <1>5, <1>6, <1>7, InsertedKeepsOrder, ZenonT(30)
<1> QED BY <1>4, <1>5, <1>8, ZenonT(30)

\* No job is a job.
LEMMA NoJobType == NoJob \in Job
BY StoreAssumption, NothingIs DEF NoJob, Job

\* Every way out of a compaction that leaves memory and the log alone.
LEMMA CompactionOverKeeps ==
  ASSUME IInv, CompactionOver, UNCHANGED <<memVars, now, histVars>>, WalTypeOK',
         dir' \in [SeqNo -> File \cup {Nil}], ddir' \in [SeqNo -> File \cup {Nil}],
         tmp' \in File \cup {Nil}
  PROVE  IInv'
BY NoJobType
   DEF IInv, CompactionOver, Goto, TypeOK, NamesInOrder, LocalsStillHold, memVars, histVars,
       Running, LoopSteps, FlushSteps, MergeSteps, WipeSteps

\* fsync_dir after the rename, and the inputs leave the vector.
LEMMA MergeSyncKeeps ==
  ASSUME IInv, MergeSync
  PROVE  IInv'
<1> USE DEF IInv, Goto
<1>1. WalTypeOK'
  BY WalStepsType DEF MergeSync, TypeOK
<1>2. /\ sstables \in Seq(Table) /\ Len(sstables) \in Nat
      /\ \A i \in 1..Len(sstables) : sstables[i] \in Table /\ sstables[i].seq \in Int
  BY TablesType
<1> DEFINE at == job.at
           n  == Len(job.paths)
           rest == SubSeq(sstables, 1, at - 1) \o
                   SubSeq(sstables, at + n + 1, Len(sstables))
<1>3. /\ pc = "merge_sync" /\ n \in Nat
      /\ at \in 1..Len(sstables) /\ at + n \in at..Len(sstables)
      /\ job.target = sstables[at].seq /\ job.target \in SeqNo
      /\ job.target < next_sequence /\ dir[job.target] # Nil
      /\ \A i \in 1..n : job.paths[i] < job.target
  <2>1. pc = "merge_sync" /\ job.paths \in Seq(SeqNo)
    BY DEF MergeSync, TypeOK, Job
  <2>2. Len(job.paths) \in Nat
    BY <2>1, SeqIs
  <2>3. /\ at \in 1..Len(sstables) /\ job.target = sstables[at].seq /\ at + n <= Len(sstables)
        /\ job.target \in SeqNo /\ job.target < next_sequence /\ dir[job.target] # Nil
        /\ \A i \in 1..n : job.paths[i] < job.target
    BY <2>1, Zenon DEF LocalsStillHold, MergeSteps
  <2>4. at + n \in at..Len(sstables)
    BY <1>2, <2>2, <2>3
  <2> QED BY <2>1, <2>2, <2>3, <2>4, Zenon
<1>4. CASE sstables' = rest /\ pc' = "merge_unlink" /\ UNCHANGED job
  <2>1. UNCHANGED <<memtable, next_sequence, dir, tmp, now, histVars>> /\ ddir' \in {ddir, dir}
    BY DEF MergeSync, FsyncDirOk
  <2>2. Descending(sstables) /\ at + n <= Len(sstables)
    <3>1. Descending(sstables)
      BY DEF NamesInOrder, Descending
    <3> HIDE DEF at, n
    <3>2. at + n <= Len(sstables)
      BY <1>2, <1>3
    <3> QED BY <3>1, <3>2
  <2>3. /\ rest \in Seq(Table)
        /\ Descending(rest)
        /\ SplitsAt(rest, at, sstables[at].seq)
        /\ \A i \in 1..Len(rest) : \E a \in 1..Len(sstables) : rest[i] = sstables[a]
    <3> HIDE DEF at, n
    <3> QED BY <1>2, <1>3, <2>2, TakenOut, ZenonT(30)
  <2> HIDE DEF at, n, rest
  <2>4. TypeOK'
    BY <1>1, <1>4, <2>1, <2>3, ZenonT(30) DEF TypeOK, histVars, Running, MergeSteps
  <2>5. NamesInOrder'
    <3>1. \A i \in 1..Len(rest) : rest[i].seq < next_sequence
      BY <2>3, ZenonT(30) DEF NamesInOrder
    <3> QED BY <1>4, <2>1, <2>3, <3>1, ZenonT(30) DEF NamesInOrder, Descending
  <2>6. LocalsStillHold'
    BY <1>3, <1>4, <2>1, <2>3
       DEF LocalsStillHold, SplitsAt, FlushSteps, MergeSteps, WipeSteps, at, n
  <2> QED BY <2>4, <2>5, <2>6
<1>5. CASE CompactionOver /\ UNCHANGED <<sstables, ddir, walVars>>
  BY <1>1, <1>5, CompactionOverKeeps DEF MergeSync, TypeOK, memVars
<1> QED BY <1>4, <1>5, ZenonT(30) DEF MergeSync, Erased

\* fsync_dir after the unlinks, and the merged table enters it.
LEMMA MergeUnlinkSyncKeeps ==
  ASSUME IInv, MergeUnlinkSync
  PROVE  IInv'
<1> USE DEF IInv, Goto
<1>1. WalTypeOK' /\ ddir' \in [SeqNo -> File \cup {Nil}]
  BY WalStepsType, ZenonT(30) DEF MergeUnlinkSync, FsyncDirIgnored, FsyncDirOk, TypeOK
<1>2. UNCHANGED <<memtable, next_sequence, dir, tmp, now, histVars>>
  BY ZenonT(30) DEF MergeUnlinkSync
<1>3. CASE pc' = "merge_empty" /\ UNCHANGED <<sstables, job>>
  <2>1. TypeOK'
    BY <1>1, <1>2, <1>3 DEF TypeOK, histVars, Running, MergeSteps
  <2>2. NamesInOrder'
    BY <1>2, <1>3 DEF NamesInOrder
  <2>3. LocalsStillHold'
    BY <1>2, <1>3
       DEF MergeUnlinkSync, LocalsStillHold, FlushSteps, MergeSteps, WipeSteps
  <2> QED BY <2>1, <2>2, <2>3
<1> DEFINE at == job.at
           m  == [seq |-> job.target, data |-> dir[job.target].data]
           r  == SubSeq(sstables, 1, at - 1) \o <<m>> \o SubSeq(sstables, at, Len(sstables))
<1>4. CASE /\ sstables' = SubSeq(sstables, 1, job.at - 1)
                \o <<[seq |-> job.target, data |-> dir[job.target].data]>>
                \o SubSeq(sstables, job.at, Len(sstables))
           /\ CompactionOver
  <2>1. /\ SplitsAt(sstables, at, job.target)
        /\ job.target \in SeqNo /\ job.target < next_sequence /\ dir[job.target] # Nil
    BY DEF MergeUnlinkSync, LocalsStillHold, MergeSteps, SplitsAt
  <2>2. m \in Table /\ m.seq = job.target
    BY <2>1 DEF TypeOK, File, Table
  <2>3. sstables \in Seq(Table) /\ Len(sstables) \in Nat
    BY TablesType
  <2>4. at \in Nat /\ SplitsAt(sstables, at, m.seq)
    <3> HIDE DEF at, m
    <3>1. SplitsAt(sstables, at, m.seq)
      BY <2>1, <2>2
    <3>2. at \in 1..(Len(sstables) + 1)
      BY <2>1 DEF SplitsAt
    <3> QED BY <2>3, <3>1, <3>2
  <2>5. sstables' = r
    BY <1>4
  <2>6. Descending(sstables)
    BY DEF NamesInOrder, Descending
  <2>7. /\ r \in Seq(Table)
        /\ Descending(r)
        /\ \A i \in 1..Len(r) : r[i] = m \/ \E a \in 1..Len(sstables) : r[i] = sstables[a]
    <3> HIDE DEF at, m
    <3> QED BY <2>2, <2>3, <2>4, <2>6, PutIn, ZenonT(30)
  <2> HIDE DEF at, m, r
  <2>8. pc' = "sync" /\ job' = NoJob
    BY <1>4 DEF CompactionOver
  <2>9. TypeOK'
    BY <1>1, <1>2, <2>5, <2>7, <2>8, NoJobType, Zenon DEF TypeOK, histVars, Running, LoopSteps
  <2>10. NamesInOrder'
    <3>1. \A i \in 1..Len(r) : r[i].seq < next_sequence
      <4>1. SUFFICES ASSUME NEW i \in 1..Len(r)
                     PROVE  r[i].seq < next_sequence
        OBVIOUS
      <4>2. CASE r[i] = m
        BY <2>1, <2>2, <4>2, Zenon
      <4>3. CASE \E a \in 1..Len(sstables) : r[i] = sstables[a]
        <5>1. \A a \in 1..Len(sstables) : sstables[a].seq < next_sequence
          BY Zenon DEF NamesInOrder
        <5> QED BY <4>3, <5>1, Zenon
      <4> QED BY <2>7, <4>2, <4>3, Zenon
    <3>2. sstables' = r /\ next_sequence' = next_sequence
      BY <1>2, <2>5, Zenon
    <3>3. \A i, j \in 1..Len(r) : i < j => r[i].seq > r[j].seq
      BY <2>7, Zenon DEF Descending
    <3> QED BY <3>1, <3>2, <3>3, Zenon DEF NamesInOrder
  <2>11. LocalsStillHold'
    BY <2>8 DEF LocalsStillHold, FlushSteps, MergeSteps, WipeSteps
  <2> QED BY <2>9, <2>10, <2>11
<1> QED BY <1>3, <1>4, ZenonT(30) DEF MergeUnlinkSync

\* The other steps of maybe_compact.
LEMMA MergeKeeps ==
  ASSUME IInv, MergeWrite \/ MergeRename \/ MergeUnlink \/ MergeEmpty \/ MergeEmptySync
  PROVE  IInv'
<1> USE DEF IInv, Goto
<1>0. WalTypeOK /\ (tmp # Nil => [tmp EXCEPT !.status = "synced"] \in File)
  BY DEF TypeOK, File
<1>1. CASE MergeWrite
  <2>1. WalTypeOK'
    BY <1>0, <1>1, WalStepsType DEF MergeWrite, Quiet
  <2>2. CASE CompactionOver /\ tmp' = Nil
    BY <1>1, <2>1, <2>2, CompactionOverKeeps DEF MergeWrite, Quiet, TypeOK
  <2>3. CASE /\ tmp' = [tmp EXCEPT !.status = "synced"]
             /\ pc' = "merge_rename" /\ UNCHANGED job
    <3>1. tmp' \in File
      BY <1>0, <1>1, <2>3 DEF MergeWrite, LocalsStillHold
    <3>2. TypeOK'
      BY <1>1, <2>1, <2>3, <3>1
         DEF MergeWrite, Quiet, TypeOK, memVars, histVars, Running, MergeSteps
    <3>3. NamesInOrder'
      BY <1>1 DEF MergeWrite, NamesInOrder, memVars
    <3>4. LocalsStillHold'
      BY <1>1, <2>3, <3>1, StoreAssumption, ZenonT(30)
         DEF MergeWrite, LocalsStillHold, memVars, FlushSteps, MergeSteps, WipeSteps
    <3> QED BY <3>2, <3>3, <3>4
  <2> QED BY <1>1, <2>2, <2>3 DEF MergeWrite
<1>2. CASE MergeRename
  <2>1. WalTypeOK'
    BY <1>0, <1>2, WalStepsType DEF MergeRename, Quiet
  <2>2. CASE CompactionOver /\ UNCHANGED dir
    BY <1>2, <2>1, <2>2, CompactionOverKeeps DEF MergeRename, Quiet, TypeOK
  <2>3. CASE /\ dir' = [dir EXCEPT ![job.target] = tmp]
             /\ pc' = "merge_sync" /\ UNCHANGED job
    <3>1. TypeOK'
      BY <1>2, <2>1, <2>3, ZenonT(30)
         DEF MergeRename, Quiet, TypeOK, memVars, histVars, Running, MergeSteps
    <3>2. NamesInOrder'
      BY <1>2 DEF MergeRename, NamesInOrder, memVars
    <3>3. LocalsStillHold'
      BY <1>2, <2>3
         DEF MergeRename, LocalsStillHold, memVars, FlushSteps, MergeSteps, WipeSteps, TypeOK
    <3> QED BY <3>1, <3>2, <3>3
  <2> QED BY <1>2, <2>2, <2>3 DEF MergeRename
<1>3. CASE MergeUnlink
  <2>1. WalTypeOK'
    BY <1>0, <1>3, WalStepsType DEF MergeUnlink, Quiet
  <2>2. /\ job.paths \in Seq(SeqNo) /\ Len(job.paths) \in Nat
        /\ \A i \in 1..Len(job.paths) : job.paths[i] \in Int
    <3>1. job.paths \in Seq(SeqNo)
      BY DEF TypeOK, Job
    <3>2. \A i \in 1..Len(job.paths) : job.paths[i] \in SeqNo
      BY <3>1, ElementIs
    <3> QED BY <3>1, <3>2, SeqIs DEF SeqNo
  <2>3. CASE job.paths = <<>>
    <3>1. pc' = "merge_unlink_sync" /\ UNCHANGED <<dir, job, memVars, ddir, tmp>>
      BY <1>3, <2>3 DEF MergeUnlink
    <3>2. TypeOK'
      BY <1>3, <2>1, <3>1 DEF MergeUnlink, Quiet, TypeOK, memVars, histVars, Running, MergeSteps
    <3>3. NamesInOrder'
      BY <3>1 DEF NamesInOrder, memVars
    <3>4. LocalsStillHold'
      BY <1>3, <3>1
         DEF MergeUnlink, LocalsStillHold, memVars, FlushSteps, MergeSteps, WipeSteps
    <3> QED BY <3>2, <3>3, <3>4
  <2>4. CASE job.paths # <<>>
    <3>1. /\ pc = "merge_unlink" /\ UNCHANGED <<pc, memVars, ddir, tmp, now, histVars>>
          /\ job' = [job EXCEPT !.paths = Tail(job.paths)]
          /\ dir' \in {dir, [dir EXCEPT ![Head(job.paths)] = Nil]}
      BY <1>3, <2>4 DEF MergeUnlink, Quiet
    <3>2. /\ Head(job.paths) = job.paths[1] /\ 1 \in 1..Len(job.paths)
          /\ Tail(job.paths) \in Seq(SeqNo)
          /\ Len(Tail(job.paths)) = Len(job.paths) - 1
          /\ \A i \in 1..Len(Tail(job.paths)) : Tail(job.paths)[i] = job.paths[i + 1]
      BY <2>2, <2>4, TailIs
    <3>3. /\ job'.paths = Tail(job.paths) /\ job'.at = job.at
          /\ job'.target = job.target /\ job' \in Job
      BY <3>1, <3>2, ZenonT(30) DEF TypeOK, Job
    <3>4. TypeOK'
      BY <2>1, <3>1, <3>3 DEF TypeOK, memVars, histVars
    <3>5. NamesInOrder'
      BY <3>1 DEF NamesInOrder, memVars
    <3>6. LocalsStillHold'
      <4>1. /\ job.target \in SeqNo /\ job.target < next_sequence /\ dir[job.target] # Nil
            /\ \A i \in 1..Len(job.paths) : job.paths[i] < job.target
        BY <3>1 DEF LocalsStillHold, MergeSteps
      <4>2. Head(job.paths) # job.target
        BY <2>2, <3>2, <4>1 DEF SeqNo
      <4>3. dir'[job.target] # Nil
        BY <3>1, <4>1, <4>2 DEF TypeOK
      <4>4. \A i \in 1..Len(Tail(job.paths)) : Tail(job.paths)[i] < job.target
        <5> SUFFICES ASSUME NEW i \in 1..Len(Tail(job.paths))
                     PROVE  Tail(job.paths)[i] < job.target
          OBVIOUS
        <5>1. i + 1 \in 1..Len(job.paths) /\ Tail(job.paths)[i] = job.paths[i + 1]
          BY <2>2, <3>2
        <5> QED BY <4>1, <5>1
      <4> QED BY <3>1, <3>3, <4>1, <4>3, <4>4
              DEF LocalsStillHold, memVars, FlushSteps, MergeSteps, WipeSteps
    <3> QED BY <3>4, <3>5, <3>6
  <2> QED BY <2>3, <2>4
<1>4. CASE MergeEmpty
  <2>1. WalTypeOK'
    BY <1>0, <1>4, WalStepsType DEF MergeEmpty, Quiet
  <2>2. TypeOK'
    BY <1>4, <2>1 DEF MergeEmpty, Quiet, TypeOK, memVars, histVars, Running, MergeSteps
  <2>3. NamesInOrder'
    BY <1>4, Zenon DEF MergeEmpty, NamesInOrder, memVars
  <2>4. LocalsStillHold'
    BY <1>4 DEF MergeEmpty, LocalsStillHold, memVars, FlushSteps, MergeSteps, WipeSteps
  <2> QED BY <2>2, <2>3, <2>4
<1>5. CASE MergeEmptySync
  <2>1. WalTypeOK' /\ ddir' \in [SeqNo -> File \cup {Nil}]
    BY <1>0, <1>5, WalStepsType, ZenonT(30) DEF MergeEmptySync, FsyncDirIgnored, FsyncDirOk, TypeOK
  <2> QED BY <1>5, <2>1, CompactionOverKeeps DEF MergeEmptySync, TypeOK
<1> QED BY <1>1, <1>2, <1>3, <1>4, <1>5

\* Every step of flush_all.
LEMMA WipeKeeps ==
  ASSUME IInv, Wipe
  PROVE  IInv'
<1> USE DEF IInv, Goto
<1>0. WalTypeOK
  BY DEF TypeOK
<1>1. CASE WipeUnlink
  <2>1. WalTypeOK'
    BY <1>0, <1>1, WalStepsType DEF WipeUnlink, Quiet
  <2>2. /\ pc' \in {"wipe_unlink", "wipe_sync"} /\ pc = "wipe_unlink"
        /\ UNCHANGED <<memVars, ddir, tmp, now, histVars>>
        /\ dir' \in {dir, [dir EXCEPT ![Head(job.paths)] = Nil]}
        /\ \/ UNCHANGED job
           \/ /\ job.paths # <<>>
              /\ \/ job' = [job EXCEPT !.paths = Tail(job.paths)]
                 \/ job' = [job EXCEPT !.paths = Tail(job.paths), !.ok = FALSE]
    BY <1>1 DEF WipeUnlink, Quiet
  <2>3. job' \in Job
    <3>1. job.paths \in Seq(SeqNo)
      BY DEF TypeOK, Job
    <3>2. job.paths # <<>> => Tail(job.paths) \in Seq(SeqNo)
      BY <3>1, TailIs
    <3> QED BY <2>2, <3>2, ZenonT(30) DEF TypeOK, Job
  <2>4. TypeOK'
    BY <2>1, <2>2, <2>3 DEF TypeOK, memVars, histVars, Running, WipeSteps
  <2>5. NamesInOrder'
    BY <2>2 DEF NamesInOrder, memVars
  <2>6. LocalsStillHold'
    BY <2>2 DEF LocalsStillHold, memVars, FlushSteps, MergeSteps, WipeSteps
  <2> QED BY <2>4, <2>5, <2>6
<1>2. CASE WipeSync
  <2>1. WalTypeOK'
    BY <1>0, <1>2, WalStepsType DEF WipeSync
  <2>2. TypeOK'
    BY <1>2, <2>1, NoJobType
       DEF WipeSync, FlushAllFails, FsyncDirOk, TypeOK, memVars, histVars, Running,
           LoopSteps, WipeSteps
  <2>3. NamesInOrder'
    BY <1>2 DEF WipeSync, NamesInOrder, memVars
  <2>4. LocalsStillHold'
    BY <1>2
       DEF WipeSync, FlushAllFails, LocalsStillHold, memVars, FlushSteps, MergeSteps, WipeSteps
  <2> QED BY <2>2, <2>3, <2>4
<1>3. CASE WipeTruncate
  <2>1. WalTypeOK'
    BY <1>0, <1>3, WalStepsType DEF WipeTruncate
  <2>2. TypeOK'
    BY <1>3, <2>1, NoJobType
       DEF WipeTruncate, FlushAllFails, TypeOK, memVars, diskVars, histVars, Running,
           LoopSteps, WipeSteps
  <2>3. NamesInOrder'
    BY <1>3, Zenon DEF WipeTruncate, NamesInOrder, memVars
  <2>4. LocalsStillHold'
    BY <1>3
       DEF WipeTruncate, FlushAllFails, LocalsStillHold, memVars, FlushSteps, MergeSteps, WipeSteps
  <2> QED BY <2>2, <2>3, <2>4
<1>4. CASE WipeLogSync
  <2>1. WalTypeOK'
    BY <1>0, <1>4, WalStepsType DEF WipeLogSync
  <2>2. sstables = <<>> /\ UNCHANGED <<sstables, diskVars, now>> /\ pc' = "serve" /\ job' = NoJob
    <3>1. pc = "wipe_logsync" /\ UNCHANGED <<sstables, diskVars, now>>
          /\ pc' = "serve" /\ job' = NoJob
      BY <1>4 DEF WipeLogSync, Goto
    <3> QED BY <3>1 DEF LocalsStillHold, WipeSteps
  <2>3. /\ hist' \in Seq(Db) /\ hist' # <<>>
        /\ memtable' \in Layer /\ next_sequence' \in 1..(MaxSeq + 1)
        /\ held' \in BOOLEAN /\ wiping' \in BOOLEAN
    <3>1. Append(hist, EmptyLayer) \in Seq(Db) /\ Append(hist, EmptyLayer) # <<>>
      <4>1. hist \in Seq(Db) /\ EmptyLayer \in Db
        BY EntryTypes DEF TypeOK, Db
      <4> QED BY <4>1, AppendIs
    <3>2. 1 \in 1..(MaxSeq + 1)
      BY StoreAssumption
    <3>3. \/ /\ memtable' = EmptyLayer /\ next_sequence' = 1
             /\ hist' = Append(hist, EmptyLayer) /\ held' = TRUE /\ wiping' = FALSE
          \/ UNCHANGED <<memtable, next_sequence, hist, held, wiping>>
      BY <1>4 DEF WipeLogSync, histVars
    <3>4. CASE UNCHANGED <<memtable, next_sequence, hist, held, wiping>>
      BY <3>4 DEF TypeOK
    <3>5. CASE /\ memtable' = EmptyLayer /\ next_sequence' = 1
               /\ hist' = Append(hist, EmptyLayer) /\ held' = TRUE /\ wiping' = FALSE
      BY <3>1, <3>2, <3>5, EntryTypes, ZenonT(30)
    <3> QED BY <3>3, <3>4, <3>5, ZenonT(30)
  <2>4. TypeOK'
    BY <2>1, <2>2, <2>3, NoJobType DEF TypeOK, diskVars, Running, LoopSteps
  <2>5. NamesInOrder'
    BY <2>2 DEF NamesInOrder
  <2>6. LocalsStillHold'
    BY <2>2, Zenon DEF LocalsStillHold, FlushSteps, MergeSteps, WipeSteps
  <2> QED BY <2>4, <2>5, <2>6
<1> QED BY <1>1, <1>2, <1>3, <1>4 DEF Wipe

\* However the process ends: a kill, a failed sync or a shutdown.
LEMMA DeathKeeps ==
  ASSUME IInv, MemoryGone, WalDies \/ SyncOk
  PROVE  IInv'
<1> USE DEF IInv, Goto
<1>1. WalTypeOK'
  BY WalStepsType DEF TypeOK
<1>2. hist' \in Seq(Db) /\ hist' # <<>>
  <2>1. RestartView(log, dir) \in Db
    BY RestartViewType DEF TypeOK, WalTypeOK
  <2>2. Found \in Seq(Db)
    BY <2>1, EntryTypes, NothingIs DEF Found, Db
  <2>3. hist \in Seq(Db) /\ hist # <<>> /\ hist' = hist \o Found
    BY DEF MemoryGone, TypeOK
  <2>4. hist \o Found \in Seq(Db) /\ hist \o Found # <<>>
    BY <2>2, <2>3, ConcatAt, NothingIs
  <2> QED BY <2>3, <2>4
<1>3. sstables' \in Seq(Table) /\ Len(sstables') = 0 /\ next_sequence' \in 1..(MaxSeq + 1)
  BY StoreAssumption, NothingIs DEF MemoryGone
<1>4. TypeOK'
  BY <1>1, <1>2, <1>3, NoJobType, EntryTypes, ZenonT(30) DEF MemoryGone, TypeOK, diskVars
<1>5. NamesInOrder'
  BY <1>3 DEF NamesInOrder
<1>6. LocalsStillHold'
  BY Zenon DEF MemoryGone, LocalsStillHold, FlushSteps, MergeSteps, WipeSteps
<1> QED BY <1>4, <1>5, <1>6

\* Whatever a power cut leaves.
LEMMA PowerLossKeeps ==
  ASSUME IInv, PowerLoss
  PROVE  IInv'
<1> USE DEF IInv, Goto
<1>1. PICK left \in LogsAfterPowerLoss, d \in DirsAfterPowerLoss :
        /\ WalLosesPower(left)
        /\ dir' = d /\ ddir' = d
        /\ hist' = <<RestartView(left, d)>>
  BY DEF PowerLoss
<1>2. left \in Seq(LogItem)
  <2>1. log \in Seq(LogItem) /\ Len(log) \in Nat /\ dlog \in Seq(LogItem) /\ synced \in Nat
    BY SeqIs DEF TypeOK, WalTypeOK
  <2>2. \A n \in synced..Len(log) : SubSeq(log, 1, n) \in Seq(LogItem)
    <3> SUFFICES ASSUME NEW n \in synced..Len(log) PROVE SubSeq(log, 1, n) \in Seq(LogItem)
      OBVIOUS
    <3>1. \A i \in 1..n : log[i] \in LogItem
      BY <2>1, ElementIs
    <3> QED BY <2>1, <3>1, SubSeqIs
  <2>3. <<Torn>> \in Seq(LogItem)
    BY DEF LogItem
  <2>4. \A n \in synced..(Len(log) - 1) : SubSeq(log, 1, n) \o <<Torn>> \in Seq(LogItem)
    <3> SUFFICES ASSUME NEW n \in synced..(Len(log) - 1)
                 PROVE  SubSeq(log, 1, n) \o <<Torn>> \in Seq(LogItem)
      OBVIOUS
    <3>1. n \in synced..Len(log)
      BY <2>1
    <3>2. SubSeq(log, 1, n) \in Seq(LogItem)
      BY <2>2, <3>1
    <3> QED BY <2>3, <3>2, ConcatAt
  <2>5. CASE left \in LogsOnDisk
    BY <2>1, <2>2, <2>4, <2>5 DEF LogsOnDisk
  <2>6. CASE left = <<>>
    BY <2>6, NothingIs
  <2> QED BY <2>5, <2>6 DEF LogsAfterPowerLoss
<1>3. d \in [SeqNo -> File \cup {Nil}]
  <2>1. \A f \in File \cup {Nil} : Settled(f) \in File \cup {Nil}
    BY DEF Settled, File
  <2>2. PICK undone : d = [n \in SeqNo |-> Settled(IF n \in undone THEN ddir[n] ELSE dir[n])]
    BY DEF DirsAfterPowerLoss
  <2>3. \A n \in SeqNo : Settled(IF n \in undone THEN ddir[n] ELSE dir[n]) \in File \cup {Nil}
    BY <2>1 DEF TypeOK
  <2> QED BY <2>2, <2>3
<1>4. hist' \in Seq(Db) /\ hist' # <<>>
  <2>1. RestartView(left, d) \in Db
    BY <1>2, <1>3, RestartViewType
  <2> QED BY <1>1, <2>1
<1>5. WalTypeOK'
  <2>1. Len(left) \in Nat
    BY <1>2, SeqIs
  <2> QED BY <1>1, <1>2, <2>1, ZenonT(30) DEF WalLosesPower, TypeOK, WalTypeOK
<1>6. sstables' \in Seq(Table) /\ Len(sstables') = 0 /\ next_sequence' \in 1..(MaxSeq + 1)
  BY StoreAssumption, NothingIs DEF PowerLoss
<1>7. TypeOK'
  BY <1>1, <1>3, <1>4, <1>5, <1>6, NoJobType, EntryTypes, ZenonT(30) DEF PowerLoss, TypeOK
<1>8. NamesInOrder'
  BY <1>6 DEF NamesInOrder
<1>9. LocalsStillHold'
  BY DEF PowerLoss, LocalsStillHold, FlushSteps, MergeSteps, WipeSteps
<1> QED BY <1>7, <1>8, <1>9

\* What sorting the names gives.
LEMMA NewestFirstIs ==
  ASSUME NEW names, NEW order \in NewestFirst(names)
  PROVE  \E n \in Nat : /\ order \in [1..n -> names]
                        /\ \A i, j \in 1..n : i < j => order[i] > order[j]
                        /\ \A m \in names : \E i \in 1..n : order[i] = m
<1>1. PICK n \in 0..MaxSeq : order \in [1..n -> names]
  BY DEF NewestFirst
<1>2. n \in Nat /\ DOMAIN order = 1..n
  BY <1>1, StoreAssumption
<1> QED BY <1>1, <1>2 DEF NewestFirst

\* The constructor: tables by their names, log replayed.
LEMMA RestartKeeps ==
  ASSUME IInv, Restart
  PROVE  IInv'
<1> USE DEF IInv, Goto
<1> DEFINE names == Names(dir)
<1>1. PICK order \in NewestFirst(names) :
        /\ sstables' = [i \in DOMAIN order |-> [seq |-> order[i], data |-> dir[order[i]].data]]
        /\ next_sequence' = IF names = {} THEN 1 ELSE order[1] + 1
  BY DEF Restart
<1>2. PICK n \in Nat :
        /\ order \in [1..n -> names]
        /\ \A i, j \in 1..n : i < j => order[i] > order[j]
        /\ \A m \in names : \E i \in 1..n : order[i] = m
  BY NewestFirstIs
<1>3. /\ sstables' = [i \in 1..n |-> [seq |-> order[i], data |-> dir[order[i]].data]]
      /\ names # {} => n >= 1
  BY <1>1, <1>2
<1>4. \A m \in names : m \in SeqNo /\ m \in Int /\ dir[m] \in File
  BY DEF Names, SeqNo, TypeOK
<1>5. \A i \in 1..n : /\ order[i] \in SeqNo /\ order[i] \in Int
                      /\ [seq |-> order[i], data |-> dir[order[i]].data] \in Table
  BY <1>2, <1>4 DEF Table, File
<1>6. sstables' \in Seq(Table) /\ Len(sstables') = n
  <2>1. sstables' \in [1..n -> Table]
    BY <1>3, <1>5
  <2> QED BY <1>2, <2>1, FunctionIsSeq
<1>7. \A i \in 1..n : sstables'[i].seq = order[i]
  BY <1>3
<1>8. next_sequence' \in 1..(MaxSeq + 1) /\ \A i \in 1..n : order[i] < next_sequence'
  <2>1. CASE names = {}
    <3>1. 1..n = {}
      BY <1>2, <2>1
    <3> QED BY <1>1, <2>1, <3>1, StoreAssumption
  <2>2. CASE names # {}
    <3>1. 1 \in 1..n /\ next_sequence' = order[1] + 1
      BY <1>1, <1>2, <1>3, <2>2
    <3>2. order[1] \in 1..MaxSeq
      BY <1>5, <3>1, ZenonT(30) DEF SeqNo
    <3>3. ASSUME NEW i \in 1..n PROVE order[i] <= order[1]
      <4>1. CASE i = 1
        BY <3>2, <4>1
      <4>2. CASE i # 1
        <5>1. 1 < i
          BY <1>2, <4>2
        <5>2. order[1] > order[i]
          BY <1>2, <3>1, <5>1
        <5>3. order[1] \in Int /\ order[i] \in Int
          <6>1. order[1] \in names /\ order[i] \in names
            BY <1>2, <3>1
          <6> HIDE DEF names
          <6> QED BY <1>4, <6>1
        <5> QED BY <5>2, <5>3
      <4> QED BY <4>1, <4>2
    <3>4. ASSUME NEW i \in 1..n PROVE order[i] < order[1] + 1
      <4>1. order[i] \in Int /\ order[i] <= order[1]
        BY <1>5, <3>3, ZenonT(30)
      <4> QED BY <3>2, <4>1
    <3> QED BY <3>1, <3>2, <3>4, StoreAssumption
  <2> QED BY <2>1, <2>2
<1>9. memtable' \in Layer
  BY ReplayedType, ZenonT(30) DEF Restart, TypeOK, WalTypeOK, LogItem
<1>10. WalTypeOK'
  BY WalStepsType DEF Restart, TypeOK
<1>11. TypeOK'
  BY <1>6, <1>8, <1>9, <1>10, ZenonT(30) DEF Restart, TypeOK, histVars, Running, LoopSteps
<1>12. NamesInOrder'
  BY <1>2, <1>6, <1>7, <1>8, ZenonT(30) DEF NamesInOrder
<1>13. LocalsStillHold'
  BY Zenon DEF Restart, LocalsStillHold, FlushSteps, MergeSteps, WipeSteps
<1> QED BY <1>11, <1>12, <1>13

-----------------------------------------------------------------------------
(* The invariant *)

\* A store on an empty directory.
LEMMA InitEstablishes == Init => IInv
<1> SUFFICES ASSUME Init PROVE IInv
  OBVIOUS
<1>1. WalTypeOK
  BY WalAssumption, NothingIs, ZenonT(30) DEF Init, WalInit, WalTypeOK
<1>2. hist \in Seq(Db) /\ hist # <<>>
  BY EntryTypes DEF Init, Db
<1>3. sstables \in Seq(Table) /\ Len(sstables) = 0
  BY NothingIs DEF Init
<1>4. TypeOK
  <2>1. next_sequence \in 1..(MaxSeq + 1) /\ now \in 1..(MaxNow + 1)
    BY StoreAssumption DEF Init
  <2>2. memtable \in Layer /\ job \in Job /\ pc \in Running
    BY NoJobType, EntryTypes DEF Init, Running, LoopSteps
  <2>3. /\ dir \in [SeqNo -> File \cup {Nil}]
        /\ ddir \in [SeqNo -> File \cup {Nil}]
        /\ tmp \in File \cup {Nil}
    BY DEF Init
  <2>4. held \in BOOLEAN /\ wiping \in BOOLEAN
    BY ZenonT(30) DEF Init
  <2> QED BY <1>1, <1>2, <1>3, <2>1, <2>2, <2>3, <2>4 DEF TypeOK
<1>5. NamesInOrder
  BY <1>3 DEF NamesInOrder
<1>6. LocalsStillHold
  BY DEF Init, LocalsStillHold, FlushSteps, MergeSteps, WipeSteps
<1> QED BY <1>4, <1>5, <1>6 DEF IInv

\* Every step keeps the invariant.
LEMMA NextKeeps == IInv /\ [Next]_vars => IInv'
<1> SUFFICES ASSUME IInv, [Next]_vars PROVE IInv'
  OBVIOUS
<1>1. CASE Command
  BY <1>1, CommandKeeps
<1>2. CASE Flush
  BY <1>2, FlushKeeps
<1>3. CASE EndBatch \/ SweepExpired \/ NoCompaction \/ LoopAgain \/ Tick
  BY <1>3, TailKeeps
<1>4. CASE \E first, last \in 1..Len(sstables) : Compact(first, last)
  BY <1>4, CompactKeeps
<1>5. CASE MergeSync
  BY <1>5, MergeSyncKeeps
<1>6. CASE MergeUnlinkSync
  BY <1>6, MergeUnlinkSyncKeeps
<1>7. CASE MergeWrite \/ MergeRename \/ MergeUnlink \/ MergeEmpty \/ MergeEmptySync
  BY <1>7, MergeKeeps
<1>8. CASE Wipe
  BY <1>8, WipeKeeps
<1>9. CASE EndBatchFails \/ Kill \/ Shutdown
  BY <1>9, DeathKeeps DEF EndBatchFails, Kill, Shutdown, ProcessDies
<1>10. CASE PowerLoss
  BY <1>10, PowerLossKeeps
<1>11. CASE Restart
  BY <1>11, RestartKeeps
<1>12. CASE UNCHANGED vars
  <2>1. UNCHANGED <<walVars, memVars, diskVars, histVars, pc, job, now>>
    BY <1>12 DEF vars
  <2>2. TypeOK'
    BY <2>1 DEF IInv, TypeOK, WalTypeOK, walVars, memVars, diskVars, histVars
  <2>3. NamesInOrder'
    BY <2>1 DEF IInv, NamesInOrder, memVars
  <2>4. LocalsStillHold'
    BY <2>1 DEF IInv, LocalsStillHold, memVars, diskVars
  <2> QED BY <2>2, <2>3, <2>4 DEF IInv
<1> QED BY <1>1, <1>2, <1>3, <1>4, <1>5, <1>6, <1>7, <1>8, <1>9, <1>10, <1>11, <1>12
        DEF Next, Loop, Compaction

\* Hence it always holds.
LEMMA IInvAlways == Spec => []IInv
BY InitEstablishes, NextKeeps, PTL DEF Spec

\* The engine's state keeps its type, whatever fails and wherever it crashes.
THEOREM TypeCorrect == Spec => []TypeOK
<1>1. IInv => TypeOK
  BY DEF IInv
<1> QED BY <1>1, IInvAlways, PTL

\* The vector of tables stays ordered by the numbers in their names, so that
\* Store::lookup and a restart agree on which table is newer, and the number
\* the next flush will use is above them all.
THEOREM TablesStayInOrder == Spec => []NamesInOrder
<1>1. IInv => NamesInOrder
  BY DEF IInv
<1> QED BY <1>1, IInvAlways, PTL

\* The position and names that maybe_compact, flush and flush_all carry from
\* one system call to the next stay right.
THEOREM JobsKeepTheirBearings == Spec => []LocalsStillHold
<1>1. IInv => LocalsStillHold
  BY DEF IInv
<1> QED BY <1>1, IInvAlways, PTL

-----------------------------------------------------------------------------
(* Every table under its real name can be opened *)

\* A name is only ever given to a file that has been synced, in memory and on
\* the disk alike; that is what a power cut cannot take back.
NamedFilesSynced ==
  /\ \A n \in SeqNo : dir[n] # Nil => dir[n].status = "synced"
  /\ \A n \in SeqNo : ddir[n] # Nil => ddir[n].status = "synced"
  /\ pc \in {"flush_rename", "merge_rename"} => tmp.status = "synced"

\* No step names a table it has not synced.
LEMMA NamedFilesStep == IInv /\ NamedFilesSynced /\ [Next]_vars => NamedFilesSynced'
<1> SUFFICES ASSUME IInv, NamedFilesSynced, [Next]_vars PROVE NamedFilesSynced'
  OBVIOUS
<1> USE DEF NamedFilesSynced, Goto
<1>0. /\ dir \in [SeqNo -> File \cup {Nil}]
      /\ ddir \in [SeqNo -> File \cup {Nil}]
  BY DEF IInv, TypeOK
\* The steps that write a temporary file.
<1>1. CASE FlushWrite \/ MergeWrite
  <2>1. tmp \in File
    BY <1>1 DEF IInv, TypeOK, LocalsStillHold, FlushWrite, MergeWrite
  <2>2. [tmp EXCEPT !.status = "synced"].status = "synced"
    BY <2>1 DEF File
  <2> QED BY <1>1, <2>2, ZenonT(30) DEF FlushWrite, MergeWrite, CompactionOver
\* The steps that give it its name.
<1>2. CASE FlushRename \/ MergeRename
  BY <1>0, <1>2 DEF FlushRename, MergeRename, CompactionOver
\* The steps that take a name away.
<1>3. CASE MergeUnlink \/ MergeEmpty \/ WipeUnlink
  <2>1. /\ ddir' = ddir
        /\ pc' \notin {"flush_rename", "merge_rename"}
        /\ \E n : dir' \in {dir, [dir EXCEPT ![n] = Nil]}
    BY <1>3 DEF MergeUnlink, MergeEmpty, WipeUnlink
  <2> QED BY <1>0, <2>1
\* The steps that force the names to the disk.
<1>4. CASE FlushSync \/ MergeSync \/ MergeUnlinkSync \/ MergeEmptySync \/ WipeSync
  <2>1. /\ dir' = dir /\ ddir' \in {ddir, dir}
        /\ pc' \notin {"flush_rename", "merge_rename"}
    BY <1>4, ZenonT(30) DEF FlushSync, MergeSync, MergeUnlinkSync, MergeEmptySync, WipeSync,
                FsyncDirOk, FsyncDirIgnored, CompactionOver, FlushAllFails
  <2> QED BY <2>1
<1>5. CASE PowerLoss
  <2>1. PICK d \in DirsAfterPowerLoss : dir' = d /\ ddir' = d
    BY <1>5 DEF PowerLoss
  <2>2. PICK undone : d = [n \in SeqNo |-> Settled(IF n \in undone THEN ddir[n] ELSE dir[n])]
    BY DEF DirsAfterPowerLoss
  <2>3. \A n \in SeqNo : d[n] # Nil => d[n].status = "synced"
    BY <2>2 DEF Settled
  <2> QED BY <1>5, <2>1, <2>3, ZenonT(30) DEF PowerLoss
\* Every other step leaves the directory alone and is not about to rename.
<1>6. CASE Command
  <2>1. dir' = dir /\ ddir' = ddir /\ pc' \notin {"flush_rename", "merge_rename"}
    <3>1. ASSUME NEW recs, pc = "serve", Mutate(recs)
          PROVE  dir' = dir /\ ddir' = ddir /\ pc' \notin {"flush_rename", "merge_rename"}
      BY <3>1 DEF Mutate, MaybeFlush
    <3> QED BY <1>6, <3>1, ZenonT(30) DEF Command, Set, Del, DelMany, Expire, FlushAll, diskVars
  <2> QED BY <2>1
<1>7. CASE \/ FlushTruncate \/ FlushLogSync \/ EndBatch \/ SweepExpired \/ NoCompaction
           \/ LoopAgain \/ WipeTruncate \/ WipeLogSync \/ Restart
           \/ \E first, last \in 1..Len(sstables) : Compact(first, last)
  <2>1. dir' = dir /\ ddir' = ddir /\ pc' \notin {"flush_rename", "merge_rename"}
    BY <1>7, ZenonT(30) DEF FlushTruncate, FlushLogSync, EndBatch, SweepExpired, NoCompaction, LoopAgain,
                WipeTruncate, WipeLogSync, Restart, Compact, FlushAllFails, diskVars
  <2> QED BY <2>1
<1>8. CASE EndBatchFails \/ Kill \/ Shutdown
  BY <1>8, ZenonT(30) DEF EndBatchFails, Kill, Shutdown, ProcessDies, MemoryGone, diskVars
<1>9. CASE Tick \/ UNCHANGED vars
  BY <1>9, Zenon DEF Tick, vars, diskVars
<1> QED BY <1>1, <1>2, <1>3, <1>4, <1>5, <1>6, <1>7, <1>8, <1>9, ZenonT(30)
        DEF Next, Loop, Flush, Compaction, Wipe

\* A directory of synced tables opens, also after a power cut.
LEMMA NamedFilesSuffice == NamedFilesSynced => AlwaysRestartable
<1> SUFFICES ASSUME NamedFilesSynced PROVE AlwaysRestartable
  OBVIOUS
<1>1. \A n \in Names(dir) : dir[n].status # "partial"
  BY DEF NamedFilesSynced, Names
<1>2. ASSUME NEW d \in DirsAfterPowerLoss, NEW n \in SeqNo, d[n] # Nil
      PROVE  d[n].status # "partial"
  <2>1. PICK undone : d = [i \in SeqNo |-> Settled(IF i \in undone THEN ddir[i] ELSE dir[i])]
    BY DEF DirsAfterPowerLoss
  <2> QED BY <1>2, <2>1 DEF NamedFilesSynced, Settled
<1> QED BY <1>1, <1>2 DEF AlwaysRestartable

\* Neither a kill nor a power cut, at any point of any flush or merge, leaves a
\* table under its real name that the Store constructor would refuse to open.
THEOREM StartupNeverRefused == Spec => []AlwaysRestartable
<1>1. Init => NamedFilesSynced
  BY DEF Init, NamedFilesSynced
<1> QED BY <1>1, IInvAlways, NamedFilesStep, NamedFilesSuffice, PTL DEF Spec

=============================================================================
