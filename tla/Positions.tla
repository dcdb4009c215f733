----------------------------- MODULE Positions ------------------------------
(***************************************************************************)
(* Facts about positions that the proofs share: the least and the greatest *)
(* of a bounded set of them, and what the operations on sequences leave at *)
(* each.                                                                   *)
(***************************************************************************)
EXTENDS Integers, Sequences, WellFoundedInduction, TLAPS

\* A bounded non-empty set of positions has a least element.
LEMMA IntervalMin ==
  ASSUME NEW n \in Nat, NEW S \in SUBSET (1..n), S # {}
  PROVE  \E i \in S : \A j \in S : i <= j
<1> DEFINE R == OpToRel(<, Nat)
<1>1. IsWellFoundedOn(R, Nat)
  BY NatLessThanWellFounded, Zenon
<1>2. S \subseteq Nat
  OBVIOUS
<1>3. ASSUME NEW i \in Nat, NEW j \in Nat, i < j PROVE <<i, j>> \in R
  BY <1>3, Zenon DEF OpToRel
<1> HIDE DEF R
<1>4. PICK i \in S : \A j \in S : ~(<<j, i>> \in R)
  BY <1>1, <1>2, WFMin
<1>5. ASSUME NEW j \in S PROVE ~(j < i)
  BY <1>2, <1>3, <1>4
<1> QED BY <1>2, <1>5

\* ... and a greatest one.
LEMMA IntervalMax ==
  ASSUME NEW n \in Nat, NEW S \in SUBSET (1..n), S # {}
  PROVE  \E i \in S : \A j \in S : j <= i
<1> DEFINE M == {n + 1 - i : i \in S}
<1>1. M \in SUBSET (1..n) /\ M # {}
  <2>1. ASSUME NEW i \in S PROVE n + 1 - i \in 1..n
    <3>1. i \in 1..n
      OBVIOUS
    <3> QED BY <3>1
  <2>2. PICK i \in S : TRUE
    BY Zenon
  <2>3. n + 1 - i \in M
    OBVIOUS
  <2> QED BY <2>1, <2>3
<1>2. PICK m \in M : \A l \in M : m <= l
  <2> HIDE DEF M
  <2> QED BY <1>1, IntervalMin, Zenon
<1>3. PICK i \in S : m = n + 1 - i
  OBVIOUS
<1>4. ASSUME NEW j \in S PROVE j <= i
  <2>1. m <= n + 1 - j
    BY <1>2
  <2> QED BY <1>3, <2>1
<1> QED BY <1>4

\* Induction, for what a set can say: a set that has 0 and with every number
\* the next has them all, up to n.
LEMMA UpTo ==
  ASSUME NEW n \in Nat, NEW S, 0 \in S, \A i \in 0..(n - 1) : i \in S => i + 1 \in S
  PROVE  \A i \in 0..n : i \in S
<1> DEFINE B == {i \in 1..n : i \notin S}
<1>1. B = {}
  <2> SUFFICES ASSUME B # {} PROVE FALSE
    OBVIOUS
  <2>1. PICK i \in B : \A j \in B : i <= j
    <3>1. B \in SUBSET (1..n)
      OBVIOUS
    <3> HIDE DEF B
    <3> QED BY <3>1, IntervalMin, Zenon
  <2>2. i \in 1..n /\ i \notin S /\ i - 1 \in 0..(n - 1) /\ (i - 1) + 1 = i
    OBVIOUS
  <2>3. i - 1 \notin S
    BY <2>2
  <2>4. i - 1 \in B
    BY <2>2, <2>3
  <2> QED BY <2>1, <2>2, <2>4
<1>2. ASSUME NEW i \in 0..n PROVE i = 0 \/ i \in 1..n
  OBVIOUS
<1> QED BY <1>1, <1>2

-----------------------------------------------------------------------------
(* Sequences, by positions *)

\* A sequence is empty when it has no position.
LEMMA EmptyIs ==
  ASSUME NEW S, NEW q \in Seq(S)
  PROVE  Len(q) \in Nat /\ DOMAIN q = 1..Len(q) /\ (q = <<>> <=> Len(q) = 0)
OBVIOUS

\* What a sequence is as a function.
LEMMA SeqIs ==
  ASSUME NEW S, NEW q \in Seq(S)
  PROVE  Len(q) \in Nat /\ q \in [1..Len(q) -> S] /\ DOMAIN q = 1..Len(q)
OBVIOUS

\* Each of its elements.
LEMMA ElementIs ==
  ASSUME NEW S, NEW q \in Seq(S), NEW i \in 1..Len(q)
  PROVE  q[i] \in S
OBVIOUS

\* The empty one.
LEMMA NothingIs ==
  ASSUME NEW S
  PROVE  /\ <<>> \in Seq(S) /\ Len(<<>>) = 0
         /\ \A q \in Seq(S) : q # <<>> => Len(q) \in Nat \ {0}
OBVIOUS

\* A function on the first positions is a sequence.
LEMMA FunctionIsSeq ==
  ASSUME NEW S, NEW r \in Nat, NEW w \in [1..r -> S]
  PROVE  w \in Seq(S) /\ Len(w) = r
OBVIOUS

\* The first n elements.
LEMMA PrefixIs ==
  ASSUME NEW S, NEW q \in Seq(S), NEW n \in Nat, n <= Len(q)
  PROVE  /\ SubSeq(q, 1, n) \in Seq(S)
         /\ Len(SubSeq(q, 1, n)) = n
         /\ \A k \in 1..n : SubSeq(q, 1, n)[k] = q[k]
OBVIOUS

\* All but the first n elements.
LEMMA SuffixIs ==
  ASSUME NEW S, NEW q \in Seq(S), NEW n \in Nat, n <= Len(q)
  PROVE  /\ SubSeq(q, n + 1, Len(q)) \in Seq(S)
         /\ Len(SubSeq(q, n + 1, Len(q))) = Len(q) - n
         /\ \A k \in 1..(Len(q) - n) : SubSeq(q, n + 1, Len(q))[k] = q[n + k]
OBVIOUS

\* The elements from a to b.
LEMMA SubSeqIs ==
  ASSUME NEW S, NEW q, NEW a \in Int, NEW b \in Int, \A i \in a..b : q[i] \in S
  PROVE  /\ SubSeq(q, a, b) \in Seq(S)
         /\ Len(SubSeq(q, a, b)) = IF a <= b THEN b - a + 1 ELSE 0
         /\ \A i \in 1..(b - a + 1) : SubSeq(q, a, b)[i] = q[a + i - 1]
OBVIOUS

\* One sequence after another.
LEMMA ConcatIs ==
  ASSUME NEW S, NEW v \in Seq(S), NEW w \in Seq(S)
  PROVE  /\ v \o w \in Seq(S) /\ Len(v \o w) = Len(v) + Len(w)
         /\ \A i \in 1..Len(v) : (v \o w)[i] = v[i]
         /\ \A i \in 1..Len(w) : (v \o w)[Len(v) + i] = w[i]
OBVIOUS

\* The same, position by position.
LEMMA ConcatAt ==
  ASSUME NEW S, NEW v \in Seq(S), NEW w \in Seq(S)
  PROVE  /\ v \o w \in Seq(S) /\ Len(v \o w) = Len(v) + Len(w)
         /\ \A i \in 1..(Len(v) + Len(w)) :
              (v \o w)[i] = IF i <= Len(v) THEN v[i] ELSE w[i - Len(v)]
OBVIOUS

\* Taking a concatenation apart again.
LEMMA SplitIs ==
  ASSUME NEW S, NEW v \in Seq(S), NEW w \in Seq(S)
  PROVE  /\ SubSeq(v \o w, 1, Len(v)) = v
         /\ SubSeq(v \o w, Len(v) + 1, Len(v \o w)) = w
<1>1. Len(v) \in Nat /\ Len(w) \in Nat /\ Len(v \o w) = Len(v) + Len(w) /\ v \o w \in Seq(S)
  OBVIOUS
<1>2. SubSeq(v \o w, 1, Len(v)) = v
  BY <1>1
<1>3. SubSeq(v \o w, Len(v) + 1, Len(v \o w)) = w
  BY <1>1
<1> QED BY <1>2, <1>3

\* A prefix of a concatenation ends in the first part or in the second.
LEMMA PrefixOfConcat ==
  ASSUME NEW S, NEW v \in Seq(S), NEW w \in Seq(S), NEW n \in 0..(Len(v) + Len(w))
  PROVE  /\ n <= Len(v) => SubSeq(v \o w, 1, n) = SubSeq(v, 1, n)
         /\ n >= Len(v) => SubSeq(v \o w, 1, n) = v \o SubSeq(w, 1, n - Len(v))
OBVIOUS

\* A prefix of a prefix.
LEMMA PrefixOfPrefix ==
  ASSUME NEW S, NEW v \in Seq(S), NEW c \in 0..Len(v), NEW n \in 0..c
  PROVE  SubSeq(SubSeq(v, 1, c), 1, n) = SubSeq(v, 1, n)
OBVIOUS

\* One more element.
LEMMA AppendIs ==
  ASSUME NEW S, NEW v \in Seq(S), NEW x \in S
  PROVE  /\ Append(v, x) \in Seq(S) /\ Len(Append(v, x)) = Len(v) + 1
         /\ \A i \in 1..Len(v) : Append(v, x)[i] = v[i]
         /\ Append(v, x)[Len(v) + 1] = x
OBVIOUS

\* All but the first element: every other one moves down a position.
LEMMA TailIs ==
  ASSUME NEW S, NEW v \in Seq(S), v # <<>>
  PROVE  /\ Tail(v) \in Seq(S) /\ Head(v) = v[1] /\ 1 \in 1..Len(v)
         /\ Len(Tail(v)) \in Nat
         /\ \A i \in 1..Len(Tail(v)) : i + 1 \in 1..Len(v) /\ Tail(v)[i] = v[i + 1] /\ i + 1 # 1
         /\ \A i \in 1..Len(v) : i # 1 => i - 1 \in 1..Len(Tail(v)) /\ (i - 1) + 1 = i
OBVIOUS

\* Taking one more element off what is left of a sequence.
LEMMA RestIs ==
  ASSUME NEW S, NEW v \in Seq(S), NEW p \in Nat, p <= Len(v), SubSeq(v, p + 1, Len(v)) # <<>>
  PROVE  /\ Len(SubSeq(v, p + 1, Len(v))) = Len(v) - p /\ p + 1 <= Len(v)
         /\ Head(SubSeq(v, p + 1, Len(v))) = v[p + 1]
         /\ Len(Tail(SubSeq(v, p + 1, Len(v)))) = Len(v) - (p + 1)
         /\ Tail(SubSeq(v, p + 1, Len(v))) = SubSeq(v, (p + 1) + 1, Len(v))
<1>1. PICK n \in Nat : n = Len(v)
  OBVIOUS
<1>2. PICK q : q = SubSeq(v, p + 1, n)
  BY Zenon
<1>3. q \in Seq(S) /\ Len(q) = n - p /\ \A k \in 1..(n - p) : q[k] = v[p + k]
  BY <1>1, <1>2, SuffixIs, SMTT(30)
<1>4. q # <<>>
  BY <1>1, <1>2
<1>5. n - p # 0
  BY <1>3, <1>4
<1>6. p + 1 <= n /\ p + 1 \in Nat /\ 1 \in 1..(n - p)
  BY <1>1, <1>5
<1>7. Head(q) = v[p + 1]
  BY <1>3, <1>4, <1>6
<1>8. PICK w : w = SubSeq(v, (p + 1) + 1, n)
  BY Zenon
<1>9. w \in Seq(S) /\ Len(w) = n - (p + 1) /\ \A k \in 1..(n - (p + 1)) : w[k] = v[(p + 1) + k]
  BY <1>1, <1>6, <1>8, SuffixIs
<1>10. PICK t : t = Tail(q)
  BY Zenon
<1>11. t \in Seq(S) /\ Len(t) = Len(q) - 1 /\ \A k \in 1..Len(t) : t[k] = q[k + 1]
  BY <1>3, <1>4, <1>10
<1>12. Len(t) = n - (p + 1)
  BY <1>3, <1>6, <1>11
<1>13. ASSUME NEW k \in 1..(n - (p + 1)) PROVE t[k] = w[k]
  <2>1. k + 1 \in 1..(n - p) /\ p + (k + 1) = (p + 1) + k
    OBVIOUS
  <2>2. t[k] = q[k + 1] /\ q[k + 1] = v[p + (k + 1)] /\ w[k] = v[(p + 1) + k]
    BY <1>3, <1>9, <1>11, <1>12, <2>1, SMTT(30)
  <2> QED BY <2>1, <2>2
<1>14. t = w
  BY <1>9, <1>11, <1>12, <1>13
<1> QED BY <1>1, <1>2, <1>3, <1>6, <1>7, <1>8, <1>10, <1>12, <1>14

=============================================================================
