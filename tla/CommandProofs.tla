--------------------------- MODULE CommandProofs ----------------------------
(***************************************************************************)
(* The commands do to keys and answer of them what was asked for, for an   *)
(* int64 of any width, any requests and any clock.  The invariant sets the *)
(* stamps, reckoned in machine arithmetic, beside the deadlines asked for, *)
(* reckoned in the integers, and carries across the steps of a command     *)
(* what its count, its stamp or its lookup was when it began.              *)
(***************************************************************************)
EXTENDS Command, Positions, FiniteSetTheorems

USE CommandAssumption

\* Wrapping to 64 bits changes nothing inside the range.
LEMMA WrapIs ==
  ASSUME NEW x \in (-kMax - 1)..kMax
  PROVE  Wrap(x) = x
<1> DEFINE y == x + kMax + 1
           m == 2 * kMax + 2
<1>1. y \in Nat /\ m \in Nat /\ y < m
  OBVIOUS
<1>2. y % m = y
  <2> HIDE DEF y, m
  <2> QED BY <1>1
<1> QED BY <1>2 DEF Wrap

\* A wrapped number is in the range.
LEMMA WrapType ==
  ASSUME NEW x \in Int
  PROVE  Wrap(x) \in Int
BY DEF Wrap

\* A bound checked by dividing is a bound on the product.
LEMMA QuotientBounds ==
  ASSUME NEW a \in Nat, NEW u \in Nat \ {0}, NEW b \in Nat, a <= b \div u
  PROVE  a * u \in Nat /\ a * u <= b
<1>1. PICK q \in Nat : a <= q /\ q * u <= b
  OBVIOUS
<1>2. a * u \in Nat /\ q * u \in Nat /\ (q - a) * u \in Nat
  BY <1>1
<1>3. (q - a) * u = q * u - a * u
  BY <1>1
<1> QED BY <1>1, <1>2, <1>3

Digit == [ok : BOOLEAN, n : 0..kMax]

\* One digit of parse_int64: refused, or the exact number.
LEMMA NextDigitIs ==
  ASSUME NEW acc \in Digit, NEW c
  PROVE  NextDigit(acc, c) \in Digit
<1> USE DEF Digit
<1>1. NotAnInteger \in Digit
  BY DEF NotAnInteger
<1>2. CASE acc.ok /\ IsDigit(c) /\ ~(acc.n > (kMax - DigitValue(c)) \div 10)
  <2>1. DigitValue(c) \in 0..9
    BY <1>2 DEF DigitValue, IsDigit
  <2>2. acc.n * 10 + DigitValue(c) \in 0..kMax
    BY <1>2, <2>1
  <2> QED BY <1>2, <2>2, WrapIs DEF NextDigit
<1> QED BY <1>1, <1>2 DEF NextDigit

Zero == [ok |-> TRUE, n |-> 0]

\* f[i] is the value after i digits.
Folded(f, digits) ==
  f = [i \in 0..Len(digits) |-> IF i = 0 THEN Zero ELSE NextDigit(f[i - 1], digits[i])]

\* The loop over the digits has a value after each of them.
LEMMA FoldExists ==
  ASSUME NEW digits \in Seq(Chars)
  PROVE  \E f : Folded(f, digits)
<1> DEFINE L == Len(digits)
           Good(g, m) == g[0] = Zero /\ \A i \in 1..m : g[i] = NextDigit(g[i - 1], digits[i])
           S == {m \in 0..L : \E g \in [0..m -> Digit] : Good(g, m)}
<1>1. L \in Nat /\ Zero \in Digit
  BY DEF Zero, Digit
<1>2. 0 \in S
  <2>1. [i \in 0..0 |-> Zero] \in [0..0 -> Digit] /\ Good([i \in 0..0 |-> Zero], 0)
    BY <1>1
  <2>2. 0 \in 0..L
    BY <1>1
  <2> HIDE DEF Good, L
  <2> QED BY <2>1, <2>2
<1>3. ASSUME NEW m \in 0..(L - 1), m \in S PROVE m + 1 \in S
  <2>1. PICK g \in [0..m -> Digit] : Good(g, m)
    BY <1>3
  <2> DEFINE d == NextDigit(g[m], digits[m + 1])
             h == [i \in 0..(m + 1) |-> IF i = m + 1 THEN d ELSE g[i]]
  <2>2. d \in Digit
    BY <2>1, NextDigitIs
  <2> HIDE DEF d
  <2>3. h \in [0..(m + 1) -> Digit]
    BY <2>1, <2>2
  <2>4. h[0] = Zero
    BY <2>1
  <2>5. ASSUME NEW i \in 1..(m + 1) PROVE h[i] = NextDigit(h[i - 1], digits[i])
    <3>1. CASE i = m + 1
      <4>1. h[i] = d /\ h[i - 1] = g[m]
        BY <3>1
      <4> QED BY <3>1, <4>1 DEF d
    <3>2. CASE i # m + 1
      <4>1. i \in 1..m /\ h[i] = g[i] /\ h[i - 1] = g[i - 1]
        BY <3>2
      <4> QED BY <2>1, <4>1
    <3> QED BY <3>1, <3>2
  <2>6. m + 1 \in 0..L
    BY <1>1
  <2> HIDE DEF h
  <2>7. Good(h, m + 1)
    BY <2>4, <2>5
  <2> HIDE DEF Good, L
  <2> QED BY <2>3, <2>6, <2>7
<1>4. L \in S
  <2>1. \A m \in 0..(L - 1) : m \in S => m + 1 \in S
    BY <1>3, Zenon
  <2> HIDE DEF S, L
  <2>2. \A m \in 0..L : m \in S
    BY <1>1, <1>2, <2>1, UpTo
  <2> QED BY <1>1, <2>2
<1>5. PICK g \in [0..L -> Digit] : Good(g, L)
  BY <1>4
<1>6. g = [i \in 0..L |-> IF i = 0 THEN Zero ELSE NextDigit(g[i - 1], digits[i])]
  BY <1>1, <1>5
<1> QED BY <1>6 DEF Folded

\* ... and the value is never out of range.
LEMMA FoldIs ==
  ASSUME NEW digits \in Seq(Chars), NEW f, Folded(f, digits)
  PROVE  f[Len(digits)] \in Digit
<1> DEFINE L == Len(digits)
           S == {i \in 0..L : f[i] \in Digit}
<1>1. L \in Nat /\ Zero \in Digit
  BY DEF Zero, Digit
<1>2. \A i \in 0..L : f[i] = IF i = 0 THEN Zero ELSE NextDigit(f[i - 1], digits[i])
  BY DEF Folded
<1>3. 0 \in S
  BY <1>1, <1>2
<1>4. ASSUME NEW i \in 0..(L - 1), i \in S PROVE i + 1 \in S
  <2>1. i + 1 \in 0..L /\ i + 1 # 0 /\ (i + 1) - 1 = i
    BY <1>1
  <2>2. f[i + 1] = NextDigit(f[i], digits[i + 1])
    BY <1>2, <2>1
  <2> QED BY <1>4, <2>1, <2>2, NextDigitIs
<1>5. L \in S
  <2>1. \A m \in 0..(L - 1) : m \in S => m + 1 \in S
    BY <1>4
  <2> HIDE DEF S, L
  <2>2. \A m \in 0..L : m \in S
    BY <1>1, <1>3, <2>1, UpTo
  <2> QED BY <1>1, <2>2
<1> QED BY <1>5

\* What the parser returns fits an int64, whatever the text.
LEMMA ParsedIs ==
  ASSUME NEW text \in Seq(Chars)
  PROVE  parse_int64(text) \in [ok : BOOLEAN, n : (-kMax)..kMax]
<1> DEFINE negative == text # <<>> /\ Head(text) = "-"
           digits == IF negative THEN Tail(text) ELSE text
           upto == CHOOSE f : Folded(f, digits)
           value == upto[Len(digits)]
<1>1. digits \in Seq(Chars)
  <2>1. text # <<>> => Tail(text) \in Seq(Chars)
    OBVIOUS
  <2> QED BY <2>1, Zenon
<1>2. Folded(upto, digits)
  <2> HIDE DEF digits
  <2> QED BY <1>1, FoldExists
<1>3. value \in Digit
  <2> HIDE DEF digits, upto
  <2> QED BY <1>1, <1>2, FoldIs
<1>4. parse_int64(text) =
        IF digits = <<>> \/ Len(text) > kMaxText THEN NotAnInteger
        ELSE IF Head(digits) = "0" /\ (Len(digits) > 1 \/ negative) THEN NotAnInteger
        ELSE [value EXCEPT !.n = IF negative THEN -@ ELSE @]
  BY DEF parse_int64, Folded, Zero
<1> HIDE DEF value, digits, negative
<1> QED BY <1>3, <1>4 DEF Digit, NotAnInteger

-----------------------------------------------------------------------------
(* Spelling *)

Spelling(f, m) ==
  IF m < 10 THEN <<Digits[m + 1]>> ELSE Append(f[m \div 10], Digits[(m % 10) + 1])

\* A number's spelling rests on the one of its tenth.
LEMMA SpellingIs ==
  ASSUME NEW m \in Nat, NEW f, m >= 10 => f[m \div 10] \in Seq(Chars)
  PROVE  Spelling(f, m) \in Seq(Chars)
<1>1. CASE m < 10
  <2>1. Digits[m + 1] \in Chars
    BY <1>1, CharsAssumption
  <2> QED BY <1>1, <2>1 DEF Spelling
<1>2. CASE m >= 10
  <2>1. (m % 10) + 1 \in 1..10
    OBVIOUS
  <2>2. Digits[(m % 10) + 1] \in Chars
    BY <2>1, CharsAssumption
  <2>3. ~(m < 10)
    BY <1>2
  <2> QED BY <1>2, <2>2, <2>3, AppendIs DEF Spelling
<1> QED BY <1>1, <1>2

\* Every number the store may hold can be written down.
LEMMA SpellingExists ==
  ASSUME NEW size \in Nat
  PROVE  \E f \in [0..size -> Seq(Chars)] : f = [m \in 0..size |-> Spelling(f, m)]
<1> DEFINE Good(g, m) == \A i \in 0..m : g[i] = Spelling(g, i)
           S == {m \in 0..size : \E g \in [0..m -> Seq(Chars)] : Good(g, m)}
<1>1. 0 \in S
  <2> DEFINE g == [i \in 0..0 |-> Spelling(<<>>, 0)]
  <2>1. Spelling(<<>>, 0) \in Seq(Chars)
    BY SpellingIs
  <2>2. g[0] = Spelling(g, 0)
    BY DEF Spelling
  <2>3. g \in [0..0 -> Seq(Chars)]
    BY <2>1
  <2> HIDE DEF g
  <2>4. Good(g, 0)
    BY <2>2
  <2> HIDE DEF Good
  <2> QED BY <2>3, <2>4
<1>2. ASSUME NEW m \in 0..(size - 1), m \in S PROVE m + 1 \in S
  <2>1. PICK g \in [0..m -> Seq(Chars)] : Good(g, m)
    BY <1>2, Zenon
  <2> DEFINE d == Spelling(g, m + 1)
             h == [i \in 0..(m + 1) |-> IF i = m + 1 THEN d ELSE g[i]]
  <2>2. d \in Seq(Chars)
    <3>1. m + 1 >= 10 => (m + 1) \div 10 \in 0..m
      OBVIOUS
    <3>2. m + 1 \in Nat /\ (m + 1 >= 10 => g[(m + 1) \div 10] \in Seq(Chars))
      BY <2>1, <3>1
    <3> QED BY <3>2, SpellingIs, Zenon
  <2> HIDE DEF d
  <2>3. h \in [0..(m + 1) -> Seq(Chars)]
    BY <2>1, <2>2
  <2>4. ASSUME NEW i \in 0..(m + 1) PROVE h[i] = Spelling(h, i)
    <3>1. i >= 10 => i \div 10 \in 0..m
      OBVIOUS
    <3>2. i >= 10 => h[i \div 10] = g[i \div 10]
      BY <3>1
    <3>3. Spelling(h, i) = Spelling(g, i)
      <4> HIDE DEF h
      <4> QED BY <3>2 DEF Spelling
    <3>4. CASE i = m + 1
      <4>1. h[i] = d
        BY <3>4
      <4> QED BY <3>3, <3>4, <4>1 DEF d
    <3>5. CASE i # m + 1
      <4>1. h[i] = g[i] /\ i \in 0..m
        BY <3>5
      <4> QED BY <2>1, <3>3, <4>1
    <3> QED BY <3>4, <3>5
  <2>5. m + 1 \in 0..size
    OBVIOUS
  <2> HIDE DEF h
  <2>6. Good(h, m + 1)
    BY <2>4
  <2> HIDE DEF Good
  <2> QED BY <2>3, <2>5, <2>6
<1>3. size \in S
  <2>1. \A m \in 0..(size - 1) : m \in S => m + 1 \in S
    BY <1>2, Zenon
  <2> HIDE DEF S
  <2>2. \A m \in 0..size : m \in S
    BY <1>1, <2>1, UpTo
  <2> QED BY <2>2
<1>4. PICK g \in [0..size -> Seq(Chars)] : Good(g, size)
  BY <1>3
<1>5. g = [m \in 0..size |-> Spelling(g, m)]
  BY <1>4
<1> QED BY <1>5

\* Any such function spells with texts.
LEMMA SpellingTyped ==
  ASSUME NEW size \in Nat, NEW f, f = [m \in 0..size |-> Spelling(f, m)]
  PROVE  f[size] \in Seq(Chars)
<1> DEFINE S == {i \in 0..size : \A j \in 0..i : f[j] \in Seq(Chars)}
<1>1. \A i \in 0..size : f[i] = Spelling(f, i)
  OBVIOUS
<1>2. 0 \in S
  <2>1. f[0] \in Seq(Chars)
    BY <1>1, SpellingIs
  <2> QED BY <2>1
<1>3. ASSUME NEW i \in 0..(size - 1), i \in S PROVE i + 1 \in S
  <2>1. i + 1 \in 0..size /\ (i + 1 >= 10 => (i + 1) \div 10 \in 0..i)
    OBVIOUS
  <2>2. f[i + 1] \in Seq(Chars)
    <3>1. i + 1 \in Nat
      OBVIOUS
    <3>2. i + 1 >= 10 => f[(i + 1) \div 10] \in Seq(Chars)
      BY <1>3, <2>1, Zenon
    <3> QED BY <1>1, <2>1, <3>1, <3>2, SpellingIs, Zenon
  <2>3. \A j \in 0..(i + 1) : j \in 0..i \/ j = i + 1
    OBVIOUS
  <2> QED BY <1>3, <2>1, <2>2, <2>3, Zenon
<1>4. size \in S
  <2>1. \A m \in 0..(size - 1) : m \in S => m + 1 \in S
    BY <1>3, Zenon
  <2> HIDE DEF S
  <2>2. \A m \in 0..size : m \in S
    BY <1>2, <2>1, UpTo
  <2> QED BY <2>2
<1> QED BY <1>4

\* What INCR stores is a text.
LEMMA SpelledIs ==
  ASSUME NEW n \in Int
  PROVE  to_string(n) \in Seq(Chars)
<1> DEFINE size == IF n < 0 THEN -n ELSE n
           from == CHOOSE f : f = [m \in 0..size |-> Spelling(f, m)]
<1>1. size \in Nat
  OBVIOUS
<1>2. from = [m \in 0..size |-> Spelling(from, m)]
  <2> HIDE DEF size
  <2> QED BY <1>1, SpellingExists, Zenon
<1>3. from[size] \in Seq(Chars)
  <2> HIDE DEF size, from
  <2> QED BY <1>1, <1>2, SpellingTyped
<1>4. to_string(n) = IF n < 0 THEN <<"-">> \o from[size] ELSE from[size]
  BY DEF to_string, Spelling
<1> HIDE DEF from, size
<1>5. <<"-">> \o from[size] \in Seq(Chars)
  <2>1. <<"-">> \in Seq(Chars)
    BY CharsAssumption
  <2> QED BY <1>3, <2>1, ConcatIs, Zenon
<1> QED BY <1>3, <1>4, <1>5, Zenon

-----------------------------------------------------------------------------
(* Deadlines *)

\* A deadline that is given is the one asked for: nothing wrapped, and it is
\* not the stamp that means "never".
LEMMA DeadlineIs ==
  ASSUME now \in StartTime..MaxTime, NEW amount \in Nat \ {0}, NEW unit \in Nat \ {0},
         deadline_from(amount, unit).ok
  PROVE  /\ deadline_from(amount, unit).at = now + amount * unit
         /\ amount * unit \in Nat /\ now + amount * unit <= kMax
<1>1. amount <= kMax \div unit /\ Wrap(amount * unit) <= Wrap(kMax - now)
  <2>1. ~(amount > kMax \div unit) /\ ~(Wrap(amount * unit) > Wrap(kMax - now))
    BY Zenon DEF deadline_from
  <2>2. kMax \div unit \in Int /\ Wrap(amount * unit) \in Int /\ Wrap(kMax - now) \in Int
    BY WrapType
  <2> QED BY <2>1, <2>2
<1>2. amount * unit \in Nat /\ amount * unit <= kMax
  BY <1>1, QuotientBounds, Zenon
<1> DEFINE d == amount * unit
<1>3. deadline_from(amount, unit).at = IF Wrap(now + Wrap(d)) = 0 THEN -1 ELSE Wrap(now + Wrap(d))
  BY DEF deadline_from
<1> HIDE DEF d
<1>4. d \in Nat /\ d <= kMax /\ Wrap(d) <= Wrap(kMax - now)
  BY <1>1, <1>2 DEF d
<1>5. Wrap(d) = d /\ Wrap(kMax - now) = kMax - now
  BY <1>4, WrapIs
<1>6. Wrap(now + d) = now + d /\ now + d # 0 /\ now + d <= kMax
  BY <1>4, <1>5, WrapIs
<1> QED BY <1>3, <1>4, <1>5, <1>6 DEF d

\* The stamp in the store and the deadline asked for end a key at the same
\* moment, or have both ended it.
Agree(at, due) ==
  IF due = Nil THEN at = 0
  ELSE /\ at \in (-kMax)..kMax /\ at # 0 /\ due \in Int
       /\ at = due \/ (at <= now /\ due <= now)

\* EXPIRE of 0 or fewer seconds stamps the key -1.
LEMMA ExpireAgrees ==
  ASSUME now \in StartTime..MaxTime, NEW n \in Int,
         n > 0 => deadline_from(n, Second).ok,
         NEW at, at = IF n <= 0 THEN -1 ELSE deadline_from(n, Second).at
  PROVE  Agree(at, now + n * Second)
<1>1. CASE n > 0
  <2>1. at = now + n * Second /\ n * Second \in Nat /\ now + n * Second <= kMax
    BY <1>1, DeadlineIs
  <2> QED BY <2>1 DEF Agree
<1>2. CASE n <= 0
  <2>1. n * Second \in Int /\ n * Second <= 0
    BY <1>2
  <2> QED BY <1>2, <2>1 DEF Agree
<1> QED BY <1>1, <1>2

-----------------------------------------------------------------------------
(* The inductive invariant *)

Clock == now \in StartTime..MaxTime

\* The store holds the keys clients wrote, each as it was asked for.
Kept ==
  /\ DOMAIN db = DOMAIN ref
  /\ \A k \in DOMAIN db :
       /\ db[k].text = ref[k].text /\ db[k].text \in Seq(Chars)
       /\ Agree(db[k].expires_at_ms, ref[k].due)

JobFields == {"args", "rest", "tally", "at", "due", "began", "was"}

\* The positions done of the list a command goes through.
Done(j) == Len(j.args) - Len(j.rest)

Listing(j) ==
  /\ Done(j) \in 1..Len(j.args)
  /\ j.rest = SubSeq(j.args, Done(j) + 1, Len(j.args))

\* The live positions of a list up to p, and the live keys it names.
LiveUpTo(args, was, p, t) == {i \in 2..p : Alive(was, args[i], t)}
NamedUpTo(args, p) == {args[i] : i \in 2..p}

\* EXISTS has counted those that were there, give or take what ran out.
Counting(j, t) ==
  /\ Listing(j)
  /\ j.tally \in Cardinality(LiveUpTo(j.args, j.was, Done(j), t))
                 ..Cardinality(LiveUpTo(j.args, j.was, Done(j), j.began))

\* DEL has counted and removed those it passed, and no others.
Deleting(j, t) ==
  /\ Listing(j)
  /\ DOMAIN ref = DOMAIN j.was \ NamedUpTo(j.args, Done(j))
  /\ \A k \in DOMAIN ref : ref[k] = j.was[k]
  /\ j.tally \in Cardinality(AliveAt(NamedUpTo(j.args, Done(j)), j.was, t))
                 ..Cardinality(AliveAt(NamedUpTo(j.args, Done(j)), j.was, j.began))

\* TTL holds the deadline of a key that was there when it looked.
Timing(j) ==
  /\ Alive(j.was, j.args[2], j.began)
  /\ j.was[j.args[2]].due \in Int /\ j.was[j.args[2]].due = j.at
  /\ j.at <= kMax

\* Deadlines are times.
Dues(was) == \A k \in DOMAIN was : was[k].due = Nil \/ was[k].due \in Int

\* A command between two reads of the clock: what it holds is still right, and
\* it has changed nothing unless it deletes.
Underway ==
  job # Nil =>
    /\ DOMAIN job = JobFields
    /\ Dues(job.was)
    /\ job.args \in Requests
    /\ job.began \in StartTime..now
    /\ normalize_name(job.args[1]) = "expire" => Agree(job.at, job.due)
    /\ normalize_name(job.args[1]) = "ttl" => Timing(job)
    /\ normalize_name(job.args[1]) = "exists" => Counting(job, now)
    /\ normalize_name(job.args[1]) = "del" => Deleting(job, now)
    /\ normalize_name(job.args[1]) # "del" => job.was = ref

IInv == Clock /\ Kept /\ Underway

\* A key is found exactly when it should be alive.
LEMMA FoundIs ==
  ASSUME Clock, Kept, NEW k
  PROVE  /\ lookup(k) <=> Alive(ref, k, now)
         /\ lookup(k) => db[k].text = ref[k].text
         /\ lookup(k) => (db[k].expires_at_ms = 0 <=> ref[k].due = Nil)
         /\ lookup(k) /\ ref[k].due # Nil => ref[k].due = db[k].expires_at_ms
         /\ lookup(k) /\ ref[k].due # Nil => ref[k].due \in Int /\ ref[k].due <= kMax
<1>1. CASE k \notin DOMAIN db
  BY <1>1 DEF Kept, lookup, Alive
<1>2. CASE k \in DOMAIN db
  <2>1. db[k].text = ref[k].text /\ Agree(db[k].expires_at_ms, ref[k].due) /\ k \in DOMAIN ref
    BY <1>2 DEF Kept
  <2>2. now \in Int
    BY DEF Clock
  <2> QED BY <1>2, <2>1, <2>2 DEF Agree, lookup, Alive
<1> QED BY <1>1, <1>2

\* Invariance under a step that moves neither clock nor job nor keys.
LEMMA AgreeSame ==
  ASSUME now' = now
  PROVE  \A x, y : Agree(x, y)' <=> Agree(x, y)
BY DEF Agree

\* What agrees goes on agreeing as the clock advances.
LEMMA AgreeLater ==
  ASSUME Clock, now' = now + 1
  PROVE  \A x, y : Agree(x, y) => Agree(x, y)'
BY DEF Agree, Clock

\* Where a request has a value or a number there is a text.
LEMMA TextsAre ==
  ASSUME NEW args \in Requests
  PROVE  /\ Len(args) \in Nat
         /\ normalize_name(args[1]) = "set" =>
              /\ 3 <= Len(args) => args[3] \in Seq(Chars)
              /\ 5 <= Len(args) => args[5] \in Seq(Chars)
         /\ normalize_name(args[1]) = "expire" /\ Len(args) = 3 => args[3] \in Seq(Chars)
BY RequestsAssumption, Zenon

\* A request is a sequence.
LEMMA RequestIs ==
  ASSUME NEW args \in Requests
  PROVE  args \in Seq({args[i] : i \in 1..Len(args)}) /\ Len(args) \in Nat
<1>1. Len(args) \in Nat /\ args = [i \in 1..Len(args) |-> args[i]]
  BY RequestsAssumption, Zenon
<1> DEFINE T == {args[i] : i \in 1..Len(args)}
           n == Len(args)
<1>2. \A i \in 1..n : args[i] \in T
  OBVIOUS
<1> HIDE DEF T, n
<1>3. [i \in 1..n |-> args[i]] \in [1..n -> T]
  BY <1>2
<1>4. args \in [1..n -> T] /\ n \in Nat
  BY <1>1, <1>3 DEF n
<1>5. args \in Seq(T)
  BY <1>4, FunctionIsSeq
<1> QED BY <1>1, <1>5, Zenon DEF T

-----------------------------------------------------------------------------
(* Lists of keys *)

\* Fewer keys are alive later.
LEMMA AliveSooner ==
  ASSUME NEW was, Dues(was), NEW t \in Int
  PROVE  \A k : Alive(was, k, t + 1) => Alive(was, k, t)
BY DEF Alive, Dues

\* The keys an argument list names.
LEMMA NamedFinite ==
  ASSUME NEW args, NEW p \in Int
  PROVE  IsFiniteSet(NamedUpTo(args, p))
<1> DEFINE f == [i \in 2..p |-> args[i]]
<1>1. f \in Surjection(2..p, NamedUpTo(args, p))
  BY DEF Surjection, NamedUpTo
<1>2. IsFiniteSet(2..p)
  BY FS_Interval
<1> HIDE DEF f
<1> QED BY <1>1, <1>2, FS_Surjection, Zenon

\* Both counts are finite.
LEMMA ListsFinite ==
  ASSUME NEW args, NEW was, NEW p \in Int, NEW t
  PROVE  /\ IsFiniteSet(LiveUpTo(args, was, p, t))
         /\ Cardinality(LiveUpTo(args, was, p, t)) \in Nat
         /\ IsFiniteSet(AliveAt(NamedUpTo(args, p), was, t))
         /\ Cardinality(AliveAt(NamedUpTo(args, p), was, t)) \in Nat
<1>1. IsFiniteSet(2..p)
  BY FS_Interval
<1>2. LiveUpTo(args, was, p, t) \in SUBSET (2..p)
  BY DEF LiveUpTo
<1>3. AliveAt(NamedUpTo(args, p), was, t) \in SUBSET NamedUpTo(args, p)
  BY DEF AliveAt
<1>4. IsFiniteSet(LiveUpTo(args, was, p, t)) /\ IsFiniteSet(AliveAt(NamedUpTo(args, p), was, t))
  BY <1>1, <1>2, <1>3, NamedFinite, FS_Subset, Zenon
<1> QED BY <1>4, FS_CardinalityType, Zenon

\* As time goes by the lower bounds of both counts fall.
LEMMA CountsFall ==
  ASSUME NEW args, NEW was, NEW p \in Int, NEW t \in Int, Dues(was)
  PROVE  /\ Cardinality(LiveUpTo(args, was, p, t + 1)) <= Cardinality(LiveUpTo(args, was, p, t))
         /\ Cardinality(AliveAt(NamedUpTo(args, p), was, t + 1))
              <= Cardinality(AliveAt(NamedUpTo(args, p), was, t))
<1>1. LiveUpTo(args, was, p, t + 1) \in SUBSET LiveUpTo(args, was, p, t)
  BY AliveSooner DEF LiveUpTo
<1>2. AliveAt(NamedUpTo(args, p), was, t + 1) \in SUBSET AliveAt(NamedUpTo(args, p), was, t)
  BY AliveSooner DEF AliveAt
<1> QED BY <1>1, <1>2, ListsFinite, FS_Subset, Zenon

\* One position more.
LEMMA LiveNext ==
  ASSUME NEW args, NEW was, NEW p \in Nat \ {0}, NEW t
  PROVE  Cardinality(LiveUpTo(args, was, p + 1, t)) =
           IF Alive(was, args[p + 1], t) THEN Cardinality(LiveUpTo(args, was, p, t)) + 1
           ELSE Cardinality(LiveUpTo(args, was, p, t))
<1> DEFINE A == LiveUpTo(args, was, p, t)
           B == LiveUpTo(args, was, p + 1, t)
<1>1. \A i : i \in 2..(p + 1) <=> i \in 2..p \/ i = p + 1
  OBVIOUS
<1>2. p + 1 \notin A /\ IsFiniteSet(A)
  BY ListsFinite DEF LiveUpTo
<1>3. B = IF Alive(was, args[p + 1], t) THEN A \cup {p + 1} ELSE A
  BY <1>1 DEF LiveUpTo
<1> HIDE DEF A, B
<1>4. Cardinality(A \cup {p + 1}) = Cardinality(A) + 1
  BY <1>2, FS_AddElement, Zenon
<1>5. Cardinality(B) = IF Alive(was, args[p + 1], t) THEN Cardinality(A) + 1 ELSE Cardinality(A)
  BY <1>3, <1>4, Zenon
<1> QED BY <1>5 DEF A, B

\* One key more, if it was not named before.
LEMMA NamedNext ==
  ASSUME NEW args, NEW was, NEW p \in Nat \ {0}, NEW t
  PROVE  /\ NamedUpTo(args, p + 1) = NamedUpTo(args, p) \cup {args[p + 1]}
         /\ Cardinality(AliveAt(NamedUpTo(args, p + 1), was, t)) =
              IF args[p + 1] \notin NamedUpTo(args, p) /\ Alive(was, args[p + 1], t)
              THEN Cardinality(AliveAt(NamedUpTo(args, p), was, t)) + 1
              ELSE Cardinality(AliveAt(NamedUpTo(args, p), was, t))
<1> DEFINE A == AliveAt(NamedUpTo(args, p), was, t)
           B == AliveAt(NamedUpTo(args, p + 1), was, t)
           k == args[p + 1]
<1>1. \A i : i \in 2..(p + 1) <=> i \in 2..p \/ i = p + 1
  OBVIOUS
<1>2. NamedUpTo(args, p + 1) = NamedUpTo(args, p) \cup {k}
  BY <1>1 DEF NamedUpTo
<1>3. IsFiniteSet(A)
  BY ListsFinite
<1>4. B = IF k \notin NamedUpTo(args, p) /\ Alive(was, k, t) THEN A \cup {k} ELSE A
  BY <1>2 DEF AliveAt
<1>5. k \notin NamedUpTo(args, p) => k \notin A
  BY DEF AliveAt
<1> HIDE DEF A, B, k
<1>6. k \notin A => Cardinality(A \cup {k}) = Cardinality(A) + 1
  BY <1>3, FS_AddElement, Zenon
<1>7. Cardinality(B) = IF k \notin NamedUpTo(args, p) /\ Alive(was, k, t)
                       THEN Cardinality(A) + 1 ELSE Cardinality(A)
  BY <1>4, <1>5, <1>6, Zenon
<1> QED BY <1>2, <1>7 DEF A, B, k

\* The job one key further down its list.
Passed(j, tally) == [j EXCEPT !.rest = Tail(j.rest), !.tally = tally]

\* The list shortens by its first key, at the next position.
LEMMA ListingNext ==
  ASSUME NEW j, DOMAIN j = JobFields, j.args \in Requests, Listing(j), j.rest # <<>>,
         NEW tally, NEW j2, j2 = Passed(j, tally)
  PROVE  /\ DOMAIN j2 = JobFields /\ j2.args = j.args /\ j2.was = j.was /\ j2.began = j.began
         /\ j2.tally = tally
         /\ Done(j2) = Done(j) + 1 /\ Listing(j2) /\ Done(j) \in Nat \ {0}
         /\ Head(j.rest) = j.args[Done(j) + 1]
<1> DEFINE a == j.args
           q == j.rest
           p == Done(j)
           T == {a[i] : i \in 1..Len(a)}
<1>1. /\ DOMAIN j2 = JobFields /\ j2.args = a /\ j2.was = j.was /\ j2.began = j.began
      /\ j2.tally = tally /\ j2.rest = Tail(q)
  BY DEF JobFields, Passed
<1>2. a \in Seq(T) /\ Len(a) \in Nat
  BY RequestIs
<1>3. p = Len(a) - Len(q) /\ p \in 1..Len(a) /\ q = SubSeq(a, p + 1, Len(a)) /\ q # <<>>
  BY Zenon DEF Listing, Done
<1> HIDE DEF a, q, p, T
<1>4. p \in Nat \ {0} /\ p \in Nat /\ p <= Len(a)
  BY <1>2, <1>3
<1>5. /\ p + 1 <= Len(a) /\ Head(q) = a[p + 1]
      /\ Len(Tail(q)) = Len(a) - (p + 1) /\ Tail(q) = SubSeq(a, (p + 1) + 1, Len(a))
  <2>1. a \in Seq(T) /\ p \in Nat /\ p <= Len(a) /\ SubSeq(a, p + 1, Len(a)) # <<>>
    BY <1>2, <1>3, <1>4, Zenon
  <2> QED BY <1>3, <2>1, RestIs, ZenonT(60)
<1>6. p + 1 \in 1..Len(a) /\ Len(a) - Len(Tail(q)) = p + 1
  <2>1. \A n, m \in Nat : n + 1 <= m => n + 1 \in 1..m /\ m - (m - (n + 1)) = n + 1
    OBVIOUS
  <2> QED BY <1>2, <1>4, <1>5, <2>1, Zenon
<1>7. Done(j2) = p + 1
  BY <1>1, <1>6, Zenon DEF Done
<1>8. Listing(j2)
  BY <1>1, <1>5, <1>6, <1>7, Zenon DEF Listing
<1> QED BY <1>1, <1>4, <1>5, <1>7, <1>8, Zenon DEF a, q, p

-----------------------------------------------------------------------------
(* The invariant is inductive *)

\* Time passes and what expires is gone from both.
LEMMA TickKeeps ==
  ASSUME IInv, Tick
  PROVE  IInv'
<1>1. now' = now + 1 /\ db' = db /\ ref' = ref /\ job' = job /\ now \in Int
  BY DEF Tick, IInv, Clock
<1>2. Clock'
  BY DEF IInv, Clock, Tick
<1>3. \A x, y : Agree(x, y) => Agree(x, y)'
  BY <1>1, AgreeLater DEF IInv
<1>4. Kept'
  BY <1>1, <1>3 DEF IInv, Kept
<1>5. ASSUME job # Nil, Dues(job.was), job.args \in Requests, Counting(job, now)
      PROVE  Counting(job, now + 1)
  <2> DEFINE p == Done(job)
             A(t) == Cardinality(LiveUpTo(job.args, job.was, p, t))
  <2>1. p \in Int
    BY <1>5 DEF Counting, Listing
  <2>2. A(now + 1) <= A(now) /\ A(now + 1) \in Nat /\ A(now) \in Nat /\ A(job.began) \in Nat
    BY <1>1, <1>5, <2>1, CountsFall, ListsFinite, Zenon
  <2>3. job.tally \in A(now)..A(job.began) /\ Listing(job)
    BY <1>5, Zenon DEF Counting
  <2> HIDE DEF A
  <2>4. job.tally \in A(now + 1)..A(job.began)
    BY <2>2, <2>3
  <2> QED BY <2>3, <2>4 DEF Counting, A
<1>6. ASSUME job # Nil, Dues(job.was), job.args \in Requests, Deleting(job, now)
      PROVE  Deleting(job, now + 1)
  <2> DEFINE p == Done(job)
             A(t) == Cardinality(AliveAt(NamedUpTo(job.args, p), job.was, t))
  <2>1. p \in Int
    BY <1>6 DEF Deleting, Listing
  <2>2. A(now + 1) <= A(now) /\ A(now + 1) \in Nat /\ A(now) \in Nat /\ A(job.began) \in Nat
    BY <1>1, <1>6, <2>1, CountsFall, ListsFinite, Zenon
  <2>3. job.tally \in A(now)..A(job.began)
    BY <1>6, Zenon DEF Deleting
  <2> HIDE DEF A
  <2>4. job.tally \in A(now + 1)..A(job.began)
    BY <2>2, <2>3
  <2> QED BY <1>6, <2>4, Zenon DEF Deleting, A
<1>7. Underway'
  <2> SUFFICES ASSUME job # Nil PROVE Underway'
    BY <1>1 DEF Underway
  <2>1. /\ DOMAIN job = JobFields /\ Dues(job.was) /\ job.args \in Requests
        /\ job.began \in StartTime..now
        /\ normalize_name(job.args[1]) = "expire" => Agree(job.at, job.due)
        /\ normalize_name(job.args[1]) = "ttl" => Timing(job)
        /\ normalize_name(job.args[1]) = "exists" => Counting(job, now)
        /\ normalize_name(job.args[1]) = "del" => Deleting(job, now)
        /\ normalize_name(job.args[1]) # "del" => job.was = ref
    BY DEF IInv, Underway
  <2>2. job.began \in StartTime..(now + 1)
    BY <1>1, <2>1
  <2>3. normalize_name(job.args[1]) = "exists" => Counting(job, now + 1)
    BY <1>5, <2>1, Zenon
  <2>4. normalize_name(job.args[1]) = "del" => Deleting(job, now + 1)
    BY <1>6, <2>1, Zenon
  <2>5. Deleting(job, now + 1) => Deleting(job, now)'
    BY <1>1 DEF Deleting
  <2>6. Counting(job, now + 1) => Counting(job, now)'
    BY <1>1
  <2>7. Agree(job.at, job.due) => Agree(job.at, job.due)'
    BY <1>1, <1>3
  <2> QED BY <1>1, <2>1, <2>2, <2>3, <2>4, <2>5, <2>6, <2>7 DEF Underway
<1> QED BY <1>2, <1>4, <1>7 DEF IInv

\* Writing a key with a stamp that agrees with its deadline.
LEMMA WriteKeeps ==
  ASSUME Kept, now' = now, NEW k, NEW text \in Seq(Chars), NEW at, NEW due, Agree(at, due),
         Write(k, text, at, due)
  PROVE  Kept'
<1>1. /\ DOMAIN db' = DOMAIN db \cup {k} /\ DOMAIN ref' = DOMAIN ref \cup {k}
      /\ \A j \in DOMAIN db' : db'[j] = IF j = k THEN Stored(text, at) ELSE db[j]
      /\ \A j \in DOMAIN ref' : ref'[j] = IF j = k THEN Asked(text, due) ELSE ref[j]
  BY DEF Write
<1>2. ASSUME NEW j \in DOMAIN db'
      PROVE  /\ db'[j].text = ref'[j].text /\ db'[j].text \in Seq(Chars)
             /\ Agree(db'[j].expires_at_ms, ref'[j].due)
  BY <1>1 DEF Kept, Stored, Asked
<1> QED BY <1>1, <1>2, AgreeSame DEF Kept

\* Dropping keys from both.
LEMMA DropKeeps ==
  ASSUME Kept, now' = now, NEW left \in SUBSET DOMAIN db,
         db' = Restrict(db, left), ref' = Restrict(ref, left)
  PROVE  Kept'
<1>1. /\ DOMAIN db' = left /\ DOMAIN ref' = left
      /\ \A j \in left : db'[j] = db[j] /\ ref'[j] = ref[j]
  BY DEF Restrict
<1> QED BY <1>1, AgreeSame DEF Kept

\* A step that leaves the keys alone keeps them as asked for.
LEMMA SameKept ==
  ASSUME IInv, now' = now, Unchanged
  PROVE  Clock' /\ Kept' /\ Dues(ref)
<1>1. Clock' /\ Kept'
  BY AgreeSame DEF IInv, Clock, Kept, Unchanged
<1>2. Dues(ref)
  BY DEF Dues, IInv, Kept, Agree
<1> QED BY <1>1, <1>2

\* No command is underway.
LEMMA IdleKeeps ==
  ASSUME IInv, now' = now, job' = Nil, Kept'
  PROVE  IInv'
BY DEF IInv, Clock, Underway

\* A list is begun before its first key.
LEMMA ListingBegins ==
  ASSUME NEW args \in Requests, Len(args) >= 2, NEW j, j.args = args, j.rest = Tail(args)
  PROVE  Listing(j) /\ Done(j) = 1
<1> DEFINE T == {args[i] : i \in 1..Len(args)}
<1>1. args \in Seq(T) /\ Len(args) \in Nat
  BY RequestIs
<1> HIDE DEF T
<1>2. args # <<>> /\ Len(Tail(args)) = Len(args) - 1
  BY <1>1
<1>3. SubSeq(args, 0 + 1, Len(args)) = args
  BY <1>1
<1>4. Tail(args) = SubSeq(args, (0 + 1) + 1, Len(args))
  BY <1>1, <1>2, <1>3, RestIs
<1>5. Done(j) = 1 /\ 1 \in 1..Len(args)
  BY <1>1, <1>2 DEF Done
<1>6. Tail(args) = SubSeq(args, 1 + 1, Len(args))
  BY <1>4
<1> QED BY <1>5, <1>6, Zenon DEF Listing

\* A command that reads the clock again later begins.
LEMMA BeginKeeps ==
  ASSUME IInv, now' = now, Unchanged, NEW args \in Requests, NEW rest, NEW at, NEW due,
         job' = [args |-> args, rest |-> rest, tally |-> 0, at |-> at, due |-> due, began |-> now,
                 was |-> ref],
         normalize_name(args[1]) = "expire" => Agree(at, due),
         normalize_name(args[1]) = "ttl" =>
           /\ Alive(ref, args[2], now) /\ at <= kMax
           /\ ref[args[2]].due \in Int /\ ref[args[2]].due = at,
         normalize_name(args[1]) \in {"exists", "del"} => Len(args) >= 2 /\ rest = Tail(args)
  PROVE  IInv'
<1>1. Clock' /\ Kept' /\ Dues(ref) /\ now \in StartTime..MaxTime /\ ref' = ref
  BY SameKept DEF IInv, Clock, Unchanged
<1>2. PICK j : j = job'
  OBVIOUS
<1>3. /\ DOMAIN j = JobFields /\ j.args = args /\ j.rest = rest /\ j.tally = 0
      /\ j.at = at /\ j.due = due /\ j.began = now /\ j.was = ref
  BY <1>2 DEF JobFields
<1>4. normalize_name(args[1]) = "ttl" => Timing(j)
  BY <1>3, Zenon DEF Timing
<1>5. normalize_name(args[1]) \in {"exists", "del"} => Listing(j) /\ Done(j) = 1
  BY <1>3, ListingBegins
<1>6. \A t : LiveUpTo(args, ref, 1, t) = {} /\ NamedUpTo(args, 1) = {} /\ AliveAt({}, ref, t) = {}
  BY DEF LiveUpTo, NamedUpTo, AliveAt
<1>7. Cardinality({}) = 0 /\ 0 \in 0..0
  BY FS_EmptySet
<1>8. normalize_name(args[1]) = "exists" => Counting(j, now)
  BY <1>3, <1>5, <1>6, <1>7, Zenon DEF Counting
<1>9. normalize_name(args[1]) = "del" => Deleting(j, now)
  <2>1. DOMAIN ref = DOMAIN ref \ {}
    OBVIOUS
  <2> QED BY <1>3, <1>5, <1>6, <1>7, <2>1, ZenonT(30) DEF Deleting
<1>10. now \in StartTime..now
  BY <1>1
<1>11. Deleting(j, now) => Deleting(job, now)'
  BY <1>1, <1>2 DEF Deleting
<1>12. Underway'
  BY <1>1, <1>2, <1>3, <1>4, <1>8, <1>9, <1>10, <1>11, AgreeSame DEF Underway
<1> QED BY <1>1, <1>12 DEF IInv

\* What dispatch has checked of a command it starts.
LEMMA DispatchedIs ==
  ASSUME NEW n, NEW args \in Requests, Dispatched(n, args)
  PROVE  /\ normalize_name(args[1]) = n /\ job = Nil /\ now' = now
         /\ n \in DOMAIN dispatch_table
         /\ Len(args) >= dispatch_table[n].min
         /\ dispatch_table[n].max >= 0 => Len(args) <= dispatch_table[n].max
BY DEF Dispatched, Received, Accepts

\* Commands that change nothing.
LEMMA ReadsKeep ==
  ASSUME IInv, NEW args \in Requests,
         \/ Rejected(args) \/ cmd_ping(args) \/ cmd_info(args) \/ cmd_command(args)
         \/ cmd_config(args) \/ cmd_get(args)
  PROVE  IInv'
<1>1. job = Nil /\ now' = now /\ job' = job /\ Unchanged
  BY DEF Rejected, cmd_ping, cmd_info, cmd_command, cmd_config, cmd_get, Dispatched, Received, AnswerNow
<1> QED BY <1>1, SameKept, IdleKeeps

\* SET, with and without EX.
LEMMA SetKeeps ==
  ASSUME IInv, NEW args \in Requests, cmd_set(args)
  PROVE  IInv'
<1>1. normalize_name(args[1]) = "set" /\ job = Nil /\ now' = now /\ job' = Nil /\ Len(args) >= 3
  <2>1. dispatch_table["set"].min = 3
    BY DEF dispatch_table
  <2> QED BY <2>1, DispatchedIs DEF cmd_set, AnswerNow, Refused
<1>2. CASE Unchanged
  BY <1>1, <1>2, SameKept, IdleKeeps
<1>3. CASE SetDeadline(args).ok /\ Write(args[2], args[3], SetDeadline(args).at, SetDue(args))
  <2>1. Agree(SetDeadline(args).at, SetDue(args))
    <3>1. CASE Len(args) = 3
      BY <3>1 DEF SetDeadline, SetDue, Agree
    <3>2. CASE Len(args) # 3
      <4> DEFINE amount == parse_int64(args[5])
                 unit == UnitOf(args)
      <4>1. Len(args) = 5 /\ unit # 0 /\ amount.ok /\ ~(amount.n <= 0)
        BY <1>3, <3>2, Zenon DEF SetDeadline
      <4>2. SetDeadline(args) = deadline_from(amount.n, unit) /\ SetDue(args) = now + amount.n * unit
        BY <3>2, <4>1 DEF SetDeadline, SetDue
      <4>3. args[5] \in Seq(Chars)
        <5>1. 5 <= Len(args)
          BY <4>1
        <5> QED BY <1>1, <5>1, TextsAre, Zenon
      <4>4. amount.n \in Nat \ {0}
        BY <4>1, <4>3, ParsedIs
      <4>5. unit \in Nat \ {0}
        BY <4>1 DEF UnitOf
      <4> HIDE DEF amount, unit
      <4>6. /\ SetDeadline(args).at = now + amount.n * unit
            /\ amount.n * unit \in Nat /\ now + amount.n * unit <= kMax
        BY <1>3, <4>2, <4>4, <4>5, DeadlineIs DEF IInv, Clock
      <4>7. now \in Nat \ {0}
        BY DEF IInv, Clock
      <4> QED BY <4>2, <4>6, <4>7 DEF Agree
    <3> QED BY <3>1, <3>2
  <2>2. args[3] \in Seq(Chars)
    BY <1>1, TextsAre
  <2>3. Kept'
    BY <1>1, <1>3, <2>1, <2>2, WriteKeeps DEF IInv
  <2> QED BY <1>1, <2>3, IdleKeeps
<1> QED BY <1>2, <1>3 DEF cmd_set, Refused

\* A counter keeps its lifetime.
LEMMA IncrKeeps ==
  ASSUME IInv, NEW args \in Requests, cmd_incr(args)
  PROVE  IInv'
<1> DEFINE k == args[2]
           value == IF lookup(k) THEN parse_int64(db[k].text) ELSE [ok |-> TRUE, n |-> 0]
           due == IF lookup(k) THEN ref[k].due ELSE Nil
<1>1. job = Nil /\ now' = now /\ job' = Nil
  BY DispatchedIs DEF cmd_incr, AnswerNow, Refused
<1>2. CASE Unchanged
  BY <1>1, <1>2, SameKept, IdleKeeps
<1>3. CASE Write(k, to_string(Wrap(value.n + 1)), IncrExpiry(k), due)
  <2>1. value.n \in Int
    BY ParsedIs DEF IInv, Kept, lookup
  <2>2. to_string(Wrap(value.n + 1)) \in Seq(Chars)
    <3>1. value.n + 1 \in Int
      BY <2>1
    <3> QED BY <3>1, WrapType, SpelledIs, Zenon
  <2>3. Agree(IncrExpiry(k), due)
    <3>1. Agree(0, Nil)
      BY DEF Agree
    <3>2. lookup(k) => Agree(db[k].expires_at_ms, ref[k].due)
      BY DEF IInv, Kept, lookup
    <3> QED BY <3>1, <3>2, Zenon DEF IncrExpiry
  <2> HIDE DEF value, due
  <2>4. Kept'
    BY <1>1, <1>3, <2>2, <2>3, WriteKeeps DEF IInv
  <2> QED BY <1>1, <2>4, IdleKeeps
<1> QED BY <1>2, <1>3, ZenonT(30) DEF cmd_incr, Refused

\* FLUSHALL.
LEMMA FlushAllKeeps ==
  ASSUME IInv, NEW args \in Requests, cmd_flushall(args)
  PROVE  IInv'
<1>1. job = Nil /\ now' = now /\ job' = Nil
  BY DispatchedIs DEF cmd_flushall, AnswerNow
<1>2. PICK left \in SUBSET DOMAIN db : db' = Restrict(db, left) /\ ref' = Restrict(ref, left)
  BY DEF cmd_flushall
<1>3. Kept'
  BY <1>1, <1>2, DropKeeps DEF IInv
<1> QED BY <1>1, <1>3, IdleKeeps

\* The lists begin.
LEMMA ListsKeep ==
  ASSUME IInv, NEW args \in Requests, cmd_del(args) \/ cmd_exists(args)
  PROVE  IInv'
<1>1. /\ normalize_name(args[1]) \in {"del", "exists"} /\ job = Nil /\ now' = now /\ Unchanged
      /\ Len(args) >= 2
  <2>1. dispatch_table["del"].min = 2 /\ dispatch_table["exists"].min = 2
    BY DEF dispatch_table
  <2> QED BY <2>1, DispatchedIs DEF cmd_del, cmd_exists, Begin, Refused
<1>2. CASE job' = Nil
  BY <1>1, <1>2, SameKept, IdleKeeps
<1>3. CASE Begin(args, Tail(args))
  BY <1>1, <1>3, BeginKeeps DEF Begin
<1> QED BY <1>1, <1>2, <1>3 DEF cmd_del, cmd_exists, Refused, AnswerNow

\* EXPIRE's arity.
LEMMA ExpireArity ==
  ASSUME NEW args \in Requests, cmd_expire(args)
  PROVE  normalize_name(args[1]) = "expire" /\ job = Nil /\ now' = now /\ Len(args) = 3
<1>1. dispatch_table["expire"].min = 3 /\ dispatch_table["expire"].max = 3
  BY DEF dispatch_table
<1>2. Dispatched("expire", args) /\ Len(args) \in Nat
  BY TextsAre, Zenon DEF cmd_expire
<1>3. Len(args) \in Nat /\ Len(args) >= 3 /\ (3 >= 0 => Len(args) <= 3)
  BY <1>1, <1>2, DispatchedIs, Zenon
<1>4. \A n \in Nat : n >= 3 /\ (3 >= 0 => n <= 3) => n = 3
  OBVIOUS
<1>5. Len(args) = 3
  BY <1>3, <1>4, Zenon
<1> QED BY <1>2, <1>5, DispatchedIs, Zenon

\* EXPIRE finds its key.
LEMMA ExpireBeginKeeps ==
  ASSUME IInv, NEW args \in Requests, cmd_expire(args)
  PROVE  IInv'
<1> DEFINE seconds == parse_int64(args[3])
           dl == IF seconds.n <= 0 THEN [ok |-> TRUE, at |-> -1] ELSE deadline_from(seconds.n, Second)
<1>1. normalize_name(args[1]) = "expire" /\ job = Nil /\ now' = now /\ Len(args) = 3
  BY ExpireArity, Zenon
<1>2. CASE Refused(args)
  BY <1>1, <1>2, SameKept, IdleKeeps DEF Refused, AnswerNow
<1>3. CASE /\ seconds.ok /\ dl.ok /\ Unchanged
           /\ job' = [args |-> args, rest |-> <<>>, tally |-> 0, at |-> dl.at,
                      due |-> now + seconds.n * Second, began |-> now, was |-> ref]
  <2>1. seconds.n \in Int
    BY <1>1, TextsAre, ParsedIs
  <2>2. /\ seconds.n > 0 => deadline_from(seconds.n, Second).ok
        /\ dl.at = IF seconds.n <= 0 THEN -1 ELSE deadline_from(seconds.n, Second).at
    BY <1>3, <2>1
  <2> HIDE DEF seconds, dl
  <2>3. Agree(dl.at, now + seconds.n * Second)
    BY <2>1, <2>2, ExpireAgrees DEF IInv, Clock
  <2> QED BY <1>1, <1>3, <2>3, BeginKeeps
<1> QED BY <1>2, <1>3, Zenon DEF cmd_expire

\* TTL finds its key.
LEMMA TtlBeginKeeps ==
  ASSUME IInv, NEW args \in Requests, cmd_ttl(args)
  PROVE  IInv'
<1>1. normalize_name(args[1]) = "ttl" /\ job = Nil /\ now' = now /\ Unchanged
  BY DispatchedIs DEF cmd_ttl
<1>2. CASE job' = Nil
  BY <1>1, <1>2, SameKept, IdleKeeps
<1>3. CASE /\ lookup(args[2]) /\ db[args[2]].expires_at_ms # 0
           /\ job' = [args |-> args, rest |-> <<>>, tally |-> 0, at |-> db[args[2]].expires_at_ms,
                      due |-> 0, began |-> now, was |-> ref]
  <2>1. /\ Alive(ref, args[2], now) /\ ref[args[2]].due \in Int
        /\ ref[args[2]].due = db[args[2]].expires_at_ms /\ db[args[2]].expires_at_ms <= kMax
    BY <1>3, FoundIs DEF IInv
  <2> QED BY <1>1, <1>3, <2>1, BeginKeeps
<1> QED BY <1>1, <1>2, <1>3 DEF cmd_ttl, AnswerNow

\* A running command is one of its name, underway.
LEMMA RunningIs ==
  ASSUME IInv, NEW n, Running(n)
  PROVE  /\ job # Nil /\ now' = now /\ now \in Int /\ normalize_name(job.args[1]) = n
         /\ DOMAIN job = JobFields /\ Dues(job.was) /\ job.args \in Requests
         /\ job.began \in StartTime..now
         /\ n = "expire" => Agree(job.at, job.due)
         /\ n = "ttl" => Timing(job)
         /\ n = "exists" => Counting(job, now)
         /\ n = "del" => Deleting(job, now)
         /\ n # "del" => job.was = ref
BY DEF Running, IInv, Underway, Clock

\* EXISTS counts one argument.
LEMMA ExistsStepKeeps ==
  ASSUME IInv, ExistsStep
  PROVE  IInv'
<1>1. Running("exists") /\ Unchanged
  BY DEF ExistsStep
<1>2. /\ job # Nil /\ now' = now /\ now \in Int /\ normalize_name(job.args[1]) = "exists"
      /\ DOMAIN job = JobFields /\ Dues(job.was) /\ job.args \in Requests
      /\ job.began \in StartTime..now /\ Counting(job, now) /\ job.was = ref
  BY <1>1, RunningIs
<1>3. Clock' /\ Kept' /\ ref' = ref
  BY <1>1, <1>2, SameKept DEF Unchanged
<1>4. CASE job' = Nil
  BY <1>2, <1>3, <1>4, IdleKeeps
<1>5. CASE /\ job.rest # <<>>
           /\ job' = [job EXCEPT !.rest = Tail(@),
                                 !.tally = IF lookup(Head(job.rest)) THEN @ + 1 ELSE @]
  <2>1. PICK n : n = IF lookup(Head(job.rest)) THEN job.tally + 1 ELSE job.tally
    OBVIOUS
  <2>2. PICK j : j = Passed(job, n)
    OBVIOUS
  <2>3. job' = j
    BY <1>2, <1>5, <2>1, <2>2 DEF JobFields, Passed
  <2> DEFINE p == Done(job)
             A(q, t) == Cardinality(LiveUpTo(job.args, ref, q, t))
  <2>4. /\ DOMAIN j = JobFields /\ j.args = job.args /\ j.was = ref /\ j.began = job.began
        /\ j.tally = n /\ Done(j) = p + 1 /\ Listing(j) /\ p \in Nat \ {0}
        /\ Head(job.rest) = job.args[p + 1]
    <3>1. Listing(job)
      BY <1>2 DEF Counting
    <3> HIDE DEF A
    <3> QED BY <1>2, <1>5, <2>2, <3>1, ListingNext
  <2>5. job.tally \in A(p, now)..A(p, job.began)
    BY <1>2, ZenonT(30) DEF Counting
  <2>6. /\ A(p, now) \in Nat /\ A(p, job.began) \in Nat
        /\ A(p + 1, now) = IF lookup(job.args[p + 1]) THEN A(p, now) + 1 ELSE A(p, now)
    <3>1. A(p, now) \in Nat /\ A(p, job.began) \in Nat
      BY <2>4, ListsFinite
    <3>2. A(p + 1, now) = IF Alive(ref, job.args[p + 1], now) THEN A(p, now) + 1 ELSE A(p, now)
      BY <2>4, LiveNext
    <3>3. lookup(job.args[p + 1]) <=> Alive(ref, job.args[p + 1], now)
      BY <2>4, FoundIs DEF IInv
    <3> QED BY <3>1, <3>2, <3>3
  <2>7. /\ A(p + 1, job.began) \in {A(p, job.began), A(p, job.began) + 1}
        /\ Alive(ref, job.args[p + 1], job.began) => A(p + 1, job.began) = A(p, job.began) + 1
    BY <2>4, LiveNext
  <2>8. lookup(job.args[p + 1]) => Alive(ref, job.args[p + 1], job.began)
    <3>1. Dues(ref)
      BY <1>2
    <3> QED BY <1>2, <3>1, FoundIs DEF IInv, Alive, Dues
  <2> HIDE DEF A
  <2>9. n \in A(p + 1, now)..A(p + 1, job.began)
    BY <2>1, <2>4, <2>5, <2>6, <2>7, <2>8
  <2>10. Counting(j, now)
    BY <2>4, <2>9, ZenonT(30) DEF Counting, A
  <2>11. Underway'
    BY <1>2, <1>3, <2>3, <2>4, <2>10 DEF Underway
  <2> QED BY <1>3, <2>11 DEF IInv
<1> QED BY <1>4, <1>5 DEF ExistsStep, End

\* DEL takes one argument.
LEMMA DelStepKeeps ==
  ASSUME IInv, DelStep
  PROVE  IInv'
<1>1. Running("del")
  BY DEF DelStep
<1>2. /\ job # Nil /\ now' = now /\ now \in Int /\ normalize_name(job.args[1]) = "del"
      /\ DOMAIN job = JobFields /\ Dues(job.was) /\ job.args \in Requests
      /\ job.began \in StartTime..now /\ Deleting(job, now)
  BY <1>1, RunningIs
<1>3. CASE job' = Nil /\ Unchanged
  BY <1>2, <1>3, SameKept, IdleKeeps
<1>4. CASE job.rest # <<>> /\ DelNext
  <2>1. PICK k : k = Head(job.rest)
    OBVIOUS
  <2>2. PICK n : n = IF lookup(k) THEN job.tally + 1 ELSE job.tally
    OBVIOUS
  <2>3. PICK j : j = Passed(job, n)
    OBVIOUS
  <2>4. /\ job' = j
        /\ db' = Restrict(db, DOMAIN db \ {k}) /\ ref' = Restrict(ref, DOMAIN ref \ {k})
    BY <1>2, <1>4, <2>1, <2>2, <2>3 DEF JobFields, DelNext, Passed
  <2> DEFINE p == Done(job)
             N(q) == NamedUpTo(job.args, q)
             A(q, t) == Cardinality(AliveAt(N(q), job.was, t))
  <2>5. /\ DOMAIN j = JobFields /\ j.args = job.args /\ j.was = job.was /\ j.began = job.began
        /\ j.tally = n /\ Done(j) = p + 1 /\ Listing(j) /\ p \in Nat \ {0}
        /\ k = job.args[p + 1]
    <3>1. Listing(job)
      BY <1>2 DEF Deleting
    <3> HIDE DEF A, N
    <3> QED BY <1>2, <1>4, <2>1, <2>3, <3>1, ListingNext
  <2>6. /\ job.tally \in A(p, now)..A(p, job.began)
        /\ DOMAIN ref = DOMAIN job.was \ N(p)
        /\ \A i \in DOMAIN ref : ref[i] = job.was[i]
    BY <1>2, ZenonT(30) DEF Deleting
  <2>7. /\ N(p + 1) = N(p) \cup {k}
        /\ A(p, now) \in Nat /\ A(p, job.began) \in Nat
        /\ A(p + 1, now) = IF k \notin N(p) /\ Alive(job.was, k, now) THEN A(p, now) + 1 ELSE A(p, now)
        /\ A(p + 1, job.began) = IF k \notin N(p) /\ Alive(job.was, k, job.began)
                                 THEN A(p, job.began) + 1 ELSE A(p, job.began)
    <3>1. p \in Int /\ p \in Nat \ {0}
      BY <2>5
    <3> HIDE DEF p
    <3>2. A(p, now) \in Nat /\ A(p, job.began) \in Nat
      BY <3>1, ListsFinite, Zenon
    <3>3. N(p + 1) = N(p) \cup {job.args[p + 1]}
      BY <3>1, NamedNext, Zenon
    <3>4. \A t : A(p + 1, t) = IF job.args[p + 1] \notin N(p) /\ Alive(job.was, job.args[p + 1], t)
                               THEN A(p, t) + 1 ELSE A(p, t)
      BY <3>1, NamedNext
    <3> QED BY <2>5, <3>2, <3>3, <3>4, Zenon
  <2> HIDE DEF A, N
  <2>8. lookup(k) <=> k \notin N(p) /\ Alive(job.was, k, now)
    BY <2>6, FoundIs DEF IInv, Alive
  <2>9. Alive(job.was, k, now) => Alive(job.was, k, job.began)
    BY <1>2 DEF Alive, Dues
  <2>10. n \in A(p + 1, now)..A(p + 1, job.began)
    BY <2>2, <2>6, <2>7, <2>8, <2>9
  <2>11. /\ DOMAIN ref' = DOMAIN ref \ {k} /\ \A i \in DOMAIN ref' : ref'[i] = ref[i]
    BY <2>4 DEF Restrict
  <2>12. DOMAIN ref' = DOMAIN job.was \ N(p + 1) /\ \A i \in DOMAIN ref' : ref'[i] = job.was[i]
    BY <2>6, <2>7, <2>11
  <2>13. Deleting(job, now)'
    BY <1>2, <2>4, <2>5, <2>10, <2>12 DEF Deleting, A, N
  <2>14. Underway'
    BY <1>2, <2>4, <2>5, <2>13 DEF Underway
  <2>15. Kept'
    BY <1>2, <2>4, DropKeeps, Zenon DEF IInv, Kept
  <2> QED BY <1>2, <2>14, <2>15 DEF IInv, Clock
<1> QED BY <1>3, <1>4 DEF DelStep, End

\* The steps that end a command.
LEMMA EndsKeep ==
  ASSUME IInv, ExpireStep \/ TtlStep
  PROVE  IInv'
<1>1. job' = Nil
  BY DEF ExpireStep, TtlStep, End
<1>2. now' = now
  BY DEF ExpireStep, TtlStep, Running
<1>3. CASE Unchanged
  BY <1>1, <1>2, <1>3, SameKept, IdleKeeps
<1>4. CASE Running("expire") /\ lookup(job.args[2])
           /\ Write(job.args[2], db[job.args[2]].text, job.at, job.due)
  <2>1. Agree(job.at, job.due)
    BY <1>4, RunningIs
  <2>2. db[job.args[2]].text \in Seq(Chars)
    BY <1>4 DEF IInv, Kept, lookup
  <2>3. Kept'
    BY <1>2, <1>4, <2>1, <2>2, WriteKeeps DEF IInv
  <2> QED BY <1>1, <1>2, <2>3, IdleKeeps
<1> QED BY <1>3, <1>4 DEF ExpireStep, TtlStep

\* Every step keeps the invariant.
LEMMA NextKeeps ==
  ASSUME IInv, [Next]_vars
  PROVE  IInv'
<1>1. CASE Tick
  BY <1>1, TickKeeps
<1>2. ASSUME NEW args \in Requests,
             \/ Rejected(args) \/ cmd_ping(args) \/ cmd_info(args) \/ cmd_command(args)
             \/ cmd_config(args) \/ cmd_get(args)
      PROVE  IInv'
  BY <1>2, ReadsKeep
<1>3. ASSUME NEW args \in Requests, cmd_set(args) \/ cmd_incr(args) \/ cmd_flushall(args)
      PROVE  IInv'
  BY <1>3, SetKeeps, IncrKeeps, FlushAllKeeps
<1>4. ASSUME NEW args \in Requests,
             cmd_del(args) \/ cmd_exists(args) \/ cmd_expire(args) \/ cmd_ttl(args)
      PROVE  IInv'
  BY <1>4, ListsKeep, ExpireBeginKeeps, TtlBeginKeeps
<1>5. CASE DelStep \/ ExistsStep \/ ExpireStep \/ TtlStep
  BY <1>5, DelStepKeeps, ExistsStepKeeps, EndsKeep
<1>6. CASE UNCHANGED vars
  <2>1. now' = now /\ db' = db /\ ref' = ref /\ job' = job
    BY <1>6 DEF vars
  <2>2. Kept' /\ Clock'
    BY <2>1, SameKept DEF Unchanged
  <2>3. Underway'
    BY <2>1, AgreeSame DEF IInv, Underway, Deleting
  <2> QED BY <2>2, <2>3 DEF IInv
<1> QED BY <1>1, <1>2, <1>3, <1>4, <1>5, <1>6 DEF Next

\* The database of the code and the one a client has in mind agree, and a
\* command in progress has done what its arguments up to here ask for.
THEOREM Invariant == Spec => []IInv
<1>1. Init => IInv
  BY DEF Init, IInv, Clock, Kept, Underway
<1>2. IInv /\ [Next]_vars => IInv'
  BY NextKeeps
<1> QED BY <1>1, <1>2, PTL DEF Spec

\* A key is there, and holds, what the acknowledged commands asked for, with
\* deadlines in unbounded arithmetic, whatever the width of the integers.
THEOREM CommandsLiveAsAsked == Spec => []LivesAsAsked
<1>1. IInv => LivesAsAsked
  BY FoundIs DEF IInv, LivesAsAsked
<1> QED BY <1>1, Invariant, PTL
-----------------------------------------------------------------------------
(* Errors change nothing *)

\* A reply that reports success is no error.
LEMMA Successes ==
  /\ Ok.kind = "ok" /\ Ok # Error
  /\ \A n : Int64(n).kind = "integer" /\ Int64(n).n = n /\ Int64(n) # Error
<1>1. Ok.kind = "ok" /\ \A n : Int64(n).kind = "integer" /\ Int64(n).n = n
  BY DEF Ok, Int64
<1>2. Error.kind = "error"
  BY DEF Error
<1> QED BY <1>1, <1>2

\* A command refused leaves the database alone, FLUSHALL aside.
LEMMA RefusalIs ==
  ASSUME IInv, [Next]_vars, last' # last, last'.reply = Error,
         normalize_name(last'.args[1]) # "flushall"
  PROVE  db' = db /\ (job # Nil => ref = job.was)
<1>1. \A args, reply, was, began :
        Answer(args, reply, was, began) => last'.reply = reply /\ last'.args = args
  BY DEF Answer
<1>2. ASSUME NEW args \in Requests,
             \/ Rejected(args) \/ cmd_ping(args) \/ cmd_info(args) \/ cmd_command(args)
             \/ cmd_config(args) \/ cmd_get(args) \/ cmd_exists(args)
             \/ cmd_del(args) \/ cmd_expire(args) \/ cmd_ttl(args)
      PROVE  db' = db /\ job = Nil
  <2>1. Unchanged
    BY <1>2, ZenonT(30) DEF Rejected, cmd_ping, cmd_info, cmd_command, cmd_config, cmd_get, cmd_exists,
                cmd_del, cmd_expire, cmd_ttl, Begin, Refused
  <2>2. Received(args)
    BY <1>2, Zenon DEF Rejected, cmd_ping, cmd_info, cmd_command, cmd_config, cmd_get, cmd_exists,
                cmd_del, cmd_expire, cmd_ttl, Dispatched
  <2> QED BY <2>1, <2>2 DEF Unchanged, Received
<1>3. ASSUME NEW args \in Requests, cmd_set(args) \/ cmd_incr(args)
      PROVE  db' = db /\ job = Nil
  <2>1. job = Nil
    BY <1>3, DispatchedIs DEF cmd_set, cmd_incr
  <2>2. \A n : ~AnswerNow(args, Ok) /\ ~AnswerNow(args, Int64(n))
    BY <1>1, Successes DEF AnswerNow
  <2>3. Refused(args)
    BY <1>3, <2>2 DEF cmd_set, cmd_incr
  <2> QED BY <2>1, <2>3 DEF Refused, Unchanged
<1>4. ASSUME NEW args \in Requests, cmd_flushall(args)
      PROVE  FALSE
  <2>1. normalize_name(args[1]) = "flushall"
    BY <1>4, DispatchedIs DEF cmd_flushall
  <2>2. AnswerNow(args, Ok) \/ AnswerNow(args, Error)
    BY <1>4 DEF cmd_flushall
  <2> QED BY <1>1, <2>1, <2>2 DEF AnswerNow
<1>5. CASE DelStep \/ ExistsStep \/ TtlStep
  <2>1. \A n : ~End(Int64(n))
    BY <1>1, Successes DEF End
  <2> QED BY <1>5, <2>1 DEF DelStep, ExistsStep, TtlStep
<1>6. CASE ExpireStep
  <2>1. \A n : ~End(Int64(n))
    BY <1>1, Successes DEF End
  <2>2. Running("expire") /\ Unchanged
    BY <1>6, <2>1 DEF ExpireStep
  <2>3. job.was = ref
    BY <2>2, RunningIs
  <2> QED BY <2>2, <2>3 DEF Unchanged
<1>7. ~Tick /\ ~UNCHANGED vars
  BY DEF Tick, vars
<1> QED BY <1>2, <1>3, <1>4, <1>5, <1>6, <1>7 DEF Next

\* A refused command, FLUSHALL apart, has changed no key, neither in the step
\* that answers nor in one before it (Underway holds the keys as they were).
THEOREM RefusalsChangeNothing == Spec => RefusedChangesNothing
<1>1. IInv /\ [Next]_vars =>
        [last' # last /\ last'.reply = Error /\ normalize_name(last'.args[1]) # "flushall" =>
           db' = db /\ (job # Nil => ref = job.was)]_vars
  BY RefusalIs
<1> QED BY <1>1, Invariant, PTL DEF Spec, RefusedChangesNothing

-----------------------------------------------------------------------------
(* Replies *)

\* A right reply recorded keeps AnswersAsAsked.
LEMMA Answered ==
  ASSUME NEW args, NEW reply, NEW was, NEW began, Answer(args, reply, was, began),
         reply.kind # "error" => Right(reply, args, was, began, now)
  PROVE  AnswersAsAsked'
<1>1. PICK l : l = [args |-> args, reply |-> reply, was |-> was, began |-> began, ended |-> now]
  BY Zenon
<1>2. l.args = args /\ l.reply = reply /\ l.was = was /\ l.began = began /\ l.ended = now
  BY <1>1
<1>3. last' = l
  BY <1>1 DEF Answer
<1>4. l.reply.kind # "error" => Right(l.reply, l.args, l.was, l.began, l.ended)
  BY <1>2
<1> QED BY <1>3, <1>4 DEF AnswersAsAsked

\* Commands whose reply says nothing of the database.
LEMMA OtherRight ==
  ASSUME NEW args, normalize_name(args[1]) \notin {"get", "ttl", "incr", "expire", "exists", "del"},
         NEW reply, NEW was, NEW began, NEW ended
  PROVE  Right(reply, args, was, began, ended)
BY DEF Right

\* Rounding up.
LEMMA RoundUp ==
  ASSUME NEW r \in Nat, NEW u \in Nat \ {0}, NEW n, n = (r + (u - 1)) \div u
  PROVE  n \in Nat /\ n * u >= r /\ (n - 1) * u < r
<1>1. n \in Nat /\ n * u <= r + (u - 1) /\ r + (u - 1) < (n + 1) * u
  OBVIOUS
<1>2. (n + 1) * u = n * u + u /\ (n - 1) * u = n * u - u /\ n * u \in Int
  BY <1>1
<1> QED BY <1>1, <1>2

\* TTL's second reading of the clock.
LEMMA TtlIs ==
  ASSUME Clock, NEW at \in Int, NEW began \in StartTime..now, began < at, at <= kMax,
         NEW n, n = Rounded(IF Wrap(at - now) > 0 THEN Wrap(at - now) ELSE 0)
  PROVE  TtlRight(n, at, began, now)
<1>1. now \in Int /\ began \in Int /\ began <= now /\ Second <= began /\ now <= kMax
  BY DEF Clock
<1>2. Wrap(at - now) = at - now
  BY <1>1, WrapIs
<1>3. PICK r \in Nat : r = IF at > now THEN at - now ELSE 0
  BY <1>1
<1>4. n = Wrap(r + (Second - 1)) \div Second
  BY <1>1, <1>2, <1>3 DEF Rounded
<1>5. Wrap(r + (Second - 1)) = r + (Second - 1)
  <2>1. r + (Second - 1) \in (-kMax - 1)..kMax
    BY <1>1, <1>3
  <2> QED BY <2>1, WrapIs
<1>6. n \in Nat /\ n * Second >= r /\ (n - 1) * Second < r
  BY <1>4, <1>5, RoundUp, ZenonT(30)
<1>7. n * Second \in Int /\ (n - 1) * Second = n * Second - Second
  BY <1>6
<1> QED BY <1>1, <1>3, <1>6, <1>7 DEF TtlRight

\* GET.
LEMMA GetRight ==
  ASSUME IInv, NEW args \in Requests, cmd_get(args)
  PROVE  AnswersAsAsked'
<1>1. normalize_name(args[1]) = "get"
  BY DispatchedIs DEF cmd_get
<1>2. PICK reply : reply = IF lookup(args[2]) THEN Bulk(db[args[2]].text) ELSE Null
  OBVIOUS
<1>3. Answer(args, reply, ref, now)
  BY <1>2 DEF cmd_get, AnswerNow
<1>4. reply = IF Alive(ref, args[2], now) THEN Bulk(ref[args[2]].text) ELSE Null
  BY <1>2, FoundIs DEF IInv
<1>5. Right(reply, args, ref, now, now)
  BY <1>1, <1>4 DEF Right
<1> QED BY <1>3, <1>5, Answered

\* INCR.
LEMMA IncrRight ==
  ASSUME IInv, NEW args \in Requests, cmd_incr(args)
  PROVE  AnswersAsAsked'
<1>1. normalize_name(args[1]) = "incr"
  BY DispatchedIs DEF cmd_incr
<1>2. CASE Refused(args)
  BY <1>2, Answered DEF Refused, AnswerNow, Error
<1>3. PICK k : k = args[2]
  OBVIOUS
<1>4. PICK value : value = IF lookup(k) THEN parse_int64(db[k].text) ELSE [ok |-> TRUE, n |-> 0]
  BY Zenon
<1>5. CASE value.n # kMax /\ Answer(args, Int64(Wrap(value.n + 1)), ref, now)
  <2>1. lookup(k) => db[k].text \in Seq(Chars)
    BY DEF IInv, Kept, lookup
  <2>2. value.n \in (-kMax)..kMax
    BY <1>4, <2>1, ParsedIs
  <2>3. Wrap(value.n + 1) = value.n + 1
    BY <1>5, <2>2, WrapIs
  <2>4. Wrap(value.n + 1) = IF Alive(ref, k, now) THEN parse_int64(ref[k].text).n + 1 ELSE 1
    BY <1>4, <2>3, FoundIs DEF IInv
  <2>5. PICK reply : reply = Int64(Wrap(value.n + 1))
    OBVIOUS
  <2>6. reply.n = IF Alive(ref, args[2], now) THEN parse_int64(ref[args[2]].text).n + 1 ELSE 1
    BY <1>3, <2>4, <2>5, Successes
  <2>7. Right(reply, args, ref, now, now)
    BY <1>1, <2>6 DEF Right
  <2> QED BY <1>5, <2>5, <2>7, Answered
<1> QED BY <1>2, <1>3, <1>4, <1>5 DEF cmd_incr, AnswerNow

\* At the end of a list all of it is done.
LEMMA ListEnds ==
  ASSUME NEW j, j.args \in Requests, Listing(j), j.rest = <<>>
  PROVE  Done(j) = Len(j.args)
<1>1. Len(j.args) \in Nat
  BY RequestIs
<1> QED BY <1>1 DEF Done

\* DEL and EXISTS.
LEMMA ListsRight ==
  ASSUME IInv, job # Nil, job.rest = <<>>, End(Int64(job.tally)),
         Running("exists") \/ Running("del")
  PROVE  AnswersAsAsked'
<1>1. PICK args, was, began, n :
        /\ args = job.args /\ was = job.was /\ began = job.began /\ n = job.tally
  OBVIOUS
<1>2. PICK reply : reply = Int64(n) /\ reply.n = n
  BY Successes
<1>3. Answer(args, reply, was, began)
  BY <1>1, <1>2 DEF End
<1>4. CASE Running("exists")
  <2>1. normalize_name(args[1]) = "exists" /\ Counting(job, now) /\ job.args \in Requests
    BY <1>1, <1>4, RunningIs
  <2>2. Done(job) = Len(args)
    BY <1>1, <2>1, ListEnds DEF Counting
  <2>3. n \in Listed(args, was, now)..Listed(args, was, began)
    BY <1>1, <2>1, <2>2 DEF Counting, LiveUpTo, Listed
  <2>4. Right(reply, args, was, began, now)
    BY <1>2, <2>1, <2>3 DEF Right
  <2> QED BY <1>3, <2>4, Answered
<1>5. CASE Running("del")
  <2>1. normalize_name(args[1]) = "del" /\ Deleting(job, now) /\ job.args \in Requests
    BY <1>1, <1>5, RunningIs
  <2>2. Done(job) = Len(args)
    BY <1>1, <2>1, ListEnds DEF Deleting
  <2>3. n \in Cardinality(AliveAt(Named(args), was, now))
             ..Cardinality(AliveAt(Named(args), was, began))
    BY <1>1, <2>1, <2>2 DEF Deleting, NamedUpTo, Named
  <2>4. Right(reply, args, was, began, now)
    BY <1>2, <2>1, <2>3 DEF Right
  <2> QED BY <1>3, <2>4, Answered
<1> QED BY <1>4, <1>5

\* TTL's reading of the key.
LEMMA TtlBeginsRight ==
  ASSUME IInv, AnswersAsAsked, NEW args \in Requests, cmd_ttl(args)
  PROVE  AnswersAsAsked'
<1>1. normalize_name(args[1]) = "ttl"
  BY DispatchedIs DEF cmd_ttl
<1>2. PICK k : k = args[2]
  OBVIOUS
<1>3. CASE last' = last
  BY <1>3 DEF AnswersAsAsked
<1>4. ASSUME NEW n, Answer(args, Int64(n), ref, now),
             \/ ~lookup(k) /\ n = -2
             \/ lookup(k) /\ db[k].expires_at_ms = 0 /\ n = -1
      PROVE  AnswersAsAsked'
  <2>1. PICK reply : reply = Int64(n) /\ reply.n = n
    BY Successes
  <2>2. IF ~Alive(ref, args[2], now) THEN reply.n = -2
        ELSE ref[args[2]].due = Nil /\ reply.n = -1
    BY <1>2, <1>4, <2>1, FoundIs DEF IInv
  <2>3. Right(reply, args, ref, now, now)
    BY <1>1, <2>2 DEF Right
  <2> QED BY <1>4, <2>1, <2>3, Answered
<1> QED BY <1>2, <1>3, <1>4 DEF cmd_ttl, AnswerNow

\* TTL's answer.
LEMMA TtlRightly ==
  ASSUME IInv, TtlStep
  PROVE  AnswersAsAsked'
<1>1. PICK args, was, began, n :
        /\ args = job.args /\ was = job.was /\ began = job.began
        /\ n = Rounded(IF Wrap(job.at - now) > 0 THEN Wrap(job.at - now) ELSE 0)
  OBVIOUS
<1>2. PICK reply : reply = Int64(n) /\ reply.n = n
  BY Successes
<1>3. Running("ttl") /\ Answer(args, reply, was, began)
  BY <1>1, <1>2 DEF TtlStep, End
<1>4. normalize_name(args[1]) = "ttl" /\ Timing(job) /\ began \in StartTime..now
  BY <1>1, <1>3, RunningIs
<1>5. /\ Alive(was, args[2], began) /\ was[args[2]].due = job.at /\ job.at \in Int
      /\ job.at <= kMax /\ began < job.at /\ was[args[2]].due # Nil
  BY <1>1, <1>4 DEF Timing, Alive
<1>6. TtlRight(n, job.at, began, now)
  BY <1>1, <1>4, <1>5, TtlIs DEF IInv
<1>7. Right(reply, args, was, began, now)
  BY <1>2, <1>4, <1>5, <1>6 DEF Right
<1> QED BY <1>3, <1>7, Answered

\* EXPIRE's answer.
LEMMA ExpireRightly ==
  ASSUME IInv, ExpireStep
  PROVE  AnswersAsAsked'
<1>1. PICK args, was, began : args = job.args /\ was = job.was /\ began = job.began
  OBVIOUS
<1>2. /\ normalize_name(args[1]) = "expire" /\ was = ref /\ Dues(was) /\ now \in Int
      /\ began \in StartTime..now
  BY <1>1, RunningIs DEF ExpireStep
<1>3. lookup(args[2]) <=> Alive(was, args[2], now)
  BY <1>2, FoundIs DEF IInv
<1>4. Alive(was, args[2], now) => Alive(was, args[2], began)
  BY <1>2 DEF Alive, Dues
<1>5. CASE Answer(args, Error, was, began)
  BY <1>5, Answered DEF Error
<1>6. ASSUME NEW n \in {0, 1}, Answer(args, Int64(n), was, began),
             n = 1 <=> lookup(args[2])
      PROVE  AnswersAsAsked'
  <2>1. PICK reply : reply = Int64(n) /\ reply.n = n
    BY Successes
  <2>2. /\ reply.n \in {0, 1}
        /\ reply.n = 1 => Alive(was, args[2], began)
        /\ reply.n = 0 => ~Alive(was, args[2], now)
    BY <1>3, <1>4, <1>6, <2>1
  <2>3. Right(reply, args, was, began, now)
    BY <1>2, <2>2 DEF Right
  <2> QED BY <1>6, <2>1, <2>3, Answered
<1> QED BY <1>1, <1>5, <1>6 DEF ExpireStep, End

\* Every step.
LEMMA NextRight ==
  ASSUME IInv, AnswersAsAsked, [Next]_vars
  PROVE  AnswersAsAsked'
<1>1. CASE last' = last
  BY <1>1 DEF AnswersAsAsked
<1>2. ASSUME NEW args \in Requests, Rejected(args) \/ Refused(args)
      PROVE  AnswersAsAsked'
  BY <1>2, Answered DEF Rejected, Refused, AnswerNow, Error
<1>3. ASSUME NEW args \in Requests, NEW n,
             Dispatched(n, args),
             n \notin {"get", "ttl", "incr", "expire", "exists", "del"},
             NEW reply, AnswerNow(args, reply)
      PROVE  AnswersAsAsked'
  <2>1. normalize_name(args[1]) = n
    BY <1>3, DispatchedIs
  <2>2. Right(reply, args, ref, now, now)
    BY <1>3, <2>1, OtherRight
  <2> QED BY <1>3, <2>2, Answered DEF AnswerNow
<1>4. ASSUME NEW args \in Requests, cmd_ping(args) \/ cmd_info(args) \/ cmd_command(args)
      PROVE  AnswersAsAsked'
  BY <1>3, <1>4 DEF cmd_ping, cmd_info, cmd_command
<1>5. ASSUME NEW args \in Requests, cmd_config(args) \/ cmd_set(args) \/ cmd_flushall(args)
      PROVE  AnswersAsAsked'
  BY <1>2, <1>3, <1>5 DEF cmd_config, cmd_set, cmd_flushall
<1>6. ASSUME NEW args \in Requests, cmd_del(args) \/ cmd_exists(args) \/ cmd_expire(args)
      PROVE  AnswersAsAsked'
  <2>1. last' = last \/ Refused(args)
    BY <1>6 DEF cmd_del, cmd_exists, cmd_expire, Begin
  <2> QED BY <1>1, <1>2, <2>1
<1>7. CASE DelStep \/ ExistsStep
  <2>1. \/ last' = last
        \/ (Running("exists") \/ Running("del")) /\ job.rest = <<>> /\ End(Int64(job.tally))
    BY <1>7 DEF DelStep, ExistsStep
  <2> QED BY <1>1, <2>1, ListsRight DEF Running
<1>8. CASE Tick \/ UNCHANGED vars
  BY <1>1, <1>8 DEF Tick, vars
<1> QED
  BY <1>2, <1>4, <1>5, <1>6, <1>7, <1>8, GetRight, IncrRight, ExpireRightly, TtlBeginsRight,
     TtlRightly
  DEF Next

\* Every reply but an error is right for the time its command took, for any
\* requests, any width of integers and however the clock moves.
THEOREM RepliesAreRight == Spec => []AnswersAsAsked
<1>1. Init => AnswersAsAsked
  BY DEF Init, AnswersAsAsked
<1>2. IInv /\ AnswersAsAsked /\ [Next]_vars => AnswersAsAsked'
  BY NextRight
<1> QED BY <1>1, <1>2, Invariant, PTL DEF Spec

=============================================================================
