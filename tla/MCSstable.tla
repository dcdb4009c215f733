------------------------------ MODULE MCSstable -----------------------------
(* Tables for the instance of Sstable that TLC checks. *)
EXTENDS Sstable

CONSTANTS short, long

MCValueSize == [v \in Values |-> IF v = short THEN 1 ELSE 6]

\* The second half is odd, the probes wrap, and two keys share theirs, so a
\* table that holds one of them answers "maybe" for the other.
MCProbe ==
  [k \in Keys |-> [h1 |-> (37 * (k % 3)) % Word,
                   h2 |-> 2 * ((50 * (k % 3) + 30) % (Word \div 2)) + 1]]

\* Newer tables delete and overwrite, older ones hold expired and lasting
\* values; the middle one, where there is one, holds a single key.
Newer == [Keys -> {Nil, Tombstone, Live(short, 0)}]
Older == [Keys -> {Nil, Live(long, 0), Live(short, 1)}]
Single == {[EmptyLayer EXCEPT ![k] = Live(long, 2)] : k \in Keys}

MCInputs == {<<n, o>> : n \in Newer, o \in Older}
            \cup {<<n, s, o>> : n \in {l \in Newer : l[1] = Nil}, s \in Single,
                                o \in {l \in Older : l[2] = Nil /\ l[3] = Nil}}

=============================================================================
