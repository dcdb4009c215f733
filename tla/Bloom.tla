-------------------------------- MODULE Bloom -------------------------------
(***************************************************************************)
(* The filter of one SSTable (bloom.cpp): the block build() makes of a set *)
(* of keys, and what may_contain answers from the block alone.  The hash   *)
(* is a constant; everything after it is arithmetic on machine words.      *)
(***************************************************************************)
EXTENDS Integers, FiniteSets

CONSTANTS
  probe_for,    \* key -> [h1, h2], the two halves of its hash, h2 made odd
  Word          \* 2^32: where the probe position wraps

ASSUME BloomAssumption ==
  /\ Word \in Nat \ {0}
  /\ \A k \in DOMAIN probe_for :
       /\ probe_for[k] \in [h1 : 0..(Word - 1), h2 : 0..(Word - 1)]
       /\ probe_for[k].h2 % 2 = 1

optimal_probes(bits_per_key) ==
  LET k == (69 * bits_per_key + 50) \div 100
  IN  IF k < 1 THEN 1 ELSE IF k > 30 THEN 30 ELSE k

bits_for(key_count, bits_per_key) ==
  LET bits == key_count * (IF bits_per_key < 1 THEN 1 ELSE bits_per_key)
      up   == ((bits + 7) \div 8) * 8
  IN  IF up < 64 THEN 64 ELSE up

\* The bit the i-th probe (from 0) of key falls on.
BitOf(key, i, bits) ==
  ((probe_for[key].h1 + i * probe_for[key].h2) % Word) % bits

\* size counts the bytes of the block, its last byte k included.
build(keys, bits_per_key) ==
  LET bits == bits_for(Cardinality(keys), bits_per_key)
      k    == optimal_probes(bits_per_key)
  IN  [size |-> (bits \div 8) + 1,
       set  |-> {BitOf(key, i, bits) : key \in keys, i \in 0..(k - 1)},
       k    |-> k]

ProbesOneTooMany(block, key) ==
  \A i \in 0..block.k : BitOf(key, i, (block.size - 1) * 8) \in block.set

\* Every bit of the key is set.
Probes(block, key) ==
  \A i \in 0..(block.k - 1) : BitOf(key, i, (block.size - 1) * 8) \in block.set

\* A block that makes no sense answers "maybe".
may_contain(block, key) ==
  \/ block.size < 2
  \/ block.k < 1 \/ block.k > 30
  \/ Probes(block, key)

=============================================================================
