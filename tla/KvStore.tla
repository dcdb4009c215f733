------------------------------ MODULE KvStore -------------------------------
(***************************************************************************)
(* What cachedb promises its clients, with no layer, log or file in it: a  *)
(* dictionary whose writes are all visible at once, and are sure to        *)
(* survive a power cut from the moment their replies are released.         *)
(***************************************************************************)
EXTENDS Layers

VARIABLES
  db,    \* what each key reads as, Nil when it has no live value
  may,   \* the values each key may be found with if power is lost now
  held,  \* replies to writes are waiting
  up,    \* the process is running
  now    \* the wall clock

vars == <<db, may, held, up, now>>

Init ==
  /\ db = EmptyLayer
  /\ may = [k \in Keys |-> {Nil}]
  /\ held = FALSE
  /\ up = TRUE
  /\ now = 1

\* may never gains a value but the one a write has just given.
Narrows ==
  /\ DOMAIN may' = Keys
  /\ \A k \in Keys : db'[k] \in may'[k] /\ may'[k] \subseteq may[k] \cup {db'[k]}

\* A command gives the keys it names one new entry, and its reply is held.
Write ==
  /\ up
  /\ \E ks \in SUBSET Keys, e \in Entry :
       db' = [k \in Keys |-> IF k \in ks THEN Seen(e, now) ELSE db[k]]
  /\ Narrows
  /\ held' = TRUE
  /\ UNCHANGED <<up, now>>

\* Flushes, merges, sweeps and refusals: no key reads differently.
Settle == Narrows /\ UNCHANGED <<db, held, up, now>>

\* Replies go out once nothing that was executed can be lost.
Release ==
  /\ up /\ held
  /\ held' = FALSE
  /\ may' = [k \in Keys |-> {db[k]}]
  /\ UNCHANGED <<db, up, now>>

\* The process dies: clients lose their replies and no key reads differently.
Kill == up /\ up' = FALSE /\ held' = FALSE /\ Narrows /\ UNCHANGED <<db, now>>

\* The process starts again and finds what the last one left.
Restart == ~up /\ up' = TRUE /\ Narrows /\ UNCHANGED <<db, held, now>>

PowerLoss ==
  /\ DOMAIN db' = Keys
  /\ \A k \in Keys : db'[k] \in may[k]
  /\ may' = [k \in Keys |-> {db'[k]}]
  /\ held' = FALSE
  /\ up' = FALSE
  /\ now' = now

Tick ==
  /\ now' = now + 1
  /\ db' = [k \in Keys |-> Seen(db[k], now + 1)]
  /\ may' = [k \in Keys |-> {Seen(e, now + 1) : e \in may[k]}]
  /\ UNCHANGED <<held, up>>

Next == Write \/ Settle \/ Release \/ Kill \/ Restart \/ PowerLoss \/ Tick

Spec == Init /\ [][Next]_vars

=============================================================================
