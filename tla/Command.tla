------------------------------- MODULE Command ------------------------------
(***************************************************************************)
(* The commands (command.cpp) on the keys a client sees: dispatch, arity,  *)
(* options, the strict integer parser, deadlines in machine arithmetic and *)
(* the replies.  A command that reads the clock more than once is more     *)
(* than one step, and the clock may advance between them; nothing else     *)
(* can, the server having one thread.  The layers under a key are          *)
(* Store.tla's.  ref is what clients asked for, in unbounded arithmetic.   *)
(***************************************************************************)
EXTENDS Integers, Sequences, FiniteSets, Functions

CONSTANTS
  Keys, Nil,
  Chars,         \* what texts are made of
  Requests,      \* argument vectors clients send
  Texts,         \* texts the integer parser is tried on
  kMax,          \* the largest int64
  kMaxText,      \* the longest spelling of an int64
  Second,        \* unit_ms of EX, EXPIRE and TTL
  StartTime,     \* the clock when the server starts
  MaxTime,       \* bound: when the clock stops
  MaxCommands    \* bound: commands executed

ASSUME CommandAssumption ==
  /\ kMax \in Nat /\ kMaxText \in Nat
  /\ Second \in Nat \ {0}
  /\ StartTime \in Second..kMax /\ MaxTime \in StartTime..kMax
  /\ MaxCommands \in Nat
  /\ Nil \notin Int

VARIABLES
  now,         \* what now_ms() returns
  db,          \* the keys the store holds, each with its value and stamp
  job,         \* the rest of a command between two reads of the clock
  ref,         \* history: the keys written, each with its value and the deadline asked for
  last,        \* history: the last command and its reply
  count        \* commands executed

vars == <<now, db, job, ref, last, count>>

-----------------------------------------------------------------------------
(* Integers *)

\* Where an int64 that overflows ends up on two's-complement hardware.
Wrap(n) == ((n + kMax + 1) % (2 * kMax + 2)) - (kMax + 1)

Digits == <<"0", "1", "2", "3", "4", "5", "6", "7", "8", "9">>

ASSUME CharsAssumption == "-" \in Chars /\ \A i \in 1..10 : Digits[i] \in Chars

IsDigit(c) == \E i \in 1..10 : Digits[i] = c
DigitValue(c) == (CHOOSE i \in 1..10 : Digits[i] = c) - 1

NotAnInteger == [ok |-> FALSE, n |-> 0]

NextDigitCheckedLoosely(acc, c) ==
  IF ~acc.ok \/ ~IsDigit(c) THEN NotAnInteger
  ELSE IF acc.n > kMax \div 10 THEN NotAnInteger
  ELSE [ok |-> TRUE, n |-> Wrap(acc.n * 10 + DigitValue(c))]

\* The overflow check comes before the multiplication.
NextDigit(acc, c) ==
  IF ~acc.ok \/ ~IsDigit(c) THEN NotAnInteger
  ELSE IF acc.n > (kMax - DigitValue(c)) \div 10 THEN NotAnInteger
  ELSE [ok |-> TRUE, n |-> Wrap(acc.n * 10 + DigitValue(c))]

parse_int64(text) ==
  LET negative == text # <<>> /\ Head(text) = "-"
      digits   == IF negative THEN Tail(text) ELSE text
      upto[i \in 0..Len(digits)] ==
        IF i = 0 THEN [ok |-> TRUE, n |-> 0] ELSE NextDigit(upto[i - 1], digits[i])
      value    == upto[Len(digits)]
  IN  IF digits = <<>> \/ Len(text) > kMaxText THEN NotAnInteger
      ELSE IF Head(digits) = "0" /\ (Len(digits) > 1 \/ negative) THEN NotAnInteger
      ELSE [value EXCEPT !.n = IF negative THEN -@ ELSE @]

\* std::to_string.
to_string(n) ==
  LET size == IF n < 0 THEN -n ELSE n
      from[m \in 0..size] ==
        IF m < 10 THEN <<Digits[m + 1]>>
        ELSE Append(from[m \div 10], Digits[(m % 10) + 1])
  IN  IF n < 0 THEN <<"-">> \o from[size] ELSE from[size]

DeadlineUnchecked(amount, unit_ms) == [ok |-> TRUE, at |-> Wrap(now + Wrap(amount * unit_ms))]

\* Refuses what would wrap; 0 means "never" and is avoided.
deadline_from(amount, unit_ms) ==
  LET delta == Wrap(amount * unit_ms)
      at    == Wrap(now + delta)
  IN  IF amount > kMax \div unit_ms \/ delta > Wrap(kMax - now)
      THEN [ok |-> FALSE, at |-> 0]
      ELSE [ok |-> TRUE, at |-> IF at = 0 THEN -1 ELSE at]

-----------------------------------------------------------------------------
(* The store, as commands see it *)

Stored(text, at) == [text |-> text, expires_at_ms |-> at]

\* lookup() finds k at this moment.
lookup(k) ==
  k \in DOMAIN db /\ ~(db[k].expires_at_ms # 0 /\ db[k].expires_at_ms <= now)

\* What was asked for, due being Nil for ever.
Asked(text, due) == [text |-> text, due |-> due]

Init ==
  /\ now = StartTime
  /\ db = <<>>
  /\ job = Nil
  /\ ref = <<>>
  /\ last = Nil
  /\ count = 0

\* The clock moves at any time, in the middle of a command as well.
Tick ==
  /\ now < MaxTime
  /\ now' = now + 1
  /\ UNCHANGED <<db, job, ref, last, count>>

-----------------------------------------------------------------------------
(* Dispatch *)

Upper == [n \in {"SET", "EX"} |-> IF n = "SET" THEN "set" ELSE "ex"]

normalize_name(n) == IF n \in DOMAIN Upper THEN Upper[n] ELSE n

\* A request is a sequence; a value, and what is read as a number, is a text.
ASSUME RequestsAssumption ==
  \A args \in Requests :
    /\ Len(args) \in Nat /\ args = [i \in 1..Len(args) |-> args[i]]
    /\ normalize_name(args[1]) = "set" =>
         \A i \in {3, 5} : i <= Len(args) => args[i] \in Seq(Chars)
    /\ normalize_name(args[1]) = "expire" /\ Len(args) = 3 => args[3] \in Seq(Chars)

Variadic == -1

dispatch_table ==
  [n \in {"ping", "set", "get", "expire", "ttl", "incr", "flushall", "info",
          "config", "del", "exists", "command"} |->
     CASE n \in {"ping", "info"}        -> [min |-> 1, max |-> 2]
       [] n = "set"                     -> [min |-> 3, max |-> Variadic]
       [] n \in {"get", "ttl", "incr"}  -> [min |-> 2, max |-> 2]
       [] n = "expire"                  -> [min |-> 3, max |-> 3]
       [] n \in {"flushall", "command"} -> [min |-> 1, max |-> Variadic]
       [] OTHER                         -> [min |-> 2, max |-> Variadic]]

Error == [kind |-> "error"]
Ok    == [kind |-> "ok"]
Null  == [kind |-> "null"]
Array(n) == [kind |-> "array", n |-> n]
Int64(n) == [kind |-> "integer", n |-> n]
Bulk(text) == [kind |-> "bulk", text |-> text]

Accepts(n, args) ==
  /\ n \in DOMAIN dispatch_table
  /\ Len(args) >= dispatch_table[n].min
  /\ dispatch_table[n].max >= 0 => Len(args) <= dispatch_table[n].max

Received(args) ==
  /\ job = Nil /\ count < MaxCommands
  /\ count' = count + 1
  /\ UNCHANGED now

\* A client sends args, and they go to handler n.
Dispatched(n, args) ==
  normalize_name(args[1]) = n /\ Accepts(n, args) /\ Received(args)

\* The reply ends the command; was and began are how it found things.
Answer(args, reply, was, began) ==
  last' = [args |-> args, reply |-> reply, was |-> was, began |-> began, ended |-> now]

AnswerNow(args, reply) == Answer(args, reply, ref, now) /\ UNCHANGED job

Unchanged == UNCHANGED <<db, ref>>

\* No such command, or not with this many arguments.
Rejected(args) ==
  /\ ~Accepts(normalize_name(args[1]), args) /\ Received(args)
  /\ AnswerNow(args, Error) /\ Unchanged

cmd_ping(args) ==
  /\ Dispatched("ping", args)
  /\ AnswerNow(args, IF Len(args) = 1 THEN Ok ELSE Bulk(args[2])) /\ Unchanged

cmd_info(args) ==
  Dispatched("info", args) /\ AnswerNow(args, Bulk(<<>>)) /\ Unchanged

cmd_command(args) ==
  Dispatched("command", args) /\ AnswerNow(args, Array(0)) /\ Unchanged

Parameters == {"save", "appendonly", "appendfsync", "maxmemory"}

cmd_config(args) ==
  /\ Dispatched("config", args)
  /\ AnswerNow(args, IF normalize_name(args[2]) # "get" THEN Error
                     ELSE IF Len(args) # 3 \/ normalize_name(args[3]) \notin Parameters
                     THEN Array(0) ELSE Array(2))
  /\ Unchanged

-----------------------------------------------------------------------------
(* Commands that read the clock at most once *)

Refused(args) == AnswerNow(args, Error) /\ Unchanged

Write(k, text, at, due) ==
  /\ db' = [j \in DOMAIN db \cup {k} |-> IF j = k THEN Stored(text, at) ELSE db[j]]
  /\ ref' = [j \in DOMAIN ref \cup {k} |-> IF j = k THEN Asked(text, due) ELSE ref[j]]

UnitOf(args) ==
  CASE normalize_name(args[4]) = "ex" -> Second
    [] normalize_name(args[4]) = "px" -> 1
    [] OTHER -> 0

\* The stamp SET writes: never without an option, and none if the option,
\* the number or the deadline is no good.
SetDeadline(args) ==
  IF Len(args) = 3 THEN [ok |-> TRUE, at |-> 0]
  ELSE IF Len(args) # 5 THEN [ok |-> FALSE, at |-> 0]
  ELSE LET amount == parse_int64(args[5])
       IN  IF UnitOf(args) = 0 \/ ~amount.ok \/ amount.n <= 0 THEN [ok |-> FALSE, at |-> 0]
           ELSE deadline_from(amount.n, UnitOf(args))

SetDue(args) ==
  IF Len(args) = 3 THEN Nil ELSE now + parse_int64(args[5]).n * UnitOf(args)

\* SET key value [EX n | PX n]; the log may refuse what the arguments allow.
cmd_set(args) ==
  /\ Dispatched("set", args)
  /\ \/ /\ SetDeadline(args).ok
        /\ Write(args[2], args[3], SetDeadline(args).at, SetDue(args))
        /\ AnswerNow(args, Ok)
     \/ Refused(args)

cmd_get(args) ==
  /\ Dispatched("get", args)
  /\ AnswerNow(args, IF lookup(args[2]) THEN Bulk(db[args[2]].text) ELSE Null)
  /\ Unchanged

\* A counter keeps the lifetime it had.
IncrExpiry(k) == IF lookup(k) THEN db[k].expires_at_ms ELSE 0

cmd_incr(args) ==
  /\ Dispatched("incr", args)
  /\ LET k     == args[2]
         value == IF lookup(k) THEN parse_int64(db[k].text) ELSE [ok |-> TRUE, n |-> 0]
     IN  \/ /\ value.ok /\ value.n # kMax
            /\ Write(k, to_string(Wrap(value.n + 1)), IncrExpiry(k),
                     IF lookup(k) THEN ref[k].due ELSE Nil)
            /\ AnswerNow(args, Int64(Wrap(value.n + 1)))
         \/ Refused(args)

\* A wipe that could not be completed may have removed the tables, and with
\* them the keys that were in no other place.
cmd_flushall(args) ==
  /\ Dispatched("flushall", args)
  /\ \E left \in SUBSET DOMAIN db :
       /\ db' = Restrict(db, left)
       /\ ref' = Restrict(ref, left)
       /\ \/ left = {} /\ AnswerNow(args, Ok)
          \/ AnswerNow(args, Error)

-----------------------------------------------------------------------------
(* Commands that read the clock again and again *)

Begin(args, rest) ==
  /\ job' = [args |-> args, rest |-> rest, tally |-> 0, at |-> 0, due |-> 0, began |-> now,
             was |-> ref]
  /\ UNCHANGED last /\ Unchanged

End(reply) ==
  Answer(job.args, reply, job.was, job.began) /\ job' = Nil

Running(n) == job # Nil /\ normalize_name(job.args[1]) = n /\ UNCHANGED <<now, count>>

\* The single-key path does what a list of one does.
cmd_del(args) ==
  /\ Dispatched("del", args)
  /\ \/ Begin(args, Tail(args))
     \/ Refused(args)

\* The log has the whole batch; each key is counted, then deleted.
DelNext ==
  LET k == Head(job.rest)
  IN  /\ db' = Restrict(db, DOMAIN db \ {k})
      /\ ref' = Restrict(ref, DOMAIN ref \ {k})
      /\ job' = [job EXCEPT !.rest = Tail(@), !.tally = IF lookup(k) THEN @ + 1 ELSE @]

DelStepLoggingEach ==
  /\ Running("del")
  /\ \/ job.rest # <<>> /\ DelNext /\ UNCHANGED last
     \/ job.rest # <<>> /\ End(Error) /\ Unchanged
     \/ job.rest = <<>> /\ End(Int64(job.tally)) /\ Unchanged

DelStep ==
  /\ Running("del")
  /\ \/ job.rest # <<>> /\ DelNext /\ UNCHANGED last
     \/ job.rest = <<>> /\ End(Int64(job.tally)) /\ Unchanged

cmd_exists(args) == Dispatched("exists", args) /\ Begin(args, Tail(args))

ExistsStep ==
  /\ Running("exists") /\ Unchanged
  /\ \/ /\ job.rest # <<>>
        /\ job' = [job EXCEPT !.rest = Tail(@),
                              !.tally = IF lookup(Head(job.rest)) THEN @ + 1 ELSE @]
        /\ UNCHANGED last
     \/ job.rest = <<>> /\ End(Int64(job.tally))

\* EXPIRE reads the clock for the deadline; 0 or less is gone already.
cmd_expire(args) ==
  /\ Dispatched("expire", args)
  /\ LET seconds == parse_int64(args[3])
         dl == IF seconds.n <= 0 THEN [ok |-> TRUE, at |-> -1]
               ELSE deadline_from(seconds.n, Second)
     IN  \/ /\ seconds.ok /\ dl.ok
            /\ job' = [args |-> args, rest |-> <<>>, tally |-> 0, at |-> dl.at,
                       due |-> now + seconds.n * Second, began |-> now, was |-> ref]
            /\ UNCHANGED last /\ Unchanged
         \/ (~seconds.ok \/ ~dl.ok) /\ Refused(args)

\* Then Store::expire looks the key up, and rewrites it under the new stamp.
ExpireStep ==
  /\ Running("expire")
  /\ LET k == job.args[2] IN
     \/ ~lookup(k) /\ End(Int64(0)) /\ Unchanged
     \/ lookup(k) /\ Write(k, db[k].text, job.at, job.due) /\ End(Int64(1))
     \/ lookup(k) /\ End(Error) /\ Unchanged

\* TTL looks the key up, then reads the clock again for what remains.
cmd_ttl(args) ==
  /\ Dispatched("ttl", args)
  /\ LET k == args[2] IN
     \/ ~lookup(k) /\ AnswerNow(args, Int64(-2)) /\ Unchanged
     \/ lookup(k) /\ db[k].expires_at_ms = 0 /\ AnswerNow(args, Int64(-1)) /\ Unchanged
     \/ /\ lookup(k) /\ db[k].expires_at_ms # 0
        /\ job' = [args |-> args, rest |-> <<>>, tally |-> 0, at |-> db[k].expires_at_ms,
                   due |-> 0, began |-> now, was |-> ref]
        /\ UNCHANGED last /\ Unchanged

RoundedDown(remaining) == remaining \div Second

Rounded(remaining) == Wrap(remaining + (Second - 1)) \div Second

TtlStep ==
  /\ Running("ttl") /\ Unchanged
  /\ LET remaining == Wrap(job.at - now)
     IN  End(Int64(Rounded(IF remaining > 0 THEN remaining ELSE 0)))

Next ==
  \/ Tick
  \/ \E args \in Requests :
       \/ Rejected(args) \/ cmd_ping(args) \/ cmd_info(args) \/ cmd_command(args)
       \/ cmd_config(args) \/ cmd_set(args) \/ cmd_get(args) \/ cmd_incr(args)
       \/ cmd_flushall(args) \/ cmd_del(args) \/ cmd_exists(args) \/ cmd_expire(args)
       \/ cmd_ttl(args)
  \/ DelStep \/ ExistsStep \/ ExpireStep \/ TtlStep

Spec == Init /\ [][Next]_vars

-----------------------------------------------------------------------------
(* Properties *)

Alive(was, k, t) == k \in DOMAIN was /\ (was[k].due = Nil \/ t < was[k].due)

\* Whether a key is there, and what it holds, is what the commands acknowledged
\* so far asked for, deadlines reckoned without overflow: a long lifetime does
\* not wrap into the past, a short one does not become "never", and counting
\* does not prolong one (deadline_from, cmd_expire, cmd_incr).
LivesAsAsked ==
  \A k \in Keys :
    IF Alive(ref, k, now) THEN lookup(k) /\ db[k].text = ref[k].text ELSE ~lookup(k)

\* The parser takes the canonical spelling of every int64 but the least, which
\* it refuses, and no other text; to_string writes them, so what INCR stores
\* can be incremented again (parse_int64, which adds up the digits before it
\* negates, and so has no room for the least).
ParseExact ==
  count = 0 =>
    /\ \A n \in (-kMax)..kMax : parse_int64(to_string(n)) = [ok |-> TRUE, n |-> n]
    /\ parse_int64(to_string(-kMax - 1)) = NotAnInteger
    /\ \A t \in Texts : parse_int64(t).ok => to_string(parse_int64(t).n) = t

Named(args) == {args[i] : i \in 2..Len(args)}
AliveAt(keys, was, t) == {k \in keys : Alive(was, k, t)}

\* The number of live keys a list names, repeated as often as it is.
Listed(args, was, t) == Cardinality({i \in 2..Len(args) : Alive(was, args[i], t)})

\* n seconds, rounded up, for a deadline some time between began and ended.
TtlRight(n, due, began, ended) ==
  /\ n >= 0
  /\ due > ended => (n - 1) * Second < due - began /\ n * Second >= due - ended
  /\ due <= ended => n * Second < due - began + Second

Right(reply, args, was, began, ended) ==
  LET n     == normalize_name(args[1])
      r     == was[args[2]]
      found == Alive(was, args[2], began)
  IN  /\ n = "get" => reply = IF found THEN Bulk(r.text) ELSE Null
      /\ n = "ttl" =>
           IF ~found THEN reply.n = -2
           ELSE IF r.due = Nil THEN reply.n = -1
           ELSE TtlRight(reply.n, r.due, began, ended)
      /\ n = "incr" => reply.n = IF found THEN parse_int64(r.text).n + 1 ELSE 1
      /\ n = "expire" => /\ reply.n \in {0, 1}
                         /\ reply.n = 1 => found
                         /\ reply.n = 0 => ~Alive(was, args[2], ended)
      /\ n = "exists" => reply.n \in Listed(args, was, ended)..Listed(args, was, began)
      /\ n = "del" => reply.n \in Cardinality(AliveAt(Named(args), was, ended))
                                 ..Cardinality(AliveAt(Named(args), was, began))

\* Every reply is right for the time the command took: GET is exact; TTL is
\* -2, -1 or the remaining time rounded up; DEL counts each key once and
\* EXISTS as often as it is named, a key that ran out on the way either way;
\* EXPIRE answers 1 for a key that was there and 0 for one that is not, either
\* for one that ran out on the way; INCR answers one more, or an error if there
\* is none.
AnswersAsAsked ==
  last # Nil /\ last.reply.kind # "error" =>
    Right(last.reply, last.args, last.was, last.began, last.ended)

\* A command answered with an error has changed nothing, neither in its last
\* step nor in one before it, whether the arguments, the number or the log
\* refused it (DEL of several keys goes down as one log write); an incomplete
\* FLUSHALL alone may have.
RefusedChangesNothing ==
  [][last' # last /\ last'.reply = Error /\ normalize_name(last'.args[1]) # "flushall" =>
       /\ db' = db
       /\ job # Nil => ref = job.was]_vars

=============================================================================
