-------------------------------- MODULE Resp --------------------------------
(***************************************************************************)
(* The resumable request parser (resp.cpp) as Connection::on_bytes drives  *)
(* it, and the replies it appends, down to bytes: where the input is cut   *)
(* into reads, and what client bytes do inside a reply, is what this       *)
(* module is about.  Each case of the parser's switch is an action.  Of    *)
(* the commands, PING and an unknown name are kept, which put client bytes *)
(* into a reply, and the GET of an absent key.                             *)
(***************************************************************************)
EXTENDS Integers, Sequences, SequencesExt

CONSTANTS
  Requests,          \* [bytes, cmds, bad]: what a client may send, what it means
  Tails,             \* unterminated over-long lines that may end the stream
  MaxRequests,       \* bound: requests in one stream
  Chunks,            \* bound: how many bytes a read may return
  max_read_buffer,
  kMaxLineLen, kMaxMultibulkLen, kMaxBulkLen,
  kMaxEcho           \* bytes of an unknown name that are echoed

ASSUME RespAssumption ==
  /\ \A r \in Requests : r.bytes \in Seq(STRING) /\ r.bytes # <<>> /\ r.bad \in BOOLEAN
  /\ Tails \subseteq Seq(STRING)
  /\ MaxRequests \in Nat /\ Chunks \subseteq Nat \ {0}
  /\ {max_read_buffer, kMaxLineLen, kMaxMultibulkLen, kMaxBulkLen, kMaxEcho} \subseteq Nat \ {0}

VARIABLES
  reqs,                 \* the requests the client sends, in order
  stream,               \* their bytes, and perhaps a tail
  fed,                  \* how many of them on_bytes has taken in
  pc,                   \* "idle" between reads, "parsing" inside on_bytes
  in,                   \* in_
  consumed,             \* bytes of in absorbed by this on_bytes
  state,                \* state_
  pending,              \* pending_.args
  multibulk_remaining, bulk_remaining,
  closing,              \* closing_
  too_large,            \* history: closing because of the read-buffer cap
  out,                  \* out_
  executed              \* history: the commands handed to execute()

input  == <<reqs, stream>>
parser == <<state, pending, multibulk_remaining, bulk_remaining>>
vars   == <<input, fed, pc, in, consumed, parser, closing, too_large, out, executed>>

CR == "CR"
LF == "LF"
Digit == [d \in {"0", "1", "2", "3"} |->
            CASE d = "0" -> 0 [] d = "1" -> 1 [] d = "2" -> 2 [] d = "3" -> 3]
Printing == {"*", "$", "-", " ", "x", "0", "1", "2", "3"}

Init ==
  /\ reqs \in BoundedSeq(Requests, MaxRequests)
  /\ \E tail \in Tails \cup {<<>>} :
       stream = FlattenSeq([i \in 1..Len(reqs) |-> reqs[i].bytes]) \o tail
  /\ fed = 0 /\ pc = "idle"
  /\ in = <<>> /\ consumed = 0
  /\ state = "ReadingType" /\ pending = <<>>
  /\ multibulk_remaining = 0 /\ bulk_remaining = 0
  /\ closing = FALSE /\ too_large = FALSE
  /\ out = <<>> /\ executed = <<>>

-----------------------------------------------------------------------------
(* Replies *)

Line(kind, text) == <<kind>> \o text \o <<CR, LF>>

\* Lengths here have one digit.
append_i64(n) == <<CHOOSE d \in DOMAIN Digit : Digit[d] = n>>

append_simple_string(text) == Line("+", text)
append_error(text)         == Line("-", text)
append_bulk_string(s)      == Line("$", append_i64(Len(s))) \o s \o <<CR, LF>>

EchoLen(s) == IF Len(s) < kMaxEcho THEN Len(s) ELSE kMaxEcho

EchoedRaw(s) == SubSeq(s, 1, EchoLen(s))

append_printable(s) ==
  [i \in 1..EchoLen(s) |-> IF s[i] \in Printing THEN s[i] ELSE "."]

append_null_bulk           == Line("$", <<"-", "1">>)

PingName == <<"x">>
GetName  == <<"0">>

cmd_ping(args) ==
  IF Len(args) = 1 THEN append_simple_string(<<"P">>) ELSE append_bulk_string(args[2])

execute(args) ==
  CASE args[1] = PingName /\ Len(args) <= 2 -> cmd_ping(args)
    [] args[1] = GetName /\ Len(args) = 2   -> append_null_bulk
    [] args[1] \in {PingName, GetName} /\ (Len(args) > 2 \/ args = <<GetName>>) ->
         append_error(<<"E">>)
    [] OTHER -> append_error(<<"E">> \o append_printable(args[1]))

-----------------------------------------------------------------------------
(* Connection::on_bytes *)

\* A read returns n bytes, and on_bytes takes them in.
OnBytes(n) ==
  /\ pc = "idle" /\ ~closing
  /\ n <= Len(stream) - fed
  /\ Len(in) + n <= max_read_buffer
  /\ in' = in \o SubSeq(stream, fed + 1, fed + n)
  /\ fed' = fed + n
  /\ consumed' = 0
  /\ pc' = "parsing"
  /\ UNCHANGED <<input, parser, closing, too_large, out, executed>>

OnBytesTooLarge(n) ==
  /\ pc = "idle" /\ ~closing
  /\ n <= Len(stream) - fed
  /\ Len(in) + n > max_read_buffer
  /\ out' = out \o append_error(<<"E">>)
  /\ closing' = TRUE /\ too_large' = TRUE
  /\ UNCHANGED <<input, fed, pc, in, consumed, parser, executed>>

\* What the parser has not absorbed yet, and where a terminator is in it.
Rest == SubSeq(in, consumed + 1, Len(in))

EndOfLine(s) ==
  LET ends == {i \in 1..(Len(s) - 1) : s[i] = CR /\ s[i + 1] = LF}
  IN  IF ends = {} THEN 0 ELSE Min(ends)

EndOfInline(s) == SelectInSeq(s, LAMBDA b : b = LF)

At(s) == pc = "parsing" /\ state = s

\* The leftover waits in in_ for the next read.
NeedMoreData ==
  /\ pc' = "idle"
  /\ in' = Rest
  /\ consumed' = 0
  /\ UNCHANGED <<input, fed, parser, closing, too_large, out, executed>>

\* The framing is lost; the client is told and the connection is to close.
Fail ==
  /\ state' = "Failed"
  /\ out' = out \o append_error(<<"E">>)
  /\ closing' = TRUE
  /\ pc' = "idle"
  /\ in' = Rest
  /\ consumed' = 0
  /\ UNCHANGED <<input, fed, pending, multibulk_remaining, bulk_remaining, too_large, executed>>

Quiet == UNCHANGED <<input, fed, pc, in, closing, too_large, out, executed>>

reset ==
  /\ state' = "ReadingType" /\ pending' = <<>>
  /\ multibulk_remaining' = 0 /\ bulk_remaining' = 0

Complete(args) ==
  /\ executed' = Append(executed, args)
  /\ out' = out \o execute(args)
  /\ reset
  /\ UNCHANGED <<input, fed, pc, in, closing, too_large>>

\* Digits only, after at most one minus sign.
parse_i64(s) ==
  LET digits == IF s # <<>> /\ Head(s) = "-" THEN Tail(s) ELSE s
      size   == FoldLeft(LAMBDA n, d : 10 * n + Digit[d], 0, digits)
  IN  IF digits # <<>> /\ \A i \in 1..Len(digits) : digits[i] \in DOMAIN Digit
      THEN [ok |-> TRUE, n |-> IF digits = s THEN size ELSE -size]
      ELSE [ok |-> FALSE, n |-> 0]

-----------------------------------------------------------------------------
(* RespParser::parse, one case of its switch at a time *)

ReadingType ==
  /\ At("ReadingType")
  /\ \/ Rest = <<>> /\ NeedMoreData
     \/ /\ Rest # <<>>
        /\ IF Head(Rest) = "*"
           THEN state' = "ReadingMultibulkLen" /\ consumed' = consumed + 1
           ELSE state' = "ReadingInline" /\ consumed' = consumed
        /\ Quiet /\ UNCHANGED <<pending, multibulk_remaining, bulk_remaining>>

UnterminatedUnlimited == NeedMoreData

\* A line is absorbed whole or not at all; without its end there is more to
\* come, up to the limit.
Unterminated ==
  \/ Len(Rest) > kMaxLineLen /\ Fail
  \/ Len(Rest) <= kMaxLineLen /\ NeedMoreData

SkipInPlace(eol) == reset /\ consumed' = consumed - 1 /\ Quiet

\* A count of zero or less carries no command.
Skip(eol) == reset /\ consumed' = consumed + eol + 1 /\ Quiet

ReadingMultibulkLen ==
  /\ At("ReadingMultibulkLen")
  /\ LET eol == EndOfLine(Rest)
         len == parse_i64(SubSeq(Rest, 1, eol - 1))
     IN  \/ eol = 0 /\ Unterminated
         \/ eol # 0 /\ (~len.ok \/ len.n > kMaxMultibulkLen) /\ Fail
         \/ eol # 0 /\ len.ok /\ len.n <= 0 /\ Skip(eol)
         \/ /\ eol # 0 /\ len.ok /\ len.n \in 1..kMaxMultibulkLen
            /\ multibulk_remaining' = len.n
            /\ state' = "ReadingBulkLen"
            /\ consumed' = consumed + eol + 1
            /\ Quiet /\ UNCHANGED <<pending, bulk_remaining>>

ReadingBulkLen ==
  /\ At("ReadingBulkLen")
  /\ LET eol == EndOfLine(Rest)
         len == parse_i64(SubSeq(Rest, 2, eol - 1))
     IN  \/ Rest = <<>> /\ NeedMoreData
         \/ Rest # <<>> /\ Head(Rest) # "$" /\ Fail
         \/ /\ Rest # <<>> /\ Head(Rest) = "$"
            /\ \/ eol = 0 /\ Unterminated
               \/ eol # 0 /\ (~len.ok \/ len.n \notin 0..kMaxBulkLen) /\ Fail
               \/ /\ eol # 0 /\ len.ok /\ len.n \in 0..kMaxBulkLen
                  /\ bulk_remaining' = len.n
                  /\ pending' = Append(pending, <<>>)
                  /\ state' = "ReadingBulkBody"
                  /\ consumed' = consumed + eol + 1
                  /\ Quiet /\ UNCHANGED multibulk_remaining

PayloadAfresh(take) == pending' = [pending EXCEPT ![Len(pending)] = SubSeq(Rest, 1, take)]

AppendPayload(take) == pending' = [pending EXCEPT ![Len(pending)] = @ \o SubSeq(Rest, 1, take)]

\* The payload is absorbed as it lands.
ReadingBulkBody ==
  /\ At("ReadingBulkBody")
  /\ LET take == IF Len(Rest) < bulk_remaining THEN Len(Rest) ELSE bulk_remaining
     IN  /\ AppendPayload(take)
         /\ bulk_remaining' = bulk_remaining - take
         /\ \/ /\ bulk_remaining' > 0
               /\ pc' = "idle" /\ in' = <<>> /\ consumed' = 0
               /\ UNCHANGED <<input, fed, state, closing, too_large, out, executed>>
            \/ /\ bulk_remaining' = 0
               /\ state' = "ReadingBulkCrlf" /\ consumed' = consumed + take
               /\ Quiet
  /\ UNCHANGED multibulk_remaining

ReadingBulkCrlf ==
  /\ At("ReadingBulkCrlf")
  /\ \/ Len(Rest) < 2 /\ NeedMoreData
     \/ Len(Rest) >= 2 /\ SubSeq(Rest, 1, 2) # <<CR, LF>> /\ Fail
     \/ /\ Len(Rest) >= 2 /\ SubSeq(Rest, 1, 2) = <<CR, LF>>
        /\ consumed' = consumed + 2
        /\ \/ multibulk_remaining = 1 /\ Complete(pending)
           \/ /\ multibulk_remaining > 1
              /\ multibulk_remaining' = multibulk_remaining - 1
              /\ state' = "ReadingBulkLen"
              /\ Quiet /\ UNCHANGED <<pending, bulk_remaining>>

\* The words of a line: maximal runs of bytes that are not spaces.
Words(line) ==
  LET step(acc, b) ==
        IF b = " " THEN [acc EXCEPT !.open = FALSE]
        ELSE [words |-> IF acc.open THEN [acc.words EXCEPT ![Len(acc.words)] = Append(@, b)]
                        ELSE Append(acc.words, <<b>>),
              open |-> TRUE]
  IN  FoldLeft(step, [words |-> <<>>, open |-> FALSE], line).words

\* Inline ends at LF; a CR before it is dropped.
ReadingInline ==
  /\ At("ReadingInline")
  /\ LET nl    == EndOfInline(Rest)
         line  == SubSeq(Rest, 1, IF nl > 1 /\ Rest[nl - 1] = CR THEN nl - 2 ELSE nl - 1)
     IN  \/ nl = 0 /\ Unterminated
         \/ /\ nl # 0
            /\ consumed' = consumed + nl
            /\ \/ Words(line) = <<>> /\ reset /\ Quiet
               \/ Words(line) # <<>> /\ Complete(Words(line))

Parse ==
  \/ ReadingType \/ ReadingMultibulkLen \/ ReadingBulkLen \/ ReadingBulkBody
  \/ ReadingBulkCrlf \/ ReadingInline

Next == Parse \/ \E n \in Chunks : OnBytes(n) \/ OnBytesTooLarge(n)

\* on_bytes is straight-line code.
FairSpec == Init /\ [][Next]_vars /\ WF_vars(Parse)

-----------------------------------------------------------------------------
(* Properties *)

\* How many bytes the first n requests take.
EndOf(n) == Len(FlattenSeq([i \in 1..n |-> reqs[i].bytes]))

\* The first n requests are all well formed.
Good(n) == \A i \in 1..n : ~reqs[i].bad

\* Between reads, exactly the commands of the requests that have arrived whole
\* have been executed, byte for byte, wherever the reads cut the stream; a
\* malformed request ends the connection by the time it is whole, nothing
\* behind it is executed, and a well-formed stream never ends it
\* (RespParser::parse resumed by on_bytes).
ReadsAsMeant ==
  pc = "idle" =>
    LET whole == {n \in 0..Len(reqs) : EndOf(n) <= fed /\ Good(n)}
        done  == Max(whole)
    IN  /\ executed = FlattenSeq([i \in 1..done |-> reqs[i].cmds])
        /\ done < Len(reqs) /\ reqs[done + 1].bad /\ EndOf(done + 1) <= fed => closing
        /\ closing /\ ~too_large =>
             IF done < Len(reqs) THEN reqs[done + 1].bad ELSE fed > EndOf(done)

\* The replies a client makes out in a byte stream: a line up to its CRLF, or
\* a length and as many bytes.
Decoded(bytes) ==
  LET From[i \in Nat] ==
        LET rest == SubSeq(bytes, i, Len(bytes))
            eol  == EndOfLine(rest)
        IN  IF rest = <<>> THEN <<>>
            ELSE IF eol = 0 \/ Head(rest) \notin {"+", "-", "$"} THEN <<"garbage">>
            ELSE IF Head(rest) # "$" THEN <<Head(rest)>> \o From[i + eol + 1]
            ELSE LET n == parse_i64(SubSeq(rest, 2, eol - 1)).n
                 IN  IF n < 0 THEN <<"null">> \o From[i + eol + 1]
                     ELSE <<SubSeq(rest, eol + 2, eol + 1 + n)>> \o From[i + eol + n + 3]
  IN  From[1]

\* What a client should make out: one reply per command and one for an error.
Told ==
  [i \in 1..Len(executed) |->
     CASE executed[i] = <<PingName>> -> "+"
       [] Len(executed[i]) = 2 /\ executed[i][1] = PingName -> executed[i][2]
       [] Len(executed[i]) = 2 /\ executed[i][1] = GetName  -> "null"
       [] OTHER -> "-"]
  \o (IF closing THEN <<"-">> ELSE <<>>)

\* A client splits the reply stream into exactly one reply per command, its own
\* bytes given back unchanged: nothing it sent, a CRLF or a reply of its own
\* making included, moves a reply boundary (append_bulk_string and
\* append_printable).
RepliesFramed == pc = "idle" => Decoded(out) = Told

\* Between reads in_ holds at most one unfinished line, however much was sent:
\* payload bytes have moved on, and a longer line has ended the connection.
LeftoverBounded == pc = "idle" /\ ~closing => Len(in) <= kMaxLineLen

\* The for (;;) of parse always returns: no state is re-entered without a byte
\* absorbed.
ParseReturns == pc = "parsing" ~> pc = "idle"

=============================================================================
