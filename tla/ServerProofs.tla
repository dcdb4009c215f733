---------------------------- MODULE ServerProofs ----------------------------
(***************************************************************************)
(* What holds in every state of Server::run, for any clients, descriptors  *)
(* and requests.  The invariant ties together what the loop keeps apart:   *)
(* the requests read of a client, the replies queued in its Connection,    *)
(* those the kernel took, and the two lists of descriptors (the events of  *)
(* the batch and the connections touched) that outlive a close.            *)
(***************************************************************************)
EXTENDS Server, Positions, FiniteSetTheorems

\* Min picks the least one.
LEMMA MinIs ==
  ASSUME NEW n \in Nat, NEW S \in SUBSET (1..n), S # {}
  PROVE  Min(S) \in S /\ \A j \in S : Min(S) <= j
<1>1. \E i \in S : \A j \in S : i <= j
  BY IntervalMin
<1> QED BY <1>1, Zenon DEF Min

\* The first request that breaks the protocol, if there is one.
LEMMA FirstBadIs ==
  ASSUME NEW s \in Seq(Request)
  PROVE  \/ FirstBad(s) = 0 /\ \A i \in 1..Len(s) : s[i] # "bad"
         \/ /\ FirstBad(s) \in 1..Len(s) /\ s[FirstBad(s)] = "bad"
            /\ \A i \in 1..(FirstBad(s) - 1) : s[i] # "bad"
<1> DEFINE I == {i \in 1..Len(s) : s[i] = "bad"}
<1>1. FirstBad(s) = IF I # {} THEN Min(I) ELSE 0
  BY DEF FirstBad
<1>2. I \in SUBSET (1..Len(s)) /\ Len(s) \in Nat
  OBVIOUS
<1>3. CASE I = {}
  BY <1>1, <1>3
<1>4. CASE I # {}
  <2>1. Min(I) \in I /\ \A j \in I : Min(I) <= j
    <3> HIDE DEF I
    <3> QED BY <1>2, <1>4, MinIs, Zenon
  <2>2. FirstBad(s) = Min(I)
    BY <1>1, <1>4
  <2>3. FirstBad(s) \in I /\ \A j \in I : FirstBad(s) <= j
    BY <2>1, <2>2
  <2> QED BY <2>3, <1>2
<1> QED BY <1>3, <1>4

\* Nothing but replies is queued, and the offset is inside the buffer.
OutputOK(s) == s \in ConnState /\ s.out_pos <= Len(s.out)

\* Output is pending when the offset is short of the buffer.
LEMMA PendingIs ==
  ASSUME NEW s, OutputOK(s)
  PROVE  /\ pending_output(s) \in Seq(Reply)
         /\ Len(pending_output(s)) = Len(s.out) - s.out_pos
         /\ \A k \in 1..(Len(s.out) - s.out_pos) : pending_output(s)[k] = s.out[s.out_pos + k]
         /\ has_pending_output(s) <=> s.out_pos < Len(s.out)
<1>1. s.out \in Seq(Reply) /\ s.out_pos \in Nat /\ s.out_pos <= Len(s.out) /\ Len(s.out) \in Nat
  BY DEF OutputOK, ConnState
<1>2. /\ pending_output(s) \in Seq(Reply)
      /\ Len(pending_output(s)) = Len(s.out) - s.out_pos
      /\ \A k \in 1..(Len(s.out) - s.out_pos) : pending_output(s)[k] = s.out[s.out_pos + k]
  BY <1>1, SuffixIs, Zenon DEF pending_output
<1>3. pending_output(s) = <<>> <=> Len(pending_output(s)) = 0
  BY <1>2, EmptyIs
<1>4. has_pending_output(s) <=> s.out_pos < Len(s.out)
  BY <1>1, <1>2, <1>3 DEF has_pending_output
<1> QED BY <1>2, <1>4

-----------------------------------------------------------------------------
(* The inductive invariant *)

\* How far each client has come: what was read was sent, the log covers what
\* was read whenever replies are being released, and nothing is read from a
\* client before it is accepted.
Counted ==
  \A c \in Clients :
    /\ nread[c] <= Len(sent[c]) /\ Len(sent[c]) <= MaxRequests
    /\ safe[c] <= nread[c]
    /\ pc = "release" => safe[c] = nread[c]
    /\ sock[c] \in {"idle", "queued"} => nread[c] = 0

\* A connection is one client's, and that client has no other.
Owned ==
  \A fd \in Open :
    /\ sock[conns[fd].client] = "open"
    /\ \A g \in Open : conns[g].client = conns[fd].client => g = fd

\* The rest of the batch and the held replies name different descriptors, each
\* once, and still the connections they were noted for.
Matched ==
  pc # "down" =>
    /\ \A i \in 1..Len(events) : events[i].fd # Listener =>
         /\ events[i].fd \in Open /\ conns[events[i].fd].client = events[i].client
         /\ events[i].hup => hup[events[i].client]
    /\ \A i \in 1..Len(touched) :
         touched[i].fd \in Open /\ conns[touched[i].fd].client = touched[i].client
    /\ \A i, j \in 1..Len(events) : i # j => events[i].fd # events[j].fd
    /\ \A i, j \in 1..Len(touched) : i # j => touched[i].fd # touched[j].fd
    /\ \A i \in 1..Len(events), j \in 1..Len(touched) : events[i].fd # touched[j].fd
    /\ pc = "release" => events = <<>>

\* Only a connection still to be released may have the wrong interest.
Armed ==
  \A fd \in Open :
    (\A i \in 1..Len(touched) : touched[i].fd # fd) =>
      conns[fd].wants_out = (conns[fd].out_pos < Len(conns[fd].out))

\* A client has only ever been sent the replies to its first requests, and
\* only to requests the log covers.
Taken ==
  \A c \in Clients :
    /\ Len(got[c]) <= safe[c]
    /\ \A i \in 1..Len(got[c]) : got[c][i] = <<c, i>>

\* What is queued for c in out from pos continues the g replies it was sent.
Continues(c, out, pos, g) ==
  pos <= Len(out) /\ \A k \in 1..(Len(out) - pos) : out[pos + k] = <<c, g + k>>

\* Of the n requests read of q the first last have been executed: all of them,
\* or, when the connection is closing, those up to the one that lost the framing.
Executes(last, closing, n, q) ==
  /\ closing => last \in 1..n /\ q[last] = "bad" /\ \A j \in 1..(last - 1) : q[j] # "bad"
  /\ ~closing => last = n /\ \A j \in 1..n : q[j] # "bad"

InStep ==
  \A fd \in Open :
    LET s == conns[fd]
        c == s.client
    IN  /\ Continues(c, s.out, s.out_pos, Len(got[c]))
        /\ Executes(Len(got[c]) + (Len(s.out) - s.out_pos), s.closing, nread[c], sent[c])

IInv ==
  /\ TypeOK /\ Counted /\ Owned /\ Matched /\ Armed /\ Taken /\ InStep

-----------------------------------------------------------------------------
(* What happens to one connection *)

\* What is executed depends only on the requests read so far.
LEMMA ExecutesOnPrefix ==
  ASSUME NEW last \in Nat, NEW closing \in BOOLEAN, NEW n \in Nat, NEW q, NEW p,
         Executes(last, closing, n, q), \A j \in 1..n : p[j] = q[j]
  PROVE  Executes(last, closing, n, p)
<1>1. CASE closing
  <2>1. last \in 1..n /\ \A j \in 1..(last - 1) : j \in 1..n
    BY <1>1 DEF Executes
  <2> QED BY <1>1, <2>1 DEF Executes
<1>2. CASE ~closing
  BY <1>2 DEF Executes
<1> QED BY <1>1, <1>2

\* A send of m units moves the boundary between sent and queued, whichever way
\* consume_output keeps the rest: in a buffer o, written up to p.
LEMMA ConsumeContinues ==
  ASSUME NEW s \in ConnState, NEW g \in Nat, Continues(s.client, s.out, s.out_pos, g),
         NEW m \in Nat, m <= Len(s.out) - s.out_pos,
         NEW t, t = consume_output(s, m)
  PROVE  /\ t \in ConnState /\ t.client = s.client /\ t.closing = s.closing
         /\ Continues(s.client, t.out, t.out_pos, g + m)
         /\ (g + m) + (Len(t.out) - t.out_pos) = g + (Len(s.out) - s.out_pos)
<1>1. PICK c \in Clients, out \in Seq(Reply), pos \in Nat, l \in Nat :
        c = s.client /\ out = s.out /\ pos = s.out_pos /\ l = Len(out)
  BY DEF ConnState
<1>2. pos + m <= l /\ pos + m \in Nat
  <2>1. m <= l - pos
    BY <1>1
  <2> QED BY <2>1
<1>3. ASSUME NEW k \in 1..(l - (pos + m)) PROVE out[(pos + m) + k] = <<c, g + m + k>>
  <2>1. m + k \in 1..(l - pos) /\ g + (m + k) = g + m + k /\ pos + (m + k) = (pos + m) + k
    BY <1>2
  <2>2. out[pos + (m + k)] = <<c, g + (m + k)>>
    BY <1>1, <2>1, Zenon DEF Continues
  <2> QED BY <2>1, <2>2
<1>4. ASSUME NEW o \in Seq(Reply), NEW p \in Nat, NEW d \in Nat,
             d = l - (pos + m), p + d = Len(o),
             \A k \in 1..d : o[p + k] = out[(pos + m) + k],
             t = [s EXCEPT !.out = o, !.out_pos = p]
      PROVE  /\ t \in ConnState /\ t.client = s.client /\ t.closing = s.closing
             /\ Continues(s.client, t.out, t.out_pos, g + m)
             /\ (g + m) + (Len(t.out) - t.out_pos) = g + (Len(s.out) - s.out_pos)
  <2>1. t \in ConnState /\ t.client = s.client /\ t.out = o /\ t.out_pos = p /\ t.closing = s.closing
    BY <1>4, Zenon DEF ConnState
  <2>2. Len(o) - p = d /\ p <= Len(o) /\ (g + m) + d = g + (l - pos)
    BY <1>4
  <2>3. \A k \in 1..d : o[p + k] = <<c, g + m + k>>
    BY <1>3, <1>4, Zenon
  <2>4. Continues(c, o, p, g + m)
    BY <2>2, <2>3, Zenon DEF Continues
  <2> QED BY <1>1, <2>1, <2>2, <2>4, Zenon
<1>5. PICK d \in Nat : d = l - (pos + m)
  BY <1>2
<1>6. CASE pos + m = l
  <2>1. t = [s EXCEPT !.out = <<>>, !.out_pos = 0]
    BY <1>1, <1>6 DEF consume_output
  <2>2. PICK o \in Seq(Reply), p \in Nat : o = <<>> /\ Len(o) = 0 /\ p = 0
    <3>1. <<>> \in Seq(Reply) /\ Len(<<>>) = 0 /\ 0 \in Nat
      OBVIOUS
    <3> QED BY <3>1, Zenon
  <2>3. p + d = Len(o) /\ d = 0 /\ \A k \in 1..d : o[p + k] = out[(pos + m) + k]
    BY <1>5, <1>6, <2>2
  <2>4. t = [s EXCEPT !.out = o, !.out_pos = p]
    BY <2>1, <2>2
  <2> QED BY <1>4, <1>5, <2>3, <2>4, Zenon
<1>7. CASE pos + m # l /\ pos + m >= kCompactThreshold /\ (pos + m) * 2 >= l
  <2>1. PICK o : o = SubSeq(out, (pos + m) + 1, Len(out))
    BY Zenon
  <2>2. t = [s EXCEPT !.out = o, !.out_pos = 0]
    BY <1>1, <1>7, <2>1 DEF consume_output
  <2>3. /\ o \in Seq(Reply) /\ Len(o) = Len(out) - (pos + m)
        /\ \A k \in 1..(Len(out) - (pos + m)) : o[k] = out[(pos + m) + k]
    BY <1>1, <1>2, <2>1, SuffixIs, ZenonT(30)
  <2>4. Len(o) = d /\ \A k \in 1..d : o[k] = out[(pos + m) + k]
    BY <1>1, <1>5, <2>3
  <2>5. PICK p \in Nat : p = 0
    OBVIOUS
  <2>6. p + d = Len(o) /\ \A k \in 1..d : o[p + k] = out[(pos + m) + k]
    BY <2>4, <2>5
  <2>7. t = [s EXCEPT !.out = o, !.out_pos = p]
    BY <2>2, <2>5
  <2> QED BY <1>4, <1>5, <2>3, <2>6, <2>7, Zenon
<1>8. CASE pos + m # l /\ ~(pos + m >= kCompactThreshold /\ (pos + m) * 2 >= l)
  <2>1. t = [s EXCEPT !.out_pos = pos + m]
    BY <1>1, <1>8 DEF consume_output
  <2>2. t = [s EXCEPT !.out = out, !.out_pos = pos + m]
    BY <1>1, <2>1, Zenon DEF ConnState
  <2>3. (pos + m) + d = Len(out)
    <3>1. (pos + m) + d = l
      BY <1>2, <1>5
    <3> QED BY <1>1, <3>1, Zenon
  <2> QED BY <1>2, <1>4, <1>5, <2>2, <2>3, Zenon
<1> QED BY <1>6, <1>7, <1>8

\* What on_bytes executes of a chunk: nothing once it is closing, everything, or
\* what comes up to the request that lost the framing.
LEMMA ExecutedIs ==
  ASSUME NEW s \in ConnState, NEW asked \in Seq(Request)
  PROVE  /\ s.closing => Executed(s, asked) = <<>>
         /\ ~s.closing =>
              \/ Executed(s, asked) = asked /\ "bad" \notin Range(asked)
              \/ \E b \in 1..Len(asked) :
                   /\ Len(Executed(s, asked)) = b /\ asked[b] = "bad"
                   /\ "bad" \in Range(Executed(s, asked))
                   /\ \A i \in 1..(b - 1) : asked[i] # "bad"
<1>1. CASE s.closing
  BY <1>1 DEF Executed
<1>2. CASE ~s.closing /\ FirstBad(asked) = 0 /\ \A i \in 1..Len(asked) : asked[i] # "bad"
  BY <1>2 DEF Executed, Range
<1>3. CASE /\ ~s.closing /\ FirstBad(asked) \in 1..Len(asked) /\ asked[FirstBad(asked)] = "bad"
           /\ \A i \in 1..(FirstBad(asked) - 1) : asked[i] # "bad"
  <2>1. PICK b \in 1..Len(asked) : b = FirstBad(asked)
    BY <1>3
  <2>2. Executed(s, asked) = SubSeq(asked, 1, b)
    BY <1>3, <2>1 DEF Executed
  <2>3. b \in Nat /\ b <= Len(asked) /\ b \in 1..b
    OBVIOUS
  <2>4. Len(SubSeq(asked, 1, b)) = b /\ SubSeq(asked, 1, b)[b] = asked[b]
    BY <2>3, PrefixIs
  <2>5. "bad" \in Range(SubSeq(asked, 1, b))
    BY <1>3, <2>1, <2>3, <2>4 DEF Range
  <2> QED BY <1>3, <2>1, <2>2, <2>4, <2>5
<1> QED BY <1>1, <1>2, <1>3, FirstBadIs

\* What a read of m requests returns after n of q have been read.
Reads(q, n, m, asked) ==
  asked \in Seq(Request) /\ Len(asked) = m /\ \A i \in 1..m : asked[i] = q[n + i]

\* The replies to what one read returned continue what was queued.
LEMMA BytesContinue ==
  ASSUME NEW s \in ConnState, NEW g \in Nat, NEW n \in Nat, NEW m \in Nat,
         NEW q \in Seq(Request), n + m <= MaxRequests,
         Continues(s.client, s.out, s.out_pos, g),
         Executes(g + (Len(s.out) - s.out_pos), s.closing, n, q),
         NEW asked, Reads(q, n, m, asked),
         NEW t, t = on_bytes(s, asked, n + 1)
  PROVE  /\ t \in ConnState /\ t.client = s.client
         /\ Continues(s.client, t.out, t.out_pos, g)
         /\ Executes(g + (Len(t.out) - t.out_pos), t.closing, n + m, q)
<1>1. PICK c \in Clients, out \in Seq(Reply), pos \in Nat, closing \in BOOLEAN, l \in Nat :
        c = s.client /\ out = s.out /\ pos = s.out_pos /\ closing = s.closing /\ l = Len(out)
  BY DEF ConnState
<1>2. Continues(c, out, pos, g) /\ Executes(g + (l - pos), closing, n, q)
  BY <1>1
<1>3. MaxRequests \in Nat /\ pos <= l
  BY <1>1, <1>2, ServerAssumption DEF Continues
<1>4. PICK d \in Nat : d = l - pos
  BY <1>3
<1>5. asked \in Seq(Request) /\ Len(asked) = m /\ \A i \in 1..m : asked[i] = q[n + i]
  BY DEF Reads
<1>6. ASSUME NEW r \in Nat, Len(Executed(s, asked)) = r, r <= m, r > 0 => g + d = n,
             NEW cl \in BOOLEAN, cl = (closing \/ "bad" \in Range(Executed(s, asked))),
             Executes(g + (d + r), cl, n + m, q)
      PROVE  /\ t \in ConnState /\ t.client = s.client
             /\ Continues(s.client, t.out, t.out_pos, g)
             /\ Executes(g + (Len(t.out) - t.out_pos), t.closing, n + m, q)
  <2> DEFINE w == [i \in 1..r |-> <<c, (n + 1) + i - 1>>]
  <2>1. w \in Seq(Reply) /\ Len(w) = r
    <3>1. ASSUME NEW i \in 1..r PROVE <<c, (n + 1) + i - 1>> \in Reply
      <4>1. (n + 1) + i - 1 \in 1..MaxRequests
        BY <1>3, <1>6
      <4> QED BY <4>1 DEF Reply
    <3>2. w \in [1..r -> Reply]
      BY <3>1, Zenon
    <3> HIDE DEF w
    <3> QED BY <3>2, FunctionIsSeq
  <2>2. ASSUME NEW i \in 1..r PROVE w[i] = <<c, n + i>>
    <3>1. (n + 1) + i - 1 = n + i
      OBVIOUS
    <3> QED BY <3>1
  <2>3. t = [s EXCEPT !.out = out \o w, !.closing = cl]
    BY <1>1, <1>6 DEF on_bytes
  <2> HIDE DEF w
  <2>4. /\ out \o w \in Seq(Reply) /\ Len(out \o w) = Len(out) + Len(w)
        /\ \A i \in 1..Len(out) : (out \o w)[i] = out[i]
        /\ \A i \in 1..Len(w) : (out \o w)[Len(out) + i] = w[i]
    BY <2>1, ConcatIs
  <2>5. Len(out \o w) = l + r
    BY <1>1, <2>1, <2>4
  <2>6. ASSUME NEW k \in 1..(d + r) PROVE (out \o w)[pos + k] = <<c, g + k>>
    <3>1. CASE k <= d
      <4>1. k \in 1..d /\ pos + k \in 1..l
        BY <1>4, <3>1
      <4>2. out[pos + k] = <<c, g + k>>
        BY <1>1, <1>2, <1>4, <4>1, ZenonT(30) DEF Continues
      <4>3. (out \o w)[pos + k] = out[pos + k]
        BY <1>1, <2>4, <4>1
      <4> QED BY <4>2, <4>3
    <3>2. CASE ~(k <= d)
      <4>1. PICK i \in 1..r : i = k - d
        BY <3>2
      <4>2. l + i = pos + k /\ r > 0
        BY <1>4, <4>1
      <4>3. g + d = n
        BY <1>6, <4>2
      <4>4. n + i = g + k
        BY <4>1, <4>3
      <4>5. (out \o w)[l + i] = w[i]
        BY <1>1, <2>1, <2>4
      <4> QED BY <2>2, <4>2, <4>4, <4>5, Zenon
    <3> QED BY <3>1, <3>2, Zenon
  <2>7. PICK o \in Seq(Reply) : o = out \o w
    BY <2>4, Zenon
  <2>8. t \in ConnState /\ t.client = c /\ t.out = o /\ t.out_pos = pos /\ t.closing = cl
    BY <1>1, <2>3, <2>7, Zenon DEF ConnState
  <2>9. Len(o) - pos = d + r /\ pos <= Len(o)
    BY <1>3, <1>4, <2>5, <2>7
  <2>10. Continues(c, o, pos, g)
    BY <2>6, <2>7, <2>9, Zenon DEF Continues
  <2> QED BY <1>1, <1>6, <2>8, <2>9, <2>10
<1>7. CASE closing
  <2>1. Executed(s, asked) = <<>>
    BY <1>1, <1>5, <1>7, ExecutedIs, Zenon
  <2>2. PICK r \in Nat : r = 0 /\ Len(Executed(s, asked)) = r
    BY <2>1
  <2>3. PICK cl \in BOOLEAN : cl = (closing \/ "bad" \in Range(Executed(s, asked))) /\ cl
    BY <1>7, Zenon
  <2>4. g + d \in 1..n /\ q[g + d] = "bad" /\ \A j \in 1..(g + d - 1) : q[j] # "bad"
    BY <1>2, <1>4, <1>7 DEF Executes
  <2>5. g + (d + r) = g + d /\ g + d \in 1..(n + m) /\ r <= m /\ ~(r > 0)
    <3>1. g + d \in 1..n
      BY <2>4
    <3> QED BY <2>2, <3>1
  <2>6. Executes(g + (d + r), cl, n + m, q)
    BY <2>3, <2>4, <2>5 DEF Executes
  <2> QED BY <1>6, <2>2, <2>3, <2>5, <2>6, Zenon
<1>8. ASSUME ~closing PROVE g + d = n /\ \A j \in 1..n : q[j] # "bad"
  BY <1>2, <1>4, <1>8 DEF Executes
<1>9. CASE ~closing /\ Executed(s, asked) = asked /\ "bad" \notin Range(asked)
  <2>1. PICK cl \in BOOLEAN : cl = (closing \/ "bad" \in Range(Executed(s, asked))) /\ ~cl
    BY <1>9
  <2>2. g + d = n /\ g + (d + m) = n + m /\ Len(Executed(s, asked)) = m /\ m <= m
    <3>1. g + d = n
      BY <1>8, <1>9
    <3>2. g + (d + m) = n + m /\ m <= m
      BY <3>1
    <3>3. Len(Executed(s, asked)) = m
      BY <1>5, <1>9
    <3> QED BY <3>1, <3>2, <3>3
  <2>3. ASSUME NEW j \in 1..(n + m) PROVE q[j] # "bad"
    <3>1. CASE j <= n
      BY <1>8, <1>9, <3>1
    <3>2. CASE j > n
      <4>1. j - n \in 1..m /\ n + (j - n) = j
        BY <3>2
      <4>2. asked[j - n] = q[j] /\ j - n \in 1..Len(asked)
        BY <1>5, <4>1
      <4> QED BY <1>5, <1>9, <4>2 DEF Range
    <3> QED BY <3>1, <3>2
  <2>4. Executes(g + (d + m), cl, n + m, q)
    BY <2>1, <2>2, <2>3 DEF Executes
  <2> QED BY <1>6, <2>1, <2>2, <2>4, Zenon
<1>10. ASSUME NEW b \in 1..Len(asked), ~closing,
              Len(Executed(s, asked)) = b, asked[b] = "bad",
              "bad" \in Range(Executed(s, asked)),
              \A i \in 1..(b - 1) : asked[i] # "bad"
       PROVE  /\ t \in ConnState /\ t.client = s.client
              /\ Continues(s.client, t.out, t.out_pos, g)
              /\ Executes(g + (Len(t.out) - t.out_pos), t.closing, n + m, q)
  <2>1. PICK cl \in BOOLEAN : cl = (closing \/ "bad" \in Range(Executed(s, asked))) /\ cl
    BY <1>10, Zenon
  <2>2. b \in Nat /\ b \in 1..m /\ b <= m /\ n + b \in 1..(n + m)
    BY <1>5
  <2>3. g + d = n /\ g + (d + b) = n + b
    <3>1. g + d = n
      BY <1>8, <1>10
    <3> QED BY <2>2, <3>1
  <2>4. q[n + b] = "bad"
    BY <1>5, <1>10, <2>2
  <2>5. ASSUME NEW j \in 1..(n + b - 1) PROVE q[j] # "bad"
    <3>1. CASE j <= n
      BY <1>8, <1>10, <3>1
    <3>2. CASE j > n
      <4>1. j - n \in 1..m /\ n + (j - n) = j /\ j - n \in 1..(b - 1)
        BY <2>2, <3>2
      <4>2. asked[j - n] = q[j]
        BY <1>5, <4>1
      <4> QED BY <1>10, <4>1, <4>2
    <3> QED BY <3>1, <3>2
  <2>6. Executes(n + b, cl, n + m, q)
    BY <2>1, <2>2, <2>4, <2>5 DEF Executes
  <2>7. Executes(g + (d + b), cl, n + m, q)
    BY <2>3, <2>6
  <2> QED BY <1>6, <1>10, <2>1, <2>2, <2>3, <2>7, ZenonT(30)
<1> QED BY <1>1, <1>5, <1>7, <1>9, <1>10, ExecutedIs, Zenon

-----------------------------------------------------------------------------
(* The steps of the clients and the kernel *)

\* The state of a connection after n requests of q and g replies.
Follows(s, g, n, q) ==
  /\ s \in ConnState /\ Continues(s.client, s.out, s.out_pos, g)
  /\ Executes(g + (Len(s.out) - s.out_pos), s.closing, n, q)

\* What a connection may be handed after n of the requests q.
Handed(q, n, m, asked) ==
  n \in Nat /\ m \in Nat /\ q \in Seq(Request) /\ n + m <= MaxRequests /\ Reads(q, n, m, asked)

\* on_bytes appends the replies due next, in order.
LEMMA BytesFollow ==
  ASSUME NEW s, NEW g \in Nat, NEW n, NEW m, NEW q, NEW asked,
         Follows(s, g, n, q), Handed(q, n, m, asked)
  PROVE  /\ Follows(on_bytes(s, asked, n + 1), g, n + m, q)
         /\ on_bytes(s, asked, n + 1).client = s.client
<1>1. PICK t : t = on_bytes(s, asked, n + 1)
  OBVIOUS
<1>2. /\ s \in ConnState /\ Continues(s.client, s.out, s.out_pos, g)
      /\ Executes(g + (Len(s.out) - s.out_pos), s.closing, n, q)
      /\ n \in Nat /\ m \in Nat /\ q \in Seq(Request) /\ n + m <= MaxRequests
      /\ Reads(q, n, m, asked)
  BY DEF Follows, Handed
<1>3. /\ t \in ConnState /\ t.client = s.client
      /\ Continues(s.client, t.out, t.out_pos, g)
      /\ Executes(g + (Len(t.out) - t.out_pos), t.closing, n + m, q)
  BY <1>1, <1>2, BytesContinue
<1> QED BY <1>1, <1>3 DEF Follows

\* What the requests executed amount to, from the connection's point of view.
LEMMA AnswerableIs ==
  ASSUME NEW c, NEW last \in Nat, NEW closing \in BOOLEAN,
         sent[c] \in Seq(Request), nread[c] \in Nat, nread[c] <= Len(sent[c]),
         Executes(last, closing, nread[c], sent[c])
  PROVE  Answerable(c) = last
<1>1. PICK q \in Seq(Request), n \in Nat : q = sent[c] /\ n = nread[c]
  OBVIOUS
<1>2. PICK p \in Seq(Request) : p = SubSeq(q, 1, n) /\ Len(p) = n /\ \A k \in 1..n : p[k] = q[k]
  <2>1. n <= Len(q)
    BY <1>1
  <2>2. /\ SubSeq(q, 1, n) \in Seq(Request) /\ Len(SubSeq(q, 1, n)) = n
        /\ \A k \in 1..n : SubSeq(q, 1, n)[k] = q[k]
    BY <2>1, PrefixIs
  <2> QED BY <2>2, Zenon
<1>3. Executes(last, closing, n, p)
  <2>1. \A k \in 1..n : p[k] = q[k]
    BY <1>2
  <2> QED BY <1>1, <2>1, ExecutesOnPrefix
<1>4. Answerable(c) = IF FirstBad(p) = 0 THEN n ELSE FirstBad(p)
  BY <1>1, <1>2 DEF Answerable
<1>5. PICK b : b = FirstBad(p)
  OBVIOUS
<1>6. \/ b = 0 /\ \A i \in 1..n : p[i] # "bad"
      \/ b \in 1..n /\ p[b] = "bad" /\ \A i \in 1..(b - 1) : p[i] # "bad"
  BY <1>2, <1>5, FirstBadIs, Zenon
<1>7. CASE closing
  <2>1. last \in 1..n /\ p[last] = "bad" /\ \A j \in 1..(last - 1) : p[j] # "bad"
    BY <1>3, <1>7 DEF Executes
  <2>2. b # 0
    BY <1>6, <2>1
  <2>3. b \in 1..n /\ p[b] = "bad" /\ \A i \in 1..(b - 1) : p[i] # "bad"
    BY <1>6, <2>2
  <2>4. ~(b < last)
    <3>1. b < last => b \in 1..(last - 1)
      BY <2>1, <2>3
    <3> QED BY <2>1, <2>3, <3>1
  <2>5. ~(last < b)
    <3>1. last < b => last \in 1..(b - 1)
      BY <2>1, <2>3
    <3> QED BY <2>1, <2>3, <3>1
  <2>6. b = last
    BY <2>1, <2>3, <2>4, <2>5
  <2> QED BY <1>4, <1>5, <2>2, <2>6
<1>8. CASE ~closing
  <2>1. last = n /\ \A j \in 1..n : p[j] # "bad"
    BY <1>3, <1>8 DEF Executes
  <2>2. b = 0
    BY <1>6, <2>1
  <2> QED BY <1>4, <1>5, <2>1, <2>2
<1> QED BY <1>7, <1>8

\* w is what c is sent after k replies.
FollowOn(c, w, k) == w \in Seq(Reply) /\ \A i \in 1..Len(w) : w[i] = <<c, k + i>>

\* The first replies and those that follow on make up one sequence.
LEMMA JoinIs ==
  ASSUME NEW c \in Clients, NEW v, NEW w, FollowOn(c, v, 0), FollowOn(c, w, Len(v))
  PROVE  v \o w = [i \in 1..(Len(v) + Len(w)) |-> <<c, i>>]
<1>0. /\ v \in Seq(Reply) /\ w \in Seq(Reply) /\ Len(v) \in Nat
      /\ \A i \in 1..Len(v) : v[i] = <<c, i>>
      /\ \A i \in 1..Len(w) : w[i] = <<c, Len(v) + i>>
  BY DEF FollowOn
<1> DEFINE n == Len(v) + Len(w)
<1>1. PICK x \in Seq(Reply), l \in Nat, r \in Nat : x = v \o w /\ l = Len(v) /\ r = Len(w)
  <2>1. v \o w \in Seq(Reply) /\ Len(v) \in Nat /\ Len(w) \in Nat
    BY <1>0, ConcatIs
  <2> QED BY <2>1, Zenon
<1>2. Len(x) = n /\ DOMAIN x = 1..n /\ n = l + r
  <2>1. Len(v \o w) = Len(v) + Len(w)
    BY <1>0, ConcatIs
  <2> QED BY <1>1, <2>1, EmptyIs
<1> HIDE DEF n
<1>3. ASSUME NEW i \in 1..n PROVE x[i] = <<c, i>>
  <2>1. CASE i <= l
    <3>1. i \in 1..l
      BY <2>1
    <3> QED BY <1>0, <1>1, <3>1, ConcatIs
  <2>2. CASE ~(i <= l)
    <3>1. i - l \in 1..r /\ l + (i - l) = i
      BY <1>2, <2>2
    <3>2. x[l + (i - l)] = w[i - l]
      BY <1>0, <1>1, <3>1, ConcatIs
    <3>3. w[i - l] = <<c, l + (i - l)>>
      BY <1>0, <1>1, <3>1
    <3> QED BY <3>1, <3>2, <3>3
  <2> QED BY <2>1, <2>2
<1>4. x = [i \in DOMAIN x |-> x[i]]
  OBVIOUS
<1>5. [i \in DOMAIN x |-> x[i]] = [i \in 1..n |-> <<c, i>>]
  BY <1>2, <1>3
<1> QED BY <1>1, <1>4, <1>5, Zenon DEF n

-----------------------------------------------------------------------------
(* Clients, epoll_wait and the lists of descriptors *)

\* A step outside the process that keeps what was read of each client.
LEMMA OutsideKeeps ==
  ASSUME IInv, TypeOK', UNCHANGED <<pc, events, touched, conns, nread, got, safe>>,
         \A c \in Clients :
           /\ sock[c] = "open" => sock'[c] = "open"
           /\ sock'[c] \in {"idle", "queued"} => sock[c] \in {"idle", "queued"}
           /\ hup[c] => hup'[c]
           /\ nread[c] <= Len(sent'[c]) /\ Len(sent'[c]) <= MaxRequests
           /\ \A j \in 1..nread[c] : sent'[c][j] = sent[c][j]
  PROVE  IInv'
<1>0. /\ \A fd \in Open : conns[fd] \in ConnState /\ conns[fd].client \in Clients
      /\ Open' = Open
      /\ pc' = pc /\ events' = events /\ touched' = touched /\ conns' = conns
      /\ nread' = nread /\ got' = got /\ safe' = safe
  BY DEF IInv, TypeOK, ConnState, Open
<1>1. Counted'
  BY <1>0 DEF IInv, Counted
<1>2. Owned'
  BY <1>0 DEF IInv, Owned
<1>3. Matched'
  BY <1>0 DEF IInv, Matched, TypeOK, Event
<1>4. Armed'
  BY <1>0 DEF IInv, Armed
<1>5. Taken'
  BY <1>0 DEF IInv, Taken
<1>6. ASSUME NEW fd \in Open, NEW s, s = conns[fd], NEW c, c = s.client
      PROVE  /\ Continues(c, s.out, s.out_pos, Len(got[c]))
             /\ Executes(Len(got[c]) + (Len(s.out) - s.out_pos), s.closing, nread[c], sent'[c])
  <2>1. s.out_pos \in Nat /\ s.closing \in BOOLEAN /\ Len(s.out) \in Nat /\ c \in Clients
    BY <1>0, <1>6 DEF ConnState
  <2>2. Len(got[c]) \in Nat /\ nread[c] \in Nat
    BY <2>1 DEF IInv, TypeOK
  <2>3. /\ Continues(c, s.out, s.out_pos, Len(got[c]))
        /\ Executes(Len(got[c]) + (Len(s.out) - s.out_pos), s.closing, nread[c], sent[c])
    BY <1>6 DEF IInv, InStep
  <2>4. PICK last \in Nat : last = Len(got[c]) + (Len(s.out) - s.out_pos)
    <3>1. s.out_pos <= Len(s.out)
      BY <2>3 DEF Continues
    <3> QED BY <2>1, <2>2, <3>1
  <2>5. PICK n \in Nat, closing \in BOOLEAN : n = nread[c] /\ closing = s.closing
    BY <2>1, <2>2
  <2>6. PICK q, p : q = sent[c] /\ p = sent'[c]
    OBVIOUS
  <2>7. Executes(last, closing, n, q) /\ \A j \in 1..n : p[j] = q[j]
    BY <2>1, <2>3, <2>4, <2>5, <2>6
  <2>8. Executes(last, closing, n, p)
    BY <2>7, ExecutesOnPrefix
  <2> QED BY <2>3, <2>4, <2>5, <2>6, <2>8
<1>7. InStep'
  BY <1>0, <1>6 DEF InStep
<1> QED BY <1>0, <1>1, <1>2, <1>3, <1>4, <1>5, <1>7 DEF IInv

\* A client connects.
LEMMA ConnectKeeps ==
  ASSUME IInv, NEW c \in Clients, Connect(c)
  PROVE  IInv'
<1>1. TypeOK'
  BY DEF IInv, TypeOK, Connect, process, Open
<1> QED BY <1>1, OutsideKeeps, Zenon DEF IInv, TypeOK, Counted, Connect, process

\* A client sends a request.
LEMMA AskKeeps ==
  ASSUME IInv, NEW c \in Clients, NEW r \in Request, Ask(c, r)
  PROVE  IInv'
<1>1. /\ sent' = [sent EXCEPT ![c] = Append(sent[c], r)] /\ sent[c] \in Seq(Request)
      /\ Len(sent[c]) < MaxRequests /\ Len(sent[c]) \in Nat /\ MaxRequests \in Nat
  BY ServerAssumption DEF IInv, TypeOK, Ask
<1>2. /\ Append(sent[c], r) \in Seq(Request) /\ Len(Append(sent[c], r)) = Len(sent[c]) + 1
      /\ \A i \in 1..Len(sent[c]) : Append(sent[c], r)[i] = sent[c][i]
  BY <1>1, AppendIs
<1>3. TypeOK'
  BY <1>1, <1>2 DEF IInv, TypeOK, Ask, process, Open
<1>4. ASSUME NEW d \in Clients
      PROVE  /\ nread[d] <= Len(sent'[d]) /\ Len(sent'[d]) <= MaxRequests
             /\ \A j \in 1..nread[d] : sent'[d][j] = sent[d][j]
  <2>1. nread[d] <= Len(sent[d]) /\ nread[d] \in Nat /\ Len(sent[d]) <= MaxRequests /\ Len(sent[d]) \in Nat
    BY DEF IInv, TypeOK, Counted
  <2>2. CASE d = c
    <3>1. sent'[d] = Append(sent[c], r)
      BY <1>1, <2>2 DEF IInv, TypeOK
    <3> QED BY <1>1, <1>2, <2>1, <2>2, <3>1
  <2>3. CASE d # c
    BY <1>1, <2>1, <2>3 DEF IInv, TypeOK
  <2> QED BY <2>2, <2>3
<1> QED BY <1>3, <1>4, OutsideKeeps, Zenon DEF Ask, process

\* A client reads what it was sent.
LEMMA DrainKeeps ==
  ASSUME IInv, NEW c \in Clients, Drain(c)
  PROVE  IInv'
<1>1. TypeOK'
  BY ServerAssumption DEF IInv, TypeOK, Drain, process, Open
<1> QED BY <1>1, OutsideKeeps, Zenon DEF IInv, TypeOK, Counted, Drain, process

\* A client stops sending.
LEMMA LeaveKeeps ==
  ASSUME IInv, NEW c \in Clients, Leave(c)
  PROVE  IInv'
<1>1. TypeOK'
  BY DEF IInv, TypeOK, Leave, process, Open
<1> QED BY <1>1, OutsideKeeps DEF IInv, TypeOK, Counted, Leave, process

\* A client resets its connection.
LEMMA ResetKeeps ==
  ASSUME IInv, NEW c \in Clients, Reset(c)
  PROVE  IInv'
<1>1. /\ sent' = [sent EXCEPT ![c] = SubSeq(sent[c], 1, nread[c])] /\ sent[c] \in Seq(Request)
      /\ nread[c] \in Nat /\ nread[c] <= Len(sent[c])
      /\ hup' = [hup EXCEPT ![c] = TRUE]
  BY DEF IInv, TypeOK, Counted, Reset
<1>2. /\ SubSeq(sent[c], 1, nread[c]) \in Seq(Request)
      /\ Len(SubSeq(sent[c], 1, nread[c])) = nread[c]
      /\ \A k \in 1..nread[c] : SubSeq(sent[c], 1, nread[c])[k] = sent[c][k]
  BY <1>1, PrefixIs
<1>3. TypeOK'
  BY <1>1, <1>2 DEF IInv, TypeOK, Reset, process, Open
<1>4. ASSUME NEW d \in Clients
      PROVE  /\ nread[d] <= Len(sent'[d]) /\ Len(sent'[d]) <= MaxRequests
             /\ \A j \in 1..nread[d] : sent'[d][j] = sent[d][j]
             /\ hup[d] => hup'[d]
  <2>1. nread[d] <= Len(sent[d]) /\ nread[d] \in Nat /\ Len(sent[d]) <= MaxRequests /\ Len(sent[d]) \in Nat
        /\ MaxRequests \in Nat
    BY ServerAssumption DEF IInv, TypeOK, Counted
  <2>2. hup[d] => hup'[d]
    BY <1>1 DEF IInv, TypeOK
  <2>3. CASE d = c
    <3>1. sent'[d] = SubSeq(sent[c], 1, nread[c])
      BY <1>1, <2>3 DEF IInv, TypeOK
    <3> QED BY <1>2, <2>1, <2>2, <2>3, <3>1
  <2>4. CASE d # c
    BY <1>1, <2>1, <2>2, <2>4 DEF IInv, TypeOK
  <2> QED BY <2>3, <2>4
<1> QED BY <1>3, <1>4, OutsideKeeps, Zenon DEF Reset, process

\* SIGINT or SIGTERM.
LEMMA SignalKeeps ==
  ASSUME IInv, on_shutdown_signal
  PROVE  IInv'
<1>1. TypeOK'
  BY DEF IInv, TypeOK, on_shutdown_signal, kernel, Open
<1> QED BY <1>1, OutsideKeeps DEF IInv, TypeOK, Counted, on_shutdown_signal, kernel

-----------------------------------------------------------------------------
(* The steps of the loop *)

\* Everything ready is one event per descriptor.
LEMMA ReadyIs ==
  ASSUME IInv
  PROVE  /\ IsFiniteSet(Ready) /\ Ready \subseteq Event
         /\ \A e \in Ready : e.fd # Listener =>
              /\ e.fd \in Open /\ conns[e.fd].client = e.client
              /\ e.hup => hup[e.client]
         /\ \A e, f \in Ready : e.fd = f.fd => e = f
<1> DEFINE L == [fd |-> Listener, client |-> Nil, in |-> TRUE, hup |-> FALSE]
           A == {f \in Open : LET c == conns[f].client IN
                           Readable(c) \/ (conns[f].wants_out /\ room[c] > 0)}
           B == {EventOf(fd) : fd \in A}
           C == {L : c \in {d \in Clients : sock[d] = "queued"}}
<1>1. Ready = B \cup C
  BY DEF Ready
<1>2. A \subseteq Open /\ Open \subseteq 1..MaxFds /\ C \subseteq {L} /\ MaxFds \in Nat
  BY ServerAssumption DEF IInv, TypeOK, Open, Fds
<1>3. \A fd \in Open : /\ EventOf(fd).fd = fd /\ EventOf(fd).client = conns[fd].client
                       /\ EventOf(fd).hup = hup[conns[fd].client]
                       /\ EventOf(fd) \in Event /\ fd # Listener
  <2> SUFFICES ASSUME NEW fd \in Open
               PROVE  /\ EventOf(fd).fd = fd /\ EventOf(fd).client = conns[fd].client
                      /\ EventOf(fd).hup = hup[conns[fd].client]
                      /\ EventOf(fd) \in Event /\ fd # Listener
    OBVIOUS
  <2>1. fd \in Fds /\ fd # Listener /\ conns[fd].client \in Clients /\ hup[conns[fd].client] \in BOOLEAN
    <3>1. conns[fd] \in ConnState /\ hup \in [Clients -> BOOLEAN]
      BY Zenon DEF IInv, TypeOK
    <3>2. conns[fd].client \in Clients
      BY <3>1 DEF ConnState
    <3>3. fd \in Fds /\ fd # Listener
      BY <1>2 DEF Fds, Listener
    <3> QED BY <3>1, <3>2, <3>3, Zenon
  <2>2. Readable(conns[fd].client) \in BOOLEAN
    BY DEF Readable
  <2> QED BY <2>1, <2>2 DEF EventOf, Event
<1>4. L \in Event /\ L.fd = Listener
  BY DEF Event
<1> HIDE DEF A, L
<1>5. IsFiniteSet(Ready)
  <2>1. IsFiniteSet(A)
    BY <1>2, FS_Interval, FS_Subset
  <2>2. IsFiniteSet(B)
    <3> DEFINE f == [fd \in A |-> EventOf(fd)]
    <3>1. f \in Surjection(A, B)
      BY DEF Surjection
    <3> HIDE DEF f, B
    <3> QED BY <2>1, <3>1, FS_Surjection
  <2>3. IsFiniteSet(C)
    BY <1>2, FS_Singleton, FS_Subset, Zenon
  <2> QED BY <1>1, <2>2, <2>3, FS_Union, Zenon
<1>6. Ready \subseteq Event
  BY <1>1, <1>2, <1>3, <1>4
<1>7. \A e \in Ready : e.fd # Listener =>
              /\ e.fd \in Open /\ conns[e.fd].client = e.client
              /\ e.hup => hup[e.client]
  BY <1>1, <1>2, <1>3, <1>4
<1>8. \A e, f \in Ready : e.fd = f.fd => e = f
  BY <1>1, <1>2, <1>3, <1>4
<1> QED BY <1>5, <1>6, <1>7, <1>8

\* epoll_wait returns a batch of events.
LEMMA EpollWaitKeeps ==
  ASSUME IInv, EpollWait
  PROVE  IInv'
<1>1. /\ pc' = "service" /\ touched' = <<>> /\ touched = <<>> /\ pc = "release"
      /\ UNCHANGED <<conns, unsynced, shutdown, sock, sent, nread, eof, hup, room, got, safe>>
      /\ Open' = Open
  BY DEF EpollWait, AtWait, kernel, Open
<1>2. PICK n \in Nat : n = Cardinality(Ready)
  BY ReadyIs, FS_CardinalityType
<1>3. events' \in [1..n -> Ready] /\ \A i, j \in 1..n : i # j => events'[i] # events'[j]
  BY <1>2 DEF EpollWait, Injection, IsInjective
<1>4. events' \in Seq(Event) /\ Len(events') = n
  <2>1. events' \in [1..n -> Event]
    BY <1>3, ReadyIs
  <2> QED BY <2>1, FunctionIsSeq
<1>5. TypeOK'
  BY <1>1, <1>4 DEF IInv, TypeOK
<1>6. Counted' /\ Owned' /\ Taken' /\ InStep'
  BY <1>1, ZenonT(30) DEF IInv, Counted, Owned, Taken, InStep
<1>7. Matched'
  <2>1. Len(touched') = 0
    BY <1>1
  <2>2. \A i \in 1..n : events'[i] \in Ready
    BY <1>3
  <2>3. \A i \in 1..n : events'[i].fd # Listener =>
          /\ events'[i].fd \in Open /\ conns[events'[i].fd].client = events'[i].client
          /\ events'[i].hup => hup[events'[i].client]
    BY <2>2, ReadyIs
  <2>4. \A i, j \in 1..n : i # j => events'[i].fd # events'[j].fd
    BY <1>3, <2>2, ReadyIs
  <2> QED BY <1>1, <1>4, <2>1, <2>3, <2>4 DEF Matched
<1>8. Armed'
  BY <1>1 DEF IInv, Armed
<1> QED BY <1>5, <1>6, <1>7, <1>8 DEF IInv

\* What is left of the batch after its first event.
LEMMA BatchTail ==
  ASSUME IInv, events # <<>>
  PROVE  /\ Tail(events) \in Seq(Event) /\ Head(events) = events[1] /\ 1 \in 1..Len(events)
         /\ Len(Tail(events)) \in Nat
         /\ \A i \in 1..Len(Tail(events)) :
              i + 1 \in 1..Len(events) /\ Tail(events)[i] = events[i + 1] /\ i + 1 # 1
<1>1. events \in Seq(Event) /\ Len(events) \in Nat /\ Len(events) # 0
  BY EmptyIs DEF IInv, TypeOK
<1> QED BY <1>1, TailIs

\* The first event's descriptor occurs neither in the rest of the batch nor among
\* the held replies, and the rest of the batch is as well matched as the batch.
LEMMA FirstIsAlone ==
  ASSUME IInv, events # <<>>, pc # "down"
  PROVE  /\ \A i \in 1..Len(touched) : touched[i].fd # Head(events).fd
         /\ \A i \in 1..Len(Tail(events)) : Tail(events)[i].fd # Head(events).fd
         /\ \A i \in 1..Len(Tail(events)) : Tail(events)[i].fd # Listener =>
              /\ Tail(events)[i].fd \in Open
              /\ conns[Tail(events)[i].fd].client = Tail(events)[i].client
              /\ Tail(events)[i].hup => hup[Tail(events)[i].client]
         /\ \A i, j \in 1..Len(Tail(events)) : i # j => Tail(events)[i].fd # Tail(events)[j].fd
         /\ \A i \in 1..Len(Tail(events)), j \in 1..Len(touched) : Tail(events)[i].fd # touched[j].fd
<1>1. /\ \A i \in 1..Len(events) : events[i].fd # Listener =>
           /\ events[i].fd \in Open /\ conns[events[i].fd].client = events[i].client
           /\ events[i].hup => hup[events[i].client]
      /\ \A i, j \in 1..Len(events) : i # j => events[i].fd # events[j].fd
      /\ \A i \in 1..Len(events), j \in 1..Len(touched) : events[i].fd # touched[j].fd
  BY Zenon DEF IInv, Matched
<1>2. \A i \in 1..Len(touched) : touched[i].fd # Head(events).fd
  BY <1>1, BatchTail, ZenonT(30)
<1>3. \A i \in 1..Len(Tail(events)) : Tail(events)[i].fd # Head(events).fd
  BY <1>1, BatchTail
<1>4. \A i \in 1..Len(Tail(events)) : Tail(events)[i].fd # Listener =>
        /\ Tail(events)[i].fd \in Open
        /\ conns[Tail(events)[i].fd].client = Tail(events)[i].client
        /\ Tail(events)[i].hup => hup[Tail(events)[i].client]
  BY <1>1, BatchTail
<1>5. \A i, j \in 1..Len(Tail(events)) : i # j => Tail(events)[i].fd # Tail(events)[j].fd
  <2> SUFFICES ASSUME NEW i \in 1..Len(Tail(events)), NEW j \in 1..Len(Tail(events)), i # j
               PROVE  Tail(events)[i].fd # Tail(events)[j].fd
    OBVIOUS
  <2>1. i + 1 # j + 1
    OBVIOUS
  <2> QED BY <1>1, <2>1, BatchTail
<1>6. \A i \in 1..Len(Tail(events)), j \in 1..Len(touched) : Tail(events)[i].fd # touched[j].fd
  BY <1>1, BatchTail
<1> QED BY <1>2, <1>3, <1>4, <1>5, <1>6, Zenon

\* ... and of the held replies.
LEMMA TouchedTail ==
  ASSUME IInv, touched # <<>>
  PROVE  /\ Tail(touched) \in Seq(Touch) /\ Head(touched) = touched[1] /\ 1 \in 1..Len(touched)
         /\ Len(Tail(touched)) \in Nat
         /\ \A i \in 1..Len(Tail(touched)) :
              i + 1 \in 1..Len(touched) /\ Tail(touched)[i] = touched[i + 1] /\ i + 1 # 1
         /\ \A i \in 1..Len(touched) : i # 1 => i - 1 \in 1..Len(Tail(touched)) /\ (i - 1) + 1 = i
<1>1. touched \in Seq(Touch) /\ Len(touched) \in Nat /\ Len(touched) # 0
  BY EmptyIs DEF IInv, TypeOK
<1> QED BY <1>1, TailIs

\* No descriptor is to be released twice.
LEMMA TailApart ==
  ASSUME IInv, pc = "release", touched # <<>>
  PROVE  /\ \A i \in 1..Len(Tail(touched)) : Tail(touched)[i].fd # Head(touched).fd
         /\ \A i, j \in 1..Len(Tail(touched)) : i # j => Tail(touched)[i].fd # Tail(touched)[j].fd
<1>1. \A i, j \in 1..Len(touched) : i # j => touched[i].fd # touched[j].fd
  BY Zenon DEF IInv, Matched
<1>2. \A i, j \in 1..Len(Tail(touched)) : i # j => i + 1 # j + 1
  OBVIOUS
<1>3. \A i \in 1..Len(Tail(touched)) :
        /\ i + 1 \in 1..Len(touched) /\ Tail(touched)[i] = touched[i + 1] /\ i + 1 # 1
        /\ Head(touched) = touched[1] /\ 1 \in 1..Len(touched)
  BY TouchedTail, Zenon
<1> QED BY <1>1, <1>2, <1>3

\* accept finds nobody waiting.
LEMMA AcceptDoneKeeps ==
  ASSUME IInv, AcceptDone
  PROVE  IInv'
<1>1. /\ events # <<>> /\ events' = Tail(events) /\ pc' = pc /\ pc = "service" /\ Open' = Open
      /\ UNCHANGED <<touched, conns, unsynced, shutdown, sock, sent, nread, eof, hup, room, got, safe>>
  BY DEF AcceptDone, kernel, Open
<1>2. TypeOK'
  BY <1>1, BatchTail DEF IInv, TypeOK
<1>3. Counted' /\ Taken'
  BY <1>1, Zenon DEF IInv, Counted, Taken
<1>4. Owned' /\ Armed'
  BY <1>1, Zenon DEF IInv, Owned, Armed
<1>5. InStep'
  BY <1>1, Zenon DEF IInv, InStep
<1>6. Matched'
  <2>1. Matched
    BY Zenon DEF IInv
  <2>2. /\ \A i \in 1..Len(Tail(events)) : Tail(events)[i].fd # Listener =>
             /\ Tail(events)[i].fd \in Open
             /\ conns[Tail(events)[i].fd].client = Tail(events)[i].client
             /\ Tail(events)[i].hup => hup[Tail(events)[i].client]
        /\ \A i \in 1..Len(Tail(events)), j \in 1..Len(touched) :
             Tail(events)[i].fd # touched[j].fd
    BY <1>1, FirstIsAlone, Zenon
  <2>3. \A i, j \in 1..Len(Tail(events)) : i # j => Tail(events)[i].fd # Tail(events)[j].fd
    BY <1>1, FirstIsAlone, Zenon
  <2>4. /\ \A i \in 1..Len(touched) :
             touched[i].fd \in Open /\ conns[touched[i].fd].client = touched[i].client
        /\ \A i, j \in 1..Len(touched) : i # j => touched[i].fd # touched[j].fd
    BY <1>1, <2>1, Zenon DEF Matched
  <2> QED BY <1>1, <2>2, <2>3, <2>4, Zenon DEF Matched
<1> QED BY <1>2, <1>3, <1>4, <1>5, <1>6, Zenon DEF IInv

\* accept fails.
LEMMA AcceptRefusedKeeps ==
  ASSUME IInv, NEW c \in Clients, AcceptRefused(c)
  PROVE  IInv'
<1>1. TypeOK'
  BY DEF IInv, TypeOK, AcceptRefused, Queued, process, Open
<1>2. \A d \in Clients : /\ sock[d] = "open" => sock'[d] = "open"
                         /\ sock'[d] \in {"idle", "queued"} => sock[d] \in {"idle", "queued"}
  BY DEF IInv, TypeOK, AcceptRefused, Queued
<1> QED BY <1>1, <1>2, OutsideKeeps, ZenonT(30) DEF IInv, TypeOK, Counted, AcceptRefused, process

-----------------------------------------------------------------------------
(* The steps Server::run takes with a batch of events: accepting, reading  *)
(* and executing, the group commit, sending held replies, closing          *)

\* accept gives the client a free descriptor.
LEMMA AcceptOneKeeps ==
  ASSUME IInv, NEW c \in Clients, AcceptOne(c)
  PROVE  IInv' /\ Open \subseteq Open'
<1> DEFINE fd == Min(Free)
<1>1. /\ conns' = [conns EXCEPT ![fd] = NewConnection(c)]
      /\ sock' = [sock EXCEPT ![c] = "open"] /\ sock[c] = "queued" /\ pc = "service"
      /\ UNCHANGED <<pc, events, touched, unsynced, shutdown, sent, nread, eof, hup, room, got, safe>>
  BY DEF AcceptOne, Queued
<1>2. fd \in DOMAIN conns /\ fd \notin Open
  <2>1. MaxFds \in Nat /\ Free \in SUBSET (1..MaxFds) /\ Free # {}
    BY ServerAssumption DEF IInv, TypeOK, Free, Fds, AcceptOne
  <2>2. fd \in Free
    BY <2>1, MinIs, Zenon
  <2> QED BY <2>2 DEF Free
<1> HIDE DEF fd
<1>3. /\ NewConnection(c) \in ConnState /\ NewConnection(c) # Nil
      /\ NewConnection(c).client = c /\ NewConnection(c).out = <<>> /\ NewConnection(c).out_pos = 0
      /\ NewConnection(c).closing = FALSE /\ NewConnection(c).wants_out = FALSE
  <2>1. NewConnection(c) \in ConnState
    BY DEF NewConnection, ConnState
  <2> QED BY <2>1, NilAssumption, ZenonT(30) DEF NewConnection
<1>4. /\ DOMAIN conns' = DOMAIN conns /\ Open' = Open \cup {fd} /\ conns'[fd] = NewConnection(c)
      /\ \A g \in Open : conns'[g] = conns[g] /\ g # fd
  BY <1>1, <1>2, <1>3 DEF Open
<1>5. /\ sock'[c] = "open" /\ \A d \in Clients : d # c => sock'[d] = sock[d]
      /\ \A g \in Open : conns[g].client # c /\ conns[g].client \in Clients
  BY <1>1 DEF IInv, TypeOK, Owned, ConnState
<1>6. TypeOK'
  BY <1>1, <1>3, <1>4 DEF IInv, TypeOK
<1>7. Counted'
  BY <1>1, <1>5 DEF IInv, Counted
<1>8. Owned'
  BY <1>3, <1>4, <1>5 DEF IInv, Owned
<1>9. Matched'
  <2>1. Matched
    BY Zenon DEF IInv
  <2>2. pc' = pc /\ events' = events /\ touched' = touched /\ hup' = hup
    BY <1>1
  <2> QED BY <1>4, <2>1, <2>2, ZenonT(60) DEF Matched
<1>10. Armed'
  <2>1. (NewConnection(c).out_pos < Len(NewConnection(c).out)) = FALSE
    BY <1>3
  <2> QED BY <1>1, <1>3, <1>4, <2>1, ZenonT(30) DEF IInv, Armed
<1>11. Taken'
  BY <1>1, Zenon DEF IInv, Taken
<1>12. InStep'
  <2>1. nread[c] = 0 /\ Len(got[c]) = 0
    <3>1. nread[c] = 0 /\ safe[c] <= nread[c] /\ Len(got[c]) <= safe[c]
      BY <1>1, Zenon DEF IInv, Counted, Taken
    <3>2. safe[c] \in Nat /\ Len(got[c]) \in Nat
      BY DEF IInv, TypeOK
    <3> QED BY <3>1, <3>2
  <2>2. /\ Continues(c, <<>>, 0, Len(got[c]))
        /\ Executes(Len(got[c]) + (Len(<<>>) - 0), FALSE, nread[c], sent[c])
    BY <2>1 DEF Continues, Executes
  <2>3. /\ Continues(conns'[fd].client, conns'[fd].out, conns'[fd].out_pos, Len(got[conns'[fd].client]))
        /\ Executes(Len(got[conns'[fd].client]) + (Len(conns'[fd].out) - conns'[fd].out_pos),
                    conns'[fd].closing, nread[conns'[fd].client], sent[conns'[fd].client])
    BY <1>3, <1>4, <2>2, ZenonT(30)
  <2>4. \A g \in Open :
          /\ Continues(conns[g].client, conns[g].out, conns[g].out_pos, Len(got[conns[g].client]))
          /\ Executes(Len(got[conns[g].client]) + (Len(conns[g].out) - conns[g].out_pos),
                      conns[g].closing, nread[conns[g].client], sent[conns[g].client])
    BY Zenon DEF IInv, InStep
  <2> QED BY <1>1, <1>4, <2>3, <2>4, Zenon DEF InStep
<1> QED BY <1>4, <1>6, <1>7, <1>8, <1>9, <1>10, <1>11, <1>12, ZenonT(30) DEF IInv

\* The group commit: everything executed is on the disk.
LEMMA SyncOkKeeps ==
  ASSUME IInv, SyncOk
  PROVE  IInv'
<1>1. /\ pc = "service" /\ events = <<>> /\ unsynced' = FALSE /\ safe' = nread /\ pc' = "release"
      /\ UNCHANGED <<events, touched, conns, shutdown, sock, sent, nread, eof, hup, room, got>>
      /\ Open' = Open
  BY DEF SyncOk, BatchDone, kernel, Open
<1>2. TypeOK'
  BY <1>1, Zenon DEF IInv, TypeOK
<1>3. Counted'
  BY <1>1 DEF IInv, TypeOK, Counted
<1>4. Owned' /\ InStep' /\ Armed'
  BY <1>1 DEF IInv, Owned, InStep, Armed
<1>5. Matched'
  BY <1>1 DEF IInv, Matched
<1>6. Taken'
  <2>1. ASSUME NEW c \in Clients PROVE Len(got[c]) <= nread[c]
    <3>1. /\ Len(got[c]) <= safe[c] /\ safe[c] <= nread[c]
          /\ Len(got[c]) \in Nat /\ safe[c] \in Nat /\ nread[c] \in Nat
      BY DEF IInv, TypeOK, Counted, Taken
    <3> QED BY <3>1
  <2> QED BY <1>1, <2>1 DEF IInv, Taken
<1> QED BY <1>2, <1>3, <1>4, <1>5, <1>6 DEF IInv

\* The process stops.
LEMMA StopsKeeps ==
  ASSUME IInv, Stops
  PROVE  IInv'
<1>1. /\ pc' = "down" /\ conns' = [fd \in DOMAIN conns |-> Nil] /\ Open' = {}
      /\ sock' = [c \in Clients |-> IF sock[c] = "open" THEN "closed" ELSE sock[c]]
      /\ UNCHANGED <<events, touched, unsynced, shutdown, sent, nread, eof, hup, room, got, safe>>
  BY DEF Stops, Open
<1>2. TypeOK'
  BY <1>1 DEF IInv, TypeOK
<1>3. Counted'
  BY <1>1 DEF IInv, Counted
<1>4. Owned' /\ InStep' /\ Armed' /\ Matched' /\ Taken'
  BY <1>1, Zenon DEF IInv, Owned, InStep, Armed, Matched, Taken
<1> QED BY <1>2, <1>3, <1>4 DEF IInv

\* What the invariant says of one open connection.
LEMMA ConnIs ==
  ASSUME IInv, NEW fd \in Open
  PROVE  /\ fd \in DOMAIN conns /\ fd \in Fds /\ fd # Listener /\ conns[fd] \in ConnState
         /\ conns[fd].client \in Clients /\ OutputOK(conns[fd])
         /\ Len(got[conns[fd].client]) \in Nat /\ nread[conns[fd].client] \in Nat
         /\ Continues(conns[fd].client, conns[fd].out, conns[fd].out_pos, Len(got[conns[fd].client]))
         /\ Executes(Len(got[conns[fd].client]) + (Len(conns[fd].out) - conns[fd].out_pos),
                     conns[fd].closing, nread[conns[fd].client], sent[conns[fd].client])
<1>1. fd \in DOMAIN conns /\ fd \in Fds /\ fd # Listener /\ conns[fd] \in ConnState
  BY DEF IInv, TypeOK, Open, Fds, Listener
<1>2. conns[fd].client \in Clients
  BY <1>1 DEF ConnState
<1>3. Len(got[conns[fd].client]) \in Nat /\ nread[conns[fd].client] \in Nat
  BY <1>2 DEF IInv, TypeOK
<1>4. /\ Continues(conns[fd].client, conns[fd].out, conns[fd].out_pos, Len(got[conns[fd].client]))
      /\ Executes(Len(got[conns[fd].client]) + (Len(conns[fd].out) - conns[fd].out_pos),
                  conns[fd].closing, nread[conns[fd].client], sent[conns[fd].client])
  BY DEF IInv, InStep
<1>5. OutputOK(conns[fd])
  BY <1>1, <1>4 DEF OutputOK, Continues
<1> QED BY <1>1, <1>2, <1>3, <1>4, <1>5

\* A connection replaced by one of the same client.
LEMMA ReplacedIs ==
  ASSUME IInv, NEW fd \in Open, NEW t \in ConnState, t.client = conns[fd].client,
         conns' = [conns EXCEPT ![fd] = t], sock' = sock
  PROVE  /\ DOMAIN conns' = DOMAIN conns /\ Open' = Open /\ conns'[fd] = t
         /\ \A g \in Open : conns'[g] \in ConnState /\ conns'[g].client = conns[g].client
         /\ \A g \in Open : g # fd => conns'[g] = conns[g] /\ conns[g].client # conns[fd].client
         /\ Owned'
<1>1. t # Nil /\ fd \in DOMAIN conns
  BY NilAssumption DEF Open
<1>2. /\ DOMAIN conns' = DOMAIN conns /\ Open' = Open /\ conns'[fd] = t
      /\ \A g \in Open : g # fd => conns'[g] = conns[g]
  BY <1>1 DEF Open
<1>3. \A g \in Open : g # fd => conns[g].client # conns[fd].client
  BY DEF IInv, Owned
<1>4. \A g \in Open : conns'[g] \in ConnState /\ conns'[g].client = conns[g].client
  BY <1>2, ConnIs
<1>5. Owned'
  BY <1>2, <1>4 DEF IInv, Owned
<1> QED BY <1>2, <1>3, <1>4, <1>5

\* A connection closed.
LEMMA ClosedIs ==
  ASSUME IInv, NEW fd \in Open, close_connection(fd)
  PROVE  /\ DOMAIN conns' = DOMAIN conns /\ Open' = Open \ {fd}
         /\ \A g \in Open' : conns'[g] = conns[g]
         /\ sock' \in [Clients -> {"idle", "queued", "open", "refused", "closed"}]
         /\ sock'[conns[fd].client] = "closed"
         /\ \A c \in Clients : c # conns[fd].client => sock'[c] = sock[c]
         /\ Owned'
<1>1. /\ conns' = [conns EXCEPT ![fd] = Nil] /\ sock' = [sock EXCEPT ![conns[fd].client] = "closed"]
      /\ conns[fd].client \in Clients /\ fd \in DOMAIN conns
  BY ConnIs DEF close_connection
<1>2. /\ DOMAIN conns' = DOMAIN conns /\ Open' = Open \ {fd}
      /\ \A g \in Open' : conns'[g] = conns[g]
  BY <1>1 DEF Open
<1>3. /\ sock' \in [Clients -> {"idle", "queued", "open", "refused", "closed"}]
      /\ sock'[conns[fd].client] = "closed"
      /\ \A c \in Clients : c # conns[fd].client => sock'[c] = sock[c]
  BY <1>1 DEF IInv, TypeOK
<1>4. Owned'
  <2>1. \A g \in Open' : g \in Open /\ conns[g].client # conns[fd].client /\ conns[g].client \in Clients
    BY <1>2, ConnIs DEF IInv, Owned
  <2> QED BY <1>2, <1>3, <2>1 DEF IInv, Owned
<1> QED BY <1>2, <1>3, <1>4

\* service closes a connection.
LEMMA ServiceCloseKeeps ==
  ASSUME IInv, NEW fd \in DOMAIN conns, ServiceClose(fd)
  PROVE  IInv'
<1>1. /\ fd \in Open /\ close_connection(fd) /\ pc = "service"
      /\ events # <<>> /\ Head(events).fd = fd /\ events' = Tail(events)
      /\ UNCHANGED <<pc, touched, unsynced, shutdown, sent, nread, eof, hup, room, got, safe>>
  BY DEF ServiceClose, Servicing, Open
<1>2. TypeOK'
  BY <1>1, ClosedIs, BatchTail DEF IInv, TypeOK
<1>3. Counted'
  BY <1>1, ClosedIs, ZenonT(30) DEF IInv, Counted
<1>4. Taken'
  BY <1>1 DEF IInv, Taken
<1>5. InStep'
  BY <1>1, ClosedIs DEF IInv, InStep
<1>6. Armed'
  BY <1>1, ClosedIs, Zenon DEF IInv, Armed
<1>7. Matched'
  <2>1. \A i \in 1..Len(touched) : touched[i].fd # fd
    BY <1>1, FirstIsAlone, Zenon
  <2>2. \A i \in 1..Len(Tail(events)) : Tail(events)[i].fd # fd
    BY <1>1, FirstIsAlone, ZenonT(30)
  <2>3. /\ \A i \in 1..Len(touched) :
              touched[i].fd \in Open /\ conns[touched[i].fd].client = touched[i].client
        /\ \A i, j \in 1..Len(touched) : i # j => touched[i].fd # touched[j].fd
    BY <1>1, Zenon DEF IInv, Matched
  <2>4. \A i \in 1..Len(Tail(events)) : Tail(events)[i].fd # Listener =>
          /\ Tail(events)[i].fd \in Open
          /\ conns[Tail(events)[i].fd].client = Tail(events)[i].client
          /\ Tail(events)[i].hup => hup[Tail(events)[i].client]
    BY <1>1, FirstIsAlone, Zenon
  <2>5. Open' = Open \ {fd} /\ \A g \in Open' : conns'[g] = conns[g]
    BY <1>1, ClosedIs, Zenon
  <2>6. \A i \in 1..Len(events') : events'[i].fd # Listener =>
          /\ events'[i].fd \in Open' /\ conns'[events'[i].fd].client = events'[i].client
          /\ events'[i].hup => hup'[events'[i].client]
    BY <1>1, <2>2, <2>4, <2>5
  <2>7. \A i \in 1..Len(touched') :
          touched'[i].fd \in Open' /\ conns'[touched'[i].fd].client = touched'[i].client
    BY <1>1, <2>1, <2>3, <2>5
  <2>8. /\ \A i, j \in 1..Len(events') : i # j => events'[i].fd # events'[j].fd
        /\ \A i \in 1..Len(events'), j \in 1..Len(touched') : events'[i].fd # touched'[j].fd
    BY <1>1, FirstIsAlone, Zenon
  <2>9. /\ \A i, j \in 1..Len(touched') : i # j => touched'[i].fd # touched'[j].fd
        /\ pc' # "release"
    BY <1>1, <2>3, Zenon
  <2> QED BY <2>6, <2>7, <2>8, <2>9, ZenonT(30) DEF Matched
<1>8. Owned'
  BY <1>1, ClosedIs
<1> QED BY <1>2, <1>3, <1>4, <1>5, <1>6, <1>7, <1>8 DEF IInv

\* The descriptor of the first event joins those whose replies are held.
LEMMA TouchingKeeps ==
  ASSUME IInv, NEW fd \in Open, pc = "service", pc' = pc, events # <<>>,
         Head(events).fd = fd, events' = Tail(events), hup' = hup, Touching(fd), Open' = Open,
         \A g \in Open : conns'[g].client = conns[g].client,
         \A g \in Open : g # fd => conns'[g] = conns[g]
  PROVE  Matched' /\ Armed' /\ touched' \in Seq(Touch)
<1> DEFINE x == [fd |-> fd, client |-> conns[fd].client]
<1>1. x \in Touch /\ x.fd = fd /\ x.client = conns[fd].client
  BY ConnIs, Zenon DEF Touch
<1> HIDE DEF x
<1>2. touched' = Append(touched, x) /\ touched \in Seq(Touch) /\ Len(touched) \in Nat
  <2>1. touched' = Append(touched, x)
    BY Zenon DEF Touching, x
  <2>2. touched \in Seq(Touch)
    BY Zenon DEF IInv, TypeOK
  <2> QED BY <2>1, <2>2
<1>3. /\ touched' \in Seq(Touch) /\ Len(touched') = Len(touched) + 1
      /\ \A i \in 1..Len(touched) : touched'[i] = touched[i]
      /\ touched'[Len(touched) + 1] = x
  <2>1. /\ Append(touched, x) \in Seq(Touch) /\ Len(Append(touched, x)) = Len(touched) + 1
        /\ \A i \in 1..Len(touched) : Append(touched, x)[i] = touched[i]
        /\ Append(touched, x)[Len(touched) + 1] = x
    BY <1>1, <1>2, AppendIs
  <2> QED BY <1>2, <2>1, Zenon
<1>4. \A i \in 1..Len(touched) : touched[i].fd # fd
  BY FirstIsAlone, Zenon
<1>5. \A i \in 1..Len(Tail(events)) : Tail(events)[i].fd # fd
  BY FirstIsAlone, Zenon
<1>6. \A i \in 1..(Len(touched) + 1) : i \in 1..Len(touched) \/ i = Len(touched) + 1
  BY <1>2
<1>7. Matched'
  <2>1. \A i \in 1..Len(events') : events'[i].fd # Listener =>
          /\ events'[i].fd \in Open /\ conns'[events'[i].fd].client = events'[i].client
          /\ events'[i].hup => hup[events'[i].client]
    BY FirstIsAlone, ZenonT(30)
  <2>2. \A i \in 1..Len(touched') :
          touched'[i].fd \in Open /\ conns'[touched'[i].fd].client = touched'[i].client
    BY <1>1, <1>3, <1>6 DEF IInv, Matched
  <2>3. \A i, j \in 1..Len(events') : i # j => events'[i].fd # events'[j].fd
    BY FirstIsAlone, ZenonT(30)
  <2>4. \A i, j \in 1..Len(touched') : i # j => touched'[i].fd # touched'[j].fd
    BY <1>1, <1>3, <1>4, <1>6 DEF IInv, Matched
  <2>5. \A i \in 1..Len(events'), j \in 1..Len(touched') : events'[i].fd # touched'[j].fd
    BY <1>1, <1>3, <1>5, <1>6, FirstIsAlone
  <2> QED BY <2>1, <2>2, <2>3, <2>4, <2>5, Zenon DEF Matched
<1>8. Armed'
  <2> SUFFICES ASSUME NEW g \in Open, \A i \in 1..Len(touched') : touched'[i].fd # g
               PROVE  conns'[g].wants_out = (conns'[g].out_pos < Len(conns'[g].out))
    BY DEF Armed
  <2>1. g # fd
    BY <1>1, <1>2, <1>3
  <2>2. \A i \in 1..Len(touched) : touched[i].fd # g
    BY <1>2, <1>3
  <2> QED BY <2>1, <2>2 DEF IInv, Armed
<1> QED BY <1>3, <1>7, <1>8

\* service leaves EPOLLOUT to release.
LEMMA ServiceWritableKeeps ==
  ASSUME IInv, NEW fd \in DOMAIN conns, ServiceWritable(fd)
  PROVE  IInv'
<1>1. /\ fd \in Open /\ pc = "service" /\ Touching(fd) /\ Open' = Open
      /\ events # <<>> /\ Head(events).fd = fd /\ events' = Tail(events)
      /\ UNCHANGED <<pc, conns, unsynced, shutdown, sock, sent, nread, eof, hup, room, got, safe>>
  BY DEF ServiceWritable, Servicing, Open, kernel
<1>2. Matched' /\ Armed' /\ touched' \in Seq(Touch)
  BY <1>1, TouchingKeeps
<1>3. TypeOK'
  BY <1>1, <1>2, BatchTail DEF IInv, TypeOK
<1>4. Counted' /\ Owned' /\ Taken' /\ InStep'
  BY <1>1, Zenon DEF IInv, Counted, Owned, Taken, InStep
<1> QED BY <1>2, <1>3, <1>4 DEF IInv

-----------------------------------------------------------------------------
(* Reading and executing, releasing, and every step *)

\* service reads a chunk, executes its requests and queues their replies.
LEMMA ServiceReadKeeps ==
  ASSUME IInv, NEW fd \in DOMAIN conns, NEW m \in 1..kReadChunk, ServiceRead(fd, m)
  PROVE  IInv' /\ Open' = Open
<1> DEFINE s == conns[fd]
           c == s.client
           asked == SubSeq(Unread(c), 1, m)
           t == on_bytes(s, asked, nread[c] + 1)
<1>1. /\ fd \in Open /\ pc = "service" /\ Touching(fd)
      /\ events # <<>> /\ Head(events).fd = fd /\ events' = Tail(events)
      /\ m \in 1..Len(Unread(c)) /\ conns' = [conns EXCEPT ![fd] = t]
      /\ nread' = [nread EXCEPT ![c] = nread[c] + m]
      /\ UNCHANGED <<pc, shutdown, sock, sent, eof, hup, room, got, safe>>
  BY DEF ServiceRead, Servicing, Open
<1>2. unsynced' \in BOOLEAN
  BY DEF ServiceRead
<1>3. /\ c \in Clients /\ nread[c] \in Nat /\ sent[c] \in Seq(Request) /\ Len(sent[c]) \in Nat
      /\ nread[c] <= Len(sent[c]) /\ Len(sent[c]) <= MaxRequests /\ MaxRequests \in Nat
      /\ s \in ConnState /\ Len(got[c]) \in Nat
  <2>1. c \in Clients /\ s \in ConnState /\ Len(got[c]) \in Nat /\ nread[c] \in Nat
    BY <1>1, ConnIs
  <2> HIDE DEF s, c
  <2>2. sent[c] \in Seq(Request) /\ Len(sent[c]) \in Nat
    BY <2>1 DEF IInv, TypeOK
  <2>3. nread[c] <= Len(sent[c]) /\ Len(sent[c]) <= MaxRequests
    BY <2>1 DEF IInv, Counted
  <2> QED BY <2>1, <2>2, <2>3, ServerAssumption
<1> HIDE DEF s, c
<1>4. /\ Unread(c) \in Seq(Request) /\ Len(Unread(c)) = Len(sent[c]) - nread[c]
      /\ \A k \in 1..(Len(sent[c]) - nread[c]) : Unread(c)[k] = sent[c][nread[c] + k]
  BY <1>3, SuffixIs, ZenonT(30) DEF Unread
<1>5. m \in Nat /\ m <= Len(Unread(c)) /\ m <= Len(sent[c]) - nread[c]
  BY <1>1, <1>3, <1>4
<1>6. Reads(sent[c], nread[c], m, asked)
  <2>1. /\ asked \in Seq(Request) /\ Len(asked) = m
        /\ \A k \in 1..m : asked[k] = Unread(c)[k]
    BY <1>4, <1>5, PrefixIs
  <2>2. \A k \in 1..m : k \in 1..(Len(sent[c]) - nread[c])
    BY <1>3, <1>5
  <2> QED BY <1>4, <2>1, <2>2 DEF Reads
<1> HIDE DEF asked
<1>7. nread[c] + m <= MaxRequests /\ nread[c] + m <= Len(sent[c])
  BY <1>3, <1>5
<1>8. /\ Continues(c, s.out, s.out_pos, Len(got[c]))
      /\ Executes(Len(got[c]) + (Len(s.out) - s.out_pos), s.closing, nread[c], sent[c])
      /\ s.client = c
  BY <1>1, ConnIs DEF s, c
<1>9. /\ t \in ConnState /\ t.client = c
      /\ Continues(c, t.out, t.out_pos, Len(got[c]))
      /\ Executes(Len(got[c]) + (Len(t.out) - t.out_pos), t.closing, nread[c] + m, sent[c])
  <2>1. PICK n \in Nat, q \in Seq(Request), k \in Nat : n = nread[c] /\ q = sent[c] /\ k = Len(got[c])
    BY <1>3
  <2>2. /\ Continues(s.client, s.out, s.out_pos, k)
        /\ Executes(k + (Len(s.out) - s.out_pos), s.closing, n, q)
        /\ Reads(q, n, m, asked) /\ n + m <= MaxRequests
    BY <1>6, <1>7, <1>8, <2>1
  <2>3. t = on_bytes(s, asked, n + 1)
    BY <2>1
  <2> HIDE DEF t
  <2>4. /\ t \in ConnState /\ t.client = s.client
        /\ Continues(s.client, t.out, t.out_pos, k)
        /\ Executes(k + (Len(t.out) - t.out_pos), t.closing, n + m, q)
    <3>1. Follows(s, k, n, q) /\ Handed(q, n, m, asked)
      BY <1>3, <1>5, <2>2 DEF Follows, Handed
    <3>2. /\ Follows(on_bytes(s, asked, n + 1), k, n + m, q)
          /\ on_bytes(s, asked, n + 1).client = s.client
      BY <3>1, BytesFollow
    <3>3. Follows(t, k, n + m, q) /\ t.client = s.client
      BY <2>3, <3>2
    <3> QED BY <3>3 DEF Follows
  <2> QED BY <1>8, <2>1, <2>4
<1> HIDE DEF t
<1>10. /\ DOMAIN conns' = DOMAIN conns /\ Open' = Open /\ conns'[fd] = t
       /\ \A g \in Open : conns'[g] \in ConnState /\ conns'[g].client = conns[g].client
       /\ \A g \in Open : g # fd => conns'[g] = conns[g] /\ conns[g].client # c
       /\ Owned'
  BY <1>1, <1>9, ReplacedIs, Zenon DEF s, c
<1>11. Matched' /\ Armed' /\ touched' \in Seq(Touch)
  BY <1>1, <1>10, TouchingKeeps
<1>12. nread' \in [Clients -> Nat] /\ nread'[c] = nread[c] + m /\ \A d \in Clients : d # c => nread'[d] = nread[d]
  BY <1>1, <1>3, <1>5 DEF IInv, TypeOK
<1>13. TypeOK'
  BY <1>1, <1>2, <1>10, <1>11, <1>12, BatchTail, ZenonT(30) DEF IInv, TypeOK
<1>14. Counted'
  <2> SUFFICES ASSUME NEW d \in Clients
               PROVE  /\ nread'[d] <= Len(sent[d]) /\ Len(sent[d]) <= MaxRequests
                      /\ safe[d] <= nread'[d]
                      /\ sock[d] \in {"idle", "queued"} => nread'[d] = 0
    BY <1>1 DEF Counted
  <2>1. CASE d # c
    BY <1>12, <2>1 DEF IInv, Counted
  <2>2. CASE d = c
    <3>1. sock[c] = "open" /\ safe[c] \in Nat /\ safe[c] <= nread[c]
      BY <1>1, <1>3 DEF IInv, TypeOK, Owned, Counted, c, s
    <3> QED BY <1>3, <1>5, <1>7, <1>12, <2>2, <3>1
  <2> QED BY <2>1, <2>2
<1>15. Taken'
  BY <1>1 DEF IInv, Taken
<1>16. InStep'
  <2>1. ASSUME NEW g \in Open, g # fd, NEW d \in Clients, d = conns'[g].client
        PROVE  /\ Continues(d, conns'[g].out, conns'[g].out_pos, Len(got'[d]))
               /\ Executes(Len(got'[d]) + (Len(conns'[g].out) - conns'[g].out_pos),
                           conns'[g].closing, nread'[d], sent'[d])
    <3>1. conns'[g] = conns[g] /\ d = conns[g].client /\ d # c /\ nread'[d] = nread[d]
      BY <1>10, <1>12, <2>1
    <3> QED BY <1>1, <3>1, ConnIs
  <2>2. /\ Continues(c, conns'[fd].out, conns'[fd].out_pos, Len(got'[c]))
        /\ Executes(Len(got'[c]) + (Len(conns'[fd].out) - conns'[fd].out_pos),
                    conns'[fd].closing, nread'[c], sent'[c])
        /\ conns'[fd].client = c
    BY <1>1, <1>9, <1>10, <1>12
  <2>3. \A g \in Open : conns'[g].client \in Clients
    BY <1>10, ConnIs, Zenon
  <2> QED BY <1>10, <2>1, <2>2, <2>3 DEF InStep
<1> QED BY <1>10, <1>11, <1>13, <1>14, <1>15, <1>16 DEF IInv

\* release sends part of what is queued.
LEMMA SendSomeKeeps ==
  ASSUME IInv, NEW fd \in DOMAIN conns, NEW m \in 1..SendRoom, SendSome(fd, m)
  PROVE  IInv' /\ Open' = Open
<1> DEFINE s == conns[fd]
           c == s.client
           p == pending_output(s)
           t == consume_output(s, m)
<1>1. /\ fd \in Open /\ pc = "release" /\ touched # <<>> /\ Head(touched).fd = fd
      /\ m <= room[c] /\ m <= Len(p)
      /\ conns' = [conns EXCEPT ![fd] = t]
      /\ got' = [got EXCEPT ![c] = got[c] \o SubSeq(p, 1, m)]
      /\ room' = [room EXCEPT ![c] = room[c] - m]
      /\ UNCHANGED <<pc, events, touched, unsynced, shutdown, sock, sent, nread, eof, hup, safe>>
  BY DEF SendSome, Releasing, Open
<1>2. /\ c \in Clients /\ s \in ConnState /\ OutputOK(s) /\ Len(got[c]) \in Nat /\ got[c] \in Seq(Reply)
      /\ room[c] \in 0..SendRoom /\ SendRoom \in Nat /\ m \in Nat /\ nread[c] \in Nat
      /\ s.client = c
  <2>1. c \in Clients /\ s \in ConnState /\ OutputOK(s) /\ Len(got[c]) \in Nat /\ nread[c] \in Nat /\ s.client = c
    BY <1>1, ConnIs
  <2> HIDE DEF s, c
  <2>2. got[c] \in Seq(Reply) /\ room[c] \in 0..SendRoom
    BY <2>1 DEF IInv, TypeOK
  <2> QED BY <2>1, <2>2, ServerAssumption
<1>3. /\ Continues(c, s.out, s.out_pos, Len(got[c]))
      /\ Executes(Len(got[c]) + (Len(s.out) - s.out_pos), s.closing, nread[c], sent[c])
  BY <1>1, ConnIs
<1> HIDE DEF s, c
<1>4. /\ p \in Seq(Reply) /\ Len(p) = Len(s.out) - s.out_pos
      /\ \A k \in 1..(Len(s.out) - s.out_pos) : p[k] = s.out[s.out_pos + k]
  BY <1>2, PendingIs, Zenon
<1> HIDE DEF p
<1>5. m <= Len(s.out) - s.out_pos
  BY <1>1, <1>4
<1>6. /\ t \in ConnState /\ t.client = c /\ t.closing = s.closing
      /\ Continues(c, t.out, t.out_pos, Len(got[c]) + m)
      /\ (Len(got[c]) + m) + (Len(t.out) - t.out_pos) = Len(got[c]) + (Len(s.out) - s.out_pos)
  BY <1>2, <1>3, <1>5, ConsumeContinues
<1> HIDE DEF t
<1>7. /\ DOMAIN conns' = DOMAIN conns /\ Open' = Open /\ conns'[fd] = t
      /\ \A g \in Open : conns'[g] \in ConnState /\ conns'[g].client = conns[g].client
      /\ \A g \in Open : g # fd => conns'[g] = conns[g] /\ conns[g].client # c
      /\ Owned'
  BY <1>1, <1>6, ReplacedIs, Zenon DEF s, c
<1>8. /\ SubSeq(p, 1, m) \in Seq(Reply) /\ Len(SubSeq(p, 1, m)) = m
      /\ \A k \in 1..m : SubSeq(p, 1, m)[k] = p[k]
  BY <1>1, <1>2, <1>4, PrefixIs
<1>9. ASSUME NEW k \in 1..m PROVE SubSeq(p, 1, m)[k] = <<c, Len(got[c]) + k>>
  <2>1. k \in 1..(Len(s.out) - s.out_pos)
    <3>1. Len(p) \in Nat /\ m <= Len(p)
      BY <1>1, <1>4
    <3>2. k \in 1..Len(p)
      BY <1>2, <3>1
    <3> QED BY <1>4, <3>2, Zenon
  <2> QED BY <1>3, <1>4, <1>8, <2>1, Zenon DEF Continues
<1>10. PICK w \in Seq(Reply) : w = SubSeq(p, 1, m)
  BY <1>8, Zenon
<1>11. /\ got[c] \o w \in Seq(Reply) /\ Len(got[c] \o w) = Len(got[c]) + Len(w)
       /\ \A i \in 1..Len(got[c]) : (got[c] \o w)[i] = got[c][i]
       /\ \A i \in 1..Len(w) : (got[c] \o w)[Len(got[c]) + i] = w[i]
  BY <1>2, ConcatIs
<1>12. /\ got' \in [Clients -> Seq(Reply)] /\ got'[c] = got[c] \o w /\ Len(got'[c]) = Len(got[c]) + m
       /\ \A d \in Clients : d # c => got'[d] = got[d]
  BY <1>1, <1>2, <1>8, <1>10, <1>11, ZenonT(30) DEF IInv, TypeOK
<1>13. TypeOK'
  <2>1. room[c] - m \in 0..SendRoom
    BY <1>1, <1>2
  <2>2. room' \in [Clients -> 0..SendRoom]
    BY <1>1, <1>2, <2>1 DEF IInv, TypeOK
  <2> QED BY <1>1, <1>7, <1>12, <2>2, ZenonT(30) DEF IInv, TypeOK
<1>14. Counted'
  BY <1>1 DEF IInv, Counted
<1>15. Matched'
  BY <1>1, <1>7 DEF IInv, Matched
<1>16. Armed'
  <2>1. touched[1].fd = fd /\ 1 \in 1..Len(touched)
    BY <1>1, TouchedTail
  <2> QED BY <1>1, <1>7, <2>1 DEF IInv, Armed
<1>17. Taken'
  <2> SUFFICES ASSUME NEW d \in Clients
               PROVE  Len(got'[d]) <= safe[d] /\ \A i \in 1..Len(got'[d]) : got'[d][i] = <<d, i>>
    BY <1>1, Zenon DEF Taken
  <2>1. CASE d # c
    BY <1>12, <2>1 DEF IInv, Taken
  <2>2. CASE d = c
    <3>1. safe[c] = nread[c]
      BY <1>1, <1>2 DEF IInv, Counted
    <3>2. Len(got[c]) + (Len(s.out) - s.out_pos) <= nread[c]
      BY <1>2, <1>3 DEF Executes
    <3>3. Len(got[c]) + m <= nread[c]
      <4>1. Len(s.out) - s.out_pos \in Nat
        BY <1>4
      <4> QED BY <1>2, <1>5, <3>2, <4>1
    <3>4. \A i \in 1..Len(got[c]) : got[c][i] = <<c, i>>
      BY <1>2 DEF IInv, Taken
    <3>5. ASSUME NEW i \in 1..(Len(got[c]) + m) PROVE got'[c][i] = <<c, i>>
      <4>1. CASE i <= Len(got[c])
        BY <1>2, <1>11, <1>12, <3>4, <4>1
      <4>2. CASE ~(i <= Len(got[c]))
        <5>1. i - Len(got[c]) \in 1..m /\ Len(got[c]) + (i - Len(got[c])) = i
          BY <1>2, <4>2
        <5>2. w[i - Len(got[c])] = <<c, i>>
          BY <1>9, <1>10, <5>1
        <5>3. got'[c][Len(got[c]) + (i - Len(got[c]))] = w[i - Len(got[c])]
          BY <1>8, <1>10, <1>11, <1>12, <5>1
        <5> QED BY <5>1, <5>2, <5>3
      <4> QED BY <4>1, <4>2
    <3> QED BY <1>12, <2>2, <3>1, <3>3, <3>5, ZenonT(30)
  <2> QED BY <2>1, <2>2
<1>18. InStep'
  <2>1. ASSUME NEW g \in Open, g # fd, NEW d \in Clients, d = conns'[g].client
        PROVE  /\ Continues(d, conns'[g].out, conns'[g].out_pos, Len(got'[d]))
               /\ Executes(Len(got'[d]) + (Len(conns'[g].out) - conns'[g].out_pos),
                           conns'[g].closing, nread'[d], sent'[d])
    <3>1. conns'[g] = conns[g] /\ d = conns[g].client /\ d # c /\ got'[d] = got[d]
      BY <1>7, <1>12, <2>1
    <3> QED BY <1>1, <3>1, ConnIs
  <2>2. /\ Continues(c, conns'[fd].out, conns'[fd].out_pos, Len(got'[c]))
        /\ Executes(Len(got'[c]) + (Len(conns'[fd].out) - conns'[fd].out_pos),
                    conns'[fd].closing, nread'[c], sent'[c])
        /\ conns'[fd].client = c
    BY <1>1, <1>3, <1>6, <1>7, <1>12
  <2>3. \A g \in Open : conns'[g].client \in Clients
    BY <1>7, ConnIs, Zenon
  <2> QED BY <1>7, <2>1, <2>2, <2>3, Zenon DEF InStep
<1> QED BY <1>7, <1>13, <1>14, <1>15, <1>16, <1>17, <1>18, Zenon DEF IInv

\* release closes a connection.
LEMMA ReleaseCloseKeeps ==
  ASSUME IInv, NEW fd \in DOMAIN conns, ReleaseClose(fd)
  PROVE  IInv'
<1>1. /\ fd \in Open /\ close_connection(fd) /\ pc = "release"
      /\ touched # <<>> /\ Head(touched).fd = fd /\ touched' = Tail(touched)
      /\ UNCHANGED <<pc, events, unsynced, shutdown, sent, nread, eof, hup, room, got, safe>>
  BY DEF ReleaseClose, Releasing, Open
<1>2. TypeOK'
  BY <1>1, ClosedIs, TouchedTail, Zenon DEF IInv, TypeOK
<1>3. Counted'
  BY <1>1, ClosedIs, ZenonT(30) DEF IInv, Counted
<1>4. Taken'
  BY <1>1, Zenon DEF IInv, Taken
<1>5. InStep'
  BY <1>1, ClosedIs, ZenonT(30) DEF IInv, InStep
<1>6. Armed'
  <2> SUFFICES ASSUME NEW g \in Open', \A i \in 1..Len(Tail(touched)) : Tail(touched)[i].fd # g
               PROVE  conns'[g].wants_out = (conns'[g].out_pos < Len(conns'[g].out))
    BY <1>1 DEF Armed
  <2>1. g \in Open /\ g # fd /\ conns'[g] = conns[g]
    BY <1>1, ClosedIs
  <2>2. \A i \in 1..Len(touched) : touched[i].fd # g
    BY <1>1, <2>1, TouchedTail
  <2> QED BY <2>1, <2>2 DEF IInv, Armed
<1>7. Matched'
  <2>1. events = <<>> /\ Len(events) = 0
    BY <1>1 DEF IInv, Matched
  <2>2. \A i \in 1..Len(Tail(touched)) : Tail(touched)[i].fd # fd
    BY <1>1, TailApart, Zenon
  <2>3. \A i \in 1..Len(touched') : touched'[i].fd \in Open' /\ conns'[touched'[i].fd].client = touched'[i].client
    <3> SUFFICES ASSUME NEW i \in 1..Len(Tail(touched)), NEW g, g = Tail(touched)[i].fd
                 PROVE  g \in Open' /\ conns'[g].client = Tail(touched)[i].client
      BY <1>1, Zenon
    <3>1. g \in Open /\ g # fd /\ conns[g].client = Tail(touched)[i].client
      <4>1. Matched
        BY Zenon DEF IInv
      <4>2. i + 1 \in 1..Len(touched) /\ Tail(touched)[i] = touched[i + 1]
        BY <1>1, TouchedTail, Zenon
      <4> QED BY <1>1, <2>2, <4>1, <4>2, Zenon DEF Matched
    <3> QED BY <1>1, <3>1, ClosedIs, Zenon
  <2>4. \A i, j \in 1..Len(touched') : i # j => touched'[i].fd # touched'[j].fd
    BY <1>1, TailApart, Zenon
  <2>5. 1..Len(events') = {}
    BY <1>1, <2>1
  <2> QED BY <1>1, <2>1, <2>3, <2>4, <2>5 DEF Matched
<1>8. Owned'
  BY <1>1, ClosedIs
<1> QED BY <1>2, <1>3, <1>4, <1>5, <1>6, <1>7, <1>8 DEF IInv

\* release is done with a connection and sets what epoll watches.
LEMMA ReleaseKeepKeeps ==
  ASSUME IInv, NEW fd \in DOMAIN conns, ReleaseKeep(fd)
  PROVE  IInv' /\ Open' = Open
<1> DEFINE s == conns[fd]
           t == update_interest(s)
<1>1. /\ fd \in Open /\ pc = "release" /\ conns' = [conns EXCEPT ![fd] = t]
      /\ touched # <<>> /\ Head(touched).fd = fd /\ touched' = Tail(touched)
      /\ UNCHANGED <<pc, events, unsynced, shutdown, sock, sent, nread, eof, hup, room, got, safe>>
  BY DEF ReleaseKeep, Releasing, Open, kernel
<1>2. s \in ConnState /\ OutputOK(s)
  BY <1>1, ConnIs
<1>3. has_pending_output(s) <=> s.out_pos < Len(s.out)
  BY <1>2, PendingIs
<1>4. /\ t \in ConnState /\ t.client = s.client /\ t.out = s.out /\ t.out_pos = s.out_pos
      /\ t.closing = s.closing
  BY <1>2, Zenon DEF update_interest, ConnState, has_pending_output
<1>5. t.wants_out = (t.out_pos < Len(t.out))
  <2>1. t.wants_out = has_pending_output(s)
    BY <1>2 DEF update_interest, ConnState
  <2> QED BY <1>3, <1>4, <2>1 DEF has_pending_output
<1> HIDE DEF s, t
<1>6. /\ DOMAIN conns' = DOMAIN conns /\ Open' = Open /\ conns'[fd] = t
      /\ \A g \in Open : conns'[g] \in ConnState /\ conns'[g].client = conns[g].client
      /\ \A g \in Open : g # fd => conns'[g] = conns[g]
      /\ Owned'
  BY <1>1, <1>4, ReplacedIs, ZenonT(30) DEF s
<1>7. \A g \in Open : /\ conns'[g].out = conns[g].out /\ conns'[g].out_pos = conns[g].out_pos
                       /\ conns'[g].closing = conns[g].closing
  BY <1>4, <1>6 DEF s
<1>8. TypeOK'
  BY <1>1, <1>6, TouchedTail DEF IInv, TypeOK
<1>9. Counted' /\ Taken'
  BY <1>1 DEF IInv, Counted, Taken
<1>10. InStep'
  BY <1>1, <1>6, <1>7 DEF IInv, InStep
<1>11. Armed'
  <2> SUFFICES ASSUME NEW g \in Open, \A i \in 1..Len(Tail(touched)) : Tail(touched)[i].fd # g
               PROVE  conns'[g].wants_out = (conns'[g].out_pos < Len(conns'[g].out))
    BY <1>1, <1>6 DEF Armed
  <2>1. CASE g = fd
    BY <1>5, <1>6, <2>1
  <2>2. CASE g # fd
    <3>1. \A i \in 1..Len(touched) : touched[i].fd # g
      BY <1>1, <2>2, TouchedTail
    <3> QED BY <1>6, <2>2, <3>1, Zenon DEF IInv, Armed
  <2> QED BY <2>1, <2>2
<1>12. Matched'
  <2>1. events = <<>> /\ Len(events) = 0
    BY <1>1 DEF IInv, Matched
  <2>2. \A i \in 1..Len(touched') : touched'[i].fd \in Open /\ conns'[touched'[i].fd].client = touched'[i].client
    <3>1. Matched
      BY Zenon DEF IInv
    <3>2. \A i \in 1..Len(Tail(touched)) : i + 1 \in 1..Len(touched) /\ Tail(touched)[i] = touched[i + 1]
      BY <1>1, TouchedTail, Zenon
    <3>3. \A i \in 1..Len(touched) : touched[i].fd \in Open /\ conns[touched[i].fd].client = touched[i].client
      BY <1>1, <3>1, Zenon DEF Matched
    <3> QED BY <1>1, <1>6, <3>2, <3>3
  <2>3. \A i, j \in 1..Len(touched') : i # j => touched'[i].fd # touched'[j].fd
    BY <1>1, TailApart, Zenon
  <2>4. 1..Len(events') = {}
    BY <1>1, <2>1
  <2> QED BY <1>1, <1>6, <2>1, <2>2, <2>3, <2>4 DEF Matched
<1> QED BY <1>6, <1>8, <1>9, <1>10, <1>11, <1>12 DEF IInv

\* A server nobody has connected to.
LEMMA InitOK == Init => IInv
<1> SUFFICES ASSUME Init PROVE IInv
  OBVIOUS
<1>1. PICK limit \in Fds : conns = [fd \in 1..limit |-> Nil]
  BY DEF Init
<1>2. Open = {} /\ DOMAIN conns \subseteq Fds
  <2>1. limit \in Nat /\ limit <= MaxFds /\ MaxFds \in Nat
    BY ServerAssumption DEF Fds
  <2> QED BY <1>1, <2>1 DEF Open, Fds
<1>3. /\ pc = "release" /\ events = <<>> /\ touched = <<>> /\ Len(events) = 0 /\ Len(touched) = 0
      /\ MaxRequests \in Nat /\ SendRoom \in Nat
  BY ServerAssumption DEF Init
<1>4. TypeOK
  <2>1. events \in Seq(Event) /\ touched \in Seq(Touch)
    BY <1>3
  <2>2. sent \in [Clients -> Seq(Request)] /\ got \in [Clients -> Seq(Reply)]
    BY DEF Init
  <2>3. room \in [Clients -> 0..SendRoom] /\ nread \in [Clients -> Nat] /\ safe \in [Clients -> Nat]
    BY <1>3 DEF Init
  <2>4. /\ sock \in [Clients -> {"idle", "queued", "open", "refused", "closed"}]
        /\ eof \in [Clients -> BOOLEAN] /\ hup \in [Clients -> BOOLEAN]
        /\ unsynced \in BOOLEAN /\ shutdown \in BOOLEAN
    BY Zenon DEF Init
  <2> QED BY <1>2, <1>3, <2>1, <2>2, <2>3, <2>4 DEF TypeOK
<1>5. Counted /\ Taken
  BY <1>3 DEF Init, Counted, Taken
<1>6. Owned /\ Armed /\ InStep
  BY <1>2 DEF Owned, Armed, InStep
<1>7. Matched
  BY <1>3 DEF Matched
<1> QED BY <1>4, <1>5, <1>6, <1>7 DEF IInv

\* Every step keeps the invariant.
LEMMA NextKeeps == IInv /\ [Next]_vars => IInv'
<1> SUFFICES ASSUME IInv, [Next]_vars PROVE IInv'
  OBVIOUS
<1>1. ASSUME NEW c \in Clients, NEW r \in Request, Ask(c, r) PROVE IInv'
  BY <1>1, AskKeeps
<1>2. ASSUME NEW c \in Clients, Connect(c) \/ Drain(c) \/ Leave(c) \/ Reset(c) PROVE IInv'
  BY <1>2, ConnectKeeps, DrainKeeps, LeaveKeeps, ResetKeeps
<1>3. ASSUME NEW c \in Clients, AcceptOne(c) \/ AcceptRefused(c) PROVE IInv'
  BY <1>3, AcceptOneKeeps, AcceptRefusedKeeps
<1>4. ASSUME NEW fd \in DOMAIN conns, Serve(fd) PROVE IInv'
  <2>1. ASSUME NEW m \in 1..kReadChunk, ServiceRead(fd, m) PROVE IInv'
    BY <2>1, ServiceReadKeeps
  <2>2. ASSUME NEW m \in 1..SendRoom, SendSome(fd, m) PROVE IInv'
    BY <2>2, SendSomeKeeps
  <2>3. ASSUME ServiceClose(fd) \/ ServiceWritable(fd) \/ ReleaseClose(fd) \/ ReleaseKeep(fd)
        PROVE  IInv'
    BY <2>3, ServiceCloseKeeps, ServiceWritableKeeps, ReleaseCloseKeeps, ReleaseKeepKeeps
  <2> QED BY <1>4, <2>1, <2>2, <2>3 DEF Serve
<1>5. ASSUME EpollWait \/ AcceptDone \/ SyncOk \/ SyncFailed \/ Shutdown \/ on_shutdown_signal
      PROVE  IInv'
  BY <1>5, EpollWaitKeeps, AcceptDoneKeeps, SyncOkKeeps, StopsKeeps, SignalKeeps
     DEF SyncFailed, Shutdown
<1>6. CASE UNCHANGED vars
  <2>1. /\ UNCHANGED <<pc, events, touched, conns, unsynced, shutdown>>
        /\ UNCHANGED <<sock, sent, nread, eof, hup, room, got, safe>>
    BY <1>6 DEF vars, process, kernel
  <2>2. TypeOK' /\ Open' = Open
    BY <2>1 DEF IInv, TypeOK, Open
  <2>3. Counted' /\ Taken'
    BY <2>1, Zenon DEF IInv, Counted, Taken
  <2>4. Owned' /\ Armed'
    BY <2>1, <2>2, Zenon DEF IInv, Owned, Armed
  <2>5. InStep'
    BY <2>1, <2>2, Zenon DEF IInv, InStep
  <2>6. Matched'
    BY <2>1, <2>2, Zenon DEF IInv, Matched
  <2> QED BY <2>2, <2>3, <2>4, <2>5, <2>6, Zenon DEF IInv
<1> QED BY <1>1, <1>2, <1>3, <1>4, <1>5, <1>6 DEF Next, Loop, Outside

-----------------------------------------------------------------------------
(* The theorems *)

\* Replies sent and queued are those of the requests executed.
LEMMA Ordered == IInv => RepliesInOrder
<1> SUFFICES ASSUME IInv, NEW fd \in Open
             PROVE  got[conns[fd].client] \o pending_output(conns[fd])
                      = [i \in 1..Answerable(conns[fd].client) |-> <<conns[fd].client, i>>]
  BY ZenonT(30) DEF RepliesInOrder
<1>1. PICK s \in ConnState, c \in Clients : s = conns[fd] /\ c = s.client
  BY ConnIs
<1>2. /\ OutputOK(s) /\ Continues(c, s.out, s.out_pos, Len(got[c]))
      /\ Executes(Len(got[c]) + (Len(s.out) - s.out_pos), s.closing, nread[c], sent[c])
  BY <1>1, ConnIs, Zenon
<1>3. PICK g \in Seq(Reply), p \in Seq(Reply), d \in Nat, l \in Nat :
        g = got[c] /\ p = pending_output(s) /\ d = Len(p) /\ l = Len(g)
  <2>1. got[c] \in Seq(Reply) /\ Len(got[c]) \in Nat
    BY <1>1 DEF IInv, TypeOK
  <2>2. pending_output(s) \in Seq(Reply)
    BY <1>2, PendingIs, Zenon
  <2>3. Len(pending_output(s)) \in Nat
    BY <2>2
  <2> QED BY <2>1, <2>2, <2>3, Zenon
<1>4. d = Len(s.out) - s.out_pos /\ \A k \in 1..d : p[k] = s.out[s.out_pos + k]
  BY <1>2, <1>3, PendingIs, Zenon
<1>5. \A k \in 1..d : p[k] = <<c, l + k>>
  BY <1>2, <1>3, <1>4, ZenonT(30) DEF Continues
<1>6. \A i \in 1..l : g[i] = <<c, i>>
  BY <1>3 DEF IInv, Taken
<1>7. g \o p = [i \in 1..(l + d) |-> <<c, i>>]
  <2>1. FollowOn(c, g, 0) /\ FollowOn(c, p, Len(g))
    <3>1. \A i \in 1..l : 0 + i = i
      OBVIOUS
    <3>2. FollowOn(c, g, 0)
      BY <1>3, <1>6, <3>1, Zenon DEF FollowOn
    <3> QED BY <1>3, <1>5, <3>2, Zenon DEF FollowOn
  <2>2. g \o p = [i \in 1..(Len(g) + Len(p)) |-> <<c, i>>]
    BY <2>1, JoinIs
  <2> QED BY <1>3, <2>2
<1>8. Answerable(c) = l + d
  <2>1. Executes(l + d, s.closing, nread[c], sent[c])
    BY <1>2, <1>3, <1>4
  <2>2. /\ sent[c] \in Seq(Request) /\ nread[c] \in Nat /\ nread[c] <= Len(sent[c])
        /\ s.closing \in BOOLEAN /\ l + d \in Nat
    <3>1. sent[c] \in Seq(Request) /\ nread[c] \in Nat
      BY DEF IInv, TypeOK
    <3>2. nread[c] <= Len(sent[c])
      BY Zenon DEF IInv, Counted
    <3>3. s.closing \in BOOLEAN /\ l + d \in Nat
      BY DEF ConnState
    <3> QED BY <3>1, <3>2, <3>3, Zenon
  <2> QED BY <2>1, <2>2, AnswerableIs
<1> QED BY <1>1, <1>3, <1>7, <1>8

\* A connection goes only when its client did or has everything.
LEMMA Closing == IInv /\ [Next]_vars =>
  \A fd \in Open : conns'[fd] = Nil /\ pc' # "down" =>
    LET s == conns[fd] IN eof[s.client] \/ hup[s.client] \/ should_close(s)
<1> SUFFICES ASSUME IInv, [Next]_vars, NEW fd \in Open, conns'[fd] = Nil, pc' # "down"
             PROVE  eof[conns[fd].client] \/ hup[conns[fd].client] \/ should_close(conns[fd])
  OBVIOUS
<1>1. fd \notin Open' /\ conns' # conns
  BY DEF Open
<1>2. ~Stops
  BY DEF Stops
<1>3. ASSUME NEW c \in Clients, AcceptOne(c) PROVE FALSE
  BY <1>1, <1>3, AcceptOneKeeps
<1>4. ASSUME NEW g \in DOMAIN conns, NEW m \in 1..kReadChunk, ServiceRead(g, m) PROVE FALSE
  BY <1>1, <1>4, ServiceReadKeeps
<1>5. ASSUME NEW g \in DOMAIN conns, NEW m \in 1..SendRoom, SendSome(g, m) PROVE FALSE
  BY <1>1, <1>5, SendSomeKeeps
<1>6. ASSUME NEW g \in DOMAIN conns, ReleaseKeep(g) PROVE FALSE
  BY <1>1, <1>6, ReleaseKeepKeeps
<1>7. PICK g \in DOMAIN conns : ServiceClose(g) \/ ReleaseClose(g)
  <2>1. ASSUME NEW c \in Clients, Connect(c) \/ Drain(c) \/ Leave(c) \/ Reset(c) \/ AcceptRefused(c)
        PROVE  conns' = conns
    BY <2>1 DEF Connect, Drain, Leave, Reset, AcceptRefused, process
  <2>2. ASSUME NEW c \in Clients, NEW r \in Request, Ask(c, r) PROVE conns' = conns
    BY <2>2, Zenon DEF Ask, process
  <2>3. ASSUME EpollWait \/ AcceptDone \/ SyncOk \/ on_shutdown_signal \/ UNCHANGED vars
        PROVE  conns' = conns
    BY <2>3 DEF EpollWait, AcceptDone, SyncOk, on_shutdown_signal, vars, process
  <2>4. ASSUME NEW g \in DOMAIN conns, ServiceWritable(g) PROVE conns' = conns
    BY <2>4 DEF ServiceWritable
  <2>5. ~SyncFailed /\ ~Shutdown
    BY <1>2 DEF SyncFailed, Shutdown
  <2> QED BY <1>1, <1>3, <1>4, <1>5, <1>6, <2>1, <2>2, <2>3, <2>4, <2>5
          DEF Next, Loop, Outside, Serve
<1>8. g = fd /\ fd \in DOMAIN conns
  <2>1. close_connection(g)
    BY <1>7, ZenonT(30) DEF ServiceClose, ReleaseClose
  <2> QED BY <1>1, <2>1 DEF close_connection, Open
<1>9. CASE ServiceClose(fd)
  <2>1. /\ events # <<>> /\ Head(events).fd = fd /\ pc = "service"
        /\ Head(events).hup \/ eof[conns[fd].client] \/ hup[conns[fd].client]
    BY <1>9 DEF ServiceClose, Servicing
  <2>2. fd # Listener
    BY ConnIs
  <2>3. Head(events).hup => hup[conns[fd].client]
    <3>1. Matched
      BY Zenon DEF IInv
    <3>2. Head(events) = events[1] /\ 1 \in 1..Len(events)
      BY <2>1, BatchTail
    <3> QED BY <2>1, <2>2, <3>1, <3>2 DEF Matched
  <2> QED BY <2>1, <2>3, Zenon
<1>10. CASE ReleaseClose(fd)
  BY <1>10, Zenon DEF ReleaseClose
<1> QED BY <1>7, <1>8, <1>9, <1>10

\* The invariant holds in every state of the server.
THEOREM Invariant == FairSpec => []IInv
BY InitOK, NextKeeps, PTL DEF FairSpec

\* Every variable keeps its type, for any number of clients and descriptors.
THEOREM ServerTypeCorrect == FairSpec => []TypeOK
<1>1. IInv => TypeOK
  BY DEF IInv
<1> QED BY <1>1, Invariant, PTL

\* Server::run never lets the kernel take the reply to a write that no fsync
\* of the log covers.
THEOREM ServerAcksAfterSync == FairSpec => []AckAfterSync
<1>1. IInv => AckAfterSync
  <2> SUFFICES ASSUME IInv, NEW c \in Clients, NEW i \in 1..Len(got[c])
               PROVE  got[c][i][2] <= safe[c]
    BY DEF AckAfterSync
  <2>1. got[c][i][2] = i /\ Len(got[c]) <= safe[c]
    BY DEF IInv, Taken
  <2>2. i <= Len(got[c]) /\ Len(got[c]) \in Nat /\ safe[c] \in Nat
    BY DEF IInv, TypeOK
  <2> QED BY <2>1, <2>2
<1> QED BY <1>1, Invariant, PTL

\* A client is sent exactly one reply per request executed, its own, in order:
\* on_bytes, consume_output and the partial sends of release lose, repeat and
\* misdirect nothing.
THEOREM ServerRepliesInOrder == FairSpec => []RepliesInOrder
BY Ordered, Invariant, PTL

\* At epoll_wait exactly the connections with output ask for EPOLLOUT.
THEOREM ServerArmsPending == FairSpec => []PendingIsArmed
<1>1. IInv => PendingIsArmed
  <2> SUFFICES ASSUME IInv, AtWait, NEW fd \in Open
               PROVE  conns[fd].wants_out = has_pending_output(conns[fd])
    BY DEF PendingIsArmed
  <2>1. conns[fd].wants_out = (conns[fd].out_pos < Len(conns[fd].out))
    <3>1. \A i \in 1..Len(touched) : touched[i].fd # fd
      BY DEF AtWait
    <3> QED BY <3>1 DEF IInv, Armed
  <2>2. has_pending_output(conns[fd]) <=> conns[fd].out_pos < Len(conns[fd].out)
    BY ConnIs, PendingIs, Zenon
  <2>3. has_pending_output(conns[fd]) = (conns[fd].out_pos < Len(conns[fd].out))
    BY <2>2 DEF has_pending_output
  <2> QED BY <2>1, <2>3, Zenon
<1> QED BY <1>1, Invariant, PTL

\* No event of a batch and no held reply is ever taken for another connection
\* that was given the same descriptor.
THEOREM ServerEventsReachTheirOwner == FairSpec => []EventsReachTheirOwner
<1>1. IInv => EventsReachTheirOwner
  BY Zenon DEF IInv, Matched, EventsReachTheirOwner, Open
<1> QED BY <1>1, Invariant, PTL

\* service and release close a connection only if its client went away or has
\* been sent everything, the explanation of its error included.
THEOREM ServerClosesPolitely == FairSpec => ClosesPolitely
BY Closing, Invariant, PTL DEF FairSpec, ClosesPolitely

=============================================================================
