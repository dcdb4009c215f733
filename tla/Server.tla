------------------------------- MODULE Server -------------------------------
(***************************************************************************)
(* The event loop of server.cpp with the output half of connection.cpp:    *)
(* accepting, one read per ready socket, the group-commit fsync, releasing *)
(* the held replies through partial writes, epoll interest and closing.    *)
(* The kernel and the clients act between any two steps of the loop.  A    *)
(* request is whole here (Resp.tla cuts it into bytes) and its reply is    *)
(* one unit of output; units go out in any grouping, as bytes do.          *)
(***************************************************************************)
EXTENDS Integers, Sequences, FiniteSets, FiniteSetsExt

CONSTANTS
  Clients,           \* each connects once
  MaxFds,            \* bound: descriptors the process may have for clients
  Nil,               \* no connection
  Request,           \* kinds of request: "write", "read", "bad" (framing lost)
  kReadChunk,        \* requests one read may return
  kCompactThreshold, \* units of written prefix worth erasing
  SendRoom,          \* units the kernel's send buffer holds
  MaxRequests,       \* bound: requests of one client
  MaxSent,           \* bound: requests of all clients
  MaxGone            \* bound: clients that leave or are reset

ASSUME ServerAssumption ==
  /\ MaxFds \in Nat \ {0}
  /\ Nil \notin Clients /\ Request \subseteq {"write", "read", "bad"}
  /\ kReadChunk \in Nat \ {0} /\ kCompactThreshold \in Nat \ {0}
  /\ SendRoom \in Nat \ {0}
  /\ MaxRequests \in Nat /\ MaxSent \in Nat /\ MaxGone \in Nat

VARIABLES
  pc,        \* where Server::run is
  events,    \* the batch epoll_wait returned, what is left of it
  touched,   \* touched: connections whose replies are held
  conns,     \* conns_, with the connection's output half; the domain is the
             \* descriptors the process may have, fixed when it starts
  unsynced,  \* wal_.needs_sync(), under the policy always
  shutdown,  \* g_shutdown
  sock,      \* kernel: how far each client's socket has come
  sent,      \* the requests each client has sent
  nread,     \* how many of them the server has read
  eof,       \* the client will send no more
  hup,       \* the socket is dead: reset, or closed at both ends
  room,      \* units the send buffer has room for
  got,       \* history: the replies the kernel took for each client, in order
  safe       \* history: how many requests had been read when the log was last whole on disk

process == <<pc, events, touched, conns, unsynced, shutdown>>
kernel  == <<sock, sent, nread, eof, hup, room>>
vars    == <<process, kernel, got, safe>>

Listener == 0
Fds == 1..MaxFds

Reply == Clients \X (1..MaxRequests)

\* client is history: whose socket the descriptor is.
ConnState == [client : Clients, out : Seq(Reply), out_pos : Nat,
              closing : BOOLEAN, wants_out : BOOLEAN]

\* client is history: whose socket the event was reported for.
Event == [fd : Fds \cup {Listener}, client : Clients \cup {Nil},
          in : BOOLEAN, hup : BOOLEAN]

Touch == [fd : Fds, client : Clients]

ASSUME NilAssumption == Nil \notin ConnState

NewConnection(c) ==
  [client |-> c, out |-> <<>>, out_pos |-> 0, closing |-> FALSE, wants_out |-> FALSE]

Open == {fd \in DOMAIN conns : conns[fd] # Nil}

Unread(c) == SubSeq(sent[c], nread[c] + 1, Len(sent[c]))

pending_output(s) == SubSeq(s.out, s.out_pos + 1, Len(s.out))

has_pending_output(s) == pending_output(s) # <<>>

should_close(s) == s.closing /\ ~has_pending_output(s)

\* Every variable keeps its type.
TypeOK ==
  /\ pc \in {"service", "release", "down"}
  /\ events \in Seq(Event)
  /\ touched \in Seq(Touch)
  /\ DOMAIN conns \subseteq Fds /\ \A fd \in Open : conns[fd] \in ConnState
  /\ unsynced \in BOOLEAN /\ shutdown \in BOOLEAN
  /\ sock \in [Clients -> {"idle", "queued", "open", "refused", "closed"}]
  /\ sent \in [Clients -> Seq(Request)]
  /\ nread \in [Clients -> Nat]
  /\ eof \in [Clients -> BOOLEAN] /\ hup \in [Clients -> BOOLEAN]
  /\ room \in [Clients -> 0..SendRoom]
  /\ got \in [Clients -> Seq(Reply)]
  /\ safe \in [Clients -> Nat]

Init ==
  /\ pc = "release" /\ events = <<>> /\ touched = <<>>
  /\ \E limit \in Fds : conns = [fd \in 1..limit |-> Nil]
  /\ unsynced = FALSE /\ shutdown = FALSE
  /\ sock = [c \in Clients |-> "idle"]
  /\ sent = [c \in Clients |-> <<>>]
  /\ nread = [c \in Clients |-> 0]
  /\ eof = [c \in Clients |-> FALSE] /\ hup = [c \in Clients |-> FALSE]
  /\ room = [c \in Clients |-> SendRoom]
  /\ got = [c \in Clients |-> <<>>]
  /\ safe = [c \in Clients |-> 0]

-----------------------------------------------------------------------------
(* Clients and the kernel *)

Connect(c) ==
  /\ pc # "down"
  /\ sock[c] = "idle"
  /\ sock' = [sock EXCEPT ![c] = "queued"]
  /\ UNCHANGED <<process, sent, nread, eof, hup, room, got, safe>>

TotalSent == FoldFunction(LAMBDA s, n : Len(s) + n, 0, sent)

Ask(c, r) ==
  /\ sock[c] \in {"queued", "open"} /\ ~eof[c] /\ ~hup[c]
  /\ Len(sent[c]) < MaxRequests
  /\ TotalSent < MaxSent
  /\ sent' = [sent EXCEPT ![c] = Append(@, r)]
  /\ UNCHANGED <<process, sock, nread, eof, hup, room, got, safe>>

\* The client takes what has arrived, which empties the send buffer.
Drain(c) ==
  /\ ~hup[c] /\ room[c] < SendRoom
  /\ room' = [room EXCEPT ![c] = SendRoom]
  /\ UNCHANGED <<process, sock, sent, nread, eof, hup, got, safe>>

MayGo == Cardinality({c \in Clients : eof[c]}) + Cardinality({c \in Clients : hup[c]}) < MaxGone

\* The client closes its sending half, or all of its socket.
Leave(c) ==
  /\ sock[c] \in {"queued", "open"} /\ ~eof[c] /\ MayGo
  /\ eof' = [eof EXCEPT ![c] = TRUE]
  /\ UNCHANGED <<process, sock, sent, nread, hup, room, got, safe>>

\* A reset also discards what had not been read.
Reset(c) ==
  /\ sock[c] \in {"queued", "open"} /\ ~hup[c] /\ MayGo
  /\ hup' = [hup EXCEPT ![c] = TRUE]
  /\ sent' = [sent EXCEPT ![c] = SubSeq(@, 1, nread[c])]
  /\ UNCHANGED <<process, sock, nread, eof, room, got, safe>>

on_shutdown_signal ==
  /\ pc # "down" /\ ~shutdown
  /\ shutdown' = TRUE
  /\ UNCHANGED <<pc, events, touched, conns, unsynced, kernel, got, safe>>

-----------------------------------------------------------------------------
(* Server::run *)

\* Between two iterations.
AtWait == pc = "release" /\ touched = <<>>

Readable(c) == Unread(c) # <<>> \/ eof[c] \/ hup[c]

EventOf(fd) ==
  LET c == conns[fd].client
  IN  [fd |-> fd, client |-> c, in |-> Readable(c), hup |-> hup[c]]

Ready ==
  {EventOf(fd) : fd \in {f \in Open : LET c == conns[f].client IN
                           Readable(c) \/ (conns[f].wants_out /\ room[c] > 0)}}
  \cup {[fd |-> Listener, client |-> Nil, in |-> TRUE, hup |-> FALSE] :
          c \in {d \in Clients : sock[d] = "queued"}}

EpollWaitUnchecked ==
  /\ AtWait
  /\ events' \in Injection(1..Cardinality(Ready), Ready)
  /\ touched' = <<>>
  /\ pc' = "service"
  /\ UNCHANGED <<conns, unsynced, shutdown, kernel, got, safe>>

\* The top of the loop.  Everything ready is reported once, in no particular
\* order; nothing is on the timeout.  Before it came the sweep, the merge and
\* maybe_sync, which Store.tla models.
EpollWait ==
  /\ AtWait /\ ~shutdown
  /\ events' \in Injection(1..Cardinality(Ready), Ready)
  /\ touched' = <<>>
  /\ pc' = "service"
  /\ UNCHANGED <<conns, unsynced, shutdown, kernel, got, safe>>

Queued == {c \in Clients : sock[c] = "queued"}
Free   == DOMAIN conns \ Open

AcceptOne(c) ==
  /\ pc = "service" /\ events # <<>> /\ Head(events).fd = Listener
  /\ c \in Queued /\ Free # {}
  /\ conns' = [conns EXCEPT ![Min(Free)] = NewConnection(c)]
  /\ sock' = [sock EXCEPT ![c] = "open"]
  /\ UNCHANGED <<pc, events, touched, unsynced, shutdown,
                 sent, nread, eof, hup, room, got, safe>>

\* epoll_ctl could not add the socket, which closes it.
AcceptRefused(c) ==
  /\ pc = "service" /\ events # <<>> /\ Head(events).fd = Listener
  /\ c \in Queued /\ Free # {}
  /\ sock' = [sock EXCEPT ![c] = "refused"]
  /\ UNCHANGED <<process, sent, nread, eof, hup, room, got, safe>>

AcceptDoneAtOnce ==
  /\ pc = "service" /\ events # <<>> /\ Head(events).fd = Listener
  /\ events' = Tail(events)
  /\ UNCHANGED <<pc, touched, conns, unsynced, shutdown, kernel, got, safe>>

\* The queue is empty, or there is no descriptor left.
AcceptDone ==
  /\ pc = "service" /\ events # <<>> /\ Head(events).fd = Listener
  /\ Queued = {} \/ Free = {}
  /\ events' = Tail(events)
  /\ UNCHANGED <<pc, touched, conns, unsynced, shutdown, kernel, got, safe>>

\* Also destroys the Fd, which takes the socket out of the epoll set.
close_connection(fd) ==
  /\ conns' = [conns EXCEPT ![fd] = Nil]
  /\ sock' = [sock EXCEPT ![conns[fd].client] = "closed"]

Servicing(fd) ==
  /\ pc = "service" /\ events # <<>> /\ Head(events).fd = fd
  /\ conns[fd] # Nil
  /\ events' = Tail(events)

Touching(fd) == touched' = Append(touched, [fd |-> fd, client |-> conns[fd].client])

ServiceCloseTouched(fd) ==
  /\ Servicing(fd)
  /\ LET c == conns[fd].client
     IN  Head(events).hup \/ (Head(events).in /\ Unread(c) = <<>> /\ (eof[c] \/ hup[c]))
  /\ close_connection(fd)
  /\ Touching(fd)
  /\ UNCHANGED <<pc, unsynced, shutdown, sent, nread, eof, hup, room, got, safe>>

\* The batch said the socket was finished, or the read finds the end of the
\* stream or an error: nothing is left to do for this client.
ServiceClose(fd) ==
  /\ Servicing(fd)
  /\ LET c == conns[fd].client
     IN  Head(events).hup \/ (Head(events).in /\ Unread(c) = <<>> /\ (eof[c] \/ hup[c]))
  /\ close_connection(fd)
  /\ UNCHANGED <<pc, touched, unsynced, shutdown, sent, nread, eof, hup, room, got, safe>>

\* The first request that loses the framing, 0 if none does.
FirstBad(asked) ==
  LET bad == {i \in 1..Len(asked) : asked[i] = "bad"}
  IN  IF bad = {} THEN 0 ELSE Min(bad)

\* What on_bytes executes of the requests it is handed: all up to the first
\* that loses the framing, which is answered and ends the connection.
Executed(s, asked) ==
  IF s.closing THEN <<>>
  ELSE IF FirstBad(asked) = 0 THEN asked ELSE SubSeq(asked, 1, FirstBad(asked))

on_bytes(s, asked, first) ==
  LET run == Executed(s, asked)
  IN  [s EXCEPT !.out = @ \o [i \in 1..Len(run) |-> <<s.client, first + i - 1>>],
                !.closing = @ \/ "bad" \in Range(run)]

\* One read, of at most kReadChunk, whatever more is waiting; its commands
\* are executed and their replies held.
ServiceRead(fd, n) ==
  /\ Servicing(fd) /\ ~Head(events).hup /\ Head(events).in
  /\ LET s == conns[fd]
         c == s.client
         asked == SubSeq(Unread(c), 1, n)
     IN  /\ n \in 1..Len(Unread(c))
         /\ conns' = [conns EXCEPT ![fd] = on_bytes(s, asked, nread[c] + 1)]
         /\ nread' = [nread EXCEPT ![c] = @ + n]
         /\ unsynced' = (unsynced \/ "write" \in Range(Executed(s, asked)))
  /\ Touching(fd)
  /\ UNCHANGED <<pc, shutdown, sock, sent, eof, hup, room, got, safe>>

\* Only room to write was reported.
ServiceWritable(fd) ==
  /\ Servicing(fd) /\ ~Head(events).hup /\ ~Head(events).in
  /\ Touching(fd)
  /\ UNCHANGED <<pc, conns, unsynced, shutdown, kernel, got, safe>>

BatchDone == pc = "service" /\ events = <<>>

SyncLeftToTheTick ==
  /\ BatchDone
  /\ pc' = "release"
  /\ UNCHANGED <<events, touched, conns, unsynced, shutdown, kernel, got, safe>>

\* One fsync for the whole batch, if it wrote anything.
SyncOk ==
  /\ BatchDone
  /\ unsynced' = FALSE
  /\ safe' = nread
  /\ pc' = "release"
  /\ UNCHANGED <<events, touched, conns, shutdown, kernel, got>>

\* run() returns and the connections are destroyed with the Server.
Stops ==
  /\ pc' = "down"
  /\ conns' = [fd \in DOMAIN conns |-> Nil]
  /\ sock' = [c \in Clients |-> IF sock[c] = "open" THEN "closed" ELSE sock[c]]
  /\ UNCHANGED <<events, touched, unsynced, shutdown,
                 sent, nread, eof, hup, room, got, safe>>

SyncFailed == BatchDone /\ unsynced /\ Stops

Shutdown == AtWait /\ shutdown /\ Stops

-----------------------------------------------------------------------------
(* Server::release *)

Releasing(fd) ==
  pc = "release" /\ touched # <<>> /\ Head(touched).fd = fd /\ conns[fd] # Nil

ConsumeKeepingOffset(s, n) ==
  LET pos == s.out_pos + n
  IN  IF pos = Len(s.out) THEN [s EXCEPT !.out = <<>>, !.out_pos = 0]
      ELSE IF pos >= kCompactThreshold /\ pos * 2 >= Len(s.out)
      THEN [s EXCEPT !.out = SubSeq(@, pos + 1, Len(@)), !.out_pos = n]
      ELSE [s EXCEPT !.out_pos = pos]

\* The written prefix is skipped by an offset, and erased once it is both
\* sizeable and most of the buffer.
consume_output(s, n) ==
  LET pos == s.out_pos + n
  IN  IF pos = Len(s.out) THEN [s EXCEPT !.out = <<>>, !.out_pos = 0]
      ELSE IF pos >= kCompactThreshold /\ pos * 2 >= Len(s.out)
      THEN [s EXCEPT !.out = SubSeq(@, pos + 1, Len(@)), !.out_pos = 0]
      ELSE [s EXCEPT !.out_pos = pos]

\* One send: the kernel takes some of what it is offered.
SendSome(fd, n) ==
  /\ Releasing(fd)
  /\ LET s == conns[fd]
         c == s.client
     IN  /\ ~hup[c]
         /\ n <= room[c] /\ n <= Len(pending_output(s))
         /\ conns' = [conns EXCEPT ![fd] = consume_output(s, n)]
         /\ got' = [got EXCEPT ![c] = @ \o SubSeq(pending_output(s), 1, n)]
         /\ room' = [room EXCEPT ![c] = @ - n]
  /\ UNCHANGED <<pc, events, touched, unsynced, shutdown,
                 sock, sent, nread, eof, hup, safe>>

CloseWhenClosing(fd) ==
  /\ Releasing(fd)
  /\ conns[fd].closing
  /\ close_connection(fd)
  /\ touched' = Tail(touched)
  /\ UNCHANGED <<pc, events, unsynced, shutdown, sent, nread, eof, hup, room, got, safe>>

\* A send failed, or the explanation of a protocol error has gone out.
ReleaseClose(fd) ==
  /\ Releasing(fd)
  /\ \/ has_pending_output(conns[fd]) /\ hup[conns[fd].client]
     \/ should_close(conns[fd])
  /\ close_connection(fd)
  /\ touched' = Tail(touched)
  /\ UNCHANGED <<pc, events, unsynced, shutdown, sent, nread, eof, hup, room, got, safe>>

InterestUnchanged(s) == s

update_interest(s) == [s EXCEPT !.wants_out = has_pending_output(s)]

\* Everything went out, or the send buffer is full: interest is re-armed.
ReleaseKeep(fd) ==
  /\ Releasing(fd)
  /\ LET s == conns[fd]
     IN  /\ ~has_pending_output(s) \/ (room[s.client] = 0 /\ ~hup[s.client])
         /\ ~should_close(s)
         /\ conns' = [conns EXCEPT ![fd] = update_interest(s)]
  /\ touched' = Tail(touched)
  /\ UNCHANGED <<pc, events, unsynced, shutdown, kernel, got, safe>>

-----------------------------------------------------------------------------

Serve(fd) ==
  \/ ServiceClose(fd)
  \/ \E n \in 1..kReadChunk : ServiceRead(fd, n)
  \/ ServiceWritable(fd)
  \/ \E n \in 1..SendRoom : SendSome(fd, n)
  \/ ReleaseClose(fd)
  \/ ReleaseKeep(fd)

Loop ==
  \/ EpollWait \/ AcceptDone \/ SyncOk \/ SyncFailed \/ Shutdown
  \/ \E c \in Clients : AcceptOne(c) \/ AcceptRefused(c)
  \/ \E fd \in DOMAIN conns : Serve(fd)

Outside ==
  \/ \E c \in Clients :
       \/ Connect(c) \/ Drain(c) \/ Leave(c) \/ Reset(c)
       \/ \E r \in Request : Ask(c, r)
  \/ on_shutdown_signal

Next == Loop \/ Outside

\* The thread keeps running (epoll_wait has a timeout and no call of the loop
\* blocks), and a client that stays reads what it is sent.
FairSpec ==
  Init /\ [][Next]_vars /\ WF_vars(Loop) /\ \A c \in Clients : WF_vars(Drain(c))

-----------------------------------------------------------------------------
(* Properties *)

\* A reply to a write reaches the socket only after an fsync of the log that
\* covers the write, whichever iteration executed it and whatever was still
\* queued before it (Server::run holds every reply of a batch).
AckAfterSync ==
  \A c \in Clients : \A i \in 1..Len(got[c]) :
    sent[c][got[c][i][2]] = "write" => got[c][i][2] <= safe[c]

\* The requests of c that were executed: those read, up to one that lost the
\* framing.
Answerable(c) ==
  LET bad == FirstBad(SubSeq(sent[c], 1, nread[c]))
  IN  IF bad = 0 THEN nread[c] ELSE bad

\* What a client was sent and what is queued for it are together exactly one
\* reply per request executed, its own, in order: partial writes, the offset
\* into out_ and its compaction neither lose, repeat nor misdirect a byte.
RepliesInOrder ==
  \A fd \in Open :
    LET s == conns[fd] IN
    got[s.client] \o pending_output(s) = [i \in 1..Answerable(s.client) |-> <<s.client, i>>]

\* When the loop goes back to epoll_wait, EPOLLOUT is asked for by exactly the
\* connections with output queued: no reply is stranded in a buffer, and no
\* idle socket wakes the loop for ever (update_interest).
PendingIsArmed ==
  AtWait => \A fd \in Open : conns[fd].wants_out = has_pending_output(conns[fd])

\* A descriptor closed and given to a new client within one iteration is never
\* taken for the old one: each event left in the batch, and each held reply,
\* still belongs to the connection it was noted for (service and release find
\* connections by number).
EventsReachTheirOwner ==
  pc # "down" =>
    /\ \A i \in 1..Len(events) : events[i].fd # Listener =>
         conns[events[i].fd] # Nil /\ conns[events[i].fd].client = events[i].client
    /\ \A i \in 1..Len(touched) :
         conns[touched[i].fd] # Nil /\ conns[touched[i].fd].client = touched[i].client

\* The server hangs up on a client only if the client went away, or after
\* everything queued for it, the explanation of its error included, was taken
\* by the kernel (release and should_close).
ClosesPolitely ==
  [][\A fd \in Open : conns'[fd] = Nil /\ pc' # "down" =>
       LET s == conns[fd] IN eof[s.client] \/ hup[s.client] \/ should_close(s)]_vars

\* A connected client that keeps reading and stays is answered every request
\* it made before an erroneous one, and that one too, however slowly the
\* kernel takes the replies.
EveryRequestAnswered ==
  \A c \in Clients : \A i \in 1..MaxRequests :
    (sock[c] = "open" /\ Len(sent[c]) >= i /\ \A j \in 1..(i - 1) : sent[c][j] # "bad")
      ~> (Len(got[c]) >= i \/ eof[c] \/ hup[c] \/ pc = "down")

\* A client does not stay in the listen queue: it is accepted, turned away
\* because epoll refuses its descriptor, or leaves, unless descriptors have run
\* out or the server stops (accept_ready drains the queue).
EveryClientAccepted ==
  \A c \in Clients :
    sock[c] = "queued" ~> (sock[c] # "queued" \/ Free = {} \/ pc = "down")

\* Once the signal's flag is set the loop ends, whatever the clients do.
ShutdownStops == shutdown ~> pc = "down"

=============================================================================
