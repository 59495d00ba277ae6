----------------------------- MODULE PushServer -----------------------------
(***************************************************************************)
(* sm_push: one thread, an epoll loop over the listening socket, a one     *)
(* second timer, a signalfd and the client connections.  Clients send      *)
(* request lines; each is answered by a reply line; the server adds pings  *)
(* and a final bye.                                                        *)
(*                                                                         *)
(* A handler runs without interruption: what a client does while it runs   *)
(* could as well have happened before it.  Between two handlers of a batch *)
(* the clients, the clock and the kernel do move, and the events still in  *)
(* the batch go stale.                                                     *)
(*                                                                         *)
(* The byte stream of a client is a sequence of pieces; a piece with       *)
(* kind "part" holds no newline, any other one ends a line.  Buffer sizes  *)
(* count pieces and reply lines instead of bytes.                          *)
(***************************************************************************)
EXTENDS Integers, Sequences, FiniteSets, Messages

CONSTANTS
    Peers,         \* clients; each connects at most once
    Fds,           \* descriptors the process may use for connections
    Kinds,         \* kinds of pieces the clients send
    MaxSend,       \* bound: pieces a client sends
    MaxEvents,     \* size of evs, 64 in the code
    MaxLine,       \* kMaxLine
    MaxOutBuf,     \* kMaxOutBuf
    SndBuf,        \* capacity of a socket's send buffer in the kernel
    HelloTimeout,  \* kHelloTimeout
    PingInterval,  \* kPingInterval
    MaxNow         \* bound: the clock stops here

ASSUME ServerAssumption ==
    /\ Fds \subseteq Nat /\ IsFiniteSet(Fds)
    /\ Kinds \subseteq {"part", "blank", "hello", "query", "bad"}
    /\ MaxSend \in Nat /\ MaxNow \in Nat /\ MaxEvents \in Nat \ {0}
    /\ MaxLine \in Nat \ {0} /\ MaxOutBuf \in Nat /\ SndBuf \in Nat \ {0}
    /\ HelloTimeout \in Nat /\ PingInterval \in Nat \ {0}

VARIABLES
    now,      \* time(nullptr)
    running,  \* the process exists
    stop,     \* stop_
    conns,    \* conns_: from open descriptors to peers
    batch,    \* events of the last epoll_wait not handled yet
    expired,  \* the timerfd is readable
    sig,      \* the signalfd is readable
    backlog,  \* connections the kernel completed, to be accepted
    sock      \* per peer: Conn, and both directions of its TCP connection

vars == <<now, running, stop, conns, batch, expired, sig, backlog, sock>>

None == [type |-> "none"]

Piece == [kind : Kinds, n : 1 .. MaxSend]

\* A reply names the line it answers by its first and last piece (the id).
Reply == [type : {"hello", "data", "error"}, first : 1 .. MaxSend, id : 1 .. MaxSend]
Ping  == [type |-> "ping"]
Bye   == [type |-> "bye"]
Message == Reply \cup {Ping, Bye}

Socket == [phase     : {"new", "backlog", "open", "closed"},
           why       : {"", "hup", "timeout", "line too long", "peer closed",
                        "recv error", "send error", "exit"},
           sent      : Seq(Piece),     \* history: all the client sent
           rcvq      : Seq(Piece),     \* of that, what the server has not read
           fin       : BOOLEAN,        \* the client closed its side
           rst       : BOOLEAN,        \* the connection was reset
           in        : Seq(Piece),     \* Conn::in
           out       : Seq(Message),   \* Conn::out
           sndq      : Seq(Message),   \* in the kernel, not read by the client
           got       : Seq(Message),   \* history: read by the client
           hello     : BOOLEAN,
           opened_at : Nat,
           last_ping : Nat,
           pollout   : BOOLEAN]        \* EPOLLOUT is on

NewSocket == [phase |-> "new", why |-> "", sent |-> <<>>, rcvq |-> <<>>,
              fin |-> FALSE, rst |-> FALSE, in |-> <<>>, out |-> <<>>,
              sndq |-> <<>>, got |-> <<>>, hello |-> FALSE,
              opened_at |-> 0, last_ping |-> 0, pollout |-> FALSE]

Init ==
    /\ now = 0
    /\ running = TRUE
    /\ stop = FALSE
    /\ conns = <<>>
    /\ batch = {}
    /\ expired = FALSE
    /\ sig = FALSE
    /\ backlog = <<>>
    /\ sock = [p \in Peers |-> NewSocket]

-----------------------------------------------------------------------------
(* Lines and replies *)

EndsLine(piece) == piece.kind # "part"

\* Where the last complete line of q ends, 0 if there is none.
LastEnd(q) ==
    CHOOSE i \in 0 .. Len(q) : /\ i = 0 \/ EndsLine(q[i])
                               /\ \A j \in i + 1 .. Len(q) : ~EndsLine(q[j])

Unfinished(q) == SubSeq(q, LastEnd(q) + 1, Len(q))

\* Mistake: the reply echoes the type of the request.
ReplyEchoing(q, i) ==
    IF ~EndsLine(q[i])
    THEN None
    ELSE [type |-> q[i].kind, first |-> q[LastEnd(SubSeq(q, 1, i - 1)) + 1].n, id |-> q[i].n]

\* handle_line, as the reply to the line that piece i ends; an empty line
\* has none, and a line is bad_json if its last piece alone would be blank.
ReplyAt(q, i) ==
    LET s == LastEnd(SubSeq(q, 1, i - 1)) + 1
        type == CASE q[i].kind = "hello" -> "hello"
                  [] q[i].kind = "query" -> "data"
                  [] OTHER -> "error"
    IN  IF ~EndsLine(q[i]) \/ (q[i].kind = "blank" /\ s = i)
        THEN None
        ELSE [type |-> type, first |-> q[s].n, id |-> q[i].n]

\* The replies among the messages ms, in order.
RepliesIn(ms) == Without(ms, {None, Ping, Bye})

\* The replies to the complete lines of q, in order.
Replies(q) == RepliesIn([i \in 1 .. Len(q) |-> ReplyAt(q, i)])

Has(q, kind) == \E i \in 1 .. Len(q) : q[i].kind = kind

-----------------------------------------------------------------------------
(* Conn operations *)

\* flush: sends what the kernel takes; EPOLLOUT is on while something is left.
Room(s) == SndBuf - Len(s.sndq)

\* Mistake: no limit on what waits for the client.
FlushUnlimited(s) == s.out = <<>> \/ ~s.rst

FlushOK(s) ==
    s.out = <<>> \/ (~s.rst /\ Len(s.out) - Room(s) =< MaxOutBuf)

\* Mistake: EPOLLOUT is not turned on for the rest.
FlushOnce(s) ==
    LET sent == IF s.rst THEN 0 ELSE IF Len(s.out) < Room(s) THEN Len(s.out) ELSE Room(s)
    IN  [s EXCEPT !.sndq = @ \o SubSeq(s.out, 1, sent),
                  !.out = SubSeq(s.out, sent + 1, Len(s.out))]

Flush(s) ==
    LET sent == IF s.rst THEN 0 ELSE IF Len(s.out) < Room(s) THEN Len(s.out) ELSE Room(s)
    IN  [s EXCEPT !.sndq = @ \o SubSeq(s.out, 1, sent),
                  !.out = SubSeq(s.out, sent + 1, Len(s.out)),
                  !.pollout = sent < Len(s.out)]

\* close_conn's effect on the connection; the client still gets what is in
\* the kernel.
Closed(s, why) ==
    [s EXCEPT !.phase = "closed", !.why = why, !.rcvq = <<>>, !.in = <<>>,
              !.out = <<>>, !.pollout = FALSE]

FlushOrClose(s, why) == IF FlushOK(s) THEN Flush(s) ELSE Closed(Flush(s), why)

Open == DOMAIN conns

\* conns_ after some sockets were closed.
StillOpen(socks) ==
    [fd \in {f \in Open : socks[conns[f]].phase = "open"} |-> conns[fd]]

-----------------------------------------------------------------------------
(* The epoll loop *)

Listen == [src |-> "listen"]
Timer  == [src |-> "timer"]
Signal == [src |-> "signal"]

\* What epoll_wait reports for a connection.
Events(s) ==
       (IF s.rcvq # <<>> \/ s.fin \/ s.rst THEN {"in"} ELSE {})
    \cup (IF s.rst THEN {"hup"} ELSE {})
    \cup (IF s.pollout /\ (Room(s) > 0 \/ s.rst) THEN {"out"} ELSE {})

Ready ==
       (IF backlog # <<>> THEN {Listen} ELSE {})
    \cup (IF expired THEN {Timer} ELSE {})
    \cup (IF sig THEN {Signal} ELSE {})
    \cup {[src |-> "conn", fd |-> fd, events |-> Events(sock[conns[fd]])] :
              fd \in {f \in Open : Events(sock[conns[f]]) # {}}}

\* What fits into evs: which ones, when more are ready, is the kernel's choice
\* (it goes round; here any choice may be made again).
Batches ==
    LET n == Cardinality(Ready)
    IN  {evs \in SUBSET Ready : Cardinality(evs) = IF n < MaxEvents THEN n ELSE MaxEvents}

\* Mistake: the loop does not test stop_ before it waits again.
WaitUntested ==
    /\ running
    /\ batch = {}
    /\ Ready # {}
    /\ batch' \in Batches
    /\ UNCHANGED <<now, running, stop, conns, expired, sig, backlog, sock>>

\* epoll_wait
Wait ==
    /\ running /\ ~stop
    /\ batch = {}
    /\ Ready # {}
    /\ batch' \in Batches
    /\ UNCHANGED <<now, running, stop, conns, expired, sig, backlog, sock>>

\* The handlers of a batch run one after another, in an order epoll chooses.
Take(e) ==
    /\ running
    /\ e \in batch
    /\ batch' = batch \ {e}

\* accept_all: until the backlog is empty or accept4 fails for want of a
\* descriptor; the kernel hands out the lowest free one.
AcceptAll ==
    /\ Take(Listen)
    /\ LET free == Fds \ Open
           n == IF Len(backlog) < Cardinality(free) THEN Len(backlog) ELSE Cardinality(free)
           nth(i) == CHOOSE f \in free : Cardinality({g \in free : g < f}) = i - 1
           new == {nth(i) : i \in 1 .. n}
           rank(fd) == CHOOSE i \in 1 .. n : nth(i) = fd
           accepted == {backlog[i] : i \in 1 .. n}
       IN  /\ conns' = [fd \in Open \cup new |->
                            IF fd \in new THEN backlog[rank(fd)] ELSE conns[fd]]
           /\ backlog' = SubSeq(backlog, n + 1, Len(backlog))
           /\ sock' = [p \in Peers |->
                  IF p \in accepted
                  THEN [sock[p] EXCEPT !.phase = "open", !.opened_at = now, !.last_ping = now]
                  ELSE sock[p]]
    /\ UNCHANGED <<now, running, stop, expired, sig>>

\* Mistakes: the ping waits for the next flush; a failed flush is ignored; a
\* connection that is pinged is not tested for its hello.
TickedUnflushed(s) ==
    IF ~s.hello /\ now - s.opened_at > HelloTimeout
    THEN Closed(s, "timeout")
    ELSE IF now - s.last_ping >= PingInterval
         THEN [s EXCEPT !.out = Append(@, Ping), !.last_ping = now]
         ELSE s

TickedRegardless(s) ==
    IF ~s.hello /\ now - s.opened_at > HelloTimeout
    THEN Closed(s, "timeout")
    ELSE IF now - s.last_ping >= PingInterval
         THEN Flush([s EXCEPT !.out = Append(@, Ping), !.last_ping = now])
         ELSE s

TickedOnPing(s) ==
    IF now - s.last_ping >= PingInterval
    THEN FlushOrClose([s EXCEPT !.out = Append(@, Ping), !.last_ping = now], "timeout")
    ELSE IF ~s.hello /\ now - s.opened_at > HelloTimeout
         THEN Closed(s, "timeout")
         ELSE s

\* on_tick for one connection: no hello in time, or a ping that is due.
Ticked(s) ==
    IF ~s.hello /\ now - s.opened_at > HelloTimeout
    THEN Closed(s, "timeout")
    ELSE IF now - s.last_ping >= PingInterval
         THEN FlushOrClose([s EXCEPT !.out = Append(@, Ping), !.last_ping = now], "timeout")
         ELSE s

OnTick ==
    /\ Take(Timer)
    /\ expired' = FALSE
    /\ sock' = [p \in Peers |-> IF sock[p].phase = "open" THEN Ticked(sock[p]) ELSE sock[p]]
    /\ conns' = StillOpen(sock')
    /\ UNCHANGED <<now, running, stop, sig, backlog>>

OnSignal ==
    /\ Take(Signal)
    /\ sig' = FALSE
    /\ stop' = TRUE
    /\ UNCHANGED <<now, running, conns, expired, backlog, sock>>

\* Mistakes: the unfinished line is dropped; the end of the stream is ignored.
ReceivedForgetful(s) ==
    LET q == s.in \o s.rcvq
    IN  CASE s.rst -> Closed(s, "recv error")
          [] ~s.rst /\ Len(q) > MaxLine -> Closed(s, "line too long")
          [] ~s.rst /\ Len(q) =< MaxLine /\ s.fin -> Closed(s, "peer closed")
          [] OTHER -> FlushOrClose(
                 [s EXCEPT !.rcvq = <<>>, !.in = <<>>, !.hello = @ \/ Has(q, "hello"),
                           !.out = @ \o Replies(q)],
                 "send error")

ReceivedEndless(s) ==
    LET q == s.in \o s.rcvq
    IN  CASE s.rst -> Closed(s, "recv error")
          [] ~s.rst /\ Len(q) > MaxLine -> Closed(s, "line too long")
          [] OTHER -> FlushOrClose(
                 [s EXCEPT !.rcvq = <<>>, !.in = Unfinished(q), !.hello = @ \/ Has(q, "hello"),
                           !.out = @ \o Replies(q)],
                 "send error")

\* on_conn with EPOLLIN: reads all there is, then handles the complete lines.
\* The length check comes first, and the end of the stream ends it all.
Received(s) ==
    LET q == s.in \o s.rcvq
    IN  CASE s.rst -> Closed(s, "recv error")
          [] ~s.rst /\ Len(q) > MaxLine -> Closed(s, "line too long")
          [] ~s.rst /\ Len(q) =< MaxLine /\ s.fin -> Closed(s, "peer closed")
          [] OTHER -> FlushOrClose(
                 [s EXCEPT !.rcvq = <<>>,
                           !.in = Unfinished(q),
                           !.hello = @ \/ Has(q, "hello"),
                           !.out = @ \o Replies(q)],
                 "send error")

\* on_conn: EPOLLERR or EPOLLHUP closes at once; then input, then output.
Handled(s, events) ==
    IF "hup" \in events THEN Closed(s, "hup")
    ELSE LET r == IF "in" \in events THEN Received(s) ELSE s
         IN  IF r.phase = "open" /\ "out" \in events THEN FlushOrClose(r, "send error") ELSE r

OnConn(e) ==
    /\ Take(e)
    /\ e.src = "conn"
    /\ IF e.fd \in Open
       THEN /\ sock' = [sock EXCEPT ![conns[e.fd]] = Handled(@, e.events)]
            /\ conns' = StillOpen(sock')
       ELSE UNCHANGED <<sock, conns>>
    /\ UNCHANGED <<now, running, stop, expired, sig, backlog>>

-----------------------------------------------------------------------------
(* The end of the process *)

\* Connections, accepted or not, go with the process.
Exited(s) ==
    IF s.phase \in {"open", "backlog"} THEN Closed(s, "exit") ELSE s

ProcessGone(socks) ==
    /\ sock' = [p \in Peers |-> Exited(socks[p])]
    /\ running' = FALSE
    /\ stop' = FALSE
    /\ conns' = <<>>
    /\ batch' = {}
    /\ expired' = FALSE
    /\ sig' = FALSE
    /\ backlog' = <<>>
    /\ UNCHANGED now

\* Mistake: the loop ends once the last client has left.
StopWhenAlone ==
    /\ running /\ stop
    /\ batch = {}
    /\ conns = <<>>
    /\ ProcessGone(sock)

\* run's end: the rest of the batch is done, each connection gets a bye and
\* one attempt to send it.
Stop ==
    /\ running /\ stop
    /\ batch = {}
    /\ ProcessGone([p \in Peers |->
           IF sock[p].phase = "open"
           THEN Flush([sock[p] EXCEPT !.out = Append(@, Bye)])
           ELSE sock[p]])

\* A query throws DbError: nothing catches it before main, which returns 1.
\* The replies the failing batch of lines got so far were not flushed.
QueryFails(e) ==
    /\ Take(e)
    /\ e.src = "conn" /\ e.fd \in Open /\ "in" \in e.events /\ "hup" \notin e.events
    /\ LET s == sock[conns[e.fd]]
           q == s.in \o s.rcvq
       IN  ~s.rst /\ ~s.fin /\ Len(q) =< MaxLine /\ Has(q, "query")
    /\ ProcessGone(sock)

Kill ==
    /\ running
    /\ ProcessGone(sock)

\* systemd starts the service again.
Start ==
    /\ ~running
    /\ running' = TRUE
    /\ UNCHANGED <<now, stop, conns, batch, expired, sig, backlog, sock>>

-----------------------------------------------------------------------------
(* Clients, clock, signals *)

Connect(p) ==
    /\ running
    /\ sock[p].phase = "new"
    /\ sock' = [sock EXCEPT ![p].phase = "backlog"]
    /\ backlog' = Append(backlog, p)
    /\ UNCHANGED <<now, running, stop, conns, batch, expired, sig>>

Connected(p) == sock[p].phase \in {"backlog", "open"} /\ ~sock[p].rst

SendPiece(p, kind) ==
    /\ Connected(p) /\ ~sock[p].fin
    /\ Len(sock[p].sent) < MaxSend
    /\ LET piece == [kind |-> kind, n |-> Len(sock[p].sent) + 1]
       IN  sock' = [sock EXCEPT ![p].sent = Append(@, piece), ![p].rcvq = Append(@, piece)]
    /\ UNCHANGED <<now, running, stop, conns, batch, expired, sig, backlog>>

Receive(p) ==
    /\ sock[p].sndq # <<>>
    /\ sock' = [sock EXCEPT ![p].sndq = Tail(@), ![p].got = Append(@, Head(sock[p].sndq))]
    /\ UNCHANGED <<now, running, stop, conns, batch, expired, sig, backlog>>

Hangup(p) ==
    /\ Connected(p) /\ ~sock[p].fin
    /\ sock' = [sock EXCEPT ![p].fin = TRUE]
    /\ UNCHANGED <<now, running, stop, conns, batch, expired, sig, backlog>>

\* The connection breaks: unread data is lost in both directions.
Reset(p) ==
    /\ Connected(p)
    /\ sock' = [sock EXCEPT ![p].rst = TRUE, ![p].rcvq = <<>>, ![p].sndq = <<>>]
    /\ UNCHANGED <<now, running, stop, conns, batch, expired, sig, backlog>>

Tick ==
    /\ now < MaxNow
    /\ now' = now + 1
    /\ expired' = running
    /\ UNCHANGED <<running, stop, conns, batch, sig, backlog, sock>>

Terminate ==
    /\ running /\ ~stop /\ ~sig
    /\ sig' = TRUE
    /\ UNCHANGED <<now, running, stop, conns, batch, expired, backlog, sock>>

-----------------------------------------------------------------------------
Handle ==
    \/ AcceptAll \/ OnTick \/ OnSignal
    \/ \E e \in batch : OnConn(e) \/ QueryFails(e)

Serve == Wait \/ Handle \/ Stop

Client(p) ==
    \/ Connect(p) \/ Receive(p) \/ Hangup(p) \/ Reset(p)
    \/ \E kind \in Kinds : SendPiece(p, kind)

Next ==
    \/ Serve \/ Kill \/ Start \/ Tick \/ Terminate
    \/ \E p \in Peers : Client(p)

Spec == Init /\ [][Next]_vars

\* The loop is never blocked for ever in a handler, and clients read what
\* arrives.  Nothing is assumed of what they send or of the restarts.
FairSpec == Spec /\ WF_vars(Serve) /\ \A p \in Peers : WF_vars(Receive(p))

-----------------------------------------------------------------------------
(* Properties *)

\* Types of all the variables.
TypeOK ==
    /\ now \in Nat
    /\ running \in BOOLEAN /\ stop \in BOOLEAN
    /\ Open \subseteq Fds /\ \A fd \in Open : conns[fd] \in Peers
    /\ \A e \in batch : e.src \in {"listen", "timer", "signal", "conn"}
    /\ expired \in BOOLEAN /\ sig \in BOOLEAN
    /\ \A i \in 1 .. Len(backlog) : backlog[i] \in Peers
    /\ sock \in [Peers -> Socket]

\* Everything the server ever produced for p that was not lost.
Produced(s) == s.got \o s.sndq \o s.out

\* What the server has produced for p and can still reach it.
Reachable(s) == RepliesIn(IF s.rst THEN s.got ELSE Produced(s))

\* The server keeps the promise of LineService to each client, however the
\* stream is cut into reads and the replies into sends (on_conn, handle_line,
\* flush), and however the connection ends.
Service == INSTANCE LineService WITH
    asked     <- [p \in Peers |-> Replies(sock[p].sent)],
    answered  <- [p \in Peers |-> Reachable(sock[p])],
    delivered <- [p \in Peers |-> RepliesIn(sock[p].got)],
    ended     <- [p \in Peers |-> sock[p].rst \/ sock[p].phase = "closed"]
ImplementsService == Service!ServiceSpec

\* Between two batches nothing the server has read waits for an answer, and
\* an answer the kernel did not take has EPOLLOUT on: no reply is forgotten
\* until the client's next request.
NothingHeldBack ==
    running /\ batch = {} =>
        \A fd \in Open : LET s == sock[conns[fd]] IN
            /\ ~s.rst =>
                   LET read == SubSeq(s.sent, 1, Len(s.sent) - Len(s.rcvq))
                   IN  RepliesIn(Produced(s)) = Replies(read)
            /\ \A i \in 1 .. Len(s.in) : ~EndsLine(s.in[i])
            /\ s.out # <<>> <=> s.pollout

\* Neither buffer of a connection outgrows its limit between two handlers.
BuffersBounded ==
    \A fd \in Open : LET s == sock[conns[fd]] IN
        Len(s.in) =< MaxLine /\ Len(s.out) =< MaxOutBuf

\* Once the timer has been served, no connection is past its hello timeout
\* and none went without a ping for PingInterval (on_tick), although the
\* connections that are closed on the way are closed after the iteration.
TimersServed ==
    running /\ batch = {} /\ ~expired =>
        \A fd \in Open : LET s == sock[conns[fd]] IN
            /\ s.hello \/ now - s.opened_at =< HelloTimeout
            /\ now - s.last_ping < PingInterval

\* A client that hung up, or was reset, gives its descriptor back; a process
\* that stays up does not run out of them.
DescriptorsReturned ==
    \A p \in Peers :
        (sock[p].phase = "open" /\ (sock[p].fin \/ sock[p].rst))
            ~> sock[p].phase = "closed"

\* The n-th line that was sent is answered, and the answer delivered, unless
\* the connection ends.
RequestsServed ==
    \A p \in Peers : \A n \in 1 .. MaxSend :
        (Len(Replies(sock[p].sent)) >= n /\ sock[p].phase = "open")
            ~> (sock[p].phase = "closed" \/ Len(RepliesIn(sock[p].got)) >= n)

\* A termination request ends the process, whatever the clients do.
StopEnds == sig ~> ~running

\* How many steps the process takes at most after a termination request: the
\* batch under way, one epoll_wait, and the batch that has the signal.
StepsLeft ==
    IF ~running THEN 0
    ELSE Cardinality(batch) + IF stop \/ Signal \in batch THEN 1 ELSE Cardinality(Fds) + 5

\* As long as evs has room for all that can be ready: once a termination request
\* is there, every step of the process is one towards its end; events that come
\* up meanwhile do not prolong it (run, on_signal).
StopBounded ==
    [][(sig \/ stop) /\ Cardinality(Fds) + 3 =< MaxEvents =>
           UNCHANGED <<running, stop, batch>> \/ StepsLeft' < StepsLeft]_vars

\* PROTOCOL.md gives the reasons for which the server cuts a connection; one
\* that was not reset is not cut as hung up.  An event of a batch may reach a
\* connection that got its descriptor within the batch.
CutForCause ==
    \A p \in Peers : sock[p].why = "hup" => sock[p].rst
=============================================================================
