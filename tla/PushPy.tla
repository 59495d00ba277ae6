------------------------------- MODULE PushPy -------------------------------
(***************************************************************************)
(* push.py, the reference implementation of the relay: one asyncio loop,   *)
(* for each client a task that reads and answers and a task that pings,    *)
(* queries in executor threads, and a shutdown that says bye to one client *)
(* after another.  A task runs alone up to its next await that has to      *)
(* wait; the steps here are these stretches.                               *)
(*                                                                         *)
(* Of asyncio's streams the model has what the tasks depend on: write()    *)
(* sends what the kernel takes and buffers the rest; more than High        *)
(* buffered replies pause the writers, so that drain() waits until the     *)
(* buffer is down to Low; close() still sends the buffer.  In Python 3.8,  *)
(* which the server runs, drain() of a second task fails an assertion      *)
(* while another one waits.                                                *)
(***************************************************************************)
EXTENDS Integers, Sequences, Messages

CONSTANTS
    Peers,         \* clients; each connects at most once
    Kinds,         \* kinds of pieces the clients send
    MaxSend,       \* bound: pieces a client sends
    MaxLine,       \* MAX_LINE
    SndBuf,        \* capacity of a socket's send buffer in the kernel
    High, Low,     \* asyncio's limits of a write buffer
    HelloTimeout,  \* HELLO_TIMEOUT
    PingInterval,  \* PING_INTERVAL
    MaxNow         \* bound: the clock stops here

ASSUME PushPyAssumption ==
    /\ Kinds \subseteq {"part", "junk", "hello", "other", "query"}
    /\ {MaxSend, HelloTimeout, PingInterval, MaxNow, High, Low} \subseteq Nat
    /\ Low =< High /\ MaxLine \in Nat \ {0} /\ SndBuf \in Nat \ {0}

VARIABLES
    now,
    running,  \* the process exists
    stop,     \* the event that the signal handlers set
    goodbye,  \* shutdown: "no", "next" client, or the one whose drain() it waits for
    toClose,  \* shutdown: the clients it has not said bye to
    conn      \* per peer: its two tasks, its stream and its TCP connection

vars == <<now, running, stop, goodbye, toClose, conn>>

NewConn == [phase  |-> "new",    \* then "open", "closing" by close(), "lost"
            sent   |-> <<>>,     \* history: the pieces the client sent
            rcvq   |-> <<>>,     \* of these, what no readline() returned
            fin    |-> FALSE,    \* the client closed its side
            rst    |-> FALSE,    \* the connection was reset
            task   |-> "none",   \* on_client: "read", "query", "drain", "gone"
            line   |-> <<>>,     \* the request of the query
            hello  |-> FALSE,    \* hello_done
            since  |-> 0,        \* when wait_for began
            ping   |-> "none",   \* ping: "sleep", "drain", "dead"
            due    |-> 0,        \* when its sleep ends
            out    |-> <<>>,     \* the stream's buffer
            paused |-> FALSE,
            sndq   |-> <<>>,     \* in the kernel, not read by the client
            got    |-> <<>>]     \* history: read by the client

Init ==
    /\ now = 0 /\ running = TRUE /\ stop = FALSE
    /\ goodbye = "no" /\ toClose = {}
    /\ conn = [p \in Peers |-> NewConn]

-----------------------------------------------------------------------------
(* Streams *)

PingLine == [type |-> "ping"]
ByeLine  == [type |-> "bye"]

Min2(a, b) == IF a < b THEN a ELSE b

\* What the kernel takes of the buffer.
Sent(c) ==
    LET n == IF c.rst THEN 0 ELSE Min2(SndBuf - Len(c.sndq), Len(c.out))
    IN  [c EXCEPT !.sndq = @ \o SubSeq(c.out, 1, n), !.out = SubSeq(c.out, n + 1, Len(c.out))]

\* StreamWriter.write: nothing once the connection is lost.
Write(c, m) ==
    IF c.phase = "lost" THEN c
    ELSE LET s == Sent([c EXCEPT !.out = Append(@, m)])
         IN  [s EXCEPT !.paused = @ \/ Len(s.out) > High]

\* StreamWriter.close
Close(c) ==
    [c EXCEPT !.phase = IF c.out = <<>> \/ c.phase = "lost" THEN "lost" ELSE "closing"]

\* The finally of on_client, reached by every break and exception.
Gone(c) == [Close(c) EXCEPT !.task = "gone", !.ping = "dead", !.line = <<>>, !.rcvq = <<>>]

ReadNext(c) == [c EXCEPT !.task = "read", !.line = <<>>, !.since = now]

Slept(c) == [c EXCEPT !.ping = "sleep", !.due = now + PingInterval]

\* The writers resume: the drain() that waited returns.
Resumed(c) ==
    LET task == IF c.task = "drain" THEN ReadNext(c) ELSE c
        ping == IF c.ping = "drain" THEN Slept(task) ELSE task
    IN  [ping EXCEPT !.paused = FALSE]

\* Somebody waits in drain() of p's stream.
Waited(p) == conn[p].task = "drain" \/ conn[p].ping = "drain" \/ goodbye = p

-----------------------------------------------------------------------------
(* on_client and handle *)

Set(p, c) ==
    /\ running
    /\ conn' = [conn EXCEPT ![p] = c]
    /\ UNCHANGED <<now, running, stop, goodbye, toClose>>

EndsLine(piece) == piece.kind # "part"

\* The end of the first line of q, 0 if it is not complete.
FirstEnd(q) ==
    IF \E i \in 1 .. Len(q) : EndsLine(q[i])
    THEN CHOOSE i \in 1 .. Len(q) : EndsLine(q[i]) /\ \A j \in 1 .. i - 1 : ~EndsLine(q[j])
    ELSE 0

Answer(line) == [first |-> line[1].n, last |-> line[Len(line)].n]

\* A reply and drain().
Replied(p, c, line) ==
    LET w == Write(c, Answer(line))
    IN  CASE w.phase = "lost" -> Gone(w)
          [] w.phase # "lost" /\ ~w.paused -> ReadNext(w)
          [] w.phase # "lost" /\ w.paused /\ Waited(p) -> Gone(w)
          [] OTHER -> [w EXCEPT !.task = "drain", !.line = <<>>]

\* Mistake: what is not a JSON object is handled after all (no "continue").
HandledOn(p, c, line) ==
    LET kind == line[Len(line)].kind
    IN  CASE kind = "query" -> [c EXCEPT !.task = "query", !.line = line]
          [] kind \in {"junk", "part"} -> Replied(p, Write(c, Answer(line)), line)
          [] OTHER -> Replied(p, [c EXCEPT !.hello = @ \/ kind = "hello"], line)

\* What one line does: a query leaves the loop, what is not a JSON object is
\* answered without a drain(), anything else (a hello, an argument or a type
\* that is wrong) is answered.
Handled(p, c, line) ==
    LET kind == line[Len(line)].kind
    IN  CASE kind = "query" -> [c EXCEPT !.task = "query", !.line = line]
          [] kind \in {"junk", "part"} -> ReadNext(Write(c, Answer(line)))
          [] OTHER -> Replied(p, [c EXCEPT !.hello = @ \/ kind = "hello"], line)

\* readline() returns a line, or the unfinished rest after the end of the
\* stream, or nothing; it fails on a line that is too long and on a reset.
Readline(p) ==
    LET c == conn[p]
        end == FirstEnd(c.rcvq)
        over == c.fin \/ c.phase = "lost"
        n == IF end # 0 THEN end ELSE Len(c.rcvq)
        rest == [c EXCEPT !.rcvq = SubSeq(@, n + 1, Len(@))]
    IN  /\ c.task = "read"
        /\ end # 0 \/ n > MaxLine \/ over \/ c.rst
        /\ Set(p, IF c.rst \/ n > MaxLine \/ n = 0 THEN Gone(c)
                  ELSE Handled(p, rest, SubSeq(c.rcvq, 1, n)))

\* wait_for ends the client that has said no hello, counted from the last line.
HelloExpires(p) ==
    /\ conn[p].task = "read" /\ ~conn[p].hello
    /\ now - conn[p].since >= HelloTimeout
    /\ Set(p, Gone(conn[p]))

\* Mistake: an exception of a query is caught and forgotten.
QueryEndsSilent(p) ==
    /\ conn[p].task = "query"
    /\ \/ Set(p, Replied(p, conn[p], conn[p].line))
       \/ Set(p, ReadNext(conn[p]))

\* The executor's result, or its exception.
QueryEnds(p) ==
    /\ conn[p].task = "query"
    /\ \/ Set(p, Replied(p, conn[p], conn[p].line))
       \/ Set(p, Gone(conn[p]))

\* shutdown goes on if it waited for p.
ShutdownOn(p) ==
    /\ goodbye' = IF goodbye = p THEN "next" ELSE goodbye
    /\ UNCHANGED toClose

\* The loop sends what was buffered; shutdown closes the stream it waited for.
SendBuffered(p) ==
    LET s == Sent(conn[p])
        resume == s.paused /\ Len(s.out) =< Low
        r == IF resume THEN Resumed(s) ELSE s
        c == IF resume /\ goodbye = p THEN Close(r) ELSE r
    IN  /\ running
        /\ conn[p].phase \in {"open", "closing"} /\ s # conn[p]
        /\ conn' = [conn EXCEPT ![p] = IF c.phase = "closing" /\ c.out = <<>>
                                       THEN [c EXCEPT !.phase = "lost"] ELSE c]
        /\ IF resume THEN ShutdownOn(p) ELSE UNCHANGED <<goodbye, toClose>>
        /\ UNCHANGED <<now, running, stop>>

\* The loop finds the connection reset: who waits in drain() gets an exception.
ConnectionLost(p) ==
    LET c == [conn[p] EXCEPT !.phase = "lost", !.out = <<>>, !.paused = FALSE]
    IN  /\ running
        /\ conn[p].rst /\ conn[p].phase \in {"open", "closing"}
        /\ conn' = [conn EXCEPT ![p] =
               CASE c.task = "drain" -> Gone(c)
                 [] c.task # "drain" /\ c.ping = "drain" -> [c EXCEPT !.ping = "dead"]
                 [] OTHER -> c]
        /\ ShutdownOn(p)
        /\ UNCHANGED <<now, running, stop>>

\* ping: after a sleep a line and drain(), whose exceptions end the task.
Ping(p) ==
    LET w == Write(conn[p], PingLine)
    IN  /\ conn[p].ping = "sleep" /\ now >= conn[p].due
        /\ Set(p, CASE w.phase = "lost" -> [w EXCEPT !.ping = "dead"]
                    [] w.phase # "lost" /\ ~w.paused -> Slept(w)
                    [] w.phase # "lost" /\ w.paused /\ Waited(p) -> [w EXCEPT !.ping = "dead"]
                    [] OTHER -> [w EXCEPT !.ping = "drain"])

-----------------------------------------------------------------------------
(* shutdown and the end of the process *)

\* list(self.clients)
BeginShutdown ==
    /\ running /\ stop /\ goodbye = "no"
    /\ goodbye' = "next"
    /\ toClose' = {p \in Peers : conn[p].task \notin {"none", "gone"}}
    /\ UNCHANGED <<now, running, stop, conn>>

\* bye, drain() and close() for one client; an exception of drain() skips the
\* close().
SayBye(p) ==
    LET w == Write(conn[p], ByeLine)
        waits == w.phase # "lost" /\ w.paused /\ ~Waited(p)
    IN  /\ running /\ goodbye = "next" /\ p \in toClose
        /\ toClose' = toClose \ {p}
        /\ goodbye' = IF waits THEN p ELSE "next"
        /\ conn' = [conn EXCEPT ![p] = IF w.paused THEN w ELSE Close(w)]
        /\ UNCHANGED <<now, running, stop>>

\* The process takes all connections and what is buffered for them with it.
ProcessGone ==
    /\ running' = FALSE /\ stop' = FALSE
    /\ goodbye' = "no" /\ toClose' = {}
    /\ conn' = [p \in Peers |->
           IF conn[p].phase \in {"open", "closing"}
           THEN Gone([conn[p] EXCEPT !.out = <<>>, !.paused = FALSE])
           ELSE [conn[p] EXCEPT !.task = IF @ = "none" THEN @ ELSE "gone"]]
    /\ UNCHANGED now

\* Mistake: the process waits until its clients have left.
ExitWhenAlone ==
    /\ running /\ goodbye = "next" /\ toClose = {}
    /\ \A p \in Peers : conn[p].task \in {"none", "gone"}
    /\ ProcessGone

Exit == running /\ goodbye = "next" /\ toClose = {} /\ ProcessGone

Kill == running /\ ProcessGone

\* systemd starts the service again.
Start ==
    /\ ~running
    /\ running' = TRUE
    /\ UNCHANGED <<now, stop, goodbye, toClose, conn>>

-----------------------------------------------------------------------------
(* Clients, clock, signals *)

\* The listening socket is open until the shutdown is over; on_client begins.
Connect(p) ==
    /\ conn[p].phase = "new"
    /\ Set(p, Slept([ReadNext(conn[p]) EXCEPT !.phase = "open"]))

Client(p, c) ==
    /\ conn[p].phase \in {"open", "closing"}
    /\ conn' = [conn EXCEPT ![p] = c]
    /\ UNCHANGED <<now, running, stop, goodbye, toClose>>

SendPiece(p, kind) ==
    LET piece == [kind |-> kind, n |-> Len(conn[p].sent) + 1]
    IN  /\ ~conn[p].rst /\ ~conn[p].fin /\ Len(conn[p].sent) < MaxSend
        /\ Client(p, [conn[p] EXCEPT !.sent = Append(@, piece),
                                     !.rcvq = IF conn[p].task = "gone" THEN @ ELSE Append(@, piece)])

Receive(p) ==
    /\ conn[p].sndq # <<>>
    /\ conn' = [conn EXCEPT ![p].sndq = Tail(@), ![p].got = Append(@, Head(conn[p].sndq))]
    /\ UNCHANGED <<now, running, stop, goodbye, toClose>>

Hangup(p) ==
    /\ ~conn[p].rst /\ ~conn[p].fin
    /\ Client(p, [conn[p] EXCEPT !.fin = TRUE])

Reset(p) ==
    /\ ~conn[p].rst
    /\ Client(p, [conn[p] EXCEPT !.rst = TRUE, !.sndq = <<>>])

Tick ==
    /\ now < MaxNow
    /\ now' = now + 1
    /\ UNCHANGED <<running, stop, goodbye, toClose, conn>>

Terminate ==
    /\ running /\ ~stop
    /\ stop' = TRUE
    /\ UNCHANGED <<now, running, goodbye, toClose, conn>>

-----------------------------------------------------------------------------
Loop ==
    \/ \E p \in Peers : \/ Readline(p) \/ HelloExpires(p) \/ QueryEnds(p)
                        \/ SendBuffered(p) \/ ConnectionLost(p) \/ Ping(p)
                        \/ SayBye(p)
    \/ BeginShutdown \/ Exit

Next ==
    \/ Loop \/ Kill \/ Start \/ Tick \/ Terminate
    \/ \E p \in Peers : \/ Connect(p) \/ Receive(p) \/ Hangup(p) \/ Reset(p)
                        \/ \E kind \in Kinds : SendPiece(p, kind)

Spec == Init /\ [][Next]_vars

\* The event loop runs, queries return, and clients read what arrives.
FairSpec == Spec /\ WF_vars(Loop) /\ \A p \in Peers : WF_vars(Receive(p))

-----------------------------------------------------------------------------
(* Properties *)

\* One more piece of a stream: what its complete lines deserve, and the rest.
After(l, piece) ==
    LET line == Append(l.rest, piece)
    IN  IF EndsLine(piece)
        THEN [rest |-> <<>>, replies |-> Append(l.replies, Answer(line))]
        ELSE [rest |-> line, replies |-> l.replies]

Lines(q) ==
    LET upTo[i \in 0 .. Len(q)] ==
            IF i = 0 THEN [rest |-> <<>>, replies |-> <<>>] ELSE After(upTo[i - 1], q[i])
    IN  upTo[Len(q)]

\* The answers that the lines of q deserve, the unfinished one counted once the
\* client has closed its side.
Answers(q, fin) ==
    LET l == Lines(q)
    IN  IF fin /\ l.rest # <<>> THEN Append(l.replies, Answer(l.rest)) ELSE l.replies

Deserved(c) == Answers(c.sent, c.fin)

RepliesIn(ms) == Without(ms, {PingLine, ByeLine})

\* What the server has produced for a client and can still reach it.
Reachable(c) == RepliesIn(IF c.rst THEN c.got ELSE c.got \o c.sndq \o c.out)

\* The Python server keeps the promise of LineService as well, with three tasks
\* that write to a stream, and one of them closing it.
Service == INSTANCE LineService WITH
    asked     <- [p \in Peers |-> Deserved(conn[p])],
    answered  <- [p \in Peers |-> Reachable(conn[p])],
    delivered <- [p \in Peers |-> RepliesIn(conn[p].got)],
    ended     <- [p \in Peers |-> conn[p].rst \/ conn[p].phase = "lost"]
ImplementsService == Service!ServiceSpec

\* What a client has sent is answered and the answers delivered unless the
\* connection ends: neither a full buffer nor a ping or bye that waits for it
\* stops on_client for ever.  (A client sends MaxSend pieces, so that the
\* server catches up with it.)
RequestsServed ==
    \A p \in Peers :
        conn[p].phase = "open"
            ~> \/ conn[p].phase # "open" \/ conn[p].rst
               \/ Len(RepliesIn(conn[p].got)) = Len(Deserved(conn[p]))

\* A termination request ends the process if the clients read: shutdown waits
\* for one client after another, without a limit of time, and passes a client
\* that is reset or whose buffer another task waits for.
StopEnds == stop ~> ~running
=============================================================================
