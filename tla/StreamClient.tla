---------------------------- MODULE StreamClient ----------------------------
(***************************************************************************)
(* sm::StreamClient of the MFC program: a receiving thread ("rx", run)     *)
(* that keeps an ssh tunnel and a connection alive, and the UI thread      *)
(* ("ui"), which starts and stops it and sends requests.  The threads      *)
(* share running_, connected_ and, under sock_mutex_, sock_.               *)
(*                                                                         *)
(* A line travels in two parts, since send and recv cut the stream where   *)
(* they like: <<line, 1>> and <<line, 2>>, of which the second one ends it *)
(***************************************************************************)
EXTENDS Integers, Sequences, FiniteSets

CONSTANTS
    Handles,   \* socket handles
    MaxWire,   \* bound: parts the client sends on one connection
    MaxInput   \* bound: parts on their way to it, and messages posted

NoSocket == "no socket"

ASSUME ClientAssumption ==
    /\ IsFiniteSet(Handles) /\ Handles # {} /\ NoSocket \notin Handles
    /\ MaxWire \in Nat /\ MaxInput \in Nat

VARIABLES
    running,    \* running_
    connected,  \* connected_
    sock,       \* sock_
    lock,       \* the thread in sock_mutex_ during send_line
    tunnel,     \* tunnel_process_: none, alive or dead
    job,        \* tunnel_job_ exists
    ui,         \* where the UI thread is
    rx,         \* where the receiving thread is; "none" when there is none
    cur,        \* run: the local copy of the socket
    sending,    \* per thread: the line in send_line, and the parts still to go
    buf,        \* run: received parts of an unfinished line
    posted,     \* messages posted to the UI and not handled yet
    line,       \* the last line given to handle_line
    open,       \* handles of open sockets
    alive,      \* the connection is up
    wire,       \* parts sent on the connection
    input,      \* parts from the server, not received yet
    part,       \* the part the server sends next
    server      \* the server can be reached through a tunnel

vars == <<running, connected, sock, lock, tunnel, job, ui, rx, cur, sending, buf,
          posted, line, open, alive, wire, input, part, server>>

\* The state of the connection, and what only stop and run change.
link   == <<open, alive, wire, input, part>>
ssh    == <<tunnel, job>>
parser == <<buf, posted, line>>

NoLine   == [text |-> "none", left |-> <<>>]
Threads  == {"ui", "rx"}
Lines    == {"hello", "channels", "samples"}

Init ==
    /\ running = FALSE /\ connected = FALSE
    /\ sock = NoSocket /\ lock = "free" /\ cur = NoSocket
    /\ tunnel = "none" /\ job = FALSE
    /\ ui = "idle" /\ rx = "none"
    /\ sending = [t \in Threads |-> NoLine]
    /\ buf = <<>> /\ posted = 0 /\ line = <<>>
    /\ open = {} /\ alive = FALSE /\ wire = <<>> /\ input = <<>> /\ part = 1
    /\ server \in BOOLEAN

-----------------------------------------------------------------------------
(* Steps both threads take *)

\* close_socket.
CloseSocket ==
    /\ lock = "free"
    /\ IF sock # NoSocket
       THEN /\ open' = open \ {sock}
            /\ alive' = FALSE /\ wire' = <<>> /\ input' = <<>> /\ part' = 1
            /\ sock' = NoSocket
       ELSE UNCHANGED <<link, sock>>

\* A thread enters send_line.
Call(t, text) ==
    sending' = [sending EXCEPT ![t] = [text |-> text, left |-> <<1, 2>>]]

\* send_line takes the mutex; without a socket it returns false.
SendLock(t) ==
    /\ sending[t].left = <<1, 2>> /\ lock = "free"
    /\ IF sock = NoSocket
       THEN sending' = [sending EXCEPT ![t] = NoLine] /\ lock' = lock
       ELSE lock' = t /\ UNCHANGED sending
    /\ UNCHANGED <<running, connected, sock, ssh, ui, rx, cur, parser, link, server>>

\* Mistake: the mutex is held for one send, not for the line.
SendPartAlone(t) ==
    /\ IF sending[t].left = <<2>> THEN lock = "free" ELSE lock = t
    /\ LET rest == Tail(sending[t].left)
       IN  /\ wire' = IF alive THEN Append(wire, <<sending[t].text, Head(sending[t].left)>>) ELSE wire
           /\ sending' = [sending EXCEPT ![t] =
                  IF rest = <<>> \/ ~alive THEN NoLine ELSE [@ EXCEPT !.left = rest]]
           /\ lock' = "free"
    /\ UNCHANGED <<running, connected, sock, ssh, ui, rx, cur, parser, open, alive, input, part, server>>

\* One send; on an error, and after the last part, the mutex is released.
SendPart(t) ==
    /\ lock = t
    /\ IF alive
       THEN LET rest == Tail(sending[t].left)
            IN  /\ wire' = Append(wire, <<sending[t].text, Head(sending[t].left)>>)
                /\ sending' = [sending EXCEPT ![t] =
                       IF rest = <<>> THEN NoLine ELSE [@ EXCEPT !.left = rest]]
                /\ lock' = IF rest = <<>> THEN "free" ELSE t
       ELSE /\ sending' = [sending EXCEPT ![t] = NoLine]
            /\ lock' = "free"
            /\ UNCHANGED wire
    /\ UNCHANGED <<running, connected, sock, ssh, ui, rx, cur, parser, open, alive, input, part, server>>

Returned(t) == sending[t] = NoLine

-----------------------------------------------------------------------------
(* The UI thread *)

Start ==
    /\ ui = "idle" /\ Returned("ui") /\ ~running
    /\ running' = TRUE
    /\ rx' = "check"
    /\ UNCHANGED <<connected, sock, lock, ssh, ui, cur, sending, parser, link, server>>

\* request_channels, request_samples: connected_ is read without the mutex.
Request(text) ==
    /\ ui = "idle" /\ Returned("ui") /\ connected
    /\ Len(wire) + 4 =< MaxWire
    /\ Call("ui", text)
    /\ UNCHANGED <<running, connected, sock, lock, ssh, ui, rx, cur, parser, link, server>>

\* A posted message is handled.
Message ==
    /\ ui = "idle" /\ Returned("ui") /\ posted > 0
    /\ posted' = posted - 1
    /\ UNCHANGED <<running, connected, sock, lock, ssh, ui, rx, cur, sending, buf, line, link, server>>

Stop ==
    /\ ui = "idle" /\ Returned("ui") /\ running
    /\ running' = FALSE
    /\ ui' = "closing"
    /\ UNCHANGED <<connected, sock, lock, ssh, rx, cur, sending, parser, link, server>>

StopClose ==
    /\ ui = "closing"
    /\ CloseSocket
    /\ ui' = "joining"
    /\ UNCHANGED <<running, connected, lock, ssh, rx, cur, sending, parser, server>>

\* join, then close_tunnel.
StopJoin ==
    /\ ui = "joining" /\ rx = "none"
    /\ tunnel' = "none" /\ job' = FALSE
    /\ ui' = "idle"
    /\ UNCHANGED <<running, connected, sock, lock, rx, cur, sending, parser, link, server>>

-----------------------------------------------------------------------------
(* The receiving thread: run *)

Goto(from, to) == rx = from /\ Returned("rx") /\ rx' = to

RxCheck ==
    /\ Goto("check", IF running THEN "tunnel" ELSE "exit")
    /\ UNCHANGED <<running, connected, sock, lock, ssh, ui, cur, sending, parser, link, server>>

\* ensure_tunnel: a live ssh is kept, a dead one is replaced; false if it
\* cannot be started.
RxTunnel ==
    /\ \/ /\ Goto("tunnel", "connect")
          /\ tunnel' = "alive"
          /\ job' = (job \/ tunnel # "alive")
       \/ /\ tunnel # "alive"
          /\ Goto("tunnel", "pause")
          /\ tunnel' = "none"
          /\ job' = TRUE
    /\ UNCHANGED <<running, connected, sock, lock, ui, cur, sending, parser, link, server>>

\* connect_once up to the mutex.
RxConnect ==
    /\ IF server /\ tunnel = "alive"
       THEN /\ Goto("connect", "publish")
            /\ \E h \in Handles \ open : cur' = h /\ open' = open \cup {h}
            /\ alive' = TRUE /\ wire' = <<>> /\ input' = <<>> /\ part' = 1
       ELSE /\ Goto("connect", "pause")
            /\ UNCHANGED <<cur, link>>
    /\ UNCHANGED <<running, connected, sock, lock, ssh, ui, sending, parser, server>>

RxPublish ==
    /\ Goto("publish", "up") /\ lock = "free"
    /\ sock' = cur
    /\ UNCHANGED <<running, connected, lock, ssh, ui, cur, sending, parser, link, server>>

\* Mistake: what the last connection left in buf is kept.
RxUpDirty ==
    /\ Goto("up", "hello")
    /\ connected' = TRUE
    /\ UNCHANGED <<running, sock, lock, ssh, ui, cur, sending, parser, link, server>>

RxUp ==
    /\ Goto("up", "hello")
    /\ connected' = TRUE
    /\ buf' = <<>>
    /\ UNCHANGED <<running, sock, lock, ssh, ui, cur, sending, posted, line, link, server>>

RxHello ==
    /\ Goto("hello", "channels")
    /\ Call("rx", "hello")
    /\ UNCHANGED <<running, connected, sock, lock, ssh, ui, cur, parser, link, server>>

\* request_channels: connected_ is still set, only this thread clears it.
RxChannels ==
    /\ Goto("channels", "loop")
    /\ Call("rx", "channels")
    /\ UNCHANGED <<running, connected, sock, lock, ssh, ui, cur, parser, link, server>>

\* Mistake: the loop relies on stop() having closed the socket.
RxLoopBlind ==
    /\ Goto("loop", "copy")
    /\ UNCHANGED <<running, connected, sock, lock, ssh, ui, cur, sending, parser, link, server>>

\* Mistake: a stopped client leaves the closing of the socket to stop().
RxLoopToExit ==
    /\ Goto("loop", IF running THEN "copy" ELSE "exit")
    /\ UNCHANGED <<running, connected, sock, lock, ssh, ui, cur, sending, parser, link, server>>

RxLoop ==
    /\ Goto("loop", IF running THEN "copy" ELSE "down")
    /\ UNCHANGED <<running, connected, sock, lock, ssh, ui, cur, sending, parser, link, server>>

\* The socket is copied under the mutex and used after it.
RxCopy ==
    /\ lock = "free"
    /\ Goto("copy", IF sock = NoSocket THEN "down" ELSE "recv")
    /\ cur' = sock
    /\ UNCHANGED <<running, connected, sock, lock, ssh, ui, sending, parser, link, server>>

\* One part received: a line that is complete goes to handle_line, which
\* posts what it parsed and does not wait for the UI.
Parse(p) ==
    IF p[2] = 2
    THEN /\ line' = Append(buf, p)
         /\ buf' = <<>>
         /\ posted' = posted + 1
    ELSE /\ buf' = Append(buf, p)
         /\ UNCHANGED <<line, posted>>

\* Mistake: the end of the stream is taken for a timeout.
RxRecvEndless ==
    /\ IF cur \in open /\ input # <<>>
       THEN /\ Goto("recv", "loop")
            /\ Parse(Head(input))
            /\ input' = Tail(input)
       ELSE /\ Goto("recv", IF cur \in open THEN "loop" ELSE "down")
            /\ UNCHANGED <<parser, input>>
    /\ UNCHANGED <<running, connected, sock, lock, ssh, ui, cur, sending, open, alive, wire, part, server>>

\* recv: data, else the end or an error, also of a handle that was closed in
\* the meantime; else a timeout after a second.
RxRecv ==
    /\ IF cur \in open /\ input # <<>>
       THEN /\ Goto("recv", "loop")
            /\ Parse(Head(input))
            /\ input' = Tail(input)
       ELSE /\ Goto("recv", IF cur \in open /\ alive THEN "loop" ELSE "down")
            /\ UNCHANGED <<parser, input>>
    /\ UNCHANGED <<running, connected, sock, lock, ssh, ui, cur, sending, open, alive, wire, part, server>>

\* Mistake: connected_ is only cleared when the thread ends.
RxDownStillConnected ==
    /\ Goto("down", "close")
    /\ UNCHANGED <<running, connected, sock, lock, ssh, ui, cur, sending, parser, link, server>>

RxDown ==
    /\ Goto("down", "close")
    /\ connected' = FALSE
    /\ UNCHANGED <<running, sock, lock, ssh, ui, cur, sending, parser, link, server>>

RxClose ==
    /\ Goto("close", "pause")
    /\ CloseSocket
    /\ cur' = NoSocket
    /\ UNCHANGED <<running, connected, lock, ssh, ui, sending, parser, server>>

\* kReconnectMs, cut short when running_ is cleared.
RxPause ==
    /\ Goto("pause", "check")
    /\ UNCHANGED <<running, connected, sock, lock, ssh, ui, cur, sending, parser, link, server>>

RxExit ==
    /\ Goto("exit", "none")
    /\ connected' = FALSE
    /\ UNCHANGED <<running, sock, lock, ssh, ui, cur, sending, parser, link, server>>

-----------------------------------------------------------------------------
(* ssh, the server and the network *)

\* The connection breaks, with or without its tunnel.
Break ==
    /\ alive
    /\ alive' = FALSE
    /\ UNCHANGED <<running, connected, sock, lock, ssh, ui, rx, cur, sending, parser, open, wire, input, part, server>>

SshDies ==
    /\ tunnel = "alive"
    /\ tunnel' = "dead"
    /\ alive' = FALSE
    /\ UNCHANGED <<running, connected, sock, lock, job, ui, rx, cur, sending, parser, open, wire, input, part, server>>

ServerChanges ==
    /\ server' = ~server
    /\ alive' = FALSE
    /\ UNCHANGED <<running, connected, sock, lock, ssh, ui, rx, cur, sending, parser, open, wire, input, part>>

\* The server sends the next part of its stream.
ServerSends ==
    /\ alive /\ server
    /\ Len(input) + posted < MaxInput
    /\ input' = Append(input, <<"reply", part>>)
    /\ part' = 3 - part
    /\ UNCHANGED <<running, connected, sock, lock, ssh, ui, rx, cur, sending, parser, open, alive, wire, server>>

-----------------------------------------------------------------------------
Send(t) == SendLock(t) \/ SendPart(t)

Rx ==
    \/ RxCheck \/ RxTunnel \/ RxConnect \/ RxPublish \/ RxUp \/ RxHello \/ RxChannels
    \/ RxLoop \/ RxCopy \/ RxRecv \/ RxDown \/ RxClose \/ RxPause \/ RxExit
    \/ Send("rx")

\* What the UI thread does once it is inside a call.
Ui == StopClose \/ StopJoin \/ Send("ui")

Next ==
    \/ Rx \/ Ui
    \/ Start \/ Stop \/ Message
    \/ \E text \in {"channels", "samples"} : Request(text)
    \/ Break \/ SshDies \/ ServerChanges \/ ServerSends

Spec == Init /\ [][Next]_vars

\* Neither thread is suspended for ever, and send and connect return.  The
\* receiving thread gets the mutex if it is free again and again: requests
\* follow user input and messages, with pauses between them.  And ssh, if it is
\* started again and again, can sometimes be started.
FairSpec ==
    /\ Spec
    /\ SF_vars(Rx) /\ WF_vars(Ui)
    /\ SF_vars(RxTunnel /\ rx' = "connect")

-----------------------------------------------------------------------------
(* Properties *)

Places == {"check", "tunnel", "connect", "publish", "up", "hello", "channels",
           "loop", "copy", "recv", "down", "close", "pause", "exit", "none"}

\* Types of all the variables.
TypeOK ==
    /\ running \in BOOLEAN /\ connected \in BOOLEAN /\ job \in BOOLEAN
    /\ sock \in Handles \cup {NoSocket} /\ cur \in Handles \cup {NoSocket}
    /\ lock \in Threads \cup {"free"}
    /\ tunnel \in {"none", "alive", "dead"}
    /\ ui \in {"idle", "closing", "joining"} /\ rx \in Places
    /\ \A t \in Threads : sending[t].text \in Lines \cup {"none"}
    /\ posted \in Nat
    /\ open \subseteq Handles /\ alive \in BOOLEAN /\ server \in BOOLEAN
    /\ \A i \in 1 .. Len(wire) : wire[i] \in Lines \X {1, 2}
    /\ part \in {1, 2}
    /\ \A i \in 1 .. Len(input) : input[i] \in {"reply"} \X {1, 2}

\* The lines of the two threads never mix on a connection: every second part
\* follows the first part of its line (send_line holds sock_mutex_).
LinesWhole ==
    \A i \in 1 .. Len(wire) : wire[i][2] = 2 => i > 1 /\ wire[i - 1] = <<wire[i][1], 1>>

\* A line given to handle_line is one line of one connection, although a
\* connection may break in the middle of a line and a new one follow it.
LineOfOneConnection ==
    line # <<>> => line = <<<<"reply", 1>>, <<"reply", 2>>>>

\* After stop() nothing is left behind, wherever it met the receiving thread:
\* no socket, tunnel or job, and connected() is false.  In between no more
\* than one socket is open.
NothingLeft ==
    /\ Cardinality(open) =< 1
    /\ ui = "idle" /\ ~running =>
           /\ rx = "none" /\ open = {} /\ sock = NoSocket
           /\ tunnel = "none" /\ ~job /\ ~connected

\* connected() promises a socket to send on, except while stop() runs: the
\* flag is set after the socket and cleared before it.  (With the types.)
ConnectedHasSocket == TypeOK /\ (connected /\ running => sock # NoSocket)

\* stop() returns, although it joins a thread that posts to the UI thread.
StopReturns == ui # "idle" ~> ui = "idle"

\* How many steps the receiving thread still takes at most when running_ is
\* cleared: those of the line it is sending, and those to its end.
LineLeft ==
    CASE sending["rx"].left = <<>>  -> 0
      [] sending["rx"].left = <<2>> -> 1
      [] OTHER -> IF lock = "rx" THEN 2 ELSE 3

PlacesLeft ==
    CASE rx = "none"     -> 0    [] rx = "exit"    -> 1    [] rx = "check"  -> 2
      [] rx = "pause"    -> 3    [] rx = "close"   -> 4    [] rx = "down"   -> 5
      [] rx = "loop"     -> 6    [] rx = "recv"    -> 7    [] rx = "copy"   -> 8
      [] rx = "channels" -> 10   [] rx = "hello"   -> 14   [] rx = "up"     -> 15
      [] rx = "publish"  -> 16   [] rx = "connect" -> 17   [] rx = "tunnel" -> 18

StepsLeft == LineLeft + PlacesLeft

\* The receiving thread does not move.
RxRests ==
    rx' = rx /\ sending'["rx"] = sending["rx"] /\ (lock' = "rx" <=> lock = "rx")

\* While stop() waits every step of the receiving thread is one towards its end,
\* wherever stop() met it and whatever ssh, server and network do: the join
\* waits for 18 steps at most, the two lines that may still be sent included.
StopBounded == [][ui # "idle" => RxRests \/ StepsLeft' < StepsLeft]_vars

\* A client that is left running gets a live connection again and again,
\* whatever breaks its connections, once the server stays up and ssh no longer
\* dies: a dead connection is noticed and made again (run, connect_once).
Reconnects ==
    <>[](server /\ running /\ tunnel # "dead") => []<>alive /\ []<>connected
=============================================================================
