--------------------------- MODULE StreamClientProofs ---------------------------
(***************************************************************************)
(* Proofs about StreamClient: whatever the two threads, ssh, the server    *)
(* and the network do, and however many handles there are, lines are not   *)
(* mixed, connected() means what it says, and stop() leaves nothing.       *)
(***************************************************************************)
EXTENDS StreamClient, FiniteSetTheorems, TLAPS

-----------------------------------------------------------------------------
(* Sequences *)

\* The empty sequence is one of any elements.
LEMMA EmptySequence == ASSUME NEW S PROVE <<>> \in Seq(S)
  OBVIOUS

\* The head and the tail of a sequence.
LEMMA TailOf ==
    ASSUME NEW S, NEW s \in Seq(S), s # <<>>
    PROVE  /\ Head(s) = s[1] /\ s[1] \in S
           /\ Tail(s) \in Seq(S)
           /\ Len(s) \in Nat \ {0} /\ Len(Tail(s)) = Len(s) - 1
           /\ \A i \in 1 .. Len(Tail(s)) : Tail(s)[i] = s[i + 1]
  OBVIOUS

\* A sequence with one more element.
LEMMA AppendOf ==
    ASSUME NEW S, NEW s \in Seq(S), NEW e
    PROVE  /\ e \in S => Append(s, e) \in Seq(S)
           /\ Len(s) \in Nat /\ Len(Append(s, e)) = Len(s) + 1
           /\ \A i \in 1 .. Len(s) : Append(s, e)[i] = s[i]
           /\ Append(s, e)[Len(s) + 1] = e
  OBVIOUS

\* The parts of a line that are still to go.
LEMMA Parts ==
    /\ Head(<<1, 2>>) = 1 /\ Tail(<<1, 2>>) = <<2>>
    /\ Head(<<2>>) = 2 /\ Tail(<<2>>) = <<>>
    /\ <<2>> # <<>> /\ <<1, 2>> # <<2>>
  OBVIOUS

-----------------------------------------------------------------------------
(* The inductive invariant *)

\* Where the receiving thread has no socket, has one that send_line cannot see
\* yet, has published it, and may have connected_ set.
Away      == {"check", "tunnel", "connect", "pause", "exit", "none"}
Using     == {"up", "hello", "channels", "loop", "copy", "recv", "down", "close"}
Flagged   == {"hello", "channels", "loop", "copy", "recv", "down"}

Part == <<"reply", 1>>
Whole == <<<<"reply", 1>>, <<"reply", 2>>>>

\* What is sent, what is received, and what each thread has to send.
Wires  == Seq(Lines \X {1, 2})
Inputs == Seq({"reply"} \X {1, 2})
Calls  == [Threads -> [text : Lines \cup {"none"}, left : {<<>>, <<1, 2>>, <<2>>}]]

\* The types, as TypeOK gives them, with those of the sequences.
Types ==
    /\ running \in BOOLEAN /\ connected \in BOOLEAN /\ job \in BOOLEAN
    /\ sock \in Handles \cup {NoSocket} /\ cur \in Handles \cup {NoSocket}
    /\ lock \in Threads \cup {"free"}
    /\ tunnel \in {"none", "alive", "dead"}
    /\ ui \in {"idle", "closing", "joining"} /\ rx \in Places
    /\ posted \in Nat
    /\ open \subseteq Handles /\ alive \in BOOLEAN /\ server \in BOOLEAN
    /\ part \in {1, 2}
    /\ sending \in Calls
    /\ wire \in Wires
    /\ input \in Inputs

\* The life of the receiving thread, of the socket and of the tunnel.
Control ==
    /\ running => ui = "idle" /\ rx \notin {"exit", "none"}
    /\ ui = "idle" /\ ~running => rx = "none" /\ tunnel = "none" /\ ~job
    /\ connected => rx \in Flagged
    /\ rx = "publish" => cur \in Handles /\ sock = NoSocket /\ open = {cur}
    /\ rx \in Using => IF sock = NoSocket THEN open = {} ELSE open = {sock}
    /\ rx \in Away => sock = NoSocket /\ open = {}
    /\ running /\ rx \in Using => sock # NoSocket
    /\ lock # "free" => sock # NoSocket

\* A line is sent under the mutex; a first part at the end of the stream is that
\* of the line that is being sent.
Sends ==
    /\ \A t \in Threads :
           /\ lock = t => sending[t].text \in Lines /\ sending[t].left \in {<<1, 2>>, <<2>>}
           /\ lock # t => \/ sending[t] = NoLine
                          \/ sending[t].text \in Lines /\ sending[t].left = <<1, 2>>
           /\ lock = t /\ alive /\ sending[t].left = <<2>> =>
                  Len(wire) > 0 /\ wire[Len(wire)] = <<sending[t].text, 1>>
    /\ LinesWhole

\* What is in buf belongs to the connection, once run has cleared buf.
Kept == IF rx \in {"publish", "up"} THEN 0 ELSE Len(buf)

\* The parts of a connection alternate: those in buf, on their way, and to come.
Stream ==
    /\ buf = <<>> \/ buf = <<Part>>
    /\ line = <<>> \/ line = Whole
    /\ open # {} =>
           /\ \A i \in 1 .. Len(input) - 1 : input[i + 1][2] = 3 - input[i][2]
           /\ input # <<>> => part = 3 - input[Len(input)][2]
           /\ (IF input = <<>> THEN part ELSE input[1][2]) = IF Kept = 0 THEN 1 ELSE 2

IInv == Types /\ Control /\ Sends /\ Stream

-----------------------------------------------------------------------------
(* Every step keeps it *)

\* No step breaks the types, given that a send_line under the mutex has a part to send.
LEMMA TypesStep == Types /\ Sends /\ [Next]_vars => Types'
<1> SUFFICES ASSUME Types /\ Sends, [Next]_vars PROVE Types'
  OBVIOUS
<1> USE DEF link, ssh, parser, Types, Threads, Places
<1>1. CASE RxCheck
  BY <1>1 DEF RxCheck, Goto
<1>2. CASE RxTunnel
  <2>1. job' \in BOOLEAN
    BY <1>2 DEF RxTunnel
  <2>2. tunnel' \in {"none", "alive", "dead"} /\ rx' \in Places
    BY <1>2 DEF RxTunnel, Goto
  <2> QED
    BY <1>2, <2>1, <2>2 DEF RxTunnel
<1>3. CASE RxConnect
  <2>1. alive' \in BOOLEAN /\ open' \subseteq Handles
    BY <1>3 DEF RxConnect, Goto
  <2>2. wire' \in Wires /\ input' \in Inputs
    BY <1>3, EmptySequence DEF RxConnect, Wires, Inputs
  <2> QED
    BY <1>3, <2>1, <2>2 DEF RxConnect, Goto
<1>4. CASE RxPublish
  BY <1>4 DEF RxPublish, Goto
<1>5. CASE RxUp
  BY <1>5 DEF RxUp, Goto
<1>6. CASE RxHello
  <2>1. sending' \in Calls
    BY <1>6 DEF RxHello, Call, Calls, Lines
  <2> QED
    BY <1>6, <2>1 DEF RxHello, Goto
<1>7. CASE RxChannels
  <2>1. sending' \in Calls
    BY <1>7 DEF RxChannels, Call, Calls, Lines
  <2> QED
    BY <1>7, <2>1 DEF RxChannels, Goto
<1>8. CASE RxLoop
  BY <1>8 DEF RxLoop, Goto
<1>9. CASE RxCopy
  BY <1>9 DEF RxCopy, Goto
<1>10. CASE RxRecv
  <2>1. posted' \in Nat
    BY <1>10 DEF RxRecv, Parse
  <2>2. input # <<>> => Tail(input) \in Inputs
    BY TailOf DEF Inputs
  <2>3. input' = input \/ (input # <<>> /\ input' = Tail(input))
    BY <1>10 DEF RxRecv
  <2>4. input' \in Inputs
    BY <2>2, <2>3
  <2>5. rx' \in Places
    BY <1>10 DEF RxRecv, Goto
  <2>6. UNCHANGED <<running, connected, sock, lock, tunnel, job, ui, cur, sending, open, alive,
                    wire, part, server>>
    BY <1>10 DEF RxRecv
  <2> QED
    BY <2>1, <2>4, <2>5, <2>6
<1>11. CASE RxDown
  <2>1. connected' \in BOOLEAN /\ rx' \in Places
    BY <1>11 DEF RxDown, Goto
  <2> QED
    BY <1>11, <2>1 DEF RxDown
<1>12. CASE RxClose
  <2>1. alive' \in BOOLEAN /\ open' \subseteq Handles
    BY <1>12 DEF RxClose, CloseSocket, Goto
  <2>2. wire' \in Wires /\ input' \in Inputs
    BY <1>12, EmptySequence DEF RxClose, CloseSocket, Wires, Inputs
  <2>3. /\ rx' \in Places /\ cur' \in Handles \cup {NoSocket}
        /\ sock' \in Handles \cup {NoSocket} /\ part' \in {1, 2}
    BY <1>12 DEF RxClose, CloseSocket, Goto
  <2>4. UNCHANGED <<running, connected, lock, tunnel, job, ui, sending, posted, server>>
    BY <1>12 DEF RxClose
  <2> QED
    BY <2>1, <2>2, <2>3, <2>4
<1>13. CASE RxPause
  BY <1>13 DEF RxPause, Goto
<1>14. CASE RxExit
  <2>1. connected' \in BOOLEAN /\ rx' \in Places
    BY <1>14 DEF RxExit, Goto
  <2> QED
    BY <1>14, <2>1 DEF RxExit
<1>15. CASE StopClose
  <2>1. alive' \in BOOLEAN /\ open' \subseteq Handles
    BY <1>15 DEF StopClose, CloseSocket
  <2>2. wire' \in Wires /\ input' \in Inputs
    BY <1>15, EmptySequence DEF StopClose, CloseSocket, Wires, Inputs
  <2>3. sock' \in Handles \cup {NoSocket} /\ part' \in {1, 2} /\ ui' = "joining"
    BY <1>15 DEF StopClose, CloseSocket
  <2>4. UNCHANGED <<running, connected, lock, tunnel, job, rx, cur, sending, posted, server>>
    BY <1>15 DEF StopClose
  <2> QED
    BY <2>1, <2>2, <2>3, <2>4
<1>16. CASE StopJoin
  BY <1>16 DEF StopJoin
<1>17. CASE Start
  BY <1>17 DEF Start
<1>18. CASE Stop
  <2>1. running' \in BOOLEAN
    BY <1>18 DEF Stop, Returned
  <2> QED
    BY <1>18, <2>1 DEF Stop, Returned
<1>19. CASE Message
  BY <1>19 DEF Message
<1>20. CASE Break
  <2>1. alive' \in BOOLEAN
    BY <1>20 DEF Break
  <2> QED
    BY <1>20, <2>1 DEF Break
<1>21. CASE SshDies
  <2>1. alive' \in BOOLEAN
    BY <1>21 DEF SshDies
  <2> QED
    BY <1>21, <2>1 DEF SshDies
<1>22. CASE ServerChanges
  <2>1. alive' \in BOOLEAN /\ server' \in BOOLEAN
    BY <1>22 DEF ServerChanges
  <2> QED
    BY <1>22, <2>1 DEF ServerChanges
<1>23. CASE ServerSends
  <2>1. Append(input, <<"reply", part>>) \in Inputs
    BY AppendOf DEF Inputs
  <2> QED
    BY <1>23, <2>1 DEF ServerSends
<1>24. ASSUME NEW t \in Threads, SendLock(t) PROVE Types'
  <2>1. sending' \in Calls
    BY <1>24 DEF SendLock, Calls, NoLine, Lines
  <2> QED
    BY <1>24, <2>1 DEF SendLock
<1>25. ASSUME NEW t \in Threads, SendPart(t) PROVE Types'
  <2>1. sending[t].text \in Lines /\ sending[t].left \in {<<1, 2>>, <<2>>}
    BY <1>25 DEF Sends, SendPart
  <2>2. /\ Head(sending[t].left) \in {1, 2}
        /\ Tail(sending[t].left) \in {<<>>, <<2>>}
    BY <2>1, Parts
  <2> DEFINE text == sending[t].text
             rest == Tail(sending[t].left)
  <2>3. wire' \in Wires
    <3>1. <<text, Head(sending[t].left)>> \in Lines \X {1, 2}
      BY <2>1, <2>2
    <3>2. Append(wire, <<text, Head(sending[t].left)>>) \in Wires
      BY <3>1, AppendOf DEF Wires
    <3> QED
      BY <1>25, <3>2 DEF SendPart
  <2>4. lock' \in Threads \cup {"free"}
    BY <1>25 DEF SendPart
  <2>5. sending' \in Calls
    <3> USE DEF Calls, NoLine, Lines
    <3>1. NoLine \in [text : Lines \cup {"none"}, left : {<<>>, <<1, 2>>, <<2>>}]
      OBVIOUS
    <3>2. [sending[t] EXCEPT !.left = rest] \in [text : Lines \cup {"none"}, left : {<<>>, <<1, 2>>, <<2>>}]
      BY <2>2
    <3>3. \E v \in [text : Lines \cup {"none"}, left : {<<>>, <<1, 2>>, <<2>>}] :
              sending' = [sending EXCEPT ![t] = v]
      BY <1>25, <3>1, <3>2 DEF SendPart
    <3> QED
      BY <3>3
  <2> QED
    BY <1>25, <2>3, <2>4, <2>5 DEF SendPart
<1>26. ASSUME NEW text \in {"channels", "samples"}, Request(text) PROVE Types'
  <2>1. sending' \in Calls
    BY <1>26 DEF Request, Call, Calls, Lines
  <2> QED
    BY <1>26, <2>1 DEF Request
<1>27. CASE UNCHANGED vars
  BY <1>27 DEF vars
<1> QED
  BY <1>1, <1>2, <1>3, <1>4, <1>5, <1>6, <1>7, <1>8, <1>9, <1>10, <1>11, <1>12, <1>13, <1>14, <1>15, <1>16, <1>17, <1>18, <1>19, <1>20, <1>21, <1>22, <1>23, <1>24, <1>25, <1>26, <1>27 DEF Next, Rx, Ui, Send

\* No step of a thread, of ssh or of the network breaks Control.
LEMMA ControlStep == Types /\ Control /\ Sends /\ [Next]_vars => Control'
<1> SUFFICES ASSUME Types /\ Control /\ Sends, [Next]_vars PROVE Control'
  OBVIOUS
<1> USE DEF link, ssh, parser, Types, Wires, Inputs, Calls, Control, Sends, Threads, Away, Using, Flagged
<1>1. CASE RxCheck
  BY <1>1 DEF RxCheck, Goto, Returned
<1>2. CASE RxTunnel
  BY <1>2 DEF RxTunnel, Goto, Returned
<1>3. CASE RxConnect
  BY <1>3 DEF RxConnect, Goto, Returned
<1>4. CASE RxPublish
  <2>1. cur # NoSocket
    BY <1>4, ClientAssumption DEF RxPublish, Goto
  <2> QED
    BY <1>4, <2>1 DEF RxPublish, Goto, Returned
<1>5. CASE RxUp
  BY <1>5 DEF RxUp, Goto, Returned
<1>6. CASE RxHello
  BY <1>6 DEF RxHello, Goto, Returned, Call
<1>7. CASE RxChannels
  BY <1>7 DEF RxChannels, Goto, Returned, Call
<1>8. CASE RxLoop
  BY <1>8 DEF RxLoop, Goto, Returned
<1>9. CASE RxCopy
  BY <1>9 DEF RxCopy, Goto, Returned
<1>10. CASE RxRecv
  BY <1>10 DEF RxRecv, Goto, Returned, Parse
<1>11. CASE RxDown
  BY <1>11 DEF RxDown, Goto, Returned
<1>12. CASE RxClose
  BY <1>12 DEF RxClose, Goto, Returned, CloseSocket
<1>13. CASE RxPause
  BY <1>13 DEF RxPause, Goto, Returned
<1>14. CASE RxExit
  BY <1>14 DEF RxExit, Goto, Returned
<1>15. CASE StopClose
  BY <1>15 DEF StopClose, CloseSocket
<1>16. CASE StopJoin
  BY <1>16 DEF StopJoin
<1>17. CASE Start
  BY <1>17 DEF Start, Returned
<1>18. CASE Stop
  BY <1>18 DEF Stop, Returned
<1>19. CASE Message
  BY <1>19 DEF Message, Returned
<1>20. CASE Break
  BY <1>20 DEF Break
<1>21. CASE SshDies
  BY <1>21 DEF SshDies
<1>22. CASE ServerChanges
  BY <1>22 DEF ServerChanges
<1>23. CASE ServerSends
  BY <1>23 DEF ServerSends
<1>24. ASSUME NEW t \in Threads, SendLock(t) PROVE Control'
  BY <1>24 DEF SendLock
<1>25. ASSUME NEW t \in Threads, SendPart(t) PROVE Control'
  BY <1>25 DEF SendPart
<1>26. ASSUME NEW text \in {"channels", "samples"}, Request(text) PROVE Control'
  BY <1>26 DEF Request, Call, Returned
<1>27. CASE UNCHANGED vars
  BY <1>27 DEF vars
<1> QED
  BY <1>1, <1>2, <1>3, <1>4, <1>5, <1>6, <1>7, <1>8, <1>9, <1>10, <1>11, <1>12, <1>13, <1>14, <1>15, <1>16, <1>17, <1>18, <1>19, <1>20, <1>21, <1>22, <1>23, <1>24, <1>25, <1>26, <1>27 DEF Next, Rx, Ui, Send

\* No step puts a part of another line between the parts of a line.
LEMMA SendsStep == Types /\ Control /\ Sends /\ [Next]_vars => Sends'
<1> SUFFICES ASSUME Types /\ Control /\ Sends, [Next]_vars PROVE Sends'
  OBVIOUS
<1> USE DEF link, ssh, parser, Types, Wires, Inputs, Calls, Control, Sends, LinesWhole, Threads, Away, Using, NoLine, Lines
<1>1. CASE RxCheck
  BY <1>1 DEF RxCheck, Goto, Returned
<1>2. CASE RxTunnel
  BY <1>2 DEF RxTunnel, Goto, Returned
<1>3. CASE RxConnect
  BY <1>3 DEF RxConnect, Goto, Returned
<1>4. CASE RxPublish
  BY <1>4 DEF RxPublish, Goto, Returned
<1>5. CASE RxUp
  BY <1>5 DEF RxUp, Goto, Returned
<1>6. CASE RxHello
  BY <1>6 DEF RxHello, Goto, Returned, Call
<1>7. CASE RxChannels
  BY <1>7 DEF RxChannels, Goto, Returned, Call
<1>8. CASE RxLoop
  BY <1>8 DEF RxLoop, Goto, Returned
<1>9. CASE RxCopy
  BY <1>9 DEF RxCopy, Goto, Returned
<1>10. CASE RxRecv
  BY <1>10 DEF RxRecv, Goto, Returned, Parse
<1>11. CASE RxDown
  BY <1>11 DEF RxDown, Goto, Returned
<1>12. CASE RxClose
  BY <1>12 DEF RxClose, Goto, Returned, CloseSocket
<1>13. CASE RxPause
  BY <1>13 DEF RxPause, Goto, Returned
<1>14. CASE RxExit
  BY <1>14 DEF RxExit, Goto, Returned
<1>15. CASE StopClose
  BY <1>15 DEF StopClose, CloseSocket
<1>16. CASE StopJoin
  BY <1>16 DEF StopJoin
<1>17. CASE Start
  BY <1>17 DEF Start, Returned
<1>18. CASE Stop
  BY <1>18 DEF Stop, Returned
<1>19. CASE Message
  BY <1>19 DEF Message, Returned
<1>20. CASE Break
  BY <1>20 DEF Break
<1>21. CASE SshDies
  BY <1>21 DEF SshDies
<1>22. CASE ServerChanges
  BY <1>22 DEF ServerChanges
<1>23. CASE ServerSends
  BY <1>23 DEF ServerSends
<1>24. ASSUME NEW t \in Threads, SendLock(t) PROVE Sends'
  BY <1>24 DEF SendLock
<1>25. ASSUME NEW t \in Threads, SendPart(t) PROVE Sends'
  <2> DEFINE text == sending[t].text
             left == sending[t].left
             next == [text |-> text, left |-> Tail(left)]
  <2>0. lock = t /\ text \in Lines /\ left \in {<<1, 2>>, <<2>>}
    BY <1>25 DEF SendPart
  <2>1. CASE ~alive
    BY <1>25, <2>0, <2>1 DEF SendPart
  <2>2. CASE alive /\ left = <<1, 2>>
    <3>1. Head(left) = 1 /\ Tail(left) = <<2>> /\ Tail(left) # <<>> /\ <<1, 2>> # <<2>>
      BY <2>2, Parts
    <3>2. wire' = Append(wire, <<text, 1>>) /\ lock' = t /\ alive' = alive
      BY <1>25, <2>2, <3>1 DEF SendPart
    <3>3. sending'[t].text = text /\ sending'[t].left = <<2>>
      BY <1>25, <2>2, <3>1 DEF SendPart
    <3>4. \A u \in Threads \ {t} : sending'[u] = sending[u]
      BY <1>25, <2>2 DEF SendPart
    <3>5. Len(wire') = Len(wire) + 1 /\ wire'[Len(wire')] = <<text, 1>>
      BY <3>2
    <3>6. LinesWhole'
      BY <3>2
    <3>7. /\ lock' = t /\ sending'[t].text \in Lines /\ sending'[t].left = <<2>>
          /\ Len(wire') > 0 /\ wire'[Len(wire')] = <<sending'[t].text, 1>>
      BY <2>0, <3>2, <3>3, <3>5
    <3>8. \A u \in Threads \ {t} :
              \/ sending'[u] = NoLine
              \/ sending'[u].text \in Lines /\ sending'[u].left = <<1, 2>>
      <4> SUFFICES ASSUME NEW u \in Threads \ {t}
                   PROVE  \/ sending[u] = NoLine
                          \/ sending[u].text \in Lines /\ sending[u].left = <<1, 2>>
        BY <3>4
      <4>1. lock # u
        BY <2>0
      <4> QED
        BY <4>1
    <3> QED
      BY <3>6, <3>7, <3>8
  <2>3. CASE alive /\ left = <<2>>
    <3>1. Head(left) = 2 /\ Tail(left) = <<>>
      BY <2>3, Parts
    <3>2. wire' = Append(wire, <<text, 2>>) /\ lock' = "free"
      BY <1>25, <2>3, <3>1 DEF SendPart
    <3>3. sending'[t] = NoLine
      BY <1>25, <2>3, <3>1 DEF SendPart
    <3>4. \A u \in Threads \ {t} : sending'[u] = sending[u]
      BY <1>25, <2>3 DEF SendPart
    <3>5. Len(wire) > 0 /\ wire[Len(wire)] = <<text, 1>>
      BY <2>0, <2>3
    <3>6. LinesWhole'
      BY <3>2, <3>5
    <3> QED
      BY <2>0, <3>2, <3>3, <3>4, <3>6
  <2> QED
    BY <2>0, <2>1, <2>2, <2>3
<1>26. ASSUME NEW text \in {"channels", "samples"}, Request(text) PROVE Sends'
  BY <1>26 DEF Request, Call, Returned
<1>27. CASE UNCHANGED vars
  BY <1>27 DEF vars
<1> QED
  BY <1>1, <1>2, <1>3, <1>4, <1>5, <1>6, <1>7, <1>8, <1>9, <1>10, <1>11, <1>12, <1>13, <1>14, <1>15, <1>16, <1>17, <1>18, <1>19, <1>20, <1>21, <1>22, <1>23, <1>24, <1>25, <1>26, <1>27 DEF Next, Rx, Ui, Send

\* No step, a new connection in particular, mixes the parts of two streams.
LEMMA StreamStep == IInv /\ [Next]_vars => Stream'
<1> SUFFICES ASSUME IInv, [Next]_vars PROVE Stream'
  OBVIOUS
<1> USE DEF link, ssh, parser, Stream, Kept, Part, Whole, Threads
<1>a. input \in Seq({"reply"} \X {1, 2}) /\ part \in {1, 2}
  BY DEF IInv, Types, Wires, Inputs, Calls
<1>b. Stream /\ Kept \in Nat
  BY DEF IInv
<1>1. CASE RxCheck
  BY <1>b, <1>1 DEF RxCheck, Goto, Returned
<1>2. CASE RxTunnel
  BY <1>b, <1>2 DEF RxTunnel, Goto, Returned
<1>3. CASE RxConnect
  <2>1. CASE rx' = "publish"
    <3>1. input' = <<>> /\ part' = 1 /\ buf' = buf /\ line' = line
      BY <1>b, <1>3, <2>1 DEF RxConnect, Goto
    <3>2. Len(input') = 0 /\ Kept' = 0
      BY <1>b, <2>1, <3>1
    <3> QED
      BY <1>b, <3>1, <3>2
  <2>2. CASE rx' = "pause"
    BY <1>b, <1>3, <2>2 DEF RxConnect, Goto
  <2> QED
    BY <1>b, <1>3, <2>1, <2>2 DEF RxConnect, Goto
<1>4. CASE RxPublish
  BY <1>b, <1>4 DEF RxPublish, Goto, Returned
<1>5. CASE RxUp
  BY <1>b, <1>5 DEF RxUp, Goto, Returned
<1>6. CASE RxHello
  BY <1>b, <1>6 DEF RxHello, Goto, Returned, Call
<1>7. CASE RxChannels
  BY <1>b, <1>7 DEF RxChannels, Goto, Returned, Call
<1>8. CASE RxLoop
  BY <1>b, <1>8 DEF RxLoop, Goto, Returned
<1>9. CASE RxCopy
  BY <1>b, <1>9 DEF RxCopy, Goto, Returned
<1>10. CASE RxRecv
  <2>1. CASE ~(cur \in open /\ input # <<>>)
    BY <1>b, <1>10, <2>1 DEF RxRecv, Goto
  <2>2. CASE cur \in open /\ input # <<>>
    <3>1. /\ rx = "recv" /\ rx' = "loop" /\ open' = open /\ part' = part
          /\ input' = Tail(input) /\ Parse(input[1])
      BY <1>a, <1>10, <2>2, TailOf DEF RxRecv, Goto
    <3>2. /\ Len(input) \in Nat \ {0} /\ Len(input') = Len(input) - 1
          /\ \A i \in 1 .. Len(input') : input'[i] = input[i + 1]
          /\ input' = <<>> <=> Len(input') = 0
      BY <1>a, <2>2, <3>1, TailOf
    <3>3. /\ Kept = Len(buf) /\ Kept' = Len(buf')
          /\ \A i \in 1 .. Len(input) - 1 : input[i + 1][2] = 3 - input[i][2]
          /\ part = 3 - input[Len(input)][2]
          /\ input[1][2] = IF Kept = 0 THEN 1 ELSE 2
      BY <1>b, <2>2, <3>1
    <3>4. /\ \A i \in 1 .. Len(input') - 1 : input'[i + 1][2] = 3 - input'[i][2]
          /\ input' # <<>> => part' = 3 - input'[Len(input')][2]
      BY <3>1, <3>2, <3>3
    <3>5. (IF input' = <<>> THEN part' ELSE input'[1][2]) = 3 - input[1][2]
      BY <3>1, <3>2, <3>3
    <3>6. input[1] = <<"reply", input[1][2]>>
      BY <1>a, <2>2, TailOf
    <3>7. CASE buf = <<>>
      <4>1. input[1] = Part /\ input[1][2] = 1
        BY <3>3, <3>6, <3>7
      <4>2. buf' = <<Part>> /\ line' = line /\ Kept' = 1
        BY <3>1, <3>3, <3>7, <4>1 DEF Parse
      <4> QED
        BY <1>b, <3>1, <3>4, <3>5, <4>1, <4>2
    <3>8. CASE buf = <<Part>>
      <4>1. input[1] = <<"reply", 2>> /\ input[1][2] = 2
        BY <3>3, <3>6, <3>8
      <4>2. buf' = <<>> /\ line' = Whole /\ Kept' = 0
        BY <3>1, <3>3, <3>8, <4>1 DEF Parse
      <4> QED
        BY <3>1, <3>4, <3>5, <4>1, <4>2
    <3> QED
      BY <1>b, <3>7, <3>8
  <2> QED
    BY <2>1, <2>2
<1>11. CASE RxDown
  BY <1>b, <1>11 DEF RxDown, Goto, Returned
<1>12. CASE RxClose
  <2>1. open' = {} /\ buf' = buf /\ line' = line
    BY <1>12 DEF RxClose, CloseSocket, Goto, IInv, Control, Using
  <2> QED
    BY <1>b, <2>1
<1>13. CASE RxPause
  BY <1>b, <1>13 DEF RxPause, Goto, Returned
<1>14. CASE RxExit
  BY <1>b, <1>14 DEF RxExit, Goto, Returned
<1>15. CASE StopClose
  <2>1. CASE sock = NoSocket
    <3>1. UNCHANGED <<open, input, part, buf, line, rx>>
      BY <1>b, <1>15, <2>1 DEF StopClose, CloseSocket
    <3> QED
      BY <1>b, <3>1
  <2>2. CASE sock # NoSocket
    <3>1. open = {sock}
      BY <1>b, <2>2 DEF IInv, Types, Control, Away, Using, Places
    <3>2. open' = {} /\ buf' = buf /\ line' = line
      BY <1>b, <1>15, <2>2, <3>1 DEF StopClose, CloseSocket
    <3> QED
      BY <1>b, <3>2
  <2> QED
    BY <1>b, <2>1, <2>2
<1>16. CASE StopJoin
  BY <1>b, <1>16 DEF StopJoin
<1>17. CASE Start
  <2>1. open' = {} /\ buf' = buf /\ line' = line
    BY <1>17 DEF Start, IInv, Control, Away
  <2> QED
    BY <1>b, <2>1
<1>18. CASE Stop
  BY <1>b, <1>18 DEF Stop, Returned
<1>19. CASE Message
  BY <1>b, <1>19 DEF Message, Returned
<1>20. CASE Break
  BY <1>b, <1>20 DEF Break
<1>21. CASE SshDies
  BY <1>b, <1>21 DEF SshDies
<1>22. CASE ServerChanges
  BY <1>b, <1>22 DEF ServerChanges
<1>23. CASE ServerSends
  <2>1. /\ input' = Append(input, <<"reply", part>>) /\ part' = 3 - part
        /\ open' = open /\ buf' = buf /\ line' = line /\ Kept' = Kept
    BY <1>23 DEF ServerSends
  <2>2. /\ Len(input) \in Nat /\ Len(input') = Len(input) + 1 /\ input' # <<>>
        /\ \A i \in 1 .. Len(input) : input'[i] = input[i]
        /\ input'[Len(input) + 1] = <<"reply", part>>
        /\ input = <<>> <=> Len(input) = 0
    BY <1>a, <2>1, AppendOf
  <2>3. input'[Len(input')][2] = part
    BY <2>2
  <2>4. CASE input = <<>>
    BY <1>a, <1>b, <2>1, <2>2, <2>3, <2>4
  <2>5. CASE input # <<>>
    <3>1. open # {} => \A i \in 1 .. Len(input') - 1 : input'[i + 1][2] = 3 - input'[i][2]
      BY <1>a, <1>b, <2>2, <2>3, <2>5
    <3> QED
      BY <1>a, <1>b, <2>1, <2>2, <2>3, <2>5, <3>1
  <2> QED
    BY <2>4, <2>5
<1>24. ASSUME NEW t \in Threads, SendLock(t) PROVE Stream'
  BY <1>b, <1>24 DEF SendLock
<1>25. ASSUME NEW t \in Threads, SendPart(t) PROVE Stream'
  BY <1>b, <1>25 DEF SendPart
<1>26. ASSUME NEW text \in {"channels", "samples"}, Request(text) PROVE Stream'
  BY <1>b, <1>26 DEF Request, Call, Returned
<1>27. CASE UNCHANGED vars
  BY <1>b, <1>27 DEF vars
<1> QED
  BY <1>1, <1>2, <1>3, <1>4, <1>5, <1>6, <1>7, <1>8, <1>9, <1>10, <1>11, <1>12, <1>13, <1>14, <1>15, <1>16, <1>17, <1>18, <1>19, <1>20, <1>21, <1>22, <1>23, <1>24, <1>25, <1>26, <1>27 DEF Next, Rx, Ui, Send

-----------------------------------------------------------------------------
(* The theorems *)

\* Control, Sends and Stream hold at every step of the two threads.
THEOREM ClientInvariant == Spec => []IInv
<1>1. Init => IInv
  <2> SUFFICES ASSUME Init PROVE IInv
    OBVIOUS
  <2> USE DEF Init
  <2>1. Types
    BY EmptySequence DEF Types, Wires, Inputs, Calls, Threads, NoLine, Places
  <2>2. Control
    BY DEF Control, Flagged, Using, Away
  <2>3. Sends
    BY DEF Sends, LinesWhole, Threads, NoLine
  <2>4. Stream
    BY DEF Stream
  <2> QED
    BY <2>1, <2>2, <2>3, <2>4 DEF IInv
<1>2. IInv /\ [Next]_vars => IInv'
  BY TypesStep, ControlStep, SendsStep, StreamStep DEF IInv
<1> QED
  BY <1>1, <1>2, PTL DEF Spec

\* On every connection, the lines of the two threads are sent whole (send_line).
THEOREM LinesAreWhole == Spec => []LinesWhole
<1>1. IInv => LinesWhole
  BY DEF IInv, Sends
<1> QED
  BY <1>1, ClientInvariant, PTL

\* handle_line only ever gets whole lines of one connection (run, RxUp).
THEOREM LinesOfOneConnection == Spec => []LineOfOneConnection
<1>1. IInv => LineOfOneConnection
  BY DEF IInv, Stream, LineOfOneConnection, Whole
<1> QED
  BY <1>1, ClientInvariant, PTL

\* The types, and connected() only with a socket, except while stop() runs.
THEOREM ConnectedWithSocket == Spec => []ConnectedHasSocket
<1>1. IInv => TypeOK
  <2> SUFFICES ASSUME IInv PROVE TypeOK
    OBVIOUS
  <2>1. \A i \in 1 .. Len(wire) : wire[i] \in Lines \X {1, 2}
    BY DEF IInv, Types, Wires, Inputs, Calls
  <2>2. \A i \in 1 .. Len(input) : input[i] \in {"reply"} \X {1, 2}
    BY DEF IInv, Types, Wires, Inputs, Calls
  <2>3. \A t \in Threads : sending[t].text \in Lines \cup {"none"}
    BY DEF IInv, Types, Wires, Inputs, Calls
  <2> QED
    BY <2>1, <2>2, <2>3 DEF IInv, Types, Wires, Inputs, Calls, TypeOK
<1>2. IInv => (connected /\ running => sock # NoSocket)
  BY DEF IInv, Control, Flagged, Using
<1>3. IInv => ConnectedHasSocket
  BY <1>1, <1>2 DEF ConnectedHasSocket
<1> QED
  BY <1>3, ClientInvariant, PTL

\* Never two sockets, and nothing is left after stop(), for any number of
\* handles and however often the client is started and stopped.
THEOREM NothingIsLeft == Spec => []NothingLeft
<1>1. IInv => NothingLeft
  <2> SUFFICES ASSUME IInv PROVE NothingLeft
    OBVIOUS
  <2>1. \/ open = {} \/ \E h \in Handles : open = {h}
    BY DEF IInv, Types, Control, Away, Using, Places
  <2>2. Cardinality(open) =< 1
    <3>1. CASE open = {}
      BY <3>1, FS_EmptySet
    <3>2. ASSUME NEW h \in Handles, open = {h} PROVE Cardinality(open) =< 1
      <4>1. Cardinality({h}) = 1
        BY FS_Singleton
      <4> QED
        BY <3>2, <4>1
    <3> QED
      BY <2>1, <3>1, <3>2
  <2>3. ui = "idle" /\ ~running => /\ rx = "none" /\ open = {} /\ sock = NoSocket
                                   /\ tunnel = "none" /\ ~job /\ ~connected
    BY DEF IInv, Control, Away, Flagged
  <2> QED
    BY <2>2, <2>3 DEF NothingLeft
<1> QED
  BY <1>1, ClientInvariant, PTL


-----------------------------------------------------------------------------
(* stop() waits for a bounded number of steps *)

\* Both measures are small numbers.
Measured == LineLeft \in 0 .. 3 /\ PlacesLeft \in 0 .. 18

LEMMA MeasureTypes == Types => Measured
<1> SUFFICES ASSUME Types PROVE Measured
  OBVIOUS
<1>1. LineLeft \in {0, 1, 2, 3}
  BY DEF LineLeft
<1>2. rx \in Places
  BY DEF Types
<1>3. PlacesLeft \in 0 .. 18
  BY <1>2 DEF PlacesLeft, Places
<1> QED
  BY <1>1, <1>3 DEF Measured

\* A thread that is not sending a line has no steps of a line left.
LEMMA NoLineLeft ==
    /\ Returned("rx") => LineLeft = 0
    /\ Returned("rx") /\ sending' = sending => LineLeft' = 0
  BY DEF Returned, NoLine, LineLeft

\* Sums of small numbers: a step of the line, a step of the place, a call.
LEMMA Sums ==
    ASSUME NEW a \in 0 .. 3, NEW b \in 0 .. 18, NEW c \in 0 .. 3, NEW d \in 0 .. 18,
           \/ c < a /\ d = b
           \/ c = a /\ d < b
           \/ d + 3 < b
    PROVE  c + d < a + b
  OBVIOUS

\* The sum of the two.
LEMMA StepsLeftSum ==
    /\ StepsLeft = LineLeft + PlacesLeft
    /\ StepsLeft' = LineLeft' + PlacesLeft'
  BY DEF StepsLeft

\* A step from one place to a nearer one, without a call.
LEMMA GotoNearer ==
    ASSUME Measured, Measured', Returned("rx"), sending' = sending, PlacesLeft' < PlacesLeft
    PROVE  StepsLeft' < StepsLeft
<1>1. LineLeft = 0 /\ LineLeft' = 0
  BY NoLineLeft
<1>2. /\ PlacesLeft \in 0 .. 18 /\ PlacesLeft' \in 0 .. 18
      /\ LineLeft \in 0 .. 3 /\ LineLeft' \in 0 .. 3
  BY DEF Measured
<1> QED
  BY <1>1, <1>2, StepsLeftSum, Sums

\* A call of send_line adds three steps at most.
LEMMA CallNearer ==
    ASSUME Measured, Measured', Returned("rx"), PlacesLeft' + 3 < PlacesLeft
    PROVE  StepsLeft' < StepsLeft
<1>1. LineLeft = 0 /\ LineLeft' \in 0 .. 3
  BY NoLineLeft DEF Measured
<1>2. /\ PlacesLeft \in 0 .. 18 /\ PlacesLeft' \in 0 .. 18
      /\ LineLeft \in 0 .. 3 /\ LineLeft' \in 0 .. 3
  BY DEF Measured
<1> QED
  BY <1>1, <1>2, StepsLeftSum, Sums

\* A step of send_line is one of its line.
LEMMA SendNearer ==
    ASSUME Types, Sends, Measured, Measured', Send("rx")
    PROVE  StepsLeft' < StepsLeft
<1>1. rx' = rx
  BY DEF Send, SendLock, SendPart
<1>2. PlacesLeft' = PlacesLeft
  BY <1>1 DEF PlacesLeft
<1>3. LineLeft' < LineLeft
  <2>1. sending \in Calls /\ "rx" \in Threads
    BY DEF Types, Threads
  <2>2. CASE SendLock("rx")
    <3>1. LineLeft = 3
      BY <2>2, Parts DEF SendLock, LineLeft
    <3>2. CASE sock = NoSocket
      <4>1. sending'["rx"] = NoLine
        BY <2>1, <2>2, <3>2 DEF SendLock, Calls
      <4> QED
        BY <3>1, <4>1 DEF LineLeft, NoLine
    <3>3. CASE sock # NoSocket
      <4>1. sending'["rx"].left = <<1, 2>> /\ lock' = "rx"
        BY <2>2, <3>3 DEF SendLock
      <4> QED
        BY <3>1, <4>1, Parts DEF LineLeft
    <3> QED
      BY <3>2, <3>3
  <2>3. CASE SendPart("rx")
    <3>1. lock = "rx" /\ sending["rx"].left \in {<<1, 2>>, <<2>>}
      BY <2>1, <2>3 DEF SendPart, Sends
    <3>2. CASE sending'["rx"] = NoLine
      <4>1. LineLeft' = 0
        BY <3>2 DEF LineLeft, NoLine
      <4>2. LineLeft \in {1, 2}
        BY <3>1, Parts DEF LineLeft
      <4> QED
        BY <4>1, <4>2
    <3>3. CASE sending'["rx"] # NoLine
      <4>1. alive /\ Tail(sending["rx"].left) # <<>>
        BY <2>1, <2>3, <3>3 DEF SendPart, Calls
      <4>2. sending["rx"].left = <<1, 2>>
        BY <3>1, <4>1, Parts
      <4>3. sending'["rx"].left = <<2>>
        BY <2>1, <2>3, <4>1, <4>2, Parts DEF SendPart, Calls
      <4>4. LineLeft = 2 /\ LineLeft' = 1
        BY <3>1, <4>2, <4>3, Parts DEF LineLeft
      <4> QED
        BY <4>4
    <3> QED
      BY <3>2, <3>3
  <2> QED
    BY <2>2, <2>3 DEF Send
<1>4. LineLeft \in 0 .. 3 /\ LineLeft' \in 0 .. 3 /\ PlacesLeft \in 0 .. 18
  BY DEF Measured
<1> QED
  BY <1>2, <1>3, <1>4, StepsLeftSum, Sums

\* Every step of the receiving thread after stop() has begun.
LEMMA RxNearer ==
    ASSUME Types, Sends, Measured, Measured', ~running, Rx
    PROVE  StepsLeft' < StepsLeft
<1> USE DEF Goto, PlacesLeft
<1>1. CASE RxCheck
  BY <1>1, GotoNearer DEF RxCheck
<1>2. CASE RxTunnel
  BY <1>2, GotoNearer DEF RxTunnel
<1>3. CASE RxConnect
  BY <1>3, GotoNearer DEF RxConnect
<1>4. CASE RxPublish
  BY <1>4, GotoNearer DEF RxPublish
<1>5. CASE RxUp
  BY <1>5, GotoNearer DEF RxUp
<1>6. CASE RxHello
  BY <1>6, CallNearer DEF RxHello
<1>7. CASE RxChannels
  BY <1>7, CallNearer DEF RxChannels
<1>8. CASE RxLoop
  BY <1>8, GotoNearer DEF RxLoop
<1>9. CASE RxCopy
  BY <1>9, GotoNearer DEF RxCopy
<1>10. CASE RxRecv
  BY <1>10, GotoNearer DEF RxRecv
<1>11. CASE RxDown
  BY <1>11, GotoNearer DEF RxDown
<1>12. CASE RxClose
  BY <1>12, GotoNearer DEF RxClose
<1>13. CASE RxPause
  BY <1>13, GotoNearer DEF RxPause
<1>14. CASE RxExit
  BY <1>14, GotoNearer DEF RxExit
<1>15. CASE Send("rx")
  BY <1>15, SendNearer
<1> QED
  BY <1>1, <1>2, <1>3, <1>4, <1>5, <1>6, <1>7, <1>8, <1>9, <1>10, <1>11, <1>12, <1>13, <1>14,
     <1>15 DEF Rx

\* Once stop() has begun, every step of the receiving thread brings it nearer to
\* its end, for any number of handles (StopBounded): from the types and the
\* order of the places, and because running_ stays cleared.
THEOREM StopIsBounded == Spec => StopBounded
<1>1. IInv /\ Measured /\ Measured' /\ [Next]_vars => [ui # "idle" => RxRests \/ StepsLeft' < StepsLeft]_vars
  <2> SUFFICES ASSUME IInv, Measured, Measured', Next, ui # "idle"
               PROVE  RxRests \/ StepsLeft' < StepsLeft
    OBVIOUS
  <2>1. Types /\ Sends /\ ~running
    BY DEF IInv, Control
  <2>2. CASE Rx
    BY <2>1, <2>2, RxNearer
  <2>3. CASE StopClose \/ StopJoin
    BY <2>3 DEF StopClose, StopJoin, RxRests
  <2>4. CASE Send("ui")
    <3>1. sending \in Calls
      BY <2>1 DEF Types
    <3>2. sending'["rx"] = sending["rx"]
      BY <2>4, <3>1 DEF Send, SendLock, SendPart, Calls, Threads
    <3>3. lock # "rx" /\ lock' # "rx" /\ rx' = rx
      BY <2>4 DEF Send, SendLock, SendPart
    <3> QED
      BY <3>2, <3>3 DEF RxRests
  <2>5. CASE Start \/ Stop \/ Message \/ \E text \in {"channels", "samples"} : Request(text)
    BY <2>5 DEF Start, Stop, Message, Request
  <2>6. CASE Break \/ SshDies \/ ServerChanges \/ ServerSends
    BY <2>6 DEF Break, SshDies, ServerChanges, ServerSends, RxRests
  <2> QED
    BY <2>2, <2>3, <2>4, <2>5, <2>6 DEF Next, Ui
<1>2. IInv => Measured
  BY MeasureTypes DEF IInv
<1> QED
  BY <1>1, <1>2, ClientInvariant, PTL DEF Spec, StopBounded
=============================================================================
