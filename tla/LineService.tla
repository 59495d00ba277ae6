---------------------------- MODULE LineService ----------------------------
(***************************************************************************)
(* What PROTOCOL.md promises each client of the relay, whichever of the    *)
(* two servers answers: the replies to its lines, each once, whole and in  *)
(* the order of the lines, until the connection ends.  What was answered   *)
(* and not yet delivered may be lost with the connection, what was         *)
(* delivered stays.  Pings and the final bye are not part of it.           *)
(***************************************************************************)
EXTENDS Naturals, Sequences

CONSTANT Peers

VARIABLES
    asked,      \* per peer: the replies that its lines so far deserve
    answered,   \* of these, the ones the server has produced
    delivered,  \* of these, the ones the client has read
    ended       \* the connection is over

serviceVars == <<asked, answered, delivered, ended>>

ServiceInit ==
    /\ asked = [p \in Peers |-> <<>>]
    /\ answered = [p \in Peers |-> <<>>]
    /\ delivered = [p \in Peers |-> <<>>]
    /\ ended = [p \in Peers |-> FALSE]

-----------------------------------------------------------------------------
\* The client sends a line, or a part of one.
Ask(p) ==
    /\ asked'[p] # asked[p]
    /\ Len(asked'[p]) = Len(asked[p]) + 1
    /\ SubSeq(asked'[p], 1, Len(asked[p])) = asked[p]
    /\ answered'[p] = answered[p] /\ delivered'[p] = delivered[p] /\ ended'[p] = ended[p]

\* The server answers some of the lines that wait, in order; or it ends the
\* connection, and what was not sent is lost.
Serve(p) ==
    /\ ~ended[p]
    /\ \E n \in Len(delivered[p]) .. Len(asked[p]) :
           /\ answered'[p] = SubSeq(asked[p], 1, n)
           /\ n < Len(answered[p]) => ended'[p]
    /\ asked'[p] = asked[p] /\ delivered'[p] = delivered[p]

\* The client reads a reply, also after the end.
Deliver(p) ==
    /\ Len(delivered[p]) < Len(answered[p])
    /\ delivered'[p] = SubSeq(answered[p], 1, Len(delivered[p]) + 1)
    /\ asked'[p] = asked[p] /\ answered'[p] = answered[p] /\ ended'[p] = ended[p]

Quiet(p) ==
    /\ asked'[p] = asked[p] /\ answered'[p] = answered[p]
    /\ delivered'[p] = delivered[p] /\ ended'[p] = ended[p]

\* One step of the system may serve several clients.
ServiceNext == \A p \in Peers : Quiet(p) \/ Deliver(p) \/ Serve(p) \/ Ask(p)

ServiceSpec == ServiceInit /\ [][ServiceNext]_serviceVars
=============================================================================
