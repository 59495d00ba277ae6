---------------------------- MODULE MCMonitorPy ----------------------------
(***************************************************************************)
(* A small instance of MonitorPy: a channel that comes and goes, changes   *)
(* its title or only its viewer count, and may be listed twice.  The       *)
(* statements treat each channel for itself.                               *)
(***************************************************************************)
EXTENDS MonitorPy

CONSTANTS c1, a, b

\* The title stays while the count changes, or both change.
MCLives ==
    {[channel |-> c1, title |-> a, viewers |-> 1],
     [channel |-> c1, title |-> a, viewers |-> 2],
     [channel |-> c1, title |-> b, viewers |-> 2]}

\* A channel listed twice differs in both.
MCLists == {<<>>} \cup {<<l>> : l \in MCLives} \cup
           {<<p[1], p[2]>> : p \in {q \in MCLives \X MCLives : /\ q[1].title # q[2].title
                                                               /\ q[1].viewers # q[2].viewers}}
=============================================================================
