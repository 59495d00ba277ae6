------------------------------- MODULE Readers -------------------------------
(***************************************************************************)
(* The queries of sm_push on the database that sm_collector writes: two    *)
(* processes, one file.  In WAL mode a SELECT sees the committed database  *)
(* of its own start and never waits for the writer.  A reply to "samples"  *)
(* is put together from two SELECTs, and any step of the collector may     *)
(* come between them: the commit of a poll or one of the purge's DELETEs.  *)
(*                                                                         *)
(* sm_push handles one request at a time, so one half-read reply is all    *)
(* there is.  What the other requests would answer is a function of the    *)
(* database and needs no state.                                            *)
(***************************************************************************)
EXTENDS Collector

CONSTANTS
    Ranges,     \* the [from, to] that handle_line accepts
    Window      \* what the channel list looks back, 7 * 86400

ASSUME RangesAssumption == Ranges \subseteq [from : Nat, to : Nat] /\ Window \in Nat

VARIABLES
    asked,      \* the samples request that is being answered, if any
    points      \* the rows its first SELECT returned

readVars == <<asked, points>>
allVars == <<now, db, observed, pc, stop, ts, lives, cursor, row, tx, cutoff,
             last_purge, wake, asked, points>>

-----------------------------------------------------------------------------
(* The statements *)

\* Mistake: ts<=? left out.
PointRowsOpen(samples, c, range) ==
    {r \in samples : r.channel = c /\ range.from =< r.ts}

\* Queries::points_
PointRows(samples, c, range) ==
    {r \in samples : r.channel = c /\ range.from =< r.ts /\ r.ts =< range.to}

\* Mistake: MAX(ts) ... ts < ?2, so that a change at "from" itself is lost.
InfoRowsStrict(info, c, range) ==
    {r \in info : /\ r.channel = c
                  /\ r.ts < range.from
                  /\ \A q \in info : q.channel = c /\ q.ts < range.from => q.ts =< r.ts}
    \cup {r \in info : r.channel = c /\ range.from < r.ts /\ r.ts =< range.to}

\* Queries::info_: the row in force at "from", if any, and the changes after it.
InfoRows(info, c, range) ==
    TitleAt(info, c, range.from)
    \cup {r \in info : r.channel = c /\ range.from < r.ts /\ r.ts =< range.to}

\* The join of Queries::channels_: the samples of c in the last seven days.
Recent(samples, c, since) ==
    {s \in samples : s.channel = c /\ s.ts >= since}

\* Mistake: the subquery looks at first_seen.
CurrentAtFirst(d, c) ==
    {s \in d.samples : s.channel = c.channel /\ s.ts = c.first_seen}

\* Its scalar subquery: the samples at the channel's last_seen.
CurrentOf(d, c) ==
    {s \in d.samples : s.channel = c.channel /\ s.ts = c.last_seen}

\* The channels a reply to "channels" lists.
ListedChannels(d, since) ==
    {c \in d.channels : Recent(d.samples, c.channel, since) # {}}

-----------------------------------------------------------------------------
(* The request *)

ReaderInit ==
    /\ Init
    /\ asked = {}
    /\ points = {}

\* The first SELECT of Queries::samples.
ReadPoints(c, range) ==
    /\ asked = {}
    /\ asked' = {[channel |-> c, range |-> range]}
    /\ points' = PointRows(db.samples, c, range)
    /\ UNCHANGED vars

\* The second SELECT, after which the reply is complete; or one of them
\* throws, which ends the server, or it is killed.
FinishRead ==
    /\ asked # {}
    /\ asked' = {}
    /\ points' = {}
    /\ UNCHANGED vars

CollectorStep ==
    /\ Next
    /\ UNCHANGED readVars

ReaderNext ==
    \/ CollectorStep
    \/ \E c \in Channels, range \in Ranges : ReadPoints(c, range)
    \/ FinishRead

ReaderSpec == ReaderInit /\ [][ReaderNext]_allVars

\* The collector is scheduled as before; nothing is asked of the server.
ReaderFairSpec ==
    /\ ReaderSpec
    /\ WF_allVars(Step /\ UNCHANGED readVars)
    /\ WF_allVars(Tick /\ UNCHANGED readVars)

-----------------------------------------------------------------------------
(* What the client sees, if the second SELECT runs now *)

\* The tooltip's search: the last info row not after the point's time.
Shown(request, p) ==
    LET rows == {r \in InfoRows(db.info, request.channel, request.range) : r.ts =< p.ts}
    IN  {r \in rows : \A q \in rows : q.ts =< r.ts}

\* A title shown at a point was reported for that channel in that minute,
\* although polls and purges are committed between the two SELECTs.
ShownObserved ==
    \A request \in asked : \A p \in points : \A r \in Shown(request, p) :
        \E o \in observed : /\ o.ts = p.ts
                            /\ o.live.channel = p.channel
                            /\ o.live.title = r.title

\* The rows of a reply are enough: the client's search in them finds what
\* README.md defines as the title at the point's time.
ShownIsTitleAt ==
    \A request \in asked : \A p \in points :
        Shown(request, p) = TitleAt(db.info, request.channel, p.ts)

\* "current" is never NULL nor ambiguous, and it is one of the samples from
\* which "peak" is taken: the client never shows a current count above the
\* week's peak, whatever the purge and a slow poll have done to the week.
CurrentInWindow ==
    \A c \in ListedChannels(db, now - Window) :
        \E s \in Recent(db.samples, c.channel, now - Window) : CurrentOf(db, c) = {s}
=============================================================================
