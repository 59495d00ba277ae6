------------------------------ MODULE ViewerLog ------------------------------
(***************************************************************************)
(* What the collector promises to every reader of the database, whatever   *)
(* its internal steps, crashes and restarts: a poll becomes visible as a   *)
(* whole or not at all, a committed row is never rewritten, and only what  *)
(* is older than the retention period disappears.                          *)
(*                                                                         *)
(* "observed" is the set of broadcasts the completed polls reported.       *)
(***************************************************************************)
EXTENDS MonitorDb

CONSTANT Retain     \* retention period, in the unit of the clock

VARIABLES now, db, observed

logVars == <<now, db, observed>>

Observation == [ts : Nat, live : Live]

LogInit ==
    /\ now \in Nat
    /\ db = EmptyDb
    /\ observed = {}

Advance ==
    /\ now' > now
    /\ UNCHANGED <<db, observed>>

-----------------------------------------------------------------------------
\* Committed rows survive a poll, and the rows it adds carry its time t.
OnlyAdds(old, new, t) ==
    /\ old \subseteq new
    /\ \A r \in new \ old : r.ts = t

\* After a poll at t the minute t has a sample of exactly the channels that
\* were observed in it, with a viewer count that was observed.
WholeMinute(samples, seen, t) ==
    /\ \A r \in samples : r.ts = t =>
           \E o \in seen : /\ o.ts = t
                           /\ o.live.channel = r.channel
                           /\ o.live.viewers = r.viewers
    /\ \A o \in seen : o.ts = t =>
           \E r \in samples : r.ts = t /\ r.channel = o.live.channel

\* A channel row keeps its first_seen; last_seen stays or becomes t.
SpanExtended(old, new, t) ==
    /\ \A r \in old : \E q \in new :
           /\ q.channel = r.channel
           /\ q.first_seen = r.first_seen
           /\ q.last_seen \in {r.last_seen, t}
    /\ \A q \in new : q.last_seen = t \/ q \in old

\* Every channel observed at t is listed as last seen at t, and has a title.
Listed(new, seen, t) ==
    \A o \in seen : o.ts = t =>
        /\ \E q \in new.channels : q.channel = o.live.channel /\ q.last_seen = t
        /\ \E r \in new.info : r.channel = o.live.channel

Poll(t) ==
    /\ t =< now
    /\ \A r \in db.samples : r.ts =< t
    /\ OnlyAdds(observed, observed', t)
    /\ OnlyAdds(db.samples, db'.samples, t)
    /\ OnlyAdds(db.info, db'.info, t)
    /\ WholeMinute(db'.samples, observed', t)
    /\ SpanExtended(db.channels, db'.channels, t)
    /\ Listed(db', observed', t)
    /\ UNCHANGED now

ForgetSamples ==
    /\ db'.samples \subseteq db.samples
    /\ \A r \in db.samples \ db'.samples : r.ts < now - Retain
    /\ db'.info = db.info /\ db'.channels = db.channels
    /\ UNCHANGED <<now, observed>>

\* Only a title that was replaced, and is old, is forgotten.
ForgetTitles ==
    /\ db'.info \subseteq db.info
    /\ \A r \in db.info \ db'.info :
           /\ r.ts < now - Retain
           /\ \E q \in db.info : q.channel = r.channel /\ q.ts > r.ts
    /\ db'.samples = db.samples /\ db'.channels = db.channels
    /\ UNCHANGED <<now, observed>>

LogNext ==
    \/ Advance
    \/ \E t \in 0 .. now : Poll(t)
    \/ ForgetSamples
    \/ ForgetTitles

LogSpec == LogInit /\ [][LogNext]_logVars
=============================================================================
