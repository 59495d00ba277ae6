------------------------------ MODULE MonitorDb ------------------------------
(***************************************************************************)
(* The SQLite file the collector writes and the push server reads, as the  *)
(* effect of the collector's SQL statements on three tables.  A table is a *)
(* set of rows.  A (category, title) pair is one element of Titles; the    *)
(* display name of a channel is left out, no property is about it.         *)
(***************************************************************************)
EXTENDS Integers

CONSTANTS
    Channels,   \* channel ids
    Titles,     \* (category, title) pairs
    Viewers     \* viewer counts

\* One broadcast as the live list reports it (struct Live).
Live == [channel : Channels, viewers : Viewers, title : Titles]

SampleRow  == [channel : Channels, ts : Nat, viewers : Viewers]
InfoRow    == [channel : Channels, ts : Nat, title : Titles]
ChannelRow == [channel : Channels, first_seen : Nat, last_seen : Nat]

Database == [samples  : SUBSET SampleRow,
             info     : SUBSET InfoRow,
             channels : SUBSET ChannelRow]

EmptyDb == [samples |-> {}, info |-> {}, channels |-> {}]

-----------------------------------------------------------------------------
(* Store::record's statements *)

\* Mistake: INSERT OR REPLACE.
InsertOrReplace(table, row) ==
    {r \in table : r.channel # row.channel \/ r.ts # row.ts} \cup {row}

\* INSERT OR IGNORE into a table whose primary key is (channel_id, ts).
InsertOrIgnore(table, row) ==
    IF \E r \in table : r.channel = row.channel /\ r.ts = row.ts
    THEN table
    ELSE table \cup {row}

\* INSERT ... ON CONFLICT(channel_id) DO UPDATE: first_seen is left alone.
UpsertChannel(table, c, t) ==
    IF \E r \in table : r.channel = c
    THEN {IF r.channel = c THEN [r EXCEPT !.last_seen = t] ELSE r : r \in table}
    ELSE table \cup {[channel |-> c, first_seen |-> t, last_seen |-> t]}

\* Mistake: no WHERE channel_id.
LatestOfAny(info, c) ==
    {r \in info : \A q \in info : q.ts =< r.ts}

\* SELECT ... WHERE channel_id=? ORDER BY ts DESC LIMIT 1: at most one row.
Latest(info, c) ==
    {r \in info : r.channel = c /\ \A q \in info : q.channel = c => q.ts =< r.ts}

\* Mistake: the comparison is with the whole history.
RecordNewTitle(info, c, t, title) ==
    IF \E r \in info : r.channel = c /\ r.title = title
    THEN info
    ELSE InsertOrIgnore(info, [channel |-> c, ts |-> t, title |-> title])

\* A title row is written only if it differs from the channel's latest one.
RecordTitle(info, c, t, title) ==
    IF \E r \in Latest(info, c) : r.title = title
    THEN info
    ELSE InsertOrIgnore(info, [channel |-> c, ts |-> t, title |-> title])

\* Mistake: a sample, too, is written only if it differs from the latest one.
RecordLiveOnChange(db, t, live) ==
    LET own    == {r \in db.samples : r.channel = live.channel}
        latest == {r \in own : \A q \in own : q.ts =< r.ts}
    IN  [samples  |-> IF \E r \in latest : r.viewers = live.viewers
                      THEN db.samples
                      ELSE InsertOrIgnore(db.samples, [channel |-> live.channel, ts |-> t,
                                                       viewers |-> live.viewers]),
         info     |-> RecordTitle(db.info, live.channel, t, live.title),
         channels |-> UpsertChannel(db.channels, live.channel, t)]

\* What one element of the poll's result does to the three tables.
RecordLive(db, t, live) ==
    [samples  |-> InsertOrIgnore(db.samples,
                      [channel |-> live.channel, ts |-> t, viewers |-> live.viewers]),
     info     |-> RecordTitle(db.info, live.channel, t, live.title),
     channels |-> UpsertChannel(db.channels, live.channel, t)]

-----------------------------------------------------------------------------
(* Store::purge's statements, each a transaction of its own *)

\* Mistake: the minute of the cutoff goes as well.
PurgeSamplesAt(db, cutoff) ==
    [db EXCEPT !.samples = {r \in @ : r.ts > cutoff}]

PurgeSamples(db, cutoff) ==
    [db EXCEPT !.samples = {r \in @ : r.ts >= cutoff}]

\* Mistake: the newest row of the whole table is the exception.
PurgeInfoUncorrelated(db, cutoff) ==
    [db EXCEPT !.info = {r \in @ : r.ts >= cutoff \/ \A q \in db.info : q.ts =< r.ts}]

\* Rows older than cutoff go, except the newest row of each channel.
PurgeInfo(db, cutoff) ==
    [db EXCEPT !.info = {r \in @ :
        \/ r.ts >= cutoff
        \/ \A q \in db.info : q.channel = r.channel => q.ts =< r.ts}]

-----------------------------------------------------------------------------
(* Queries *)

\* The title in force at time t: the row with the greatest ts =< t, if any.
TitleAt(info, c, t) ==
    {r \in info : /\ r.channel = c
                  /\ r.ts =< t
                  /\ \A q \in info : q.channel = c /\ q.ts =< t => q.ts =< r.ts}
=============================================================================
