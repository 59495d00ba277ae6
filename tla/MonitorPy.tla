------------------------------ MODULE MonitorPy ------------------------------
(***************************************************************************)
(* monitor.py, the reference implementation of the collector: the same     *)
(* loop on the same tables, one connection with Python's implicit          *)
(* transactions.  The first INSERT or DELETE opens one, commit() ends it,  *)
(* and nothing in the loop rolls back: what a failed poll or purge has     *)
(* written stays in the open transaction over the sleep, is seen by the    *)
(* next poll and committed with it.  The end of the process drops it.      *)
(*                                                                         *)
(* Nobody sees the open transaction but the process itself, so that        *)
(* record() and purge_old() are one action each, which is told after how   *)
(* many of their writes they fail.                                         *)
(***************************************************************************)
EXTENDS MonitorDb, Sequences

CONSTANTS
    Lists,      \* what fetch_top_lives may return: sequences of Live
    PollSec,    \* SM_POLL_SEC
    Retain,     \* SM_RETAIN_DAYS * 86400
    PurgeEvery, \* 3600 in the code
    StartTime,  \* the clock when the first process starts
    MaxNow      \* bound: the clock stops here

ASSUME PyAssumption ==
    /\ \A lives \in Lists : lives \in Seq(Live)
    /\ PollSec \in Nat \ {0} /\ Retain \in Nat /\ Retain >= PollSec
    /\ PurgeEvery \in Nat /\ StartTime \in Nat /\ StartTime > PurgeEvery
    /\ MaxNow \in Nat

VARIABLES
    now,        \* time.time()
    db,         \* the committed database
    tx,         \* what the connection sees: db, unless a transaction is open
    reported,   \* history: what the polls whose result reached record() reported
    complete,   \* history: of these, the polls whose record() returned
    pc,         \* where the process is; "down" when there is none
    stop,
    ts,         \* run_once: time stamp of this poll
    last_purge, \* main
    wake        \* main: end of the sleep

vars == <<now, db, tx, reported, complete, pc, stop, ts, last_purge, wake>>

Init ==
    /\ now = StartTime
    /\ db = EmptyDb /\ tx = EmptyDb
    /\ reported = {} /\ complete = {}
    /\ pc = "down" /\ stop = FALSE
    /\ ts = 0 /\ last_purge = 0 /\ wake = 0

-----------------------------------------------------------------------------
(* record *)

\* executemany of the samples, executemany of the channels, then the titles.
WriteSample(d, t, live) ==
    [d EXCEPT !.samples = InsertOrIgnore(@, [channel |-> live.channel, ts |-> t,
                                             viewers |-> live.viewers])]
WriteChannel(d, t, live) == [d EXCEPT !.channels = UpsertChannel(@, live.channel, t)]

\* Mistake: the title is compared with the one of the poll before.
WriteTitleUnread(d, t, live) ==
    [d EXCEPT !.info = IF \E r \in @ : r.channel = live.channel /\ r.title = live.title
                                       /\ r.ts >= t - PollSec
                       THEN @
                       ELSE InsertOrIgnore(@, [channel |-> live.channel, ts |-> t,
                                               title |-> live.title])]

WriteTitle(d, t, live) == [d EXCEPT !.info = RecordTitle(@, live.channel, t, live.title)]

\* The m-th of the writes of record(), and the first n of them.
WriteAt(d, t, lives, m) ==
    LET count == Len(lives)
    IN  CASE m =< count -> WriteSample(d, t, lives[m])
          [] count < m /\ m =< 2 * count -> WriteChannel(d, t, lives[m - count])
          [] OTHER -> WriteTitle(d, t, lives[m - 2 * count])

Written(d, t, lives, n) ==
    LET after[m \in 0 .. n] == IF m = 0 THEN d ELSE WriteAt(after[m - 1], t, lives, m)
    IN  after[n]

Reports(t, lives) == {[ts |-> t, live |-> lives[i]] : i \in 1 .. Len(lives)}

\* End of the loop body, reached on success and from the except alike.
Sleep ==
    /\ pc' = "sleep"
    /\ wake' = (now \div PollSec + 1) * PollSec
    /\ ts' = 0

\* Mistake: the commit is left to a poll that has changed a title.
RecordCommitsChanges(lives, n) ==
    /\ pc = "fetch"
    /\ reported' = reported \cup Reports(ts, lives)
    /\ n = 3 * Len(lives)
    /\ tx' = Written(tx, ts, lives, n)
    /\ db' = IF tx'.info # tx.info THEN tx' ELSE db
    /\ complete' = complete \cup Reports(ts, lives)
    /\ pc' = "recorded" /\ ts' = 0
    /\ UNCHANGED <<now, stop, last_purge, wake>>

\* run_once with a result: record() writes all and commits, or it fails after n
\* writes.  SQLite itself ends the transaction on some errors (disk full).
Record(lives, n) ==
    /\ pc = "fetch"
    /\ reported' = reported \cup Reports(ts, lives)
    /\ \/ /\ n = 3 * Len(lives)
          /\ tx' = Written(tx, ts, lives, n)
          /\ db' = tx'
          /\ complete' = complete \cup Reports(ts, lives)
          /\ pc' = "recorded" /\ ts' = 0
          /\ UNCHANGED wake
       \/ /\ n =< 3 * Len(lives)
          /\ tx' \in {Written(tx, ts, lives, n), db}
          /\ Sleep
          /\ UNCHANGED <<db, complete>>
    /\ UNCHANGED <<now, stop, last_purge>>

\* Any error of fetch_top_lives.
FetchFails ==
    /\ pc = "fetch"
    /\ Sleep
    /\ UNCHANGED <<now, db, tx, reported, complete, stop, last_purge>>

-----------------------------------------------------------------------------
(* purge_old *)

PurgeDue == now - last_purge > PurgeEvery

SkipPurge ==
    /\ pc = "recorded"
    /\ ~PurgeDue
    /\ Sleep
    /\ UNCHANGED <<now, db, tx, reported, complete, stop, last_purge>>

\* Both DELETEs and the commit; or n of the DELETEs, and an exception.
Purge(n) ==
    LET cutoff == now - Retain
        first  == PurgeSamples(tx, cutoff)
        both   == PurgeInfo(first, cutoff)
    IN  /\ pc = "recorded"
        /\ PurgeDue
        /\ \/ n = 2 /\ db' = both /\ tx' = both /\ last_purge' = now
           \/ /\ tx' \in {db, CASE n = 0 -> tx [] n = 1 -> first [] n = 2 -> both}
              /\ UNCHANGED <<db, last_purge>>
        /\ Sleep
        /\ UNCHANGED <<now, reported, complete, stop>>

-----------------------------------------------------------------------------
(* main *)

\* sqlite3.connect and schema.sql: there is no transaction yet.
Start ==
    /\ pc = "down"
    /\ pc' = "loop"
    /\ UNCHANGED <<now, db, tx, reported, complete, stop, ts, last_purge, wake>>

\* The time stamp is taken before the first request.
BeginPoll ==
    /\ pc = "loop" /\ ~stop
    /\ pc' = "fetch"
    /\ ts' = (now \div PollSec) * PollSec
    /\ UNCHANGED <<now, db, tx, reported, complete, stop, last_purge, wake>>

Wake ==
    /\ pc = "sleep"
    /\ stop \/ now >= wake
    /\ pc' = "loop" /\ wake' = 0
    /\ UNCHANGED <<now, db, tx, reported, complete, stop, ts, last_purge>>

\* db.close() and the death of the process roll back.
ProcessGone ==
    /\ pc' = "down" /\ stop' = FALSE
    /\ tx' = db
    /\ ts' = 0 /\ last_purge' = 0 /\ wake' = 0
    /\ UNCHANGED <<now, db, reported, complete>>

Exit == pc = "loop" /\ stop /\ ProcessGone

Kill == pc # "down" /\ ProcessGone

\* on_signal
Signal ==
    /\ pc # "down" /\ ~stop
    /\ stop' = TRUE
    /\ UNCHANGED <<now, db, tx, reported, complete, pc, ts, last_purge, wake>>

Tick ==
    /\ now < MaxNow
    /\ now' = now + 1
    /\ UNCHANGED <<db, tx, reported, complete, pc, stop, ts, last_purge, wake>>

Next ==
    \/ Start \/ BeginPoll \/ FetchFails
    \/ \E lives \in Lists : \E n \in 0 .. 3 * Len(lives) : Record(lives, n)
    \/ SkipPurge \/ \E n \in 0 .. 2 : Purge(n)
    \/ Wake \/ Exit \/ Kill \/ Signal \/ Tick

Spec == Init /\ [][Next]_vars

-----------------------------------------------------------------------------
(* Properties *)

\* stream_info stays a change history although a poll may be committed in
\* pieces, the missing ones never, and purges come between them.
OnlyChanges ==
    \A p, q \in db.info :
        p.channel = q.channel /\ p.ts < q.ts /\ p.title = q.title =>
            \E r \in db.info : r.channel = p.channel /\ p.ts < r.ts /\ r.ts < q.ts

\* A poll that ended without an exception is in the database as a whole, what
\* ever a failed one had left in the transaction, and goes by its age only.  Each
\* of its channels is listed up to its time for good; has a sample of its minute
\* until that is older than the retention; and has a title for it, unless the
\* title's row is older than the retention and another one followed.  Viewers
\* and title are those that a poll, possibly the failed one, reported for the
\* channel in that minute.
CompletePolls ==
    \A o \in complete :
        LET c     == o.live.channel
            said  == {l \in Live : l.channel = c /\ [ts |-> o.ts, live |-> l] \in reported}
            title == TitleAt(db.info, c, o.ts)
        IN  /\ \E k \in db.channels :
                   k.channel = c /\ k.first_seen =< o.ts /\ o.ts =< k.last_seen
            /\ o.ts >= now - Retain =>
                   \E s \in db.samples : /\ s.channel = c /\ s.ts = o.ts
                                         /\ \E l \in said : s.viewers = l.viewers
            /\ \A r \in title : \E l \in said : r.title = l.title
            /\ title = {} =>
                   /\ \E r \in db.info : r.channel = c /\ r.ts > o.ts
                   /\ \E p \in reported : /\ p.live.channel = c /\ p.ts < now - Retain
                                          /\ \E l \in said : p.live.title = l.title

\* What is committed is lost to nothing but its age: not to an exception, a
\* restart or a piece of a purge that is committed later.
KeptWhileYoung ==
    [][\A s \in db.samples : s \in db'.samples \/ s.ts < now - Retain]_vars
=============================================================================
