------------------------------ MODULE Collector ------------------------------
(***************************************************************************)
(* sm_collector: the loop that every PollSec fetches the top live          *)
(* broadcasts page by page, records them in one SQLite transaction, purges *)
(* old rows about once an hour, and sleeps to the next boundary.           *)
(*                                                                         *)
(* The clock may advance between any two steps.  The process may be killed *)
(* at any point (SIGKILL after TimeoutStopSec, power, OOM) and systemd     *)
(* starts it again; an open transaction is then rolled back by SQLite's    *)
(* journal.  Any request or statement may throw.                           *)
(***************************************************************************)
EXTENDS MonitorDb, Sequences

CONSTANTS
    Pages,       \* what one page of the live list may hold: sequences of Live
    TopN,        \* SM_TOP_N
    PollSec,     \* SM_POLL_SEC
    Retain,      \* SM_RETAIN_DAYS * 86400
    PurgeEvery,  \* 3600 in the code
    StartTime,   \* the clock when the first process starts
    MaxNow       \* bound: the clock stops here

ASSUME ConfigAssumption ==
    /\ Pages \subseteq Seq(Live)
    /\ TopN \in Nat \ {0}
    /\ PollSec \in Nat \ {0}
    /\ Retain \in Nat /\ Retain >= PollSec
    /\ PurgeEvery \in Nat
    /\ StartTime \in Nat /\ StartTime > PurgeEvery
    /\ MaxNow \in Nat

VARIABLES
    now,         \* time(nullptr)
    db,          \* the committed database
    observed,    \* history: what the committed polls reported
    pc,          \* where the process is; "down" when there is none
    stop,        \* g_stop
    ts,          \* run_once: time stamp of this poll
    lives,       \* run_once: the poll's result so far
    cursor,      \* fetch_top_lives: the next page, as its parity
    row,         \* record: how many of lives are in the transaction
    tx,          \* the open transaction's image of the database
    cutoff,      \* purge: the argument of this purge
    last_purge,  \* main
    wake         \* main: end of the sleep

vars == <<now, db, observed, pc, stop, ts, lives, cursor, row, tx, cutoff, last_purge, wake>>

Floor(t) == (t \div PollSec) * PollSec

Init ==
    /\ now = StartTime
    /\ db = EmptyDb
    /\ observed = {}
    /\ pc = "down"
    /\ stop = FALSE
    /\ ts = 0
    /\ lives = <<>>
    /\ cursor = 0
    /\ row = 0
    /\ tx = EmptyDb
    /\ cutoff = 0
    /\ last_purge = 0
    /\ wake = 0

-----------------------------------------------------------------------------
(* main: start, loop, sleep *)

\* A dead process keeps nothing but the committed database.
ProcessGone ==
    /\ pc' = "down"
    /\ stop' = FALSE
    /\ ts' = 0
    /\ lives' = <<>>
    /\ cursor' = 0
    /\ row' = 0
    /\ tx' = EmptyDb
    /\ cutoff' = 0
    /\ last_purge' = 0
    /\ wake' = 0
    /\ UNCHANGED <<now, db, observed>>

Start ==
    /\ pc = "down"
    /\ pc' = "loop"
    /\ UNCHANGED <<now, db, observed, stop, ts, lives, cursor, row, tx, cutoff, last_purge, wake>>

Exit ==
    /\ pc = "loop"
    /\ stop
    /\ ProcessGone

\* Mistake: the progress of the failed transaction is kept.
SleepMidRecord ==
    /\ pc' = "sleep"
    /\ wake' = (now \div PollSec + 1) * PollSec
    /\ ts' = 0
    /\ lives' = <<>>
    /\ cursor' = 0
    /\ tx' = EmptyDb
    /\ cutoff' = 0
    /\ UNCHANGED row

\* End of the loop body, reached on success and from the catch alike.
Sleep ==
    /\ pc' = "sleep"
    /\ wake' = (now \div PollSec + 1) * PollSec
    /\ ts' = 0
    /\ lives' = <<>>
    /\ cursor' = 0
    /\ row' = 0
    /\ tx' = EmptyDb
    /\ cutoff' = 0

Wake ==
    /\ pc = "sleep"
    /\ stop \/ now >= wake
    /\ pc' = "loop"
    /\ wake' = 0
    /\ UNCHANGED <<now, db, observed, stop, ts, lives, cursor, row, tx, cutoff, last_purge>>

-----------------------------------------------------------------------------
(* run_once *)

\* Mistake: the stop flag is only tested in the sleep.
BeginPollUnasked ==
    /\ pc = "loop"
    /\ pc' = "fetch"
    /\ ts' = Floor(now)
    /\ UNCHANGED <<now, db, observed, stop, lives, cursor, row, tx, cutoff, last_purge, wake>>

\* The time stamp is taken before the first request.
BeginPoll ==
    /\ pc = "loop"
    /\ ~stop
    /\ pc' = "fetch"
    /\ ts' = Floor(now)
    /\ UNCHANGED <<now, db, observed, stop, lives, cursor, row, tx, cutoff, last_purge, wake>>

\* Mistake: a page without broadcasts does not end the list.
FetchPageOnEmpty(page, next) ==
    /\ pc = "fetch"
    /\ LET got == lives \o page
           last == ~next \/ Len(got) >= TopN
       IN  /\ pc' = IF last THEN "begin" ELSE "fetch"
           /\ lives' = IF last /\ Len(got) > TopN THEN SubSeq(got, 1, TopN) ELSE got
           /\ cursor' = IF last THEN 0 ELSE 1 - cursor
    /\ UNCHANGED <<now, db, observed, stop, ts, row, tx, cutoff, last_purge, wake>>

\* One page of fetch_top_lives; next tells whether the page has a cursor.
\* The list is cut to TopN after the last page.
FetchPage(page, next) ==
    /\ pc = "fetch"
    /\ LET got == lives \o page
           last == page = <<>> \/ ~next \/ Len(got) >= TopN
       IN  /\ pc' = IF last THEN "begin" ELSE "fetch"
           /\ lives' = IF last /\ Len(got) > TopN THEN SubSeq(got, 1, TopN) ELSE got
           /\ cursor' = IF last THEN 0 ELSE 1 - cursor
    /\ UNCHANGED <<now, db, observed, stop, ts, row, tx, cutoff, last_purge, wake>>

\* Transport error, bad JSON or an error code: the pages so far are dropped,
\* and the purge that follows run_once in the loop body is skipped.
FetchFails ==
    /\ pc = "fetch"
    /\ Sleep
    /\ UNCHANGED <<now, db, observed, stop, last_purge>>

-----------------------------------------------------------------------------
(* Store::record *)

Begin ==
    /\ pc = "begin"
    /\ pc' = "record"
    /\ tx' = db
    /\ row' = 0
    /\ UNCHANGED <<now, db, observed, stop, ts, lives, cursor, cutoff, last_purge, wake>>

RecordRow ==
    /\ pc = "record"
    /\ row < Len(lives)
    /\ tx' = RecordLive(tx, ts, lives[row + 1])
    /\ row' = row + 1
    /\ UNCHANGED <<now, db, observed, pc, stop, ts, lives, cursor, cutoff, last_purge, wake>>

Commit ==
    /\ pc = "record"
    /\ row = Len(lives)
    /\ db' = tx
    /\ observed' = observed \cup {[ts |-> ts, live |-> lives[i]] : i \in 1 .. Len(lives)}
    /\ pc' = "recorded"
    /\ ts' = 0 /\ lives' = <<>> /\ row' = 0 /\ tx' = EmptyDb
    /\ UNCHANGED <<now, stop, cursor, cutoff, last_purge, wake>>

\* Mistake: no ROLLBACK, so that the rows so far stay.
RecordFailsHalfway ==
    /\ pc \in {"begin", "record"}
    /\ db' = IF pc = "record" THEN tx ELSE db
    /\ Sleep
    /\ UNCHANGED <<now, observed, stop, last_purge>>

\* BEGIN, a statement or COMMIT throws: ROLLBACK, and the poll is lost.
RecordFails ==
    /\ pc \in {"begin", "record"}
    /\ Sleep
    /\ UNCHANGED <<now, db, observed, stop, last_purge>>

-----------------------------------------------------------------------------
(* The hourly purge *)

PurgeDue == now - last_purge > PurgeEvery

SkipPurge ==
    /\ pc = "recorded"
    /\ ~PurgeDue
    /\ Sleep
    /\ UNCHANGED <<now, db, observed, stop, last_purge>>

BeginPurge ==
    /\ pc = "recorded"
    /\ PurgeDue
    /\ pc' = "purge_samples"
    /\ cutoff' = now - Retain
    /\ UNCHANGED <<now, db, observed, stop, ts, lives, cursor, row, tx, last_purge, wake>>

DeleteSamples ==
    /\ pc = "purge_samples"
    /\ db' = PurgeSamples(db, cutoff)
    /\ pc' = "purge_info"
    /\ UNCHANGED <<now, observed, stop, ts, lives, cursor, row, tx, cutoff, last_purge, wake>>

DeleteInfo ==
    /\ pc = "purge_info"
    /\ db' = PurgeInfo(db, cutoff)
    /\ last_purge' = now
    /\ Sleep
    /\ UNCHANGED <<now, observed, stop>>

\* Either DELETE may throw; last_purge is not set, so the next poll retries.
PurgeFails ==
    /\ pc \in {"purge_samples", "purge_info"}
    /\ Sleep
    /\ UNCHANGED <<now, db, observed, stop, last_purge>>

-----------------------------------------------------------------------------
(* Environment *)

Tick ==
    /\ now < MaxNow
    /\ now' = now + 1
    /\ UNCHANGED <<db, observed, pc, stop, ts, lives, cursor, row, tx, cutoff, last_purge, wake>>

\* SIGTERM or SIGINT: the handler only sets g_stop.
Signal ==
    /\ pc # "down"
    /\ ~stop
    /\ stop' = TRUE
    /\ UNCHANGED <<now, db, observed, pc, ts, lives, cursor, row, tx, cutoff, last_purge, wake>>

Kill ==
    /\ pc # "down"
    /\ ProcessGone

Step ==
    \/ Exit \/ Wake \/ BeginPoll
    \/ \E page \in Pages, next \in BOOLEAN : FetchPage(page, next)
    \/ FetchFails
    \/ Begin \/ RecordRow \/ Commit \/ RecordFails
    \/ SkipPurge \/ BeginPurge \/ DeleteSamples \/ DeleteInfo \/ PurgeFails

Next == Start \/ Step \/ Tick \/ Signal \/ Kill

Spec == Init /\ [][Next]_vars

\* The process keeps running: none of its steps blocks for ever (requests
\* and the database wait have timeouts) and the clock advances.
Fairness == WF_vars(Step) /\ WF_vars(Tick)

FairSpec == Spec /\ Fairness

-----------------------------------------------------------------------------
(* Properties *)

States == {"down", "loop", "fetch", "begin", "record", "recorded",
           "purge_samples", "purge_info", "sleep"}

\* Types of all the variables.
TypeOK ==
    /\ now \in Nat
    /\ db \in Database
    /\ observed \subseteq [ts : Nat, live : Live]
    /\ pc \in States
    /\ stop \in BOOLEAN
    /\ ts \in Nat
    /\ lives \in Seq(Live)
    /\ cursor \in {0, 1}
    /\ row \in 0 .. Len(lives)
    /\ tx \in Database
    /\ cutoff \in Int
    /\ last_purge \in Nat
    /\ wake \in Nat

\* stream_info is a change history (Store::record): two rows of a channel
\* with the same title are separated by a row with another one, across
\* restarts within a minute, channels reported twice and purges.
OnlyChanges ==
    \A p, q \in db.info :
        p.channel = q.channel /\ p.ts < q.ts /\ p.title = q.title =>
            \E r \in db.info : r.channel = p.channel /\ p.ts < r.ts /\ r.ts < q.ts

\* A channel with samples is listed, its samples lie between first_seen and
\* last_seen, and the sample at last_seen, from which the push server takes
\* "current", is still there whatever has been purged.
CurrentKnown ==
    \A s \in db.samples : \E c \in db.channels :
        /\ c.channel = s.channel
        /\ c.first_seen =< s.ts /\ s.ts =< c.last_seen
        /\ \E z \in db.samples : z.channel = c.channel /\ z.ts = c.last_seen

\* The title the queries find for a sampled minute is one that a poll did
\* report for that channel in that minute: neither a purge nor a second poll
\* in the same minute ever makes an older title show through.
TitleObserved ==
    \A s \in db.samples : \A r \in TitleAt(db.info, s.channel, s.ts) :
        \E o \in observed : /\ o.ts = s.ts
                            /\ o.live.channel = s.channel
                            /\ o.live.title = r.title

\* Every listed channel keeps at least its newest title (Store::purge).
TitleKept ==
    \A c \in db.channels : \E r \in db.info : r.channel = c.channel

\* The collector implements the promise of ViewerLog.
Log == INSTANCE ViewerLog WITH now <- now, db <- db, observed <- observed
ImplementsLog == Log!LogSpec

\* A stop request ends the process from wherever it is: every path of the
\* loop body, failing or not, leads back to the test of g_stop.
StopHonoured == stop ~> (pc = "down")

\* How many steps a round of the loop still takes at most: a page that does not
\* end the list adds a broadcast to it, and a broadcast takes one step.
StepsLeft ==
    CASE pc = "fetch"         -> 2 * TopN + 7 - Len(lives)
      [] pc = "begin"         -> Len(lives) + 7
      [] pc = "record"        -> Len(lives) - row + 6
      [] pc = "recorded"      -> 5
      [] pc = "purge_samples" -> 4
      [] pc = "purge_info"    -> 3
      [] pc = "sleep"         -> 2
      [] pc = "loop"          -> 1
      [] pc = "down"          -> 0

\* Neither the pages the server returns nor a failure make a round longer than
\* that, and once a stop is requested the process ends with the round: whatever
\* the process does, up to the test of g_stop, brings it nearer to its end.
RoundBounded ==
    [][pc # "down" /\ (pc = "loop" => stop) =>
           UNCHANGED <<pc, lives, row, cursor>> \/ StepsLeft' < StepsLeft]_vars

\* What README.md says of stream_info: the title at T is the newest row not
\* after T.  So every sample that is kept should have a title.
EverySampleTitled ==
    \A s \in db.samples : TitleAt(db.info, s.channel, s.ts) # {}
=============================================================================
