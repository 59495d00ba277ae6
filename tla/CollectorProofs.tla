-------------------------- MODULE CollectorProofs --------------------------
(***************************************************************************)
(* Proofs about Collector, for every set of channels and titles, every     *)
(* page size, period and clock: its types, its invariants, and that it     *)
(* implements ViewerLog; and about Readers, what a reply of sm_push shows  *)
(* although the collector commits between its two SELECTs.                 *)
(***************************************************************************)
EXTENDS Readers, TLAPS

-----------------------------------------------------------------------------
(* Arithmetic of the time stamps *)

\* A time stamp is a multiple of the period (run_once), not after the clock
\* and less than a period before it.
LEMMA FloorBounds ==
    ASSUME NEW t \in Nat
    PROVE  Floor(t) \in Nat /\ Floor(t) =< t /\ t < Floor(t) + PollSec
<1> DEFINE k == t \div PollSec
<1>1. PollSec \in Nat /\ PollSec > 0
  BY ConfigAssumption
<1>2. k \in Nat /\ k * PollSec =< t /\ t < k * PollSec + PollSec
  BY <1>1, SMT
<1> QED
  BY <1>1, <1>2, SMT DEF Floor

\* Time stamps do not go back when the clock advances.
LEMMA FloorMonotone ==
    ASSUME NEW t \in Nat
    PROVE  Floor(t) =< Floor(t + 1)
<1> DEFINE j == t \div PollSec
           k == (t + 1) \div PollSec
<1>1. PollSec \in Nat /\ PollSec > 0
  BY ConfigAssumption
<1>2. j \in Nat /\ k \in Nat /\ j * PollSec =< t /\ t + 1 < (k + 1) * PollSec
  BY <1>1, SMT
<1>3. j =< k
  BY <1>1, <1>2, SMT
<1>4. j * PollSec =< k * PollSec
  BY <1>1, <1>2, <1>3, SMT
<1> QED
  BY <1>4 DEF Floor
-----------------------------------------------------------------------------
(* Types *)

\* The statements of Store::record leave a database a database.
LEMMA RecordLiveType ==
    ASSUME NEW d \in Database, NEW t \in Nat, NEW l \in Live
    PROVE  RecordLive(d, t, l) \in Database
<1>1. InsertOrIgnore(d.samples, [channel |-> l.channel, ts |-> t, viewers |-> l.viewers])
          \in SUBSET SampleRow
  BY DEF InsertOrIgnore, Database, SampleRow, Live
<1>2. RecordTitle(d.info, l.channel, t, l.title) \in SUBSET InfoRow
  BY DEF RecordTitle, InsertOrIgnore, Database, InfoRow, Live
<1>3. UpsertChannel(d.channels, l.channel, t) \in SUBSET ChannelRow
  BY DEF UpsertChannel, Database, ChannelRow, Live
<1> QED
  BY <1>1, <1>2, <1>3 DEF RecordLive, Database

\* So do the statements of Store::purge.
LEMMA PurgeType ==
    ASSUME NEW d \in Database, NEW before \in Int
    PROVE  PurgeSamples(d, before) \in Database /\ PurgeInfo(d, before) \in Database
BY DEF PurgeSamples, PurgeInfo, Database

LEMMA EmptyType == EmptyDb \in Database
BY DEF EmptyDb, Database

-----------------------------------------------------------------------------
(* Types of the states *)

\* TypeOK is not inductive: fetch_top_lives cuts the result to TopN, which
\* keeps row within it because row moves in record only.
TypeInv == TypeOK /\ (pc # "record" => row = 0)

LEMMA SleepType ==
    ASSUME TypeInv, Sleep, UNCHANGED <<now, observed, stop>>,
           db' \in Database, last_purge' \in Nat
    PROVE  TypeInv'
<1>1. (now \div PollSec + 1) * PollSec \in Nat
  BY ConfigAssumption, SMT DEF TypeInv, TypeOK
<1>2. <<>> \in Seq(Live) /\ 0 \in 0 .. Len(<<>>)
  OBVIOUS
<1> QED
  BY <1>1, <1>2, EmptyType DEF TypeInv, TypeOK, Sleep, States

LEMMA ProcessGoneType ==
    ASSUME TypeInv, ProcessGone
    PROVE  TypeInv'
<1>1. lives' \in Seq(Live) /\ row' \in 0 .. Len(lives')
  BY DEF ProcessGone
<1>2. stop' \in BOOLEAN
  BY Zenon DEF ProcessGone
<1> QED
  BY <1>1, <1>2, EmptyType DEF TypeInv, TypeOK, ProcessGone, States

LEMMA InitType == Init => TypeInv
<1> SUFFICES ASSUME Init PROVE TypeInv
  OBVIOUS
<1>1. lives \in Seq(Live) /\ row \in 0 .. Len(lives)
  BY DEF Init
<1>2. stop \in BOOLEAN
  BY Zenon DEF Init
<1> QED
  BY <1>1, <1>2, EmptyType, ConfigAssumption DEF Init, TypeInv, TypeOK, States

LEMMA NextType == TypeInv /\ [Next]_vars => TypeInv'
<1> SUFFICES ASSUME TypeInv, [Next]_vars PROVE TypeInv'
  OBVIOUS
<1> USE DEF TypeInv
<1>1. CASE Start
  BY <1>1 DEF Start, TypeOK, States
<1>2. CASE Exit
  BY <1>2, ProcessGoneType DEF Exit
<1>3. CASE Wake
  BY <1>3 DEF Wake, TypeOK, States
<1>4. CASE BeginPoll
  <2>1. Floor(now) \in Nat
    BY FloorBounds DEF TypeOK
  <2> QED
    BY <1>4, <2>1 DEF BeginPoll, TypeOK, States
<1>5. ASSUME NEW page \in Pages, NEW next \in BOOLEAN, FetchPage(page, next) PROVE TypeInv'
  <2>1. page \in Seq(Live) /\ TopN \in Nat
    BY ConfigAssumption
  <2>2. lives \o page \in Seq(Live)
    BY <2>1 DEF TypeOK
  <2>3. Len(lives \o page) > TopN => SubSeq(lives \o page, 1, TopN) \in Seq(Live)
    BY <2>1, <2>2
  <2>4. lives' \in Seq(Live)
    BY <1>5, <2>2, <2>3 DEF FetchPage
  <2>5. row' = 0
    BY <1>5 DEF FetchPage
  <2> QED
    BY <1>5, <2>4, <2>5 DEF FetchPage, TypeOK, States
<1>6. CASE FetchFails
  BY <1>6, SleepType DEF FetchFails, TypeOK
<1>7. CASE Begin
  BY <1>7 DEF Begin, TypeOK, States
<1>8. CASE RecordRow
  <2>1. lives[row + 1] \in Live
    BY <1>8 DEF RecordRow, TypeOK
  <2>2. tx' \in Database
    BY <1>8, <2>1, RecordLiveType DEF RecordRow, TypeOK
  <2> QED
    BY <1>8, <2>2 DEF RecordRow, TypeOK
<1>9. CASE Commit
  <2>1. observed' \subseteq [ts : Nat, live : Live]
    BY <1>9 DEF Commit, TypeOK
  <2>2. lives' \in Seq(Live) /\ row' \in 0 .. Len(lives')
    BY <1>9 DEF Commit
  <2> QED
    BY <1>9, <2>1, <2>2, EmptyType DEF Commit, TypeOK, States
<1>10. CASE RecordFails
  BY <1>10, SleepType DEF RecordFails, TypeOK
<1>11. CASE SkipPurge
  BY <1>11, SleepType DEF SkipPurge, TypeOK
<1>12. CASE BeginPurge
  BY <1>12, ConfigAssumption DEF BeginPurge, TypeOK, States
<1>13. CASE DeleteSamples
  BY <1>13, PurgeType DEF DeleteSamples, TypeOK, States
<1>14. CASE DeleteInfo
  BY <1>14, PurgeType, SleepType DEF DeleteInfo, TypeOK
<1>15. CASE PurgeFails
  BY <1>15, SleepType DEF PurgeFails, TypeOK
<1>16. CASE Tick
  BY <1>16 DEF Tick, TypeOK
<1>17. CASE Signal
  BY <1>17, Zenon DEF Signal, TypeOK
<1>18. CASE Kill
  BY <1>18, ProcessGoneType DEF Kill
<1>19. CASE UNCHANGED vars
  BY <1>19 DEF vars, TypeOK
<1> QED
  BY <1>1, <1>2, <1>3, <1>4, <1>5, <1>6, <1>7, <1>8, <1>9, <1>10, <1>11, <1>12,
     <1>13, <1>14, <1>15, <1>16, <1>17, <1>18, <1>19 DEF Next, Step

LEMMA TypeInvariant == Spec => []TypeInv
BY InitType, NextType, PTL DEF Spec

\* The variables of the collector keep their types: in particular the row that
\* record has reached lies within the poll's result, which a failure and a
\* restart reset together (Store::record, main).
THEOREM TypeCorrect == Spec => []TypeOK
<1>1. TypeInv => TypeOK
  BY DEF TypeInv
<1> QED
  BY <1>1, TypeInvariant, PTL
-----------------------------------------------------------------------------
(* The inductive invariant: what holds of the committed database and, while  *)
(* a poll is recorded, of the transaction's image of it                      *)

\* No row is later than t.
Dated(d, t) ==
    /\ \A r \in d.samples : r.ts =< t
    /\ \A r \in d.info : r.ts =< t
    /\ \A r \in d.channels : r.first_seen =< t /\ r.last_seen =< t

\* The primary key of stream_info.
Keyed(d) ==
    \A p, q \in d.info : p.channel = q.channel /\ p.ts = q.ts => p = q

\* Every listed channel has a newest title row.
Newest(d) == \A c \in d.channels : Latest(d.info, c.channel) # {}

\* OnlyChanges, CurrentKnown and TitleObserved of a database d.
Changes(d) ==
    \A p, q \in d.info :
        p.channel = q.channel /\ p.ts < q.ts /\ p.title = q.title =>
            \E r \in d.info : r.channel = p.channel /\ p.ts < r.ts /\ r.ts < q.ts

Current(d) ==
    \A s \in d.samples : \E c \in d.channels :
        /\ c.channel = s.channel
        /\ c.first_seen =< s.ts /\ s.ts =< c.last_seen
        /\ \E z \in d.samples : z.channel = c.channel /\ z.ts = c.last_seen

Reported(seen, c, t, title) ==
    \E o \in seen : o.ts = t /\ o.live.channel = c /\ o.live.title = title

TitlesReported(d, seen) ==
    /\ \A r \in d.info : Reported(seen, r.channel, r.ts, r.title)
    /\ \A s \in d.samples : \A r \in TitleAt(d.info, s.channel, s.ts) :
           Reported(seen, s.channel, s.ts, r.title)

Consistent(d, seen) ==
    /\ Keyed(d)
    /\ Newest(d)
    /\ Changes(d)
    /\ Current(d)
    /\ TitlesReported(d, seen)

\* What the open transaction will have observed so far.
Observing == observed \cup {[ts |-> ts, live |-> lives[i]] : i \in 1 .. row}

Polling == pc \in {"fetch", "begin", "record"}

\* A poll's time stamp is not before any committed row, although the clock has
\* moved on since it was taken.
IInv ==
    /\ TypeInv
    /\ Dated(db, Floor(now))
    /\ Consistent(db, observed)
    /\ Polling => ts =< Floor(now) /\ Dated(db, ts)
    /\ pc = "record" => Dated(tx, ts) /\ Consistent(tx, Observing)
-----------------------------------------------------------------------------
(* A row of the poll: from Consistent(d, seen) to the next one *)

\* What Store::record does with a title, when no row is later than t.
LEMMA RecordTitleCases ==
    ASSUME NEW d \in Database, NEW t \in Nat, NEW l \in Live, Dated(d, t)
    PROVE  LET info == RecordLive(d, t, l).info
               new  == [channel |-> l.channel, ts |-> t, title |-> l.title]
           IN  \/ info = d.info /\ \E r \in Latest(d.info, l.channel) : r.title = l.title
               \/ info = d.info /\ \E r \in d.info : r.channel = l.channel /\ r.ts = t
               \/ /\ info = d.info \cup {new}
                  /\ \A r \in Latest(d.info, l.channel) : r.title # l.title
                  /\ \A r \in d.info : r.channel = l.channel => r.ts < t
<1>1. \A r \in d.info : r.ts \in Nat /\ r.ts =< t
  BY DEF Database, InfoRow, Dated
<1> QED
  BY <1>1 DEF RecordLive, RecordTitle, InsertOrIgnore

LEMMA RecordDated ==
    ASSUME NEW d \in Database, NEW t \in Nat, NEW l \in Live, Dated(d, t)
    PROVE  Dated(RecordLive(d, t, l), t)
<1>1. \A r \in RecordLive(d, t, l).samples : r.ts =< t
  BY DEF RecordLive, InsertOrIgnore, Dated, Database
<1>2. \A r \in RecordLive(d, t, l).info : r.ts =< t
  BY DEF RecordLive, RecordTitle, InsertOrIgnore, Dated, Database
<1>3. \A r \in RecordLive(d, t, l).channels : r.first_seen =< t /\ r.last_seen =< t
  BY DEF RecordLive, UpsertChannel, Dated, Database, ChannelRow
<1> QED
  BY <1>1, <1>2, <1>3 DEF Dated

LEMMA RecordKeyed ==
    ASSUME NEW d \in Database, NEW t \in Nat, NEW l \in Live, Keyed(d)
    PROVE  Keyed(RecordLive(d, t, l))
BY DEF RecordLive, RecordTitle, InsertOrIgnore, Keyed, Database, InfoRow

\* The new title row is the channel's newest; other channels keep theirs.
LEMMA RecordNewest ==
    ASSUME NEW d \in Database, NEW t \in Nat, NEW l \in Live,
           Dated(d, t), Newest(d)
    PROVE  Newest(RecordLive(d, t, l))
<1> DEFINE new  == [channel |-> l.channel, ts |-> t, title |-> l.title]
           info == RecordLive(d, t, l).info
<1>1. /\ d.info \in SUBSET InfoRow /\ \A r \in d.info : r.ts =< t
      /\ l.channel \in Channels /\ l.title \in Titles
  BY DEF Database, Dated, Live
<1>2. Latest(info, l.channel) # {}
  <2>1. CASE info = d.info /\ \E r \in Latest(d.info, l.channel) : r.title = l.title
    BY <2>1
  <2>2. CASE info = d.info /\ \E r \in d.info : r.channel = l.channel /\ r.ts = t
    BY <1>1, <2>2 DEF Latest
  <2>3. CASE info = d.info \cup {new}
    <3>1. new \in Latest(info, l.channel)
      BY <1>1, <2>3 DEF Latest
    <3> QED
      BY <3>1
  <2>4. \/ info = d.info /\ \E r \in Latest(d.info, l.channel) : r.title = l.title
        \/ info = d.info /\ \E r \in d.info : r.channel = l.channel /\ r.ts = t
        \/ /\ info = d.info \cup {new}
           /\ \A r \in Latest(d.info, l.channel) : r.title # l.title
           /\ \A r \in d.info : r.channel = l.channel => r.ts < t
    BY RecordTitleCases
  <2> QED
    BY <2>1, <2>2, <2>3, <2>4
<1>3. ASSUME NEW c \in d.channels, c.channel # l.channel
      PROVE  Latest(info, c.channel) # {}
  <2>1. PICK r \in d.info : r \in Latest(d.info, c.channel)
    BY DEF Newest, Latest
  <2>2. r \in Latest(info, c.channel)
    BY <1>3, <2>1 DEF Latest, RecordLive, RecordTitle, InsertOrIgnore
  <2> QED
    BY <2>2
<1>4. \A c \in UpsertChannel(d.channels, l.channel, t) :
          \/ c.channel = l.channel
          \/ \E b \in d.channels : b.channel = c.channel
  BY DEF UpsertChannel, Database, ChannelRow
<1>5. \A c \in UpsertChannel(d.channels, l.channel, t) : Latest(info, c.channel) # {}
  BY <1>2, <1>3, <1>4
<1> QED
  BY <1>5 DEF Newest, RecordLive

\* A title row is added only behind a newest row with another title.
LEMMA RecordChanges ==
    ASSUME NEW d \in Database, NEW t \in Nat, NEW l \in Live,
           Dated(d, t), Changes(d)
    PROVE  Changes(RecordLive(d, t, l))
<1> DEFINE new  == [channel |-> l.channel, ts |-> t, title |-> l.title]
           info == RecordLive(d, t, l).info
<1>1. /\ d.info \in SUBSET InfoRow /\ \A r \in d.info : r.ts =< t
      /\ l.channel \in Channels /\ l.title \in Titles
  BY DEF Database, Dated, Live
<1>2. ASSUME info = d.info \cup {new},
             \A r \in Latest(d.info, l.channel) : r.title # l.title,
             \A r \in d.info : r.channel = l.channel => r.ts < t,
             NEW p \in info, NEW q \in info,
             p.channel = q.channel, p.ts < q.ts, p.title = q.title
      PROVE  \E r \in info : r.channel = p.channel /\ p.ts < r.ts /\ r.ts < q.ts
  <2>1. p \in d.info
    <3>1. p = new => p.ts = t
      OBVIOUS
    <3>2. q.ts =< t /\ q.ts \in Nat
      BY <1>1, <1>2 DEF InfoRow
    <3> QED
      BY <1>2, <3>1, <3>2
  <2>2. CASE q \in d.info
    BY <1>2, <2>1, <2>2 DEF Changes
  <2>3. CASE q = new
    <3>1. p \notin Latest(d.info, l.channel) /\ p.channel = l.channel
      BY <1>2, <2>3
    <3>2. PICK r \in d.info : r.channel = l.channel /\ ~(r.ts =< p.ts)
      BY <2>1, <3>1 DEF Latest
    <3>3. p.ts < r.ts /\ r.ts < t
      BY <1>1, <1>2, <2>1, <3>2 DEF InfoRow
    <3> QED
      BY <1>2, <2>3, <3>1, <3>2, <3>3
  <2> QED
    BY <1>2, <2>2, <2>3
<1>3. \/ info = d.info
      \/ /\ info = d.info \cup {new}
         /\ \A r \in Latest(d.info, l.channel) : r.title # l.title
         /\ \A r \in d.info : r.channel = l.channel => r.ts < t
  BY RecordTitleCases
<1>4. ASSUME NEW p \in info, NEW q \in info,
             p.channel = q.channel, p.ts < q.ts, p.title = q.title
      PROVE  \E r \in info : r.channel = p.channel /\ p.ts < r.ts /\ r.ts < q.ts
  <2>1. CASE info = d.info
    BY <1>4, <2>1 DEF Changes
  <2> QED
    BY <1>2, <1>3, <1>4, <2>1
<1> QED
  BY <1>4 DEF Changes, RecordLive

\* The upsert and the sample of the same minute go together.
LEMMA RecordCurrent ==
    ASSUME NEW d \in Database, NEW t \in Nat, NEW l \in Live,
           Dated(d, t), Current(d)
    PROVE  Current(RecordLive(d, t, l))
<1> DEFINE samples  == InsertOrIgnore(d.samples,
                           [channel |-> l.channel, ts |-> t, viewers |-> l.viewers])
           channels == UpsertChannel(d.channels, l.channel, t)
<1>1. d.samples \subseteq samples
  BY DEF InsertOrIgnore
<1>2. \E z \in samples : z.channel = l.channel /\ z.ts = t
  <2> DEFINE new == [channel |-> l.channel, ts |-> t, viewers |-> l.viewers]
  <2>1. new.channel = l.channel /\ new.ts = t
    OBVIOUS
  <2>2. new \in samples \/ \E z \in samples : z.channel = new.channel /\ z.ts = new.ts
    BY DEF InsertOrIgnore
  <2> QED
    BY <2>1, <2>2
<1>3. ASSUME NEW s \in samples
      PROVE  \E c \in channels :
                 /\ c.channel = s.channel
                 /\ c.first_seen =< s.ts /\ s.ts =< c.last_seen
                 /\ \E z \in samples : z.channel = c.channel /\ z.ts = c.last_seen
  <2>1. CASE s \in d.samples
    <3>1. PICK c \in d.channels :
              /\ c.channel = s.channel
              /\ c.first_seen =< s.ts /\ s.ts =< c.last_seen
              /\ \E z \in d.samples : z.channel = c.channel /\ z.ts = c.last_seen
      BY <2>1 DEF Current
    <3>2. CASE c.channel # l.channel
      <4>1. c \in channels
        BY <3>2 DEF UpsertChannel
      <4> QED
        BY <1>1, <3>1, <4>1
    <3>3. CASE c.channel = l.channel
      <4>1. [c EXCEPT !.last_seen = t] \in channels
        BY <3>3 DEF UpsertChannel
      <4>2. /\ [c EXCEPT !.last_seen = t].channel = c.channel
            /\ [c EXCEPT !.last_seen = t].first_seen = c.first_seen
            /\ [c EXCEPT !.last_seen = t].last_seen = t
        BY DEF Database, ChannelRow
      <4>3. s.ts =< t
        BY <2>1 DEF Dated
      <4> QED
        BY <1>2, <3>1, <3>3, <4>1, <4>2, <4>3
    <3> QED
      BY <3>2, <3>3
  <2>2. CASE s \notin d.samples
    <3>1. s.channel = l.channel /\ s.ts = t
      BY <2>2 DEF InsertOrIgnore
    <3>2. \E c \in channels :
              c.channel = l.channel /\ c.first_seen =< t /\ c.last_seen = t
      <4>1. CASE \E c \in d.channels : c.channel = l.channel
        <5>1. PICK c \in d.channels : c.channel = l.channel
          BY <4>1
        <5>2. [c EXCEPT !.last_seen = t] \in channels
          BY <4>1, <5>1 DEF UpsertChannel
        <5>3. /\ [c EXCEPT !.last_seen = t].channel = c.channel
              /\ [c EXCEPT !.last_seen = t].first_seen = c.first_seen
              /\ [c EXCEPT !.last_seen = t].last_seen = t
          BY DEF Database, ChannelRow
        <5> QED
          BY <5>1, <5>2, <5>3 DEF Dated
      <4>2. CASE ~\E c \in d.channels : c.channel = l.channel
        <5> DEFINE new == [channel |-> l.channel, first_seen |-> t, last_seen |-> t]
        <5>1. new \in channels
          BY <4>2 DEF UpsertChannel
        <5>2. new.channel = l.channel /\ new.first_seen =< t /\ new.last_seen = t
          OBVIOUS
        <5> QED
          BY <5>1, <5>2
      <4> QED
        BY <4>1, <4>2
    <3> QED
      BY <1>2, <3>1, <3>2
  <2> QED
    BY <2>1, <2>2
<1> QED
  BY <1>3 DEF Current, RecordLive

\* The title found for the minute t is the channel's newest one: either the
\* poll has just reported it, or a poll of the same minute had.
LEMMA RecordReported ==
    ASSUME NEW d \in Database, NEW t \in Nat, NEW l \in Live, NEW seen,
           Dated(d, t), Keyed(d), TitlesReported(d, seen)
    PROVE  TitlesReported(RecordLive(d, t, l), seen \cup {[ts |-> t, live |-> l]})
<1> DEFINE new  == [channel |-> l.channel, ts |-> t, title |-> l.title]
           info == RecordLive(d, t, l).info
           more == seen \cup {[ts |-> t, live |-> l]}
<1>1. \A r \in d.info : r.ts \in Nat /\ r.ts =< t
  BY DEF Database, InfoRow, Dated
<1>2. Reported(more, l.channel, t, l.title)
  <2>1. [ts |-> t, live |-> l] \in more
    OBVIOUS
  <2> QED
    BY <2>1 DEF Reported
<1>3. \A c, u, title : Reported(seen, c, u, title) => Reported(more, c, u, title)
  BY DEF Reported
<1>4. \/ info = d.info /\ \E r \in Latest(d.info, l.channel) : r.title = l.title
      \/ info = d.info /\ \E r \in d.info : r.channel = l.channel /\ r.ts = t
      \/ /\ info = d.info \cup {new}
         /\ \A r \in Latest(d.info, l.channel) : r.title # l.title
         /\ \A r \in d.info : r.channel = l.channel => r.ts < t
  BY RecordTitleCases
<1>5. \A r \in info : Reported(more, r.channel, r.ts, r.title)
  <2>1. new.channel = l.channel /\ new.ts = t /\ new.title = l.title
    OBVIOUS
  <2>2. \A r \in info : r \in d.info \/ r = new
    BY <1>4
  <2> QED
    BY <1>2, <1>3, <2>1, <2>2 DEF TitlesReported
<1>6. ASSUME NEW r \in TitleAt(info, l.channel, t)
      PROVE  Reported(more, l.channel, t, r.title)
  <2>1. r \in info /\ r.channel = l.channel
    BY DEF TitleAt
  <2>2. CASE info = d.info /\ \E q \in Latest(d.info, l.channel) : q.title = l.title
    <3>1. PICK q \in d.info : q \in Latest(d.info, l.channel) /\ q.title = l.title
      BY <2>2 DEF Latest
    <3>2. q.ts =< r.ts /\ r.ts =< q.ts
      BY <1>1, <2>1, <2>2, <3>1 DEF TitleAt, Latest
    <3>3. q.channel = l.channel
      BY <3>1 DEF Latest
    <3>4. q = r
      BY <1>1, <2>1, <2>2, <3>1, <3>2, <3>3 DEF Keyed
    <3> QED
      BY <1>2, <3>1, <3>4
  <2>3. CASE info = d.info /\ \E q \in d.info : q.channel = l.channel /\ q.ts = t
    <3>1. PICK q \in d.info : q.channel = l.channel /\ q.ts = t
      BY <2>3
    <3>2. r.ts = t
      BY <1>1, <2>1, <2>3, <3>1 DEF TitleAt
    <3> QED
      BY <1>5, <2>1, <3>2
  <2>4. CASE /\ info = d.info \cup {new}
             /\ \A q \in d.info : q.channel = l.channel => q.ts < t
    <3>1. new \in info /\ new.channel = l.channel /\ new.ts = t
      BY <2>4
    <3>2. t =< r.ts
      <4>1. \A q \in info : q.channel = l.channel /\ q.ts =< t => q.ts =< r.ts
        BY DEF TitleAt
      <4> QED
        BY <3>1, <4>1
    <3>3. r.ts = t
      BY <1>1, <2>1, <2>4, <3>1, <3>2
    <3> QED
      BY <1>5, <2>1, <3>3
  <2> QED
    BY <1>4, <2>2, <2>3, <2>4
<1>7. ASSUME NEW s \in d.samples, s.channel # l.channel \/ s.ts # t,
             NEW r \in TitleAt(info, s.channel, s.ts)
      PROVE  Reported(more, s.channel, s.ts, r.title)
  <2>1. s.ts \in Nat /\ s.ts =< t
    BY DEF Database, SampleRow, Dated
  <2>2. r \in d.info
    <3>1. r = new => FALSE
      BY <1>7, <2>1 DEF TitleAt
    <3> QED
      BY <1>4, <3>1 DEF TitleAt
  <2>3. r \in TitleAt(d.info, s.channel, s.ts)
    BY <1>4, <2>2 DEF TitleAt
  <2> QED
    BY <1>3, <2>3 DEF TitlesReported
<1>8. \A s \in RecordLive(d, t, l).samples :
          s \in d.samples \/ (s.channel = l.channel /\ s.ts = t)
  BY DEF RecordLive, InsertOrIgnore
<1>9. \A s \in RecordLive(d, t, l).samples : \A r \in TitleAt(info, s.channel, s.ts) :
          Reported(more, s.channel, s.ts, r.title)
  BY <1>6, <1>7, <1>8
<1> QED
  BY <1>5, <1>9 DEF TitlesReported

LEMMA RecordConsistent ==
    ASSUME NEW d \in Database, NEW t \in Nat, NEW l \in Live, NEW seen,
           Dated(d, t), Consistent(d, seen)
    PROVE  Consistent(RecordLive(d, t, l), seen \cup {[ts |-> t, live |-> l]})
BY RecordKeyed, RecordNewest, RecordChanges, RecordCurrent, RecordReported DEF Consistent

-----------------------------------------------------------------------------
(* The two statements of the purge *)

\* Deleting old samples: the sample at last_seen is the last one to go.
LEMMA PurgeSamplesConsistent ==
    ASSUME NEW d \in Database, NEW before \in Int, NEW seen, Consistent(d, seen)
    PROVE  Consistent(PurgeSamples(d, before), seen)
<1> DEFINE e == PurgeSamples(d, before)
<1>1. /\ e.samples = {r \in d.samples : r.ts >= before}
      /\ e.info = d.info /\ e.channels = d.channels
  BY DEF PurgeSamples, Database
<1>2. Current(e)
  <2> SUFFICES ASSUME NEW s \in e.samples
               PROVE  \E c \in e.channels :
                          /\ c.channel = s.channel
                          /\ c.first_seen =< s.ts /\ s.ts =< c.last_seen
                          /\ \E z \in e.samples : z.channel = c.channel /\ z.ts = c.last_seen
    BY DEF Current
  <2>1. PICK c \in d.channels :
            /\ c.channel = s.channel
            /\ c.first_seen =< s.ts /\ s.ts =< c.last_seen
            /\ \E z \in d.samples : z.channel = c.channel /\ z.ts = c.last_seen
    BY <1>1 DEF Consistent, Current
  <2>2. c.last_seen >= before
    BY <1>1, <2>1 DEF Database, SampleRow, ChannelRow
  <2> QED
    BY <1>1, <2>1, <2>2
<1>3. Keyed(e) /\ Newest(e) /\ Changes(e) /\ TitlesReported(e, seen)
  BY <1>1 DEF Consistent, Keyed, Newest, Changes, TitlesReported
<1> QED
  BY <1>2, <1>3 DEF Consistent

\* Deleting old titles: what is deleted is older than any kept row of its
\* channel, so no older title takes its place.
LEMMA PurgeInfoConsistent ==
    ASSUME NEW d \in Database, NEW before \in Int, NEW seen, Consistent(d, seen)
    PROVE  Consistent(PurgeInfo(d, before), seen)
<1> DEFINE e == PurgeInfo(d, before)
<1>1. /\ e.info = {r \in d.info : \/ r.ts >= before
                                  \/ \A q \in d.info : q.channel = r.channel => q.ts =< r.ts}
      /\ e.samples = d.samples /\ e.channels = d.channels
  BY DEF PurgeInfo, Database
<1>2. \A r \in d.info : r.ts \in Nat
  BY DEF Database, InfoRow
<1>3. ASSUME NEW r \in e.info, NEW q \in d.info, q.channel = r.channel, r.ts < q.ts
      PROVE  q \in e.info
  BY <1>1, <1>2, <1>3
<1>4. Keyed(e)
  BY <1>1 DEF Consistent, Keyed
<1>5. Newest(e)
  BY <1>1 DEF Consistent, Newest, Latest
<1>6. Changes(e)
  <2> SUFFICES ASSUME NEW p \in e.info, NEW q \in e.info,
                      p.channel = q.channel, p.ts < q.ts, p.title = q.title
               PROVE  \E r \in e.info : r.channel = p.channel /\ p.ts < r.ts /\ r.ts < q.ts
    BY DEF Changes
  <2>1. PICK r \in d.info : r.channel = p.channel /\ p.ts < r.ts /\ r.ts < q.ts
    BY <1>1 DEF Consistent, Changes
  <2> QED
    BY <1>3, <2>1
<1>7. Current(e)
  BY <1>1 DEF Consistent, Current
<1>8. TitlesReported(e, seen)
  <2>1. ASSUME NEW s \in e.samples, NEW r \in TitleAt(e.info, s.channel, s.ts)
        PROVE  r \in TitleAt(d.info, s.channel, s.ts)
    <3>1. r \in e.info /\ r \in d.info /\ r.channel = s.channel /\ r.ts =< s.ts
      BY <1>1 DEF TitleAt
    <3>2. ASSUME NEW q \in d.info, q.channel = s.channel, q.ts =< s.ts
          PROVE  q.ts =< r.ts
      BY <1>2, <1>3, <3>1, <3>2 DEF TitleAt
    <3> QED
      BY <3>1, <3>2 DEF TitleAt
  <2> QED
    BY <1>1, <2>1 DEF Consistent, TitlesReported
<1> QED
  BY <1>4, <1>5, <1>6, <1>7, <1>8 DEF Consistent

LEMMA PurgeDated ==
    ASSUME NEW d \in Database, NEW before \in Int, NEW t, Dated(d, t)
    PROVE  Dated(PurgeSamples(d, before), t) /\ Dated(PurgeInfo(d, before), t)
BY DEF Dated, PurgeSamples, PurgeInfo, Database

LEMMA DatedLater ==
    ASSUME NEW d \in Database, NEW t \in Nat, NEW u \in Nat, t =< u, Dated(d, t)
    PROVE  Dated(d, u)
BY DEF Dated, Database, SampleRow, InfoRow, ChannelRow

-----------------------------------------------------------------------------
(* The invariant is inductive *)

LEMMA InitInv == Init => IInv
<1> SUFFICES ASSUME Init PROVE IInv
  OBVIOUS
<1>1. TypeInv
  BY InitType
<1>2. Dated(EmptyDb, Floor(now)) /\ Consistent(EmptyDb, {})
  BY DEF EmptyDb, Dated, Consistent, Keyed, Newest, Changes, Current, TitlesReported
<1> QED
  BY <1>1, <1>2 DEF Init, IInv, Polling

\* A step that leaves the database alone and is not part of a poll.
LEMMA QuietStep ==
    ASSUME IInv, TypeInv', UNCHANGED <<now, db, observed>>,
           pc' \notin {"fetch", "begin", "record"}
    PROVE  IInv'
BY DEF IInv, Polling

LEMMA NextInv == IInv /\ [Next]_vars => IInv'
<1> SUFFICES ASSUME IInv, [Next]_vars PROVE IInv'
  OBVIOUS
<1>1. TypeInv'
  BY NextType DEF IInv
<1>2. /\ now \in Nat /\ ts \in Nat /\ db \in Database /\ tx \in Database /\ cutoff \in Int
      /\ lives \in Seq(Live) /\ row \in 0 .. Len(lives)
  BY DEF IInv, TypeInv, TypeOK
<1>3. Floor(now) \in Nat
  BY <1>2, FloorBounds
<1>4. CASE Start \/ Exit \/ Wake \/ FetchFails \/ RecordFails \/ SkipPurge
           \/ BeginPurge \/ PurgeFails \/ Kill
  <2>1. UNCHANGED <<now, db, observed>> /\ pc' \notin {"fetch", "begin", "record"}
    BY <1>4 DEF Start, Exit, Wake, FetchFails, RecordFails, SkipPurge, BeginPurge,
                PurgeFails, Kill, ProcessGone, Sleep
  <2> QED
    BY <1>1, <2>1, QuietStep
<1>5. CASE BeginPoll
  <2>1. UNCHANGED <<now, db, observed>> /\ pc' = "fetch" /\ ts' = Floor(now)
    BY <1>5 DEF BeginPoll
  <2>2. Floor(now)' = Floor(now)
    BY <2>1 DEF Floor
  <2> QED
    BY <1>1, <1>3, <2>1, <2>2 DEF IInv, Polling
<1>6. ASSUME NEW page \in Pages, NEW next \in BOOLEAN, FetchPage(page, next) PROVE IInv'
  <2>1. UNCHANGED <<now, db, observed, ts>> /\ pc = "fetch" /\ pc' \in {"fetch", "begin"}
    BY <1>6 DEF FetchPage
  <2> QED
    BY <1>1, <2>1 DEF IInv, Polling, Floor
<1>7. CASE Begin
  <2>1. /\ UNCHANGED <<now, db, observed, ts>>
        /\ pc = "begin" /\ pc' = "record" /\ tx' = db /\ row' = 0
    BY <1>7 DEF Begin
  <2>2. Observing' = observed
    BY <2>1 DEF Observing
  <2> QED
    BY <1>1, <2>1, <2>2 DEF IInv, Polling, Floor
<1>8. CASE RecordRow
  <2>1. /\ UNCHANGED <<now, db, observed, ts, lives>>
        /\ pc = "record" /\ pc' = "record" /\ row' = row + 1 /\ row < Len(lives)
        /\ tx' = RecordLive(tx, ts, lives[row + 1])
    BY <1>8 DEF RecordRow
  <2>2. lives[row + 1] \in Live
    BY <1>2, <2>1
  <2>3. Dated(tx, ts) /\ Consistent(tx, Observing)
    BY <2>1 DEF IInv
  <2>4. Observing' = Observing \cup {[ts |-> ts, live |-> lives[row + 1]]}
    BY <1>2, <2>1 DEF Observing
  <2>5. Dated(tx', ts) /\ Consistent(tx', Observing')
    BY <1>2, <2>1, <2>2, <2>3, <2>4, RecordDated, RecordConsistent
  <2> QED
    BY <1>1, <2>1, <2>5 DEF IInv, Polling, Floor
<1>9. CASE Commit
  <2>1. /\ pc = "record" /\ pc' = "recorded" /\ db' = tx /\ now' = now
        /\ observed' = Observing
    BY <1>9 DEF Commit, Observing
  <2>2. Dated(tx, ts) /\ ts =< Floor(now) /\ Consistent(tx, Observing)
    BY <2>1 DEF IInv, Polling
  <2>3. Dated(tx, Floor(now))
    BY <1>2, <1>3, <2>2, DatedLater
  <2> QED
    BY <1>1, <2>1, <2>2, <2>3 DEF IInv, Polling, Floor
<1>10. CASE DeleteSamples
  <2>1. /\ pc' = "purge_info" /\ db' = PurgeSamples(db, cutoff)
        /\ UNCHANGED <<now, observed>>
    BY <1>10 DEF DeleteSamples
  <2>2. Dated(db', Floor(now)) /\ Consistent(db', observed)
    BY <1>2, <2>1, PurgeDated, PurgeSamplesConsistent DEF IInv
  <2> QED
    BY <1>1, <2>1, <2>2 DEF IInv, Polling, Floor
<1>11. CASE DeleteInfo
  <2>1. pc' = "sleep" /\ db' = PurgeInfo(db, cutoff) /\ UNCHANGED <<now, observed>>
    BY <1>11 DEF DeleteInfo, Sleep
  <2>2. Dated(db', Floor(now)) /\ Consistent(db', observed)
    BY <1>2, <2>1, PurgeDated, PurgeInfoConsistent DEF IInv
  <2> QED
    BY <1>1, <2>1, <2>2 DEF IInv, Polling, Floor
<1>12. CASE Tick
  <2>1. now' = now + 1 /\ UNCHANGED <<db, observed, pc, ts, lives, row, tx>>
    BY <1>12 DEF Tick
  <2>2. Floor(now) =< Floor(now + 1) /\ Floor(now + 1) \in Nat
    <3>1. now + 1 \in Nat
      BY <1>2
    <3>2. Floor(now + 1) \in Nat
      BY <3>1, FloorBounds
    <3> QED
      BY <1>2, <3>2, FloorMonotone
  <2>3. Floor(now)' = Floor(now + 1)
    BY <2>1 DEF Floor
  <2>4. Dated(db, Floor(now + 1))
    BY <1>2, <1>3, <2>2, DatedLater DEF IInv
  <2>5. Polling => ts =< Floor(now + 1)
    BY <1>2, <1>3, <2>2 DEF IInv
  <2>6. Polling' = Polling /\ Observing' = Observing
    BY <2>1 DEF Polling, Observing
  <2> QED
    BY <1>1, <2>1, <2>3, <2>4, <2>5, <2>6 DEF IInv
<1>13. CASE Signal \/ UNCHANGED vars
  <2>1. UNCHANGED <<now, db, observed, pc, ts, lives, row, tx>>
    BY <1>13 DEF Signal, vars
  <2> QED
    BY <1>1, <2>1 DEF IInv, Polling, Observing, Floor
<1> QED
  BY <1>4, <1>5, <1>6, <1>7, <1>8, <1>9, <1>10, <1>11, <1>12, <1>13 DEF Next, Step

\* The committed database is consistent with what the polls reported in every
\* state, and so is the image of it that an open transaction works on.
THEOREM Inductive == Spec => []IInv
BY InitInv, NextInv, PTL DEF Spec

-----------------------------------------------------------------------------
(* The safety properties *)

\* stream_info is a change history (Store::record): neither restarts within a
\* minute nor channels listed twice nor purges put two rows with the same title
\* next to each other.
THEOREM HistoryOfChanges == Spec => []OnlyChanges
<1>1. IInv => OnlyChanges
  BY DEF IInv, Consistent, Changes, OnlyChanges
<1> QED
  BY <1>1, Inductive, PTL

\* Every sample lies within its channel's span, and the sample at the end of
\* the span, the "current" one of the push server, outlives every purge.
THEOREM CurrentIsKnown == Spec => []CurrentKnown
<1>1. IInv => CurrentKnown
  BY DEF IInv, Consistent, Current, CurrentKnown
<1> QED
  BY <1>1, Inductive, PTL

\* A title the queries find for a sampled minute was reported in that minute.
THEOREM TitlesObserved == Spec => []TitleObserved
<1>1. IInv => TitleObserved
  BY DEF IInv, Consistent, TitlesReported, Reported, TitleObserved
<1> QED
  BY <1>1, Inductive, PTL

\* No purge leaves a listed channel without a title (Store::purge).
THEOREM TitlesKept == Spec => []TitleKept
<1>1. IInv => TitleKept
  BY DEF IInv, Consistent, Newest, Latest, TitleKept
<1> QED
  BY <1>1, Inductive, PTL

-----------------------------------------------------------------------------
(* A round of the loop is bounded *)

\* The poll's result stays below TopN while pages are fetched, and is cut to it.
Bounded ==
    /\ pc = "fetch" => Len(lives) < TopN
    /\ pc \in {"begin", "record"} => Len(lives) =< TopN
    /\ pc \in {"down", "sleep", "loop"} => lives = <<>>

\* A page ends the list within TopN or makes it longer.
LEMMA PageBounded ==
    ASSUME TypeInv, Bounded, NEW page \in Pages, NEW next \in BOOLEAN, FetchPage(page, next)
    PROVE  /\ Len(lives) \in Nat /\ Len(lives') \in Nat /\ TopN \in Nat /\ Len(lives) < TopN
           /\ \/ pc' = "begin" /\ Len(lives') =< TopN
              \/ pc' = "fetch" /\ Len(lives) < Len(lives') /\ Len(lives') < TopN
<1> DEFINE got == lives \o page
<1>1. /\ lives \in Seq(Live) /\ page \in Seq(Live) /\ TopN \in Nat \ {0}
      /\ pc = "fetch" /\ Len(lives) < TopN
  BY ConfigAssumption DEF TypeInv, TypeOK, Bounded, FetchPage
<1>2. /\ got \in Seq(Live) /\ Len(got) = Len(lives) + Len(page)
      /\ Len(lives) \in Nat /\ Len(page) \in Nat /\ (page # <<>> => Len(page) # 0)
  BY <1>1
<1> HIDE DEF got
<1>3. Len(got) > TopN => Len(SubSeq(got, 1, TopN)) = TopN
  BY <1>1, <1>2
<1>4. \/ /\ pc' = "begin"
         /\ lives' = IF Len(got) > TopN THEN SubSeq(got, 1, TopN) ELSE got
      \/ pc' = "fetch" /\ lives' = got /\ page # <<>> /\ ~(Len(got) >= TopN)
  BY DEF FetchPage, got
<1>5. CASE pc' = "begin" /\ lives' = IF Len(got) > TopN THEN SubSeq(got, 1, TopN) ELSE got
  <2>1. CASE Len(got) > TopN
    BY <1>1, <1>2, <1>3, <1>5, <2>1
  <2>2. CASE ~(Len(got) > TopN)
    BY <1>1, <1>2, <1>5, <2>2
  <2> QED
    BY <2>1, <2>2
<1>6. CASE pc' = "fetch" /\ lives' = got /\ page # <<>> /\ ~(Len(got) >= TopN)
  BY <1>1, <1>2, <1>6
<1> QED
  BY <1>4, <1>5, <1>6

\* The end of the loop body, from a state that has more than two steps left.
LEMMA SleepNearer ==
    ASSUME Sleep, StepsLeft > 2
    PROVE  Bounded' /\ StepsLeft' < StepsLeft
<1>1. StepsLeft' = 2
  BY DEF Sleep, StepsLeft
<1> QED
  BY <1>1 DEF Sleep, Bounded

\* What is left before the sleep is more than the sleep.
LEMMA AwakeLeft ==
    ASSUME TypeInv, Bounded,
           pc \in {"fetch", "begin", "record", "recorded", "purge_samples", "purge_info"}
    PROVE  StepsLeft > 2
<1>1. Len(lives) \in Nat /\ row \in 0 .. Len(lives) /\ TopN \in Nat \ {0}
  BY ConfigAssumption DEF TypeInv, TypeOK
<1>2. CASE pc = "fetch"
  BY <1>1, <1>2 DEF StepsLeft, Bounded
<1>3. CASE pc = "begin"
  BY <1>1, <1>3 DEF StepsLeft
<1>4. CASE pc = "record"
  BY <1>1, <1>4 DEF StepsLeft
<1>5. CASE pc \in {"recorded", "purge_samples", "purge_info"}
  BY <1>5 DEF StepsLeft
<1> QED
  BY <1>2, <1>3, <1>4, <1>5

\* Where the process is gone nothing is left, otherwise something is.
LEMMA GoneNearer ==
    ASSUME TypeInv, Bounded, pc # "down", ProcessGone
    PROVE  Bounded' /\ StepsLeft' < StepsLeft
<1>1. StepsLeft' = 0 /\ Bounded'
  BY DEF ProcessGone, StepsLeft, Bounded
<1>2. StepsLeft > 0
  <2>1. CASE pc \in {"loop", "sleep"}
    BY <2>1 DEF StepsLeft
  <2>2. CASE pc \notin {"loop", "sleep"}
    <3>1. pc \in {"fetch", "begin", "record", "recorded", "purge_samples", "purge_info"}
      BY <2>2 DEF TypeInv, TypeOK, States
    <3>2. Len(lives) \in Nat /\ row \in 0 .. Len(lives) /\ TopN \in Nat
      BY ConfigAssumption DEF TypeInv, TypeOK
    <3>3. StepsLeft > 2 /\ StepsLeft \in Int
      BY <3>1, <3>2, AwakeLeft DEF StepsLeft
    <3> QED
      BY <3>3
  <2> QED
    BY <2>1, <2>2
<1> QED
  BY <1>1, <1>2

\* Each step of the process keeps the bound, and but for a poll that begins it
\* is one towards the end of the round.
LEMMA StepNearer ==
    ASSUME TypeInv, Bounded, Step
    PROVE  Bounded' /\ (BeginPoll \/ StepsLeft' < StepsLeft)
<1>0. Len(lives) \in Nat /\ row \in 0 .. Len(lives) /\ TopN \in Nat \ {0}
  BY ConfigAssumption DEF TypeInv, TypeOK
<1>1. CASE Exit
  BY <1>1, GoneNearer DEF Exit
<1>2. CASE Wake
  BY <1>2 DEF Wake, StepsLeft, Bounded
<1>3. CASE BeginPoll
  <2>1. pc' = "fetch" /\ lives' = <<>>
    BY <1>3 DEF BeginPoll, Bounded
  <2>2. Len(<<>>) < TopN
    BY <1>0
  <2> QED
    BY <1>3, <2>1, <2>2 DEF Bounded
<1>4. ASSUME NEW page \in Pages, NEW next \in BOOLEAN, FetchPage(page, next)
      PROVE  Bounded' /\ StepsLeft' < StepsLeft
  <2>1. /\ Len(lives') \in Nat /\ Len(lives) < TopN /\ pc = "fetch"
        /\ \/ pc' = "begin" /\ Len(lives') =< TopN
           \/ pc' = "fetch" /\ Len(lives) < Len(lives') /\ Len(lives') < TopN
    BY <1>4, PageBounded DEF FetchPage
  <2>2. StepsLeft = 2 * TopN + 7 - Len(lives)
    BY <2>1 DEF StepsLeft
  <2>3. CASE pc' = "begin" /\ Len(lives') =< TopN
    <3>1. StepsLeft' = Len(lives') + 7
      BY <2>3 DEF StepsLeft
    <3> QED
      BY <1>0, <2>1, <2>2, <2>3, <3>1 DEF Bounded
  <2>4. CASE pc' = "fetch" /\ Len(lives) < Len(lives') /\ Len(lives') < TopN
    <3>1. StepsLeft' = 2 * TopN + 7 - Len(lives')
      BY <2>4 DEF StepsLeft
    <3> QED
      BY <1>0, <2>1, <2>2, <2>4, <3>1 DEF Bounded
  <2> QED
    BY <2>1, <2>3, <2>4
<1>5. CASE Begin
  BY <1>0, <1>5 DEF Begin, StepsLeft, Bounded
<1>6. CASE RecordRow
  BY <1>0, <1>6 DEF RecordRow, StepsLeft, Bounded
<1>7. CASE Commit
  BY <1>0, <1>7 DEF Commit, StepsLeft, Bounded
<1>8. CASE FetchFails \/ RecordFails \/ SkipPurge \/ DeleteInfo \/ PurgeFails
  <2>1. /\ pc \in {"fetch", "begin", "record", "recorded", "purge_samples", "purge_info"}
        /\ Sleep
    BY <1>8 DEF FetchFails, RecordFails, SkipPurge, DeleteInfo, PurgeFails
  <2> QED
    BY <2>1, AwakeLeft, SleepNearer
<1>9. CASE BeginPurge
  BY <1>9 DEF BeginPurge, StepsLeft, Bounded
<1>10. CASE DeleteSamples
  BY <1>10 DEF DeleteSamples, StepsLeft, Bounded
<1> QED
  BY <1>1, <1>2, <1>3, <1>4, <1>5, <1>6, <1>7, <1>8, <1>9, <1>10 DEF Step

\* The bound of the poll's result holds in every state.
LEMMA BoundedInvariant == Spec => []Bounded
<1>1. Init => Bounded
  BY DEF Init, Bounded
<1>2. TypeInv /\ Bounded /\ [Next]_vars => Bounded'
  <2> SUFFICES ASSUME TypeInv, Bounded, [Next]_vars PROVE Bounded'
    OBVIOUS
  <2>1. CASE Step
    BY <2>1, StepNearer
  <2>2. CASE Start
    BY <2>2 DEF Start, Bounded
  <2>3. CASE Tick \/ Signal \/ UNCHANGED vars
    BY <2>3 DEF Tick, Signal, vars, Bounded
  <2>4. CASE Kill
    BY <2>4, GoneNearer DEF Kill
  <2> QED
    BY <2>1, <2>2, <2>3, <2>4 DEF Next
<1> QED
  BY <1>1, <1>2, TypeInvariant, PTL DEF Spec

\* A round of the loop takes a bounded number of steps, for any pages, TopN and
\* failures, and a process that is asked to stop ends with it (RoundBounded):
\* fetch_top_lives goes on only after a page that made the list longer.
THEOREM RoundIsBounded == Spec => RoundBounded
<1>1. TypeInv /\ Bounded /\ [Next]_vars =>
          [pc # "down" /\ (pc = "loop" => stop) =>
               UNCHANGED <<pc, lives, row, cursor>> \/ StepsLeft' < StepsLeft]_vars
  <2> SUFFICES ASSUME TypeInv, Bounded, Next, pc # "down", pc = "loop" => stop
               PROVE  UNCHANGED <<pc, lives, row, cursor>> \/ StepsLeft' < StepsLeft
    OBVIOUS
  <2>1. CASE Step
    <3>1. ~BeginPoll
      BY DEF BeginPoll
    <3> QED
      BY <2>1, <3>1, StepNearer
  <2>2. CASE Start
    BY <2>2 DEF Start
  <2>3. CASE Tick \/ Signal
    BY <2>3 DEF Tick, Signal
  <2>4. CASE Kill
    BY <2>4, GoneNearer DEF Kill
  <2> QED
    BY <2>1, <2>2, <2>3, <2>4 DEF Next
<1> QED
  BY <1>1, TypeInvariant, BoundedInvariant, PTL DEF Spec, RoundBounded

-----------------------------------------------------------------------------
(* The collector implements ViewerLog.  The refinement mapping is the        *)
(* identity on now, db and observed; what needs an argument is that a COMMIT *)
(* is one Poll of ViewerLog, whatever the clock and earlier processes did    *)
(* since the poll took its time stamp, and that the purges delete only what  *)
(* ViewerLog lets go.                                                        *)

\* Each sample was reported, with its viewer count.
Counted(d, seen) ==
    \A r \in d.samples : \E o \in seen : /\ o.ts = r.ts
                                         /\ o.live.channel = r.channel
                                         /\ o.live.viewers = r.viewers

\* What was reported at from or later has its sample, and its channel was last
\* seen then.
Covered(d, seen, from) ==
    \A o \in seen : o.ts >= from =>
        /\ \E r \in d.samples : r.channel = o.live.channel /\ r.ts = o.ts
        /\ \E c \in d.channels : c.channel = o.live.channel /\ c.last_seen = o.ts

\* How the transaction's image differs from the committed database.
Extended(d, e, t) ==
    /\ Log!OnlyAdds(d.samples, e.samples, t)
    /\ Log!OnlyAdds(d.info, e.info, t)
    /\ Log!SpanExtended(d.channels, e.channels, t)

LogInv ==
    /\ Counted(db, observed)
    /\ Covered(db, observed, Floor(now))
    /\ Polling => Covered(db, observed, ts)
    /\ pc = "record" => /\ Counted(tx, Observing)
                        /\ Covered(tx, Observing, ts)
                        /\ Extended(db, tx, ts)
    /\ pc \in {"purge_samples", "purge_info"} => cutoff =< now - Retain
-----------------------------------------------------------------------------
(* A row of the poll *)

LEMMA RecordCounted ==
    ASSUME NEW d \in Database, NEW t \in Nat, NEW l \in Live, NEW seen, Counted(d, seen)
    PROVE  Counted(RecordLive(d, t, l), seen \cup {[ts |-> t, live |-> l]})
<1> DEFINE new  == [channel |-> l.channel, ts |-> t, viewers |-> l.viewers]
           more == seen \cup {[ts |-> t, live |-> l]}
<1> SUFFICES ASSUME NEW r \in RecordLive(d, t, l).samples
             PROVE  \E o \in more : /\ o.ts = r.ts
                                    /\ o.live.channel = r.channel
                                    /\ o.live.viewers = r.viewers
  BY DEF Counted
<1>1. r \in d.samples \/ r = new
  BY DEF RecordLive, InsertOrIgnore
<1>2. CASE r \in d.samples
  BY <1>2 DEF Counted
<1>3. CASE r = new
  <2>1. [ts |-> t, live |-> l] \in more
    OBVIOUS
  <2> QED
    BY <1>3, <2>1
<1> QED
  BY <1>1, <1>2, <1>3

\* The minute of a poll is the last one, so the upsert that moves a last_seen
\* to it takes nothing away from what was reported in it.
LEMMA RecordCovered ==
    ASSUME NEW d \in Database, NEW t \in Nat, NEW l \in Live,
           NEW seen \in SUBSET [ts : Nat, live : Live],
           Dated(d, t), Covered(d, seen, t)
    PROVE  Covered(RecordLive(d, t, l), seen \cup {[ts |-> t, live |-> l]}, t)
<1> DEFINE e == RecordLive(d, t, l)
<1>1. d.samples \subseteq e.samples
  BY DEF RecordLive, InsertOrIgnore
<1>2. \E r \in e.samples : r.channel = l.channel /\ r.ts = t
  <2> DEFINE new == [channel |-> l.channel, ts |-> t, viewers |-> l.viewers]
  <2>1. new.channel = l.channel /\ new.ts = t
    OBVIOUS
  <2>2. new \in e.samples \/ \E z \in e.samples : z.channel = new.channel /\ z.ts = new.ts
    BY DEF RecordLive, InsertOrIgnore
  <2> QED
    BY <2>1, <2>2
<1>3. ASSUME NEW c \in d.channels, c.channel = l.channel
      PROVE  \E b \in e.channels : b.channel = l.channel /\ b.last_seen = t
  <2>1. [c EXCEPT !.last_seen = t] \in e.channels
    BY <1>3 DEF RecordLive, UpsertChannel
  <2>2. /\ [c EXCEPT !.last_seen = t].channel = c.channel
        /\ [c EXCEPT !.last_seen = t].last_seen = t
    BY DEF Database, ChannelRow
  <2> QED
    BY <1>3, <2>1, <2>2
<1>4. \E b \in e.channels : b.channel = l.channel /\ b.last_seen = t
  <2>1. CASE ~\E c \in d.channels : c.channel = l.channel
    <3> DEFINE new == [channel |-> l.channel, first_seen |-> t, last_seen |-> t]
    <3>1. new \in e.channels
      BY <2>1 DEF RecordLive, UpsertChannel
    <3>2. new.channel = l.channel /\ new.last_seen = t
      OBVIOUS
    <3> QED
      BY <3>1, <3>2
  <2> QED
    BY <1>3, <2>1
<1>5. ASSUME NEW o \in seen, o.ts >= t
      PROVE  /\ \E r \in e.samples : r.channel = o.live.channel /\ r.ts = o.ts
             /\ \E c \in e.channels : c.channel = o.live.channel /\ c.last_seen = o.ts
  <2>1. PICK c \in d.channels : c.channel = o.live.channel /\ c.last_seen = o.ts
    BY <1>5 DEF Covered
  <2>2. o.ts = t
    BY <1>5, <2>1 DEF Dated
  <2>3. \E r \in e.samples : r.channel = o.live.channel /\ r.ts = o.ts
    BY <1>1, <1>5 DEF Covered
  <2>4. CASE c.channel = l.channel
    BY <1>4, <2>1, <2>2, <2>3, <2>4
  <2>5. CASE c.channel # l.channel
    <3>1. c \in e.channels
      BY <2>5 DEF RecordLive, UpsertChannel
    <3> QED
      BY <2>1, <2>3, <3>1
  <2> QED
    BY <2>4, <2>5
<1>6. /\ [ts |-> t, live |-> l].ts = t
      /\ [ts |-> t, live |-> l].live = l
  OBVIOUS
<1> QED
  BY <1>2, <1>4, <1>5, <1>6 DEF Covered

LEMMA RecordExtended ==
    ASSUME NEW d \in Database, NEW e \in Database, NEW t \in Nat, NEW l \in Live,
           Extended(d, e, t)
    PROVE  Extended(d, RecordLive(e, t, l), t)
<1> DEFINE f == RecordLive(e, t, l)
<1>1. Log!OnlyAdds(d.samples, f.samples, t)
  <2>1. e.samples \subseteq f.samples /\ \A r \in f.samples : r \in e.samples \/ r.ts = t
    BY DEF RecordLive, InsertOrIgnore
  <2> QED
    BY <2>1 DEF Extended, Log!OnlyAdds
<1>2. Log!OnlyAdds(d.info, f.info, t)
  <2>1. e.info \subseteq f.info /\ \A r \in f.info : r \in e.info \/ r.ts = t
    BY DEF RecordLive, RecordTitle, InsertOrIgnore
  <2> QED
    BY <2>1 DEF Extended, Log!OnlyAdds
<1>3. ASSUME NEW r \in d.channels
      PROVE  \E q \in f.channels : /\ q.channel = r.channel
                                   /\ q.first_seen = r.first_seen
                                   /\ q.last_seen \in {r.last_seen, t}
  <2>1. PICK q \in e.channels : /\ q.channel = r.channel
                                /\ q.first_seen = r.first_seen
                                /\ q.last_seen \in {r.last_seen, t}
    BY DEF Extended, Log!SpanExtended
  <2>2. CASE q.channel = l.channel
    <3>1. [q EXCEPT !.last_seen = t] \in f.channels
      BY <2>2 DEF RecordLive, UpsertChannel
    <3>2. /\ [q EXCEPT !.last_seen = t].channel = q.channel
          /\ [q EXCEPT !.last_seen = t].first_seen = q.first_seen
          /\ [q EXCEPT !.last_seen = t].last_seen = t
      BY DEF Database, ChannelRow
    <3> QED
      BY <2>1, <3>1, <3>2
  <2>3. CASE q.channel # l.channel
    <3>1. q \in f.channels
      BY <2>3 DEF RecordLive, UpsertChannel
    <3> QED
      BY <2>1, <3>1
  <2> QED
    BY <2>2, <2>3
<1>4. \A q \in f.channels : q \in e.channels \/ q.last_seen = t
  BY DEF RecordLive, UpsertChannel, Database, ChannelRow
<1>5. \A q \in f.channels : q.last_seen = t \/ q \in d.channels
  BY <1>4 DEF Extended, Log!SpanExtended
<1> QED
  BY <1>1, <1>2, <1>3, <1>5 DEF Extended, Log!SpanExtended
-----------------------------------------------------------------------------
(* LogInv holds in every state *)

LEMMA CoveredLater ==
    ASSUME NEW d, NEW seen \in SUBSET [ts : Nat, live : Live],
           NEW t \in Nat, NEW u \in Nat, t =< u, Covered(d, seen, t)
    PROVE  Covered(d, seen, u)
BY DEF Covered

\* A purge of samples takes nothing that was reported in the current minute.
LEMMA PurgeCovered ==
    ASSUME NEW d \in Database, NEW seen \in SUBSET [ts : Nat, live : Live],
           NEW t \in Nat, NEW before \in Int, before =< t, Covered(d, seen, t)
    PROVE  Covered(PurgeSamples(d, before), seen, t)
<1> DEFINE e == PurgeSamples(d, before)
<1>1. e.samples = {r \in d.samples : r.ts >= before} /\ e.channels = d.channels
  BY DEF PurgeSamples, Database
<1>2. ASSUME NEW o \in seen, o.ts >= t
      PROVE  /\ \E r \in e.samples : r.channel = o.live.channel /\ r.ts = o.ts
             /\ \E c \in e.channels : c.channel = o.live.channel /\ c.last_seen = o.ts
  <2>1. PICK r \in d.samples : r.channel = o.live.channel /\ r.ts = o.ts
    BY <1>2 DEF Covered
  <2>2. r \in e.samples
    BY <1>1, <1>2, <2>1
  <2> QED
    BY <1>1, <1>2, <2>1, <2>2 DEF Covered
<1> QED
  BY <1>2 DEF Covered

LEMMA InitLog == Init => LogInv
BY DEF Init, LogInv, Polling, EmptyDb, Counted, Covered

LEMMA NextLog == IInv /\ LogInv /\ [Next]_vars => LogInv'
<1> SUFFICES ASSUME IInv, LogInv, [Next]_vars PROVE LogInv'
  OBVIOUS
<1>1. /\ now \in Nat /\ ts \in Nat /\ db \in Database /\ tx \in Database /\ cutoff \in Int
      /\ lives \in Seq(Live) /\ row \in 0 .. Len(lives)
      /\ observed \in SUBSET [ts : Nat, live : Live]
  BY DEF IInv, TypeInv, TypeOK
<1>2. Observing \in SUBSET [ts : Nat, live : Live]
  BY <1>1 DEF Observing
<1>3. Floor(now) \in Nat /\ now < Floor(now) + PollSec
  BY <1>1, FloorBounds
<1>4. Retain \in Nat /\ PollSec \in Nat /\ Retain >= PollSec
  BY ConfigAssumption
<1>5. CASE Start \/ Exit \/ Wake \/ FetchFails \/ RecordFails \/ SkipPurge \/ PurgeFails \/ Kill
  <2>1. UNCHANGED <<now, db, observed>> /\ pc' \in {"loop", "down", "sleep"}
    BY <1>5 DEF Start, Exit, Wake, FetchFails, RecordFails, SkipPurge, PurgeFails,
                Kill, ProcessGone, Sleep
  <2> QED
    BY <2>1 DEF LogInv, Polling, Floor
<1>6. CASE BeginPoll
  <2>1. UNCHANGED <<now, db, observed>> /\ pc' = "fetch" /\ ts' = Floor(now)
    BY <1>6 DEF BeginPoll
  <2> QED
    BY <2>1 DEF LogInv, Polling, Floor
<1>7. ASSUME NEW page \in Pages, NEW next \in BOOLEAN, FetchPage(page, next) PROVE LogInv'
  <2>1. UNCHANGED <<now, db, observed, ts>> /\ pc = "fetch" /\ pc' \in {"fetch", "begin"}
    BY <1>7 DEF FetchPage
  <2> QED
    BY <2>1 DEF LogInv, Polling, Floor
<1>8. CASE Begin
  <2>1. /\ UNCHANGED <<now, db, observed, ts>>
        /\ pc = "begin" /\ pc' = "record" /\ tx' = db /\ row' = 0
    BY <1>8 DEF Begin
  <2>2. Observing' = observed
    BY <2>1 DEF Observing
  <2>3. Extended(db, db, ts)
    BY <1>1 DEF Extended, Log!OnlyAdds, Log!SpanExtended
  <2> QED
    BY <2>1, <2>2, <2>3 DEF LogInv, Polling, Floor
<1>9. CASE RecordRow
  <2>1. /\ UNCHANGED <<now, db, observed, ts, lives>>
        /\ pc = "record" /\ pc' = "record" /\ row' = row + 1 /\ row < Len(lives)
        /\ tx' = RecordLive(tx, ts, lives[row + 1])
    BY <1>9 DEF RecordRow
  <2>2. lives[row + 1] \in Live
    BY <1>1, <2>1
  <2>3. Observing' = Observing \cup {[ts |-> ts, live |-> lives[row + 1]]}
    BY <1>1, <2>1 DEF Observing
  <2>4. Dated(tx, ts)
    BY <2>1 DEF IInv
  <2>5. Counted(tx', Observing')
    BY <1>1, <2>1, <2>2, <2>3, RecordCounted DEF LogInv
  <2>6. Covered(tx', Observing', ts)
    BY <1>1, <1>2, <2>1, <2>2, <2>3, <2>4, RecordCovered DEF LogInv
  <2>7. Extended(db, tx', ts)
    BY <1>1, <2>1, <2>2, RecordExtended DEF LogInv
  <2> QED
    BY <2>1, <2>5, <2>6, <2>7 DEF LogInv, Polling, Floor
<1>10. CASE Commit
  <2>1. /\ pc = "record" /\ pc' = "recorded" /\ db' = tx /\ now' = now
        /\ observed' = Observing
    BY <1>10 DEF Commit, Observing
  <2>2. Covered(tx, Observing, Floor(now))
    BY <1>1, <1>2, <1>3, <2>1, CoveredLater DEF LogInv, IInv, Polling
  <2> QED
    BY <2>1, <2>2 DEF LogInv, Polling, Floor
<1>11. CASE BeginPurge
  <2>1. UNCHANGED <<now, db, observed>> /\ pc' = "purge_samples" /\ cutoff' = now - Retain
    BY <1>11 DEF BeginPurge
  <2>2. cutoff' =< now - Retain
    BY <1>1, <1>4, <2>1
  <2> QED
    BY <2>1, <2>2 DEF LogInv, Polling, Floor
<1>12. CASE DeleteSamples
  <2>1. /\ pc = "purge_samples" /\ pc' = "purge_info" /\ db' = PurgeSamples(db, cutoff)
        /\ UNCHANGED <<now, observed, cutoff>>
    BY <1>12 DEF DeleteSamples
  <2>2. cutoff =< Floor(now)
    BY <1>1, <1>3, <1>4, <2>1 DEF LogInv
  <2>3. Covered(db', observed, Floor(now))
    BY <1>1, <1>3, <2>1, <2>2, PurgeCovered DEF LogInv
  <2>4. Counted(db', observed)
    BY <1>1, <2>1 DEF LogInv, Counted, PurgeSamples, Database
  <2> QED
    BY <2>1, <2>3, <2>4 DEF LogInv, Polling, Floor
<1>13. CASE DeleteInfo
  <2>1. /\ pc' = "sleep" /\ db' = PurgeInfo(db, cutoff) /\ UNCHANGED <<now, observed>>
    BY <1>13 DEF DeleteInfo, Sleep
  <2>2. db'.samples = db.samples /\ db'.channels = db.channels
    BY <1>1, <2>1 DEF PurgeInfo, Database
  <2>3. Counted(db', observed) /\ Covered(db', observed, Floor(now))
    BY <2>2 DEF LogInv, Counted, Covered
  <2> QED
    BY <2>1, <2>3 DEF LogInv, Polling, Floor
<1>14. CASE Tick
  <2>1. now' = now + 1 /\ UNCHANGED <<db, observed, pc, ts, lives, row, tx, cutoff>>
    BY <1>14 DEF Tick
  <2>2. now + 1 \in Nat
    BY <1>1
  <2>3. Floor(now) =< Floor(now + 1) /\ Floor(now + 1) \in Nat
    BY <1>1, <2>2, FloorMonotone, FloorBounds
  <2>4. Floor(now)' = Floor(now + 1)
    BY <2>1 DEF Floor
  <2>5. Covered(db, observed, Floor(now + 1))
    BY <1>1, <1>3, <2>3, CoveredLater DEF LogInv
  <2>6. cutoff =< now - Retain => cutoff =< (now + 1) - Retain
    BY <1>1, <1>4
  <2>7. Polling' = Polling /\ Observing' = Observing
    BY <2>1 DEF Polling, Observing
  <2> QED
    BY <2>1, <2>4, <2>5, <2>6, <2>7 DEF LogInv
<1>15. CASE Signal \/ UNCHANGED vars
  <2>1. UNCHANGED <<now, db, observed, pc, ts, lives, row, tx, cutoff>>
    BY <1>15 DEF Signal, vars
  <2> QED
    BY <2>1 DEF LogInv, Polling, Observing, Floor
<1> QED
  BY <1>5, <1>6, <1>7, <1>8, <1>9, <1>10, <1>11, <1>12, <1>13, <1>14, <1>15 DEF Next, Step

LEMMA LogInvariant == Spec => [](IInv /\ LogInv)
<1>1. Init => IInv /\ LogInv
  BY InitInv, InitLog
<1>2. (IInv /\ LogInv) /\ [Next]_vars => (IInv /\ LogInv)'
  BY NextInv, NextLog
<1> QED
  BY <1>1, <1>2, PTL DEF Spec

-----------------------------------------------------------------------------
(* The refinement *)

\* A COMMIT is the Poll of ViewerLog at the poll's time stamp.
LEMMA CommitIsPoll ==
    ASSUME IInv, LogInv, Commit
    PROVE  \E t \in 0 .. now : Log!Poll(t)
<1>1. /\ now \in Nat /\ ts \in Nat /\ db \in Database /\ tx \in Database
      /\ lives \in Seq(Live) /\ row \in 0 .. Len(lives)
      /\ observed \in SUBSET [ts : Nat, live : Live]
  BY DEF IInv, TypeInv, TypeOK
<1>2. /\ pc = "record" /\ db' = tx /\ now' = now /\ observed' = Observing
  BY DEF Commit, Observing
<1>3. ts =< Floor(now) /\ Floor(now) =< now
  BY <1>1, <1>2, FloorBounds DEF IInv, Polling
<1>4. ts \in 0 .. now
  <2>1. Floor(now) \in Nat
    BY <1>1, FloorBounds
  <2> QED
    BY <1>1, <1>3, <2>1
<1>5. \A r \in db.samples : r.ts =< ts
  BY <1>2 DEF IInv, Polling, Dated
<1>6. Log!OnlyAdds(observed, observed', ts)
  BY <1>2 DEF Log!OnlyAdds, Observing
<1>7. /\ Log!OnlyAdds(db.samples, db'.samples, ts)
      /\ Log!OnlyAdds(db.info, db'.info, ts)
      /\ Log!SpanExtended(db.channels, db'.channels, ts)
  BY <1>2 DEF LogInv, Extended
<1>8. Counted(tx, observed') /\ Covered(tx, observed', ts) /\ Newest(tx)
  BY <1>2 DEF LogInv, IInv, Consistent
<1>9. Log!WholeMinute(db'.samples, observed', ts)
  <2>1. \A r \in db'.samples : r.ts = ts =>
            \E o \in observed' : /\ o.ts = ts
                                 /\ o.live.channel = r.channel
                                 /\ o.live.viewers = r.viewers
    BY <1>2, <1>8 DEF Counted
  <2>2. \A o \in observed' : o.ts = ts =>
            \E r \in db'.samples : r.ts = ts /\ r.channel = o.live.channel
    BY <1>1, <1>2, <1>8 DEF Covered
  <2> QED
    BY <2>1, <2>2 DEF Log!WholeMinute
<1>10. Log!Listed(db', observed', ts)
  <2> SUFFICES ASSUME NEW o \in observed', o.ts = ts
               PROVE  /\ \E q \in db'.channels : q.channel = o.live.channel /\ q.last_seen = ts
                      /\ \E r \in db'.info : r.channel = o.live.channel
    BY DEF Log!Listed
  <2>1. PICK q \in tx.channels : q.channel = o.live.channel /\ q.last_seen = ts
    BY <1>1, <1>8 DEF Covered
  <2>2. \E r \in tx.info : r.channel = q.channel
    BY <1>8 DEF Newest, Latest
  <2> QED
    BY <1>2, <2>1, <2>2
<1>11. Log!Poll(ts)
  BY <1>2, <1>3, <1>4, <1>5, <1>6, <1>7, <1>9, <1>10 DEF Log!Poll
<1> QED
  BY <1>4, <1>11

LEMMA DeleteSamplesForgets ==
    ASSUME IInv, LogInv, DeleteSamples
    PROVE  Log!ForgetSamples
<1>1. now \in Nat /\ cutoff \in Int /\ db \in Database /\ Retain \in Nat
  BY ConfigAssumption DEF IInv, TypeInv, TypeOK
<1>2. /\ pc = "purge_samples" /\ UNCHANGED <<now, observed>>
      /\ db'.samples = {r \in db.samples : r.ts >= cutoff}
      /\ db'.info = db.info /\ db'.channels = db.channels
  BY <1>1 DEF DeleteSamples, PurgeSamples, Database
<1>3. cutoff =< now - Retain
  BY <1>2 DEF LogInv
<1>4. \A r \in db.samples \ db'.samples : r.ts < now - Retain
  BY <1>1, <1>2, <1>3 DEF Database, SampleRow
<1> QED
  BY <1>2, <1>4 DEF Log!ForgetSamples

LEMMA DeleteInfoForgets ==
    ASSUME IInv, LogInv, DeleteInfo
    PROVE  Log!ForgetTitles
<1>1. now \in Nat /\ cutoff \in Int /\ db \in Database /\ Retain \in Nat
  BY ConfigAssumption DEF IInv, TypeInv, TypeOK
<1>2. /\ pc = "purge_info" /\ UNCHANGED <<now, observed>>
      /\ db'.info = {r \in db.info : \/ r.ts >= cutoff
                                     \/ \A q \in db.info : q.channel = r.channel => q.ts =< r.ts}
      /\ db'.samples = db.samples /\ db'.channels = db.channels
  BY <1>1 DEF DeleteInfo, PurgeInfo, Database
<1>3. cutoff =< now - Retain
  BY <1>2 DEF LogInv
<1>4. \A r \in db.info \ db'.info :
          /\ r.ts < now - Retain
          /\ \E q \in db.info : q.channel = r.channel /\ q.ts > r.ts
  BY <1>1, <1>2, <1>3 DEF Database, InfoRow
<1> QED
  BY <1>2, <1>4 DEF Log!ForgetTitles

LEMMA StepImplements ==
    ASSUME IInv, LogInv, [Next]_vars
    PROVE  [Log!LogNext]_Log!logVars
<1>1. CASE Commit
  BY <1>1, CommitIsPoll DEF Log!LogNext
<1>2. CASE DeleteSamples
  BY <1>2, DeleteSamplesForgets DEF Log!LogNext
<1>3. CASE DeleteInfo
  BY <1>3, DeleteInfoForgets DEF Log!LogNext
<1>4. CASE Tick
  <2>1. now' > now /\ UNCHANGED <<db, observed>>
    BY <1>4 DEF Tick, IInv, TypeInv, TypeOK
  <2> QED
    BY <2>1 DEF Log!LogNext, Log!Advance
<1>5. CASE \/ Start \/ Exit \/ Wake \/ BeginPoll \/ FetchFails \/ Begin \/ RecordRow
           \/ RecordFails \/ SkipPurge \/ BeginPurge \/ PurgeFails \/ Signal \/ Kill
           \/ UNCHANGED vars
  <2>1. UNCHANGED <<now, db, observed>>
    BY <1>5 DEF Start, Exit, Wake, BeginPoll, FetchFails, Begin, RecordRow, RecordFails,
                SkipPurge, BeginPurge, PurgeFails, Signal, Kill, ProcessGone, Sleep, vars
  <2> QED
    BY <2>1 DEF Log!logVars
<1>6. ASSUME NEW page \in Pages, NEW next \in BOOLEAN, FetchPage(page, next)
      PROVE  [Log!LogNext]_Log!logVars
  BY <1>6 DEF FetchPage, Log!logVars
<1> QED
  BY <1>1, <1>2, <1>3, <1>4, <1>5, <1>6 DEF Next, Step

\* The collector implements ViewerLog: whatever is interrupted, retried or
\* started again, a reader of the database sees polls as a whole, rows that are
\* never rewritten, and only expired rows disappear.
THEOREM Implements == Spec => ImplementsLog
<1>1. Init => Log!LogInit
  BY ConfigAssumption DEF Init, EmptyDb, Log!LogInit, Log!EmptyDb
<1>2. IInv /\ LogInv /\ [Next]_vars => [Log!LogNext]_Log!logVars
  BY StepImplements
<1> QED
  BY <1>1, <1>2, LogInvariant, PTL DEF Spec, ImplementsLog, Log!LogSpec

-----------------------------------------------------------------------------
(* The queries beside the collector *)

\* The composition runs the collector's own steps.
LEMMA CollectorRuns == ReaderSpec => Spec
<1>1. ReaderInit => Init
  BY DEF ReaderInit
<1>2. [ReaderNext]_allVars => [Next]_vars
  BY DEF ReaderNext, CollectorStep, ReadPoints, FinishRead, allVars, vars
<1> QED
  BY <1>1, <1>2, PTL DEF ReaderSpec, Spec

-----------------------------------------------------------------------------
(* The reply's rows *)

\* In a table of titles, the client's search through the rows of a reply and
\* the definition of the title at a time agree within the range.
LEMMA RowsSuffice ==
    ASSUME NEW info \in SUBSET InfoRow, NEW c, NEW range \in [from : Nat, to : Nat],
           NEW t \in Nat, range.from =< t, t =< range.to
    PROVE  LET rows == {r \in InfoRows(info, c, range) : r.ts =< t}
           IN  {r \in rows : \A q \in rows : q.ts =< r.ts} = TitleAt(info, c, t)
<1> DEFINE rows == {r \in InfoRows(info, c, range) : r.ts =< t}
           found == {r \in rows : \A q \in rows : q.ts =< r.ts}
<1>1. /\ range.from \in Nat /\ range.to \in Nat
      /\ \A r \in info : r.ts \in Nat
  BY DEF InfoRow
<1>2. \A r \in rows : r \in info /\ r.channel = c /\ r.ts =< t
  BY DEF InfoRows, TitleAt
<1>3. ASSUME NEW r \in info, r.channel = c, r.ts =< t,
             \A q \in info : q.channel = c /\ q.ts =< t => q.ts =< r.ts
      PROVE  r \in rows
  <2>1. CASE range.from < r.ts
    BY <1>1, <1>3, <2>1 DEF InfoRows
  <2>2. CASE r.ts =< range.from
    <3>1. \A q \in info : q.channel = c /\ q.ts =< range.from => q.ts =< r.ts
      BY <1>1, <1>3
    <3> QED
      BY <1>1, <1>3, <2>2, <3>1 DEF InfoRows, TitleAt
  <2> QED
    BY <1>1, <2>1, <2>2
<1>4. ASSUME NEW r \in found
      PROVE  r \in TitleAt(info, c, t)
  <2>1. r \in rows /\ \A q \in rows : q.ts =< r.ts
    OBVIOUS
  <2>2. ASSUME NEW q \in info, q.channel = c, q.ts =< t
        PROVE  q.ts =< r.ts
    <3>1. CASE range.from < q.ts
      <4>1. q \in rows
        BY <1>1, <2>2, <3>1 DEF InfoRows
      <4> QED
        BY <2>1, <4>1
    <3>2. CASE q.ts =< range.from
      <4>1. CASE range.from < r.ts
        BY <1>1, <1>2, <2>1, <3>2, <4>1
      <4>2. CASE ~(range.from < r.ts)
        <5>1. r \in TitleAt(info, c, range.from)
          BY <2>1, <4>2 DEF InfoRows
        <5> QED
          BY <2>2, <3>2, <5>1 DEF TitleAt
      <4> QED
        BY <4>1, <4>2
    <3> QED
      BY <1>1, <2>2, <3>1, <3>2
  <2> QED
    BY <1>2, <2>1, <2>2 DEF TitleAt
<1>5. ASSUME NEW r \in TitleAt(info, c, t)
      PROVE  r \in found
  <2>1. /\ r \in info /\ r.channel = c /\ r.ts =< t
        /\ \A q \in info : q.channel = c /\ q.ts =< t => q.ts =< r.ts
    BY DEF TitleAt
  <2>2. r \in rows
    BY <1>3, <2>1
  <2> QED
    BY <1>2, <2>1, <2>2
<1> QED
  BY <1>4, <1>5

\* The purge never lets an older title show through.
LEMMA PurgedTitle ==
    ASSUME NEW d \in Database, NEW before \in Int, NEW c, NEW t \in Nat
    PROVE  TitleAt(PurgeInfo(d, before).info, c, t) \subseteq TitleAt(d.info, c, t)
<1> DEFINE kept == PurgeInfo(d, before).info
<1>1. kept = {r \in d.info : \/ r.ts >= before
                             \/ \A q \in d.info : q.channel = r.channel => q.ts =< r.ts}
  BY DEF PurgeInfo, Database
<1>2. \A r \in d.info : r.ts \in Nat
  BY DEF Database, InfoRow
<1> SUFFICES ASSUME NEW r \in TitleAt(kept, c, t)
             PROVE  r \in TitleAt(d.info, c, t)
  OBVIOUS
<1>3. r \in kept /\ r \in d.info /\ r.channel = c /\ r.ts =< t
  BY <1>1 DEF TitleAt
<1>4. ASSUME NEW q \in d.info, q.channel = c, q.ts =< t
      PROVE  q.ts =< r.ts
  <2>1. CASE q \in kept
    BY <1>4, <2>1 DEF TitleAt
  <2>2. CASE q \notin kept
    BY <1>1, <1>2, <1>3, <1>4, <2>2
  <2> QED
    BY <2>1, <2>2
<1> QED
  BY <1>3, <1>4 DEF TitleAt

-----------------------------------------------------------------------------
(* The inductive invariant: the rows a reader holds behave as if they were *)
(* still in the table                                                      *)

PointsReported(info, seen) ==
    \A p \in points : \A r \in TitleAt(info, p.channel, p.ts) :
        Reported(seen, p.channel, p.ts, r.title)

Requested ==
    /\ asked \subseteq [channel : Channels, range : [from : Nat, to : Nat]]
    /\ \A request \in asked : \A p \in points :
           /\ p.channel = request.channel
           /\ request.range.from =< p.ts /\ p.ts =< request.range.to

HeldInv ==
    /\ points \subseteq SampleRow
    /\ \A p \in points : p.ts =< Floor(now)
    /\ Polling => \A p \in points : p.ts =< ts
    /\ PointsReported(db.info, observed)
    /\ pc = "record" => PointsReported(tx.info, Observing)

\* A row of the poll, for titles looked up at rows that are held elsewhere.
LEMMA RecordHeld ==
    ASSUME NEW d \in Database, NEW t \in Nat, NEW l \in Live, NEW seen,
           Dated(d, t), Consistent(d, seen), PointsReported(d.info, seen),
           points \subseteq SampleRow, \A p \in points : p.ts =< t
    PROVE  PointsReported(RecordLive(d, t, l).info, seen \cup {[ts |-> t, live |-> l]})
<1> DEFINE e == [d EXCEPT !.samples = @ \cup points]
           more == seen \cup {[ts |-> t, live |-> l]}
<1>1. /\ e \in Database
      /\ e.samples = d.samples \cup points /\ e.info = d.info /\ e.channels = d.channels
  BY DEF Database
<1>2. Dated(e, t)
  BY <1>1 DEF Dated
<1>3. Keyed(e)
  BY <1>1 DEF Keyed, Consistent
<1>4. TitlesReported(e, seen)
  BY <1>1 DEF TitlesReported, Consistent, PointsReported
<1>5. TitlesReported(RecordLive(e, t, l), more)
  BY <1>1, <1>2, <1>3, <1>4, RecordReported
<1>6. RecordLive(e, t, l).info = RecordLive(d, t, l).info
  BY <1>1 DEF RecordLive
<1>7. points \subseteq RecordLive(e, t, l).samples
  BY <1>1 DEF RecordLive, InsertOrIgnore
<1> QED
  BY <1>5, <1>6, <1>7 DEF TitlesReported, PointsReported

LEMMA InitHeld == ReaderInit => Requested /\ HeldInv
BY DEF ReaderInit, Init, Requested, HeldInv, PointsReported, Polling

LEMMA NextRequested == Requested /\ [ReaderNext]_allVars => Requested'
<1> SUFFICES ASSUME Requested, [ReaderNext]_allVars PROVE Requested'
  OBVIOUS
<1>1. CASE CollectorStep \/ UNCHANGED allVars
  BY <1>1 DEF CollectorStep, readVars, allVars, Requested
<1>2. ASSUME NEW c \in Channels, NEW range \in Ranges, ReadPoints(c, range)
      PROVE  Requested'
  <2>1. range \in [from : Nat, to : Nat]
    BY RangesAssumption
  <2>2. asked' = {[channel |-> c, range |-> range]} /\ points' = PointRows(db.samples, c, range)
    BY <1>2 DEF ReadPoints
  <2> QED
    BY <2>1, <2>2 DEF Requested, PointRows
<1>3. CASE FinishRead
  BY <1>3 DEF FinishRead, Requested
<1> QED
  BY <1>1, <1>2, <1>3 DEF ReaderNext

\* A reader's own step: what it takes is in the table, hence reported.
LEMMA ReadHeld ==
    ASSUME IInv, LogInv, HeldInv, UNCHANGED vars, points' \subseteq db.samples
    PROVE  HeldInv'
<1>1. /\ now' = now /\ db' = db /\ observed' = observed /\ pc' = pc /\ ts' = ts
      /\ lives' = lives /\ row' = row /\ tx' = tx
  BY DEF vars
<1>2. /\ now \in Nat /\ db \in Database /\ tx \in Database
      /\ \A s \in db.samples : s \in SampleRow /\ s.ts =< Floor(now)
      /\ Polling => \A s \in db.samples : s.ts =< ts
  BY DEF IInv, TypeInv, TypeOK, Dated, Database
<1>3. \A s \in db.samples : \A r \in TitleAt(db.info, s.channel, s.ts) :
          Reported(observed, s.channel, s.ts, r.title)
  BY DEF IInv, Consistent, TitlesReported
<1>4. pc = "record" => db.samples \subseteq tx.samples /\ TitlesReported(tx, Observing)
  BY DEF LogInv, Extended, Log!OnlyAdds, IInv, Consistent
<1> QED
  BY <1>1, <1>2, <1>3, <1>4 DEF HeldInv, PointsReported, Polling, Observing, Floor, TitlesReported

\* A step of the collector, for the rows that are held.
LEMMA CollectorHeld ==
    ASSUME IInv, HeldInv, Next, UNCHANGED points
    PROVE  HeldInv'
<1>1. /\ now \in Nat /\ ts \in Nat /\ db \in Database /\ tx \in Database /\ cutoff \in Int
      /\ lives \in Seq(Live) /\ row \in 0 .. Len(lives)
  BY DEF IInv, TypeInv, TypeOK
<1>2. points' = points /\ points \subseteq SampleRow /\ \A p \in points : p.ts \in Nat
  BY DEF HeldInv, SampleRow
<1>3. Floor(now) \in Nat
  BY <1>1, FloorBounds
<1>4. CASE Start \/ Exit \/ Wake \/ FetchFails \/ RecordFails \/ SkipPurge
           \/ BeginPurge \/ PurgeFails \/ Kill
  <2>1. UNCHANGED <<now, db, observed>> /\ pc' \notin {"fetch", "begin", "record"}
    BY <1>4 DEF Start, Exit, Wake, FetchFails, RecordFails, SkipPurge, BeginPurge,
                PurgeFails, Kill, ProcessGone, Sleep
  <2> QED
    BY <1>2, <2>1 DEF HeldInv, PointsReported, Polling, Floor
<1>5. CASE BeginPoll
  <2>1. UNCHANGED <<now, db, observed>> /\ pc' = "fetch" /\ ts' = Floor(now)
    BY <1>5 DEF BeginPoll
  <2> QED
    BY <1>2, <2>1 DEF HeldInv, PointsReported, Polling, Floor
<1>6. ASSUME NEW page \in Pages, NEW next \in BOOLEAN, FetchPage(page, next) PROVE HeldInv'
  <2>1. UNCHANGED <<now, db, observed, ts>> /\ pc = "fetch" /\ pc' \in {"fetch", "begin"}
    BY <1>6 DEF FetchPage
  <2> QED
    BY <1>2, <2>1 DEF HeldInv, PointsReported, Polling, Floor
<1>7. CASE Begin
  <2>1. /\ UNCHANGED <<now, db, observed, ts>>
        /\ pc = "begin" /\ pc' = "record" /\ tx' = db /\ row' = 0
    BY <1>7 DEF Begin
  <2>2. Observing' = observed
    BY <2>1 DEF Observing
  <2> QED
    BY <1>2, <2>1, <2>2 DEF HeldInv, PointsReported, Polling, Floor
<1>8. CASE RecordRow
  <2>1. /\ UNCHANGED <<now, db, observed, ts, lives>>
        /\ pc = "record" /\ pc' = "record" /\ row' = row + 1 /\ row < Len(lives)
        /\ tx' = RecordLive(tx, ts, lives[row + 1])
    BY <1>8 DEF RecordRow
  <2>2. lives[row + 1] \in Live
    BY <1>1, <2>1
  <2>3. Observing' = Observing \cup {[ts |-> ts, live |-> lives[row + 1]]}
    BY <1>1, <2>1 DEF Observing
  <2>4. /\ Dated(tx, ts) /\ Consistent(tx, Observing)
        /\ PointsReported(tx.info, Observing) /\ \A p \in points : p.ts =< ts
    BY <2>1 DEF IInv, HeldInv, Polling
  <2>5. PointsReported(RecordLive(tx, ts, lives[row + 1]).info,
                       Observing \cup {[ts |-> ts, live |-> lives[row + 1]]})
    BY <1>1, <1>2, <2>2, <2>4, RecordHeld
  <2>6. PointsReported(tx'.info, Observing')
    BY <2>1, <2>3, <2>5
  <2>7. PointsReported(tx.info, Observing)' <=> PointsReported(tx'.info, Observing')
    BY <1>2 DEF PointsReported
  <2> QED
    BY <1>2, <2>1, <2>6, <2>7 DEF HeldInv, PointsReported, Polling, Floor
<1>9. CASE Commit
  <2>1. /\ pc = "record" /\ pc' = "recorded" /\ db' = tx /\ now' = now
        /\ observed' = Observing
    BY <1>9 DEF Commit, Observing
  <2> QED
    BY <1>2, <2>1 DEF HeldInv, PointsReported, Polling, Floor
<1>10. CASE DeleteSamples
  <2>1. /\ pc' = "purge_info" /\ db' = PurgeSamples(db, cutoff)
        /\ UNCHANGED <<now, observed>>
    BY <1>10 DEF DeleteSamples
  <2>2. db'.info = db.info
    BY <1>1, <2>1 DEF PurgeSamples, Database
  <2> QED
    BY <1>2, <2>1, <2>2 DEF HeldInv, PointsReported, Polling, Floor
<1>11. CASE DeleteInfo
  <2>1. pc' = "sleep" /\ db' = PurgeInfo(db, cutoff) /\ UNCHANGED <<now, observed>>
    BY <1>11 DEF DeleteInfo, Sleep
  <2>2. \A p \in points :
            TitleAt(db'.info, p.channel, p.ts) \subseteq TitleAt(db.info, p.channel, p.ts)
    BY <1>1, <1>2, <2>1, PurgedTitle
  <2> QED
    BY <1>2, <2>1, <2>2 DEF HeldInv, PointsReported, Polling, Floor
<1>12. CASE Tick
  <2>1. now' = now + 1 /\ UNCHANGED <<db, observed, pc, ts, lives, row, tx>>
    BY <1>12 DEF Tick
  <2>2. now + 1 \in Nat /\ Floor(now + 1) \in Nat /\ Floor(now) =< Floor(now + 1)
    <3>1. now + 1 \in Nat
      BY <1>1
    <3> QED
      BY <1>1, <3>1, FloorBounds, FloorMonotone
  <2>3. Floor(now)' = Floor(now + 1)
    BY <2>1 DEF Floor
  <2>4. \A p \in points : p.ts =< Floor(now + 1)
    BY <1>2, <1>3, <2>2 DEF HeldInv
  <2>5. Observing' = Observing /\ Polling' = Polling
    BY <2>1 DEF Observing, Polling
  <2> QED
    BY <1>2, <2>1, <2>3, <2>4, <2>5 DEF HeldInv, PointsReported
<1>13. CASE Signal
  <2>1. UNCHANGED <<now, db, observed, pc, ts, lives, row, tx>>
    BY <1>13 DEF Signal
  <2> QED
    BY <1>2, <2>1 DEF HeldInv, PointsReported, Polling, Observing, Floor
<1> QED
  BY <1>4, <1>5, <1>6, <1>7, <1>8, <1>9, <1>10, <1>11, <1>12, <1>13 DEF Next, Step

LEMMA NextHeld == IInv /\ LogInv /\ HeldInv /\ [ReaderNext]_allVars => HeldInv'
<1> SUFFICES ASSUME IInv, LogInv, HeldInv, [ReaderNext]_allVars PROVE HeldInv'
  OBVIOUS
<1>1. CASE CollectorStep
  BY <1>1, CollectorHeld DEF CollectorStep, readVars
<1>2. ASSUME NEW c \in Channels, NEW range \in Ranges, ReadPoints(c, range)
      PROVE  HeldInv'
  BY <1>2, ReadHeld DEF ReadPoints, PointRows
<1>3. CASE FinishRead
  <2>1. UNCHANGED vars /\ points' \subseteq db.samples
    BY <1>3 DEF FinishRead
  <2> QED
    BY <2>1, ReadHeld
<1>4. CASE UNCHANGED allVars
  <2>1. UNCHANGED vars /\ points' = points
    BY <1>4 DEF allVars, vars
  <2> QED
    BY <2>1 DEF vars, HeldInv, PointsReported, Polling, Observing, Floor
<1> QED
  BY <1>1, <1>2, <1>3, <1>4 DEF ReaderNext

\* The rows a reply is made of keep their titles until it is complete.
THEOREM HeldInvariant == ReaderSpec => [](IInv /\ Requested /\ HeldInv)
<1>1. ReaderSpec => [](IInv /\ LogInv)
  BY CollectorRuns, LogInvariant, PTL
<1>2. ReaderSpec => []Requested
  BY InitHeld, NextRequested, PTL DEF ReaderSpec
<1>3. ReaderSpec => []HeldInv
  BY <1>1, InitHeld, NextHeld, PTL DEF ReaderSpec
<1> QED
  BY <1>1, <1>2, <1>3, PTL

-----------------------------------------------------------------------------
(* The properties *)

\* What the client finds in the rows of a reply is the title at the point's
\* time (README.md), whatever is committed between the two SELECTs.
THEOREM ReplySuffices == ReaderSpec => []ShownIsTitleAt
<1>1. IInv /\ Requested /\ HeldInv => ShownIsTitleAt
  <2> SUFFICES ASSUME IInv, Requested, HeldInv, NEW request \in asked, NEW p \in points
               PROVE  Shown(request, p) = TitleAt(db.info, request.channel, p.ts)
    BY DEF ShownIsTitleAt
  <2>1. db.info \in SUBSET InfoRow
    BY DEF IInv, TypeInv, TypeOK, Database
  <2>2. /\ request.range \in [from : Nat, to : Nat]
        /\ request.range.from =< p.ts /\ p.ts =< request.range.to
    BY DEF Requested
  <2>3. p.ts \in Nat
    BY DEF HeldInv, SampleRow
  <2> QED
    BY <2>1, <2>2, <2>3, RowsSuffice DEF Shown
<1> QED
  BY <1>1, HeldInvariant, PTL

\* A title shown at a point was reported for that channel in that minute.
THEOREM ShownWasObserved == ReaderSpec => []ShownObserved
<1>1. Requested /\ HeldInv /\ ShownIsTitleAt => ShownObserved
  <2> SUFFICES ASSUME Requested, HeldInv, ShownIsTitleAt,
                      NEW request \in asked, NEW p \in points, NEW r \in Shown(request, p)
               PROVE  \E o \in observed : /\ o.ts = p.ts
                                          /\ o.live.channel = p.channel
                                          /\ o.live.title = r.title
    BY DEF ShownObserved
  <2>1. p.channel = request.channel
    BY DEF Requested
  <2>2. r \in TitleAt(db.info, p.channel, p.ts)
    BY <2>1 DEF ShownIsTitleAt
  <2> QED
    BY <2>2 DEF HeldInv, PointsReported, Reported
<1> QED
  BY <1>1, HeldInvariant, ReplySuffices, PTL

-----------------------------------------------------------------------------
(* The channel list *)

\* The primary keys of viewer_samples and channels.
SamplesKeyed(d) ==
    \A p, q \in d.samples : p.channel = q.channel /\ p.ts = q.ts => p = q

ChannelsKeyed(d) ==
    \A p, q \in d.channels : p.channel = q.channel => p = q

RowsKeyed(d) == SamplesKeyed(d) /\ ChannelsKeyed(d)

KeyInv == RowsKeyed(db) /\ (pc = "record" => RowsKeyed(tx))

LEMMA RecordRowsKeyed ==
    ASSUME NEW d \in Database, NEW t \in Nat, NEW l \in Live, RowsKeyed(d)
    PROVE  RowsKeyed(RecordLive(d, t, l))
<1>1. SamplesKeyed(RecordLive(d, t, l))
  BY DEF RecordLive, InsertOrIgnore, RowsKeyed, SamplesKeyed
<1>2. ChannelsKeyed(RecordLive(d, t, l))
  BY DEF RecordLive, UpsertChannel, RowsKeyed, ChannelsKeyed, Database, ChannelRow
<1> QED
  BY <1>1, <1>2 DEF RowsKeyed

LEMMA NextKeyed == IInv /\ KeyInv /\ [Next]_vars => KeyInv'
<1> SUFFICES ASSUME IInv, KeyInv, [Next]_vars PROVE KeyInv'
  OBVIOUS
<1>1. db \in Database
  BY DEF IInv, TypeInv, TypeOK
<1>2. CASE UNCHANGED db /\ pc' # "record"
  BY <1>2 DEF KeyInv, RowsKeyed, SamplesKeyed, ChannelsKeyed
<1>3. CASE Begin
  BY <1>3 DEF Begin, KeyInv, RowsKeyed, SamplesKeyed, ChannelsKeyed
<1>4. CASE RecordRow
  <2>1. pc = "record" /\ db' = db /\ tx' = RecordLive(tx, ts, lives[row + 1])
    BY <1>4 DEF RecordRow
  <2>2. tx \in Database /\ ts \in Nat /\ lives[row + 1] \in Live
    BY <1>4 DEF RecordRow, IInv, TypeInv, TypeOK
  <2>3. RowsKeyed(tx')
    BY <2>1, <2>2, RecordRowsKeyed DEF KeyInv
  <2> QED
    BY <2>1, <2>3 DEF KeyInv, RowsKeyed, SamplesKeyed, ChannelsKeyed
<1>5. CASE Commit
  BY <1>5 DEF Commit, KeyInv, RowsKeyed, SamplesKeyed, ChannelsKeyed
<1>6. CASE DeleteSamples
  <2>1. /\ pc' = "purge_info" /\ db'.channels = db.channels
        /\ db'.samples = {r \in db.samples : r.ts >= cutoff}
    BY <1>1, <1>6 DEF DeleteSamples, PurgeSamples, Database
  <2> QED
    BY <2>1 DEF KeyInv, RowsKeyed, SamplesKeyed, ChannelsKeyed
<1>7. CASE DeleteInfo
  <2>1. pc' = "sleep" /\ db'.samples = db.samples /\ db'.channels = db.channels
    BY <1>1, <1>7 DEF DeleteInfo, PurgeInfo, Database, Sleep
  <2> QED
    BY <2>1 DEF KeyInv, RowsKeyed, SamplesKeyed, ChannelsKeyed
<1>8. CASE Tick \/ Signal \/ UNCHANGED vars
  <2>1. UNCHANGED <<db, pc, tx>>
    BY <1>8 DEF Tick, Signal, vars
  <2> QED
    BY <2>1 DEF KeyInv, RowsKeyed, SamplesKeyed, ChannelsKeyed
<1>9. CASE Start \/ Exit \/ Wake \/ BeginPoll \/ FetchFails \/ RecordFails \/ SkipPurge
           \/ BeginPurge \/ PurgeFails \/ Kill
  <2>1. UNCHANGED db /\ pc' # "record"
    BY <1>9 DEF Start, Exit, Wake, BeginPoll, FetchFails, RecordFails, SkipPurge,
                BeginPurge, PurgeFails, Kill, ProcessGone, Sleep
  <2> QED
    BY <1>2, <2>1
<1>10. ASSUME NEW page \in Pages, NEW next \in BOOLEAN, FetchPage(page, next) PROVE KeyInv'
  <2>1. UNCHANGED db /\ pc' # "record"
    BY <1>10 DEF FetchPage
  <2> QED
    BY <1>2, <2>1
<1> QED
  BY <1>3, <1>4, <1>5, <1>6, <1>7, <1>8, <1>9, <1>10 DEF Next, Step

\* A listed channel has exactly one current count, and the week's peak is at
\* least as high (Queries::channels): the sample at last_seen is not older than
\* the sample for which the channel is listed.
THEOREM CurrentIsInWindow == ReaderSpec => []CurrentInWindow
<1>1. Init => KeyInv
  BY DEF Init, EmptyDb, KeyInv, RowsKeyed, SamplesKeyed, ChannelsKeyed
<1>2. Spec => [](IInv /\ KeyInv)
  BY <1>1, NextKeyed, Inductive, PTL DEF Spec
<1>3. IInv /\ KeyInv => CurrentInWindow
  <2> SUFFICES ASSUME IInv, KeyInv, NEW c \in ListedChannels(db, now - Window)
               PROVE  \E s \in Recent(db.samples, c.channel, now - Window) : CurrentOf(db, c) = {s}
    BY DEF CurrentInWindow
  <2>1. /\ now \in Nat /\ Window \in Nat /\ db \in Database
        /\ Current(db)
    BY RangesAssumption DEF IInv, TypeInv, TypeOK, Consistent
  <2>2. c \in db.channels /\ c \in ChannelRow
    BY <2>1 DEF ListedChannels, Database
  <2>3. PICK s \in db.samples : s.channel = c.channel /\ s.ts >= now - Window
    BY DEF ListedChannels, Recent
  <2>4. PICK d \in db.channels :
            /\ d.channel = s.channel /\ s.ts =< d.last_seen
            /\ \E z \in db.samples : z.channel = d.channel /\ z.ts = d.last_seen
    BY <2>1 DEF Current
  <2>5. d = c
    BY <2>2, <2>3, <2>4 DEF KeyInv, RowsKeyed, ChannelsKeyed
  <2>6. PICK z \in db.samples : z.channel = c.channel /\ z.ts = c.last_seen
    BY <2>4, <2>5
  <2>7. s.ts \in Nat /\ z.ts \in Nat /\ z.ts >= now - Window
    BY <2>1, <2>3, <2>4, <2>5, <2>6 DEF Database, SampleRow
  <2>8. z \in Recent(db.samples, c.channel, now - Window)
    BY <2>6, <2>7 DEF Recent
  <2>9. CurrentOf(db, c) = {z}
    BY <2>6 DEF CurrentOf, KeyInv, RowsKeyed, SamplesKeyed
  <2> QED
    BY <2>8, <2>9
<1> QED
  BY <1>2, <1>3, CollectorRuns, PTL
=============================================================================
