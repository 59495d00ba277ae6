--------------------------- MODULE MonitorPyProofs ---------------------------
(***************************************************************************)
(* Proofs about MonitorPy: whatever is left in the open transaction by     *)
(* polls and purges that failed, the history of the titles holds changes   *)
(* only, the polls that returned are whole, and young samples are kept.    *)
(***************************************************************************)
EXTENDS MonitorPy, CommonProofs

-----------------------------------------------------------------------------
(* Time stamps *)

Floor(t) == (t \div PollSec) * PollSec

\* A time stamp is not after the clock, and not before an earlier one.
LEMMA FloorTypes ==
    ASSUME NEW t \in Nat
    PROVE  Floor(t) \in Nat /\ Floor(t) =< t /\ Floor(t) =< Floor(t + 1)
<1> DEFINE j == t \div PollSec
           k == (t + 1) \div PollSec
<1>1. PollSec \in Nat /\ PollSec > 0
  BY PyAssumption
<1>2. j \in Nat /\ k \in Nat /\ j * PollSec =< t /\ t + 1 < (k + 1) * PollSec
  BY <1>1, SMT
<1>3. j =< k
  BY <1>1, <1>2, SMT
<1>4. j * PollSec =< k * PollSec /\ j * PollSec \in Nat
  BY <1>1, <1>2, <1>3, SMT
<1> QED
  BY <1>2, <1>4 DEF Floor

\* The cutoff of a purge moves on with the clock.
LEMMA CutoffMovesOn ==
    ASSUME NEW t \in Nat, NEW u \in Nat, t =< u
    PROVE  t - Retain \in Int /\ u - Retain \in Int /\ t - Retain =< u - Retain
  BY PyAssumption

-----------------------------------------------------------------------------
(* What holds of the committed database and of the open transaction *)

\* No row is later than t.
Dated(d, t) ==
    /\ \A r \in d.samples : r.ts =< t
    /\ \A r \in d.info : r.ts =< t
    /\ \A r \in d.channels : r.first_seen =< t /\ r.last_seen =< t

\* The primary key of stream_info.
Keyed(d) ==
    \A p, q \in d.info : p.channel = q.channel /\ p.ts = q.ts => p = q

\* A channel with title rows has a newest one.
Newest(d) == \A r \in d.info : Latest(d.info, r.channel) # {}

Changes(d) ==
    \A p, q \in d.info :
        p.channel = q.channel /\ p.ts < q.ts /\ p.title = q.title =>
            \E r \in d.info : r.channel = p.channel /\ p.ts < r.ts /\ r.ts < q.ts

Reported(seen, c, t, title) ==
    \E l \in Live : l.channel = c /\ l.title = title /\ [ts |-> t, live |-> l] \in seen

Counted(seen, c, t, viewers) ==
    \E l \in Live : l.channel = c /\ l.viewers = viewers /\ [ts |-> t, live |-> l] \in seen

TitlesReported(d, seen) == \A r \in d.info : Reported(seen, r.channel, r.ts, r.title)

SamplesReported(d, seen) == \A s \in d.samples : Counted(seen, s.channel, s.ts, s.viewers)

Consistent(d, seen) ==
    /\ d \in Database /\ Keyed(d) /\ Newest(d) /\ Changes(d)
    /\ TitlesReported(d, seen) /\ SamplesReported(d, seen)

\* CompletePolls for the time t of channel c: its span, its sample, and the
\* title found for it, which is one that was reported then.
Listed(d, c, t) ==
    \E k \in d.channels : k.channel = c /\ k.first_seen =< t /\ t =< k.last_seen
Sampled(d, c, t) == \E s \in d.samples : s.channel = c /\ s.ts = t
Found(d, c, t) == TitleAt(d.info, c, t) # {}
Settled(d, c, t, seen) == \A r \in TitleAt(d.info, c, t) : Reported(seen, c, t, r.title)

\* No title is found because its row was older than before, and not the newest.
Superseded(d, c, t, before, seen) ==
    /\ \E r \in d.info : r.channel = c /\ r.ts > t
    /\ \E old \in Nat, title \in Titles :
           old < before /\ Reported(seen, c, old, title) /\ Reported(seen, c, t, title)

Titled(d, c, t, before, seen) == Found(d, c, t) \/ Superseded(d, c, t, before, seen)

Complete(d, done, before, seen) ==
    \A o \in done : /\ Listed(d, o.live.channel, o.ts)
                    /\ Settled(d, o.live.channel, o.ts, seen)
                    /\ Titled(d, o.live.channel, o.ts, before, seen)
                    /\ o.ts >= before => Sampled(d, o.live.channel, o.ts)

\* What later writes, at time t, leave as it was.
Later(d, e, t, seen) ==
    /\ d.samples \subseteq e.samples /\ d.info \subseteq e.info
    /\ \A c \in Channels : \A u \in Nat :
           u =< t => /\ Listed(d, c, u) => Listed(e, c, u)
                     /\ Settled(d, c, u, seen) => Settled(e, c, u, seen)
                     /\ Found(d, c, u) => Found(e, c, u)

LEMMA LaterTwice ==
    ASSUME NEW d, NEW e, NEW f, NEW t, NEW seen, Later(d, e, t, seen), Later(e, f, t, seen)
    PROVE  Later(d, f, t, seen)
  BY DEF Later

-----------------------------------------------------------------------------
(* The writes of record() *)

\* A sample: the other tables are left alone.
LEMMA SampleWritten ==
    ASSUME NEW t \in Nat, NEW l \in Live, NEW seen, [ts |-> t, live |-> l] \in seen,
           NEW d, Consistent(d, seen), Dated(d, t)
    PROVE  LET e == WriteSample(d, t, l)
           IN  Consistent(e, seen) /\ Dated(e, t) /\ Later(d, e, t, seen) /\ Sampled(e, l.channel, t)
<1> DEFINE row == [channel |-> l.channel, ts |-> t, viewers |-> l.viewers]
           samples == InsertOrIgnore(d.samples, row)
           e == WriteSample(d, t, l)
<1>1. d \in Database /\ e = [d EXCEPT !.samples = samples]
  BY DEF WriteSample, Consistent
<1>2. /\ row \in SampleRow /\ row.ts = t
      /\ row.channel = l.channel /\ row.viewers = l.viewers
  BY DEF SampleRow, Live
<1>0. Counted(seen, row.channel, row.ts, row.viewers)
  BY DEF Counted
<1> HIDE DEF row
<1>3. /\ d.samples \subseteq samples /\ samples \subseteq d.samples \cup {row}
      /\ \E r \in samples : r.channel = l.channel /\ r.ts = t
  BY <1>2 DEF InsertOrIgnore
<1>4. samples \in SUBSET SampleRow
  BY <1>1, <1>2, <1>3 DEF Database
<1> HIDE DEF samples
<1>5. /\ e \in Database
      /\ e.samples = samples /\ e.info = d.info /\ e.channels = d.channels
  BY <1>1, <1>4 DEF Database
<1> HIDE DEF e
<1>6. Consistent(e, seen)
  <2>1. SamplesReported(e, seen)
    BY <1>0, <1>3, <1>5 DEF Consistent, SamplesReported
  <2> QED
    BY <1>5, <2>1 DEF Consistent, Keyed, Newest, Changes, TitlesReported
<1>7. Dated(e, t)
  BY <1>2, <1>3, <1>5 DEF Dated
<1>8. Later(d, e, t, seen)
  BY <1>3, <1>5 DEF Later, Listed, Settled, Found
<1>9. Sampled(e, l.channel, t)
  BY <1>3, <1>5 DEF Sampled
<1> QED
  BY <1>6, <1>7, <1>8, <1>9 DEF e

\* A channel: first_seen stays, last_seen moves on.
LEMMA ChannelWritten ==
    ASSUME NEW t \in Nat, NEW l \in Live, NEW seen, NEW d, Consistent(d, seen), Dated(d, t)
    PROVE  LET e == WriteChannel(d, t, l)
           IN  Consistent(e, seen) /\ Dated(e, t) /\ Later(d, e, t, seen) /\ Listed(e, l.channel, t)
<1> DEFINE seenAt(r) == [r EXCEPT !.last_seen = t]
           row == [channel |-> l.channel, first_seen |-> t, last_seen |-> t]
           channels == UpsertChannel(d.channels, l.channel, t)
           e == WriteChannel(d, t, l)
<1>1. d \in Database /\ e = [d EXCEPT !.channels = channels]
  BY DEF WriteChannel, Consistent
<1>2. /\ row \in ChannelRow
      /\ row.channel = l.channel /\ row.first_seen = t /\ row.last_seen = t
  BY DEF ChannelRow, Live
<1>3. \A r \in d.channels : /\ r \in ChannelRow /\ r.first_seen =< t /\ r.last_seen =< t
                            /\ r.first_seen \in Nat /\ r.last_seen \in Nat
  BY <1>1 DEF Database, ChannelRow, Dated
<1>4. \A r \in d.channels : /\ seenAt(r) \in ChannelRow /\ seenAt(r).channel = r.channel
                            /\ seenAt(r).first_seen = r.first_seen /\ seenAt(r).last_seen = t
  BY <1>3 DEF ChannelRow
<1>5. \/ /\ \E r \in d.channels : r.channel = l.channel
         /\ channels = {IF r.channel = l.channel THEN seenAt(r) ELSE r : r \in d.channels}
      \/ /\ ~ \E r \in d.channels : r.channel = l.channel
         /\ channels = d.channels \cup {row}
  BY DEF UpsertChannel
<1> HIDE DEF row, seenAt, channels
<1>6. \A k \in channels : k \in ChannelRow /\ k.first_seen =< t /\ k.last_seen =< t
  BY <1>2, <1>3, <1>4, <1>5
<1>7. \A r \in d.channels : \E k \in channels :
          /\ k.channel = r.channel /\ k.first_seen = r.first_seen /\ r.last_seen =< k.last_seen
  BY <1>3, <1>4, <1>5
<1>8. \E k \in channels : k.channel = l.channel /\ k.first_seen =< t /\ k.last_seen = t
  BY <1>2, <1>3, <1>4, <1>5
<1>9. /\ e \in Database
      /\ e.samples = d.samples /\ e.info = d.info /\ e.channels = channels
  BY <1>1, <1>6 DEF Database
<1> HIDE DEF e
<1>10. Consistent(e, seen)
  BY <1>9 DEF Consistent, Keyed, Newest, Changes, TitlesReported, SamplesReported
<1>11. Dated(e, t)
  BY <1>6, <1>9 DEF Dated
<1>12. ASSUME NEW c, NEW u \in Nat, Listed(d, c, u) PROVE Listed(e, c, u)
  <2>1. PICK r \in d.channels : r.channel = c /\ r.first_seen =< u /\ u =< r.last_seen
    BY <1>12 DEF Listed
  <2>2. PICK k \in channels :
            k.channel = r.channel /\ k.first_seen = r.first_seen /\ r.last_seen =< k.last_seen
    BY <1>7
  <2>3. r.last_seen \in Nat /\ k.last_seen \in Nat
    BY <1>3, <1>6 DEF ChannelRow
  <2> QED
    BY <1>9, <2>1, <2>2, <2>3 DEF Listed
<1>13. Later(d, e, t, seen)
  BY <1>9, <1>12 DEF Later, Settled, Found
<1>14. Listed(e, l.channel, t)
  BY <1>8, <1>9 DEF Listed
<1> QED
  BY <1>10, <1>11, <1>13, <1>14 DEF e

\* What becomes of a title that is reported: the newest one is the same, there
\* is one of this minute, or it becomes the newest.
TitleEffect(info, all, c, t, title) ==
    \/ all = info /\ \E q \in Latest(info, c) : q.title = title
    \/ all = info /\ \E q \in info : q.channel = c /\ q.ts = t
    \/ /\ all = info \cup {[channel |-> c, ts |-> t, title |-> title]}
       /\ \A q \in Latest(info, c) : q.title # title
       /\ \A q \in info : q.channel = c => q.ts < t

\* That is all that can happen while no row is later than t.
LEMMA TitleCases ==
    ASSUME NEW info \in SUBSET InfoRow, NEW c, NEW t \in Nat, NEW title,
           \A r \in info : r.ts =< t
    PROVE  TitleEffect(info, RecordTitle(info, c, t, title), c, t, title)
<1>1. \A r \in info : r.ts \in Nat /\ r.ts =< t
  BY DEF InfoRow
<1> QED
  BY <1>1 DEF TitleEffect, RecordTitle, InsertOrIgnore

\* A title: a row is added only behind a newest row with another title, and it
\* is the one found for t from then on.
LEMMA TitleWritten ==
    ASSUME NEW t \in Nat, NEW l \in Live, NEW seen, [ts |-> t, live |-> l] \in seen,
           NEW d, Consistent(d, seen), Dated(d, t)
    PROVE  LET e == WriteTitle(d, t, l)
           IN  /\ Consistent(e, seen) /\ Dated(e, t) /\ Later(d, e, t, seen)
               /\ Found(e, l.channel, t) /\ Settled(e, l.channel, t, seen)
<1> DEFINE new == [channel |-> l.channel, ts |-> t, title |-> l.title]
           info == d.info
           all == RecordTitle(info, l.channel, t, l.title)
           e == WriteTitle(d, t, l)
<1>1. d \in Database /\ e = [d EXCEPT !.info = all]
  BY DEF WriteTitle, Consistent
<1>2. /\ info \in SUBSET InfoRow
      /\ \A r \in info : r.ts \in Nat /\ r.ts =< t
  BY <1>1 DEF Database, InfoRow, Dated
<1>3. l.channel \in Channels /\ l.title \in Titles
  BY DEF Live
<1>4. /\ new \in InfoRow
      /\ new.channel = l.channel /\ new.ts = t /\ new.title = l.title
  BY <1>3 DEF InfoRow
<1>5. \/ all = info /\ \E q \in Latest(info, l.channel) : q.title = l.title
      \/ all = info /\ \E q \in info : q.channel = l.channel /\ q.ts = t
      \/ /\ all = info \cup {new}
         /\ \A q \in Latest(info, l.channel) : q.title # l.title
         /\ \A q \in info : q.channel = l.channel => q.ts < t
  <2>1. TitleEffect(info, all, l.channel, t, l.title)
    <3> HIDE DEF info
    <3> QED
      BY <1>2, TitleCases
  <2> QED
    BY <2>1 DEF TitleEffect
<1>6. Reported(seen, l.channel, t, l.title)
  BY DEF Reported
<1> HIDE DEF new, all
<1>7. /\ e \in Database
      /\ e.samples = d.samples /\ e.info = all /\ e.channels = d.channels
  BY <1>1, <1>2, <1>4, <1>5 DEF Database
<1>8. Keyed(d) /\ Newest(d) /\ Changes(d) /\ TitlesReported(d, seen)
  BY DEF Consistent
<1> HIDE DEF e, info
<1>9. d.info = info
  BY DEF info
<1>10. Keyed(e)
  <2> SUFFICES ASSUME NEW p \in all, NEW q \in all, p.channel = q.channel, p.ts = q.ts
               PROVE  p = q
    BY <1>7 DEF Keyed
  <2>1. (p \in info \/ p = new) /\ (q \in info \/ q = new)
    BY <1>5
  <2>2. CASE p \in info /\ q \in info
    BY <1>8, <1>9, <2>2 DEF Keyed
  <2>3. CASE p \notin info \/ q \notin info
    <3>1. \A r \in info : r.channel = l.channel => r.ts < t
      BY <1>5, <2>3
    <3>2. \A r \in info : r.channel = l.channel => r.ts # t
      BY <1>2, <3>1
    <3> QED
      BY <1>4, <2>1, <2>3, <3>2
  <2> QED
    BY <2>2, <2>3
<1>11. Newest(e)
  <2>1. CASE all = info
    BY <1>7, <1>8, <1>9, <2>1 DEF Newest
  <2>2. CASE all = info \cup {new}
    <3>1. new \in Latest(all, l.channel)
      BY <1>2, <1>4, <2>2 DEF Latest
    <3>2. ASSUME NEW r \in info, r.channel # l.channel PROVE Latest(all, r.channel) # {}
      <4>1. PICK q \in info : q \in Latest(info, r.channel)
        BY <1>8, <1>9 DEF Newest, Latest
      <4>2. q \in Latest(all, r.channel)
        BY <1>4, <2>2, <3>2, <4>1 DEF Latest
      <4> QED
        BY <4>2
    <3>3. \A r \in all : r.channel = l.channel \/ (r \in info /\ r.channel # l.channel)
      BY <1>4, <2>2
    <3>4. \A r \in all : Latest(all, r.channel) # {}
      BY <3>1, <3>2, <3>3
    <3> QED
      BY <1>7, <3>4 DEF Newest
  <2> QED
    BY <1>5, <2>1, <2>2
<1>12. Changes(e)
  <2>1. CASE all = info
    BY <1>7, <1>8, <1>9, <2>1 DEF Changes
  <2>2. CASE /\ all = info \cup {new}
             /\ \A q \in Latest(info, l.channel) : q.title # l.title
             /\ \A q \in info : q.channel = l.channel => q.ts < t
    <3> SUFFICES ASSUME NEW p \in all, NEW q \in all,
                        p.channel = q.channel, p.ts < q.ts, p.title = q.title
                 PROVE  \E r \in all : r.channel = p.channel /\ p.ts < r.ts /\ r.ts < q.ts
      BY <1>7 DEF Changes
    <3>1. p \in info
      <4>1. \A r \in all : r.ts \in Nat /\ r.ts =< t
        BY <1>2, <1>4, <2>2
      <4>2. p # new
        BY <1>4, <4>1
      <4> QED
        BY <2>2, <4>2
    <3>2. CASE q \in info
      BY <1>8, <1>9, <2>2, <3>1, <3>2 DEF Changes
    <3>3. CASE q = new
      <4>1. p \notin Latest(info, l.channel) /\ p.channel = l.channel
        BY <1>4, <2>2, <3>3
      <4>2. PICK r \in info : r.channel = l.channel /\ ~(r.ts =< p.ts)
        BY <3>1, <4>1 DEF Latest
      <4>3. p.ts < r.ts /\ r.ts < t
        BY <1>2, <2>2, <3>1, <4>2
      <4> QED
        BY <1>4, <2>2, <3>3, <4>1, <4>2, <4>3
    <3> QED
      BY <2>2, <3>2, <3>3
  <2> QED
    BY <1>5, <2>1, <2>2
<1>13. TitlesReported(e, seen)
  <2>1. \A r \in all : r \in info \/ r = new
    BY <1>5
  <2>2. \A r \in all : Reported(seen, r.channel, r.ts, r.title)
    BY <1>4, <1>6, <1>8, <1>9, <2>1 DEF TitlesReported
  <2> QED
    BY <1>7, <2>2 DEF TitlesReported
<1>14. Consistent(e, seen)
  BY <1>7, <1>10, <1>11, <1>12, <1>13 DEF Consistent, SamplesReported
<1>15. Dated(e, t)
  <2>1. \A r \in all : r.ts =< t
    BY <1>2, <1>4, <1>5
  <2> QED
    BY <1>7, <2>1 DEF Dated
<1>16. ASSUME NEW c, NEW u \in Nat, u =< t, Settled(d, c, u, seen) PROVE Settled(e, c, u, seen)
  <2> SUFFICES ASSUME NEW r \in TitleAt(all, c, u) PROVE Reported(seen, c, u, r.title)
    BY <1>7 DEF Settled
  <2>1. r \in all /\ r.channel = c /\ r.ts =< u
    BY DEF TitleAt
  <2>2. r \in info \/ r = new
    BY <1>5, <2>1
  <2>3. CASE r = new
    BY <1>4, <1>6, <1>16, <2>1, <2>3
  <2>4. CASE r \in info
    <3>1. info \subseteq all
      BY <1>5
    <3>2. r \in TitleAt(info, c, u)
      BY <2>4, <3>1 DEF TitleAt
    <3> QED
      BY <1>9, <1>16, <3>2 DEF Settled
  <2> QED
    BY <2>2, <2>3, <2>4
<1>19. info \subseteq all /\ \A r \in all : r.ts \in Nat /\ r.ts =< t
  BY <1>2, <1>4, <1>5
<1>20. ASSUME NEW c, NEW u \in Nat, u =< t, NEW r \in info, r \in TitleAt(info, c, u)
       PROVE  TitleAt(all, c, u) # {}
  <2>1. /\ r \in all /\ r.channel = c /\ r.ts =< u
        /\ \A q \in info : q.channel = c /\ q.ts =< u => q.ts =< r.ts
    BY <1>19, <1>20 DEF TitleAt
  <2>2. CASE \E q \in all \ info : q.channel = c /\ q.ts =< u
    <3>1. new \in all /\ new.channel = c /\ new.ts =< u
      BY <1>5, <2>2
    <3>2. new \in TitleAt(all, c, u)
      BY <1>4, <1>19, <1>20, <3>1 DEF TitleAt
    <3> QED
      BY <3>2
  <2>3. CASE ~ \E q \in all \ info : q.channel = c /\ q.ts =< u
    <3>1. r \in TitleAt(all, c, u)
      BY <2>1, <2>3 DEF TitleAt
    <3> QED
      BY <3>1
  <2> QED
    BY <2>2, <2>3
<1>17. Later(d, e, t, seen)
  <2>1. ASSUME NEW c, NEW u \in Nat, u =< t, Found(d, c, u) PROVE Found(e, c, u)
    <3>1. PICK r \in info : r \in TitleAt(info, c, u)
      BY <1>9, <2>1 DEF Found, TitleAt
    <3> QED
      BY <1>7, <1>20, <2>1, <3>1 DEF Found
  <2> QED
    BY <1>7, <1>9, <1>16, <1>19, <2>1 DEF Later, Listed
<1>21. Found(e, l.channel, t)
  <2>1. CASE \E q \in Latest(info, l.channel) : q.title = l.title
    <3>1. PICK q \in info : q \in Latest(info, l.channel)
      BY <2>1 DEF Latest
    <3>2. q \in TitleAt(info, l.channel, t)
      BY <1>2, <3>1 DEF Latest, TitleAt
    <3> QED
      BY <1>7, <1>20, <3>2 DEF Found
  <2>2. CASE \E q \in all : q.channel = l.channel /\ q.ts = t
    <3>1. PICK q \in all : q.channel = l.channel /\ q.ts = t
      BY <2>2
    <3>2. q \in TitleAt(all, l.channel, t)
      BY <1>19, <3>1 DEF TitleAt
    <3> QED
      BY <1>7, <3>2 DEF Found
  <2> QED
    BY <1>4, <1>5, <2>1, <2>2
<1>18. Settled(e, l.channel, t, seen)
  <2> SUFFICES ASSUME NEW r \in TitleAt(all, l.channel, t) PROVE Reported(seen, l.channel, t, r.title)
    BY <1>7 DEF Settled
  <2>1. /\ r \in all /\ r.channel = l.channel /\ r.ts =< t
        /\ \A q \in all : q.channel = l.channel /\ q.ts =< t => q.ts =< r.ts
    BY DEF TitleAt
  <2>2. Reported(seen, r.channel, r.ts, r.title)
    BY <1>7, <1>13, <2>1 DEF TitlesReported
  <2>3. CASE all = info /\ \E q \in Latest(info, l.channel) : q.title = l.title
    <3>1. PICK q \in info : q \in Latest(info, l.channel) /\ q.title = l.title /\ q.channel = l.channel
      BY <2>3 DEF Latest
    <3>2. q.ts =< r.ts /\ r.ts =< q.ts
      BY <1>2, <2>1, <2>3, <3>1 DEF Latest
    <3>3. q = r
      BY <1>2, <1>8, <1>9, <2>1, <2>3, <3>1, <3>2 DEF Keyed
    <3> QED
      BY <1>6, <3>1, <3>3
  <2>4. CASE \E q \in all : q.channel = l.channel /\ q.ts = t
    <3>1. r.ts \in Nat /\ t =< r.ts
      BY <1>2, <1>4, <1>5, <2>1, <2>4
    <3>2. r.ts = t
      BY <2>1, <3>1
    <3> QED
      BY <2>1, <2>2, <3>2
  <2> QED
    BY <1>4, <1>5, <2>3, <2>4
<1> QED
  BY <1>14, <1>15, <1>17, <1>18, <1>21 DEF e

-----------------------------------------------------------------------------
(* The DELETEs of purge_old() *)

\* What a DELETE may do: no young sample goes, nothing that was listed or
\* settled changes, and a title found before goes with its age.
Purged(d, e, before, seen) ==
    /\ \A s \in d.samples : s \in e.samples \/ s.ts < before
    /\ \A c \in Channels : \A u \in Nat :
           /\ Listed(d, c, u) => Listed(e, c, u)
           /\ Settled(d, c, u, seen) => Settled(e, c, u, seen)
           /\ Settled(d, c, u, seen) /\ Titled(d, c, u, before, seen)
                  => Titled(e, c, u, before, seen)

LEMMA SamplesPurged ==
    ASSUME NEW d, NEW before \in Int, NEW seen, NEW t \in Nat, Consistent(d, seen), Dated(d, t)
    PROVE  LET e == PurgeSamples(d, before)
           IN  Consistent(e, seen) /\ Dated(e, t) /\ Purged(d, e, before, seen)
<1> DEFINE e == PurgeSamples(d, before)
<1>1. /\ e \in Database
      /\ e.samples = {r \in d.samples : r.ts >= before}
      /\ e.info = d.info /\ e.channels = d.channels
  BY DEF PurgeSamples, Database, Consistent
<1> HIDE DEF e
<1>2. Consistent(e, seen)
  BY <1>1 DEF Consistent, Keyed, Newest, Changes, TitlesReported, SamplesReported
<1>3. Dated(e, t)
  BY <1>1 DEF Dated
<1>4. \A s \in d.samples : s \in e.samples \/ s.ts < before
  BY <1>1 DEF Consistent, Database, SampleRow
<1>5. Purged(d, e, before, seen)
  BY <1>1, <1>4 DEF Purged, Listed, Settled, Titled, Found, Superseded
<1> QED
  BY <1>2, <1>3, <1>5 DEF e

\* No older title takes the place of one that is deleted.
LEMMA InfoPurged ==
    ASSUME NEW d, NEW before \in Int, NEW seen, NEW t \in Nat, Consistent(d, seen), Dated(d, t)
    PROVE  LET e == PurgeInfo(d, before)
           IN  Consistent(e, seen) /\ Dated(e, t) /\ Purged(d, e, before, seen)
<1> DEFINE e == PurgeInfo(d, before)
<1>1. /\ e \in Database
      /\ e.info = {r \in d.info : \/ r.ts >= before
                                  \/ \A q \in d.info : q.channel = r.channel => q.ts =< r.ts}
      /\ e.samples = d.samples /\ e.channels = d.channels
  BY DEF PurgeInfo, Database, Consistent
<1>2. \A r \in d.info : r.ts \in Nat
  BY DEF Consistent, Database, InfoRow
<1> HIDE DEF e
<1>3. ASSUME NEW r \in e.info, NEW q \in d.info, q.channel = r.channel, r.ts < q.ts
      PROVE  q \in e.info
  BY <1>1, <1>2, <1>3
<1>4. Keyed(e) /\ TitlesReported(e, seen) /\ SamplesReported(e, seen)
  BY <1>1 DEF Consistent, Keyed, TitlesReported, SamplesReported
<1>5. Newest(e)
  BY <1>1 DEF Consistent, Newest, Latest
<1>6. Changes(e)
  <2> SUFFICES ASSUME NEW p \in e.info, NEW q \in e.info,
                      p.channel = q.channel, p.ts < q.ts, p.title = q.title
               PROVE  \E r \in e.info : r.channel = p.channel /\ p.ts < r.ts /\ r.ts < q.ts
    BY DEF Changes
  <2>1. PICK r \in d.info : r.channel = p.channel /\ p.ts < r.ts /\ r.ts < q.ts
    BY <1>1 DEF Consistent, Changes
  <2> QED
    BY <1>3, <2>1
<1>7. Consistent(e, seen)
  BY <1>1, <1>4, <1>5, <1>6 DEF Consistent
<1>8. Dated(e, t)
  BY <1>1 DEF Dated
<1>9. ASSUME NEW c, NEW u \in Nat, NEW r \in TitleAt(e.info, c, u) PROVE r \in TitleAt(d.info, c, u)
  <2>1. r \in e.info /\ r \in d.info /\ r.channel = c /\ r.ts =< u
    BY <1>1 DEF TitleAt
  <2>2. ASSUME NEW q \in d.info, q.channel = c, q.ts =< u PROVE q.ts =< r.ts
    BY <1>2, <1>3, <2>1, <2>2 DEF TitleAt
  <2> QED
    BY <2>1, <2>2 DEF TitleAt
<1>11. ASSUME NEW c, NEW u \in Nat, NEW r \in d.info, r.channel = c, r.ts > u
       PROVE  \E n \in e.info : n.channel = c /\ n.ts > u
  <2>1. PICK n \in d.info : n.channel = c /\ \A q \in d.info : q.channel = c => q.ts =< n.ts
    BY <1>11 DEF Consistent, Newest, Latest
  <2>2. n \in e.info
    BY <1>1, <2>1
  <2> QED
    BY <1>2, <1>11, <2>1, <2>2
<1>12. ASSUME NEW c, NEW u \in Nat, Settled(d, c, u, seen), Titled(d, c, u, before, seen)
       PROVE  Titled(e, c, u, before, seen)
  <2>1. CASE Superseded(d, c, u, before, seen)
    BY <1>11, <2>1 DEF Titled, Superseded
  <2>2. ASSUME NEW r \in d.info, r \in TitleAt(d.info, c, u) PROVE Titled(e, c, u, before, seen)
    <3>1. /\ r.channel = c /\ r.ts =< u
          /\ \A q \in d.info : q.channel = c /\ q.ts =< u => q.ts =< r.ts
      BY <2>2 DEF TitleAt
    <3>2. CASE r \in e.info
      <4>1. r \in TitleAt(e.info, c, u)
        BY <1>1, <3>1, <3>2 DEF TitleAt
      <4> QED
        BY <4>1 DEF Titled, Found
    <3>3. CASE r \notin e.info
      <4>1. r.ts < before /\ \E q \in d.info : q.channel = c /\ ~(q.ts =< r.ts)
        BY <1>1, <1>2, <3>1, <3>3
      <4>2. PICK q \in d.info : q.channel = c /\ ~(q.ts =< r.ts)
        BY <4>1
      <4>3. q.ts > u
        BY <1>2, <3>1, <4>2
      <4>4. \E n \in e.info : n.channel = c /\ n.ts > u
        BY <1>11, <4>2, <4>3
      <4>5. Reported(seen, c, r.ts, r.title) /\ Reported(seen, c, u, r.title)
        BY <1>12, <2>2, <3>1 DEF Settled, Consistent, TitlesReported
      <4>6. r.ts \in Nat /\ r.title \in Titles
        BY DEF Consistent, Database, InfoRow
      <4> QED
        BY <4>1, <4>4, <4>5, <4>6 DEF Titled, Superseded
    <3> QED
      BY <3>2, <3>3
  <2> QED
    BY <1>12, <2>1, <2>2 DEF Titled, Found, TitleAt
<1>10. Purged(d, e, before, seen)
  BY <1>1, <1>9, <1>12 DEF Purged, Listed, Settled
<1> QED
  BY <1>7, <1>8, <1>10 DEF e

-----------------------------------------------------------------------------
(* The first writes of record(), one after the other *)

\* The m-th write does its part for the element of the poll it stands for.
Written1(e, t, lives, m, seen) ==
    /\ m =< Len(lives) => Sampled(e, lives[m].channel, t)
    /\ Len(lives) < m /\ m =< 2 * Len(lives) => Listed(e, lives[m - Len(lives)].channel, t)
    /\ 2 * Len(lives) < m => /\ Found(e, lives[m - 2 * Len(lives)].channel, t)
                             /\ Settled(e, lives[m - 2 * Len(lives)].channel, t, seen)

LEMMA WriteKeeps ==
    ASSUME NEW t \in Nat, NEW lives \in Seq(Live), NEW seen, Reports(t, lives) \subseteq seen,
           NEW d, Consistent(d, seen), Dated(d, t), NEW m \in 1 .. 3 * Len(lives)
    PROVE  LET e == WriteAt(d, t, lives, m)
           IN  /\ Consistent(e, seen) /\ Dated(e, t) /\ Later(d, e, t, seen)
               /\ Written1(e, t, lives, m, seen)
<1> DEFINE N == Len(lives)
           e == WriteAt(d, t, lives, m)
<1>1. N \in Nat
  BY LenProperties
<1>2. \A i \in 1 .. N : lives[i] \in Live
  BY ElementOfSeq
<1>3. CASE m =< N
  <2>1. e = WriteSample(d, t, lives[m])
    BY <1>3 DEF WriteAt
  <2>2. lives[m] \in Live /\ [ts |-> t, live |-> lives[m]] \in seen
    BY <1>1, <1>2, <1>3 DEF Reports
  <2>3. /\ Consistent(e, seen) /\ Dated(e, t) /\ Later(d, e, t, seen)
        /\ Sampled(e, lives[m].channel, t)
    BY <2>1, <2>2, SampleWritten
  <2>4. Written1(e, t, lives, m, seen)
    BY <1>1, <1>3, <2>3 DEF Written1
  <2> QED
    BY <2>3, <2>4
<1>4. CASE N < m /\ m =< 2 * N
  <2>1. e = WriteChannel(d, t, lives[m - N])
    BY <1>1, <1>4 DEF WriteAt
  <2>2. lives[m - N] \in Live
    BY <1>1, <1>2, <1>4
  <2>3. /\ Consistent(e, seen) /\ Dated(e, t) /\ Later(d, e, t, seen)
        /\ Listed(e, lives[m - N].channel, t)
    BY <2>1, <2>2, ChannelWritten
  <2>4. Written1(e, t, lives, m, seen)
    BY <1>1, <1>4, <2>3 DEF Written1
  <2> QED
    BY <2>3, <2>4
<1>5. CASE 2 * N < m
  <2>1. e = WriteTitle(d, t, lives[m - 2 * N])
    BY <1>1, <1>5 DEF WriteAt
  <2>2. m - 2 * N \in 1 .. N
    BY <1>1, <1>5
  <2>3. /\ lives[m - 2 * N] \in Live
        /\ [ts |-> t, live |-> lives[m - 2 * N]] \in seen
    BY <1>2, <2>2 DEF Reports
  <2>4. /\ Consistent(e, seen) /\ Dated(e, t) /\ Later(d, e, t, seen)
        /\ Found(e, lives[m - 2 * N].channel, t)
        /\ Settled(e, lives[m - 2 * N].channel, t, seen)
    BY <2>1, <2>3, TitleWritten
  <2>5. Written1(e, t, lives, m, seen)
    BY <1>1, <1>5, <2>4 DEF Written1
  <2> QED
    BY <2>4, <2>5
<1> QED
  BY <1>1, <1>3, <1>4, <1>5

\* What Written is, without the recursive function.
AfterWrites(d, t, lives, n) ==
    CHOOSE f : f = [m \in 0 .. n |-> IF m = 0 THEN d ELSE WriteAt(f[m - 1], t, lives, m)]

\* The databases after 0, 1, ... n of the writes.
Follows(f, d, t, lives, n, seen) ==
    /\ f[0] = d
    /\ \A m \in 0 .. n : Consistent(f[m], seen) /\ Dated(f[m], t)
    /\ \A m \in 1 .. n : f[m] = WriteAt(f[m - 1], t, lives, m)

Kept(t, seen) == {e \in Database : Consistent(e, seen) /\ Dated(e, t)}

LEMMA WrittenRecursive ==
    ASSUME NEW t \in Nat, NEW lives \in Seq(Live), NEW seen, Reports(t, lives) \subseteq seen,
           NEW d, Consistent(d, seen), Dated(d, t), NEW n \in 0 .. 3 * Len(lives)
    PROVE  /\ Written(d, t, lives, n) = AfterWrites(d, t, lives, n)[n]
           /\ Follows(AfterWrites(d, t, lives, n), d, t, lives, n, seen)
<1> DEFINE V == Kept(t, seen)
           step == [m \in 1 .. n |-> [x \in V |-> WriteAt(x, t, lives, m)]]
           Body(f) == [m \in 0 .. n |-> IF m = 0 THEN d ELSE WriteAt(f[m - 1], t, lives, m)]
           f == AfterWrites(d, t, lives, n)
<1>1. n \in Nat /\ Len(lives) \in Nat
  BY LenProperties
<1>2. d \in V
  BY DEF Kept, Consistent
<1>3. step \in [1 .. n -> [V -> V]]
  <2> SUFFICES ASSUME NEW m \in 1 .. n, NEW x \in V PROVE WriteAt(x, t, lives, m) \in V
    OBVIOUS
  <2>1. m \in 1 .. 3 * Len(lives)
    BY <1>1
  <2>2. Consistent(x, seen) /\ Dated(x, t)
    BY DEF Kept
  <2>3. Consistent(WriteAt(x, t, lives, m), seen) /\ Dated(WriteAt(x, t, lives, m), t)
    BY <2>1, <2>2, WriteKeeps
  <2> QED
    BY <2>3 DEF Kept, Consistent
<1>4. PICK g \in [0 .. n -> V] : Recurrence(g, n, d, step)
  <2> HIDE DEF step, V
  <2> QED
    BY <1>1, <1>2, <1>3, Recursion
<1> HIDE DEF V
<1>5. /\ g[0] = d
      /\ \A m \in 1 .. n : g[m] = WriteAt(g[m - 1], t, lives, m)
  <2>1. g[0] = d /\ \A m \in 1 .. n : g[m] = step[m][g[m - 1]]
    BY <1>4 DEF Recurrence
  <2>2. \A m \in 1 .. n : g[m - 1] \in V
    BY <1>1, <1>4
  <2> QED
    BY <2>1, <2>2
<1>6. g = Body(g)
  <2>1. \A m \in 0 .. n : m = 0 \/ m \in 1 .. n
    BY <1>1
  <2>2. \A m \in 0 .. n : g[m] = IF m = 0 THEN d ELSE WriteAt(g[m - 1], t, lives, m)
    BY <1>5, <2>1
  <2> QED
    BY <1>4, <2>2
<1>7. f = Body(f)
  BY <1>6 DEF AfterWrites
<1>8. Written(d, t, lives, n) = f[n]
  BY DEF Written, AfterWrites
<1> HIDE DEF f
<1>9. \A m \in 0 .. n : f[m] = IF m = 0 THEN d ELSE WriteAt(f[m - 1], t, lives, m)
  BY <1>7, Zenon
<1>10. f[0] = d /\ \A m \in 1 .. n : f[m] = WriteAt(f[m - 1], t, lives, m)
  <2>1. 0 \in 0 .. n /\ \A m \in 1 .. n : m \in 0 .. n /\ m # 0
    BY <1>1
  <2> QED
    BY <1>9, <2>1, Zenon
<1> DEFINE S == {k \in Nat : k =< n => f[k] \in V}
<1>11. 0 \in S
  BY <1>2, <1>10
<1>12. ASSUME NEW k \in Nat, k \in S PROVE k + 1 \in S
  <2> SUFFICES ASSUME k + 1 =< n PROVE f[k + 1] \in V
    OBVIOUS
  <2>1. k + 1 \in 1 .. n /\ (k + 1) - 1 = k /\ f[k] \in V
    BY <1>1, <1>12
  <2>2. f[k + 1] = WriteAt(f[k], t, lives, k + 1)
    BY <1>10, <2>1
  <2>3. step[k + 1][f[k]] \in V
    BY <1>3, <2>1
  <2> QED
    BY <2>1, <2>2, <2>3
<1>13. \A k \in Nat : k \in S
  <2> HIDE DEF S
  <2> QED
    BY <1>11, <1>12, AllNumbers
<1>14. \A m \in 0 .. n : f[m] \in V
  BY <1>1, <1>13
<1> QED
  BY <1>8, <1>10, <1>14 DEF f, V, Kept, Follows

\* All the polls' elements that the first n writes have reached.
Reached(e, t, lives, n, seen) ==
    \A i \in 1 .. Len(lives) :
        /\ i =< n => Sampled(e, lives[i].channel, t)
        /\ Len(lives) + i =< n => Listed(e, lives[i].channel, t)
        /\ 2 * Len(lives) + i =< n => /\ Found(e, lives[i].channel, t)
                                      /\ Settled(e, lives[i].channel, t, seen)

LEMMA WrittenKeeps ==
    ASSUME NEW t \in Nat, NEW lives \in Seq(Live), NEW seen, Reports(t, lives) \subseteq seen,
           NEW d, Consistent(d, seen), Dated(d, t), NEW n \in 0 .. 3 * Len(lives)
    PROVE  LET e == Written(d, t, lives, n)
           IN  /\ Consistent(e, seen) /\ Dated(e, t) /\ Later(d, e, t, seen)
               /\ Reached(e, t, lives, n, seen)
<1> DEFINE f == AfterWrites(d, t, lives, n)
           N == Len(lives)
           S == {k \in Nat : k =< n => Later(d, f[k], t, seen) /\ Reached(f[k], t, lives, k, seen)}
<1>1. n \in Nat /\ N \in Nat /\ \A i \in 1 .. N : lives[i].channel \in Channels
  <2>1. \A i \in 1 .. N : lives[i] \in Live
    BY ElementOfSeq
  <2> QED
    BY <2>1, LenProperties DEF Live
<1>2. /\ Written(d, t, lives, n) = f[n]
      /\ f[0] = d /\ \A m \in 0 .. n : Consistent(f[m], seen) /\ Dated(f[m], t)
      /\ \A m \in 1 .. n : f[m] = WriteAt(f[m - 1], t, lives, m)
  <2>1. /\ Written(d, t, lives, n) = f[n]
        /\ Follows(f, d, t, lives, n, seen)
    BY WrittenRecursive
  <2> QED
    BY <2>1 DEF Follows
<1> HIDE DEF f
<1>3. 0 \in S
  BY <1>1, <1>2 DEF Later, Reached
<1>4. ASSUME NEW k \in Nat, k \in S PROVE k + 1 \in S
  <2> SUFFICES ASSUME k + 1 =< n
               PROVE  Later(d, f[k + 1], t, seen) /\ Reached(f[k + 1], t, lives, k + 1, seen)
    OBVIOUS
  <2>1. /\ k + 1 \in 1 .. n /\ (k + 1) - 1 = k /\ k \in 0 .. n
        /\ k + 1 \in 1 .. 3 * N
        /\ Later(d, f[k], t, seen) /\ Reached(f[k], t, lives, k, seen)
    BY <1>1, <1>4
  <2>2. f[k + 1] = WriteAt(f[k], t, lives, k + 1)
    BY <1>2, <2>1
  <2>3. Consistent(f[k], seen) /\ Dated(f[k], t)
    BY <1>2, <2>1
  <2>4. Later(f[k], f[k + 1], t, seen) /\ Written1(f[k + 1], t, lives, k + 1, seen)
    BY <2>1, <2>2, <2>3, WriteKeeps
  <2>5. Later(d, f[k + 1], t, seen)
    BY <2>1, <2>4, LaterTwice
  <2>6. ASSUME NEW i \in 1 .. N
        PROVE  /\ i =< k + 1 => Sampled(f[k + 1], lives[i].channel, t)
               /\ N + i =< k + 1 => Listed(f[k + 1], lives[i].channel, t)
               /\ 2 * N + i =< k + 1 => /\ Found(f[k + 1], lives[i].channel, t)
                                        /\ Settled(f[k + 1], lives[i].channel, t, seen)
    <3>1. /\ Sampled(f[k], lives[i].channel, t) => Sampled(f[k + 1], lives[i].channel, t)
          /\ Listed(f[k], lives[i].channel, t) => Listed(f[k + 1], lives[i].channel, t)
          /\ Found(f[k], lives[i].channel, t) => Found(f[k + 1], lives[i].channel, t)
          /\ Settled(f[k], lives[i].channel, t, seen)
                 => Settled(f[k + 1], lives[i].channel, t, seen)
      BY <1>1, <2>4 DEF Later, Sampled
    <3>2. ASSUME i =< k + 1 PROVE Sampled(f[k + 1], lives[i].channel, t)
      <4>1. (i = k + 1 /\ k + 1 =< N) \/ i =< k
        BY <1>1, <3>2
      <4> QED
        BY <2>1, <2>4, <3>1, <4>1 DEF Written1, Reached
    <3>3. ASSUME N + i =< k + 1 PROVE Listed(f[k + 1], lives[i].channel, t)
      <4>1. ((k + 1) - N = i /\ N < k + 1 /\ k + 1 =< 2 * N) \/ N + i =< k
        BY <1>1, <3>3
      <4> QED
        BY <2>1, <2>4, <3>1, <4>1 DEF Written1, Reached
    <3>4. ASSUME 2 * N + i =< k + 1
          PROVE  /\ Found(f[k + 1], lives[i].channel, t)
                 /\ Settled(f[k + 1], lives[i].channel, t, seen)
      <4>1. ((k + 1) - 2 * N = i /\ 2 * N < k + 1) \/ 2 * N + i =< k
        BY <1>1, <3>4
      <4> QED
        BY <2>1, <2>4, <3>1, <4>1 DEF Written1, Reached
    <3> QED
      BY <3>2, <3>3, <3>4
  <2> QED
    BY <2>5, <2>6 DEF Reached
<1>5. n \in S
  <2>1. \A k \in Nat : k \in S
    <3> HIDE DEF S
    <3> QED
      BY <1>3, <1>4, AllNumbers
  <2> QED
    BY <1>1, <2>1
<1>6. n \in 0 .. n
  BY <1>1
<1>7. Consistent(f[n], seen) /\ Dated(f[n], t)
  BY <1>2, <1>6
<1>8. Later(d, f[n], t, seen) /\ Reached(f[n], t, lives, n, seen)
  BY <1>1, <1>5
<1> QED
  BY <1>2, <1>7, <1>8

-----------------------------------------------------------------------------
(* The inductive invariant *)

\* What holds of db and of tx alike: it is consistent, it has the polls that
\* returned, and no row is later than the minute of the clock.
DbInv(d) ==
    /\ Consistent(d, reported)
    /\ Complete(d, complete, now - Retain, reported)
    /\ Dated(d, Floor(now))

\* No poll that returned is later than the minute of the clock.
PollsPast ==
    /\ complete \subseteq [ts : Nat, live : Live]
    /\ \A o \in complete : o.ts =< Floor(now)

\* During a poll nothing is later than its time stamp.
PollInv ==
    pc = "fetch" =>
        /\ ts =< Floor(now)
        /\ Dated(db, ts) /\ Dated(tx, ts)
        /\ \A o \in complete : o.ts =< ts

\* The open transaction has deleted no committed sample that is young.
Young == \A s \in db.samples : s \in tx.samples \/ s.ts < now - Retain

IInv ==
    /\ now \in Nat /\ ts \in Nat
    /\ DbInv(db) /\ DbInv(tx)
    /\ PollsPast /\ PollInv /\ Young

\* More reports take nothing away.
LEMMA MoreReported ==
    ASSUME NEW seen, NEW more, seen \subseteq more, NEW d
    PROVE  /\ Consistent(d, seen) => Consistent(d, more)
           /\ \A done, before : Complete(d, done, before, seen) => Complete(d, done, before, more)
<1>1. /\ \A c, t, title : Reported(seen, c, t, title) => Reported(more, c, t, title)
      /\ \A c, t, viewers : Counted(seen, c, t, viewers) => Counted(more, c, t, viewers)
  BY DEF Reported, Counted
<1>2. Consistent(d, seen) => Consistent(d, more)
  BY <1>1 DEF Consistent, TitlesReported, SamplesReported
<1>3. ASSUME NEW done, NEW before, Complete(d, done, before, seen)
      PROVE  Complete(d, done, before, more)
  <2>1. ASSUME NEW c, NEW t
        PROVE  /\ Settled(d, c, t, seen) => Settled(d, c, t, more)
               /\ Titled(d, c, t, before, seen) => Titled(d, c, t, before, more)
    BY <1>1 DEF Settled, Titled, Superseded
  <2> QED
    BY <1>3, <2>1 DEF Complete
<1> QED
  BY <1>2, <1>3

LEMMA DatedLater ==
    ASSUME NEW d \in Database, NEW t \in Nat, NEW u \in Nat, t =< u, Dated(d, t)
    PROVE  Dated(d, u)
<1>1. /\ \A r \in d.samples : r.ts \in Nat
      /\ \A r \in d.info : r.ts \in Nat
      /\ \A r \in d.channels : r.first_seen \in Nat /\ r.last_seen \in Nat
  BY DEF Database, SampleRow, InfoRow, ChannelRow
<1> QED
  BY <1>1 DEF Dated

\* Later writes and DELETEs leave the polls that returned complete.
LEMMA CompleteKept ==
    ASSUME NEW d, NEW e, NEW seen, NEW done, NEW before \in Int,
           done \subseteq [ts : Nat, live : Live], Complete(d, done, before, seen),
           \/ \E t \in Nat : Later(d, e, t, seen) /\ \A o \in done : o.ts =< t
           \/ Purged(d, e, before, seen)
    PROVE  Complete(e, done, before, seen)
<1> SUFFICES ASSUME NEW o \in done
             PROVE  /\ Listed(e, o.live.channel, o.ts)
                    /\ Settled(e, o.live.channel, o.ts, seen)
                    /\ Titled(e, o.live.channel, o.ts, before, seen)
                    /\ o.ts >= before => Sampled(e, o.live.channel, o.ts)
  BY DEF Complete
<1>1. o.ts \in Nat /\ o.live.channel \in Channels
  BY DEF Live
<1>2. /\ Listed(d, o.live.channel, o.ts)
      /\ Settled(d, o.live.channel, o.ts, seen)
      /\ Titled(d, o.live.channel, o.ts, before, seen)
      /\ o.ts >= before => Sampled(d, o.live.channel, o.ts)
  BY DEF Complete
<1>3. ASSUME NEW t \in Nat, Later(d, e, t, seen), o.ts =< t
      PROVE  /\ Listed(e, o.live.channel, o.ts)
             /\ Settled(e, o.live.channel, o.ts, seen)
             /\ Titled(e, o.live.channel, o.ts, before, seen)
             /\ o.ts >= before => Sampled(e, o.live.channel, o.ts)
  <2>1. d.samples \subseteq e.samples /\ d.info \subseteq e.info
    BY <1>3 DEF Later
  <2>2. /\ Listed(e, o.live.channel, o.ts)
        /\ Settled(e, o.live.channel, o.ts, seen)
        /\ Found(d, o.live.channel, o.ts) => Found(e, o.live.channel, o.ts)
    BY <1>1, <1>2, <1>3 DEF Later
  <2>3. Titled(e, o.live.channel, o.ts, before, seen)
    BY <1>2, <2>1, <2>2 DEF Titled, Superseded
  <2>4. o.ts >= before => Sampled(e, o.live.channel, o.ts)
    BY <1>2, <2>1 DEF Sampled
  <2> QED
    BY <2>2, <2>3, <2>4
<1>4. CASE Purged(d, e, before, seen)
  <2>1. /\ Listed(e, o.live.channel, o.ts)
        /\ Settled(e, o.live.channel, o.ts, seen)
        /\ Titled(e, o.live.channel, o.ts, before, seen)
    BY <1>1, <1>2, <1>4 DEF Purged
  <2>2. o.ts >= before => Sampled(e, o.live.channel, o.ts)
    BY <1>1, <1>2, <1>4 DEF Purged, Sampled
  <2> QED
    BY <2>1, <2>2
<1> QED
  BY <1>3, <1>4

\* As time passes, less is asked of a poll.
LEMMA CompleteAges ==
    ASSUME NEW d, NEW seen, NEW done, done \subseteq [ts : Nat, live : Live],
           NEW before \in Int, NEW after \in Int, before =< after,
           Complete(d, done, before, seen)
    PROVE  Complete(d, done, after, seen)
<1>1. \A c, t : Titled(d, c, t, before, seen) => Titled(d, c, t, after, seen)
  <2>1. \A old \in Nat : old < before => old < after
    OBVIOUS
  <2> QED
    BY <2>1 DEF Titled, Superseded
<1>2. \A o \in done : o.ts >= after => o.ts >= before
  OBVIOUS
<1> QED
  BY <1>1, <1>2 DEF Complete

LEMMA InitIInv == Init => IInv
<1> SUFFICES ASSUME Init PROVE IInv
  OBVIOUS
<1> DEFINE e == EmptyDb
<1>1. e.samples = {} /\ e.info = {} /\ e.channels = {} /\ e \in Database
  BY DEF EmptyDb, Database
<1>2. db = e /\ tx = e /\ complete = {} /\ now \in Nat /\ ts \in Nat /\ pc # "fetch"
  BY PyAssumption DEF Init
<1> HIDE DEF e
<1>3. Consistent(e, reported)
  BY <1>1 DEF Consistent, Keyed, Newest, Changes, TitlesReported, SamplesReported
<1>4. DbInv(db) /\ DbInv(tx)
  BY <1>1, <1>2, <1>3 DEF DbInv, Complete, Dated
<1>5. PollsPast /\ PollInv /\ Young
  BY <1>1, <1>2 DEF PollsPast, PollInv, Young
<1> QED
  BY <1>2, <1>4, <1>5 DEF IInv

\* What a poll that is recorded has written, with the reports it adds.
LEMMA RecordWrites ==
    ASSUME IInv, pc = "fetch", NEW lives \in Lists, NEW n \in 0 .. 3 * Len(lives),
           reported' = reported \cup Reports(ts, lives)
    PROVE  LET e == Written(tx, ts, lives, n)
           IN  /\ Consistent(e, reported') /\ Complete(e, complete, now - Retain, reported')
               /\ Dated(e, ts) /\ Later(tx, e, ts, reported')
               /\ Reached(e, ts, lives, n, reported')
<1> DEFINE e == Written(tx, ts, lives, n)
<1>1. lives \in Seq(Live) /\ ts \in Nat /\ now - Retain \in Int
  BY PyAssumption DEF IInv
<1>2. /\ Consistent(tx, reported') /\ Complete(tx, complete, now - Retain, reported')
      /\ Dated(tx, ts) /\ Reports(ts, lives) \subseteq reported'
  BY MoreReported DEF IInv, DbInv, PollInv
<1>3. /\ Consistent(e, reported') /\ Dated(e, ts) /\ Later(tx, e, ts, reported')
      /\ Reached(e, ts, lives, n, reported')
  BY <1>1, <1>2, WrittenKeeps
<1> HIDE DEF e
<1>4. /\ complete \subseteq [ts : Nat, live : Live]
      /\ \A o \in complete : o.ts =< ts
  BY DEF IInv, PollsPast, PollInv
<1>5. Complete(e, complete, now - Retain, reported')
  BY <1>1, <1>2, <1>3, <1>4, CompleteKept
<1> QED
  BY <1>3, <1>5 DEF e

LEMMA RecordStep ==
    ASSUME IInv, NEW lives \in Lists, NEW n \in 0 .. 3 * Len(lives), Record(lives, n)
    PROVE  IInv' /\ \A s \in db.samples : s \in db'.samples \/ s.ts < now - Retain
<1> DEFINE e == Written(tx, ts, lives, n)
<1>1. /\ pc = "fetch" /\ reported' = reported \cup Reports(ts, lives) /\ now' = now
      /\ now \in Nat /\ ts \in Nat /\ ts' = 0 /\ pc' # "fetch"
      /\ lives \in Seq(Live) /\ Len(lives) \in Nat
  BY PyAssumption, LenProperties DEF IInv, Record, Sleep
<1>2. /\ Consistent(e, reported') /\ Complete(e, complete, now - Retain, reported')
      /\ Dated(e, ts) /\ Later(tx, e, ts, reported')
      /\ Reached(e, ts, lives, n, reported')
  BY <1>1, RecordWrites
<1>3. \/ /\ n = 3 * Len(lives)
         /\ tx' = e /\ db' = e
         /\ complete' = complete \cup Reports(ts, lives)
      \/ /\ tx' = e \/ tx' = db
         /\ db' = db /\ complete' = complete
  BY DEF Record
<1> HIDE DEF e
<1>4. ts =< Floor(now) /\ Floor(now) \in Nat
  BY <1>1, FloorTypes DEF IInv, PollInv
<1>5. Dated(e, Floor(now))
  BY <1>1, <1>2, <1>4, DatedLater DEF Consistent
<1>6. Consistent(db, reported') /\ Complete(db, complete, now - Retain, reported') /\ Dated(db, Floor(now))
  BY <1>1, MoreReported DEF IInv, DbInv
<1>7. Young /\ \A s \in tx.samples : s \in e.samples
  BY <1>2 DEF IInv, Young, Later
<1>8. PollInv'
  BY <1>1 DEF PollInv
<1>9. PollsPast
  BY DEF IInv
<1>10. CASE /\ n = 3 * Len(lives)
            /\ tx' = e /\ db' = e
            /\ complete' = complete \cup Reports(ts, lives)
  <2>1. ASSUME NEW o \in Reports(ts, lives)
        PROVE  /\ o \in [ts : Nat, live : Live] /\ o.ts = ts
               /\ Listed(e, o.live.channel, o.ts) /\ Sampled(e, o.live.channel, o.ts)
               /\ Found(e, o.live.channel, o.ts)
               /\ Settled(e, o.live.channel, o.ts, reported')
    <3>1. PICK i \in 1 .. Len(lives) : o = [ts |-> ts, live |-> lives[i]]
      BY DEF Reports
    <3>2. lives[i] \in Live
      BY <1>1, ElementOfSeq
    <3>3. o.ts = ts /\ o.live = lives[i] /\ o \in [ts : Nat, live : Live]
      BY <1>1, <3>1, <3>2
    <3>4. i =< n /\ Len(lives) + i =< n /\ 2 * Len(lives) + i =< n
      BY <1>1, <1>10
    <3>5. /\ Listed(e, lives[i].channel, ts) /\ Sampled(e, lives[i].channel, ts)
          /\ Found(e, lives[i].channel, ts) /\ Settled(e, lives[i].channel, ts, reported')
      BY <1>2, <3>4 DEF Reached
    <3> QED
      BY <3>3, <3>5
  <2>2. Complete(e, complete', now - Retain, reported')
    BY <1>2, <1>10, <2>1 DEF Complete, Titled
  <2>3. DbInv(db)' /\ DbInv(tx)'
    BY <1>1, <1>2, <1>5, <1>10, <2>2 DEF DbInv
  <2>4. PollsPast'
    BY <1>1, <1>4, <1>9, <1>10, <2>1 DEF PollsPast
  <2>5. Young'
    BY <1>10 DEF Young
  <2>6. \A s \in db.samples : s \in db'.samples \/ s.ts < now - Retain
    BY <1>7, <1>10 DEF Young
  <2> QED
    BY <1>1, <1>8, <2>3, <2>4, <2>5, <2>6 DEF IInv
<1>11. CASE /\ tx' = e \/ tx' = db
            /\ db' = db /\ complete' = complete
  <2>1. DbInv(db)' /\ DbInv(tx)'
    BY <1>1, <1>2, <1>5, <1>6, <1>11 DEF DbInv
  <2>2. PollsPast'
    BY <1>1, <1>9, <1>11 DEF PollsPast
  <2>3. Young'
    BY <1>1, <1>7, <1>11 DEF Young
  <2> QED
    BY <1>1, <1>8, <1>11, <2>1, <2>2, <2>3 DEF IInv
<1> QED
  BY <1>3, <1>10, <1>11

LEMMA PurgeStep ==
    ASSUME IInv, NEW n \in 0 .. 2, Purge(n)
    PROVE  IInv' /\ \A s \in db.samples : s \in db'.samples \/ s.ts < now - Retain
<1> DEFINE before == now - Retain
           first  == PurgeSamples(tx, before)
           both   == PurgeInfo(first, before)
           t      == Floor(now)
<1>1. /\ now \in Nat /\ before \in Int /\ t \in Nat /\ now' = now
      /\ reported' = reported /\ complete' = complete /\ ts' = 0 /\ pc' # "fetch"
  BY PyAssumption, FloorTypes DEF IInv, Purge, Sleep
<1>2. \/ db' = both /\ tx' = both
      \/ db' = db /\ (tx' = db \/ tx' = tx \/ tx' = first \/ tx' = both)
  BY DEF Purge
<1>3. Consistent(tx, reported) /\ Complete(tx, complete, before, reported) /\ Dated(tx, t)
  BY DEF IInv, DbInv
<1> HIDE DEF before, t
<1>4. Consistent(first, reported) /\ Dated(first, t) /\ Purged(tx, first, before, reported)
  BY <1>1, <1>3, SamplesPurged
<1> HIDE DEF first
<1>5. Consistent(both, reported) /\ Dated(both, t) /\ Purged(first, both, before, reported)
  BY <1>1, <1>4, InfoPurged
<1> HIDE DEF both
<1>6. complete \subseteq [ts : Nat, live : Live]
  BY DEF IInv, PollsPast
<1>7. Complete(first, complete, before, reported)
  BY <1>1, <1>3, <1>4, <1>6, CompleteKept
<1>8. Complete(both, complete, before, reported)
  BY <1>1, <1>5, <1>6, <1>7, CompleteKept
<1>9. DbInv(first) /\ DbInv(both) /\ DbInv(db) /\ DbInv(tx)
  BY <1>4, <1>5, <1>7, <1>8 DEF DbInv, IInv, t, before
<1>10. DbInv(db)' /\ DbInv(tx)'
  BY <1>1, <1>2, <1>9 DEF DbInv
<1>11. \A s \in db.samples : /\ s \in tx.samples \/ s.ts < before
                             /\ s \in first.samples \/ s.ts < before
                             /\ s \in both.samples \/ s.ts < before
  BY <1>4, <1>5 DEF Purged, Young, IInv, before
<1>12. Young'
  BY <1>1, <1>2, <1>11 DEF Young, before
<1>13. \A s \in db.samples : s \in db'.samples \/ s.ts < now - Retain
  BY <1>2, <1>11 DEF before
<1>14. PollsPast' /\ PollInv'
  BY <1>1 DEF IInv, PollsPast, PollInv
<1> QED
  BY <1>1, <1>10, <1>12, <1>13, <1>14 DEF IInv

\* The other actions leave the database and the reports alone.
LEMMA OtherStep ==
    ASSUME IInv, UNCHANGED <<db, reported, complete>>, tx' = tx \/ tx' = db,
           ts' \in Nat,
           \/ now' = now /\ (pc' = "fetch" => ts' = Floor(now))
           \/ now' = now + 1 /\ UNCHANGED <<pc, ts>>
    PROVE  IInv'
<1>1. /\ now \in Nat /\ now' \in Nat /\ ts \in Nat
      /\ Floor(now) \in Nat /\ Floor(now') \in Nat /\ Floor(now) =< Floor(now')
  BY FloorTypes DEF IInv
<1>2. db \in Database /\ tx \in Database
  BY DEF IInv, DbInv, Consistent
<1>3. Dated(db, Floor(now')) /\ Dated(tx, Floor(now'))
  BY <1>1, <1>2, DatedLater DEF IInv, DbInv
<1>4. DbInv(db)' /\ DbInv(tx)'
  <2>4. now =< now'
    BY <1>1
  <2>1. now - Retain \in Int /\ now' - Retain \in Int /\ now - Retain =< now' - Retain
    BY <1>1, <2>4, CutoffMovesOn
  <2>2. complete \subseteq [ts : Nat, live : Live]
    BY DEF IInv, PollsPast
  <2>3. /\ Complete(db, complete, now' - Retain, reported)
        /\ Complete(tx, complete, now' - Retain, reported)
    BY <2>1, <2>2, CompleteAges DEF IInv, DbInv
  <2> QED
    BY <1>3, <2>3 DEF IInv, DbInv
<1>5. PollsPast'
  BY <1>1 DEF IInv, PollsPast
<1>6. PollInv'
  BY <1>1 DEF IInv, PollInv, DbInv, PollsPast
<1>7. Young'
  BY <1>1, PyAssumption DEF IInv, Young, DbInv, Consistent, Database, SampleRow
<1> QED
  BY <1>1, <1>4, <1>5, <1>6, <1>7 DEF IInv

LEMMA NextIInv ==
    ASSUME IInv, [Next]_vars
    PROVE  IInv' /\ \A s \in db.samples : s \in db'.samples \/ s.ts < now - Retain
<1>1. CASE UNCHANGED vars
  BY <1>1 DEF vars, IInv, DbInv, PollsPast, PollInv, Young
<1>2. ASSUME NEW lives \in Lists, NEW n \in 0 .. 3 * Len(lives), Record(lives, n)
      PROVE  IInv' /\ \A s \in db.samples : s \in db'.samples \/ s.ts < now - Retain
  BY <1>2, RecordStep
<1>3. ASSUME NEW n \in 0 .. 2, Purge(n)
      PROVE  IInv' /\ \A s \in db.samples : s \in db'.samples \/ s.ts < now - Retain
  BY <1>3, PurgeStep
<1>4. CASE FetchFails \/ SkipPurge
  <2>1. /\ UNCHANGED <<db, reported, complete, tx, now>>
        /\ ts' = 0 /\ pc' # "fetch"
    BY <1>4 DEF FetchFails, SkipPurge, Sleep
  <2> QED
    BY <2>1, OtherStep
<1>5. CASE Start \/ Wake \/ Exit \/ Kill
  <2>1. /\ UNCHANGED <<db, reported, complete, now>> /\ (tx' = tx \/ tx' = db)
        /\ ts' \in Nat /\ pc' # "fetch"
    BY <1>5 DEF Start, Wake, Exit, Kill, ProcessGone, IInv
  <2> QED
    BY <2>1, OtherStep
<1>6. CASE BeginPoll
  <2>1. /\ UNCHANGED <<db, reported, complete, tx, now>>
        /\ ts' = Floor(now)
    BY <1>6 DEF BeginPoll, Floor
  <2>2. Floor(now) \in Nat
    BY FloorTypes DEF IInv
  <2> QED
    BY <2>1, <2>2, OtherStep
<1>7. CASE Signal \/ Tick
  <2>1. /\ UNCHANGED <<db, reported, complete, tx, pc, ts>>
        /\ (now' = now \/ now' = now + 1) /\ ts \in Nat
    BY <1>7 DEF Signal, Tick, IInv
  <2>2. CASE now' = now
    BY <2>1, <2>2 DEF IInv, DbInv, PollsPast, PollInv, Young
  <2>3. CASE now' = now + 1
    BY <2>1, <2>3, OtherStep
  <2> QED
    BY <2>1, <2>2, <2>3
<1> QED
  BY <1>1, <1>2, <1>3, <1>4, <1>5, <1>6, <1>7 DEF Next

-----------------------------------------------------------------------------
(* The theorems *)

THEOREM IInvariant == Spec => []IInv
<1>1. IInv /\ [Next]_vars => IInv'
  BY NextIInv
<1> QED
  BY InitIInv, <1>1, PTL DEF Spec

\* stream_info holds changes only, although a poll may be committed in pieces,
\* the missing ones never, and DELETEs of a failed purge_old() with them.
THEOREM HistoryOfChanges == Spec => []OnlyChanges
<1>1. IInv => OnlyChanges
  BY DEF IInv, DbInv, Consistent, Changes, OnlyChanges
<1> QED
  BY <1>1, IInvariant, PTL

\* A poll whose record() returned is in the committed database as a whole: its
\* channels are listed up to its time for good, its samples are there until they
\* are older than the retention, and each channel has a title of that minute
\* unless its row was older than the retention and another followed.
THEOREM PollsAreWhole == Spec => []CompletePolls
<1>1. IInv => CompletePolls
  <2> SUFFICES ASSUME IInv, NEW o \in complete
               PROVE  LET c     == o.live.channel
                          said  == {l \in Live : l.channel = c /\ [ts |-> o.ts, live |-> l] \in reported}
                          title == TitleAt(db.info, c, o.ts)
                      IN  /\ \E k \in db.channels :
                                 k.channel = c /\ k.first_seen =< o.ts /\ o.ts =< k.last_seen
                          /\ o.ts >= now - Retain =>
                                 \E s \in db.samples : /\ s.channel = c /\ s.ts = o.ts
                                                       /\ \E l \in said : s.viewers = l.viewers
                          /\ \A r \in title : \E l \in said : r.title = l.title
                          /\ title = {} =>
                                 /\ \E r \in db.info : r.channel = c /\ r.ts > o.ts
                                 /\ \E p \in reported :
                                        /\ p.live.channel = c /\ p.ts < now - Retain
                                        /\ \E l \in said : p.live.title = l.title
    BY DEF CompletePolls
  <2> DEFINE c == o.live.channel
             said == {l \in Live : l.channel = c /\ [ts |-> o.ts, live |-> l] \in reported}
  <2>1. /\ Listed(db, c, o.ts) /\ Settled(db, c, o.ts, reported)
        /\ Titled(db, c, o.ts, now - Retain, reported)
        /\ o.ts >= now - Retain => Sampled(db, c, o.ts)
    BY DEF IInv, DbInv, Complete
  <2>2. \A title : Reported(reported, c, o.ts, title) => \E l \in said : title = l.title
    BY DEF Reported
  <2>3. ASSUME o.ts >= now - Retain
        PROVE  \E s \in db.samples : /\ s.channel = c /\ s.ts = o.ts
                                     /\ \E l \in said : s.viewers = l.viewers
    <3>1. PICK s \in db.samples : s.channel = c /\ s.ts = o.ts
      BY <2>1, <2>3 DEF Sampled
    <3>2. Counted(reported, c, o.ts, s.viewers)
      BY <3>1 DEF IInv, DbInv, Consistent, SamplesReported
    <3> QED
      BY <3>1, <3>2 DEF Counted
  <2>4. ASSUME Superseded(db, c, o.ts, now - Retain, reported)
        PROVE  /\ \E r \in db.info : r.channel = c /\ r.ts > o.ts
               /\ \E p \in reported : /\ p.live.channel = c /\ p.ts < now - Retain
                                      /\ \E l \in said : p.live.title = l.title
    <3>1. PICK old \in Nat, title \in Titles :
              /\ old < now - Retain
              /\ Reported(reported, c, old, title) /\ Reported(reported, c, o.ts, title)
      BY <2>4 DEF Superseded
    <3>2. PICK l \in Live : l.channel = c /\ l.title = title /\ [ts |-> old, live |-> l] \in reported
      BY <3>1 DEF Reported
    <3>3. \E m \in said : title = m.title
      BY <2>2, <3>1
    <3>4. \E p \in reported : p.ts = old /\ p.live = l
      BY <3>2
    <3> HIDE DEF said
    <3> QED
      BY <2>4, <3>1, <3>2, <3>3, <3>4 DEF Superseded
  <2> QED
    BY <2>1, <2>2, <2>3, <2>4 DEF Listed, Settled, Titled, Found
<1> QED
  BY <1>1, IInvariant, PTL

\* No exception, restart or late commit loses a committed sample that is younger
\* than the retention.
THEOREM YoungSamplesKept == Spec => KeptWhileYoung
<1>1. IInv /\ [Next]_vars => [\A s \in db.samples : s \in db'.samples \/ s.ts < now - Retain]_vars
  BY NextIInv
<1> QED
  BY <1>1, IInvariant, PTL DEF Spec, KeptWhileYoung
=============================================================================
