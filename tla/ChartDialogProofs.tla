--------------------------- MODULE ChartDialogProofs ---------------------------
(***************************************************************************)
(* Proofs about ChartDialog: for any replies, lists and times, the         *)
(* selection stays with its channel, the multi chart holds the replies of  *)
(* the channels it lists, and the rows of the list are its channels.       *)
(***************************************************************************)
EXTENDS ChartDialog, CommonProofs

-----------------------------------------------------------------------------
(* The selection *)

\* The row that is kept is that of the channel to keep, if it has one.
LEMMA RowOfKept ==
    ASSUME NEW chs, NEW rows, NEW keep
    PROVE  LET r == RowOf(chs, rows, keep)
           IN  IF \E k \in 1 .. Len(rows) : chs[rows[k]].id = keep
               THEN r \in 1 .. Len(rows) /\ chs[rows[r]].id = keep
               ELSE r = 0
  BY DEF RowOf

\* fill_channels keeps the selected channel, whatever it makes of the rows.
LEMMA FillKeeps ==
    ASSUME FillChannels(SelectedId)
    PROVE  SelectedId' = IF SelectedId \in {channels'[view'[k]].id : k \in 1 .. Len(view')}
                         THEN SelectedId ELSE ""
<1> DEFINE keep == SelectedId
<1>1. selected' = RowOf(channels', view', keep)
  BY DEF FillChannels
<1>2. SelectedId' = IF selected' = 0 THEN "" ELSE channels'[view'[selected']].id
  BY DEF SelectedId
<1>3. keep \in {channels'[view'[k]].id : k \in 1 .. Len(view')}
          <=> \E k \in 1 .. Len(view') : channels'[view'[k]].id = keep
  OBVIOUS
<1> HIDE DEF keep
<1>4. CASE \E k \in 1 .. Len(view') : channels'[view'[k]].id = keep
  <2>1. selected' \in 1 .. Len(view') /\ channels'[view'[selected']].id = keep
    BY <1>1, <1>4, RowOfKept
  <2>2. selected' # 0
    BY <2>1
  <2> QED
    BY <1>2, <1>3, <1>4, <2>1, <2>2 DEF keep
<1>5. CASE ~ \E k \in 1 .. Len(view') : channels'[view'[k]].id = keep
  <2>1. selected' = 0
    BY <1>1, <1>5, RowOfKept
  <2> QED
    BY <1>2, <1>3, <1>5, <2>1 DEF keep
<1> QED
  BY <1>4, <1>5

\* Neither a refresh nor a change of the filter moves the selection to another
\* channel (OnSmChannels, OnBnClickedLiveOnly, fill_channels).
THEOREM SelectionIsKept == Spec => SelectionStays
<1> DEFINE Stays ==
        view' # view \/ channels' # channels =>
            LET listed == {channels'[view'[k]].id : k \in 1 .. Len(view')}
            IN  SelectedId' = IF SelectedId \in listed THEN SelectedId ELSE ""
<1>1. [Next]_vars => [Stays]_vars
  <2> SUFFICES ASSUME Next PROVE Stays
    OBVIOUS
  <2>1. CASE OnBnClickedLiveOnly
    BY <2>1, FillKeeps DEF OnBnClickedLiveOnly
  <2>2. ASSUME NEW list \in ChannelLists, OnSmChannels(list) PROVE Stays
    BY <2>2, FillKeeps DEF OnSmChannels
  <2>3. CASE UNCHANGED <<view, channels>>
    BY <2>3
  <2>4. CASE \/ \E row \in 1 .. Len(view) : Select(row)
             \/ OnBnClickedRefresh \/ OnBnClickedQuery \/ OnCbnSelchangeMode
             \/ OnTimer \/ OnSmSamples \/ Tick \/ Connect \/ Disconnect
    <3>1. UNCHANGED <<view, channels>>
      BY <2>4 DEF Select, OnBnClickedRefresh, OnBnClickedQuery, OnCbnSelchangeMode, OnTimer,
                  OnSmSamples, Tick, Connect, Disconnect, list_vars
    <3> QED
      BY <2>3, <3>1
  <2> QED
    BY <2>1, <2>2, <2>4 DEF Next, Deliver
<1> QED
  BY <1>1, PTL DEF Spec, SelectionStays

-----------------------------------------------------------------------------
(* The multi chart *)

\* A request keeps the replies of the channels that stay listed.
LEMMA RequestKeepsListed ==
    ASSUME MultiOfListed, NEW more, RequestMulti(more)
    PROVE  MultiOfListed'
<1>1. multi_ids' = Top /\ multi' = Keep(multi, Top) /\ multi_prev' = Keep(multi_prev, Top)
  BY DEF RequestMulti
<1>2. ASSUME NEW m \in {multi, multi_prev}, NEW ids, NEW id \in DOMAIN Keep(m, ids)
      PROVE  Keep(m, ids)[id].id = id /\ \E i \in 1 .. Len(ids) : ids[i] = id
  BY DEF MultiOfListed, Keep
<1> QED
  BY <1>1, <1>2 DEF MultiOfListed

\* A change that leaves the multi chart alone, or asks again.
LEMMA OthersKeepListed ==
    ASSUME MultiOfListed, UNCHANGED multi_vars \/ MultiIfConnected
    PROVE  MultiOfListed'
<1>1. CASE UNCHANGED multi_vars
  BY <1>1 DEF MultiOfListed, multi_vars
<1>2. CASE MultiIfConnected
  BY <1>2, <1>1, RequestKeepsListed DEF MultiIfConnected
<1> QED
  BY <1>1, <1>2

\* Every reply the multi chart holds is one of a listed channel, filed under it,
\* in whatever order requests and replies cross (request_multi, OnSmSamples).
THEOREM MultiRepliesAreListed == Spec => []MultiOfListed
<1>1. Init => MultiOfListed
  <2>1. DOMAIN <<>> = {}
    OBVIOUS
  <2> QED
    BY <2>1 DEF Init, MultiOfListed
<1>2. MultiOfListed /\ [Next]_vars => MultiOfListed'
  <2> SUFFICES ASSUME MultiOfListed, [Next]_vars PROVE MultiOfListed'
    OBVIOUS
  <2>1. ASSUME NEW row \in 1 .. Len(view), Select(row) PROVE MultiOfListed'
    BY <2>1, OthersKeepListed DEF Select
  <2>2. CASE OnBnClickedLiveOnly
    BY <2>2, OthersKeepListed DEF OnBnClickedLiveOnly
  <2>3. CASE OnBnClickedRefresh
    BY <2>3, OthersKeepListed DEF OnBnClickedRefresh
  <2>4. CASE OnBnClickedQuery
    BY <2>4, OthersKeepListed DEF OnBnClickedQuery
  <2>5. CASE OnCbnSelchangeMode
    BY <2>5, OthersKeepListed DEF OnCbnSelchangeMode
  <2>6. CASE OnTimer
    BY <2>6, OthersKeepListed, RequestKeepsListed DEF OnTimer
  <2>7. CASE OnSmSamples
    <3> DEFINE s == Head(pending)
    <3>1. CASE ~IsMultiReply(s)
      BY <2>7, <3>1, OthersKeepListed DEF OnSmSamples
    <3>2. CASE IsMultiReply(s)
      <4>1. /\ multi' = IF IsPrevious(s) THEN multi ELSE Store(multi, s)
            /\ multi_prev' = IF IsPrevious(s) THEN Store(multi_prev, s) ELSE multi_prev
            /\ multi_ids' = multi_ids
        BY <2>7, <3>2 DEF OnSmSamples
      <4>2. \E i \in 1 .. Len(multi_ids) : multi_ids[i] = s.id
        BY <3>2 DEF IsMultiReply
      <4> HIDE DEF s
      <4>3. ASSUME NEW m \in {multi, multi_prev}, NEW id \in DOMAIN Store(m, s)
            PROVE  /\ Store(m, s)[id].id = id
                   /\ \E i \in 1 .. Len(multi_ids) : multi_ids[i] = id
        BY <4>2 DEF MultiOfListed, Store
      <4>4. CASE IsPrevious(s)
        BY <4>1, <4>3, <4>4 DEF MultiOfListed
      <4>5. CASE ~IsPrevious(s)
        BY <4>1, <4>3, <4>5 DEF MultiOfListed
      <4> QED
        BY <4>4, <4>5
    <3> QED
      BY <3>1, <3>2
  <2>8. ASSUME NEW list \in ChannelLists, OnSmChannels(list) PROVE MultiOfListed'
    BY <2>8, OthersKeepListed DEF OnSmChannels
  <2>9. CASE Tick
    BY <2>9, OthersKeepListed DEF Tick
  <2>10. CASE Connect
    BY <2>10, OthersKeepListed DEF Connect
  <2>11. CASE Disconnect
    BY <2>11, OthersKeepListed DEF Disconnect
  <2>12. CASE UNCHANGED vars
    BY <2>12, OthersKeepListed DEF vars
  <2> QED
    BY <2>1, <2>2, <2>3, <2>4, <2>5, <2>6, <2>7, <2>8, <2>9, <2>10, <2>11, <2>12
       DEF Next, Deliver
<1> QED
  BY <1>1, <1>2, PTL DEF Spec

-----------------------------------------------------------------------------
(* The rows of the list *)

\* A channel as the dialog keeps it.
Known == [id : Ids, current : Nat, last_seen : Int]

\* The rows are indices of channels, each at most once.
RowsOf(rows, chs) ==
    /\ rows \in Seq(1 .. Len(chs))
    /\ \A j, k \in 1 .. Len(rows) : rows[j] = rows[k] => j = k

\* fill_channels: the sort puts every channel that is visible in one row.
LEMMA RowsAreChannels ==
    ASSUME NEW chs \in Seq(Known), NEW only, now \in Int, LiveWindow \in Int
    PROVE  RowsOf(Rows(chs, only), chs)
<1> DEFINE V == {i \in 1 .. Len(chs) : only => IsLive(chs[i])}
           before(i, j) == \/ Shown(chs[i]) > Shown(chs[j])
                           \/ Shown(chs[i]) = Shown(chs[j]) /\ i < j
           R == {d \in V \X V : before(d[1], d[2])}
           n == Cardinality(V)
           at(k) == CHOOSE j \in V : Cardinality({i \in V : before(i, j)}) = k - 1
           rows == [k \in 1 .. n |-> at(k)]
<1>1. Rows(chs, only) = rows
  BY DEF Rows
<1>2. Len(chs) \in Nat /\ IsFiniteSet(V) /\ V \subseteq Nat /\ n \in Nat
  <2>1. Len(chs) \in Nat /\ IsFiniteSet(1 .. Len(chs))
    BY LenProperties, FS_Interval
  <2>2. V \subseteq 1 .. Len(chs)
    OBVIOUS
  <2> HIDE DEF V
  <2>3. IsFiniteSet(V)
    BY <2>1, <2>2, FS_Subset
  <2>4. n \in Nat
    BY <2>3, FS_CardinalityType
  <2> QED
    BY <2>1, <2>2, <2>3, <2>4
<1>3. \A i \in V : Shown(chs[i]) \in Nat
  <2>1. \A i \in V : chs[i] \in Known
    BY ElementOfSeq
  <2> QED
    BY <2>1 DEF Known, Shown
<1> HIDE DEF V
<1>4. \A i, j \in V : <<i, j>> \in R <=> before(i, j)
  OBVIOUS
<1>5. /\ \A i \in V : ~before(i, i)
      /\ \A i, j \in V : i # j => before(i, j) \/ before(j, i)
      /\ \A i, j, h \in V : before(i, j) /\ before(j, h) => before(i, h)
  <2> DEFINE s(i) == Shown(chs[i])
  <2>1. \A i \in V : s(i) \in Nat /\ i \in Nat
    BY <1>2, <1>3
  <2>2. \A i, j \in V : before(i, j) <=> s(i) > s(j) \/ (s(i) = s(j) /\ i < j)
    OBVIOUS
  <2> HIDE DEF s, before
  <2> QED
    BY <2>1, <2>2
<1> HIDE DEF before
<1>6. StrictOrder(V, R)
  BY <1>4, <1>5 DEF StrictOrder
<1> HIDE DEF R
<1>7. ASSUME NEW k \in 1 .. n
      PROVE  at(k) \in V /\ Cardinality({i \in V : before(i, at(k))}) = k - 1
  <2> DEFINE r == k - 1
  <2>1. r \in 0 .. Cardinality(V) - 1
    BY <1>2
  <2> HIDE DEF r
  <2>2. IsFiniteSet(V)
    BY <1>2
  <2>3. PICK j \in V : Cardinality({i \in V : <<i, j>> \in R}) = r
    <3>1. OfRank(V, R, r) # {}
      BY <1>6, <2>1, <2>2, EveryRank
    <3> QED
      BY <3>1 DEF OfRank
  <2>4. {i \in V : before(i, j)} = {i \in V : <<i, j>> \in R}
    BY <1>4
  <2>5. \E h \in V : Cardinality({i \in V : before(i, h)}) = k - 1
    BY <2>3, <2>4 DEF r
  <2> QED
    BY <2>5
<1> HIDE DEF at
<1>8. ASSUME NEW j \in 1 .. n, NEW k \in 1 .. n, at(j) = at(k) PROVE j = k
  <2>1. j - 1 = k - 1
    BY <1>7, <1>8
  <2> QED
    BY <1>2, <2>1
<1>9. \A k \in 1 .. n : at(k) \in 1 .. Len(chs)
  BY <1>7 DEF V
<1>10. rows \in Seq(1 .. Len(chs)) /\ Len(rows) = n /\ \A k \in 1 .. n : rows[k] = at(k)
  <2> HIDE DEF n
  <2> QED
    BY <1>2, <1>9
<1> HIDE DEF n, rows
<1>11. \A j, k \in 1 .. Len(rows) : rows[j] = rows[k] => j = k
  BY <1>8, <1>10
<1> QED
  BY <1>1, <1>10, <1>11 DEF RowsOf

-----------------------------------------------------------------------------
(* The state of the dialog *)

SamplesRequest == {s \in [kind : {"samples"}, id : Ids, from : Int, to : Int] : s.from =< s.to}
Request == {AskChannels} \cup SamplesRequest

ListInv ==
    /\ now \in Nat /\ now >= StartTime
    /\ connected \in BOOLEAN /\ live_only \in BOOLEAN
    /\ channels \in Seq(Known)
    /\ RowsOf(view, channels)
    /\ selected \in 0 .. Len(view)

SingleInv ==
    /\ samples \in {None} \cup SamplesRequest
    /\ samples_id \in Ids \cup {""} /\ week0 \in Nat

MultiInv ==
    /\ multi_ids \in Seq(Ids) /\ Len(multi_ids) =< MultiCount /\ multi_from \in Nat
    /\ \A id \in DOMAIN multi : multi[id] \in SamplesRequest
    /\ \A id \in DOMAIN multi_prev : multi_prev[id] \in SamplesRequest

\* The inductive invariant.
IInv ==
    /\ ListInv
    /\ pending \in Seq(Request)
    /\ mode \in {"single", "multi"} /\ SingleInv /\ MultiInv

LEMMA Sizes ==
    /\ MultiCount \in Nat /\ MultiCount > 0 /\ Minute \in Nat /\ Minute > 0
    /\ Day \in Nat /\ Day > 0 /\ Week \in Nat /\ Week > Day
    /\ LiveWindow \in Nat /\ StartTime \in Nat /\ StartTime > Week /\ StartTime > 2 * Week
    /\ MaxPending \in Nat
  BY DialogAssumption

\* The greatest multiple up to t.
LEMMA Multiple ==
    ASSUME NEW t \in Nat, NEW w \in Nat, w > 0
    PROVE  (t \div w) * w \in Nat /\ (t \div w) * w =< t /\ t - w < (t \div w) * w
<1>1. t \div w \in Nat
  OBVIOUS
<1>2. (t \div w) * w =< t
  OBVIOUS
<1>3. t - w < (t \div w) * w
  OBVIOUS
<1> DEFINE d == t \div w
<1> HIDE DEF d
<1>4. d * w \in Nat
  BY <1>1 DEF d
<1> QED
  BY <1>2, <1>3, <1>4 DEF d

\* The window of a query: two weeks at most, none of it before the epoch.
LEMMA QueryWindow ==
    ASSUME ListInv
    PROVE  /\ WeekStart(now) - Week \in Nat
           /\ \A id \in Ids : Samples(id, WeekStart(now) - Week, now) \in SamplesRequest
<1> DEFINE from == WeekStart(now) - Week
<1>1. WeekStart(now) \in Nat /\ WeekStart(now) =< now /\ now - Week < WeekStart(now)
  BY Sizes, Multiple DEF ListInv, WeekStart
<1>2. from \in Nat /\ from =< now /\ now \in Nat
  BY <1>1, Sizes DEF ListInv
<1> HIDE DEF from
<1>3. \A id \in Ids : Samples(id, from, now) \in SamplesRequest
  BY <1>2 DEF Samples, SamplesRequest
<1> QED
  BY <1>2, <1>3 DEF from

\* A selected row is that of a channel.
LEMMA SelectedIsChannel ==
    ASSUME ListInv, selected # 0
    PROVE  SelectedId \in Ids
<1>1. selected \in 1 .. Len(view) /\ Len(view) \in Nat
  BY LenProperties DEF ListInv, RowsOf
<1>2. view[selected] \in 1 .. Len(channels)
  BY <1>1, ElementOfSeq DEF ListInv, RowsOf
<1>3. channels[view[selected]] \in Known
  BY <1>2, ElementOfSeq DEF ListInv
<1> QED
  BY <1>3 DEF SelectedId, Known

\* A request is sent whole.
LEMMA AskTypes ==
    ASSUME pending \in Seq(Request), NEW more \in Seq(Request), Ask(more)
    PROVE  pending' \in Seq(Request)
  BY ConcatProperties DEF Ask

\* The channels of the multi chart are some of the list's.
LEMMA TopTypes ==
    ASSUME ListInv
    PROVE  Top \in Seq(Ids) /\ Len(Top) =< MultiCount
<1> DEFINE names == [k \in 1 .. Len(view) |-> channels[view[k]].id]
           n == IF Len(view) < MultiCount THEN Len(view) ELSE MultiCount
<1>1. Len(view) \in Nat /\ \A k \in 1 .. Len(view) : view[k] \in 1 .. Len(channels)
  BY ElementOfSeq, LenProperties DEF ListInv, RowsOf
<1>2. \A k \in 1 .. Len(view) : channels[view[k]].id \in Ids
  <2>1. \A k \in 1 .. Len(view) : channels[view[k]] \in Known
    BY <1>1, ElementOfSeq DEF ListInv
  <2> QED
    BY <2>1 DEF Known
<1>3. n \in 0 .. Len(view) /\ n =< MultiCount
  BY <1>1, Sizes
<1>4. \A k \in 1 .. n : names[k] \in Ids
  BY <1>1, <1>2, <1>3
<1>5. Top = SubSeq(names, 1, n)
  BY DEF Top
<1> HIDE DEF names, n
<1>6. SubSeq(names, 1, n) \in Seq(Ids) /\ Len(SubSeq(names, 1, n)) = IF 1 =< n THEN n - 1 + 1 ELSE 0
  BY <1>1, <1>3, <1>4, SubSeqProperties
<1> QED
  BY <1>1, <1>3, <1>5, <1>6, Sizes

\* request_multi.
LEMMA RequestMultiTypes ==
    ASSUME IInv, NEW more \in Seq(Request), RequestMulti(more)
    PROVE  pending' \in Seq(Request) /\ MultiInv'
<1> DEFINE from == ((now - Day) \div Minute) * Minute
           start(k) == IF k % 2 = 1 THEN from ELSE from - Week
           ask == [k \in 1 .. 2 * Len(Top) |-> Samples(Top[(k + 1) \div 2], start(k), start(k) + Day)]
<1>1. /\ Ask(more \o ask) /\ multi_from' = from /\ multi_ids' = Top
      /\ multi' = Keep(multi, Top) /\ multi_prev' = Keep(multi_prev, Top)
  BY DEF RequestMulti
<1>2. Top \in Seq(Ids) /\ Len(Top) =< MultiCount /\ Len(Top) \in Nat
  BY TopTypes, LenProperties DEF IInv
<1>3. from \in Nat
  <2>1. now - Day \in Nat
    BY Sizes DEF IInv, ListInv
  <2> QED
    BY <2>1, Sizes, Multiple
<1> HIDE DEF from
<1>4. \A k \in 1 .. 2 * Len(Top) : start(k) \in Int /\ start(k) =< start(k) + Day
  BY <1>3, Sizes
<1> HIDE DEF start
<1>5. \A k \in 1 .. 2 * Len(Top) : Top[(k + 1) \div 2] \in Ids
  <2>1. \A k \in 1 .. 2 * Len(Top) : (k + 1) \div 2 \in 1 .. Len(Top)
    BY <1>2
  <2> QED
    BY <1>2, <2>1, ElementOfSeq
<1>6. \A k \in 1 .. 2 * Len(Top) :
          Samples(Top[(k + 1) \div 2], start(k), start(k) + Day) \in Request
  BY <1>4, <1>5, Sizes DEF Samples, SamplesRequest, Request
<1>7. ask \in Seq(Request)
  BY <1>2, <1>6
<1> HIDE DEF ask
<1>8. pending' \in Seq(Request)
  BY <1>1, <1>7, AskTypes, ConcatProperties DEF IInv
<1>9. MultiInv'
  BY <1>1, <1>2, <1>3 DEF MultiInv, IInv, Keep
<1> QED
  BY <1>8, <1>9

\* The requests of the multi chart, on a connection or not.
LEMMA MultiIfConnectedTypes ==
    ASSUME IInv, MultiIfConnected
    PROVE  pending' \in Seq(Request) /\ MultiInv'
<1>1. CASE connected
  BY <1>1, RequestMultiTypes, EmptySeq DEF MultiIfConnected
<1>2. CASE ~connected
  BY <1>2 DEF MultiIfConnected, IInv, MultiInv, multi_vars
<1> QED
  BY <1>1, <1>2

\* OnBnClickedQuery in single mode.
LEMMA QuerySelectedTypes ==
    ASSUME IInv, QuerySelected
    PROVE  pending' \in Seq(Request) /\ SingleInv'
<1>1. CASE connected /\ selected # 0
  <2> DEFINE from == WeekStart(now) - Week
             request == Samples(SelectedId, from, now)
  <2>1. SelectedId \in Ids
    BY <1>1, SelectedIsChannel DEF IInv
  <2>2. from \in Nat /\ request \in SamplesRequest
    BY <2>1, QueryWindow DEF IInv
  <2>3. /\ Ask(<<request>>) /\ samples_id' = SelectedId /\ week0' = from /\ UNCHANGED samples
    BY <1>1 DEF QuerySelected
  <2> HIDE DEF from, request
  <2>4. <<request>> \in Seq(Request)
    BY <2>2 DEF Request
  <2>5. pending' \in Seq(Request)
    BY <2>3, <2>4, AskTypes DEF IInv
  <2> QED
    BY <2>1, <2>2, <2>3, <2>5 DEF IInv, SingleInv
<1>2. CASE ~(connected /\ selected # 0)
  BY <1>2 DEF QuerySelected, IInv, SingleInv, single_vars
<1> QED
  BY <1>1, <1>2

\* fill_channels, after a change of the list or of the filter.
LEMMA FillTypes ==
    ASSUME ListInv, channels' \in Seq(Known), NEW keep, FillChannels(keep)
    PROVE  RowsOf(view', channels') /\ selected' \in 0 .. Len(view')
<1> DEFINE chs == channels'
           rows == view'
           only == live_only'
<1>1. rows = Rows(chs, only) /\ selected' = RowOf(chs, rows, keep)
  BY DEF FillChannels
<1>2. chs \in Seq(Known) /\ now \in Int /\ LiveWindow \in Int
  BY Sizes DEF ListInv
<1> HIDE DEF chs, rows, only
<1>3. RowsOf(rows, chs)
  BY <1>1, <1>2, RowsAreChannels
<1>4. Len(rows) \in Nat
  BY <1>3, LenProperties DEF RowsOf
<1>5. RowOf(chs, rows, keep) \in 0 .. Len(rows)
  BY <1>4, RowOfKept
<1> QED
  BY <1>1, <1>3, <1>5 DEF rows, chs

LEMMA ListKept ==
    ASSUME ListInv, UNCHANGED <<now, connected, list_vars>>
    PROVE  ListInv'
  BY DEF ListInv, list_vars, RowsOf

\* A request or a reply that was answered leaves the queue.
LEMMA ArrivedTypes ==
    ASSUME pending \in Seq(Request), NEW kind, Arrived(kind)
    PROVE  pending' \in Seq(Request) /\ Head(pending) \in Request
  BY HeadTailProperties DEF Arrived

\* A reply to a channels request.
LEMMA OnSmChannelsTypes ==
    ASSUME IInv, NEW list \in ChannelLists, OnSmChannels(list)
    PROVE  IInv'
<1> DEFINE chs == [i \in 1 .. Len(list) |->
               [id |-> list[i].id, current |-> list[i].current, last_seen |-> now - list[i].age]]
<1>1. list \in Seq(Channel) /\ Len(list) \in Nat
  BY DialogAssumption, LenProperties
<1>2. \A i \in 1 .. Len(list) : list[i].id \in Ids /\ list[i].current \in Nat /\ list[i].age \in Nat
  <2>1. \A i \in 1 .. Len(list) : list[i] \in Channel
    BY <1>1, ElementOfSeq
  <2> QED
    BY <2>1 DEF Channel
<1>3. now \in Int
  BY DEF IInv, ListInv
<1>4. \A i \in 1 .. Len(list) :
          [id |-> list[i].id, current |-> list[i].current, last_seen |-> now - list[i].age] \in Known
  BY <1>2, <1>3 DEF Known
<1>5. chs \in Seq(Known)
  BY <1>1, <1>4
<1>6. channels' = chs /\ FillChannels(SelectedId) /\ Arrived("channels")
      /\ UNCHANGED <<now, connected, live_only, mode, single_vars, multi_vars>>
  BY DEF OnSmChannels
<1> HIDE DEF chs
<1>7. ListInv'
  BY <1>5, <1>6, FillTypes DEF IInv, ListInv
<1>8. pending' \in Seq(Request)
  BY <1>6, ArrivedTypes DEF IInv
<1> QED
  BY <1>6, <1>7, <1>8 DEF IInv, SingleInv, MultiInv, single_vars, multi_vars

\* A reply to a samples request.
LEMMA OnSmSamplesTypes == IInv /\ OnSmSamples => IInv'
<1> SUFFICES ASSUME IInv, OnSmSamples PROVE IInv'
  OBVIOUS
<1> DEFINE s == Head(pending)
<1>1. pending' \in Seq(Request) /\ s \in Request /\ s.kind = "samples"
  BY ArrivedTypes DEF OnSmSamples, IInv, Arrived
<1>2. s \in SamplesRequest
  BY <1>1 DEF Request, AskChannels
<1>3. UNCHANGED <<now, connected, list_vars, mode>>
  BY DEF OnSmSamples
<1>4. ListInv'
  BY <1>3, ListKept DEF IInv
<1>5. CASE IsMultiReply(s)
  <2>1. /\ multi' = IF IsPrevious(s) THEN multi ELSE Store(multi, s)
        /\ multi_prev' = IF IsPrevious(s) THEN Store(multi_prev, s) ELSE multi_prev
        /\ UNCHANGED <<single_vars, multi_ids, multi_from>>
    BY <1>5 DEF OnSmSamples
  <2> HIDE DEF s
  <2>2. ASSUME NEW m \in {multi, multi_prev}, NEW id \in DOMAIN Store(m, s)
        PROVE  Store(m, s)[id] \in SamplesRequest
    BY <1>2 DEF Store, IInv, MultiInv
  <2>3. MultiInv'
    BY <2>1, <2>2 DEF IInv, MultiInv
  <2> QED
    BY <1>1, <1>3, <1>4, <2>1, <2>3 DEF IInv, SingleInv, single_vars
<1>6. CASE ~IsMultiReply(s)
  <2>1. /\ samples' = IF s.id = samples_id THEN s ELSE samples
        /\ UNCHANGED <<samples_id, week0, multi_vars>>
    BY <1>6 DEF OnSmSamples
  <2> HIDE DEF s
  <2> QED
    BY <1>1, <1>2, <1>3, <1>4, <2>1 DEF IInv, SingleInv, MultiInv, multi_vars
<1> QED
  BY <1>5, <1>6

\* The refresh timer.
LEMMA OnTimerTypes == IInv /\ OnTimer => IInv'
<1> SUFFICES ASSUME IInv, OnTimer PROVE IInv'
  OBVIOUS
<1>0. AskChannels \in Request
  BY DEF Request
<1>1. UNCHANGED <<now, connected, list_vars, mode>> /\ ListInv'
  BY ListKept DEF OnTimer, IInv
<1>2. CASE mode = "multi" /\ multi_ids # <<>>
  <2>1. RequestMulti(<<AskChannels>>) /\ UNCHANGED single_vars
    BY <1>2 DEF OnTimer
  <2>2. <<AskChannels>> \in Seq(Request)
    BY <1>0
  <2>3. pending' \in Seq(Request) /\ MultiInv'
    BY <2>1, <2>2, RequestMultiTypes
  <2> QED
    BY <1>1, <2>1, <2>3 DEF IInv, SingleInv, single_vars
<1>3. CASE mode = "single" /\ samples_id # ""
  <2> DEFINE from == WeekStart(now) - Week
             request == Samples(samples_id, from, now)
  <2>1. /\ Ask(<<AskChannels, request>>) /\ week0' = from
        /\ UNCHANGED <<samples, samples_id, multi_vars>>
    BY <1>3 DEF OnTimer
  <2>2. from \in Nat /\ request \in Request
    BY <1>3, QueryWindow DEF IInv, SingleInv, Request
  <2> HIDE DEF from, request
  <2>3. <<AskChannels, request>> \in Seq(Request)
    BY <1>0, <2>2
  <2>4. pending' \in Seq(Request)
    BY <2>1, <2>3, AskTypes DEF IInv
  <2> QED
    BY <1>1, <2>1, <2>2, <2>4 DEF IInv, SingleInv, MultiInv, multi_vars
<1>4. CASE ~(mode = "multi" /\ multi_ids # <<>>) /\ ~(mode = "single" /\ samples_id # "")
  <2>1. Ask(<<AskChannels>>) /\ UNCHANGED <<single_vars, multi_vars>>
    BY <1>4 DEF OnTimer
  <2>2. <<AskChannels>> \in Seq(Request)
    BY <1>0
  <2>3. pending' \in Seq(Request)
    BY <2>1, <2>2, AskTypes DEF IInv
  <2> QED
    BY <1>1, <2>1, <2>3 DEF IInv, SingleInv, MultiInv, single_vars, multi_vars
<1> QED
  BY <1>2, <1>3, <1>4

\* The buttons and the mode.
LEMMA QueryTypes == IInv /\ (OnBnClickedQuery \/ OnCbnSelchangeMode) => IInv'
<1> SUFFICES ASSUME IInv, OnBnClickedQuery \/ OnCbnSelchangeMode PROVE IInv'
  OBVIOUS
<1>1. UNCHANGED <<now, connected, list_vars>> /\ ListInv'
  BY ListKept DEF OnBnClickedQuery, OnCbnSelchangeMode, IInv
<1>2. mode' \in {"single", "multi"}
  BY DEF OnBnClickedQuery, OnCbnSelchangeMode, IInv
<1>3. CASE MultiIfConnected /\ UNCHANGED single_vars
  BY <1>1, <1>2, <1>3, MultiIfConnectedTypes DEF IInv, SingleInv, single_vars
<1>4. CASE QuerySelected /\ UNCHANGED multi_vars
  BY <1>1, <1>2, <1>4, QuerySelectedTypes DEF IInv, MultiInv, multi_vars
<1>5. CASE UNCHANGED <<pending, single_vars, multi_vars>>
  BY <1>1, <1>2, <1>5 DEF IInv, SingleInv, MultiInv, single_vars, multi_vars
<1> QED
  BY <1>3, <1>4, <1>5 DEF OnBnClickedQuery, OnCbnSelchangeMode

\* Whatever requests, replies, clicks and lost connections cross, the rows of
\* the list are channels of the list, each in one row, and the selected row is
\* one of them (OnSmChannels, fill_channels, request_multi).
THEOREM RowsAreValid == Spec => []RowsValid
<1>1. Init => IInv
  <2> SUFFICES ASSUME Init PROVE IInv
    OBVIOUS
  <2> DEFINE e == <<>>
  <2>1. /\ now = StartTime /\ connected = FALSE /\ live_only = FALSE /\ selected = 0
        /\ pending = e /\ channels = e /\ view = e /\ mode = "single"
    BY DEF Init
  <2>2. /\ samples = None /\ samples_id = "" /\ week0 = 0
        /\ multi_ids = e /\ multi = e /\ multi_prev = e /\ multi_from = 0
    BY DEF Init
  <2>3. /\ e \in Seq(Request) /\ e \in Seq(Known) /\ e \in Seq(Ids) /\ e \in Seq(1 .. Len(e))
        /\ Len(e) = 0 /\ DOMAIN e = {}
    BY EmptySeq
  <2> HIDE DEF e
  <2>4. RowsOf(e, e)
    BY <2>3 DEF RowsOf
  <2>5. ListInv
    <3>1. now \in Nat /\ now >= StartTime
      BY <2>1, Sizes
    <3>2. connected \in BOOLEAN /\ live_only \in BOOLEAN
      BY <2>1
    <3>3. selected \in 0 .. Len(view)
      BY <2>1, <2>3
    <3>4. channels \in Seq(Known) /\ RowsOf(view, channels)
      BY <2>1, <2>3, <2>4
    <3> QED
      BY <3>1, <3>2, <3>3, <3>4 DEF ListInv
  <2>6. SingleInv
    BY <2>2 DEF SingleInv
  <2>7. MultiInv
    <3>1. multi_ids \in Seq(Ids) /\ Len(multi_ids) = 0 /\ multi_from \in Nat
      BY <2>2, <2>3
    <3>2. DOMAIN multi = {} /\ DOMAIN multi_prev = {}
      BY <2>2, <2>3
    <3>3. Len(multi_ids) =< MultiCount
      BY <3>1, Sizes
    <3> QED
      BY <3>1, <3>2, <3>3 DEF MultiInv
  <2> QED
    BY <2>1, <2>3, <2>5, <2>6, <2>7 DEF IInv
<1>2. IInv /\ [Next]_vars => IInv'
  <2> SUFFICES ASSUME IInv, [Next]_vars PROVE IInv'
    OBVIOUS
  <2>1. ASSUME NEW row \in 1 .. Len(view), Select(row) PROVE IInv'
    <3>1. selected' = row /\ UNCHANGED <<now, connected, pending, channels, view, live_only, mode,
                                         single_vars, multi_vars>>
      BY <2>1 DEF Select
    <3>2. row \in 0 .. Len(view)
      BY LenProperties DEF IInv, ListInv, RowsOf
    <3> QED
      BY <3>1, <3>2 DEF IInv, ListInv, SingleInv, MultiInv, RowsOf, single_vars, multi_vars
  <2>2. CASE OnBnClickedLiveOnly
    <3>1. /\ live_only' \in BOOLEAN /\ channels' = channels /\ FillChannels(SelectedId)
          /\ UNCHANGED <<now, connected, pending, mode, single_vars, multi_vars>>
      BY <2>2 DEF OnBnClickedLiveOnly, IInv, ListInv
    <3>2. ListInv'
      BY <3>1, FillTypes DEF IInv, ListInv
    <3> QED
      BY <3>1, <3>2 DEF IInv, SingleInv, MultiInv, single_vars, multi_vars
  <2>3. CASE OnBnClickedRefresh \/ Connect
    <3>1. <<AskChannels>> \in Seq(Request)
      BY DEF Request
    <3>2. Ask(<<AskChannels>>) /\ UNCHANGED <<now, list_vars, mode, single_vars, multi_vars>>
          /\ connected' \in BOOLEAN
      BY <2>3 DEF OnBnClickedRefresh, Connect, IInv, ListInv
    <3>3. pending' \in Seq(Request)
      BY <3>1, <3>2, AskTypes DEF IInv
    <3> QED
      BY <3>2, <3>3 DEF IInv, ListInv, SingleInv, MultiInv, RowsOf, list_vars, single_vars, multi_vars
  <2>4. CASE OnBnClickedQuery \/ OnCbnSelchangeMode
    BY <2>4, QueryTypes
  <2>5. CASE OnTimer
    BY <2>5, OnTimerTypes
  <2>6. CASE OnSmSamples
    BY <2>6, OnSmSamplesTypes
  <2>7. ASSUME NEW list \in ChannelLists, OnSmChannels(list) PROVE IInv'
    BY <2>7, OnSmChannelsTypes
  <2>8. CASE Tick
    <3>1. now' \in Nat /\ now' >= StartTime
      BY <2>8, Sizes DEF Tick, IInv, ListInv
    <3>2. UNCHANGED <<connected, pending, list_vars, mode, single_vars, multi_vars>>
      BY <2>8 DEF Tick
    <3> QED
      BY <3>1, <3>2
      DEF IInv, ListInv, SingleInv, MultiInv, RowsOf, list_vars, single_vars, multi_vars
  <2>9. CASE Disconnect
    <3>1. PICK n \in 0 .. Len(pending) : pending' = SubSeq(pending, 1, n)
      BY <2>9 DEF Disconnect
    <3>2. \A i \in 1 .. n : pending[i] \in Request
      BY ElementOfSeq DEF IInv
    <3>3. n \in Nat /\ SubSeq(pending, 1, n) \in Seq(Request)
      BY <3>2, SubSeqProperties
    <3>4. UNCHANGED <<now, list_vars, mode, single_vars, multi_vars>> /\ connected' \in BOOLEAN
      BY <2>9 DEF Disconnect
    <3> QED
      BY <3>1, <3>3, <3>4
      DEF IInv, ListInv, SingleInv, MultiInv, RowsOf, list_vars, single_vars, multi_vars
  <2>10. CASE UNCHANGED vars
    BY <2>10 DEF vars, IInv, ListInv, SingleInv, MultiInv, RowsOf, list_vars, single_vars, multi_vars
  <2> QED
    BY <2>1, <2>2, <2>3, <2>4, <2>5, <2>6, <2>7, <2>8, <2>9, <2>10 DEF Next, Deliver
<1>3. IInv => RowsValid
  <2> SUFFICES ASSUME IInv PROVE RowsValid
    OBVIOUS
  <2>1. \A i \in 1 .. Len(pending) : pending[i] = AskChannels \/ IsSamples(pending[i])
    <3>1. \A i \in 1 .. Len(pending) : pending[i] \in Request
      BY ElementOfSeq DEF IInv
    <3> QED
      BY <3>1 DEF Request, SamplesRequest, IsSamples
  <2>2. \A i \in 1 .. Len(channels) : channels[i] \in Known
    BY ElementOfSeq DEF IInv, ListInv
  <2>3. \A i \in 1 .. Len(multi_ids) : multi_ids[i] \in Ids
    BY ElementOfSeq DEF IInv, MultiInv
  <2>4. \A s \in SamplesRequest : IsSamples(s)
    BY DEF SamplesRequest, IsSamples
  <2>5. TypeOK
    BY <2>1, <2>2, <2>3, <2>4 DEF IInv, ListInv, SingleInv, MultiInv, Known, TypeOK
  <2>6. \A k \in 1 .. Len(view) : view[k] \in 1 .. Len(channels)
    BY ElementOfSeq DEF IInv, ListInv, RowsOf
  <2> QED
    BY <2>5, <2>6 DEF RowsValid, IInv, ListInv, MultiInv, RowsOf
<1> QED
  BY <1>1, <1>2, <1>3, PTL DEF Spec
=============================================================================
