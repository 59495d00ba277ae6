----------------------------- MODULE ChartDialog -----------------------------
(***************************************************************************)
(* CMainDlg of the MFC program: the channel list and what the two charts   *)
(* show.  The UI thread handles one event at a time; a request is answered *)
(* later, over a connection that keeps the order, by a message that says   *)
(* which channel and window it is about (the request's id is not looked    *)
(* at).  In between the user selects, filters and changes modes, the timer *)
(* fires, the connection is lost and made again.                           *)
(*                                                                         *)
(* Points and titles of a reply are left out.  Time zone offset is 0.      *)
(***************************************************************************)
EXTENDS Integers, Sequences, FiniteSets

CONSTANTS
    ChannelLists,  \* replies to a channels request: sequences of Channel
    MultiCount,    \* kMultiCount
    Minute,        \* the grid the multi window starts on: 60 s
    Tolerance,     \* 300 s
    Day, Week,     \* 86400 s and kWeek
    LiveWindow,    \* kLiveWindow
    StartTime,     \* the clock when the dialog opens
    MaxNow,        \* bound: the clock stops here
    MaxPending     \* bound: requests on their way; a refresh leaves room for
                   \* two, so that it cannot keep the timer from asking

Ids == UNION {{list[i].id : i \in 1 .. Len(list)} : list \in ChannelLists}

\* A channel as a reply describes it; age is its distance from last_seen then.
Channel == [id : Ids, current : Nat, age : Nat]

ASSUME DialogAssumption ==
    /\ ChannelLists \subseteq Seq(Channel)
    /\ \A list \in ChannelLists : \A i, j \in 1 .. Len(list) : list[i].id = list[j].id => i = j
    /\ {MultiCount, Minute, Tolerance, Day} \subseteq Nat \ {0}
    /\ Week \in Nat /\ Week > Day + Tolerance
    /\ LiveWindow \in Nat /\ MaxNow \in Nat /\ MaxPending \in Nat
    /\ StartTime \in Nat /\ StartTime > 2 * Week

VARIABLES
    now,
    connected,   \* client_->connected()
    pending,     \* requests that are not answered yet, in order
    channels,    \* channels_, with last_seen
    view,        \* view_: rows of the list, as indices of channels
    selected,    \* selected row, 0 if none
    live_only,   \* the check box
    mode,        \* single or multi
    samples,     \* samples_: the reply the single chart shows
    samples_id,  \* samples_id_
    week0,       \* week0_
    multi_ids,   \* multi_ids_
    multi,       \* multi_: from ids to replies
    multi_prev,  \* multi_prev_
    multi_from   \* multi_from_

list_vars   == <<channels, view, selected, live_only>>
single_vars == <<samples, samples_id, week0>>
multi_vars  == <<multi_ids, multi, multi_prev, multi_from>>
vars == <<now, connected, pending, list_vars, mode, single_vars, multi_vars>>

None == [kind |-> "none"]

\* A request, and the reply to it, that carries the same fields.
AskChannels == [kind |-> "channels"]
Samples(id, from, to) == [kind |-> "samples", id |-> id, from |-> from, to |-> to]

Init ==
    /\ now = StartTime
    /\ connected = FALSE
    /\ pending = <<>>
    /\ channels = <<>> /\ view = <<>> /\ selected = 0 /\ live_only = FALSE
    /\ mode = "single"
    /\ samples = None /\ samples_id = "" /\ week0 = 0
    /\ multi_ids = <<>> /\ multi = <<>> /\ multi_prev = <<>> /\ multi_from = 0

-----------------------------------------------------------------------------
(* The channel list *)

IsLive(c) == now - c.last_seen =< LiveWindow

\* Current viewers, 0 for a channel that is out of the list; then the server's
\* order, which is by peak.
Shown(c) == IF IsLive(c) THEN c.current ELSE 0

\* fill_channels: filter, sort, and the row of the channel to keep selected.
Rows(chs, only) ==
    LET visible == {i \in 1 .. Len(chs) : only => IsLive(chs[i])}
        before(i, j) == \/ Shown(chs[i]) > Shown(chs[j])
                        \/ Shown(chs[i]) = Shown(chs[j]) /\ i < j
    IN  [k \in 1 .. Cardinality(visible) |->
            CHOOSE j \in visible : Cardinality({i \in visible : before(i, j)}) = k - 1]

RowOf(chs, rows, keep) ==
    IF \E k \in 1 .. Len(rows) : chs[rows[k]].id = keep
    THEN CHOOSE k \in 1 .. Len(rows) : chs[rows[k]].id = keep
    ELSE 0

\* Mistake: the selected row, not the selected channel, is kept.
FillChannelsByRow(keep) ==
    /\ view' = Rows(channels', live_only')
    /\ selected' = IF selected =< Len(view') THEN selected ELSE 0

FillChannels(keep) ==
    /\ view' = Rows(channels', live_only')
    /\ selected' = RowOf(channels', view', keep)

SelectedId == IF selected = 0 THEN "" ELSE channels[view[selected]].id

-----------------------------------------------------------------------------
(* Requests *)

WeekStart(t) == (t \div Week) * Week

\* A request on a lost connection returns false and leaves nothing behind.
Ask(requests) ==
    /\ Len(pending) + Len(requests) =< MaxPending
    /\ pending' = pending \o requests

\* Mistake: replies are kept for channels that left the first ones.
KeepAll(m, ids) == m

Keep(m, ids) == [id \in DOMAIN m \cap {ids[i] : i \in 1 .. Len(ids)} |-> m[id]]

Top == SubSeq([k \in 1 .. Len(view) |-> channels[view[k]].id], 1,
              IF Len(view) < MultiCount THEN Len(view) ELSE MultiCount)

\* request_multi, on a connection: the first channels of the list, for each of
\* them the last day and the same day a week ago.
RequestMulti(more) ==
    LET from == ((now - Day) \div Minute) * Minute
        ask == [k \in 1 .. 2 * Len(Top) |->
                   LET start == IF k % 2 = 1 THEN from ELSE from - Week
                   IN  Samples(Top[(k + 1) \div 2], start, start + Day)]
    IN  /\ Ask(more \o ask)
        /\ multi_from' = from
        /\ multi_ids' = Top
        /\ multi' = Keep(multi, Top)
        /\ multi_prev' = Keep(multi_prev, Top)

\* OnBnClickedQuery in single mode.
QuerySelected ==
    IF connected /\ selected # 0
    THEN LET from == WeekStart(now) - Week
         IN  /\ Ask(<<Samples(SelectedId, from, now)>>)
             /\ samples_id' = SelectedId
             /\ week0' = from
             /\ UNCHANGED samples
    ELSE UNCHANGED <<pending, single_vars>>

MultiIfConnected ==
    IF connected THEN RequestMulti(<<>>) ELSE UNCHANGED <<pending, multi_vars>>

-----------------------------------------------------------------------------
(* What the user does *)

Select(row) ==
    /\ row \in 1 .. Len(view) /\ row # selected
    /\ selected' = row
    /\ UNCHANGED <<now, connected, pending, channels, view, live_only, mode, single_vars, multi_vars>>

OnBnClickedLiveOnly ==
    /\ live_only' = ~live_only
    /\ channels' = channels
    /\ FillChannels(SelectedId)
    /\ UNCHANGED <<now, connected, pending, mode, single_vars, multi_vars>>

OnBnClickedRefresh ==
    /\ connected
    /\ Len(pending) + 3 =< MaxPending
    /\ Ask(<<AskChannels>>)
    /\ UNCHANGED <<now, connected, list_vars, mode, single_vars, multi_vars>>

OnBnClickedQuery ==
    /\ IF mode = "multi"
       THEN MultiIfConnected /\ UNCHANGED single_vars
       ELSE QuerySelected /\ UNCHANGED multi_vars
    /\ UNCHANGED <<now, connected, list_vars, mode>>

\* The multi chart asks when it has no channels yet, the single one asks again
\* when it had data.
OnCbnSelchangeMode ==
    /\ mode' = IF mode = "multi" THEN "single" ELSE "multi"
    /\ IF mode = "single"
       THEN /\ IF multi_ids = <<>> THEN MultiIfConnected ELSE UNCHANGED <<pending, multi_vars>>
            /\ UNCHANGED single_vars
       ELSE /\ IF samples # None THEN QuerySelected ELSE UNCHANGED <<pending, single_vars>>
            /\ UNCHANGED multi_vars
    /\ UNCHANGED <<now, connected, list_vars>>

-----------------------------------------------------------------------------
(* Timer and messages *)

\* The refresh timer: the list, and again what the charts show.
OnTimer ==
    /\ connected
    /\ CASE mode = "multi" /\ multi_ids # <<>> ->
                RequestMulti(<<AskChannels>>) /\ UNCHANGED single_vars
         [] mode = "single" /\ samples_id # "" ->
                LET from == WeekStart(now) - Week
                IN  /\ Ask(<<AskChannels, Samples(samples_id, from, now)>>)
                    /\ week0' = from
                    /\ UNCHANGED <<samples, samples_id, multi_vars>>
         [] OTHER -> Ask(<<AskChannels>>) /\ UNCHANGED <<single_vars, multi_vars>>
    /\ UNCHANGED <<now, connected, list_vars, mode>>

Arrived(kind) == pending # <<>> /\ Head(pending).kind = kind /\ pending' = Tail(pending)

\* Mistake: the rows are made again only when the filter changes.
OnSmChannelsUnfilled(list) ==
    /\ Arrived("channels")
    /\ channels' = [i \in 1 .. Len(list) |->
           [id |-> list[i].id, current |-> list[i].current, last_seen |-> now - list[i].age]]
    /\ view' = IF view = <<>> THEN Rows(channels', live_only) ELSE view
    /\ UNCHANGED <<now, connected, selected, live_only, mode, single_vars, multi_vars>>

OnSmChannels(list) ==
    /\ Arrived("channels")
    /\ channels' = [i \in 1 .. Len(list) |->
           [id |-> list[i].id, current |-> list[i].current, last_seen |-> now - list[i].age]]
    /\ live_only' = live_only
    /\ FillChannels(SelectedId)
    /\ UNCHANGED <<now, connected, mode, single_vars, multi_vars>>

\* A reply of a day's length goes to the multi chart if its channel is there;
\* its start tells which of the two days it is.  Any other reply goes to the
\* single chart if it is about the channel queried last.
IsMultiReply(s) ==
    /\ s.to - s.from = Day /\ multi_from # 0
    /\ \E i \in 1 .. Len(multi_ids) : multi_ids[i] = s.id

IsPrevious(s) ==
    LET d == s.from - (multi_from - Week) IN d < Tolerance /\ -d < Tolerance

Store(m, s) == [id \in DOMAIN m \cup {s.id} |-> IF id = s.id THEN s ELSE m[id]]

\* Mistake: the reply is compared with the selection.
OnSmSamplesOfSelected ==
    /\ Arrived("samples")
    /\ LET s == Head(pending)
       IN  IF IsMultiReply(s)
           THEN /\ multi' = IF IsPrevious(s) THEN multi ELSE Store(multi, s)
                /\ multi_prev' = IF IsPrevious(s) THEN Store(multi_prev, s) ELSE multi_prev
                /\ UNCHANGED <<single_vars, multi_ids, multi_from>>
           ELSE /\ samples' = IF s.id = SelectedId THEN s ELSE samples
                /\ UNCHANGED <<samples_id, week0, multi_vars>>
    /\ UNCHANGED <<now, connected, list_vars, mode>>

OnSmSamples ==
    /\ Arrived("samples")
    /\ LET s == Head(pending)
       IN  IF IsMultiReply(s)
           THEN /\ multi' = IF IsPrevious(s) THEN multi ELSE Store(multi, s)
                /\ multi_prev' = IF IsPrevious(s) THEN Store(multi_prev, s) ELSE multi_prev
                /\ UNCHANGED <<single_vars, multi_ids, multi_from>>
           ELSE /\ samples' = IF s.id = samples_id THEN s ELSE samples
                /\ UNCHANGED <<samples_id, week0, multi_vars>>
    /\ UNCHANGED <<now, connected, list_vars, mode>>

-----------------------------------------------------------------------------
(* Clock and connection *)

Tick ==
    /\ now < MaxNow
    /\ now' = now + 1
    /\ UNCHANGED <<connected, pending, list_vars, mode, single_vars, multi_vars>>

\* The client asks for the list itself once it is connected.
Connect ==
    /\ ~connected
    /\ connected' = TRUE
    /\ Ask(<<AskChannels>>)
    /\ UNCHANGED <<now, list_vars, mode, single_vars, multi_vars>>

\* Only the replies that are already in the message queue still arrive.
Disconnect ==
    /\ connected
    /\ connected' = FALSE
    /\ \E n \in 0 .. Len(pending) : pending' = SubSeq(pending, 1, n)
    /\ UNCHANGED <<now, list_vars, mode, single_vars, multi_vars>>

Deliver == OnSmSamples \/ \E list \in ChannelLists : OnSmChannels(list)

Next ==
    \/ \E row \in 1 .. Len(view) : Select(row)
    \/ OnBnClickedLiveOnly \/ OnBnClickedRefresh \/ OnBnClickedQuery \/ OnCbnSelchangeMode
    \/ OnTimer \/ Deliver
    \/ Tick \/ Connect \/ Disconnect

Spec == Init /\ [][Next]_vars

\* Messages are dispatched and the timer fires.
FairSpec == Spec /\ WF_vars(Deliver) /\ SF_vars(OnTimer)

-----------------------------------------------------------------------------
(* Properties *)

IsSamples(s) == s.kind = "samples" /\ s.id \in Ids /\ s.from =< s.to

\* Types of all the variables.
TypeOK ==
    /\ now \in Nat /\ connected \in BOOLEAN /\ live_only \in BOOLEAN
    /\ \A i \in 1 .. Len(pending) : pending[i] = AskChannels \/ IsSamples(pending[i])
    /\ \A i \in 1 .. Len(channels) :
           /\ channels[i].id \in Ids
           /\ channels[i].current \in Nat /\ channels[i].last_seen \in Int
    /\ mode \in {"single", "multi"}
    /\ samples = None \/ IsSamples(samples)
    /\ samples_id \in Ids \cup {""} /\ week0 \in Nat /\ multi_from \in Nat
    /\ \A i \in 1 .. Len(multi_ids) : multi_ids[i] \in Ids
    /\ \A id \in DOMAIN multi : IsSamples(multi[id])
    /\ \A id \in DOMAIN multi_prev : IsSamples(multi_prev[id])

\* The rows of the list point into channels_, each channel once, and the
\* selected row is one of them, whatever arrived between the moment the rows
\* were made and the moment one is used (OnSmChannels, fill_channels).  With
\* the types.
RowsValid ==
    /\ TypeOK
    /\ \A k \in 1 .. Len(view) : view[k] \in 1 .. Len(channels)
    /\ \A j, k \in 1 .. Len(view) : view[j] = view[k] => j = k
    /\ selected \in 0 .. Len(view)
    /\ Len(multi_ids) =< MultiCount

\* A refresh or a change of the filter never moves the selection to another
\* channel, although the rows are sorted again; a selected channel that is
\* still listed stays selected (fill_channels).
SelectionStays ==
    [][view' # view \/ channels' # channels =>
          LET listed == {channels'[view'[k]].id : k \in 1 .. Len(view')}
          IN  SelectedId' = IF SelectedId \in listed THEN SelectedId ELSE ""]_vars

\* Every reply the multi chart holds is about a channel it lists, filed under
\* that channel: one that arrives after its channel has left the first ten is
\* not kept (request_multi, OnSmSamples).
MultiOfListed ==
    \A m \in {multi, multi_prev} : \A id \in DOMAIN m :
        /\ m[id].id = id
        /\ \E i \in 1 .. Len(multi_ids) : multi_ids[i] = id

\* A queried channel is shown in the end, unless another one is queried, the
\* user leaves the single chart or the connection is lost: the timer repeats
\* a query whose reply was lost (OnTimer, OnSmSamples).
QueryShown ==
    \A id \in Ids :
        (samples_id = id) ~> \/ samples # None /\ samples.id = id
                             \/ samples_id # id
                             \/ mode = "multi" \/ ~connected

\* README.md: the single chart shows two weeks.  A day's reply of a channel
\* that has left the multi chart is taken for the reply to the query.
TwoWeeksShown == samples # None => samples.to - samples.from >= Week
=============================================================================
