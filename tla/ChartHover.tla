----------------------------- MODULE ChartHover -----------------------------
(***************************************************************************)
(* The chart of CMainDlg: which sample the tooltip marks.  One index,      *)
(* hover_idx_, serves both charts: the two weeks of a channel (two rows)   *)
(* and the last day of several channels (a row each).  It points into      *)
(* samples that replies replace, in rows whose time scale the timer moves, *)
(* and the rectangles the mouse is compared with are those of the last     *)
(* paint.                                                                  *)
(*                                                                         *)
(* A point is its time; x counts pixels from the left of a row.  Viewer    *)
(* counts, the y axis and the layout of the rows are left out, except that *)
(* another number of rows puts another row under the mouse.                *)
(***************************************************************************)
EXTENDS Integers, Sequences, FiniteSets

CONSTANTS
    Histories,  \* what the server has of a channel: sequences of times
    Rankings,   \* first channels of the list: sequences of ids
    Day,        \* 86400 s
    KstOffset,  \* kKstOffset
    Minute,     \* 60 s
    Width,      \* width of a row in pixels
    Near,       \* 12 pixels
    StartTime,  \* the clock when the dialog opens
    MaxNow      \* bound: the clock stops here

Week == 7 * Day

Ids == UNION {{ids[i] : i \in 1 .. Len(ids)} : ids \in Rankings}

ASSUME ChartAssumption ==
    /\ \A h \in Histories : h \in Seq(Nat) /\ \A i, j \in 1 .. Len(h) : i < j => h[i] < h[j]
    /\ \A ids \in Rankings : ids \in Seq(Ids)
    /\ Day \in Nat \ {0} /\ KstOffset \in Nat /\ Near \in Nat
    /\ Minute \in Nat \ {0} /\ Width \in Nat \ {0} /\ Width =< Day
    /\ StartTime \in Nat /\ StartTime > 3 * Week /\ MaxNow \in Nat

VARIABLES
    now,
    mode,         \* "single" or "multi"
    week0,        \* week0_; 0 before the first query
    week_asks,    \* times of the requests for two weeks, which may be answered late
    replied,      \* samples_ is not null
    samples,      \* samples_->points
    multi_from,   \* multi_from_; 0 before the first request
    day_asks,     \* the values multi_from_ has had
    multi_ids,    \* multi_ids_
    multi,        \* multi_: from ids to the points of the last reply
    row_rect,     \* row_rect_ has been set by a paint
    multi_rows,   \* multi_rows_: how many rows the last paint had
    hover_idx,    \* hover_idx_ + 1, hence 0 for none
    hover_row,    \* hover_row_
    hover_multi,  \* hover_multi_ + 1
    mouse         \* history: row and pixel the mouse is at; empty if it left

week_vars  == <<week0, week_asks>>
reply_vars == <<replied, samples>>
day_vars   == <<multi_from, day_asks, multi_ids>>
paint_vars == <<row_rect, multi_rows>>
hover_vars == <<hover_idx, hover_row, hover_multi, mouse>>
vars == <<now, mode, week_vars, reply_vars, day_vars, multi, paint_vars, hover_vars>>

Init ==
    /\ now = StartTime
    /\ mode = "single"
    /\ week0 = 0 /\ week_asks = {}
    /\ replied = FALSE /\ samples = <<>>
    /\ multi_from = 0 /\ day_asks = {} /\ multi_ids = <<>> /\ multi = <<>>
    /\ row_rect = FALSE /\ multi_rows = 0
    /\ hover_idx = 0 /\ hover_row = 0 /\ hover_multi = 0
    /\ mouse = <<>>

-----------------------------------------------------------------------------
(* Time and pixels *)

\* Mistake: 1970-01-01 is taken for a Sunday.
WeekStartOfEpoch(t) ==
    LET days == (t + KstOffset) \div Day
    IN  ((days - (days % 7)) * Day) - KstOffset

\* week_start_kst: 1970-01-01 was a Thursday, day 4 of a week.
WeekStart(t) ==
    LET days == (t + KstOffset) \div Day
    IN  ((days - ((days + 4) % 7)) * Day) - KstOffset

\* The time under pixel x of a row that shows span seconds from t0.
TimeAt(t0, span, x) == t0 + ((x * span) \div Width)

\* std::lower_bound: the first point not before t, or the end.
LowerBound(points, t) ==
    CHOOSE i \in 1 .. Len(points) + 1 :
        /\ \A j \in 1 .. i - 1 : points[j] < t
        /\ i =< Len(points) => points[i] >= t

Distance(a, b) == IF a < b THEN b - a ELSE a - b

\* Of the lower bound and the point before it, those in [from, to): the one
\* that is nearer to t, the lower bound if both are as near; 0 if none.
Nearest(points, from, to, t) ==
    LET lb == LowerBound(points, t)
        in(i) == i \in 1 .. Len(points) /\ from =< points[i] /\ points[i] < to
    IN  CASE in(lb) /\ in(lb - 1) ->
                 IF Distance(points[lb - 1], t) < Distance(points[lb], t) THEN lb - 1 ELSE lb
          [] in(lb) /\ ~in(lb - 1) -> lb
          [] ~in(lb) /\ in(lb - 1) -> lb - 1
          [] OTHER -> 0

\* A sample is marked if the mouse is within Near pixels of it.
Marked(points, from, to, t, span) ==
    LET i == Nearest(points, from, to, t)
    IN  IF i # 0 /\ Distance(points[i], t) =< Near * (span \div Width) THEN i ELSE 0

-----------------------------------------------------------------------------
(* The mouse *)

\* update_hover at pixel x of row r of the two weeks, or below them (r = 2).
HoverSingle(r, x) ==
    LET t0 == week0 + r * Week
        i == IF samples # <<>> /\ row_rect /\ r < 2
             THEN Marked(samples, t0, t0 + Week, TimeAt(t0, Week, x), Week)
             ELSE 0
    IN  /\ hover_idx' = i
        /\ hover_row' = IF i # 0 THEN r ELSE 0
        /\ UNCHANGED hover_multi

\* update_hover at pixel x of row r of the last paint, or below its rows; a row
\* that is listed no more has no samples.
HoverMulti(r, x) ==
    LET painted == r =< multi_rows
        points == IF painted /\ r =< Len(multi_ids) /\ multi_ids[r] \in DOMAIN multi
                  THEN multi[multi_ids[r]] ELSE <<>>
    IN  /\ hover_idx' = Marked(points, 0, now + 1, TimeAt(multi_from, Day, x), Day)
        /\ hover_multi' = IF painted THEN r ELSE 0
        /\ UNCHANGED hover_row

MouseMove(r, x) ==
    /\ mouse' = <<r, x>>
    /\ IF mode = "multi" THEN HoverMulti(r, x) ELSE HoverSingle(r - 1, x)
    /\ UNCHANGED <<now, mode, week_vars, reply_vars, day_vars, multi, paint_vars>>

MouseLeave ==
    /\ mouse # <<>>
    /\ mouse' = <<>>
    /\ hover_idx' = 0
    /\ UNCHANGED <<now, mode, week_vars, reply_vars, day_vars, multi, paint_vars,
                   hover_row, hover_multi>>

-----------------------------------------------------------------------------
(* Requests and replies *)

\* SELECT ... WHERE ts BETWEEN ? AND ? ORDER BY ts: a stretch of the history.
Within(h, from, to) == SubSeq(h, LowerBound(h, from), LowerBound(h, to + 1) - 1)

\* A request for two weeks: the scale of the rows moves at once, the samples
\* follow with the reply.
AskWeeks ==
    /\ week0' = WeekStart(now) - Week
    /\ week_asks' = week_asks \cup {now}

\* request_multi while connected.
AskDays(ids) ==
    /\ multi_from' = ((now - Day) \div Minute) * Minute
    /\ day_asks' = day_asks \cup {multi_from'}
    /\ multi_ids' = ids
    /\ multi' = [id \in DOMAIN multi \cap {ids[i] : i \in 1 .. Len(ids)} |-> multi[id]]

\* OnBnClickedQuery, or OnTimer for what is shown, with the connection up.
Query ==
    /\ \/ mode = "single" /\ AskWeeks /\ UNCHANGED <<day_vars, multi>>
       \/ mode = "multi" /\ (\E ids \in Rankings : AskDays(ids)) /\ UNCHANGED week_vars
    /\ UNCHANGED <<now, mode, reply_vars, paint_vars, hover_vars>>

\* OnCbnSelchangeMode: the first change to the channels requests them, a change
\* back queries the selected channel again; neither without a connection, nor
\* the second without a selection.
OnCbnSelchangeMode ==
    /\ hover_idx' = 0
    /\ hover_multi' = 0
    /\ \/ /\ mode = "single" /\ mode' = "multi"
          /\ \/ multi_ids = <<>> /\ \E ids \in Rankings : AskDays(ids)
             \/ UNCHANGED <<day_vars, multi>>
          /\ UNCHANGED week_vars
       \/ /\ mode = "multi" /\ mode' = "single"
          /\ \/ replied /\ AskWeeks
             \/ UNCHANGED week_vars
          /\ UNCHANGED <<day_vars, multi>>
    /\ UNCHANGED <<now, reply_vars, paint_vars, hover_row, mouse>>

\* Mistake: the index outlives the samples it points into.
KeepSamplesAndIndex(points) ==
    /\ replied' = TRUE
    /\ samples' = points
    /\ UNCHANGED hover_vars

\* The end of OnSmSamples: samples_ is replaced whatever chart is shown.
KeepSamples(points) ==
    /\ replied' = TRUE
    /\ samples' = points
    /\ hover_idx' = 0
    /\ UNCHANGED <<hover_row, hover_multi, mouse>>

\* OnSmSamples with the two weeks of the shown channel, asked for at any time.
WeeksReply(h, t) ==
    /\ t \in week_asks
    /\ KeepSamples(Within(h, WeekStart(t) - Week, t))
    /\ UNCHANGED <<now, mode, week_vars, day_vars, multi, paint_vars>>

\* OnSmSamples with the last day of a channel.  If it is listed its samples are
\* replaced and hover_idx_ stays as it is; otherwise it may be the channel
\* whose two weeks are shown, and the day replaces them.
DayReply(id, h, from) ==
    LET points == Within(h, from, from + Day)
    IN  /\ from \in day_asks
        /\ IF \E i \in 1 .. Len(multi_ids) : multi_ids[i] = id
           THEN /\ multi' = [i \in DOMAIN multi \cup {id} |-> IF i = id THEN points ELSE multi[i]]
                /\ UNCHANGED <<reply_vars, hover_vars>>
           ELSE week0 # 0 /\ KeepSamples(points) /\ UNCHANGED multi
        /\ UNCHANGED <<now, mode, week_vars, day_vars, paint_vars>>

\* Rows of another height: the same pixel is in any of them, or below them.
RowsMove ==
    IF mouse = <<>> THEN UNCHANGED mouse ELSE \E r \in 1 .. 3 : mouse' = <<r, mouse[2]>>

\* draw_chart: the rectangles of the rows it draws.
Paint ==
    /\ \/ /\ mode = "multi"
          /\ multi_rows' = Len(multi_ids)
          /\ IF multi_rows' = multi_rows THEN UNCHANGED mouse ELSE RowsMove
          /\ UNCHANGED row_rect
       \/ /\ mode = "single"
          /\ row_rect' = (row_rect \/ samples # <<>>)
          /\ UNCHANGED <<multi_rows, mouse>>
    /\ UNCHANGED <<now, mode, week_vars, reply_vars, day_vars, multi,
                   hover_idx, hover_row, hover_multi>>

Tick ==
    /\ now < MaxNow
    /\ now' = now + 1
    /\ UNCHANGED <<mode, week_vars, reply_vars, day_vars, multi, paint_vars, hover_vars>>

Next ==
    \/ \E r \in 1 .. 3, x \in 0 .. Width - 1 : MouseMove(r, x)
    \/ MouseLeave
    \/ Query \/ OnCbnSelchangeMode
    \/ \E h \in Histories, t \in week_asks : WeeksReply(h, t)
    \/ \E id \in Ids, h \in Histories, from \in day_asks : DayReply(id, h, from)
    \/ Paint \/ Tick

Spec == Init /\ [][Next]_vars

-----------------------------------------------------------------------------
(* Properties *)

\* The points among which a paint marks the one of hover_idx_, the start and
\* the length of the scale of their row, and the row.
Scope ==
    IF mode = "single"
    THEN [points |-> samples, t0 |-> week0 + (hover_row * Week), span |-> Week,
          row |-> hover_row + 1]
    ELSE [points |-> IF hover_multi \in 1 .. Len(multi_ids) /\ multi_ids[hover_multi] \in DOMAIN multi
                     THEN multi[multi_ids[hover_multi]] ELSE <<>>,
          t0 |-> multi_from, span |-> Day, row |-> hover_multi]

\* The tooltip is of the sample the mouse is at: no sample of its row is nearer
\* to the mouse, and it is at most Near pixels away.
TipAtMouse ==
    LET s == Scope
        inRow == {t \in {s.points[i] : i \in 1 .. Len(s.points)} :
                      mode = "single" => s.t0 =< t /\ t < s.t0 + s.span}
    IN  hover_idx \in 1 .. Len(s.points) =>
            /\ mouse # <<>> /\ mouse[1] = s.row
            /\ LET tip == s.points[hover_idx]
                   t == TimeAt(s.t0, s.span, mouse[2])
               IN  /\ tip \in inRow
                   /\ \A u \in inRow : Distance(tip, t) =< Distance(u, t)
                   /\ Distance(tip, t) * Width =< Near * s.span

\* Other rows, another scale, or other samples of the channels that are shown.
OtherRows ==
    IF mode = "single" THEN week0' # week0
    ELSE \/ multi_from' # multi_from \/ multi_ids' # multi_ids \/ multi' # multi
         \/ multi_rows' # multi_rows

\* A movement of the mouse finds the nearest sample, and nothing but OtherRows
\* under a resting mouse moves the tooltip away from it: not a reply for the
\* two weeks, shown or not, nor a change of the mode (update_hover, OnSmSamples,
\* OnCbnSelchangeMode).
TipTracksMouse ==
    [][(TipAtMouse \/ mouse' # mouse) /\ ~OtherRows => TipAtMouse']_vars

\* Types of all the variables.
TypeOK ==
    /\ now \in Nat /\ mode \in {"single", "multi"}
    /\ week0 \in Int /\ week_asks \subseteq Nat
    /\ replied \in BOOLEAN /\ samples \in Seq(Nat) /\ (samples # <<>> => replied)
    /\ multi_from \in Int /\ day_asks \subseteq Int
    /\ \A i \in 1 .. Len(multi_ids) : multi_ids[i] \in Ids
    /\ DOMAIN multi \subseteq Ids
    /\ row_rect \in BOOLEAN /\ multi_rows \in Nat
    /\ hover_idx \in Nat /\ hover_row \in {0, 1} /\ hover_multi \in Nat
    /\ mouse = <<>> \/ mouse \in (1 .. 3) \X (0 .. Width - 1)

\* The rows are two calendar weeks, from Sunday 00:00 to Saturday 24:00 KST
\* (MainDlg.cpp, draw_week), and the lower one is the week of the last query.
\* (With the types.)
RowsAreWeeks ==
    /\ TypeOK
    /\ week0 # 0 =>
        /\ (week0 + KstOffset) % Day = 0
        /\ (((week0 + KstOffset) \div Day) + 4) % 7 = 0
        /\ \E t \in week_asks : week0 + Week =< t /\ t < week0 + (2 * Week)
        /\ \A t \in week_asks : t < week0 + (2 * Week)
=============================================================================
