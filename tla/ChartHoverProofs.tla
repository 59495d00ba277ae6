--------------------------- MODULE ChartHoverProofs ---------------------------
(***************************************************************************)
(* Proofs about ChartHover, for days of any length, any offset of the time *)
(* zone and any times of the queries.                                      *)
(***************************************************************************)
EXTENDS ChartHover, CommonProofs

-----------------------------------------------------------------------------
(* The calendar *)

\* The quotient and the remainder of a multiple.
LEMMA Multiple ==
    ASSUME NEW b \in Nat \ {0}, NEW m \in Int
    PROVE  (m * b) \div b = m /\ (m * b) % b = 0
  OBVIOUS

\* The quotient and the remainder of any number.
LEMMA Division ==
    ASSUME NEW b \in Nat \ {0}, NEW a \in Int
    PROVE  /\ a \div b \in Int
           /\ (a \div b) * b =< a /\ a < (a \div b) * b + b
  OBVIOUS

\* A smaller factor makes a smaller multiple.
LEMMA Monotone ==
    ASSUME NEW b \in Nat \ {0}, NEW m \in Int, NEW n \in Int, m =< n
    PROVE  m * b =< n * b
  OBVIOUS

\* The week of t starts at a multiple of a day, on day 0 of a week, and holds t.
LEMMA WeekOf ==
    ASSUME NEW t \in Nat
    PROVE  \E m \in Int : /\ WeekStart(t) = m * Day - KstOffset
                          /\ (m + 4) % 7 = 0
                          /\ m * Day =< t + KstOffset
                          /\ t + KstOffset < m * Day + 7 * Day
<1> DEFINE d == (t + KstOffset) \div Day
           m == d - ((d + 4) % 7)
<1>0. Day \in Nat \ {0} /\ KstOffset \in Nat
  BY ChartAssumption
<1>1. d \in Int /\ d * Day =< t + KstOffset /\ t + KstOffset < d * Day + Day
  BY <1>0, Division
<1> HIDE DEF d
<1>2. m \in Int /\ (m + 4) % 7 = 0 /\ m =< d /\ d =< m + 6
  BY <1>1
<1>3. WeekStart(t) = m * Day - KstOffset
  BY DEF WeekStart, d
<1> HIDE DEF m
<1>4. m * Day =< d * Day /\ d * Day =< (m + 6) * Day
  BY <1>0, <1>1, <1>2, Monotone
<1>5. (m + 6) * Day = m * Day + 6 * Day
  BY <1>0, <1>2
<1>6. m * Day \in Int /\ d * Day \in Int
  BY <1>0, <1>1, <1>2
<1>7. t + KstOffset < m * Day + 7 * Day
  BY <1>0, <1>1, <1>4, <1>5, <1>6
<1> QED
  BY <1>0, <1>1, <1>2, <1>3, <1>4, <1>6, <1>7

\* The rows that a query at t sets: two whole weeks, the second of which holds t.
LEMMA TwoWeeksOf ==
    ASSUME NEW t \in Nat
    PROVE  LET w == WeekStart(t) - Week
           IN  /\ w \in Int
               /\ (w + KstOffset) % Day = 0
               /\ (((w + KstOffset) \div Day) + 4) % 7 = 0
               /\ w + Week =< t /\ t < w + (2 * Week)
<1>0. Day \in Nat \ {0} /\ KstOffset \in Nat /\ Week = 7 * Day /\ Week \in Nat
  BY ChartAssumption DEF Week
<1>1. PICK m \in Int : /\ WeekStart(t) = m * Day - KstOffset
                       /\ (m + 4) % 7 = 0
                       /\ m * Day =< t + KstOffset
                       /\ t + KstOffset < m * Day + 7 * Day
  BY WeekOf
<1> DEFINE w == WeekStart(t) - Week
<1>2. (m - 7) * Day = m * Day - 7 * Day /\ m * Day \in Int
  BY <1>0
<1>3. w \in Int /\ w + KstOffset = (m - 7) * Day
  BY <1>0, <1>1, <1>2
<1>4. (w + KstOffset) % Day = 0 /\ (w + KstOffset) \div Day = m - 7
  <2>1. m - 7 \in Int
    OBVIOUS
  <2>2. ((m - 7) * Day) \div Day = m - 7 /\ ((m - 7) * Day) % Day = 0
    BY <1>0, <2>1, Multiple
  <2> QED
    BY <1>3, <2>2
<1>5. (m - 7 + 4) % 7 = 0
  BY <1>1
<1>6. w + Week =< t /\ t < w + (2 * Week)
  BY <1>0, <1>1, <1>2
<1> QED
  BY <1>3, <1>4, <1>5, <1>6

-----------------------------------------------------------------------------
(* The rows of the single chart *)

\* The rows are those of the last query, since the clock does not go back.
RowsInv ==
    /\ now \in Nat
    /\ \A t \in week_asks : t \in Nat /\ t =< now
    /\ week0 # 0 => \E t \in week_asks : /\ week0 = WeekStart(t) - Week
                                         /\ \A u \in week_asks : u =< t

\* A query keeps the invariant: it is the latest one.
LEMMA AskWeeksKeepsRows == RowsInv /\ AskWeeks /\ now' = now => RowsInv'
  BY DEF RowsInv, AskWeeks, WeekStart

\* Nor does a step that changes neither rows nor queries, the clock apart.
LEMMA OthersKeepRows ==
    RowsInv /\ UNCHANGED week_vars /\ (now' = now \/ now' = now + 1) => RowsInv'
  BY DEF RowsInv, week_vars, WeekStart

\* The invariant of the rows, for any length of a day and any time zone.
THEOREM RowsInvariant == Spec => []RowsInv
<1>1. Init => RowsInv
  BY ChartAssumption DEF Init, RowsInv
<1>2. RowsInv /\ [Next]_vars => RowsInv'
  <2> SUFFICES ASSUME RowsInv, [Next]_vars PROVE RowsInv'
    OBVIOUS
  <2>1. ASSUME NEW r \in 1 .. 3, NEW x \in 0 .. Width - 1, MouseMove(r, x) PROVE RowsInv'
    BY <2>1, OthersKeepRows DEF MouseMove
  <2>2. CASE MouseLeave
    BY <2>2, OthersKeepRows DEF MouseLeave
  <2>3. CASE Query
    BY <2>3, OthersKeepRows, AskWeeksKeepsRows DEF Query
  <2>4. CASE OnCbnSelchangeMode
    BY <2>4, OthersKeepRows, AskWeeksKeepsRows DEF OnCbnSelchangeMode
  <2>5. ASSUME NEW h \in Histories, NEW t \in week_asks, WeeksReply(h, t) PROVE RowsInv'
    BY <2>5, OthersKeepRows DEF WeeksReply
  <2>6. ASSUME NEW id \in Ids, NEW h \in Histories, NEW from \in day_asks, DayReply(id, h, from)
        PROVE  RowsInv'
    BY <2>6, OthersKeepRows DEF DayReply
  <2>7. CASE Paint
    BY <2>7, OthersKeepRows DEF Paint
  <2>8. CASE Tick
    BY <2>8, OthersKeepRows DEF Tick
  <2>9. CASE UNCHANGED vars
    BY <2>9, OthersKeepRows DEF vars
  <2> QED
    BY <2>1, <2>2, <2>3, <2>4, <2>5, <2>6, <2>7, <2>8, <2>9 DEF Next
<1> QED
  BY <1>1, <1>2, PTL DEF Spec

\* Two rows whose start is the week of a query are two whole calendar weeks.
LEMMA WholeWeeks ==
    ASSUME RowsInv, week0 # 0
    PROVE  /\ (week0 + KstOffset) % Day = 0
           /\ (((week0 + KstOffset) \div Day) + 4) % 7 = 0
           /\ \E t \in week_asks : week0 + Week =< t /\ t < week0 + (2 * Week)
           /\ \A t \in week_asks : t < week0 + (2 * Week)
<1>1. PICK t \in week_asks : week0 = WeekStart(t) - Week /\ \A u \in week_asks : u =< t
  BY DEF RowsInv
<1>2. \A u \in week_asks : u \in Nat
  BY DEF RowsInv
<1>3. /\ week0 \in Int
      /\ (week0 + KstOffset) % Day = 0
      /\ (((week0 + KstOffset) \div Day) + 4) % 7 = 0
      /\ week0 + Week =< t /\ t < week0 + (2 * Week)
  BY <1>1, <1>2, TwoWeeksOf
<1>4. Week \in Nat
  BY ChartAssumption DEF Week
<1>5. \A u \in week_asks : u < week0 + (2 * Week)
  BY <1>1, <1>2, <1>3, <1>4
<1> QED
  BY <1>3, <1>5

-----------------------------------------------------------------------------
(* The sample next to a time *)

\* Samples in the order of time.
Ordered(points) == points \in Seq(Nat) /\ \A i, j \in 1 .. Len(points) : i < j => points[i] < points[j]

\* A point before another is smaller.
LEMMA PointBefore ==
    ASSUME NEW points, Ordered(points), NEW i \in 1 .. Len(points), NEW j \in 1 .. Len(points), i < j
    PROVE  points[i] < points[j]
  BY DEF Ordered

LEMMA LowerBoundOf ==
    ASSUME NEW points, Ordered(points), NEW t \in Int
    PROVE  LET i == LowerBound(points, t)
           IN  /\ i \in 1 .. Len(points) + 1
               /\ \A j \in 1 .. i - 1 : points[j] < t
               /\ \A j \in i .. Len(points) : points[j] >= t
<1> DEFINE N == Len(points)
           T == {i \in 1 .. N + 1 : i =< N => points[i] >= t}
<1>1. N \in Nat /\ \A i \in 1 .. N : points[i] \in Nat
  BY LenProperties, ElementOfSeq DEF Ordered
<1>2. N + 1 \in T /\ T \subseteq Nat
  BY <1>1
<1>3. PICK x \in T : \A y \in T : x =< y
  <2> HIDE DEF T
  <2> QED
    BY <1>2, Least
<1>4. \A j \in 1 .. x - 1 : points[j] < t
  <2> SUFFICES ASSUME NEW j \in 1 .. x - 1 PROVE points[j] < t
    OBVIOUS
  <2>1. j \notin T /\ j \in 1 .. N + 1 /\ j \in 1 .. N
    BY <1>1, <1>3
  <2> QED
    BY <1>1, <2>1
<1> DEFINE i == LowerBound(points, t)
<1>5. /\ i \in 1 .. N + 1
      /\ \A j \in 1 .. i - 1 : points[j] < t
      /\ i =< N => points[i] >= t
  <2>1. x \in 1 .. N + 1 /\ (x =< N => points[x] >= t)
    BY <1>3
  <2> QED
    BY <1>4, <2>1 DEF LowerBound
<1> HIDE DEF i
<1>6. ASSUME NEW j \in i .. N PROVE points[j] >= t
  <2>1. /\ i \in 1 .. N /\ j \in 1 .. N /\ points[i] >= t
        /\ points[i] \in Nat /\ points[j] \in Nat
    BY <1>1, <1>5
  <2>2. i = j \/ points[i] < points[j]
    BY <2>1 DEF Ordered
  <2> QED
    BY <2>1, <2>2
<1> QED
  BY <1>5, <1>6 DEF i

\* A stretch of a history is in order and within its bounds.
LEMMA WithinOrdered ==
    ASSUME NEW h \in Histories, NEW from \in Int, NEW to \in Int
    PROVE  LET p == Within(h, from, to)
           IN  Ordered(p) /\ \A i \in 1 .. Len(p) : from =< p[i] /\ p[i] =< to
<1> DEFINE lo == LowerBound(h, from)
           hi == LowerBound(h, to + 1)
           p == Within(h, from, to)
<1>1. Ordered(h)
  BY ChartAssumption DEF Ordered
<1>2. /\ Len(h) \in Nat /\ \A i \in 1 .. Len(h) : h[i] \in Nat
      /\ \A i, j \in 1 .. Len(h) : i < j => h[i] < h[j]
  BY <1>1, LenProperties, ElementOfSeq DEF Ordered
<1>3. /\ lo \in 1 .. Len(h) + 1
      /\ \A j \in lo .. Len(h) : h[j] >= from
  BY <1>1, LowerBoundOf
<1>4. /\ hi \in 1 .. Len(h) + 1
      /\ \A j \in 1 .. hi - 1 : h[j] < to + 1
  <2>1. to + 1 \in Int
    OBVIOUS
  <2> QED
    BY <1>1, <2>1, LowerBoundOf
<1>5. p = SubSeq(h, lo, hi - 1)
  BY DEF Within
<1> HIDE DEF lo, hi, p
<1>6. \A i \in lo .. hi - 1 : i \in 1 .. Len(h) /\ h[i] \in Nat /\ from =< h[i] /\ h[i] =< to
  BY <1>2, <1>3, <1>4
<1>7. /\ p \in Seq(Nat)
      /\ Len(p) = IF lo =< hi - 1 THEN (hi - 1) - lo + 1 ELSE 0
      /\ \A i \in 1 .. (hi - 1) - lo + 1 : p[i] = h[lo + i - 1]
  <2>1. lo \in Int /\ hi - 1 \in Int /\ \A i \in lo .. hi - 1 : h[i] \in Nat
    BY <1>2, <1>3, <1>4, <1>6
  <2> QED
    BY <1>5, <2>1, SubSeqProperties
<1>8. \A i \in 1 .. Len(p) : /\ lo + i - 1 \in lo .. hi - 1
                             /\ p[i] = h[lo + i - 1]
  BY <1>2, <1>3, <1>4, <1>7
<1>9. \A i \in 1 .. Len(p) : from =< p[i] /\ p[i] =< to
  BY <1>6, <1>8
<1>10. ASSUME NEW i \in 1 .. Len(p), NEW j \in 1 .. Len(p), i < j PROVE p[i] < p[j]
  <2>1. /\ lo + i - 1 \in 1 .. Len(h) /\ lo + j - 1 \in 1 .. Len(h)
        /\ p[i] = h[lo + i - 1] /\ p[j] = h[lo + j - 1]
    BY <1>6, <1>8
  <2>2. lo + i - 1 < lo + j - 1
    BY <1>3, <1>10, <1>7
  <2> QED
    BY <1>2, <2>1, <2>2
<1> QED
  BY <1>7, <1>9, <1>10 DEF Ordered, p

\* A distance is an integer.
LEMMA DistanceType ==
    ASSUME NEW a \in Int, NEW b \in Int
    PROVE  Distance(a, b) \in Int
  BY DEF Distance

\* Nearest returns what its name says, among the samples in [from, to).
LEMMA NearestOf ==
    ASSUME NEW points, Ordered(points), NEW from \in Int, NEW to \in Int, NEW t \in Int
    PROVE  LET i == Nearest(points, from, to, t)
           IN  /\ i \in 0 .. Len(points)
               /\ i # 0 =>
                    /\ from =< points[i] /\ points[i] < to
                    /\ \A j \in 1 .. Len(points) :
                           from =< points[j] /\ points[j] < to =>
                               Distance(points[i], t) =< Distance(points[j], t)
<1> DEFINE N == Len(points)
           lb == LowerBound(points, t)
           in(i) == i \in 1 .. N /\ from =< points[i] /\ points[i] < to
           i == Nearest(points, from, to, t)
<1>1. N \in Nat /\ \A j \in 1 .. N : points[j] \in Nat
  BY LenProperties, ElementOfSeq DEF Ordered
<1>2. /\ lb \in 1 .. N + 1
      /\ \A j \in 1 .. lb - 1 : points[j] < t
      /\ \A j \in lb .. N : points[j] >= t
  BY LowerBoundOf
<1>3. i = CASE in(lb) /\ in(lb - 1) ->
                   IF Distance(points[lb - 1], t) < Distance(points[lb], t) THEN lb - 1 ELSE lb
            [] in(lb) /\ ~in(lb - 1) -> lb
            [] ~in(lb) /\ in(lb - 1) -> lb - 1
            [] OTHER -> 0
  BY DEF Nearest
<1> HIDE DEF lb, i
<1>4. \/ i = 0
      \/ /\ i \in {lb, lb - 1} /\ in(i)
         /\ in(lb) => Distance(points[i], t) =< Distance(points[lb], t)
         /\ in(lb - 1) => Distance(points[i], t) =< Distance(points[lb - 1], t)
  <2>1. CASE in(lb) /\ in(lb - 1)
    <3>1. \/ i = lb - 1 /\ Distance(points[lb - 1], t) < Distance(points[lb], t)
          \/ i = lb /\ ~(Distance(points[lb - 1], t) < Distance(points[lb], t))
      BY <1>3, <2>1
    <3> DEFINE before == Distance(points[lb - 1], t)
               at == Distance(points[lb], t)
    <3>2. points[lb - 1] \in Int /\ points[lb] \in Int
      BY <1>1, <2>1
    <3>3. before \in Int /\ at \in Int
      BY <3>2, DistanceType
    <3>4. CASE i = lb - 1 /\ before < at
      <4> HIDE DEF before, at
      <4>1. before =< at /\ before =< before
        BY <3>3, <3>4
      <4>2. in(i) /\ Distance(points[i], t) = before
        BY <2>1, <3>4 DEF before
      <4> QED
        BY <3>4, <4>1, <4>2 DEF before, at
    <3>5. CASE i = lb /\ ~(before < at)
      <4> HIDE DEF before, at
      <4>1. at =< at /\ at =< before
        BY <3>3, <3>5
      <4>2. in(i) /\ Distance(points[i], t) = at
        BY <2>1, <3>5 DEF at
      <4> QED
        BY <3>5, <4>1, <4>2 DEF before, at
    <3> QED
      BY <3>1, <3>4, <3>5
  <2>2. CASE in(lb) /\ ~in(lb - 1)
    <3>1. i = lb
      BY <1>3, <2>2
    <3> QED
      BY <1>1, <1>2, <2>2, <3>1 DEF Distance
  <2>3. CASE ~in(lb) /\ in(lb - 1)
    <3>1. i = lb - 1
      BY <1>3, <2>3
    <3> QED
      BY <1>1, <1>2, <2>3, <3>1 DEF Distance
  <2>4. CASE ~in(lb) /\ ~in(lb - 1)
    BY <1>3, <2>4
  <2> QED
    BY <2>1, <2>2, <2>3, <2>4
<1>5. ASSUME i # 0, NEW j \in 1 .. N, in(j) PROVE Distance(points[i], t) =< Distance(points[j], t)
  <2>1. CASE j >= lb
    <3>1. lb \in 1 .. N /\ (lb = j \/ points[lb] < points[j]) /\ points[lb] \in Nat /\ points[j] \in Nat
      BY <1>1, <1>2, <2>1 DEF Ordered
    <3>2. t =< points[lb] /\ t =< points[j] /\ points[lb] =< points[j]
      BY <1>1, <1>2, <2>1, <3>1
    <3>3. Distance(points[lb], t) =< Distance(points[j], t)
      BY <3>1, <3>2 DEF Distance
    <3>4. in(lb)
      <4>1. CASE i = lb
        BY <1>4, <1>5, <4>1
      <4>2. CASE i = lb - 1
        <5>1. lb - 1 \in 1 .. N /\ from =< points[lb - 1] /\ points[lb - 1] \in Nat
          BY <1>1, <1>4, <1>5, <4>2
        <5>2. points[lb - 1] < points[lb]
          <6>1. lb - 1 \in 1 .. N /\ lb \in 1 .. N /\ lb - 1 < lb
            BY <3>1, <5>1
          <6> QED
            BY <6>1, PointBefore
        <5> QED
          BY <1>5, <3>1, <3>2, <5>1, <5>2
      <4> QED
        BY <1>4, <1>5, <4>1, <4>2
    <3>5. Distance(points[i], t) =< Distance(points[lb], t)
      BY <1>4, <1>5, <3>4
    <3>6. points[i] \in Nat
      BY <1>1, <1>4, <1>5
    <3> DEFINE near == Distance(points[i], t)
               bound == Distance(points[lb], t)
               far == Distance(points[j], t)
    <3>7. near \in Int /\ bound \in Int /\ far \in Int
      <4>1. points[i] \in Int /\ points[lb] \in Int /\ points[j] \in Int
        BY <3>1, <3>6
      <4> QED
        BY <4>1, DistanceType
    <3> HIDE DEF near, bound, far
    <3>8. near =< bound /\ bound =< far
      BY <3>3, <3>5 DEF near, bound, far
    <3>9. near =< far
      BY <3>7, <3>8
    <3> QED
      BY <3>9 DEF near, far
  <2>2. CASE j < lb
    <3>1. /\ lb - 1 \in 1 .. N /\ (lb - 1 = j \/ points[j] < points[lb - 1])
          /\ points[lb - 1] \in Nat /\ points[j] \in Nat
      BY <1>1, <1>2, <2>2 DEF Ordered
    <3>2. points[lb - 1] < t /\ points[j] < t /\ points[j] =< points[lb - 1]
      BY <1>1, <1>2, <2>2, <3>1
    <3>3. Distance(points[lb - 1], t) =< Distance(points[j], t)
      BY <3>1, <3>2 DEF Distance
    <3>4. in(lb - 1)
      <4>1. CASE i = lb - 1
        BY <1>4, <1>5, <4>1
      <4>2. CASE i = lb
        <5>1. lb \in 1 .. N /\ points[lb] < to /\ points[lb] \in Nat
          BY <1>1, <1>4, <1>5, <4>2
        <5>2. points[lb - 1] < points[lb]
          <6>1. lb - 1 \in 1 .. N /\ lb \in 1 .. N /\ lb - 1 < lb
            BY <3>1, <5>1
          <6> QED
            BY <6>1, PointBefore
        <5> QED
          BY <1>5, <3>1, <3>2, <5>1, <5>2
      <4> QED
        BY <1>4, <1>5, <4>1, <4>2
    <3>5. Distance(points[i], t) =< Distance(points[lb - 1], t)
      BY <1>4, <1>5, <3>4
    <3>6. points[i] \in Nat
      BY <1>1, <1>4, <1>5
    <3> DEFINE near == Distance(points[i], t)
               bound == Distance(points[lb - 1], t)
               far == Distance(points[j], t)
    <3>7. near \in Int /\ bound \in Int /\ far \in Int
      <4>1. points[i] \in Int /\ points[lb - 1] \in Int /\ points[j] \in Int
        BY <3>1, <3>6
      <4> QED
        BY <4>1, DistanceType
    <3> HIDE DEF near, bound, far
    <3>8. near =< bound /\ bound =< far
      BY <3>3, <3>5 DEF near, bound, far
    <3>9. near =< far
      BY <3>7, <3>8
    <3> QED
      BY <3>9 DEF near, far
  <2> QED
    BY <1>1, <1>2, <2>1, <2>2
<1>6. i \in 0 .. N
  BY <1>1, <1>4
<1>7. i # 0 => from =< points[i] /\ points[i] < to
  BY <1>4
<1> QED
  BY <1>5, <1>6, <1>7 DEF i

-----------------------------------------------------------------------------
(* The tooltip after a movement of the mouse *)

\* TipAtMouse, of any scope, index, place of the mouse and mode.
Tip(s, idx, m, md) ==
    LET inRow == {t \in {s.points[i] : i \in 1 .. Len(s.points)} :
                      md = "single" => s.t0 =< t /\ t < s.t0 + s.span}
    IN  idx \in 1 .. Len(s.points) =>
            /\ m # <<>> /\ m[1] = s.row
            /\ LET tip == s.points[idx]
                   t == TimeAt(s.t0, s.span, m[2])
               IN  /\ tip \in inRow
                   /\ \A u \in inRow : Distance(tip, t) =< Distance(u, t)
                   /\ Distance(tip, t) * Width =< Near * s.span

\* Near pixels of a row are Near times its span over its width.
LEMMA Pixels ==
    ASSUME NEW d \in Nat, NEW span \in Nat, d =< Near * (span \div Width)
    PROVE  d * Width =< Near * span
<1> DEFINE q == span \div Width
<1>1. Width \in Nat \ {0} /\ Near \in Nat
  BY ChartAssumption
<1>2. q \in Nat /\ q * Width =< span
  BY <1>1, SMT
<1> HIDE DEF q
<1>3. Near * q \in Nat /\ q * Width \in Nat /\ (Near * q) * Width = Near * (q * Width)
  BY <1>1, <1>2, SMT
<1>4. d * Width =< (Near * q) * Width
  BY <1>1, <1>3, Monotone DEF q
<1>5. Near * (q * Width) =< Near * span
  BY <1>1, <1>2, <1>3, SMT
<1>6. d * Width \in Nat /\ Near * span \in Nat /\ Near * (q * Width) \in Nat
  BY <1>1, <1>3, SMT
<1> QED
  BY <1>3, <1>4, <1>5, <1>6

LEMMA MarkedIndex ==
    ASSUME NEW points, Ordered(points), NEW from \in Int, NEW to \in Int,
           NEW t0 \in Int, NEW span \in Nat, NEW x \in Nat
    PROVE  Marked(points, from, to, TimeAt(t0, span, x), span) \in 0 .. Len(points)
<1>1. TimeAt(t0, span, x) \in Int
  <2>1. Width \in Nat \ {0} /\ x * span \in Int
    BY ChartAssumption
  <2>2. (x * span) \div Width \in Int
    BY <2>1, Division
  <2> QED
    BY <2>2 DEF TimeAt
<1>2. Nearest(points, from, to, TimeAt(t0, span, x)) \in 0 .. Len(points)
  BY <1>1, NearestOf
<1>3. Len(points) \in Nat
  BY LenProperties DEF Ordered
<1> QED
  BY <1>2, <1>3 DEF Marked

\* The sample that a movement marks is the one the tooltip should be of.
LEMMA MarkedTip ==
    ASSUME NEW points, Ordered(points), NEW t0 \in Int, NEW span \in Nat, NEW row, NEW x \in Nat,
           NEW md, NEW from \in Int, NEW to \in Int,
           md = "single" => from = t0 /\ to = t0 + span,
           md # "single" => \A i \in 1 .. Len(points) : from =< points[i] /\ points[i] < to
    PROVE  Tip([points |-> points, t0 |-> t0, span |-> span, row |-> row],
               Marked(points, from, to, TimeAt(t0, span, x), span), <<row, x>>, md)
<1> DEFINE t == TimeAt(t0, span, x)
           n == Nearest(points, from, to, t)
           idx == Marked(points, from, to, t, span)
           N == Len(points)
           inRow == {u \in {points[i] : i \in 1 .. N} :
                         md = "single" => t0 =< u /\ u < t0 + span}
<1>1. t \in Int
  <2>1. Width \in Nat \ {0} /\ x * span \in Int
    BY ChartAssumption
  <2>2. (x * span) \div Width \in Int
    BY <2>1, Division
  <2> QED
    BY <2>2 DEF TimeAt
<1>2. N \in Nat /\ \A i \in 1 .. N : points[i] \in Nat
  BY LenProperties, ElementOfSeq DEF Ordered
<1> HIDE DEF t
<1>3. /\ n \in 0 .. N
      /\ n # 0 =>
            /\ from =< points[n] /\ points[n] < to
            /\ \A j \in 1 .. N :
                   from =< points[j] /\ points[j] < to =>
                       Distance(points[n], t) =< Distance(points[j], t)
  BY <1>1, NearestOf
<1>4. \/ idx = 0
      \/ idx = n /\ n # 0 /\ Distance(points[n], t) =< Near * (span \div Width)
  BY DEF Marked
<1> HIDE DEF n, idx
<1>5. ASSUME idx \in 1 .. N
      PROVE  /\ points[idx] \in inRow
             /\ \A u \in inRow : Distance(points[idx], t) =< Distance(u, t)
             /\ Distance(points[idx], t) * Width =< Near * span
  <2>1. /\ from =< points[idx] /\ points[idx] < to
        /\ \A j \in 1 .. N :
               from =< points[j] /\ points[j] < to =>
                   Distance(points[idx], t) =< Distance(points[j], t)
        /\ Distance(points[idx], t) =< Near * (span \div Width)
    BY <1>3, <1>4, <1>5
  <2>2. points[idx] \in inRow
    BY <1>5, <2>1
  <2>3. ASSUME NEW u \in inRow PROVE Distance(points[idx], t) =< Distance(u, t)
    <3>1. PICK j \in 1 .. N : u = points[j]
      OBVIOUS
    <3>2. from =< points[j] /\ points[j] < to
      BY <3>1
    <3> QED
      BY <2>1, <3>1, <3>2
  <2>4. Distance(points[idx], t) \in Nat
    BY <1>1, <1>2, <1>5 DEF Distance
  <2>5. Distance(points[idx], t) * Width =< Near * span
    BY <2>1, <2>4, Pixels
  <2> QED
    BY <2>2, <2>3, <2>5
<1> DEFINE s == [points |-> points, t0 |-> t0, span |-> span, row |-> row]
           m == <<row, x>>
<1>6. s.points = points /\ s.t0 = t0 /\ s.span = span /\ s.row = row
  OBVIOUS
<1>7. m # <<>> /\ m[1] = row /\ m[2] = x
  OBVIOUS
<1> HIDE DEF s, m
<1>8. Tip(s, idx, m, md)
  BY <1>5, <1>6, <1>7 DEF Tip, t
<1> QED
  BY <1>8 DEF s, m, idx, t

-----------------------------------------------------------------------------
(* The invariant *)

\* The last day of a channel, as it was known when it was asked for.
Past(points) == Ordered(points) /\ \A i \in 1 .. Len(points) : points[i] =< now

\* What the two charts show are histories in order; a day that was asked for is
\* over.
SamplesInv ==
    /\ TypeOK
    /\ Ordered(samples)
    /\ multi_ids \in Seq(Ids)
    /\ \A id \in DOMAIN multi : Past(multi[id])
    /\ \A from \in day_asks : from + Day =< now

LEMMA Constants ==
    /\ Day \in Nat \ {0} /\ KstOffset \in Nat /\ Minute \in Nat \ {0} /\ Width \in Nat \ {0}
    /\ Week \in Nat /\ StartTime \in Nat
    /\ \A ids \in Rankings : ids \in Seq(Ids)
  BY ChartAssumption DEF Week

\* The index and the row that a movement sets, and that the tooltip is right.
LEMMA MoveMarks ==
    ASSUME SamplesInv, NEW r \in 1 .. 3, NEW x \in 0 .. Width - 1, MouseMove(r, x)
    PROVE  hover_idx' \in Nat /\ hover_row' \in {0, 1} /\ hover_multi' \in Nat /\ TipAtMouse'
<1>1. /\ now \in Nat /\ week0 \in Int /\ multi_from \in Int /\ x \in Nat /\ Week \in Nat
      /\ Day \in Nat /\ hover_row \in {0, 1} /\ hover_multi \in Nat
      /\ mode \in {"single", "multi"}
  BY Constants DEF SamplesInv, TypeOK
<1>2. /\ mouse' = <<r, x>> /\ mode' = mode /\ UNCHANGED <<now, week0, samples>>
      /\ UNCHANGED <<multi_from, multi_ids, multi>>
  BY DEF MouseMove, week_vars, reply_vars, day_vars
<1>3. TipAtMouse' <=> Tip(Scope', hover_idx', mouse', mode')
  BY DEF TipAtMouse, Tip
<1>4. CASE mode = "single"
  <2> DEFINE t0 == week0 + (r - 1) * Week
             t == TimeAt(t0, Week, x)
             i == Marked(samples, t0, t0 + Week, t, Week)
  <2>1. t0 \in Int /\ t0 + Week \in Int
    BY <1>1
  <2> HIDE DEF t0
  <2>2. /\ hover_idx' = IF samples # <<>> /\ row_rect /\ r - 1 < 2 THEN i ELSE 0
        /\ hover_row' = IF hover_idx' # 0 THEN r - 1 ELSE 0
        /\ hover_multi' = hover_multi
    BY <1>4 DEF MouseMove, HoverSingle, t0
  <2> DEFINE s == [points |-> samples, t0 |-> t0, span |-> Week, row |-> r]
  <2>3. Tip(s, i, <<r, x>>, mode)
    BY <1>1, <1>4, <2>1, MarkedTip DEF SamplesInv
  <2>4. i \in 0 .. Len(samples)
    BY <1>1, <2>1, MarkedIndex DEF SamplesInv
  <2>5. CASE hover_idx' = 0
    BY <1>1, <1>3, <2>2, <2>5 DEF Tip
  <2>6. CASE hover_idx' # 0
    <3>1. hover_idx' = i /\ hover_row' = r - 1 /\ r - 1 \in {0, 1}
      BY <2>2, <2>6
    <3>2. Scope' = s
      BY <1>1, <1>2, <1>4, <3>1 DEF Scope, t0
    <3>3. Len(samples) \in Nat
      BY LenProperties DEF SamplesInv, Ordered
    <3> HIDE DEF s, i
    <3>4. TipAtMouse'
      BY <1>2, <1>3, <2>3, <3>1, <3>2
    <3> QED
      BY <1>1, <2>2, <2>4, <3>1, <3>3, <3>4
  <2> QED
    BY <2>5, <2>6
<1>5. CASE mode # "single"
  <2> DEFINE painted == r =< multi_rows
             points == IF painted /\ r =< Len(multi_ids) /\ multi_ids[r] \in DOMAIN multi
                       THEN multi[multi_ids[r]] ELSE <<>>
             t == TimeAt(multi_from, Day, x)
             i == Marked(points, 0, now + 1, t, Day)
  <2>1. /\ hover_idx' = i /\ hover_row' = hover_row
        /\ hover_multi' = IF painted THEN r ELSE 0
    BY <1>1, <1>5 DEF MouseMove, HoverMulti
  <2>2. Past(points)
    <3>1. Past(<<>>)
      BY EmptySeq DEF Past, Ordered
    <3>2. \A id \in DOMAIN multi : Past(multi[id])
      BY DEF SamplesInv
    <3> QED
      BY <3>1, <3>2
  <2> HIDE DEF points
  <2>3. Ordered(points) /\ \A j \in 1 .. Len(points) : 0 =< points[j] /\ points[j] < now + 1
    BY <1>1, <2>2, ElementOfSeq DEF Past, Ordered
  <2> DEFINE s == [points |-> points, t0 |-> multi_from, span |-> Day, row |-> r]
  <2>4. Tip(s, i, <<r, x>>, mode)
    BY <1>1, <1>5, <2>3, MarkedTip
  <2>5. i \in 0 .. Len(points) /\ Len(points) \in Nat
    <3>1. Len(points) \in Nat
      BY <2>3, LenProperties DEF Ordered
    <3>2. now + 1 \in Int /\ 0 \in Int
      BY <1>1
    <3> QED
      BY <1>1, <2>3, <3>1, <3>2, MarkedIndex
  <2>6. CASE i = 0
    BY <1>1, <1>3, <2>1, <2>6 DEF Tip
  <2>7. CASE i # 0
    <3>1. points # <<>>
      BY <2>5, <2>7
    <3>2. painted /\ r =< Len(multi_ids) /\ multi_ids[r] \in DOMAIN multi
      BY <3>1 DEF points
    <3>3. hover_multi' = r /\ r \in 1 .. Len(multi_ids)
      BY <2>1, <3>2
    <3>4. Scope' = s
      BY <1>2, <1>5, <3>2, <3>3 DEF Scope, points
    <3> HIDE DEF s, i
    <3>5. TipAtMouse'
      BY <1>2, <1>3, <2>1, <2>4, <3>4
    <3> QED
      BY <1>1, <2>1, <2>5, <3>3, <3>5
  <2> QED
    BY <2>6, <2>7
<1> QED
  BY <1>4, <1>5

\* A new query for the last day of some channels.
LEMMA AskDaysKeeps ==
    ASSUME SamplesInv, NEW ids \in Rankings, AskDays(ids), now' = now
    PROVE  /\ multi_from' \in Int /\ day_asks' \subseteq Int /\ multi_ids' \in Seq(Ids)
           /\ DOMAIN multi' \subseteq Ids /\ (\A id \in DOMAIN multi : Past(multi[id]))'
           /\ \A from \in day_asks' : from + Day =< now
<1> DEFINE from == ((now - Day) \div Minute) * Minute
<1>1. now \in Nat /\ day_asks \subseteq Int
  BY DEF SamplesInv, TypeOK
<1>2. from \in Int /\ from =< now - Day
  <2>1. now - Day \in Int /\ Minute \in Nat \ {0}
    BY <1>1, Constants
  <2>2. (now - Day) \div Minute \in Int /\ ((now - Day) \div Minute) * Minute =< now - Day
    BY <2>1, Division
  <2> QED
    BY <2>1, <2>2
<1>3. multi_from' = from /\ day_asks' = day_asks \cup {multi_from'} /\ multi_ids' = ids
  BY DEF AskDays
<1> HIDE DEF from
<1>4. /\ DOMAIN multi' \subseteq DOMAIN multi
      /\ \A id \in DOMAIN multi' : multi'[id] = multi[id]
  BY DEF AskDays
<1>5. (\A id \in DOMAIN multi : Past(multi[id]))'
  BY <1>4 DEF SamplesInv, Past
<1>6. \A f \in day_asks' : f + Day =< now
  BY <1>1, <1>2, <1>3, Constants DEF SamplesInv
<1> QED
  BY <1>1, <1>2, <1>3, <1>4, <1>5, <1>6, Constants DEF SamplesInv, TypeOK

LEMMA WeekStartType == \A t \in Nat : WeekStart(t) \in Int
<1> SUFFICES ASSUME NEW t \in Nat PROVE WeekStart(t) \in Int
  OBVIOUS
<1>1. PICK m \in Int : WeekStart(t) = m * Day - KstOffset
  BY WeekOf
<1> QED
  BY <1>1, Constants

LEMMA AskWeeksKeeps ==
    SamplesInv /\ AskWeeks => week0' \in Int /\ week_asks' \subseteq Nat
<1> SUFFICES ASSUME SamplesInv, AskWeeks PROVE week0' \in Int /\ week_asks' \subseteq Nat
  OBVIOUS
<1>1. now \in Nat /\ week_asks \subseteq Nat /\ WeekStart(now) \in Int
  BY WeekStartType DEF SamplesInv, TypeOK
<1> QED
  BY <1>1, Constants DEF AskWeeks


LEMMA InitSamples == Init => SamplesInv
<1> SUFFICES ASSUME Init PROVE SamplesInv
  OBVIOUS
<1> DEFINE e == <<>>
<1>1. e \in Seq(Nat) /\ e \in Seq(Ids) /\ Len(e) = 0 /\ DOMAIN e = {}
  BY EmptySeq
<1>2. /\ now \in Nat /\ samples = e /\ multi_ids = e /\ multi = e /\ mouse = e
      /\ week_asks = {} /\ day_asks = {}
  BY Constants DEF Init
<1> HIDE DEF e
<1>3. TypeOK
  <2>1. /\ mode = "single" /\ week0 = 0 /\ replied = FALSE /\ multi_from = 0
        /\ row_rect = FALSE /\ multi_rows = 0
        /\ hover_idx = 0 /\ hover_row = 0 /\ hover_multi = 0
    BY DEF Init
  <2>2. 1 .. Len(e) = {}
    BY <1>1
  <2>3. samples = <<>> /\ mouse = <<>>
    BY <1>2 DEF e
  <2>4. samples \in Seq(Nat) /\ (samples # <<>> => replied)
    BY <1>1, <1>2, <2>3
  <2>5. \A i \in 1 .. Len(multi_ids) : multi_ids[i] \in Ids
    BY <1>2, <2>2
  <2>6. DOMAIN multi \subseteq Ids
    BY <1>1, <1>2
  <2>7. week_asks \subseteq Nat /\ day_asks \subseteq Int /\ now \in Nat
    BY <1>2
  <2>8. mouse = <<>> \/ mouse \in (1 .. 3) \X (0 .. Width - 1)
    BY <2>3
  <2>9. mode \in {"single", "multi"} /\ replied \in BOOLEAN /\ row_rect \in BOOLEAN
    BY <2>1
  <2>10. /\ week0 \in Int /\ multi_from \in Int /\ multi_rows \in Nat
         /\ hover_idx \in Nat /\ hover_row \in {0, 1} /\ hover_multi \in Nat
    BY <2>1
  <2> QED
    BY <2>4, <2>5, <2>6, <2>7, <2>8, <2>9, <2>10, Zenon DEF TypeOK
<1>4. Ordered(samples)
  BY <1>1, <1>2 DEF Ordered
<1> QED
  BY <1>1, <1>2, <1>3, <1>4 DEF SamplesInv

\* Index and rows keep their types.
Marks == hover_idx' \in Nat /\ hover_row' \in {0, 1} /\ hover_multi' \in Nat

LEMMA MoveKeeps ==
    ASSUME SamplesInv, NEW r \in 1 .. 3, NEW x \in 0 .. Width - 1, MouseMove(r, x)
    PROVE  SamplesInv' /\ TipAtMouse'
<1>1. Marks /\ TipAtMouse'
  BY MoveMarks DEF Marks
<1>2. /\ UNCHANGED <<now, mode, week0, week_asks, replied, samples, multi_from, day_asks>>
      /\ UNCHANGED <<multi_ids, multi, row_rect, multi_rows>>
      /\ mouse' = <<r, x>>
  BY DEF MouseMove, week_vars, reply_vars, day_vars, paint_vars
<1>3. mouse' \in (1 .. 3) \X (0 .. Width - 1)
  BY <1>2
<1>4. TypeOK'
  BY <1>1, <1>2, <1>3 DEF SamplesInv, TypeOK, Marks
<1> QED
  BY <1>1, <1>2, <1>4 DEF SamplesInv, Past

LEMMA LeaveKeeps == SamplesInv /\ MouseLeave => SamplesInv' /\ TipAtMouse'
<1> SUFFICES ASSUME SamplesInv, MouseLeave PROVE SamplesInv' /\ TipAtMouse'
  OBVIOUS
<1>1. /\ UNCHANGED <<now, mode, week0, week_asks, replied, samples, multi_from, day_asks>>
      /\ UNCHANGED <<multi_ids, multi, row_rect, multi_rows, hover_row, hover_multi>>
      /\ mouse' = <<>> /\ hover_idx' = 0
  BY DEF MouseLeave, week_vars, reply_vars, day_vars, paint_vars
<1>2. TypeOK'
  BY <1>1 DEF SamplesInv, TypeOK
<1>3. TipAtMouse'
  BY <1>1 DEF TipAtMouse
<1> QED
  BY <1>1, <1>2, <1>3 DEF SamplesInv, Past

\* The part of the invariant about the requests.
LEMMA AsksKeep ==
    ASSUME SamplesInv, now' = now,
           \/ AskWeeks
           \/ UNCHANGED week_vars,
           \/ \E ids \in Rankings : AskDays(ids)
           \/ UNCHANGED <<day_vars, multi>>,
           UNCHANGED <<reply_vars, paint_vars, mouse>>, mode' \in {"single", "multi"}, Marks
    PROVE  SamplesInv'
<1>1. week0' \in Int /\ week_asks' \subseteq Nat
  BY AskWeeksKeeps DEF SamplesInv, TypeOK, week_vars
<1>2. /\ multi_from' \in Int /\ day_asks' \subseteq Int /\ multi_ids' \in Seq(Ids)
      /\ DOMAIN multi' \subseteq Ids /\ (\A id \in DOMAIN multi : Past(multi[id]))'
      /\ \A from \in day_asks' : from + Day =< now
  <2>1. CASE \E ids \in Rankings : AskDays(ids)
    BY <2>1, AskDaysKeeps
  <2>2. CASE UNCHANGED <<day_vars, multi>>
    BY <2>2 DEF SamplesInv, TypeOK, Past, day_vars
  <2> QED
    BY <2>1, <2>2
<1>3. \A i \in 1 .. Len(multi_ids') : multi_ids'[i] \in Ids
  BY <1>2, ElementOfSeq
<1>4. UNCHANGED <<replied, samples, row_rect, multi_rows, mouse>>
  BY DEF reply_vars, paint_vars
<1>5. TypeOK'
  BY <1>1, <1>2, <1>3, <1>4 DEF SamplesInv, TypeOK, Marks
<1> QED
  BY <1>2, <1>4, <1>5 DEF SamplesInv

LEMMA QueryKeeps ==
    ASSUME SamplesInv, Query
    PROVE  SamplesInv' /\ (TipAtMouse /\ ~OtherRows => TipAtMouse')
<1>1. /\ UNCHANGED <<now, mode, samples, hover_idx, hover_row, hover_multi, mouse>>
      /\ UNCHANGED <<reply_vars, paint_vars>>
      /\ mode \in {"single", "multi"}
  BY DEF Query, SamplesInv, TypeOK, reply_vars, hover_vars
<1>2. /\ \/ AskWeeks
         \/ UNCHANGED week_vars
      /\ \/ \E ids \in Rankings : AskDays(ids)
         \/ UNCHANGED <<day_vars, multi>>
  BY DEF Query
<1>3. SamplesInv'
  <2>1. Marks
    BY <1>1 DEF SamplesInv, TypeOK, Marks
  <2> QED
    BY <1>1, <1>2, <2>1, AsksKeep
<1>4. ASSUME TipAtMouse, ~OtherRows PROVE TipAtMouse'
  <2>1. \/ mode = "single" /\ week0' = week0
        \/ mode = "multi" /\ UNCHANGED <<multi_from, multi_ids, multi>>
    BY <1>1, <1>4 DEF OtherRows
  <2>2. Scope' = Scope
    BY <1>1, <2>1 DEF Scope
  <2> QED
    BY <1>1, <1>4, <2>2 DEF TipAtMouse
<1> QED
  BY <1>3, <1>4

LEMMA ModeKeeps == SamplesInv /\ OnCbnSelchangeMode => SamplesInv' /\ TipAtMouse'
<1> SUFFICES ASSUME SamplesInv, OnCbnSelchangeMode PROVE SamplesInv' /\ TipAtMouse'
  OBVIOUS
<1>1. /\ now' = now /\ mode' \in {"single", "multi"} /\ UNCHANGED <<reply_vars, paint_vars, mouse>>
      /\ hover_idx' = 0 /\ hover_multi' = 0 /\ hover_row' = hover_row
  BY DEF OnCbnSelchangeMode
<1>2. /\ \/ AskWeeks
         \/ UNCHANGED week_vars
      /\ \/ \E ids \in Rankings : AskDays(ids)
         \/ UNCHANGED <<day_vars, multi>>
  BY DEF OnCbnSelchangeMode
<1>3. Marks
  BY <1>1 DEF SamplesInv, TypeOK, Marks
<1>4. SamplesInv'
  BY <1>1, <1>2, <1>3, AsksKeep
<1>5. TipAtMouse'
  BY <1>1 DEF TipAtMouse
<1> QED
  BY <1>4, <1>5

\* New samples of the two weeks come without an index.
LEMMA NewSamples ==
    ASSUME SamplesInv, NEW points, Ordered(points), KeepSamples(points),
           UNCHANGED <<now, mode, week_vars, day_vars, multi, paint_vars>>
    PROVE  SamplesInv' /\ TipAtMouse'
<1>1. /\ UNCHANGED <<now, mode, week0, week_asks, multi_from, day_asks, multi_ids, multi>>
      /\ UNCHANGED <<row_rect, multi_rows, hover_row, hover_multi, mouse>>
      /\ replied' = TRUE /\ samples' = points /\ hover_idx' = 0
  BY DEF KeepSamples, week_vars, day_vars, paint_vars
<1>2. points \in Seq(Nat)
  BY DEF Ordered
<1>3. TypeOK'
  BY <1>1, <1>2 DEF SamplesInv, TypeOK
<1>4. TipAtMouse'
  BY <1>1 DEF TipAtMouse
<1> QED
  BY <1>1, <1>3, <1>4 DEF SamplesInv, Past

LEMMA WeeksReplyKeeps ==
    ASSUME SamplesInv, NEW h \in Histories, NEW t \in week_asks, WeeksReply(h, t)
    PROVE  SamplesInv' /\ TipAtMouse'
<1>1. t \in Nat /\ WeekStart(t) - Week \in Int
  BY WeekStartType, Constants DEF SamplesInv, TypeOK
<1>2. Ordered(Within(h, WeekStart(t) - Week, t))
  BY <1>1, WithinOrdered
<1> QED
  BY <1>2, NewSamples DEF WeeksReply

LEMMA DayReplyKeeps ==
    ASSUME SamplesInv, NEW id \in Ids, NEW h \in Histories, NEW from \in day_asks,
           DayReply(id, h, from)
    PROVE  SamplesInv' /\ (TipAtMouse /\ ~OtherRows => TipAtMouse')
<1> DEFINE points == Within(h, from, from + Day)
<1>1. from \in Int /\ from + Day \in Int /\ from + Day =< now /\ now \in Nat
  <2>1. from \in Int /\ from + Day =< now /\ now \in Nat
    BY DEF SamplesInv, TypeOK
  <2>2. Day \in Nat
    BY Constants
  <2> QED
    BY <2>1, <2>2
<1>2. Ordered(points) /\ \A i \in 1 .. Len(points) : points[i] =< from + Day
  BY <1>1, WithinOrdered
<1>3. \A i \in 1 .. Len(points) : points[i] \in Nat
  BY <1>2, ElementOfSeq DEF Ordered
<1> HIDE DEF points
<1>4. \A i \in 1 .. Len(points) : points[i] =< now
  BY <1>1, <1>2, <1>3
<1>5. /\ UNCHANGED <<now, mode, week_vars, day_vars, paint_vars>>
      /\ \/ /\ multi' = [i \in DOMAIN multi \cup {id} |-> IF i = id THEN points ELSE multi[i]]
            /\ UNCHANGED <<reply_vars, hover_vars>>
         \/ KeepSamples(points) /\ UNCHANGED multi
  BY DEF DayReply, points
<1>6. CASE KeepSamples(points) /\ UNCHANGED multi
  BY <1>2, <1>5, <1>6, NewSamples
<1>7. CASE /\ multi' = [i \in DOMAIN multi \cup {id} |-> IF i = id THEN points ELSE multi[i]]
           /\ UNCHANGED <<reply_vars, hover_vars>>
  <2>1. /\ UNCHANGED <<now, mode, week0, week_asks, multi_from, day_asks, multi_ids>>
        /\ UNCHANGED <<row_rect, multi_rows, hover_row, hover_idx, hover_multi, mouse>>
        /\ UNCHANGED <<replied, samples>>
    BY <1>5, <1>7 DEF week_vars, day_vars, paint_vars, reply_vars, hover_vars
  <2>2. /\ DOMAIN multi' = DOMAIN multi \cup {id}
        /\ \A i \in DOMAIN multi' : multi'[i] = IF i = id THEN points ELSE multi[i]
    BY <1>7
  <2>3. TypeOK'
    BY <2>1, <2>2 DEF SamplesInv, TypeOK
  <2>4. (\A i \in DOMAIN multi : Past(multi[i]))'
    BY <1>2, <1>4, <2>1, <2>2 DEF SamplesInv, Past
  <2>5. SamplesInv'
    BY <2>1, <2>3, <2>4 DEF SamplesInv
  <2>6. ASSUME TipAtMouse, ~OtherRows PROVE TipAtMouse'
    <3>1. mode = "single" \/ multi' = multi
      BY <2>6 DEF OtherRows
    <3>2. Scope' = Scope
      BY <2>1, <3>1 DEF Scope
    <3> QED
      BY <2>1, <2>6, <3>2 DEF TipAtMouse
  <2> QED
    BY <2>5, <2>6
<1> QED
  BY <1>5, <1>6, <1>7

\* Paint, Tick and a stuttering step: nothing the tooltip depends on, unless rows
\* are moved.
LEMMA RestKeeps ==
    ASSUME SamplesInv, Paint \/ Tick \/ UNCHANGED vars
    PROVE  /\ SamplesInv'
           /\ mouse' # mouse => OtherRows
           /\ TipAtMouse /\ ~OtherRows => TipAtMouse'
<1>1. /\ UNCHANGED <<mode, week0, week_asks, replied, samples, multi_from, day_asks>>
      /\ UNCHANGED <<multi_ids, multi, hover_row, hover_idx, hover_multi>>
      /\ now' = now \/ now' = now + 1
  BY DEF Paint, Tick, vars, week_vars, day_vars, reply_vars, hover_vars
<1>9. /\ mouse' = mouse \/ (mode = "multi" /\ multi_rows' # multi_rows)
      /\ mouse' = mouse \/ mouse' = <<>> \/ mouse' \in (1 .. 3) \X (0 .. Width - 1)
  <2>1. mouse = <<>> \/ mouse \in (1 .. 3) \X (0 .. Width - 1)
    BY DEF SamplesInv, TypeOK
  <2>2. CASE Tick \/ UNCHANGED vars
    BY <2>2 DEF Tick, vars, hover_vars
  <2>3. CASE Paint
    BY <2>1, <2>3 DEF Paint, RowsMove
  <2> QED
    BY <2>2, <2>3
<1>10. mouse' # mouse => OtherRows
  BY <1>9 DEF OtherRows
<1>2. now \in Nat /\ now' \in Nat /\ now =< now'
  BY <1>1 DEF SamplesInv, TypeOK
<1>3. row_rect' \in BOOLEAN /\ multi_rows' \in Nat
  <2>1. Len(multi_ids) \in Nat
    BY LenProperties DEF SamplesInv
  <2>2. row_rect \in BOOLEAN /\ multi_rows \in Nat
    BY DEF SamplesInv, TypeOK
  <2>3. multi_rows' = multi_rows \/ multi_rows' = Len(multi_ids)
    BY DEF Paint, Tick, vars, paint_vars
  <2>4. row_rect' = row_rect \/ row_rect' = (row_rect \/ samples # <<>>)
    BY DEF Paint, Tick, vars, paint_vars
  <2>5. row_rect' \in BOOLEAN
    BY <2>2, <2>4, Zenon
  <2> QED
    BY <2>1, <2>2, <2>3, <2>5
<1>4. TypeOK'
  BY <1>1, <1>2, <1>3, <1>9 DEF SamplesInv, TypeOK
<1>5. (\A id \in DOMAIN multi : Past(multi[id]))'
  <2> SUFFICES ASSUME NEW id \in DOMAIN multi PROVE Past(multi[id])'
    BY <1>1
  <2>1. Ordered(multi[id]) /\ \A i \in 1 .. Len(multi[id]) : multi[id][i] =< now
    BY DEF SamplesInv, Past
  <2>2. \A i \in 1 .. Len(multi[id]) : multi[id][i] \in Nat
    BY <2>1, ElementOfSeq DEF Ordered
  <2>3. \A i \in 1 .. Len(multi[id]) : multi[id][i] =< now'
    BY <1>2, <2>1, <2>2
  <2> QED
    BY <1>1, <2>1, <2>3 DEF Past
<1>6. \A from \in day_asks' : from + Day =< now'
  BY <1>1, <1>2, Constants DEF SamplesInv, TypeOK
<1>7. SamplesInv'
  BY <1>1, <1>4, <1>5, <1>6 DEF SamplesInv
<1>8. TipAtMouse /\ ~OtherRows => TipAtMouse'
  BY <1>1, <1>10 DEF TipAtMouse, Scope
<1> QED
  BY <1>7, <1>8, <1>10

LEMMA NextSamples ==
    ASSUME SamplesInv, [Next]_vars
    PROVE  SamplesInv' /\ ((TipAtMouse \/ mouse' # mouse) /\ ~OtherRows => TipAtMouse')
<1>1. ASSUME NEW r \in 1 .. 3, NEW x \in 0 .. Width - 1, MouseMove(r, x)
      PROVE  SamplesInv' /\ TipAtMouse'
  BY <1>1, MoveKeeps
<1>2. CASE MouseLeave
  BY <1>2, LeaveKeeps
<1>3. CASE Query
  <2>1. mouse' = mouse
    BY <1>3 DEF Query, hover_vars
  <2> QED
    BY <1>3, <2>1, QueryKeeps
<1>4. CASE OnCbnSelchangeMode
  BY <1>4, ModeKeeps
<1>5. ASSUME NEW h \in Histories, NEW t \in week_asks, WeeksReply(h, t)
      PROVE  SamplesInv' /\ TipAtMouse'
  BY <1>5, WeeksReplyKeeps
<1>6. ASSUME NEW id \in Ids, NEW h \in Histories, NEW from \in day_asks, DayReply(id, h, from)
      PROVE  SamplesInv' /\ ((TipAtMouse \/ mouse' # mouse) /\ ~OtherRows => TipAtMouse')
  <2>1. mouse' = mouse
    BY <1>6 DEF DayReply, hover_vars, KeepSamples
  <2> QED
    BY <1>6, <2>1, DayReplyKeeps
<1>7. CASE Paint \/ Tick \/ UNCHANGED vars
  BY <1>7, RestKeeps
<1> QED
  BY <1>1, <1>2, <1>3, <1>4, <1>5, <1>6, <1>7 DEF Next

-----------------------------------------------------------------------------
(* The theorems *)

\* The charts show histories in order, and every variable has its type.
THEOREM SamplesInvariant == Spec => []SamplesInv
<1>1. SamplesInv /\ [Next]_vars => SamplesInv'
  BY NextSamples
<1> QED
  BY InitSamples, <1>1, PTL DEF Spec

\* The types of the variables, the marked sample among them.
THEOREM TypeCorrect == Spec => []TypeOK
<1>1. SamplesInv => TypeOK
  BY DEF SamplesInv
<1> QED
  BY <1>1, SamplesInvariant, PTL

\* The two rows are always two whole calendar weeks, the lower one that of the
\* last query (week_start_kst, OnBnClickedQuery, OnTimer).
THEOREM RowsAreCalendarWeeks == Spec => []RowsAreWeeks
<1>1. RowsInv /\ TypeOK => RowsAreWeeks
  BY WholeWeeks DEF RowsAreWeeks
<1> QED
  BY <1>1, RowsInvariant, TypeCorrect, PTL

\* Whatever the histories, the width of a row and the length of a day: after a
\* movement of the mouse (update_hover) the tooltip is of the nearest sample, if
\* any, and it stays there until the rows are replaced.
THEOREM TipStaysAtMouse == Spec => TipTracksMouse
<1>1. SamplesInv /\ [Next]_vars =>
          [(TipAtMouse \/ mouse' # mouse) /\ ~OtherRows => TipAtMouse']_vars
  BY NextSamples
<1> QED
  BY <1>1, SamplesInvariant, PTL DEF Spec, TipTracksMouse
=============================================================================
