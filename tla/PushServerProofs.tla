--------------------------- MODULE PushServerProofs ---------------------------
(***************************************************************************)
(* Proofs about PushServer: for any clients, descriptors, limits and       *)
(* timeouts, its state has its types, no buffer outgrows its limit between *)
(* two handlers, the timer misses no connection, nothing that was read     *)
(* waits for an answer, and the server implements LineService.             *)
(***************************************************************************)
EXTENDS PushServer, CommonProofs

-----------------------------------------------------------------------------
(* The replies among messages *)

\* What RepliesIn is applied to: messages, or nothing where a line has no reply.
Entry == Reply \cup {None, Ping, Bye}

LEMMA NotReplies ==
    /\ None \notin Reply /\ Ping \notin Reply /\ Bye \notin Reply
    /\ Message \subseteq Entry /\ Reply \subseteq Entry
  BY DEF Reply, None, Ping, Bye, Message, Entry

LEMMA OnlyReplies == Entry \ {None, Ping, Bye} = Reply
  BY NotReplies DEF Entry

\* The replies among the messages are a sequence of replies.
LEMMA RepliesInType ==
    ASSUME NEW ms \in Seq(Entry)
    PROVE  RepliesIn(ms) \in Seq(Reply)
<1>1. Without(ms, {None, Ping, Bye}) \in Seq(Entry \ {None, Ping, Bye})
  BY WithoutType
<1> QED
  BY <1>1, OnlyReplies DEF RepliesIn

LEMMA RepliesInEmpty == RepliesIn(<<>>) = <<>>
  BY WithoutEmpty DEF RepliesIn

\* One more message is the last reply, or none.
LEMMA RepliesInAppend ==
    ASSUME NEW ms \in Seq(Entry), NEW m \in Entry
    PROVE  RepliesIn(Append(ms, m)) = IF m \in {None, Ping, Bye} THEN RepliesIn(ms)
                                      ELSE Append(RepliesIn(ms), m)
<1> DEFINE skip == {None, Ping, Bye}
<1> HIDE DEF skip
<1>1. Without(Append(ms, m), skip) = IF m \in skip THEN Without(ms, skip)
                                     ELSE Append(Without(ms, skip), m)
  BY WithoutAppend
<1> QED
  BY <1>1 DEF RepliesIn, skip

\* The replies of two sequences follow one another.
LEMMA RepliesInConcat ==
    ASSUME NEW a \in Seq(Entry), NEW b \in Seq(Entry)
    PROVE  RepliesIn(a \o b) = RepliesIn(a) \o RepliesIn(b)
  BY WithoutConcat DEF RepliesIn

\* A sequence of replies is left as it is.
LEMMA RepliesInReplies ==
    ASSUME NEW a \in Seq(Reply)
    PROVE  RepliesIn(a) = a
<1>1. a \in Seq(Entry \ {None, Ping, Bye})
  BY OnlyReplies
<1>2. Without(a, {None, Ping, Bye}) = a
  BY <1>1, WithoutNothing
<1> QED
  BY <1>2 DEF RepliesIn

\* Entries that are no replies leave nothing.
LEMMA RepliesInNone ==
    ASSUME NEW a \in Seq(Entry), \A i \in 1 .. Len(a) : a[i] = None
    PROVE  RepliesIn(a) = <<>>
<1> DEFINE skip == {None, Ping, Bye}
<1>1. \A i \in 1 .. Len(a) : a[i] \in skip
  OBVIOUS
<1> HIDE DEF skip
<1>2. Without(a, skip) = <<>>
  BY <1>1, WithoutAll
<1> QED
  BY <1>2 DEF RepliesIn, skip

-----------------------------------------------------------------------------
(* Lines and replies *)
\* i is where the last complete line of q ends.
IsLastEnd(q, i) ==
    /\ i \in 0 .. Len(q)
    /\ i = 0 \/ EndsLine(q[i])
    /\ \A j \in i + 1 .. Len(q) : ~EndsLine(q[j])

NoLine(q) == \A i \in 1 .. Len(q) : ~EndsLine(q[i])

\* A sequence of complete lines.
Whole(q) == q = <<>> \/ EndsLine(q[Len(q)])

LEMMA LastEndExists ==
    ASSUME NEW q \in Seq(Piece)
    PROVE  IsLastEnd(q, LastEnd(q))
<1> DEFINE T == {i \in 0 .. Len(q) : i = 0 \/ EndsLine(q[i])}
<1>1. Len(q) \in Nat /\ 0 \in T
  OBVIOUS
<1>2. PICK x \in T : \A y \in T : y =< x
  BY <1>1, Greatest
<1>3. x \in 0 .. Len(q) /\ (x = 0 \/ EndsLine(q[x]))
  OBVIOUS
<1>4. \A j \in x + 1 .. Len(q) : ~EndsLine(q[j])
  <2> SUFFICES ASSUME NEW j \in x + 1 .. Len(q), EndsLine(q[j]) PROVE FALSE
    OBVIOUS
  <2>1. j \in T /\ j > x
    BY <1>1, <1>3
  <2> QED
    BY <1>2, <1>3, <2>1
<1> QED
  BY <1>3, <1>4 DEF LastEnd, IsLastEnd

LEMMA LastEndUnique ==
    ASSUME NEW q \in Seq(Piece), NEW i, IsLastEnd(q, i)
    PROVE  LastEnd(q) = i
<1> DEFINE l == LastEnd(q)
<1>1. IsLastEnd(q, l)
  BY LastEndExists
<1> HIDE DEF l
<1>2. i \in Int /\ l \in Int /\ Len(q) \in Int
  BY <1>1 DEF IsLastEnd
<1>3. ~(i < l)
  <2> SUFFICES ASSUME i < l PROVE FALSE
    OBVIOUS
  <2>1. l \in i + 1 .. Len(q) /\ l # 0
    BY <1>1, <1>2 DEF IsLastEnd
  <2> QED
    BY <1>1, <2>1 DEF IsLastEnd
<1>4. ~(l < i)
  <2> SUFFICES ASSUME l < i PROVE FALSE
    OBVIOUS
  <2>1. i \in l + 1 .. Len(q) /\ i # 0
    BY <1>1, <1>2 DEF IsLastEnd
  <2> QED
    BY <1>1, <2>1 DEF IsLastEnd
<1>5. l = i
  BY <1>2, <1>3, <1>4
<1> QED
  BY <1>5 DEF l

\* The last line of a stream that continues complete lines.
LEMMA LastEndConcat ==
    ASSUME NEW a \in Seq(Piece), NEW b \in Seq(Piece), Whole(a)
    PROVE  LastEnd(a \o b) = Len(a) + LastEnd(b)
<1> DEFINE q == a \o b
           k == Len(a)
           l == LastEnd(b)
<1>1. /\ q \in Seq(Piece) /\ Len(q) = k + Len(b)
      /\ \A i \in 1 .. k : q[i] = a[i]
      /\ \A i \in 1 .. Len(b) : q[k + i] = b[i]
      /\ k \in Nat /\ Len(b) \in Nat
  <2>1. q \in Seq(Piece) /\ k \in Nat /\ Len(b) \in Nat
    BY ConcatProperties, LenProperties
  <2>2. \A i \in 1 .. k + Len(b) : q[i] = IF i <= k THEN a[i] ELSE b[i - k]
    BY ConcatProperties
  <2>3. Len(q) = k + Len(b)
    BY ConcatProperties
  <2> HIDE DEF q, k
  <2> QED
    BY <2>1, <2>2, <2>3
<1>2. IsLastEnd(b, l)
  BY LastEndExists
<1>3. k = 0 \/ EndsLine(a[k])
  BY EmptySeq DEF Whole
<1> HIDE DEF q, k, l
<1>4. IsLastEnd(q, k + l)
  <2>1. k + l \in 0 .. Len(q)
    BY <1>1, <1>2 DEF IsLastEnd
  <2>2. k + l = 0 \/ EndsLine(q[k + l])
    <3>1. CASE l = 0
      <4>1. k = 0 \/ k \in 1 .. k
        BY <1>1
      <4> QED
        BY <1>1, <1>3, <3>1, <4>1
    <3>2. CASE l # 0
      <4>1. l \in 1 .. Len(b) /\ EndsLine(b[l])
        BY <1>1, <1>2, <3>2 DEF IsLastEnd
      <4> QED
        BY <1>1, <4>1
    <3> QED
      BY <3>1, <3>2
  <2>3. ASSUME NEW j \in k + l + 1 .. Len(q) PROVE ~EndsLine(q[j])
    <3>1. j - k \in l + 1 .. Len(b) /\ j - k \in 1 .. Len(b) /\ j = k + (j - k)
      BY <1>1, <1>2 DEF IsLastEnd
    <3> QED
      BY <1>1, <1>2, <3>1 DEF IsLastEnd
  <2> QED
    BY <2>1, <2>2, <2>3 DEF IsLastEnd
<1>5. LastEnd(q) = k + l
  BY <1>1, <1>4, LastEndUnique
<1> QED
  BY <1>5 DEF q, k, l

\* A stream is complete lines and what is unfinished.
LEMMA Split ==
    ASSUME NEW q \in Seq(Piece)
    PROVE  /\ Unfinished(q) \in Seq(Piece) /\ NoLine(Unfinished(q))
           /\ \E a \in Seq(Piece) : Whole(a) /\ q = a \o Unfinished(q)
<1> DEFINE l == LastEnd(q)
           a == SubSeq(q, 1, l)
           u == SubSeq(q, l + 1, Len(q))
<1>1. IsLastEnd(q, l) /\ Unfinished(q) = u
  BY LastEndExists DEF Unfinished
<1> HIDE DEF l
<1>2. l \in 0 .. Len(q) /\ Len(q) \in Nat /\ l \in Nat
  BY <1>1, LenProperties DEF IsLastEnd
<1>3. /\ a \in Seq(Piece) /\ Len(a) = l /\ \A i \in 1 .. l : a[i] = q[i]
  <2>1. \A i \in 1 .. l : q[i] \in Piece
    BY <1>2, ElementOfSeq
  <2> QED
    BY <1>2, <2>1, SubSeqProperties
<1>4. u \in Seq(Piece) /\ Len(u) = Len(q) - l /\ \A i \in 1 .. Len(q) - l : u[i] = q[l + i]
  <2>1. \A i \in l + 1 .. Len(q) : q[i] \in Piece
    BY <1>2, ElementOfSeq
  <2>2. u \in Seq(Piece) /\ Len(u) = IF l + 1 <= Len(q) THEN Len(q) - (l + 1) + 1 ELSE 0
    BY <1>2, <2>1, SubSeqProperties
  <2>3. \A i \in 1 .. Len(q) - (l + 1) + 1 : u[i] = q[(l + 1) + i - 1]
    BY <1>2, <2>1, SubSeqProperties
  <2>4. \A i \in 1 .. Len(q) - l : i \in 1 .. Len(q) - (l + 1) + 1 /\ (l + 1) + i - 1 = l + i
    BY <1>2
  <2> HIDE DEF u
  <2>5. \A i \in 1 .. Len(q) - l : u[i] = q[l + i]
    BY <2>3, <2>4
  <2> QED
    BY <1>2, <2>2, <2>5
<1>5. q = a \o u
  <2>1. 1 \in 1 .. Len(q) + 1 /\ l \in 1 - 1 .. Len(q) /\ Len(q) \in l .. Len(q)
    BY <1>2
  <2>2. SubSeq(q, 1, l) \o SubSeq(q, l + 1, Len(q)) = SubSeq(q, 1, Len(q))
    BY <2>1, ConcatAdjacentSubSeq
  <2> QED
    BY <2>2, SubSeqFull
<1> HIDE DEF a, u
<1>6. Whole(a)
  <2>1. CASE l = 0
    BY <1>3, <2>1, EmptySeq DEF Whole
  <2>2. CASE l # 0
    <3>1. l \in 1 .. l
      BY <1>2, <2>2
    <3>2. EndsLine(q[l])
      BY <1>1, <2>2 DEF IsLastEnd
    <3> QED
      BY <1>3, <3>1, <3>2 DEF Whole
  <2> QED
    BY <2>1, <2>2
<1>7. NoLine(u)
  <2> SUFFICES ASSUME NEW i \in 1 .. Len(u) PROVE ~EndsLine(u[i])
    BY DEF NoLine
  <2>1. l + i \in l + 1 .. Len(q) /\ i \in 1 .. Len(q) - l
    BY <1>2, <1>4
  <2>2. ~EndsLine(q[l + i])
    BY <1>1, <2>1 DEF IsLastEnd
  <2> QED
    BY <1>4, <2>1, <2>2
<1> QED
  BY <1>1, <1>3, <1>4, <1>5, <1>6, <1>7

LEMMA UnfinishedConcat ==
    ASSUME NEW a \in Seq(Piece), NEW b \in Seq(Piece), Whole(a)
    PROVE  Unfinished(a \o b) = Unfinished(b)
<1> DEFINE q == a \o b
           k == Len(a)
           l == LastEnd(b)
<1>1. LastEnd(q) = k + l /\ l \in 0 .. Len(b)
  BY LastEndConcat, LastEndExists DEF IsLastEnd
<1>2. Len(q) = k + Len(b) /\ k \in Nat /\ Len(b) \in Nat /\ q \in Seq(Piece)
  BY ConcatProperties, LenProperties
<1>3. Unfinished(q) = SubSeq(q, k + l + 1, k + Len(b)) /\ Unfinished(b) = SubSeq(b, l + 1, Len(b))
  BY <1>1, <1>2 DEF Unfinished
<1> HIDE DEF l
<1>4. CASE l = Len(b)
  <2>1. k + Len(b) < k + l + 1 /\ Len(b) < l + 1
    BY <1>2, <1>4
  <2>2. SubSeq(q, k + l + 1, k + Len(b)) = <<>> /\ SubSeq(b, l + 1, Len(b)) = <<>>
    <3> HIDE DEF q, k
    <3> QED
      BY <1>1, <1>2, <2>1, SubSeqEmpty
  <2> QED
    BY <1>3, <2>2
<1>5. CASE l # Len(b)
  <2> DEFINE m == k + l + 1
             n == k + Len(b)
  <2>1. m \in k + 1 .. n /\ n \in k + 1 .. n /\ m - k = l + 1 /\ n - k = Len(b)
    BY <1>1, <1>2, <1>5
  <2>2. \A i, j \in k + 1 .. n : SubSeq(q, i, j) = SubSeq(b, i - k, j - k)
    BY SubSeqOfConcat2
  <2>3. Unfinished(q) = SubSeq(q, m, n)
    BY <1>3
  <2> HIDE DEF q, k, m, n
  <2>4. SubSeq(q, m, n) = SubSeq(b, m - k, n - k)
    BY <2>1, <2>2, Zenon
  <2>5. Unfinished(q) = Unfinished(b)
    BY <1>3, <2>1, <2>3, <2>4, Zenon
  <2> QED
    BY <2>5 DEF q
<1> QED
  BY <1>4, <1>5

-----------------------------------------------------------------------------
(* Replies to lines *)

\* For each piece of q the reply it completes, or nothing.
Slots(q) == [i \in 1 .. Len(q) |-> ReplyAt(q, i)]

\* The prefix before a piece.
LEMMA Before ==
    ASSUME NEW q \in Seq(Piece), NEW i \in 1 .. Len(q)
    PROVE  /\ SubSeq(q, 1, i - 1) \in Seq(Piece) /\ Len(SubSeq(q, 1, i - 1)) = i - 1
           /\ \A j \in 1 .. i - 1 : SubSeq(q, 1, i - 1)[j] = q[j]
           /\ LastEnd(SubSeq(q, 1, i - 1)) + 1 \in 1 .. i
<1>1. Len(q) \in Nat /\ i \in Nat /\ i - 1 \in Nat /\ i =< Len(q)
  BY LenProperties
<1>2. \A j \in 1 .. i - 1 : q[j] \in Piece
  BY <1>1, ElementOfSeq
<1> DEFINE before == SubSeq(q, 1, i - 1)
<1>3. before \in Seq(Piece) /\ Len(before) = i - 1
  <2>1. before \in Seq(Piece) /\ Len(before) = IF 1 <= i - 1 THEN (i - 1) - 1 + 1 ELSE 0
    BY <1>1, <1>2, SubSeqProperties
  <2> HIDE DEF before
  <2> QED
    BY <1>1, <2>1
<1>4. \A j \in 1 .. i - 1 : before[j] = q[j]
  <2>1. \A j \in 1 .. (i - 1) - 1 + 1 : before[j] = q[1 + j - 1]
    BY <1>1, <1>2, SubSeqProperties
  <2> HIDE DEF before
  <2> QED
    BY <1>1, <2>1
<1> HIDE DEF before
<1>5. LastEnd(before) \in 0 .. i - 1
  BY <1>3, LastEndExists DEF IsLastEnd
<1>6. LastEnd(before) + 1 \in 1 .. i
  BY <1>1, <1>5
<1> QED
  BY <1>3, <1>4, <1>6 DEF before

LEMMA SlotsType ==
    ASSUME NEW q \in Seq(Piece)
    PROVE  /\ Slots(q) \in Seq(Entry) /\ Len(Slots(q)) = Len(q)
           /\ \A i \in 1 .. Len(q) : Slots(q)[i] = ReplyAt(q, i) /\ ReplyAt(q, i) \in Entry
<1>1. ASSUME NEW i \in 1 .. Len(q), ReplyAt(q, i) # None
      PROVE  ReplyAt(q, i) \in Reply
  <2> DEFINE s == LastEnd(SubSeq(q, 1, i - 1)) + 1
             type == CASE q[i].kind = "hello" -> "hello"
                       [] q[i].kind = "query" -> "data"
                       [] OTHER -> "error"
  <2>1. s \in 1 .. Len(q)
    <3>1. s \in 1 .. i /\ Len(q) \in Nat
      BY Before, LenProperties
    <3> HIDE DEF s
    <3> QED
      BY <3>1
  <2>2. type \in {"hello", "data", "error"}
    OBVIOUS
  <2>3. q[s].n \in 1 .. MaxSend /\ q[i].n \in 1 .. MaxSend
    <3>1. q[s] \in Piece /\ q[i] \in Piece
      BY <2>1, ElementOfSeq
    <3> QED
      BY <3>1 DEF Piece
  <2>4. ReplyAt(q, i) = [type |-> type, first |-> q[s].n, id |-> q[i].n]
    BY <1>1 DEF ReplyAt
  <2> HIDE DEF s, type
  <2> QED
    BY <2>2, <2>3, <2>4 DEF Reply
<1>2. \A i \in 1 .. Len(q) : ReplyAt(q, i) \in Entry
  BY <1>1 DEF Entry
<1>3. Len(q) \in Nat
  BY LenProperties
<1>4. Slots(q) \in [1 .. Len(q) -> Entry] /\ \A i \in 1 .. Len(q) : Slots(q)[i] = ReplyAt(q, i)
  BY <1>2 DEF Slots
<1>5. Slots(q) \in Seq(Entry) /\ Len(Slots(q)) = Len(q)
  BY <1>3, <1>4, SeqDef
<1> QED
  BY <1>2, <1>4, <1>5

\* The replies to what was read are a sequence of replies.
LEMMA RepliesType ==
    ASSUME NEW q \in Seq(Piece)
    PROVE  Replies(q) \in Seq(Reply) /\ Replies(q) = RepliesIn(Slots(q))
<1>1. Replies(q) = RepliesIn(Slots(q))
  BY DEF Replies, Slots
<1> QED
  BY <1>1, SlotsType, RepliesInType

\* What comes after a piece does not change its reply.
LEMMA ReplyAtPrefix ==
    ASSUME NEW a \in Seq(Piece), NEW b \in Seq(Piece), NEW i \in 1 .. Len(a)
    PROVE  ReplyAt(a \o b, i) = ReplyAt(a, i)
<1> DEFINE q == a \o b
<1>1. /\ q \in Seq(Piece) /\ Len(q) = Len(a) + Len(b) /\ Len(a) \in Nat /\ Len(b) \in Nat
      /\ i \in 1 .. Len(q) /\ \A j \in 1 .. i : q[j] = a[j] /\ j \in 1 .. Len(a)
  BY ConcatProperties, LenProperties
<1>2. SubSeq(q, 1, i - 1) = SubSeq(a, 1, i - 1)
  <2> DEFINE x == SubSeq(q, 1, i - 1)
             y == SubSeq(a, 1, i - 1)
  <2>1. x \in Seq(Piece) /\ Len(x) = i - 1 /\ \A j \in 1 .. i - 1 : x[j] = q[j]
    <3> HIDE DEF q
    <3> QED
      BY <1>1, Before
  <2>2. y \in Seq(Piece) /\ Len(y) = i - 1 /\ \A j \in 1 .. i - 1 : y[j] = a[j]
    BY Before
  <2> HIDE DEF x, y
  <2>3. \A j \in 1 .. Len(x) : x[j] = y[j]
    BY <1>1, <2>1, <2>2
  <2>4. x = y
    BY <2>1, <2>2, <2>3, SeqEqual
  <2> QED
    BY <2>4 DEF x, y
<1> DEFINE s == LastEnd(SubSeq(a, 1, i - 1)) + 1
<1>3. s \in 1 .. i
  BY Before
<1>4. q[s] = a[s] /\ q[i] = a[i]
  BY <1>1, <1>3
<1> HIDE DEF q
<1> QED
  BY <1>2, <1>4 DEF ReplyAt, q

\* Nor does what comes before, if it ends a line.
LEMMA ReplyAtRest ==
    ASSUME NEW a \in Seq(Piece), NEW b \in Seq(Piece), Whole(a), NEW i \in 1 .. Len(b)
    PROVE  ReplyAt(a \o b, Len(a) + i) = ReplyAt(b, i)
<1> DEFINE q == a \o b
           k == Len(a)
<1>1. /\ q \in Seq(Piece) /\ Len(q) = k + Len(b)
      /\ \A j \in 1 .. k : q[j] = a[j]
      /\ \A j \in 1 .. Len(b) : q[k + j] = b[j]
      /\ k \in Nat /\ Len(b) \in Nat
  <2>1. q \in Seq(Piece) /\ k \in Nat /\ Len(b) \in Nat /\ Len(q) = k + Len(b)
    BY ConcatProperties, LenProperties
  <2>2. \A j \in 1 .. k + Len(b) : q[j] = IF j <= k THEN a[j] ELSE b[j - k]
    BY ConcatProperties
  <2> HIDE DEF q, k
  <2> QED
    BY <2>1, <2>2
<1> DEFINE y == SubSeq(b, 1, i - 1)
           x == SubSeq(q, 1, k + i - 1)
<1>2. y \in Seq(Piece) /\ Len(y) = i - 1 /\ \A j \in 1 .. i - 1 : y[j] = b[j]
  BY Before
<1>3. x = a \o y
  <2>1. k + i \in 1 .. Len(q)
    <3> HIDE DEF q, k
    <3> QED
      BY <1>1
  <2>2. x \in Seq(Piece) /\ Len(x) = k + i - 1 /\ \A j \in 1 .. k + i - 1 : x[j] = q[j]
    <3> HIDE DEF q
    <3> QED
      BY <1>1, <2>1, Before
  <2>3. /\ a \o y \in Seq(Piece) /\ Len(a \o y) = k + Len(y)
        /\ \A j \in 1 .. k + Len(y) : (a \o y)[j] = IF j <= k THEN a[j] ELSE y[j - k]
    BY <1>2, ConcatProperties
  <2> HIDE DEF x, y, q
  <2>4. Len(x) = Len(a \o y)
    BY <1>1, <1>2, <2>2, <2>3
  <2>5. ASSUME NEW j \in 1 .. Len(x) PROVE x[j] = (a \o y)[j]
    <3>1. j \in 1 .. k + i - 1 /\ j \in 1 .. k + Len(y) /\ j \in Int
      BY <1>1, <1>2, <2>2
    <3>2. CASE j =< k
      BY <1>1, <2>2, <2>3, <3>1, <3>2
    <3>3. CASE ~(j =< k)
      <4>1. j - k \in 1 .. i - 1 /\ j - k \in 1 .. Len(b) /\ j = k + (j - k)
        BY <1>1, <3>1, <3>3
      <4>2. x[j] = q[j] /\ q[k + (j - k)] = b[j - k] /\ y[j - k] = b[j - k]
        BY <1>1, <1>2, <2>2, <3>1, <4>1
      <4>3. (a \o y)[j] = y[j - k]
        BY <2>3, <3>1, <3>3
      <4> QED
        BY <4>1, <4>2, <4>3
    <3> QED
      BY <3>2, <3>3
  <2> QED
    BY <2>2, <2>3, <2>4, <2>5, SeqEqual
<1>4. LastEnd(x) = k + LastEnd(y)
  <2> HIDE DEF x, y
  <2> QED
    BY <1>2, <1>3, LastEndConcat
<1> DEFINE s == LastEnd(y) + 1
<1>5. s \in 1 .. i
  BY Before
<1>6. /\ q[k + s] = b[s] /\ q[k + i] = b[i] /\ (k + s = k + i <=> s = i)
      /\ LastEnd(x) + 1 = k + s
  <2>1. s \in 1 .. Len(b) /\ s \in Nat /\ i \in Nat /\ LastEnd(y) \in Int
    <3>1. LastEnd(y) \in Int
      <4> HIDE DEF y
      <4> QED
        BY <1>2, LastEndExists DEF IsLastEnd
    <3> HIDE DEF y
    <3> QED
      BY <1>1, <1>5, <3>1
  <2>2. s = LastEnd(y) + 1
    OBVIOUS
  <2> HIDE DEF x, y, q, k, s
  <2>3. q[k + s] = b[s] /\ q[k + i] = b[i]
    BY <1>1, <2>1
  <2>4. k + s = k + i <=> s = i
    <3>1. \A u, v, w \in Nat : u + v = u + w <=> v = w
      OBVIOUS
    <3> QED
      BY <1>1, <2>1, <3>1, Zenon
  <2>5. LastEnd(x) + 1 = k + s
    BY <1>1, <1>4, <2>1, <2>2
  <2> QED
    BY <2>3, <2>4, <2>5
<1>7. /\ x = SubSeq(q, 1, (k + i) - 1)
  BY <1>1
<1> DEFINE z == k + i
           t == LastEnd(SubSeq(q, 1, z - 1)) + 1
<1>8. t = k + s
  BY <1>6, <1>7
<1>9. q[t] = b[s] /\ q[z] = b[i] /\ (t = z <=> s = i)
  BY <1>6, <1>8
<1>10. ReplyAt(q, z) = ReplyAt(b, i)
  <2> HIDE DEF q, k, z
  <2> QED
    BY <1>9 DEF ReplyAt
<1> QED
  BY <1>10

\* Replies to a stream that continues complete lines.
LEMMA RepliesConcat ==
    ASSUME NEW a \in Seq(Piece), NEW b \in Seq(Piece), Whole(a)
    PROVE  Replies(a \o b) = Replies(a) \o Replies(b)
<1> DEFINE q == a \o b
           k == Len(a)
           x == Slots(q)
           sa == Slots(a)
           sb == Slots(b)
           y == sa \o sb
<1>1. q \in Seq(Piece) /\ Len(q) = k + Len(b) /\ k \in Nat /\ Len(b) \in Nat
  BY ConcatProperties, LenProperties
<1>2. /\ x \in Seq(Entry) /\ Len(x) = k + Len(b)
      /\ \A i \in 1 .. k + Len(b) : x[i] = ReplyAt(q, i)
  <2> HIDE DEF q
  <2> QED
    BY <1>1, SlotsType
<1>3. /\ sa \in Seq(Entry) /\ Len(sa) = k
      /\ \A i \in 1 .. k : sa[i] = ReplyAt(a, i)
  BY SlotsType
<1>4. /\ sb \in Seq(Entry) /\ Len(sb) = Len(b)
      /\ \A i \in 1 .. Len(b) : sb[i] = ReplyAt(b, i)
  BY SlotsType
<1>5. /\ y \in Seq(Entry) /\ Len(y) = k + Len(b)
      /\ \A i \in 1 .. k + Len(b) : y[i] = IF i <= k THEN sa[i] ELSE sb[i - k]
  <2> HIDE DEF sa, sb
  <2>1. sa \in Seq(Entry) /\ sb \in Seq(Entry)
    BY <1>3, <1>4
  <2>2. y \in Seq(Entry) /\ Len(y) = Len(sa) + Len(sb)
    BY <2>1, ConcatProperties
  <2>3. \A i \in 1 .. Len(sa) + Len(sb) : y[i] = IF i <= Len(sa) THEN sa[i] ELSE sb[i - Len(sa)]
    BY <2>1, ConcatProperties
  <2> HIDE DEF y
  <2> QED
    BY <1>3, <1>4, <2>2, <2>3
<1>6. ASSUME NEW i \in 1 .. k + Len(b) PROVE x[i] = y[i]
  <2>1. CASE i =< k
    <3>1. i \in 1 .. k
      BY <1>1, <2>1
    <3>2. ReplyAt(q, i) = ReplyAt(a, i)
      BY <3>1, ReplyAtPrefix
    <3>3. y[i] = sa[i]
      BY <1>5, <2>1
    <3> HIDE DEF x, y, q
    <3> QED
      BY <1>2, <1>3, <3>1, <3>2, <3>3
  <2>2. CASE ~(i =< k)
    <3>1. i - k \in 1 .. Len(b) /\ k + (i - k) = i
      BY <1>1, <2>2
    <3>2. ReplyAt(q, k + (i - k)) = ReplyAt(b, i - k)
      BY <3>1, ReplyAtRest
    <3>3. y[i] = sb[i - k]
      BY <1>5, <2>2
    <3> HIDE DEF x, y, q
    <3> QED
      BY <1>2, <1>4, <3>1, <3>2, <3>3
  <2> QED
    BY <2>1, <2>2
<1>7. x = y
  <2> HIDE DEF x, y
  <2> QED
    BY <1>2, <1>5, <1>6, SeqEqual
<1>8. RepliesIn(y) = RepliesIn(sa) \o RepliesIn(sb)
  BY <1>3, <1>4, RepliesInConcat
<1>9. Replies(q) = RepliesIn(x)
  <2> HIDE DEF q
  <2> QED
    BY <1>1, RepliesType
<1> QED
  BY <1>7, <1>8, <1>9, RepliesType

\* An unfinished line has no reply.
LEMMA NoLineNoReplies ==
    ASSUME NEW q \in Seq(Piece), NoLine(q)
    PROVE  Replies(q) = <<>>
<1>1. \A i \in 1 .. Len(q) : ReplyAt(q, i) = None
  BY DEF NoLine, ReplyAt
<1>2. Slots(q) \in Seq(Entry) /\ \A i \in 1 .. Len(Slots(q)) : Slots(q)[i] = None
  BY <1>1, SlotsType
<1> QED
  BY <1>2, RepliesInNone, RepliesType

\* The replies to a stream do not depend on how it is cut into reads, as long as
\* the unfinished line is kept for the next read.
LEMMA RepliesLater ==
    ASSUME NEW a \in Seq(Piece), NEW b \in Seq(Piece)
    PROVE  /\ Replies(a \o b) = Replies(a) \o Replies(Unfinished(a) \o b)
           /\ Unfinished(a \o b) = Unfinished(Unfinished(a) \o b)
<1> DEFINE u == Unfinished(a)
<1>1. u \in Seq(Piece) /\ NoLine(u)
  BY Split
<1>2. PICK w \in Seq(Piece) : Whole(w) /\ a = w \o u
  BY Split
<1> HIDE DEF u
<1>3. u \o b \in Seq(Piece) /\ a \o b = w \o (u \o b)
  BY <1>1, <1>2, ConcatProperties, ConcatAssociative
<1>4. Replies(a \o b) = Replies(w) \o Replies(u \o b)
  BY <1>2, <1>3, RepliesConcat
<1>5. Replies(a) = Replies(w) \o Replies(u)
  BY <1>1, <1>2, RepliesConcat
<1>6. Replies(u) = <<>> /\ Replies(w) \in Seq(Reply)
  BY <1>1, NoLineNoReplies, RepliesType
<1>7. Replies(a) = Replies(w)
  BY <1>5, <1>6, ConcatEmptySeq
<1>8. Unfinished(a \o b) = Unfinished(u \o b)
  BY <1>2, <1>3, UnfinishedConcat
<1> QED
  BY <1>4, <1>7, <1>8 DEF u

\* One more piece adds at most one reply.
LEMMA RepliesMore ==
    ASSUME NEW q \in Seq(Piece), NEW piece \in Piece
    PROVE  \/ Replies(Append(q, piece)) = Replies(q)
           \/ \E r \in Reply : Replies(Append(q, piece)) = Append(Replies(q), r)
<1> DEFINE all == Append(q, piece)
           k == Len(q)
           x == Slots(all)
           m == ReplyAt(all, k + 1)
           y == Append(Slots(q), m)
<1>1. all \in Seq(Piece) /\ Len(all) = k + 1 /\ k \in Nat
  BY AppendProperties, LenProperties
<1> HIDE DEF all
<1>2. /\ x \in Seq(Entry) /\ Len(x) = k + 1
      /\ \A i \in 1 .. k + 1 : x[i] = ReplyAt(all, i) /\ ReplyAt(all, i) \in Entry
  BY <1>1, SlotsType
<1>3. /\ Slots(q) \in Seq(Entry) /\ Len(Slots(q)) = k
      /\ \A i \in 1 .. k : Slots(q)[i] = ReplyAt(q, i)
  BY SlotsType
<1>4. m \in Entry
  <2>1. k + 1 \in 1 .. k + 1
    BY <1>1
  <2> QED
    BY <1>2, <2>1
<1> HIDE DEF m
<1>5. /\ y \in Seq(Entry) /\ Len(y) = k + 1 /\ y[k + 1] = m
      /\ \A i \in 1 .. k : y[i] = Slots(q)[i]
  BY <1>3, <1>4, AppendProperties
<1>6. ASSUME NEW i \in 1 .. k + 1 PROVE x[i] = y[i]
  <2>1. CASE i \in 1 .. k
    <3>1. <<piece>> \in Seq(Piece) /\ all = q \o <<piece>>
      BY AppendIsConcat DEF all
    <3>2. ReplyAt(all, i) = ReplyAt(q, i)
      BY <2>1, <3>1, ReplyAtPrefix
    <3> HIDE DEF x, y
    <3> QED
      BY <1>2, <1>3, <1>5, <2>1, <3>2
  <2>2. CASE i = k + 1
    <3> HIDE DEF x, y
    <3> QED
      BY <1>2, <1>5, <2>2 DEF m
  <2>3. i \in 1 .. k \/ i = k + 1
    BY <1>1
  <2> QED
    BY <2>1, <2>2, <2>3
<1>7. x = y
  <2> HIDE DEF x, y
  <2> QED
    BY <1>2, <1>5, <1>6, SeqEqual
<1>8. Replies(all) = RepliesIn(y) /\ Replies(q) = RepliesIn(Slots(q))
  BY <1>1, <1>7, RepliesType
<1>9. CASE m \in {None, Ping, Bye}
  BY <1>3, <1>4, <1>8, <1>9, RepliesInAppend DEF all
<1>10. CASE m \notin {None, Ping, Bye}
  <2>1. m \in Reply
    BY <1>4, <1>10 DEF Entry
  <2>2. Replies(all) = Append(Replies(q), m)
    BY <1>3, <1>4, <1>8, <1>10, RepliesInAppend
  <2> QED
    BY <2>1, <2>2 DEF all
<1> QED
  BY <1>9, <1>10

\* What follows it is shorter than the whole.
LEMMA UnfinishedShorter ==
    ASSUME NEW q \in Seq(Piece)
    PROVE  Unfinished(q) \in Seq(Piece) /\ Len(Unfinished(q)) =< Len(q)
<1>1. LastEnd(q) \in 0 .. Len(q) /\ Len(q) \in Nat
  BY LastEndExists, LenProperties DEF IsLastEnd
<1> HIDE DEF LastEnd
<1> QED
  BY <1>1, SubSeqProperties DEF Unfinished

-----------------------------------------------------------------------------
(* Conn operations *)

\* The limits are numbers.
LEMMA Limits ==
    /\ MaxLine \in Nat /\ MaxOutBuf \in Nat /\ SndBuf \in Nat /\ MaxSend \in Nat
    /\ HelloTimeout \in Nat /\ PingInterval \in Nat \ {0}
  BY ServerAssumption

\* The reasons of close_conn.
Reasons == {"hup", "timeout", "line too long", "peer closed", "recv error", "send error", "exit"}

\* A connection whose socket and input are within their limits.
Fits(s) == s \in Socket /\ Len(s.sndq) =< SndBuf /\ Len(s.in) =< MaxLine

Bounded(s) == Fits(s) /\ Len(s.out) =< MaxOutBuf

\* What every handler leaves as it is, the timer's ping apart.
Follows(s, r) ==
    /\ r.phase = s.phase \/ r.phase = "closed"
    /\ r.opened_at = s.opened_at /\ r.last_ping = s.last_ping
    /\ s.hello => r.hello

\* The types of one connection's fields.
LEMMA SocketFields ==
    ASSUME NEW s \in Socket
    PROVE  /\ s.rcvq \in Seq(Piece) /\ s.in \in Seq(Piece)
           /\ s.out \in Seq(Message) /\ s.sndq \in Seq(Message)
           /\ s.hello \in BOOLEAN /\ s.opened_at \in Nat /\ s.last_ping \in Nat
           /\ s.pollout \in BOOLEAN /\ s.rst \in BOOLEAN
  BY DEF Socket

\* close_conn leaves nothing in the buffers.
LEMMA ClosedBounded ==
    ASSUME NEW s, Fits(s),
           NEW why \in Reasons
    PROVE  Bounded(Closed(s, why)) /\ Closed(s, why).phase = "closed" /\ Follows(s, Closed(s, why))
<1>1. <<>> \in Seq(Piece) /\ <<>> \in Seq(Message) /\ Len(<<>>) = 0
  BY EmptySeq
<1> DEFINE r == Closed(s, why)
<1>2. r \in Socket
  BY <1>1 DEF Fits, Closed, Socket, Reasons
<1>3. /\ r.sndq = s.sndq /\ r.in = <<>> /\ r.out = <<>> /\ r.phase = "closed"
      /\ r.hello = s.hello /\ r.opened_at = s.opened_at /\ r.last_ping = s.last_ping
  BY DEF Fits, Closed, Socket
<1> HIDE DEF r
<1>4. Len(r.sndq) =< SndBuf
  BY <1>3 DEF Fits
<1>5. Len(r.in) =< MaxLine /\ Len(r.out) =< MaxOutBuf
  <2>1. 0 =< MaxLine /\ 0 =< MaxOutBuf
    BY Limits
  <2> QED
    BY <1>1, <1>3, <2>1
<1>6. Bounded(r)
  BY <1>2, <1>4, <1>5 DEF Bounded, Fits
<1>7. Follows(s, r)
  BY <1>3 DEF Follows
<1> QED
  BY <1>3, <1>6, <1>7 DEF r

\* flush fills the socket up to its capacity; if it does not fail, what is left
\* is within the limit.
LEMMA FlushFits ==
    ASSUME NEW s, Fits(s)
    PROVE  /\ Fits(Flush(s)) /\ Flush(s).phase = s.phase /\ Follows(s, Flush(s))
           /\ FlushOK(s) => Bounded(Flush(s))
<1> DEFINE sent == IF s.rst THEN 0 ELSE IF Len(s.out) < Room(s) THEN Len(s.out) ELSE Room(s)
           r == Flush(s)
<1>1. /\ s.out \in Seq(Message) /\ s.sndq \in Seq(Message) /\ s \in Socket
      /\ Len(s.out) \in Nat /\ Len(s.sndq) \in Nat /\ SndBuf \in Nat /\ MaxOutBuf \in Nat
      /\ Room(s) \in Nat /\ Room(s) = SndBuf - Len(s.sndq)
  BY SocketFields, Limits DEF Fits, Room
<1>2. sent \in 0 .. Len(s.out) /\ sent =< Room(s)
  <2>1. \A a, b \in Nat : LET c == IF a < b THEN a ELSE b IN c \in 0 .. a /\ c =< b
    OBVIOUS
  <2>2. CASE s.rst
    BY <1>1, <2>2
  <2>3. CASE ~s.rst
    <3>1. sent = IF Len(s.out) < Room(s) THEN Len(s.out) ELSE Room(s)
      BY <2>3
    <3> QED
      BY <1>1, <2>1, <3>1
  <2> QED
    BY <2>2, <2>3
<1>3. /\ SubSeq(s.out, 1, sent) \in Seq(Message) /\ Len(SubSeq(s.out, 1, sent)) = sent
      /\ SubSeq(s.out, sent + 1, Len(s.out)) \in Seq(Message)
      /\ Len(SubSeq(s.out, sent + 1, Len(s.out))) = Len(s.out) - sent
  <2> HIDE DEF sent
  <2> QED
    BY <1>1, <1>2, SubSeqProperties
<1>4. r = [s EXCEPT !.sndq = s.sndq \o SubSeq(s.out, 1, sent),
                    !.out = SubSeq(s.out, sent + 1, Len(s.out)),
                    !.pollout = sent < Len(s.out)]
  BY DEF Flush
<1>5. /\ s.sndq \o SubSeq(s.out, 1, sent) \in Seq(Message)
      /\ Len(s.sndq \o SubSeq(s.out, 1, sent)) = Len(s.sndq) + sent
  <2> HIDE DEF sent
  <2> QED
    BY <1>1, <1>3, ConcatProperties
<1>6. FlushOK(s) => Len(s.out) - sent =< MaxOutBuf
  <2>1. CASE s.out = <<>>
    BY <1>1, <1>2, <2>1, EmptySeq, Limits
  <2>2. CASE ~s.rst /\ Len(s.out) - Room(s) =< MaxOutBuf
    <3>1. \A a, b, m \in Nat : a - b =< m => a - (IF a < b THEN a ELSE b) =< m
      OBVIOUS
    <3>2. sent = IF Len(s.out) < Room(s) THEN Len(s.out) ELSE Room(s)
      BY <2>2
    <3> QED
      BY <1>1, <2>2, <3>1, <3>2
  <2> QED
    BY <2>1, <2>2 DEF FlushOK
<1> HIDE DEF sent, r
<1> DEFINE sndq == s.sndq \o SubSeq(s.out, 1, sent)
           rest == SubSeq(s.out, sent + 1, Len(s.out))
           more == sent < Len(s.out)
<1>7. /\ sndq \in Seq(Message) /\ rest \in Seq(Message) /\ more \in BOOLEAN
      /\ Len(sndq) =< SndBuf /\ Len(rest) = Len(s.out) - sent
      /\ r = [s EXCEPT !.sndq = sndq, !.out = rest, !.pollout = more]
  BY <1>1, <1>2, <1>3, <1>4, <1>5
<1> HIDE DEF sndq, rest, more
<1>8. r \in Socket
  BY <1>1, <1>7 DEF Socket
<1>9. /\ r.phase = s.phase /\ r.in = s.in /\ r.hello = s.hello
      /\ r.opened_at = s.opened_at /\ r.last_ping = s.last_ping
      /\ r.sndq = sndq /\ r.out = rest
  BY <1>1, <1>7 DEF Socket
<1>10. Fits(r)
  BY <1>7, <1>8, <1>9 DEF Fits
<1>11. Follows(s, r)
  BY <1>9 DEF Follows
<1>12. FlushOK(s) => Bounded(r)
  BY <1>6, <1>7, <1>9, <1>10 DEF Bounded
<1> QED
  BY <1>9, <1>10, <1>11, <1>12 DEF r

\* flush, and close_conn if it fails.
LEMMA FlushOrCloseBounded ==
    ASSUME NEW s, Fits(s), NEW why \in Reasons
    PROVE  Bounded(FlushOrClose(s, why)) /\ Follows(s, FlushOrClose(s, why))
<1>1. Fits(Flush(s)) /\ Follows(s, Flush(s)) /\ (FlushOK(s) => Bounded(Flush(s)))
  BY FlushFits
<1>2. /\ Bounded(Closed(Flush(s), why)) /\ Follows(Flush(s), Closed(Flush(s), why))
  BY <1>1, ClosedBounded
<1>3. Follows(s, Closed(Flush(s), why))
  BY <1>1, <1>2 DEF Follows
<1> QED
  BY <1>1, <1>2, <1>3 DEF FlushOrClose

\* on_conn's input, unless the connection is closed for another reason: what is
\* left of it is shorter than what was read.
LEMMA ReceivedBounded ==
    ASSUME NEW s, Bounded(s)
    PROVE  Bounded(Received(s)) /\ Follows(s, Received(s))
<1> DEFINE q == s.in \o s.rcvq
           r == [s EXCEPT !.rcvq = <<>>, !.in = Unfinished(q), !.hello = @ \/ Has(q, "hello"),
                          !.out = @ \o Replies(q)]
<1>0. s \in Socket /\ Fits(s) /\ MaxLine \in Nat /\ s.rst \in BOOLEAN /\ s.fin \in BOOLEAN
  BY Limits DEF Bounded, Fits, Socket
<1>1. q \in Seq(Piece) /\ Len(q) \in Nat
  <2>1. s.in \in Seq(Piece) /\ s.rcvq \in Seq(Piece)
    BY <1>0, SocketFields
  <2> QED
    BY <2>1, ConcatProperties, LenProperties
<1> DEFINE long == Len(q) > MaxLine
<1>a. Received(s) = CASE s.rst -> Closed(s, "recv error")
                      [] ~s.rst /\ long -> Closed(s, "line too long")
                      [] ~s.rst /\ ~long /\ s.fin -> Closed(s, "peer closed")
                      [] OTHER -> FlushOrClose(r, "send error")
  <2>1. Len(q) =< MaxLine <=> ~long
    <3> HIDE DEF q
    <3> QED
      BY <1>0, <1>1
  <2> QED
    BY <2>1 DEF Received
<1> HIDE DEF q
<1>b. ~long => Len(q) =< MaxLine
  BY <1>0, <1>1
<1> HIDE DEF long
<1>2. ASSUME Len(q) =< MaxLine PROVE Fits(r) /\ Follows(s, r)
  <2>1. Unfinished(q) \in Seq(Piece) /\ Len(Unfinished(q)) =< MaxLine
    <3>1. Unfinished(q) \in Seq(Piece) /\ Len(Unfinished(q)) =< Len(q)
      BY <1>1, UnfinishedShorter
    <3>2. Len(Unfinished(q)) \in Nat
      BY <3>1, LenProperties
    <3> QED
      BY <1>0, <1>1, <1>2, <3>1, <3>2
  <2>2. Replies(q) \in Seq(Message)
    BY <1>1, RepliesType, SeqMonotonic DEF Message
  <2>3. s.out \o Replies(q) \in Seq(Message)
    BY <1>0, <2>2, SocketFields, ConcatProperties
  <2> DEFINE in == Unfinished(q)
             hello == s.hello \/ Has(q, "hello")
             out == s.out \o Replies(q)
  <2>4. in \in Seq(Piece) /\ out \in Seq(Message) /\ hello \in BOOLEAN /\ <<>> \in Seq(Piece)
    BY <2>1, <2>3, EmptySeq
  <2>5. s.hello => hello
    OBVIOUS
  <2>6. r = [s EXCEPT !.rcvq = <<>>, !.in = in, !.hello = hello, !.out = out]
    OBVIOUS
  <2> HIDE DEF in, hello, out, r
  <2>7. r \in Socket
    BY <1>0, <2>4, <2>6 DEF Socket
  <2>8. /\ r.phase = s.phase /\ r.opened_at = s.opened_at /\ r.last_ping = s.last_ping
        /\ r.hello = hello /\ r.in = in /\ r.sndq = s.sndq
    BY <1>0, <2>6 DEF Socket
  <2>9. Fits(r)
    BY <1>0, <2>1, <2>7, <2>8 DEF Fits, in
  <2>10. Follows(s, r)
    BY <2>5, <2>8 DEF Follows
  <2> QED
    BY <2>9, <2>10
<1>3. CASE s.rst
  <2>1. Received(s) = Closed(s, "recv error")
    BY <1>a, <1>3
  <2> QED
    BY <1>0, <2>1, ClosedBounded DEF Reasons
<1>4. CASE ~s.rst /\ long
  <2>1. Received(s) = Closed(s, "line too long")
    BY <1>a, <1>4
  <2> QED
    BY <1>0, <2>1, ClosedBounded DEF Reasons
<1>5. CASE ~s.rst /\ ~long /\ s.fin
  <2>1. Received(s) = Closed(s, "peer closed")
    BY <1>a, <1>5
  <2> QED
    BY <1>0, <2>1, ClosedBounded DEF Reasons
<1>6. CASE ~s.rst /\ ~long /\ ~s.fin
  <2>1. Received(s) = FlushOrClose(r, "send error")
    BY <1>a, <1>6
  <2>2. Bounded(FlushOrClose(r, "send error")) /\ Follows(r, FlushOrClose(r, "send error"))
    BY <1>2, <1>6, <1>b, FlushOrCloseBounded DEF Reasons
  <2>3. Follows(s, FlushOrClose(r, "send error"))
    BY <1>2, <1>6, <1>b, <2>2 DEF Follows
  <2> QED
    BY <2>1, <2>2, <2>3
<1> QED
  BY <1>3, <1>4, <1>5, <1>6

\* on_conn.
LEMMA HandledBounded ==
    ASSUME NEW s, Bounded(s), NEW events
    PROVE  Bounded(Handled(s, events)) /\ Follows(s, Handled(s, events))
<1>1. CASE "hup" \in events
  BY <1>1, ClosedBounded DEF Handled, Bounded, Reasons
<1>2. CASE "hup" \notin events
  <2> DEFINE r == IF "in" \in events THEN Received(s) ELSE s
  <2>1. Bounded(r) /\ Follows(s, r)
    <3>1. Follows(s, s)
      BY DEF Follows
    <3> QED
      BY <3>1, ReceivedBounded
  <2>2. Handled(s, events) = IF r.phase = "open" /\ "out" \in events
                             THEN FlushOrClose(r, "send error") ELSE r
    BY <1>2 DEF Handled
  <2> HIDE DEF r
  <2>3. Bounded(FlushOrClose(r, "send error")) /\ Follows(r, FlushOrClose(r, "send error"))
    BY <2>1, FlushOrCloseBounded DEF Bounded, Reasons
  <2>4. Follows(s, FlushOrClose(r, "send error"))
    BY <2>1, <2>3 DEF Follows
  <2> QED
    BY <2>1, <2>2, <2>3, <2>4
<1> QED
  BY <1>1, <1>2

\* In time with its hello and its pings.
InTime(s) == (s.hello \/ now - s.opened_at =< HelloTimeout) /\ now - s.last_ping < PingInterval

\* on_tick: a connection it leaves open is in time.
LEMMA TickedInTime ==
    ASSUME NEW s, Bounded(s), now \in Nat
    PROVE  /\ Bounded(Ticked(s))
           /\ Ticked(s).phase = s.phase \/ Ticked(s).phase = "closed"
           /\ Ticked(s).phase # "closed" => InTime(Ticked(s))
<1>0. /\ s \in Socket /\ Fits(s) /\ s.out \in Seq(Message) /\ s.hello \in BOOLEAN
      /\ s.opened_at \in Nat /\ s.last_ping \in Nat
      /\ HelloTimeout \in Nat /\ PingInterval \in Nat \ {0}
  BY SocketFields, Limits DEF Bounded, Fits
<1>1. CASE ~s.hello /\ now - s.opened_at > HelloTimeout
  <2>1. Ticked(s) = Closed(s, "timeout")
    BY <1>1 DEF Ticked
  <2> QED
    BY <1>0, <2>1, ClosedBounded DEF Reasons
<1>2. CASE (s.hello \/ now - s.opened_at =< HelloTimeout) /\ now - s.last_ping < PingInterval
  <2>1. Ticked(s) = s
    BY <1>0, <1>2 DEF Ticked
  <2> QED
    BY <1>2, <2>1 DEF InTime
<1>3. CASE (s.hello \/ now - s.opened_at =< HelloTimeout) /\ now - s.last_ping >= PingInterval
  <2> DEFINE out == Append(s.out, Ping)
             r == [s EXCEPT !.out = out, !.last_ping = now]
             f == FlushOrClose(r, "timeout")
  <2>1. Ticked(s) = f
    BY <1>0, <1>3 DEF Ticked
  <2>2. out \in Seq(Message)
    BY <1>0, AppendProperties DEF Message
  <2> HIDE DEF out
  <2>3. r \in Socket
    BY <1>0, <2>2 DEF Socket
  <2>4. /\ r.phase = s.phase /\ r.hello = s.hello /\ r.opened_at = s.opened_at
        /\ r.last_ping = now /\ r.in = s.in /\ r.sndq = s.sndq
    BY <1>0 DEF Socket
  <2> HIDE DEF r
  <2>5. Fits(r)
    BY <1>0, <2>3, <2>4 DEF Fits
  <2>6. Bounded(f) /\ Follows(r, f)
    BY <2>5, FlushOrCloseBounded DEF Reasons
  <2> HIDE DEF f
  <2>7. f.phase # "closed" => InTime(f)
    BY <1>0, <1>3, <2>4, <2>6 DEF Follows, InTime
  <2> QED
    BY <2>1, <2>4, <2>6, <2>7 DEF Follows
<1> QED
  BY <1>0, <1>1, <1>2, <1>3

-----------------------------------------------------------------------------
(* The inductive invariant *)

Types ==
    /\ now \in Nat /\ running \in BOOLEAN /\ stop \in BOOLEAN
    /\ Open \subseteq Fds
    /\ \A e \in batch : e.src \in {"listen", "timer", "signal", "conn"}
    /\ expired \in BOOLEAN /\ sig \in BOOLEAN
    /\ backlog \in Seq(Peers)
    /\ sock \in [Peers -> Socket]

\* The descriptors of conns_ are those of open connections; a process that is
\* gone has none.
Connections ==
    /\ \A fd \in Open : conns[fd] \in Peers /\ sock[conns[fd]].phase = "open"
    /\ ~running => \A p \in Peers : sock[p].phase # "open"

\* Until the timer fires again, the connections are in time.
Timers == ~expired => \A p \in Peers : sock[p].phase = "open" => InTime(sock[p])

Buffers == \A p \in Peers : Bounded(sock[p])

IInv == Types /\ Connections /\ Timers /\ Buffers

\* The parts of the state that a step of one connection leaves alone.
others == <<now, running, stop, expired, sig, backlog>>

\* A connection that Follows keeps its time.
LEMMA FollowsInTime ==
    ASSUME NEW s, NEW r, Follows(s, r), InTime(s)
    PROVE  InTime(r)
  BY DEF Follows, InTime

\* conns_ holds what StillOpen leaves.
LEMMA StillOpenConnections ==
    ASSUME NEW socks, Open \subseteq Fds, \A fd \in Open : conns[fd] \in Peers
    PROVE  /\ DOMAIN StillOpen(socks) \subseteq Fds
           /\ \A fd \in DOMAIN StillOpen(socks) :
                  /\ StillOpen(socks)[fd] \in Peers
                  /\ socks[StillOpen(socks)[fd]].phase = "open"
  BY DEF StillOpen, Open

\* A handler of one connection keeps the invariant if it keeps the limits.
LEMMA OneHandled ==
    ASSUME IInv, NEW p \in Peers, NEW r, Bounded(r), Follows(sock[p], r),
           sock' = [sock EXCEPT ![p] = r],
           conns' = StillOpen(sock') \/ (conns' = conns /\ r.phase = sock[p].phase),
           batch' \subseteq batch, UNCHANGED others
    PROVE  IInv'
<1>1. Types'
  <2>1. r \in Socket
    BY DEF Bounded, Fits
  <2>2. sock' \in [Peers -> Socket]
    BY <2>1 DEF IInv, Types
  <2>3. DOMAIN conns' \subseteq Fds
    BY StillOpenConnections DEF IInv, Types, Connections, Open
  <2> QED
    BY <2>2, <2>3 DEF IInv, Types, Open, others
<1>2. \A u \in Peers : sock'[u] = IF u = p THEN r ELSE sock[u]
  BY DEF IInv, Types
<1>3. Connections'
  <2>1. ASSUME NEW fd \in Open' PROVE conns'[fd] \in Peers /\ sock'[conns'[fd]].phase = "open"
    <3>1. CASE conns' = StillOpen(sock')
      BY <3>1, StillOpenConnections DEF IInv, Types, Connections, Open
    <3>2. CASE conns' = conns /\ r.phase = sock[p].phase
      BY <1>2, <3>2 DEF IInv, Connections, Open
    <3> QED
      BY <3>1, <3>2
  <2>2. ~running' => \A u \in Peers : sock'[u].phase # "open"
    BY <1>2 DEF IInv, Connections, others, Follows
  <2> QED
    BY <2>1, <2>2 DEF Connections
<1>4. Timers'
  <2> SUFFICES ASSUME ~expired', NEW u \in Peers, sock'[u].phase = "open"
               PROVE  InTime(sock[u])'
    BY DEF Timers
  <2>1. ~expired /\ sock[u].phase = "open"
    BY <1>2 DEF others, Follows
  <2>2. InTime(sock[u])
    BY <2>1 DEF IInv, Timers
  <2>3. InTime(sock'[u])
    BY <1>2, <2>2, FollowsInTime
  <2> QED
    BY <2>3 DEF InTime, others
<1>5. Buffers'
  BY <1>2 DEF IInv, Buffers, Bounded, Fits
<1> QED
  BY <1>1, <1>3, <1>4, <1>5 DEF IInv

\* When the process ends, so does every connection.
LEMMA GoneKeeps ==
    ASSUME IInv, NEW socks, \A p \in Peers : Fits(socks[p]) /\ socks[p].phase = sock[p].phase,
           \A p \in Peers : socks[p] = sock[p] \/ sock[p].phase = "open",
           ProcessGone(socks)
    PROVE  IInv'
<1>1. ASSUME NEW p \in Peers PROVE Bounded(Exited(socks[p])) /\ Exited(socks[p]).phase # "open"
  <2>1. CASE socks[p].phase \in {"open", "backlog"}
    BY <2>1, ClosedBounded DEF Exited, Reasons
  <2>2. CASE socks[p].phase \notin {"open", "backlog"}
    <3>1. socks[p] = sock[p] /\ Bounded(sock[p])
      BY <2>2 DEF IInv, Buffers
    <3> QED
      BY <2>2, <3>1 DEF Exited
  <2> QED
    BY <2>1, <2>2
<1>2. /\ sock' = [p \in Peers |-> Exited(socks[p])]
      /\ running' = FALSE /\ stop' = FALSE /\ conns' = <<>> /\ batch' = {}
      /\ expired' = FALSE /\ sig' = FALSE /\ backlog' = <<>> /\ now' = now
  BY DEF ProcessGone
<1>3. sock' \in [Peers -> Socket] /\ \A p \in Peers : Bounded(sock'[p]) /\ sock'[p].phase # "open"
  BY <1>1, <1>2 DEF Bounded, Fits
<1>4. Open' = {}
  <2>1. DOMAIN <<>> = {}
    OBVIOUS
  <2> QED
    BY <1>2, <2>1 DEF Open
<1>5. backlog' \in Seq(Peers)
  BY <1>2, EmptySeq
<1>6. Types'
  <2>1. /\ running' \in BOOLEAN /\ stop' \in BOOLEAN /\ expired' \in BOOLEAN /\ sig' \in BOOLEAN
    BY <1>2
  <2> QED
    BY <1>2, <1>3, <1>4, <1>5, <2>1 DEF IInv, Types
<1>7. Connections' /\ Timers'
  BY <1>3, <1>4 DEF Connections, Timers
<1>8. Buffers'
  BY <1>3 DEF Buffers, Bounded, Fits
<1> QED
  BY <1>6, <1>7, <1>8 DEF IInv

-----------------------------------------------------------------------------
(* The steps *)

\* The server's own steps.
LEMMA WaitKeeps == IInv /\ Wait => IInv'
<1> SUFFICES ASSUME IInv, Wait PROVE IInv'
  OBVIOUS
<1>1. \A e \in batch' : e.src \in {"listen", "timer", "signal", "conn"}
  BY DEF Wait, Batches, Ready, Listen, Timer, Signal
<1>2. UNCHANGED <<others, conns, sock>>
  BY DEF Wait, others
<1>3. Types'
  BY <1>1, <1>2 DEF IInv, Types, others, Open
<1> QED
  BY <1>2, <1>3 DEF IInv, Connections, Timers, Buffers, others, Open, InTime, Bounded, Fits

\* accept_all: the new connections have just been opened.
LEMMA AcceptAllKeeps == IInv /\ AcceptAll => IInv'
<1> SUFFICES ASSUME IInv, AcceptAll PROVE IInv'
  OBVIOUS
<1> DEFINE free == Fds \ Open
           n == IF Len(backlog) < Cardinality(free) THEN Len(backlog) ELSE Cardinality(free)
           nth(i) == CHOOSE f \in free : Cardinality({g \in free : g < f}) = i - 1
           new == {nth(i) : i \in 1 .. n} 
           rank(fd) == CHOOSE i \in 1 .. n : nth(i) = fd
           accepted == {backlog[i] : i \in 1 .. n}
           opened(s) == [s EXCEPT !.phase = "open", !.opened_at = now, !.last_ping = now]
<1>1. /\ conns' = [fd \in Open \cup new |->
                       IF fd \in new THEN backlog[rank(fd)] ELSE conns[fd]]
      /\ backlog' = SubSeq(backlog, n + 1, Len(backlog))
      /\ sock' = [p \in Peers |-> IF p \in accepted THEN opened(sock[p]) ELSE sock[p]]
      /\ UNCHANGED <<now, running, stop, expired, sig>> /\ batch' \subseteq batch /\ running
  BY DEF AcceptAll, Take
<1>2. backlog \in Seq(Peers) /\ Len(backlog) \in Nat /\ now \in Nat
  BY DEF IInv, Types
<1>3. n \in 0 .. Len(backlog) /\ n =< Cardinality(free)
  <2>1. IsFiniteSet(free)
    BY ServerAssumption, FS_Subset
  <2>2. Cardinality(free) \in Nat
    BY <2>1, FS_CardinalityType
  <2> QED
    BY <1>2, <2>2
<1>4. \A i \in 1 .. n : nth(i) \in free
  <2> SUFFICES ASSUME NEW i \in 1 .. n PROVE nth(i) \in free
    OBVIOUS
  <2>1. IsFiniteSet(free) /\ free \subseteq Nat
    BY ServerAssumption, FS_Subset
  <2>2. i - 1 \in Nat /\ i - 1 < Cardinality(free)
    <3>1. Cardinality(free) \in Nat
      BY <2>1, FS_CardinalityType
    <3> HIDE DEF n, free
    <3> QED
      BY <1>3, <3>1, <1>2
  <2> HIDE DEF free, n
  <2>3. \E f \in free : Cardinality({g \in free : g < f}) = i - 1
    BY <2>1, <2>2, Ranked
  <2> QED
    BY <2>3
<1> HIDE DEF n, nth
<1>5. accepted \subseteq Peers
  BY <1>2, <1>3
<1>6. new \subseteq Fds
  BY <1>4
<1>7. \A fd \in new : backlog[rank(fd)] \in accepted
  BY <1>3
<1> HIDE DEF rank, accepted, new, free
<1>8. \A p \in Peers : /\ Bounded(opened(sock[p])) /\ opened(sock[p]).phase = "open"
                       /\ InTime(opened(sock[p]))
  <2> SUFFICES ASSUME NEW p \in Peers
               PROVE  /\ Bounded(opened(sock[p])) /\ opened(sock[p]).phase = "open"
                      /\ InTime(opened(sock[p]))
    OBVIOUS
  <2> DEFINE s == sock[p]
             r == opened(s)
  <2>1. s \in Socket /\ Bounded(s)
    BY DEF IInv, Types, Buffers
  <2> HIDE DEF s
  <2>2. r \in Socket
    BY <1>2, <2>1 DEF Socket
  <2>3. /\ r.phase = "open" /\ r.opened_at = now /\ r.last_ping = now
        /\ r.in = s.in /\ r.out = s.out /\ r.sndq = s.sndq
    BY <2>1 DEF Socket
  <2> HIDE DEF r
  <2>4. Bounded(r)
    BY <2>1, <2>2, <2>3 DEF Bounded, Fits
  <2>5. InTime(r)
    BY <1>2, <2>3, Limits DEF InTime
  <2> QED
    BY <2>3, <2>4, <2>5 DEF r, s
<1> HIDE DEF opened
<1>9. \A p \in Peers : sock'[p] = IF p \in accepted THEN opened(sock[p]) ELSE sock[p]
  BY <1>1
<1>10. Types'
  <2>1. sock' \in [Peers -> Socket]
    BY <1>1, <1>8 DEF IInv, Types, Bounded, Fits
  <2>2. backlog' \in Seq(Peers)
    BY <1>1, <1>2, <1>3, SubSeqProperties
  <2>3. Open' \subseteq Fds
    BY <1>1, <1>6 DEF IInv, Types, Open
  <2> QED
    BY <1>1, <2>1, <2>2, <2>3 DEF IInv, Types
<1>11. Connections'
  <2>1. ASSUME NEW fd \in Open' PROVE conns'[fd] \in Peers /\ sock'[conns'[fd]].phase = "open"
    <3>1. CASE fd \in new
      BY <1>1, <1>5, <1>7, <1>8, <1>9, <3>1
    <3>2. CASE fd \notin new
      <4>1. fd \in Open /\ conns'[fd] = conns[fd]
        BY <1>1, <3>2 DEF Open
      <4> QED
        BY <1>8, <1>9, <4>1 DEF IInv, Connections
    <3> QED
      BY <3>1, <3>2
  <2> QED
    BY <1>1, <2>1 DEF Connections
<1>12. Timers'
  <2> SUFFICES ASSUME ~expired', NEW p \in Peers, sock'[p].phase = "open"
               PROVE  InTime(sock[p])'
    BY DEF Timers
  <2>1. InTime(sock'[p])
    BY <1>1, <1>8, <1>9 DEF IInv, Timers
  <2> QED
    BY <1>1, <2>1 DEF InTime
<1>13. Buffers'
  BY <1>8, <1>9 DEF IInv, Buffers, Bounded, Fits
<1> QED
  BY <1>10, <1>11, <1>12, <1>13 DEF IInv

\* on_tick: afterwards all connections are in time.
LEMMA OnTickKeeps == IInv /\ OnTick => IInv'
<1> SUFFICES ASSUME IInv, OnTick PROVE IInv'
  OBVIOUS
<1>1. /\ sock' = [p \in Peers |-> IF sock[p].phase = "open" THEN Ticked(sock[p]) ELSE sock[p]]
      /\ conns' = StillOpen(sock') /\ expired' = FALSE /\ batch' \subseteq batch
      /\ UNCHANGED <<now, running, stop, sig, backlog>>
  BY DEF OnTick, Take
<1>2. now \in Nat /\ \A p \in Peers : Bounded(sock[p])
  BY DEF IInv, Types, Buffers
<1>3. \A p \in Peers : /\ Bounded(Ticked(sock[p]))
                       /\ Ticked(sock[p]).phase = sock[p].phase \/ Ticked(sock[p]).phase = "closed"
                       /\ Ticked(sock[p]).phase # "closed" => InTime(Ticked(sock[p]))
  BY <1>2, TickedInTime
<1>4. \A p \in Peers : sock'[p] = IF sock[p].phase = "open" THEN Ticked(sock[p]) ELSE sock[p]
  BY <1>1
<1>5. Types'
  <2>1. sock' \in [Peers -> Socket]
    BY <1>1, <1>3 DEF IInv, Types, Bounded, Fits
  <2>2. Open' \subseteq Fds
    BY <1>1, StillOpenConnections DEF IInv, Types, Connections, Open
  <2>3. expired' \in BOOLEAN
    BY <1>1
  <2> QED
    BY <1>1, <2>1, <2>2, <2>3 DEF IInv, Types
<1>6. Connections'
  <2>1. ASSUME NEW fd \in Open' PROVE conns'[fd] \in Peers /\ sock'[conns'[fd]].phase = "open"
    BY <1>1, StillOpenConnections DEF IInv, Types, Connections, Open
  <2>2. ~running' => \A p \in Peers : sock'[p].phase # "open"
    BY <1>1, <1>4 DEF IInv, Connections
  <2> QED
    BY <2>1, <2>2 DEF Connections
<1>7. Timers'
  <2> SUFFICES ASSUME NEW p \in Peers, sock'[p].phase = "open" PROVE InTime(sock[p])'
    BY DEF Timers
  <2>1. InTime(sock'[p])
    BY <1>3, <1>4
  <2> QED
    BY <1>1, <2>1 DEF InTime
<1>8. Buffers'
  BY <1>2, <1>3, <1>4 DEF Buffers, Bounded, Fits
<1> QED
  BY <1>5, <1>6, <1>7, <1>8 DEF IInv

\* on_conn, also with an event that has become stale.
LEMMA OnConnKeeps == ASSUME IInv, NEW e \in batch, OnConn(e) PROVE IInv'
<1>1. batch' \subseteq batch /\ UNCHANGED others
  BY DEF OnConn, Take, others
<1>2. CASE e.fd \in Open
  <2>1. conns[e.fd] \in Peers
    BY <1>2 DEF IInv, Connections
  <2>2. Bounded(sock[conns[e.fd]])
    BY <2>1 DEF IInv, Buffers
  <2> DEFINE r == Handled(sock[conns[e.fd]], e.events)
  <2>3. Bounded(r) /\ Follows(sock[conns[e.fd]], r)
    BY <2>2, HandledBounded
  <2>4. sock' = [sock EXCEPT ![conns[e.fd]] = r] /\ conns' = StillOpen(sock')
    BY <1>2 DEF OnConn
  <2> HIDE DEF r
  <2> QED
    BY <1>1, <2>1, <2>3, <2>4, OneHandled
<1>3. CASE e.fd \notin Open
  <2>1. UNCHANGED <<sock, conns, others>>
    BY <1>1, <1>3 DEF OnConn
  <2> QED
    BY <1>1, <2>1 DEF IInv, Types, Connections, Timers, Buffers, others, Open, InTime, Bounded, Fits
<1> QED
  BY <1>2, <1>3

\* The ends of the process.
LEMMA EndKeeps == ASSUME IInv, ProcessGone(sock) PROVE IInv'
<1>1. \A p \in Peers : Fits(sock[p])
  BY DEF IInv, Buffers, Bounded
<1> QED
  BY <1>1, GoneKeeps

\* The bye goes out through flush, which may leave more than the limit allows,
\* but the connection is closed in the same step.
LEMMA StopKeeps == IInv /\ Stop => IInv'
<1> SUFFICES ASSUME IInv, Stop PROVE IInv'
  OBVIOUS
<1> DEFINE said(s) == Flush([s EXCEPT !.out = Append(@, Bye)])
           socks == [p \in Peers |-> IF sock[p].phase = "open" THEN said(sock[p]) ELSE sock[p]]
<1>1. ProcessGone(socks)
  BY DEF Stop
<1>2. ASSUME NEW p \in Peers PROVE Fits(said(sock[p])) /\ said(sock[p]).phase = sock[p].phase
  <2> DEFINE s == sock[p]
             out == Append(s.out, Bye)
             r == [s EXCEPT !.out = out]
  <2>1. s \in Socket /\ Fits(s)
    BY DEF IInv, Types, Buffers, Bounded
  <2>2. out \in Seq(Message)
    BY <2>1, SocketFields, AppendProperties DEF Message
  <2> HIDE DEF s, out
  <2>3. r \in Socket
    BY <2>1, <2>2 DEF Socket
  <2>4. r.phase = s.phase /\ r.in = s.in /\ r.sndq = s.sndq
    BY <2>1 DEF Socket
  <2>5. said(s) = Flush(r)
    BY DEF out
  <2> HIDE DEF r
  <2>6. Fits(r)
    BY <2>1, <2>3, <2>4 DEF Fits
  <2> QED
    BY <2>4, <2>5, <2>6, FlushFits DEF s
<1>3. \A p \in Peers : Fits(sock[p])
  BY DEF IInv, Buffers, Bounded
<1> HIDE DEF said
<1>4. /\ \A p \in Peers : Fits(socks[p]) /\ socks[p].phase = sock[p].phase
      /\ \A p \in Peers : socks[p] = sock[p] \/ sock[p].phase = "open"
  BY <1>2, <1>3
<1> HIDE DEF socks
<1> QED
  BY <1>1, <1>4, GoneKeeps

\* The steps that change no connection and do not move the clock.
LEMMA QuietKeeps ==
    ASSUME IInv, batch' \subseteq batch, sig' \in BOOLEAN, stop' \in BOOLEAN,
           UNCHANGED <<now, running, conns, expired, backlog, sock>>
    PROVE  IInv'
<1>1. Types'
  BY DEF IInv, Types, Open
<1> QED
  BY <1>1 DEF IInv, Connections, Timers, Buffers, Open, InTime, Bounded, Fits

\* systemd starts a process that has no connection.
LEMMA StartKeeps == IInv /\ Start => IInv'
<1> SUFFICES ASSUME IInv, Start PROVE IInv'
  OBVIOUS
<1>1. running' = TRUE /\ UNCHANGED <<now, stop, conns, batch, expired, sig, backlog, sock>>
  BY DEF Start
<1>2. Types'
  BY <1>1 DEF IInv, Types, Open
<1> QED
  BY <1>1, <1>2 DEF IInv, Connections, Timers, Buffers, Open, InTime, Bounded, Fits

\* The clock: the timer is readable after it moved, or nothing is open.
LEMMA TickKeeps == IInv /\ Tick => IInv'
<1> SUFFICES ASSUME IInv, Tick PROVE IInv'
  OBVIOUS
<1>1. /\ now' = now + 1 /\ expired' = running
      /\ UNCHANGED <<running, stop, conns, batch, sig, backlog, sock>>
  BY DEF Tick
<1>2. Types'
  BY <1>1 DEF IInv, Types, Open
<1>3. Timers'
  BY <1>1 DEF IInv, Connections, Timers
<1> QED
  BY <1>1, <1>2, <1>3 DEF IInv, Connections, Buffers, Open, Bounded, Fits

\* A client connects: its connection waits in the backlog.
LEMMA ConnectKeeps == ASSUME IInv, NEW p \in Peers, Connect(p) PROVE IInv'
<1> DEFINE s == sock[p]
           r == [s EXCEPT !.phase = "backlog"]
<1>1. /\ s.phase = "new" /\ sock' = [sock EXCEPT ![p] = r] /\ backlog' = Append(backlog, p)
      /\ UNCHANGED <<now, running, stop, conns, batch, expired, sig>>
  BY DEF Connect
<1>2. s \in Socket /\ Bounded(s)
  BY DEF IInv, Types, Buffers
<1>3. \A u \in Peers : sock'[u] = IF u = p THEN r ELSE sock[u]
  BY <1>1 DEF IInv, Types
<1> HIDE DEF s
<1>4. r \in Socket
  BY <1>2 DEF Socket
<1>5. r.phase = "backlog" /\ r.in = s.in /\ r.out = s.out /\ r.sndq = s.sndq
  BY <1>2 DEF Socket
<1> HIDE DEF r
<1>6. Bounded(r)
  BY <1>2, <1>4, <1>5 DEF Bounded, Fits
<1>7. sock' \in [Peers -> Socket]
  BY <1>1, <1>4 DEF IInv, Types
<1>8. backlog' \in Seq(Peers)
  BY <1>1, AppendProperties DEF IInv, Types
<1>9. Types'
  BY <1>1, <1>7, <1>8 DEF IInv, Types, Open
<1>10. Connections'
  BY <1>1, <1>3, <1>5 DEF IInv, Connections, Open, s
<1>11. Timers'
  BY <1>1, <1>3, <1>5 DEF IInv, Timers, InTime
<1>12. Buffers'
  BY <1>3, <1>6 DEF IInv, Buffers, Bounded, Fits
<1> QED
  BY <1>9, <1>10, <1>11, <1>12 DEF IInv

\* What a client does to its own side of the connection.
LEMMA PeerKeeps ==
    ASSUME IInv, NEW p \in Peers, NEW r, r \in Socket, Len(r.sndq) =< SndBuf,
           r.in = sock[p].in, r.out = sock[p].out, r.phase = sock[p].phase,
           r.hello = sock[p].hello, r.opened_at = sock[p].opened_at,
           r.last_ping = sock[p].last_ping,
           sock' = [sock EXCEPT ![p] = r],
           UNCHANGED <<now, running, stop, conns, batch, expired, sig, backlog>>
    PROVE  IInv'
<1>1. Bounded(r)
  BY DEF IInv, Buffers, Bounded, Fits
<1>2. Follows(sock[p], r)
  BY DEF Follows
<1>3. UNCHANGED others /\ batch' \subseteq batch
  BY DEF others
<1> QED
  BY <1>1, <1>2, <1>3, OneHandled

\* A client sends the next piece.
LEMMA SendPieceKeeps ==
    ASSUME IInv, NEW p \in Peers, NEW kind \in Kinds, SendPiece(p, kind)
    PROVE  IInv'
<1> DEFINE s == sock[p]
           piece == [kind |-> kind, n |-> Len(s.sent) + 1]
           sent == Append(s.sent, piece)
           rcvq == Append(s.rcvq, piece)
           r == [s EXCEPT !.sent = sent, !.rcvq = rcvq]
<1>1. s \in Socket /\ Bounded(s) /\ s.sent \in Seq(Piece) /\ s.rcvq \in Seq(Piece)
  BY DEF IInv, Types, Buffers, Socket
<1>2. piece \in Piece
  <2>1. Len(s.sent) \in Nat /\ Len(s.sent) < MaxSend
    BY <1>1 DEF SendPiece
  <2>2. Len(s.sent) + 1 \in 1 .. MaxSend
    BY <2>1, Limits
  <2> QED
    BY <2>2 DEF Piece
<1>3. sock' = [sock EXCEPT ![p] = r]
  BY DEF SendPiece
<1> HIDE DEF piece
<1>4. sent \in Seq(Piece) /\ rcvq \in Seq(Piece)
  BY <1>1, <1>2, AppendProperties
<1> HIDE DEF sent, rcvq
<1>5. r \in Socket
  <2> HIDE DEF s
  <2> QED
    BY <1>1, <1>4 DEF Socket
<1>6. /\ r.in = s.in /\ r.out = s.out /\ r.phase = s.phase /\ r.hello = s.hello
      /\ r.opened_at = s.opened_at /\ r.last_ping = s.last_ping /\ r.sndq = s.sndq
  <2> HIDE DEF s
  <2> QED
    BY <1>1 DEF Socket
<1>7. Len(r.sndq) =< SndBuf
  BY <1>1, <1>6 DEF Bounded, Fits
<1>8. UNCHANGED <<now, running, stop, conns, batch, expired, sig, backlog>>
  BY DEF SendPiece
<1> HIDE DEF r
<1> QED
  BY <1>3, <1>5, <1>6, <1>7, <1>8, PeerKeeps

\* A client reads one message.
LEMMA ReceiveKeeps == ASSUME IInv, NEW p \in Peers, Receive(p) PROVE IInv'
<1> DEFINE s == sock[p]
           sndq == Tail(s.sndq)
           got == Append(s.got, Head(s.sndq))
           r == [s EXCEPT !.sndq = sndq, !.got = got]
<1>1. s \in Socket /\ Bounded(s) /\ s.sndq \in Seq(Message) /\ s.got \in Seq(Message)
  BY DEF IInv, Types, Buffers, Socket
<1>2. s.sndq # <<>> /\ sock' = [sock EXCEPT ![p] = r]
  BY DEF Receive
<1>3. sndq \in Seq(Message) /\ Len(sndq) = Len(s.sndq) - 1 /\ Head(s.sndq) \in Message
  BY <1>1, <1>2, HeadTailProperties
<1>4. got \in Seq(Message)
  BY <1>1, <1>3, AppendProperties
<1>5. Len(sndq) =< SndBuf
  <2>1. Len(s.sndq) =< SndBuf /\ Len(s.sndq) \in Nat /\ SndBuf \in Nat
    BY <1>1, Limits DEF Bounded, Fits
  <2> HIDE DEF s, sndq
  <2> QED
    BY <1>3, <2>1
<1> HIDE DEF sndq, got
<1>6. r \in Socket
  <2> HIDE DEF s
  <2> QED
    BY <1>1, <1>3, <1>4 DEF Socket
<1>7. /\ r.in = s.in /\ r.out = s.out /\ r.phase = s.phase /\ r.hello = s.hello
      /\ r.opened_at = s.opened_at /\ r.last_ping = s.last_ping /\ r.sndq = sndq
  <2> HIDE DEF s
  <2> QED
    BY <1>1 DEF Socket
<1>8. UNCHANGED <<now, running, stop, conns, batch, expired, sig, backlog>>
  BY DEF Receive
<1> HIDE DEF r
<1> QED
  BY <1>2, <1>5, <1>6, <1>7, <1>8, PeerKeeps

\* A client closes its side.
LEMMA HangupKeeps == ASSUME IInv, NEW p \in Peers, Hangup(p) PROVE IInv'
<1> DEFINE s == sock[p]
           r == [s EXCEPT !.fin = TRUE]
<1>1. s \in Socket /\ Bounded(s)
  BY DEF IInv, Types, Buffers
<1>2. sock' = [sock EXCEPT ![p] = r]
  BY DEF Hangup
<1>3. UNCHANGED <<now, running, stop, conns, batch, expired, sig, backlog>>
  BY DEF Hangup
<1>4. r \in Socket
  <2> HIDE DEF s
  <2> QED
    BY <1>1 DEF Socket
<1>5. /\ r.in = s.in /\ r.out = s.out /\ r.phase = s.phase /\ r.hello = s.hello
      /\ r.opened_at = s.opened_at /\ r.last_ping = s.last_ping /\ r.sndq = s.sndq
  <2> HIDE DEF s
  <2> QED
    BY <1>1 DEF Socket
<1>6. Len(r.sndq) =< SndBuf
  BY <1>1, <1>5 DEF Bounded, Fits
<1> HIDE DEF r
<1> QED
  BY <1>2, <1>3, <1>4, <1>5, <1>6, PeerKeeps

\* A connection breaks.
LEMMA ResetKeeps == ASSUME IInv, NEW p \in Peers, Reset(p) PROVE IInv'
<1> DEFINE s == sock[p]
           r == [s EXCEPT !.rst = TRUE, !.rcvq = <<>>, !.sndq = <<>>]
<1>1. s \in Socket
  BY DEF IInv, Types
<1>2. sock' = [sock EXCEPT ![p] = r]
  BY DEF Reset
<1>3. UNCHANGED <<now, running, stop, conns, batch, expired, sig, backlog>>
  BY DEF Reset
<1>4. <<>> \in Seq(Piece) /\ <<>> \in Seq(Message) /\ Len(<<>>) = 0
  BY EmptySeq
<1>5. r \in Socket
  <2> HIDE DEF s
  <2> QED
    BY <1>1, <1>4 DEF Socket
<1>6. /\ r.in = s.in /\ r.out = s.out /\ r.phase = s.phase /\ r.hello = s.hello
      /\ r.opened_at = s.opened_at /\ r.last_ping = s.last_ping /\ r.sndq = <<>>
  <2> HIDE DEF s
  <2> QED
    BY <1>1 DEF Socket
<1>7. Len(r.sndq) =< SndBuf
  BY <1>4, <1>6, Limits
<1> HIDE DEF r
<1> QED
  BY <1>2, <1>3, <1>5, <1>6, <1>7, PeerKeeps

-----------------------------------------------------------------------------
(* The invariant, and the properties of the runs *)

\* No connection exists at the start.
LEMMA InitHolds == Init => IInv
<1> SUFFICES ASSUME Init PROVE IInv
  OBVIOUS
<1>1. <<>> \in Seq(Piece) /\ <<>> \in Seq(Message) /\ <<>> \in Seq(Peers) /\ Len(<<>>) = 0
  BY EmptySeq
<1>2. NewSocket \in Socket
  BY <1>1 DEF NewSocket, Socket
<1>3. /\ NewSocket.phase = "new" /\ NewSocket.in = <<>> /\ NewSocket.out = <<>>
      /\ NewSocket.sndq = <<>>
  BY DEF NewSocket
<1>4. Bounded(NewSocket)
  BY <1>1, <1>2, <1>3, Limits DEF Bounded, Fits
<1>5. \A p \in Peers : sock[p] = NewSocket
  BY DEF Init
<1>6. Open = {}
  <2>1. DOMAIN <<>> = {}
    OBVIOUS
  <2> QED
    BY <2>1 DEF Init, Open
<1>7. sock \in [Peers -> Socket]
  BY <1>2 DEF Init
<1>8. Types
  BY <1>1, <1>6, <1>7 DEF Init, Types
<1> QED
  BY <1>3, <1>4, <1>5, <1>6, <1>8 DEF IInv, Connections, Timers, Buffers

\* Every step keeps the invariant.
LEMMA NextKeeps == IInv /\ [Next]_vars => IInv'
<1> SUFFICES ASSUME IInv, [Next]_vars PROVE IInv'
  OBVIOUS
<1>1. CASE Wait
  BY <1>1, WaitKeeps
<1>2. CASE AcceptAll
  BY <1>2, AcceptAllKeeps
<1>3. CASE OnTick
  BY <1>3, OnTickKeeps
<1>4. CASE OnSignal
  BY <1>4, QuietKeeps DEF OnSignal, Take
<1>5. ASSUME NEW e \in batch, OnConn(e) PROVE IInv'
  BY <1>5, OnConnKeeps
<1>6. ASSUME NEW e \in batch, QueryFails(e) PROVE IInv'
  BY <1>6, EndKeeps DEF QueryFails
<1>7. CASE Stop
  BY <1>7, StopKeeps
<1>8. CASE Kill
  BY <1>8, EndKeeps DEF Kill
<1>9. CASE Start
  BY <1>9, StartKeeps
<1>10. CASE Tick
  BY <1>10, TickKeeps
<1>11. CASE Terminate
  <2>1. batch' \subseteq batch /\ sig' \in BOOLEAN /\ stop' \in BOOLEAN
    BY <1>11 DEF Terminate, IInv, Types
  <2> QED
    BY <1>11, <2>1, QuietKeeps DEF Terminate
<1>12. ASSUME NEW p \in Peers, Client(p) PROVE IInv'
  BY <1>12, ConnectKeeps, ReceiveKeeps, HangupKeeps, ResetKeeps, SendPieceKeeps DEF Client
<1>13. CASE UNCHANGED vars
  <2>1. batch' \subseteq batch /\ sig' \in BOOLEAN /\ stop' \in BOOLEAN
    BY <1>13 DEF vars, IInv, Types
  <2> QED
    BY <1>13, <2>1, QuietKeeps DEF vars
<1> QED
  BY <1>1, <1>2, <1>3, <1>4, <1>5, <1>6, <1>7, <1>8, <1>9, <1>10, <1>11, <1>12, <1>13
  DEF Next, Serve, Handle

\* The inductive invariant: types, descriptors that lead to open connections,
\* buffers within their limits, and connections in time until the timer fires.
THEOREM ServerInvariant == Spec => []IInv
  BY InitHolds, NextKeeps, PTL DEF Spec

\* The variables keep their types, whatever the clients send and however the
\* process ends (the whole of push/main.cpp's loop).
THEOREM ServerTypes == Spec => []TypeOK
<1>1. IInv => TypeOK
  <2> SUFFICES ASSUME IInv PROVE TypeOK
    OBVIOUS
  <2>1. \A i \in 1 .. Len(backlog) : backlog[i] \in Peers
    BY ElementOfSeq DEF IInv, Types
  <2> QED
    BY <2>1 DEF IInv, Types, Connections, TypeOK
<1> QED
  BY <1>1, ServerInvariant, PTL

\* Between two handlers no buffer of a connection is longer than kMaxLine or
\* kMaxOutBuf allows (on_conn, flush, queue).
THEOREM BuffersStayBounded == Spec => []BuffersBounded
<1>1. IInv => BuffersBounded
  BY DEF IInv, Connections, Buffers, Bounded, Fits, BuffersBounded
<1> QED
  BY <1>1, ServerInvariant, PTL

\* Once the timer's event is handled, no connection is past its hello timeout
\* or without a ping for kPingInterval (on_tick), for any clients and timeouts.
THEOREM TimerMissesNobody == Spec => []TimersServed
<1>1. IInv => TimersServed
  BY DEF IInv, Connections, Timers, InTime, TimersServed
<1> QED
  BY <1>1, ServerInvariant, PTL

-----------------------------------------------------------------------------
(* What a connection has asked, what it can still get, what it got *)

Asked(s) == Replies(s.sent)
Delivered(s) == RepliesIn(s.got)
Ended(s) == s.rst \/ s.phase = "closed"

\* What was read of an open connection is answered, its unfinished line apart;
\* what was not read of it is not.
Lines(s) ==
    /\ NoLine(s.in)
    /\ s.rst => s.sndq = <<>>
    /\ s.phase \in {"new", "backlog"} =>
           /\ s.got = <<>> /\ s.sndq = <<>> /\ s.out = <<>> /\ s.in = <<>>
           /\ s.rst \/ s.rcvq = s.sent
    /\ s.phase = "open" /\ ~s.rst =>
           \E read \in Seq(Piece) : /\ s.sent = read \o s.rcvq
                                    /\ s.in = Unfinished(read)
                                    /\ Reachable(s) = Replies(read)
    /\ Prefix(Reachable(s), Asked(s), Reply)

Kept(s) == Lines(s) /\ (s.out # <<>> <=> s.pollout)

\* What a handler does to a connection: it answers more, or closes it.
Advanced(s, r) ==
    /\ Kept(r)
    /\ r.sent = s.sent /\ r.got = s.got /\ r.rst = s.rst
    /\ \/ r.phase = "closed"
       \/ r.phase = s.phase /\ Len(Reachable(s)) =< Len(Reachable(r))

\* The sequences of a connection.
LEMMA SocketSeqs ==
    ASSUME NEW s \in Socket
    PROVE  /\ s.got \in Seq(Message) /\ s.sndq \in Seq(Message) /\ s.out \in Seq(Message)
           /\ s.got \in Seq(Entry) /\ s.sndq \in Seq(Entry) /\ s.out \in Seq(Entry)
           /\ s.sent \in Seq(Piece) /\ s.rcvq \in Seq(Piece) /\ s.in \in Seq(Piece)
           /\ s.rst \in BOOLEAN /\ s.pollout \in BOOLEAN /\ s.fin \in BOOLEAN
<1>1. /\ s.got \in Seq(Message) /\ s.sndq \in Seq(Message) /\ s.out \in Seq(Message)
      /\ s.sent \in Seq(Piece) /\ s.rcvq \in Seq(Piece) /\ s.in \in Seq(Piece)
      /\ s.rst \in BOOLEAN /\ s.pollout \in BOOLEAN /\ s.fin \in BOOLEAN
  BY DEF Socket
<1>2. s.got \in Seq(Entry) /\ s.sndq \in Seq(Entry) /\ s.out \in Seq(Entry)
  BY <1>1, NotReplies, SeqMonotonic
<1> QED
  BY <1>1, <1>2

\* What can still reach the client begins with what reached it.
LEMMA ReachableParts ==
    ASSUME NEW s \in Socket
    PROVE  /\ Delivered(s) \in Seq(Reply) /\ Reachable(s) \in Seq(Reply) /\ Asked(s) \in Seq(Reply)
           /\ s.rst => Reachable(s) = Delivered(s)
           /\ ~s.rst =>
                 /\ Reachable(s) = RepliesIn(s.got \o s.sndq) \o RepliesIn(s.out)
                 /\ RepliesIn(s.got \o s.sndq) = Delivered(s) \o RepliesIn(s.sndq)
                 /\ RepliesIn(s.got \o s.sndq) \in Seq(Reply)
                 /\ RepliesIn(s.sndq) \in Seq(Reply) /\ RepliesIn(s.out) \in Seq(Reply)
           /\ Prefix(Delivered(s), Reachable(s), Reply)
<1>1. /\ s.got \in Seq(Entry) /\ s.sndq \in Seq(Entry) /\ s.out \in Seq(Entry)
      /\ s.sent \in Seq(Piece)
  BY SocketSeqs
<1>2. s.got \o s.sndq \in Seq(Entry)
  BY <1>1, ConcatProperties
<1>3. /\ Delivered(s) \in Seq(Reply) /\ Asked(s) \in Seq(Reply)
      /\ RepliesIn(s.got \o s.sndq) \in Seq(Reply)
      /\ RepliesIn(s.sndq) \in Seq(Reply) /\ RepliesIn(s.out) \in Seq(Reply)
  BY <1>1, <1>2, RepliesInType, RepliesType DEF Delivered, Asked
<1>4. RepliesIn(s.got \o s.sndq) = Delivered(s) \o RepliesIn(s.sndq)
  BY <1>1, RepliesInConcat DEF Delivered
<1>5. RepliesIn(s.got \o s.sndq \o s.out) = RepliesIn(s.got \o s.sndq) \o RepliesIn(s.out)
  <2> DEFINE a == s.got \o s.sndq
  <2>1. a \in Seq(Entry) /\ s.out \in Seq(Entry)
    BY <1>1, <1>2
  <2> HIDE DEF a
  <2>2. RepliesIn(a \o s.out) = RepliesIn(a) \o RepliesIn(s.out)
    BY <2>1, RepliesInConcat
  <2> QED
    BY <2>2 DEF a
<1>6. s.rst => Reachable(s) = Delivered(s)
  BY DEF Reachable, Delivered
<1>7. ~s.rst => Reachable(s) = RepliesIn(s.got \o s.sndq) \o RepliesIn(s.out)
  BY <1>5 DEF Reachable, Produced
<1>8. Reachable(s) \in Seq(Reply)
  BY <1>3, <1>6, <1>7, ConcatProperties
<1>9. Prefix(Delivered(s), Reachable(s), Reply)
  <2>1. CASE s.rst
    <3>1. <<>> \in Seq(Reply) /\ Delivered(s) \o <<>> = Delivered(s)
      BY <1>3, EmptySeq, ConcatEmptySeq
    <3> QED
      BY <1>6, <2>1, <3>1 DEF Prefix
  <2>2. CASE ~s.rst
    <3> DEFINE d == Delivered(s)
               x == RepliesIn(s.sndq)
               y == RepliesIn(s.out)
    <3>1. d \in Seq(Reply) /\ x \in Seq(Reply) /\ y \in Seq(Reply) /\ Reachable(s) = (d \o x) \o y
      BY <1>3, <1>4, <1>7, <2>2
    <3> HIDE DEF d, x, y
    <3>2. (d \o x) \o y = d \o (x \o y) /\ x \o y \in Seq(Reply)
      <4>1. d \in Seq(Reply) /\ x \in Seq(Reply) /\ y \in Seq(Reply)
        BY <3>1
      <4> QED
        BY <4>1, ConcatAssociative, ConcatProperties
    <3>3. Prefix(d, Reachable(s), Reply)
      BY <3>1, <3>2 DEF Prefix
    <3> QED
      BY <3>3 DEF d
  <2> QED
    BY <2>1, <2>2
<1> QED
  BY <1>3, <1>4, <1>6, <1>7, <1>8, <1>9

\* close_conn.
LEMMA ClosedAdvanced ==
    ASSUME NEW s \in Socket, Lines(s), NEW why \in Reasons
    PROVE  Advanced(s, Closed(s, why))
<1> DEFINE r == Closed(s, why)
<1>1. <<>> \in Seq(Piece) /\ <<>> \in Seq(Message) /\ Len(<<>>) = 0 /\ <<>> \in Seq(Reply)
  BY EmptySeq
<1>2. r \in Socket
  BY <1>1 DEF Closed, Socket, Reasons
<1>3. /\ r.sndq = s.sndq /\ r.in = <<>> /\ r.out = <<>> /\ r.phase = "closed" /\ r.pollout = FALSE
      /\ r.sent = s.sent /\ r.got = s.got /\ r.rst = s.rst
  BY DEF Closed, Socket
<1> HIDE DEF r
<1>4. NoLine(r.in)
  BY <1>1, <1>3 DEF NoLine
<1>5. Prefix(Reachable(r), Reachable(s), Reply)
  <2>1. CASE s.rst
    <3>1. Reachable(r) = Reachable(s)
      BY <1>3, <2>1 DEF Reachable
    <3>2. Reachable(s) \o <<>> = Reachable(s)
      BY ReachableParts, ConcatEmptySeq
    <3> QED
      BY <1>1, <3>1, <3>2 DEF Prefix
  <2>2. CASE ~s.rst
    <3>1. /\ Reachable(s) = RepliesIn(s.got \o s.sndq) \o RepliesIn(s.out)
          /\ RepliesIn(s.got \o s.sndq) \in Seq(Reply) /\ RepliesIn(s.out) \in Seq(Reply)
      BY <2>2, ReachableParts
    <3>2. Reachable(r) = RepliesIn(s.got \o s.sndq) \o <<>>
      BY <1>2, <1>3, <2>2, ReachableParts, RepliesInEmpty
    <3>3. Reachable(r) = RepliesIn(s.got \o s.sndq)
      BY <3>1, <3>2, ConcatEmptySeq
    <3> QED
      BY <3>1, <3>3 DEF Prefix
  <2> QED
    BY <2>1, <2>2
<1>6. Prefix(Reachable(r), Asked(r), Reply)
  <2>1. Asked(r) = Asked(s) /\ Prefix(Reachable(s), Asked(s), Reply)
    BY <1>3 DEF Lines, Asked
  <2> QED
    BY <1>2, <1>5, <2>1, PrefixTransitive, ReachableParts
<1>7. Lines(r)
  BY <1>3, <1>4, <1>6 DEF Lines
<1>8. Kept(r)
  BY <1>3, <1>7 DEF Kept
<1>9. Advanced(s, r)
  BY <1>3, <1>8 DEF Advanced
<1> QED
  BY <1>9 DEF r

\* flush moves replies from one buffer to the next.
LEMMA FlushAdvanced ==
    ASSUME NEW s, Fits(s), Lines(s)
    PROVE  Advanced(s, Flush(s)) /\ Reachable(Flush(s)) = Reachable(s)
<1> DEFINE sent == IF s.rst THEN 0 ELSE IF Len(s.out) < Room(s) THEN Len(s.out) ELSE Room(s)
           x == SubSeq(s.out, 1, sent)
           y == SubSeq(s.out, sent + 1, Len(s.out))
           r == Flush(s)
<1>1. /\ s.out \in Seq(Message) /\ s.sndq \in Seq(Message) /\ s.got \in Seq(Message)
      /\ s \in Socket /\ Len(s.out) \in Nat /\ Room(s) \in Nat
  <2>1. Len(s.sndq) \in Nat /\ Len(s.sndq) =< SndBuf /\ SndBuf \in Nat
    BY SocketSeqs, LenProperties, Limits DEF Fits
  <2> QED
    BY <2>1, SocketSeqs, LenProperties DEF Fits, Room
<1>2. sent \in 0 .. Len(s.out) /\ (s.rst => sent = 0)
  <2>1. \A a, b \in Nat : (IF a < b THEN a ELSE b) \in 0 .. a
    OBVIOUS
  <2> QED
    BY <1>1, <2>1
<1>3. /\ r \in Socket /\ r.sndq = s.sndq \o x /\ r.out = y /\ r.pollout = (sent < Len(s.out))
      /\ r.in = s.in /\ r.phase = s.phase /\ r.sent = s.sent /\ r.got = s.got /\ r.rst = s.rst
      /\ r.rcvq = s.rcvq
  <2>1. r \in Socket
    BY FlushFits DEF Fits
  <2> DEFINE q == s.sndq \o x
             on == sent < Len(s.out)
  <2>2. r = [s EXCEPT !.sndq = q, !.out = y, !.pollout = on]
    BY DEF Flush
  <2> HIDE DEF q, on, x, y, sent, r
  <2>3. r.sndq = q /\ r.out = y /\ r.pollout = on
    BY <1>1, <2>2 DEF Socket
  <2>4. /\ r.in = s.in /\ r.phase = s.phase /\ r.sent = s.sent /\ r.got = s.got
        /\ r.rst = s.rst /\ r.rcvq = s.rcvq
    BY <1>1, <2>2 DEF Socket
  <2> QED
    BY <2>1, <2>3, <2>4 DEF q, on
<1> HIDE DEF sent, r
<1>4. /\ x \in Seq(Message) /\ y \in Seq(Message) /\ x \o y = s.out
      /\ Len(y) = Len(s.out) - sent /\ (sent = 0 => x = <<>>)
  <2>1. \A i \in 1 .. Len(s.out) : s.out[i] \in Message
    BY <1>1, ElementOfSeq
  <2>2. \A i \in 1 .. sent : s.out[i] \in Message
    BY <1>1, <1>2, <2>1
  <2>3. \A i \in sent + 1 .. Len(s.out) : s.out[i] \in Message
    BY <1>1, <1>2, <2>1
  <2>4. x \in Seq(Message)
    BY <1>2, <2>2, SubSeqProperties
  <2>5. y \in Seq(Message) /\ Len(y) = IF sent + 1 =< Len(s.out) THEN Len(s.out) - (sent + 1) + 1 ELSE 0
    BY <1>1, <1>2, <2>3, SubSeqProperties
  <2>6. Len(y) = Len(s.out) - sent
    <3> HIDE DEF y
    <3> QED
      BY <1>1, <1>2, <2>5
  <2>7. x \o y = s.out
    <3>1. 1 \in 1 .. Len(s.out) + 1 /\ sent \in 1 - 1 .. Len(s.out) /\ Len(s.out) \in sent .. Len(s.out)
      BY <1>1, <1>2
    <3>2. x \o y = SubSeq(s.out, 1, Len(s.out))
      BY <1>1, <3>1, ConcatAdjacentSubSeq
    <3> QED
      BY <1>1, <3>2, SubSeqFull
  <2>8. sent = 0 => x = <<>>
    BY SubSeqEmpty
  <2> QED
    BY <2>4, <2>5, <2>6, <2>7, <2>8
<1> HIDE DEF x, y
<1>5. r.out # <<>> <=> r.pollout
  <2> DEFINE more == sent < Len(s.out)
  <2>1. y = <<>> <=> Len(y) = 0
    BY <1>4, EmptySeq
  <2>2. y # <<>> <=> more
    BY <1>1, <1>2, <1>4, <2>1
  <2>3. r.out = y /\ r.pollout = more
    BY <1>3
  <2> HIDE DEF more
  <2> QED
    BY <2>2, <2>3, Zenon
<1>6. Produced(r) = Produced(s)
  <2>1. Produced(r) = (s.got \o (s.sndq \o x)) \o y /\ Produced(s) = (s.got \o s.sndq) \o (x \o y)
    BY <1>3, <1>4 DEF Produced
  <2>2. s.got \in Seq(Message) /\ s.sndq \in Seq(Message) /\ x \in Seq(Message) /\ y \in Seq(Message)
    BY <1>1, <1>4
  <2> DEFINE gs == s.got \o s.sndq
  <2>3. gs \in Seq(Message)
    BY <2>2, ConcatProperties
  <2>4. s.got \o (s.sndq \o x) = gs \o x
    <3> DEFINE g == s.got
               k == s.sndq
    <3>1. g \in Seq(Message) /\ k \in Seq(Message) /\ x \in Seq(Message)
      BY <2>2
    <3> HIDE DEF g, k
    <3>2. (g \o k) \o x = g \o (k \o x)
      BY <3>1, ConcatAssociative
    <3> QED
      BY <3>2 DEF g, k
  <2> HIDE DEF gs, x, y
  <2>5. (gs \o x) \o y = gs \o (x \o y)
    <3>1. gs \in Seq(Message) /\ x \in Seq(Message) /\ y \in Seq(Message)
      BY <2>2, <2>3
    <3> QED
      BY <3>1, ConcatAssociative
  <2> QED
    BY <2>1, <2>4, <2>5 DEF gs
<1>7. Reachable(r) = Reachable(s)
  BY <1>3, <1>6 DEF Reachable
<1>8. s.rst => r.sndq = <<>>
  BY <1>2, <1>3, <1>4, ConcatEmptySeq DEF Lines
<1>9. s.phase \in {"new", "backlog"} => r.sndq = <<>> /\ r.out = <<>>
  <2> SUFFICES ASSUME s.phase \in {"new", "backlog"} PROVE r.sndq = <<>> /\ r.out = <<>>
    OBVIOUS
  <2>1. s.sndq = <<>> /\ s.out = <<>>
    BY DEF Lines
  <2>2. x = <<>> /\ y = <<>>
    BY <1>4, <2>1, ConcatEqualIffEmpty
  <2> QED
    BY <1>1, <1>3, <2>1, <2>2, ConcatEmptySeq
<1>10. Lines(r)
  BY <1>3, <1>7, <1>8, <1>9 DEF Lines, Asked
<1>11. Kept(r)
  BY <1>5, <1>10 DEF Kept
<1>12. Len(Reachable(s)) =< Len(Reachable(r))
  BY <1>1, <1>7, ReachableParts, LenProperties
<1> QED
  BY <1>3, <1>7, <1>11, <1>12 DEF Advanced, r

\* flush, and close_conn if it fails.
LEMMA FlushOrCloseAdvanced ==
    ASSUME NEW s, Fits(s), Lines(s), NEW why \in Reasons
    PROVE  Advanced(s, FlushOrClose(s, why))
<1> DEFINE f == Flush(s)
           c == Closed(f, why)
<1>1. Advanced(s, f) /\ Fits(f)
  BY FlushAdvanced, FlushFits
<1>2. Lines(f) /\ f \in Socket
  BY <1>1 DEF Advanced, Kept, Fits
<1> HIDE DEF f
<1>3. Advanced(f, c) /\ c.phase = "closed"
  BY <1>1, <1>2, ClosedAdvanced, ClosedBounded
<1> HIDE DEF c
<1>4. Advanced(s, c)
  BY <1>1, <1>3 DEF Advanced
<1> QED
  BY <1>1, <1>4 DEF FlushOrClose, f, c

\* Two things a handler does.
LEMMA AdvancedTwice ==
    ASSUME NEW s \in Socket, NEW r \in Socket, NEW t \in Socket, Advanced(s, r), Advanced(r, t)
    PROVE  Advanced(s, t) \/ r.phase = "closed"
<1>1. Len(Reachable(s)) \in Nat /\ Len(Reachable(r)) \in Nat /\ Len(Reachable(t)) \in Nat
  BY ReachableParts, LenProperties
<1> QED
  BY <1>1 DEF Advanced

\* Reading all there is, and answering the complete lines.
LEMMA ReceivedAdvanced ==
    ASSUME NEW s, Bounded(s), Kept(s), s.phase = "open"
    PROVE  Advanced(s, Received(s))
<1> DEFINE q == s.in \o s.rcvq
           in == Unfinished(q)
           hello == s.hello \/ Has(q, "hello")
           out == s.out \o Replies(q)
           r == [s EXCEPT !.rcvq = <<>>, !.in = in, !.hello = hello, !.out = out]
           long == Len(q) > MaxLine
<1>0. s \in Socket /\ Fits(s) /\ Lines(s) /\ s.rst \in BOOLEAN /\ s.fin \in BOOLEAN
  BY SocketSeqs DEF Bounded, Fits, Kept
<1>1. q \in Seq(Piece) /\ Len(q) \in Nat /\ MaxLine \in Nat
  BY <1>0, SocketSeqs, ConcatProperties, LenProperties, Limits
<1>2. Received(s) = CASE s.rst -> Closed(s, "recv error")
                      [] ~s.rst /\ long -> Closed(s, "line too long")
                      [] ~s.rst /\ ~long /\ s.fin -> Closed(s, "peer closed")
                      [] OTHER -> FlushOrClose(r, "send error")
  <2>1. Len(q) =< MaxLine <=> ~long
    <3> HIDE DEF q
    <3> QED
      BY <1>1
  <2> QED
    BY <2>1 DEF Received
<1> HIDE DEF q
<1>3. ~long => Len(q) =< MaxLine
  BY <1>1
<1> HIDE DEF long
<1>4. CASE s.rst \/ long \/ s.fin
  <2>1. \E why \in {"recv error", "line too long", "peer closed"} : Received(s) = Closed(s, why)
    BY <1>0, <1>2, <1>4
  <2>2. PICK why \in Reasons : Received(s) = Closed(s, why)
    BY <2>1 DEF Reasons
  <2> QED
    BY <1>0, <2>2, ClosedAdvanced
<1>5. CASE ~s.rst /\ ~long /\ ~s.fin
  <2>1. Received(s) = FlushOrClose(r, "send error")
    BY <1>2, <1>5
  <2>2. /\ in \in Seq(Piece) /\ NoLine(in) /\ Len(in) =< MaxLine
        /\ Replies(q) \in Seq(Reply) /\ Replies(q) \in Seq(Message) /\ Replies(q) \in Seq(Entry)
        /\ out \in Seq(Message) /\ hello \in BOOLEAN /\ <<>> \in Seq(Piece)
    <3>1. in \in Seq(Piece) /\ NoLine(in) /\ Len(in) =< Len(q) /\ Len(in) \in Nat
      BY <1>1, Split, UnfinishedShorter, LenProperties
    <3>2. Len(in) =< MaxLine
      BY <1>1, <1>3, <1>5, <3>1
    <3>3. Replies(q) \in Seq(Reply)
      BY <1>1, RepliesType
    <3>4. Replies(q) \in Seq(Message) /\ Replies(q) \in Seq(Entry)
      BY <3>3, SeqMonotonic, NotReplies DEF Message
    <3>5. s.out \o Replies(q) \in Seq(Message)
      BY <1>0, <3>4, SocketSeqs, ConcatProperties
    <3>6. hello \in BOOLEAN /\ <<>> \in Seq(Piece)
      BY <1>0, EmptySeq DEF Socket
    <3> QED
      BY <3>1, <3>2, <3>3, <3>4, <3>5, <3>6
  <2> DEFINE more == Replies(q)
  <2>3. out = s.out \o more
    OBVIOUS
  <2> HIDE DEF in, hello, out
  <2>4. r \in Socket
    BY <1>0, <2>2 DEF Socket
  <2>5. /\ r.rcvq = <<>> /\ r.in = in /\ r.out = out /\ r.phase = "open" /\ r.sndq = s.sndq
        /\ r.sent = s.sent /\ r.got = s.got /\ r.rst = FALSE
    BY <1>0, <1>5 DEF Socket
  <2> HIDE DEF r
  <2>6. Fits(r)
    BY <1>0, <2>2, <2>4, <2>5 DEF Fits
  <2>7. PICK read \in Seq(Piece) : /\ s.sent = read \o s.rcvq
                                   /\ s.in = Unfinished(read)
                                   /\ Reachable(s) = Replies(read)
    BY <1>0, <1>5 DEF Lines
  <2>8. Replies(s.sent) = Replies(read) \o more /\ Unfinished(s.sent) = in
    <3>1. s.rcvq \in Seq(Piece)
      BY <1>0, SocketSeqs
    <3>2. /\ Replies(read \o s.rcvq) = Replies(read) \o Replies(Unfinished(read) \o s.rcvq)
          /\ Unfinished(read \o s.rcvq) = Unfinished(Unfinished(read) \o s.rcvq)
      BY <3>1, RepliesLater
    <3> QED
      BY <2>7, <3>2 DEF q, in
  <2>9. Reachable(r) = Reachable(s) \o more
    <3> DEFINE a == RepliesIn(s.got \o s.sndq)
               b == RepliesIn(s.out)
    <3>1. Reachable(s) = a \o b /\ a \in Seq(Reply) /\ b \in Seq(Reply)
      BY <1>0, <1>5, ReachableParts
    <3>2. Reachable(r) = a \o RepliesIn(out)
      BY <2>4, <2>5, ReachableParts
    <3>3. RepliesIn(out) = b \o RepliesIn(more)
      BY <1>0, <2>2, <2>3, SocketSeqs, RepliesInConcat
    <3>4. RepliesIn(more) = more
      BY <2>2, RepliesInReplies
    <3>5. more \in Seq(Reply)
      BY <2>2
    <3> HIDE DEF a, b, more
    <3>6. \A z \in Seq(Reply) : (a \o b) \o z = a \o (b \o z)
      BY <3>1, ConcatAssociative
    <3> QED
      BY <3>1, <3>2, <3>3, <3>4, <3>5, <3>6
  <2>10. Reachable(r) = Replies(r.sent)
    BY <2>5, <2>7, <2>8, <2>9
  <2>11. Lines(r)
    <3>1. r.sent \in Seq(Piece) /\ r.sent = r.sent \o r.rcvq
      BY <2>4, <2>5, SocketSeqs, ConcatEmptySeq
    <3>2. \E w \in Seq(Piece) : r.sent = w \o r.rcvq /\ r.in = Unfinished(w) /\ Reachable(r) = Replies(w)
      BY <2>5, <2>8, <2>10, <3>1
    <3>3. Reachable(r) \in Seq(Reply) /\ <<>> \in Seq(Reply)
      BY <2>4, ReachableParts, EmptySeq
    <3>4. Asked(r) = Reachable(r) \o <<>>
      BY <2>10, <3>3, ConcatEmptySeq DEF Asked
    <3>5. Prefix(Reachable(r), Asked(r), Reply)
      BY <3>3, <3>4 DEF Prefix
    <3> QED
      BY <2>2, <2>5, <3>2, <3>5 DEF Lines
  <2> DEFINE t == FlushOrClose(r, "send error")
  <2>12. Advanced(r, t)
    BY <2>6, <2>11, FlushOrCloseAdvanced DEF Reasons
  <2>13. Len(Reachable(s)) =< Len(Reachable(r))
    <3>1. Len(Reachable(r)) = Len(Reachable(s)) + Len(more)
      BY <1>0, <2>2, <2>9, ReachableParts, ConcatProperties
    <3>2. Len(Reachable(s)) \in Nat /\ Len(more) \in Nat
      BY <1>0, <2>2, ReachableParts, LenProperties
    <3> HIDE DEF more
    <3> QED
      BY <3>1, <3>2
  <2>14. t \in Socket
    BY <2>6, FlushOrCloseBounded DEF Reasons, Bounded, Fits
  <2>15. /\ Len(Reachable(s)) \in Nat /\ Len(Reachable(r)) \in Nat /\ Len(Reachable(t)) \in Nat
    BY <1>0, <2>4, <2>14, ReachableParts, LenProperties
  <2> HIDE DEF t
  <2>16. Advanced(s, t)
    <3>1. /\ Kept(t) /\ t.sent = r.sent /\ t.got = r.got /\ t.rst = r.rst
          /\ \/ t.phase = "closed"
             \/ t.phase = r.phase /\ Len(Reachable(r)) =< Len(Reachable(t))
      BY <2>12 DEF Advanced
    <3>2. r.rst = s.rst /\ r.phase = s.phase
      BY <1>0, <1>5, <2>5
    <3>3. Len(Reachable(r)) =< Len(Reachable(t)) => Len(Reachable(s)) =< Len(Reachable(t))
      BY <2>13, <2>15
    <3> QED
      BY <2>5, <3>1, <3>2, <3>3 DEF Advanced
  <2> QED
    BY <2>1, <2>16 DEF t
<1> QED
  BY <1>0, <1>4, <1>5

\* on_conn.
LEMMA HandledAdvanced ==
    ASSUME NEW s, Bounded(s), Kept(s), s.phase = "open", NEW events
    PROVE  Advanced(s, Handled(s, events))
<1>0. s \in Socket /\ Fits(s) /\ Lines(s)
  BY DEF Bounded, Fits, Kept
<1>1. CASE "hup" \in events
  BY <1>0, <1>1, ClosedAdvanced DEF Handled, Reasons
<1>2. CASE "hup" \notin events
  <2> DEFINE r == IF "in" \in events THEN Received(s) ELSE s
             t == FlushOrClose(r, "send error")
  <2>1. Advanced(s, s)
    BY <1>0, ReachableParts, LenProperties DEF Advanced
  <2>2. Bounded(r) /\ Advanced(s, r)
    BY <2>1, ReceivedBounded, ReceivedAdvanced
  <2>3. Handled(s, events) = IF r.phase = "open" /\ "out" \in events THEN t ELSE r
    BY <1>2 DEF Handled
  <2> HIDE DEF r
  <2>4. r \in Socket /\ Fits(r) /\ Lines(r)
    BY <2>2 DEF Bounded, Fits, Advanced, Kept
  <2>5. t \in Socket /\ Advanced(r, t)
    BY <2>4, FlushOrCloseBounded, FlushOrCloseAdvanced DEF Reasons, Bounded, Fits
  <2> HIDE DEF t
  <2>6. r.phase = "open" => Advanced(s, t)
    BY <1>0, <2>2, <2>4, <2>5, AdvancedTwice
  <2> QED
    BY <2>2, <2>3, <2>6
<1> QED
  BY <1>1, <1>2

\* A ping or a bye is no reply.
LEMMA NoteAdded ==
    ASSUME NEW s, Fits(s), Lines(s), s.phase = "open", NEW m \in {Ping, Bye},
           NEW r, Fits(r), r.out = Append(s.out, m),
           r.in = s.in, r.rst = s.rst, r.sndq = s.sndq, r.phase = s.phase, r.sent = s.sent,
           r.rcvq = s.rcvq, r.got = s.got
    PROVE  Lines(r) /\ Reachable(r) = Reachable(s)
<1>1. s \in Socket /\ r \in Socket /\ s.out \in Seq(Entry) /\ m \in Entry /\ s.rst \in BOOLEAN
  BY SocketSeqs DEF Fits, Entry
<1>2. RepliesIn(r.out) = RepliesIn(s.out)
  BY <1>1, RepliesInAppend
<1>3. Reachable(r) = Reachable(s)
  <2>1. CASE s.rst
    BY <2>1 DEF Reachable
  <2>2. CASE ~s.rst
    <3>1. Reachable(s) = RepliesIn(s.got \o s.sndq) \o RepliesIn(s.out)
      BY <1>1, <2>2, ReachableParts
    <3>2. Reachable(r) = RepliesIn(r.got \o r.sndq) \o RepliesIn(r.out)
      BY <1>1, <2>2, ReachableParts
    <3> QED
      BY <1>2, <3>1, <3>2
  <2> QED
    BY <2>1, <2>2
<1> QED
  BY <1>3 DEF Lines, Asked

\* What flush makes of it.
LEMMA NoteAdvanced ==
    ASSUME NEW s, Fits(s), Lines(s), s.phase = "open", NEW m \in {Ping, Bye},
           NEW r, Fits(r), r.out = Append(s.out, m),
           r.in = s.in, r.rst = s.rst, r.sndq = s.sndq, r.phase = s.phase, r.sent = s.sent,
           r.rcvq = s.rcvq, r.got = s.got
    PROVE  Advanced(s, Flush(r)) /\ \A why \in Reasons : Advanced(s, FlushOrClose(r, why))
<1>1. Lines(r) /\ Reachable(r) = Reachable(s)
  BY NoteAdded
<1>2. Advanced(r, Flush(r)) /\ \A why \in Reasons : Advanced(r, FlushOrClose(r, why))
  BY <1>1, FlushAdvanced, FlushOrCloseAdvanced
<1>3. ASSUME NEW t, Advanced(r, t) PROVE Advanced(s, t)
  BY <1>1, <1>3 DEF Advanced
<1> QED
  BY <1>2, <1>3

\* on_tick for one connection.
LEMMA TickedAdvanced ==
    ASSUME NEW s, Bounded(s), Kept(s), s.phase = "open", now \in Nat
    PROVE  Advanced(s, Ticked(s))
<1>0. s \in Socket /\ Fits(s) /\ Lines(s) /\ s.out \in Seq(Message)
  BY SocketSeqs DEF Bounded, Fits, Kept
<1>1. Advanced(s, Closed(s, "timeout"))
  BY <1>0, ClosedAdvanced DEF Reasons
<1>2. Advanced(s, s)
  BY <1>0, ReachableParts, LenProperties DEF Advanced
<1>3. Advanced(s, FlushOrClose([s EXCEPT !.out = Append(@, Ping), !.last_ping = now], "timeout"))
  <2> DEFINE out == Append(s.out, Ping)
             r == [s EXCEPT !.out = out, !.last_ping = now]
  <2>1. out \in Seq(Message)
    BY <1>0, AppendProperties DEF Message
  <2> HIDE DEF out
  <2>2. r \in Socket
    BY <1>0, <2>1 DEF Socket
  <2>3. /\ r.out = out /\ r.in = s.in /\ r.rst = s.rst /\ r.sndq = s.sndq /\ r.phase = s.phase
        /\ r.sent = s.sent /\ r.rcvq = s.rcvq /\ r.got = s.got
    BY <1>0 DEF Socket
  <2> HIDE DEF r
  <2>4. Fits(r) /\ r.out = Append(s.out, Ping)
    BY <1>0, <2>2, <2>3 DEF Fits, out
  <2>5. Advanced(s, FlushOrClose(r, "timeout"))
    BY <1>0, <2>3, <2>4, NoteAdvanced DEF Reasons
  <2> QED
    BY <2>5 DEF r, out
<1> QED
  BY <1>1, <1>2, <1>3 DEF Ticked

-----------------------------------------------------------------------------
(* The steps of LineService, for one connection *)

Quietly(s, r) ==
    /\ Asked(r) = Asked(s) /\ Reachable(r) = Reachable(s)
    /\ Delivered(r) = Delivered(s) /\ Ended(r) = Ended(s)

Serves(s, r) ==
    /\ ~Ended(s)
    /\ Len(Reachable(r)) \in Len(Delivered(s)) .. Len(Asked(s))
    /\ Reachable(r) = SubSeq(Asked(s), 1, Len(Reachable(r)))
    /\ Len(Reachable(r)) < Len(Reachable(s)) => Ended(r)
    /\ Asked(r) = Asked(s) /\ Delivered(r) = Delivered(s)

Delivers(s, r) ==
    /\ Len(Delivered(s)) < Len(Reachable(s))
    /\ Delivered(r) = SubSeq(Reachable(s), 1, Len(Delivered(s)) + 1)
    /\ Asked(r) = Asked(s) /\ Reachable(r) = Reachable(s) /\ Ended(r) = Ended(s)

Asks(s, r) ==
    /\ Asked(r) # Asked(s)
    /\ Len(Asked(r)) = Len(Asked(s)) + 1
    /\ SubSeq(Asked(r), 1, Len(Asked(s))) = Asked(s)
    /\ Reachable(r) = Reachable(s) /\ Delivered(r) = Delivered(s) /\ Ended(r) = Ended(s)

Moved(s, r) == Kept(r) /\ (Quietly(s, r) \/ Serves(s, r) \/ Delivers(s, r) \/ Asks(s, r))

\* What the handlers do to a connection that is not closed is a step of the
\* service.
LEMMA AdvancedMoved ==
    ASSUME NEW s \in Socket, NEW r \in Socket, s.phase # "closed", Advanced(s, r)
    PROVE  Moved(s, r)
<1>1. /\ Kept(r) /\ Asked(r) = Asked(s) /\ Delivered(r) = Delivered(s) /\ r.rst = s.rst
      /\ r.phase = "closed" \/ Len(Reachable(s)) =< Len(Reachable(r))
      /\ r.phase = "closed" \/ r.phase = s.phase
  BY DEF Advanced, Asked, Delivered
<1>2. CASE s.rst
  <2>1. Reachable(r) = Reachable(s)
    BY <1>1, <1>2, ReachableParts
  <2> QED
    BY <1>1, <1>2, <2>1 DEF Moved, Quietly, Ended
<1>3. CASE ~s.rst
  <2>1. Prefix(Reachable(r), Asked(r), Reply) /\ Prefix(Delivered(r), Reachable(r), Reply)
    BY <1>1, ReachableParts DEF Kept, Lines
  <2>2. /\ Len(Reachable(r)) \in Nat /\ Len(Asked(r)) \in Nat /\ Len(Delivered(r)) \in Nat
        /\ Len(Reachable(r)) =< Len(Asked(r)) /\ Len(Delivered(r)) =< Len(Reachable(r))
        /\ Reachable(r) = SubSeq(Asked(r), 1, Len(Reachable(r)))
    BY <2>1, ReachableParts, PrefixIsSubSeq
  <2>3. Len(Reachable(s)) \in Nat
    BY ReachableParts, LenProperties
  <2>4. Len(Reachable(r)) < Len(Reachable(s)) => Ended(r)
    BY <1>1, <2>2, <2>3 DEF Ended
  <2>5. Len(Reachable(r)) \in Len(Delivered(s)) .. Len(Asked(s))
    BY <1>1, <2>2
  <2>6. Serves(s, r)
    BY <1>1, <1>3, <2>2, <2>4, <2>5 DEF Serves, Ended
  <2> QED
    BY <1>1, <2>6 DEF Moved
<1> QED
  BY <1>2, <1>3

\* A connection that is accepted.
LEMMA OpenedMoved ==
    ASSUME NEW s \in Socket, Kept(s), s.phase = "backlog",
           NEW r \in Socket, r.phase = "open",
           r.sent = s.sent, r.rcvq = s.rcvq, r.rst = s.rst, r.in = s.in, r.out = s.out,
           r.sndq = s.sndq, r.got = s.got, r.pollout = s.pollout
    PROVE  Moved(s, r)
<1>1. /\ Reachable(r) = Reachable(s) /\ Asked(r) = Asked(s) /\ Delivered(r) = Delivered(s)
      /\ Ended(r) = Ended(s)
  <2>1. Produced(r) = Produced(s)
    BY DEF Produced
  <2> QED
    BY <2>1 DEF Reachable, Asked, Delivered, Ended
<1>2. ~s.rst => \E read \in Seq(Piece) : /\ r.sent = read \o r.rcvq
                                         /\ r.in = Unfinished(read)
                                         /\ Reachable(r) = Replies(read)
  <2> SUFFICES ASSUME ~s.rst
               PROVE  /\ <<>> \in Seq(Piece) /\ r.sent = <<>> \o r.rcvq
                      /\ r.in = Unfinished(<<>>) /\ Reachable(r) = Replies(<<>>)
    OBVIOUS
  <2>1. s.got = <<>> /\ s.sndq = <<>> /\ s.out = <<>> /\ s.in = <<>> /\ s.rcvq = s.sent
    BY DEF Kept, Lines
  <2>2. <<>> \in Seq(Piece) /\ <<>> \in Seq(Entry) /\ Len(<<>>) = 0
    BY EmptySeq
  <2>3. r.sent = <<>> \o r.rcvq
    BY <2>1, SocketSeqs, ConcatEmptySeq
  <2>4. NoLine(<<>>)
    BY <2>2 DEF NoLine
  <2>5. Replies(<<>>) = <<>>
    BY <2>2, <2>4, NoLineNoReplies
  <2>6. Unfinished(<<>>) = <<>>
    <3>1. Unfinished(<<>>) \in Seq(Piece) /\ Len(Unfinished(<<>>)) =< 0
      BY <2>2, UnfinishedShorter
    <3>2. Len(Unfinished(<<>>)) \in Nat
      BY <3>1, LenProperties
    <3> QED
      BY <3>1, <3>2, EmptySeq
  <2>7. Reachable(r) = <<>>
    <3>1. <<>> \o <<>> = <<>>
      BY <2>2, ConcatEmptySeq
    <3>2. Produced(r) = <<>>
      BY <2>1, <3>1 DEF Produced
    <3> QED
      BY <3>2, RepliesInEmpty DEF Reachable
  <2> QED
    BY <2>1, <2>2, <2>3, <2>5, <2>6, <2>7
<1>3. Lines(r)
  BY <1>1, <1>2 DEF Kept, Lines
<1> QED
  BY <1>1, <1>3 DEF Kept, Moved, Quietly

\* A connection of which only the client's end, or nothing, changes; or one
\* that enters the backlog.
LEMMA SameMoved ==
    ASSUME NEW s, Kept(s), NEW r,
           r.phase = s.phase \/ (s.phase = "new" /\ r.phase = "backlog"),
           r.sent = s.sent, r.rcvq = s.rcvq, r.rst = s.rst, r.in = s.in, r.out = s.out,
           r.sndq = s.sndq, r.got = s.got, r.pollout = s.pollout
    PROVE  Moved(s, r)
<1>1. /\ Reachable(r) = Reachable(s) /\ Asked(r) = Asked(s) /\ Delivered(r) = Delivered(s)
      /\ Ended(r) = Ended(s)
  <2>1. Produced(r) = Produced(s)
    BY DEF Produced
  <2> QED
    BY <2>1 DEF Reachable, Asked, Delivered, Ended
<1>2. Lines(r)
  BY <1>1 DEF Kept, Lines
<1> QED
  BY <1>1, <1>2 DEF Kept, Moved, Quietly

\* A client sends a piece.
LEMMA SentMoved ==
    ASSUME NEW s \in Socket, Kept(s), ~s.rst, s.phase \in {"backlog", "open"},
           NEW piece \in Piece, NEW r \in Socket,
           r.sent = Append(s.sent, piece), r.rcvq = Append(s.rcvq, piece), r.phase = s.phase,
           r.rst = s.rst, r.in = s.in, r.out = s.out, r.sndq = s.sndq, r.got = s.got,
           r.pollout = s.pollout
    PROVE  Moved(s, r)
<1>1. Reachable(r) = Reachable(s) /\ Delivered(r) = Delivered(s) /\ Ended(r) = Ended(s)
  <2>1. Produced(r) = Produced(s)
    BY DEF Produced
  <2> QED
    BY <2>1 DEF Reachable, Delivered, Ended
<1>2. Asked(s) \in Seq(Reply) /\ Asked(r) \in Seq(Reply) /\ Reachable(s) \in Seq(Reply)
  BY ReachableParts
<1>3. Asked(r) = Asked(s) \/ \E x \in Reply : Asked(r) = Append(Asked(s), x)
  BY SocketSeqs, RepliesMore DEF Asked
<1>4. Prefix(Asked(s), Asked(r), Reply)
  <2>1. CASE Asked(r) = Asked(s)
    <3>1. <<>> \in Seq(Reply) /\ Asked(s) \o <<>> = Asked(s)
      BY <1>2, EmptySeq, ConcatEmptySeq
    <3> QED
      BY <2>1, <3>1 DEF Prefix
  <2>2. ASSUME NEW x \in Reply, Asked(r) = Append(Asked(s), x) PROVE Prefix(Asked(s), Asked(r), Reply)
    <3>1. <<x>> \in Seq(Reply) /\ Append(Asked(s), x) = Asked(s) \o <<x>>
      BY <1>2, AppendIsConcat
    <3> QED
      BY <2>2, <3>1 DEF Prefix
  <2> QED
    BY <1>3, <2>1, <2>2
<1>5. Prefix(Reachable(r), Asked(r), Reply)
  BY <1>1, <1>2, <1>4, PrefixTransitive DEF Kept, Lines
<1>6. s.phase = "open" => \E read \in Seq(Piece) : /\ r.sent = read \o r.rcvq
                                                   /\ r.in = Unfinished(read)
                                                   /\ Reachable(r) = Replies(read)
  <2> SUFFICES ASSUME s.phase = "open"
               PROVE  \E read \in Seq(Piece) : /\ r.sent = read \o r.rcvq
                                               /\ r.in = Unfinished(read)
                                               /\ Reachable(r) = Replies(read)
    OBVIOUS
  <2>1. PICK read \in Seq(Piece) : /\ s.sent = read \o s.rcvq
                                   /\ s.in = Unfinished(read)
                                   /\ Reachable(s) = Replies(read)
    BY DEF Kept, Lines
  <2>2. r.sent = read \o r.rcvq
    <3> DEFINE rest == s.rcvq
    <3>1. rest \in Seq(Piece) /\ r.rcvq = Append(rest, piece) /\ r.sent = Append(read \o rest, piece)
      BY <2>1, SocketSeqs
    <3> HIDE DEF rest
    <3>2. read \o Append(rest, piece) = Append(read \o rest, piece)
      BY <3>1, AppendOfConcat
    <3> QED
      BY <3>1, <3>2
  <2> QED
    BY <1>1, <2>1, <2>2
<1>7. Lines(r)
  BY <1>5, <1>6 DEF Kept, Lines
<1>8. CASE Asked(r) = Asked(s)
  BY <1>1, <1>7, <1>8 DEF Kept, Moved, Quietly
<1>9. CASE Asked(r) # Asked(s)
  <2>1. PICK x \in Reply : Asked(r) = Append(Asked(s), x)
    BY <1>3, <1>9
  <2>2. Len(Asked(r)) = Len(Asked(s)) + 1
    BY <1>2, <2>1, AppendProperties
  <2>3. SubSeq(Asked(r), 1, Len(Asked(s))) = Asked(s)
    BY <1>2, <1>4, PrefixIsSubSeq
  <2>4. Asks(s, r)
    BY <1>1, <1>9, <2>2, <2>3 DEF Asks
  <2> QED
    BY <1>7, <2>4 DEF Kept, Moved
<1> QED
  BY <1>8, <1>9

\* A client reads the next message.
LEMMA ReadMoved ==
    ASSUME NEW s \in Socket, Kept(s), s.sndq # <<>>, NEW r \in Socket,
           r.sndq = Tail(s.sndq), r.got = Append(s.got, Head(s.sndq)), r.phase = s.phase,
           r.sent = s.sent, r.rcvq = s.rcvq, r.rst = s.rst, r.in = s.in, r.out = s.out,
           r.pollout = s.pollout
    PROVE  Moved(s, r)
<1>1. ~s.rst /\ s.phase \notin {"new", "backlog"}
  BY DEF Kept, Lines
<1> DEFINE g == s.got
           h == Head(s.sndq)
           t == Tail(s.sndq)
<1>2. /\ g \in Seq(Message) /\ h \in Message /\ t \in Seq(Message) /\ <<h>> \in Seq(Message)
      /\ g \in Seq(Entry) /\ h \in Entry
  BY SocketSeqs, HeadTailProperties, NotReplies
<1>3. s.sndq = <<h>> \o t
  BY SocketSeqs, HeadAndTail
<1>4. r.got = Append(g, h) /\ r.sndq = t
  OBVIOUS
<1> HIDE DEF g, h, t
<1>5. r.got \o r.sndq = s.got \o s.sndq
  <2>1. Append(g, h) = g \o <<h>>
    BY <1>2, AppendIsConcat
  <2>2. (g \o <<h>>) \o t = g \o (<<h>> \o t)
    BY <1>2, ConcatAssociative
  <2> QED
    BY <1>3, <1>4, <2>1, <2>2 DEF g
<1>6. Reachable(r) = Reachable(s) /\ Asked(r) = Asked(s) /\ Ended(r) = Ended(s)
  <2>1. Produced(r) = Produced(s)
    BY <1>5 DEF Produced
  <2> QED
    BY <1>1, <2>1 DEF Reachable, Asked, Ended
<1>7. Kept(r)
  BY <1>1, <1>6 DEF Kept, Lines
<1>8. CASE h \in {None, Ping, Bye}
  <2>1. Delivered(r) = Delivered(s)
    BY <1>2, <1>4, <1>8, RepliesInAppend DEF Delivered, g
  <2> QED
    BY <1>6, <1>7, <2>1 DEF Moved, Quietly
<1>9. CASE h \notin {None, Ping, Bye}
  <2>1. Delivered(r) = Append(Delivered(s), h) /\ h \in Reply
    BY <1>2, <1>4, <1>9, RepliesInAppend DEF Delivered, g, Entry
  <2>2. /\ Delivered(s) \in Seq(Reply) /\ Delivered(r) \in Seq(Reply) /\ Reachable(r) \in Seq(Reply)
        /\ Prefix(Delivered(r), Reachable(r), Reply)
    BY ReachableParts
  <2>3. Len(Delivered(r)) = Len(Delivered(s)) + 1 /\ Len(Delivered(s)) \in Nat
    BY <2>1, <2>2, AppendProperties, LenProperties
  <2>4. /\ Len(Delivered(r)) =< Len(Reachable(r)) /\ Len(Reachable(r)) \in Nat
        /\ Delivered(r) = SubSeq(Reachable(r), 1, Len(Delivered(r)))
    BY <2>2, PrefixIsSubSeq
  <2>5. Len(Delivered(s)) < Len(Reachable(s))
    BY <1>6, <2>3, <2>4
  <2>6. Delivers(s, r)
    BY <1>6, <2>3, <2>4, <2>5 DEF Delivers
  <2> QED
    BY <1>7, <2>6 DEF Moved
<1> QED
  BY <1>8, <1>9

\* A connection that breaks keeps what the client has read.
LEMMA ResetMoved ==
    ASSUME NEW s \in Socket, Kept(s), ~s.rst, s.phase \in {"backlog", "open"}, NEW r \in Socket,
           r.rst = TRUE, r.rcvq = <<>>, r.sndq = <<>>, r.phase = s.phase,
           r.sent = s.sent, r.in = s.in, r.out = s.out, r.got = s.got, r.pollout = s.pollout
    PROVE  Moved(s, r)
<1>1. /\ Asked(r) = Asked(s) /\ Delivered(r) = Delivered(s) /\ Reachable(r) = Delivered(s)
      /\ Ended(r) /\ ~Ended(s)
  BY DEF Asked, Delivered, Reachable, Ended
<1>2. /\ Delivered(s) \in Seq(Reply) /\ Asked(s) \in Seq(Reply) /\ Reachable(s) \in Seq(Reply)
      /\ Prefix(Delivered(s), Reachable(s), Reply) /\ Prefix(Reachable(s), Asked(s), Reply)
  BY ReachableParts DEF Kept, Lines
<1>3. Prefix(Delivered(s), Asked(s), Reply)
  BY <1>2, PrefixTransitive
<1>4. Lines(r)
  BY <1>1, <1>3 DEF Kept, Lines
<1>5. /\ Len(Delivered(s)) \in Nat /\ Len(Asked(s)) \in Nat /\ Len(Delivered(s)) =< Len(Asked(s))
      /\ Delivered(s) = SubSeq(Asked(s), 1, Len(Delivered(s)))
  BY <1>2, <1>3, PrefixIsSubSeq
<1>6. Len(Reachable(r)) \in Len(Delivered(s)) .. Len(Asked(s))
  BY <1>1, <1>5
<1>7. Serves(s, r)
  BY <1>1, <1>5, <1>6 DEF Serves
<1> QED
  BY <1>4, <1>7 DEF Kept, Moved

-----------------------------------------------------------------------------
(* The steps of the server, for all connections *)

\* A connection waits in the backlog once, until it is accepted.
Waiting ==
    /\ \A i \in 1 .. Len(backlog) : sock[backlog[i]].phase = "backlog"
    /\ \A i, j \in 1 .. Len(backlog) : backlog[i] = backlog[j] => i = j

Content == Waiting /\ \A p \in Peers : Kept(sock[p])

AllMoved == \A p \in Peers : Moved(sock[p], sock'[p])

LEMMA WaitingKept ==
    ASSUME IInv, Waiting, UNCHANGED backlog,
           \A p \in Peers : sock[p].phase = "backlog" => sock'[p].phase = "backlog"
    PROVE  Waiting'
<1>1. \A i \in 1 .. Len(backlog) : backlog[i] \in Peers
  BY ElementOfSeq DEF IInv, Types
<1> QED
  BY <1>1 DEF Waiting

\* Steps that touch no connection.
LEMMA NobodyMoved ==
    ASSUME IInv, Content, UNCHANGED <<backlog, sock>>
    PROVE  Waiting' /\ AllMoved
<1>1. \A p \in Peers : Moved(sock[p], sock'[p])
  BY SameMoved DEF Content
<1> QED
  BY <1>1, WaitingKept DEF Content, AllMoved

\* Steps that touch one connection, and leave it in the backlog if it is there.
LEMMA OneMoved ==
    ASSUME IInv, Content, NEW p \in Peers, NEW r, Moved(sock[p], r),
           sock' = [sock EXCEPT ![p] = r], UNCHANGED backlog,
           sock[p].phase = "backlog" => r.phase = "backlog"
    PROVE  Waiting' /\ AllMoved
<1>1. \A u \in Peers : sock'[u] = IF u = p THEN r ELSE sock[u]
  BY DEF IInv, Types
<1>2. \A u \in Peers : Moved(sock[u], sock'[u])
  BY <1>1, SameMoved DEF Content
<1>3. \A u \in Peers : sock[u].phase = "backlog" => sock'[u].phase = "backlog"
  BY <1>1
<1> QED
  BY <1>2, <1>3, WaitingKept DEF Content, AllMoved

\* accept_all takes the first connections of the backlog.
LEMMA AcceptAllMoves ==
    ASSUME IInv, IInv', Content, AcceptAll
    PROVE  Waiting' /\ AllMoved
<1> DEFINE free == Fds \ Open
           n == IF Len(backlog) < Cardinality(free) THEN Len(backlog) ELSE Cardinality(free)
           accepted == {backlog[i] : i \in 1 .. n}
           opened(s) == [s EXCEPT !.phase = "open", !.opened_at = now, !.last_ping = now]
           rest == SubSeq(backlog, n + 1, Len(backlog))
<1>1. /\ backlog' = rest
      /\ sock' = [p \in Peers |-> IF p \in accepted THEN opened(sock[p]) ELSE sock[p]]
  BY DEF AcceptAll
<1>2. backlog \in Seq(Peers) /\ Len(backlog) \in Nat
  BY DEF IInv, Types
<1>3. n \in 0 .. Len(backlog)
  <2>1. IsFiniteSet(free)
    BY ServerAssumption, FS_Subset
  <2>2. Cardinality(free) \in Nat
    BY <2>1, FS_CardinalityType
  <2> QED
    BY <1>2, <2>2
<1> HIDE DEF n
<1>4. /\ \A i \in 1 .. Len(backlog) : backlog[i] \in Peers /\ sock[backlog[i]].phase = "backlog"
      /\ \A i, j \in 1 .. Len(backlog) : backlog[i] = backlog[j] => i = j
  BY <1>2, ElementOfSeq DEF Content, Waiting
<1>5. \A p \in accepted : p \in Peers /\ sock[p].phase = "backlog"
  BY <1>2, <1>3, <1>4
<1>6. \A p \in Peers : sock'[p] = IF p \in accepted THEN opened(sock[p]) ELSE sock[p]
  BY <1>1
<1>7. Len(rest) = Len(backlog) - n /\ \A i \in 1 .. Len(backlog) - n : rest[i] = backlog[n + i]
  <2>1. \A i \in n + 1 .. Len(backlog) : backlog[i] \in Peers
    BY <1>2, <1>3, <1>4
  <2>2. Len(rest) = IF n + 1 =< Len(backlog) THEN Len(backlog) - (n + 1) + 1 ELSE 0
    BY <1>2, <1>3, <2>1, SubSeqProperties
  <2>3. \A i \in 1 .. Len(backlog) - (n + 1) + 1 : rest[i] = backlog[(n + 1) + i - 1]
    BY <1>2, <1>3, <2>1, SubSeqProperties
  <2>4. \A i \in 1 .. Len(backlog) - n : /\ i \in 1 .. Len(backlog) - (n + 1) + 1
                                         /\ (n + 1) + i - 1 = n + i
    BY <1>2, <1>3
  <2> HIDE DEF rest
  <2>5. \A i \in 1 .. Len(backlog) - n : rest[i] = backlog[n + i]
    BY <2>3, <2>4
  <2> QED
    BY <1>2, <1>3, <2>2, <2>5
<1> HIDE DEF rest
<1>8. Waiting'
  <2>1. ASSUME NEW i \in 1 .. Len(rest)
        PROVE  /\ n + i \in 1 .. Len(backlog) /\ rest[i] = backlog[n + i]
               /\ rest[i] \in Peers /\ rest[i] \notin accepted
    <3>1. n + i \in 1 .. Len(backlog) /\ rest[i] = backlog[n + i]
      BY <1>2, <1>3, <1>7
    <3>2. \A j \in 1 .. n : j \in 1 .. Len(backlog) /\ j # n + i
      BY <1>2, <1>3, <1>7
    <3> QED
      BY <1>4, <3>1, <3>2
  <2>2. \A i \in 1 .. Len(rest) : sock'[rest[i]].phase = "backlog"
    <3> SUFFICES ASSUME NEW i \in 1 .. Len(rest) PROVE sock'[rest[i]].phase = "backlog"
      OBVIOUS
    <3>1. sock'[rest[i]] = sock[rest[i]]
      BY <1>6, <2>1
    <3>2. sock[rest[i]].phase = "backlog"
      BY <1>4, <2>1
    <3> QED
      BY <3>1, <3>2
  <2>3. \A i, j \in 1 .. Len(rest) : rest[i] = rest[j] => i = j
    <3> SUFFICES ASSUME NEW i \in 1 .. Len(rest), NEW j \in 1 .. Len(rest), rest[i] = rest[j]
                 PROVE  i = j
      OBVIOUS
    <3>1. n + i = n + j
      BY <1>4, <2>1
    <3> QED
      BY <1>2, <1>3, <1>7, <3>1
  <2> QED
    BY <1>1, <2>2, <2>3 DEF Waiting
<1>9. ASSUME NEW p \in Peers PROVE Moved(sock[p], sock'[p])
  <2>1. Kept(sock[p]) /\ sock[p] \in Socket /\ sock'[p] \in Socket
    BY DEF Content, IInv, Types
  <2>2. CASE p \in accepted
    <3>1. sock[p].phase = "backlog"
      BY <1>5, <2>2
    <3> DEFINE s == sock[p]
               r == sock'[p]
    <3>2. r = opened(s)
      BY <1>6, <2>2
    <3>3. s \in Socket
      BY <2>1
    <3> HIDE DEF s, r
    <3>4. /\ r.phase = "open"
          /\ r.sent = s.sent /\ r.rcvq = s.rcvq /\ r.rst = s.rst /\ r.in = s.in /\ r.out = s.out
          /\ r.sndq = s.sndq /\ r.got = s.got /\ r.pollout = s.pollout
      BY <3>2, <3>3 DEF Socket
    <3> QED
      BY <2>1, <3>1, <3>4, OpenedMoved DEF s, r
  <2>3. CASE p \notin accepted
    <3>1. sock'[p] = sock[p]
      BY <1>6, <2>3
    <3> QED
      BY <2>1, <3>1, SameMoved
  <2> QED
    BY <2>2, <2>3
<1> QED
  BY <1>8, <1>9 DEF AllMoved

\* on_tick.
LEMMA OnTickMoves ==
    ASSUME IInv, IInv', Content, OnTick
    PROVE  Waiting' /\ AllMoved
<1>1. /\ sock' = [p \in Peers |-> IF sock[p].phase = "open" THEN Ticked(sock[p]) ELSE sock[p]]
      /\ UNCHANGED backlog
  BY DEF OnTick
<1>2. ASSUME NEW p \in Peers
      PROVE  Moved(sock[p], sock'[p]) /\ (sock[p].phase = "backlog" => sock'[p].phase = "backlog")
  <2>1. /\ Kept(sock[p]) /\ Bounded(sock[p]) /\ sock[p] \in Socket /\ sock'[p] \in Socket
        /\ now \in Nat
    BY DEF Content, IInv, Types, Buffers
  <2>2. CASE sock[p].phase = "open"
    <3>1. sock'[p] = Ticked(sock[p])
      BY <1>1, <2>2
    <3>2. Advanced(sock[p], Ticked(sock[p]))
      BY <2>1, <2>2, TickedAdvanced
    <3> QED
      BY <2>1, <2>2, <3>1, <3>2, AdvancedMoved
  <2>3. CASE sock[p].phase # "open"
    <3>1. sock'[p] = sock[p]
      BY <1>1, <2>3
    <3> QED
      BY <2>1, <3>1, SameMoved
  <2> QED
    BY <2>2, <2>3
<1> QED
  BY <1>1, <1>2, WaitingKept DEF Content, AllMoved

\* on_conn.
LEMMA OnConnMoves ==
    ASSUME IInv, IInv', Content, NEW e \in batch, OnConn(e)
    PROVE  Waiting' /\ AllMoved
<1>1. UNCHANGED backlog
  BY DEF OnConn
<1>2. CASE e.fd \in Open
  <2> DEFINE p == conns[e.fd]
             r == Handled(sock[p], e.events)
  <2>1. p \in Peers /\ sock[p].phase = "open"
    BY <1>2 DEF IInv, Connections
  <2>2. sock' = [sock EXCEPT ![p] = r]
    BY <1>2 DEF OnConn
  <2>3. Kept(sock[p]) /\ Bounded(sock[p]) /\ sock[p] \in Socket
    BY <2>1 DEF Content, IInv, Types, Buffers
  <2>4. r \in Socket /\ Advanced(sock[p], r)
    BY <2>1, <2>3, HandledBounded, HandledAdvanced DEF Bounded, Fits
  <2> HIDE DEF r
  <2>5. Moved(sock[p], r)
    BY <2>1, <2>3, <2>4, AdvancedMoved
  <2> QED
    BY <1>1, <2>1, <2>2, <2>5, OneMoved
<1>3. CASE e.fd \notin Open
  BY <1>1, <1>3, NobodyMoved DEF OnConn
<1> QED
  BY <1>2, <1>3

\* The end of the process, after what may still be done for each connection.
LEMMA GoneMoves ==
    ASSUME IInv, IInv', Content, NEW socks, ProcessGone(socks),
           \A p \in Peers : \/ socks[p] = sock[p]
                            \/ /\ sock[p].phase = "open" /\ socks[p] \in Socket
                               /\ Advanced(sock[p], socks[p]) /\ socks[p].phase = "open"
    PROVE  Waiting' /\ AllMoved
<1>1. sock' = [p \in Peers |-> Exited(socks[p])] /\ backlog' = <<>>
  BY DEF ProcessGone
<1>2. Waiting'
  <2>1. 1 .. Len(<<>>) = {}
    OBVIOUS
  <2> QED
    BY <1>1, <2>1 DEF Waiting
<1>3. ASSUME NEW p \in Peers PROVE Moved(sock[p], sock'[p])
  <2> DEFINE s == sock[p]
             t == socks[p]
             r == sock'[p]
  <2>1. Kept(s) /\ Lines(s) /\ s \in Socket /\ r \in Socket
    BY DEF Content, IInv, Types, Kept
  <2>2. r = Exited(t)
    BY <1>1
  <2>3. \/ t = s
        \/ s.phase = "open" /\ t \in Socket /\ Advanced(s, t) /\ t.phase = "open"
    OBVIOUS
  <2> HIDE DEF s, t, r
  <2>4. CASE t = s /\ s.phase \in {"open", "backlog"}
    <3>1. r = Closed(s, "exit")
      BY <2>2, <2>4 DEF Exited
    <3>2. Advanced(s, r)
      BY <2>1, <3>1, ClosedAdvanced DEF Reasons
    <3> QED
      BY <2>1, <2>4, <3>2, AdvancedMoved DEF s, r
  <2>5. CASE t = s /\ s.phase \notin {"open", "backlog"}
    <3>1. r = s
      BY <2>2, <2>5 DEF Exited
    <3> QED
      BY <2>1, <3>1, SameMoved DEF s, r
  <2>6. CASE s.phase = "open" /\ t \in Socket /\ Advanced(s, t) /\ t.phase = "open"
    <3>1. r = Closed(t, "exit") /\ Lines(t)
      BY <2>2, <2>6 DEF Exited, Advanced, Kept
    <3>2. Advanced(t, r)
      BY <2>6, <3>1, ClosedAdvanced DEF Reasons
    <3>3. Advanced(s, r)
      BY <2>1, <2>6, <3>2, AdvancedTwice
    <3> QED
      BY <2>1, <2>6, <3>3, AdvancedMoved DEF s, r
  <2> QED
    BY <2>3, <2>4, <2>5, <2>6
<1> QED
  BY <1>2, <1>3 DEF AllMoved

\* run's end: the bye.
LEMMA StopMoves ==
    ASSUME IInv, IInv', Content, Stop
    PROVE  Waiting' /\ AllMoved
<1> DEFINE said(s) == Flush([s EXCEPT !.out = Append(@, Bye)])
           socks == [p \in Peers |-> IF sock[p].phase = "open" THEN said(sock[p]) ELSE sock[p]]
<1>1. ProcessGone(socks)
  BY DEF Stop
<1>2. ASSUME NEW p \in Peers, sock[p].phase = "open"
      PROVE  /\ said(sock[p]) \in Socket /\ Advanced(sock[p], said(sock[p]))
             /\ said(sock[p]).phase = "open"
  <2> DEFINE s == sock[p]
             out == Append(s.out, Bye)
             r == [s EXCEPT !.out = out]
  <2>1. s \in Socket /\ Fits(s) /\ Lines(s) /\ s.phase = "open"
    BY <1>2 DEF IInv, Types, Buffers, Bounded, Content, Kept
  <2>2. out \in Seq(Message)
    BY <2>1, SocketFields, AppendProperties DEF Message
  <2>3. said(s) = Flush(r)
    OBVIOUS
  <2> HIDE DEF s, out
  <2>4. r \in Socket
    BY <2>1, <2>2 DEF Socket
  <2>5. /\ r.out = out /\ r.in = s.in /\ r.rst = s.rst /\ r.sndq = s.sndq /\ r.phase = s.phase
        /\ r.sent = s.sent /\ r.rcvq = s.rcvq /\ r.got = s.got
    BY <2>1 DEF Socket
  <2> HIDE DEF r
  <2>6. Fits(r) /\ r.out = Append(s.out, Bye)
    BY <2>1, <2>4, <2>5 DEF Fits, out
  <2>7. Advanced(s, Flush(r))
    BY <2>1, <2>5, <2>6, NoteAdvanced
  <2>8. Flush(r).phase = "open" /\ Flush(r) \in Socket
    BY <2>1, <2>5, <2>6, FlushFits DEF Fits
  <2> QED
    BY <2>3, <2>7, <2>8 DEF s
<1> HIDE DEF said
<1>3. \A p \in Peers : \/ socks[p] = sock[p]
                       \/ /\ sock[p].phase = "open" /\ socks[p] \in Socket
                          /\ Advanced(sock[p], socks[p]) /\ socks[p].phase = "open"
  BY <1>2
<1> HIDE DEF socks
<1> QED
  BY <1>1, <1>3, GoneMoves

\* A client connects: it was not in the backlog.
LEMMA ConnectMoves ==
    ASSUME IInv, IInv', Content, NEW p \in Peers, Connect(p)
    PROVE  Waiting' /\ AllMoved
<1> DEFINE s == sock[p]
           r == [s EXCEPT !.phase = "backlog"]
<1>1. /\ s.phase = "new" /\ sock' = [sock EXCEPT ![p] = r] /\ backlog' = Append(backlog, p)
  BY DEF Connect
<1>2. s \in Socket /\ Kept(s)
  BY DEF IInv, Types, Content
<1>3. \A u \in Peers : sock'[u] = IF u = p THEN r ELSE sock[u]
  BY <1>1 DEF IInv, Types
<1> HIDE DEF s
<1>4. /\ r.phase = "backlog"
      /\ r.sent = s.sent /\ r.rcvq = s.rcvq /\ r.rst = s.rst /\ r.in = s.in /\ r.out = s.out
      /\ r.sndq = s.sndq /\ r.got = s.got /\ r.pollout = s.pollout
  BY <1>2 DEF Socket
<1> HIDE DEF r
<1>5. Moved(s, r)
  BY <1>1, <1>2, <1>4, SameMoved
<1>6. AllMoved
  BY <1>3, <1>5, SameMoved DEF AllMoved, Content, s
<1>7. Waiting'
  <2> DEFINE all == Append(backlog, p)
  <2>1. /\ Len(backlog) \in Nat /\ Len(all) = Len(backlog) + 1 /\ all[Len(backlog) + 1] = p
        /\ \A i \in 1 .. Len(backlog) : all[i] = backlog[i] /\ backlog[i] \in Peers
    BY AppendProperties, ElementOfSeq, LenProperties DEF IInv, Types
  <2>2. \A i \in 1 .. Len(backlog) : backlog[i] # p /\ sock[backlog[i]].phase = "backlog"
    BY <1>1 DEF Content, Waiting, s
  <2>3. \A i, j \in 1 .. Len(backlog) : backlog[i] = backlog[j] => i = j
    BY DEF Content, Waiting
  <2> HIDE DEF all
  <2>4. \A i \in 1 .. Len(all) : i = Len(backlog) + 1 \/ i \in 1 .. Len(backlog)
    BY <2>1
  <2>5. ASSUME NEW i \in 1 .. Len(all) PROVE sock'[all[i]].phase = "backlog"
    BY <1>3, <1>4, <2>1, <2>2, <2>4
  <2>6. ASSUME NEW i \in 1 .. Len(all), NEW j \in 1 .. Len(all), all[i] = all[j] PROVE i = j
    BY <2>1, <2>2, <2>3, <2>4, <2>6
  <2> QED
    BY <1>1, <2>5, <2>6 DEF Waiting, all
<1> QED
  BY <1>6, <1>7

\* The other steps of a client.
LEMMA SendPieceMoves ==
    ASSUME IInv, IInv', Content, NEW p \in Peers, NEW kind \in Kinds, SendPiece(p, kind)
    PROVE  Waiting' /\ AllMoved
<1> DEFINE s == sock[p]
           piece == [kind |-> kind, n |-> Len(s.sent) + 1]
           r == [s EXCEPT !.sent = Append(@, piece), !.rcvq = Append(@, piece)]
<1>1. /\ s.phase \in {"backlog", "open"} /\ ~s.rst /\ Len(s.sent) < MaxSend
      /\ sock' = [sock EXCEPT ![p] = r] /\ UNCHANGED backlog
  BY DEF SendPiece, Connected
<1>2. s \in Socket /\ Kept(s) /\ sock'[p] = r /\ sock'[p] \in Socket
  BY <1>1 DEF IInv, Types, Content
<1>3. piece \in Piece
  <2>1. Len(s.sent) \in Nat
    BY <1>2, SocketSeqs, LenProperties
  <2>2. Len(s.sent) + 1 \in 1 .. MaxSend
    BY <1>1, <2>1, Limits
  <2> QED
    BY <2>2 DEF Piece
<1> HIDE DEF piece, s
<1>4. /\ r.sent = Append(s.sent, piece) /\ r.rcvq = Append(s.rcvq, piece) /\ r.phase = s.phase
      /\ r.rst = s.rst /\ r.in = s.in /\ r.out = s.out /\ r.sndq = s.sndq /\ r.got = s.got
      /\ r.pollout = s.pollout
  BY <1>2 DEF Socket
<1> HIDE DEF r
<1>5. Moved(s, r)
  BY <1>1, <1>2, <1>3, <1>4, SentMoved
<1> QED
  BY <1>1, <1>4, <1>5, OneMoved DEF s

LEMMA ReceiveMoves ==
    ASSUME IInv, IInv', Content, NEW p \in Peers, Receive(p)
    PROVE  Waiting' /\ AllMoved
<1> DEFINE s == sock[p]
           r == [s EXCEPT !.sndq = Tail(@), !.got = Append(@, Head(s.sndq))]
<1>1. s.sndq # <<>> /\ sock' = [sock EXCEPT ![p] = r] /\ UNCHANGED backlog
  BY DEF Receive
<1>2. s \in Socket /\ Kept(s) /\ sock'[p] = r /\ sock'[p] \in Socket
  BY <1>1 DEF IInv, Types, Content
<1> HIDE DEF s
<1>3. /\ r.sndq = Tail(s.sndq) /\ r.got = Append(s.got, Head(s.sndq)) /\ r.phase = s.phase
      /\ r.sent = s.sent /\ r.rcvq = s.rcvq /\ r.rst = s.rst /\ r.in = s.in /\ r.out = s.out
      /\ r.pollout = s.pollout
  BY <1>2 DEF Socket
<1> HIDE DEF r
<1>4. Moved(s, r)
  BY <1>1, <1>2, <1>3, ReadMoved
<1> QED
  BY <1>1, <1>3, <1>4, OneMoved DEF s

LEMMA HangupMoves ==
    ASSUME IInv, IInv', Content, NEW p \in Peers, Hangup(p)
    PROVE  Waiting' /\ AllMoved
<1> DEFINE s == sock[p]
           r == [s EXCEPT !.fin = TRUE]
<1>1. sock' = [sock EXCEPT ![p] = r] /\ UNCHANGED backlog
  BY DEF Hangup
<1>2. s \in Socket /\ Kept(s)
  BY DEF IInv, Types, Content
<1> HIDE DEF s
<1>3. /\ r.phase = s.phase /\ r.sndq = s.sndq /\ r.got = s.got
      /\ r.sent = s.sent /\ r.rcvq = s.rcvq /\ r.rst = s.rst /\ r.in = s.in /\ r.out = s.out
      /\ r.pollout = s.pollout
  BY <1>2 DEF Socket
<1> HIDE DEF r
<1>4. Moved(s, r)
  BY <1>2, <1>3, SameMoved
<1> QED
  BY <1>1, <1>3, <1>4, OneMoved DEF s

LEMMA ResetMoves ==
    ASSUME IInv, IInv', Content, NEW p \in Peers, Reset(p)
    PROVE  Waiting' /\ AllMoved
<1> DEFINE s == sock[p]
           r == [s EXCEPT !.rst = TRUE, !.rcvq = <<>>, !.sndq = <<>>]
<1>1. /\ s.phase \in {"backlog", "open"} /\ ~s.rst
      /\ sock' = [sock EXCEPT ![p] = r] /\ UNCHANGED backlog
  BY DEF Reset, Connected
<1>2. s \in Socket /\ Kept(s) /\ sock'[p] = r /\ sock'[p] \in Socket
  BY <1>1 DEF IInv, Types, Content
<1> HIDE DEF s
<1>3. /\ r.rst = TRUE /\ r.rcvq = <<>> /\ r.sndq = <<>> /\ r.phase = s.phase
      /\ r.sent = s.sent /\ r.in = s.in /\ r.out = s.out /\ r.got = s.got
      /\ r.pollout = s.pollout
  BY <1>2 DEF Socket
<1> HIDE DEF r
<1>4. Moved(s, r)
  BY <1>1, <1>2, <1>3, ResetMoved
<1> QED
  BY <1>1, <1>3, <1>4, OneMoved DEF s

-----------------------------------------------------------------------------
\* No connection has asked for anything at the start.
LEMMA InitContent ==
    ASSUME Init
    PROVE  /\ Content
           /\ \A p \in Peers : /\ Asked(sock[p]) = <<>> /\ Reachable(sock[p]) = <<>>
                               /\ Delivered(sock[p]) = <<>> /\ ~Ended(sock[p])
<1> DEFINE s == NewSocket
<1>1. /\ s.phase = "new" /\ s.sent = <<>> /\ s.rcvq = <<>> /\ s.rst = FALSE /\ s.in = <<>>
      /\ s.out = <<>> /\ s.sndq = <<>> /\ s.got = <<>> /\ s.pollout = FALSE
  BY DEF NewSocket
<1>2. <<>> \in Seq(Piece) /\ <<>> \in Seq(Reply) /\ <<>> \in Seq(Entry) /\ Len(<<>>) = 0
      /\ <<>> \o <<>> = <<>>
  BY EmptySeq, ConcatEmptySeq
<1>3. \A p \in Peers : sock[p] = s
  BY DEF Init
<1>4. 1 .. Len(<<>>) = {}
  BY <1>2
<1> HIDE DEF s
<1>5. NoLine(s.in) /\ NoLine(s.sent)
  BY <1>1, <1>4 DEF NoLine
<1>6. Asked(s) = <<>>
  BY <1>1, <1>2, <1>5, NoLineNoReplies DEF Asked
<1>7. Delivered(s) = <<>>
  BY <1>1, RepliesInEmpty DEF Delivered
<1>8. Reachable(s) = <<>>
  BY <1>1, <1>2, RepliesInEmpty DEF Reachable, Produced
<1>9. Prefix(Reachable(s), Asked(s), Reply)
  BY <1>2, <1>6, <1>8 DEF Prefix
<1>10. Kept(s) /\ ~Ended(s)
  BY <1>1, <1>5, <1>9 DEF Kept, Lines, Ended
<1>11. Waiting
  BY <1>4 DEF Init, Waiting
<1> QED
  BY <1>3, <1>6, <1>7, <1>8, <1>10, <1>11 DEF Content

\* Every step of the server is, for every client, a step of its service.
LEMMA NextMoves ==
    ASSUME IInv, IInv', Content, [Next]_vars
    PROVE  Content' /\ AllMoved
<1>1. CASE Wait \/ OnSignal \/ Start \/ Tick \/ Terminate \/ UNCHANGED vars
  <2>1. UNCHANGED <<backlog, sock>>
    BY <1>1 DEF Wait, OnSignal, Start, Tick, Terminate, vars
  <2> QED
    BY <2>1, NobodyMoved DEF Content, AllMoved, Moved
<1>2. CASE ProcessGone(sock)
  <2>1. Waiting' /\ AllMoved
    BY <1>2, GoneMoves
  <2> QED
    BY <2>1 DEF Content, AllMoved, Moved
<1>3. CASE AcceptAll \/ OnTick \/ Stop
  BY <1>3, AcceptAllMoves, OnTickMoves, StopMoves DEF Content, AllMoved, Moved
<1>4. ASSUME NEW e \in batch, OnConn(e) PROVE Content' /\ AllMoved
  BY <1>4, OnConnMoves DEF Content, AllMoved, Moved
<1>5. ASSUME NEW p \in Peers, Client(p) PROVE Content' /\ AllMoved
  <2>1. Waiting' /\ AllMoved
    BY <1>5, ConnectMoves, ReceiveMoves, HangupMoves, ResetMoves, SendPieceMoves DEF Client
  <2> QED
    BY <2>1 DEF Content, AllMoved, Moved
<1>6. Kill => ProcessGone(sock)
  BY DEF Kill
<1>7. \A e \in batch : QueryFails(e) => ProcessGone(sock)
  BY DEF QueryFails
<1> QED
  BY <1>1, <1>2, <1>3, <1>4, <1>5, <1>6, <1>7 DEF Next, Serve, Handle

\* Whatever is read, answered, flushed, cut or reset, and in whatever pieces,
\* the answers of every connection belong to what was read of it.
THEOREM ContentKept == Spec => []Content
<1>1. Init => IInv /\ Content
  BY InitHolds, InitContent
<1>2. IInv /\ Content /\ [Next]_vars => IInv' /\ Content'
  BY NextKeeps, NextMoves
<1> QED
  BY <1>1, <1>2, PTL DEF Spec

\* Between two batches all that was read of a connection is answered, and what
\* the kernel did not take has EPOLLOUT on (on_conn, handle_line, flush).
THEOREM NothingIsHeldBack == Spec => []NothingHeldBack
<1>1. IInv /\ Content => NothingHeldBack
  <2> SUFFICES ASSUME IInv, Content, NEW fd \in Open
               PROVE  LET s == sock[conns[fd]] IN
                      /\ ~s.rst =>
                             LET read == SubSeq(s.sent, 1, Len(s.sent) - Len(s.rcvq))
                             IN  RepliesIn(Produced(s)) = Replies(read)
                      /\ \A i \in 1 .. Len(s.in) : ~EndsLine(s.in[i])
                      /\ s.out # <<>> <=> s.pollout
    BY DEF NothingHeldBack
  <2> DEFINE s == sock[conns[fd]]
  <2>1. s \in Socket /\ Kept(s) /\ Lines(s) /\ s.phase = "open"
    BY DEF IInv, Types, Connections, Content, Kept
  <2> HIDE DEF s
  <2>2. ASSUME ~s.rst
        PROVE  RepliesIn(Produced(s)) = Replies(SubSeq(s.sent, 1, Len(s.sent) - Len(s.rcvq)))
    <3>1. PICK read \in Seq(Piece) : s.sent = read \o s.rcvq /\ Reachable(s) = Replies(read)
      BY <2>1, <2>2 DEF Lines
    <3> DEFINE more == s.rcvq
    <3>2. more \in Seq(Piece) /\ Len(read) \in Nat /\ Len(more) \in Nat
      BY <2>1, SocketSeqs, LenProperties
    <3> HIDE DEF more
    <3>3. Len(read \o more) = Len(read) + Len(more)
      BY <3>2, ConcatProperties
    <3>4. Len(read \o more) - Len(more) = Len(read)
      BY <3>2, <3>3
    <3>5. SubSeq(read \o more, 1, Len(read)) = read
      <4>1. CASE read = <<>>
        BY <4>1, SubSeqEmpty, EmptySeq
      <4>2. CASE read # <<>>
        <5>1. 1 \in 1 .. Len(read) /\ Len(read) \in 1 .. Len(read)
          BY <3>2, <4>2, EmptySeq
        <5>2. SubSeq(read \o more, 1, Len(read)) = SubSeq(read, 1, Len(read))
          BY <3>2, <5>1, SubSeqOfConcat1
        <5> QED
          BY <5>2, SubSeqFull
      <4> QED
        BY <4>1, <4>2
    <3>6. SubSeq(s.sent, 1, Len(s.sent) - Len(s.rcvq)) = read
      BY <3>1, <3>4, <3>5 DEF more
    <3>7. Reachable(s) = RepliesIn(Produced(s))
      BY <2>2 DEF Reachable
    <3> QED
      BY <3>1, <3>6, <3>7
  <2> QED
    BY <2>1, <2>2 DEF Kept, Lines, NoLine, s
<1> QED
  BY <1>1, ServerInvariant, ContentKept, PTL

\* The server keeps LineService's promise to each of its clients.
THEOREM ServerImplements == Spec => ImplementsService
<1>1. Init => Service!ServiceInit
  <2> SUFFICES ASSUME Init PROVE Service!ServiceInit
    OBVIOUS
  <2>1. \A p \in Peers : /\ Asked(sock[p]) = <<>> /\ Reachable(sock[p]) = <<>>
                         /\ Delivered(sock[p]) = <<>> /\ ~Ended(sock[p])
    BY InitContent
  <2>2. \A p \in Peers : (sock[p].rst \/ sock[p].phase = "closed") = FALSE
    BY <2>1 DEF Ended
  <2> QED
    BY <2>1, <2>2 DEF Service!ServiceInit, Asked, Delivered
<1>2. IInv /\ IInv' /\ Content /\ [Next]_vars => [Service!ServiceNext]_Service!serviceVars
  <2> SUFFICES ASSUME IInv, IInv', Content, [Next]_vars PROVE Service!ServiceNext
    OBVIOUS
  <2>1. AllMoved
    BY NextMoves
  <2> SUFFICES ASSUME NEW p \in Peers
               PROVE  Service!Quiet(p) \/ Service!Deliver(p) \/ Service!Serve(p) \/ Service!Ask(p)
    BY DEF Service!ServiceNext
  <2> DEFINE s == sock[p]
             r == sock'[p]
  <2>2. Quietly(s, r) \/ Serves(s, r) \/ Delivers(s, r) \/ Asks(s, r)
    BY <2>1 DEF AllMoved, Moved
  <2>3. CASE Quietly(s, r)
    <3>1. Service!Quiet(p)
      BY <2>3 DEF Quietly, Service!Quiet, Asked, Delivered, Ended
    <3> QED
      BY <3>1
  <2>4. CASE Serves(s, r)
    <3>1. Service!Serve(p)
      BY <2>4 DEF Serves, Service!Serve, Asked, Delivered, Ended
    <3> QED
      BY <3>1
  <2>5. CASE Delivers(s, r)
    <3>1. Service!Deliver(p)
      BY <2>5 DEF Delivers, Service!Deliver, Asked, Delivered, Ended
    <3> QED
      BY <3>1
  <2>6. CASE Asks(s, r)
    <3>1. Service!Ask(p)
      BY <2>6 DEF Asks, Service!Ask, Asked, Delivered, Ended
    <3> QED
      BY <3>1
  <2> QED
    BY <2>2, <2>3, <2>4, <2>5, <2>6
<1>3. IInv /\ Content /\ [Next]_vars => [Service!ServiceNext]_Service!serviceVars
  BY <1>2, NextKeeps
<1> QED
  BY <1>1, <1>3, ServerInvariant, ContentKept, PTL
  DEF Spec, ImplementsService, Service!ServiceSpec


-----------------------------------------------------------------------------
(* How long a termination request takes *)

\* A batch is finite; a process that is gone has no batch and no request left.
Requests ==
    /\ IsFiniteSet(batch)
    /\ ~running => batch = {} /\ ~sig /\ ~stop

\* There are at most as many ready descriptors as connections, and three more.
LEMMA ReadyBounded ==
    ASSUME IInv
    PROVE  IsFiniteSet(Ready) /\ Cardinality(Ready) \in 0 .. Cardinality(Fds) + 3
<1> DEFINE F == {f \in Open : Events(sock[conns[f]]) # {}}
           event(fd) == [src |-> "conn", fd |-> fd, events |-> Events(sock[conns[fd]])]
           T == {event(fd) : fd \in F}
           A == IF backlog # <<>> THEN {Listen} ELSE {}
           B == IF expired THEN {Timer} ELSE {}
           C == IF sig THEN {Signal} ELSE {}
<1>1. F \subseteq Fds /\ IsFiniteSet(Fds) /\ Cardinality(Fds) \in Nat
  BY ServerAssumption, FS_CardinalityType DEF IInv, Types
<1>2. IsFiniteSet(F) /\ Cardinality(F) \in Nat /\ Cardinality(F) =< Cardinality(Fds)
  <2> HIDE DEF F
  <2> QED
    BY <1>1, FS_Subset, FS_CardinalityType
<1>3. IsFiniteSet(T) /\ Cardinality(T) \in Nat /\ Cardinality(T) =< Cardinality(F)
  <2> HIDE DEF F, event
  <2>1. [fd \in F |-> event(fd)] \in Surjection(F, T)
    BY DEF Surjection
  <2> QED
    BY <1>2, <2>1, FS_Surjection, FS_CardinalityType
<1>4. ASSUME NEW S, IsFiniteSet(S), NEW x, NEW X, X \in {{x}, {}}
      PROVE  /\ IsFiniteSet(S \cup X) /\ Cardinality(S) \in Nat
             /\ Cardinality(S \cup X) \in Nat /\ Cardinality(S \cup X) =< Cardinality(S) + 1
  <2>1. Cardinality(S) \in Nat
    BY <1>4, FS_CardinalityType
  <2>2. CASE X = {}
    <3>1. S \cup X = S
      BY <2>2
    <3>2. Cardinality(S) =< Cardinality(S) + 1
      BY <2>1
    <3> QED
      BY <1>4, <2>1, <3>1, <3>2, Zenon
  <2>3. CASE X = {x}
    BY <1>4, <2>1, <2>3, FS_AddElement
  <2> QED
    BY <1>4, <2>2, <2>3
<1>5. Ready = ((T \cup A) \cup B) \cup C
  BY DEF Ready
<1>6. A \in {{Listen}, {}} /\ B \in {{Timer}, {}} /\ C \in {{Signal}, {}}
  OBVIOUS
<1> HIDE DEF T, A, B, C
<1>7. /\ IsFiniteSet(T \cup A) /\ Cardinality(T \cup A) \in Nat
      /\ Cardinality(T \cup A) =< Cardinality(T) + 1
  BY <1>3, <1>4, <1>6
<1>8. /\ IsFiniteSet((T \cup A) \cup B) /\ Cardinality((T \cup A) \cup B) \in Nat
      /\ Cardinality((T \cup A) \cup B) =< Cardinality(T \cup A) + 1
  BY <1>4, <1>6, <1>7
<1>9. /\ IsFiniteSet(Ready) /\ Cardinality(Ready) \in Nat
      /\ Cardinality(Ready) =< Cardinality((T \cup A) \cup B) + 1
  BY <1>4, <1>5, <1>6, <1>8
<1> HIDE DEF F
<1>10. \A a, b, c, d, e, f \in Nat :
           a =< b /\ b =< c /\ d =< a + 1 /\ e =< d + 1 /\ f =< e + 1 => f \in 0 .. c + 3
  OBVIOUS
<1> QED
  BY <1>1, <1>2, <1>3, <1>7, <1>8, <1>9, <1>10

LEMMA RequestsKept == IInv /\ Requests /\ [Next]_vars => Requests'
<1> SUFFICES ASSUME IInv, Requests, [Next]_vars PROVE Requests'
  OBVIOUS
<1>1. CASE Wait
  <2>1. batch' \subseteq Ready /\ IsFiniteSet(Ready)
    BY <1>1, ReadyBounded DEF Wait, Batches
  <2>2. IsFiniteSet(batch')
    BY <2>1, FS_Subset
  <2> QED
    BY <1>1, <2>2 DEF Wait, Requests
<1>2. ASSUME NEW e, Take(e), running' = running PROVE Requests'
  BY <1>2, FS_RemoveElement DEF Take, Requests
<1>3. ASSUME NEW socks, ProcessGone(socks) PROVE Requests'
  BY <1>3, FS_EmptySet DEF ProcessGone, Requests
<1>4. CASE AcceptAll \/ OnTick \/ OnSignal
  BY <1>2, <1>4 DEF AcceptAll, OnTick, OnSignal
<1>5. ASSUME NEW e \in batch, OnConn(e) \/ QueryFails(e) PROVE Requests'
  BY <1>2, <1>3, <1>5 DEF OnConn, QueryFails
<1>6. CASE Stop \/ Kill
  BY <1>3, <1>6 DEF Stop, Kill
<1>7. CASE Start \/ Terminate
  BY <1>7 DEF Start, Terminate, Requests
<1>8. CASE Tick \/ UNCHANGED vars
  BY <1>8 DEF Tick, vars, Requests
<1>9. ASSUME NEW p \in Peers, Client(p) PROVE Requests'
  <2>1. UNCHANGED <<running, stop, batch, sig>>
    BY <1>9 DEF Client, Connect, Receive, Hangup, Reset, SendPiece
  <2> QED
    BY <2>1 DEF Requests
<1> QED
  BY <1>1, <1>4, <1>5, <1>6, <1>7, <1>8, <1>9 DEF Next, Serve, Handle

\* A handler takes one event from the batch; if it is the signal, stop_ is set.
LEMMA HandlerNearer ==
    ASSUME Requests, NEW e, Take(e),
           running' = running,
           UNCHANGED stop \/ stop',
           e = Signal => stop'
    PROVE  StepsLeft' < StepsLeft
<1> DEFINE more == Cardinality(Fds) + 5
<1>1. running /\ e \in batch /\ batch' = batch \ {e} /\ IsFiniteSet(batch)
  BY DEF Take, Requests
<1>2. Cardinality(batch) \in Nat /\ Cardinality(batch') = Cardinality(batch) - 1
  BY <1>1, FS_CardinalityType, FS_RemoveElement
<1>3. more \in Nat /\ more >= 1
  BY ServerAssumption, FS_CardinalityType
<1>4. stop \/ Signal \in batch => stop' \/ Signal \in batch'
  BY <1>1
<1>5. /\ StepsLeft = Cardinality(batch) + IF stop \/ Signal \in batch THEN 1 ELSE more
      /\ StepsLeft' = Cardinality(batch') + IF stop' \/ Signal \in batch' THEN 1 ELSE more
  BY <1>1 DEF StepsLeft
<1> HIDE DEF more
<1>6. \A a, b, c \in Nat : c =< b => a - 1 + c < a + b
  OBVIOUS
<1> QED
  BY <1>2, <1>3, <1>4, <1>5, <1>6

\* When evs has room for all that is ready, a batch leaves nothing behind.
LEMMA AllTaken ==
    ASSUME IInv, NEW evs \in Batches, Cardinality(Fds) + 3 =< MaxEvents
    PROVE  evs = Ready
<1> DEFINE n == Cardinality(Ready)
           m == Cardinality(Fds)
<1>1. /\ IsFiniteSet(Ready) /\ n \in 0 .. m + 3
      /\ m \in Nat /\ MaxEvents \in Nat
  BY ReadyBounded, ServerAssumption, FS_CardinalityType
<1>2. evs \in SUBSET Ready /\ Cardinality(evs) = IF n < MaxEvents THEN n ELSE MaxEvents
  BY DEF Batches
<1>3. m + 3 =< MaxEvents
  OBVIOUS
<1> HIDE DEF n, m
<1>4. n < MaxEvents \/ n = MaxEvents
  BY <1>1, <1>3
<1>5. Cardinality(evs) = n
  BY <1>2, <1>4
<1> QED
  BY <1>1, <1>2, <1>5, FS_Subset DEF n

\* With the signal pending, the next batch has it.
LEMMA WaitNearer ==
    ASSUME IInv, Wait, sig, Cardinality(Fds) + 3 =< MaxEvents
    PROVE  StepsLeft' < StepsLeft
<1>1. /\ running /\ ~stop /\ batch = {} /\ batch' = Ready
      /\ running' /\ ~stop'
  BY AllTaken DEF Wait
<1>2. Signal \in batch'
  BY <1>1 DEF Ready
<1>3. Cardinality(Fds) \in Nat /\ Cardinality(batch') \in 0 .. Cardinality(Fds) + 3
  BY <1>1, ReadyBounded, ServerAssumption, FS_CardinalityType
<1>4. StepsLeft = Cardinality(Fds) + 5
  <2>1. Cardinality(batch) = 0
    BY <1>1, FS_EmptySet
  <2>2. StepsLeft = Cardinality(batch) + (Cardinality(Fds) + 5)
    BY <1>1 DEF StepsLeft
  <2> QED
    BY <1>3, <2>1, <2>2
<1>5. StepsLeft' = Cardinality(batch') + 1
  BY <1>1, <1>2 DEF StepsLeft
<1> QED
  BY <1>3, <1>4, <1>5

\* The end of the process is the last step.
LEMMA GoneNearest ==
    ASSUME Requests, running, NEW socks, ProcessGone(socks)
    PROVE  StepsLeft' < StepsLeft
<1>1. Cardinality(batch) \in Nat /\ Cardinality(Fds) \in Nat
  BY ServerAssumption, FS_CardinalityType DEF Requests
<1>2. StepsLeft' = 0
  BY DEF ProcessGone, StepsLeft
<1>3. StepsLeft = Cardinality(batch) + IF stop \/ Signal \in batch
                                       THEN 1 ELSE Cardinality(Fds) + 5
  BY DEF StepsLeft
<1> QED
  BY <1>1, <1>2, <1>3

\* From the moment a termination request is there the process takes at most
\* the steps that StepsLeft counts, whatever the clients do (run, on_signal),
\* provided that evs has room for all that can be ready at once.
THEOREM StopIsBounded == Spec => StopBounded
<1> DEFINE AllFit == Cardinality(Fds) + 3 =< MaxEvents
           Nearer == UNCHANGED <<running, stop, batch>> \/ StepsLeft' < StepsLeft
<1>1. ASSUME IInv, Requests, [Next]_vars, sig \/ stop, AllFit PROVE Nearer
  <2>1. running
    BY <1>1 DEF Requests
  <2>2. CASE Wait
    BY <1>1, <2>2, WaitNearer DEF Wait
  <2>3. CASE AcceptAll \/ OnTick
    BY <1>1, <2>3, HandlerNearer DEF AcceptAll, OnTick, Listen, Timer, Signal
  <2>4. CASE OnSignal
    BY <1>1, <2>4, HandlerNearer DEF OnSignal
  <2>5. ASSUME NEW e \in batch, OnConn(e) PROVE Nearer
    <3>1. e # Signal
      BY <2>5 DEF OnConn, Signal
    <3> QED
      BY <1>1, <2>5, <3>1, HandlerNearer DEF OnConn
  <2>6. ASSUME NEW e \in batch, QueryFails(e) PROVE Nearer
    BY <1>1, <2>1, <2>6, GoneNearest DEF QueryFails
  <2>7. CASE Stop \/ Kill
    BY <1>1, <2>1, <2>7, GoneNearest DEF Stop, Kill
  <2>8. CASE Start
    BY <2>1, <2>8 DEF Start
  <2>9. CASE Tick \/ Terminate \/ UNCHANGED vars
    BY <2>9 DEF Tick, Terminate, vars
  <2>10. ASSUME NEW p \in Peers, Client(p) PROVE Nearer
    BY <2>10 DEF Client, Connect, Receive, Hangup, Reset, SendPiece
  <2> QED
    BY <1>1, <2>2, <2>3, <2>4, <2>5, <2>6, <2>7, <2>8, <2>9, <2>10 DEF Next, Serve, Handle
<1>2. IInv /\ Requests /\ [Next]_vars => [(sig \/ stop) /\ AllFit => Nearer]_vars
  BY <1>1
<1>3. Init => Requests
  BY FS_EmptySet DEF Init, Requests
<1> QED
  BY <1>2, <1>3, RequestsKept, ServerInvariant, PTL DEF Spec, StopBounded
=============================================================================
