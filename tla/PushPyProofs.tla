---------------------------- MODULE PushPyProofs ----------------------------
(***************************************************************************)
(* Proofs about PushPy: for any clients, limits and timeouts, the Python   *)
(* server implements LineService.                                          *)
(***************************************************************************)
EXTENDS PushPy, CommonProofs

-----------------------------------------------------------------------------
(* Types *)

Piece == [kind : Kinds, n : Nat]
Reply == [first : Nat, last : Nat]
Message == Reply \cup {PingLine, ByeLine}

LineState == [rest : Seq(Piece), replies : Seq(Reply)]

NoLines == [rest |-> <<>>, replies |-> <<>>]

LEMMA AnswerType ==
    ASSUME NEW line \in Seq(Piece), line # <<>>
    PROVE  Answer(line) \in Reply
<1>1. Len(line) \in Nat /\ Len(line) # 0
  BY EmptySeq
<1>2. line[1] \in Piece /\ line[Len(line)] \in Piece
  BY <1>1, ElementOfSeq
<1> QED
  BY <1>2 DEF Answer, Reply, Piece

LEMMA AfterType ==
    ASSUME NEW l \in LineState, NEW piece \in Piece
    PROVE  After(l, piece) \in LineState
<1> DEFINE line == Append(l.rest, piece)
<1>1. l.rest \in Seq(Piece) /\ l.replies \in Seq(Reply)
  BY DEF LineState
<1>2. line \in Seq(Piece) /\ line # <<>>
  BY <1>1, AppendProperties
<1>3. Answer(line) \in Reply
  BY <1>2, AnswerType
<1>4. Append(l.replies, Answer(line)) \in Seq(Reply) /\ <<>> \in Seq(Piece)
  BY <1>1, <1>3, AppendProperties, EmptySeq
<1> HIDE DEF line
<1>5. /\ [rest |-> <<>>, replies |-> Append(l.replies, Answer(line))] \in LineState
      /\ [rest |-> line, replies |-> l.replies] \in LineState
  BY <1>1, <1>2, <1>4 DEF LineState
<1> QED
  BY <1>5 DEF After, line

-----------------------------------------------------------------------------
(* The lines of a stream *)

\* The function whose last value is Lines.
LinesUpTo(q) ==
    CHOOSE f : f = [i \in 0 .. Len(q) |-> IF i = 0 THEN NoLines ELSE After(f[i - 1], q[i])]

IsLines(f, q) ==
    /\ f \in [0 .. Len(q) -> LineState]
    /\ Lines(q) = f[Len(q)]
    /\ f[0] = NoLines
    /\ \A i \in 1 .. Len(q) : f[i] = After(f[i - 1], q[i])

LEMMA LinesRecursive ==
    ASSUME NEW q \in Seq(Piece)
    PROVE  IsLines(LinesUpTo(q), q)
<1> DEFINE N == Len(q)
           step == [i \in 1 .. N |-> [l \in LineState |-> After(l, q[i])]]
           Body(f) == [i \in 0 .. N |-> IF i = 0 THEN NoLines ELSE After(f[i - 1], q[i])]
<1>1. N \in Nat /\ NoLines \in LineState
  BY EmptySeq DEF NoLines, LineState
<1>2. step \in [1 .. N -> [LineState -> LineState]]
  <2>1. \A i \in 1 .. N : q[i] \in Piece
    BY ElementOfSeq
  <2> QED
    BY <2>1, AfterType
<1>3. PICK f \in [0 .. N -> LineState] : Recurrence(f, N, NoLines, step)
  <2> HIDE DEF step, N
  <2> QED
    BY <1>1, <1>2, Recursion
<1>4. f = Body(f)
  <2>1. ASSUME NEW i \in 1 .. N PROVE step[i][f[i - 1]] = After(f[i - 1], q[i])
    <3>1. f[i - 1] \in LineState
      BY <1>1
    <3> QED
      BY <3>1
  <2> HIDE DEF step
  <2>2. \A i \in 0 .. N : f[i] = IF i = 0 THEN NoLines ELSE After(f[i - 1], q[i])
    <3>1. \A i \in 0 .. N : i = 0 \/ i \in 1 .. N
      BY <1>1
    <3>2. f[0] = NoLines /\ \A i \in 1 .. N : f[i] = step[i][f[i - 1]] /\ i # 0
      BY <1>1, <1>3 DEF Recurrence
    <3> HIDE DEF N
    <3> QED
      BY <2>1, <3>1, <3>2, Zenon
  <2>3. f = [i \in 0 .. N |-> f[i]]
    BY <1>3
  <2> HIDE DEF N
  <2> QED
    BY <2>2, <2>3, Zenon
<1>5. LinesUpTo(q) = Body(LinesUpTo(q))
  BY <1>4 DEF LinesUpTo
<1>6. Lines(q) = LinesUpTo(q)[N]
  BY DEF Lines, LinesUpTo, NoLines
<1> DEFINE h == LinesUpTo(q)
           H == {k \in Nat : k =< N => h[k] \in LineState}
<1>7. h[0] = NoLines /\ \A i \in 1 .. N : h[i] = After(h[i - 1], q[i])
  <2>1. h = Body(h)
    BY <1>5
  <2> HIDE DEF h
  <2>2. \A i \in 0 .. N : h[i] = IF i = 0 THEN NoLines ELSE After(h[i - 1], q[i])
    BY <2>1, Zenon
  <2>3. 0 \in 0 .. N /\ \A i \in 1 .. N : i \in 0 .. N /\ i # 0
    BY <1>1
  <2> HIDE DEF N
  <2> QED
    BY <2>2, <2>3, Zenon
<1>8. h = [i \in 0 .. N |-> h[i]]
  BY <1>5
<1> HIDE DEF h
<1>9. 0 \in H
  BY <1>1, <1>7
<1>10. ASSUME NEW k \in Nat, k \in H PROVE k + 1 \in H
  <2> SUFFICES ASSUME k + 1 =< N PROVE h[k + 1] \in LineState
    OBVIOUS
  <2>1. h[k] \in LineState /\ k + 1 \in 1 .. N /\ (k + 1) - 1 = k
    BY <1>1, <1>10
  <2>2. q[k + 1] \in Piece
    BY <2>1, ElementOfSeq
  <2>3. h[k + 1] = After(h[k], q[k + 1])
    BY <1>7, <2>1
  <2> QED
    BY <2>1, <2>2, <2>3, AfterType
<1>11. \A k \in 0 .. N : h[k] \in LineState
  <2>1. \A k \in Nat : k \in H
    BY <1>9, <1>10, AllNumbers
  <2> QED
    BY <1>1, <2>1
<1>12. h \in [0 .. N -> LineState]
  BY <1>8, <1>11
<1> QED
  BY <1>6, <1>7, <1>12 DEF h, IsLines

LEMMA LinesType ==
    ASSUME NEW q \in Seq(Piece)
    PROVE  Lines(q) \in LineState
<1>1. IsLines(LinesUpTo(q), q)
  BY LinesRecursive
<1>2. Len(q) \in 0 .. Len(q)
  BY LenProperties
<1> QED
  BY <1>1, <1>2 DEF IsLines

LEMMA LinesEmpty == Lines(<<>>) = NoLines
<1>1. <<>> \in Seq(Piece) /\ Len(<<>>) = 0
  BY EmptySeq
<1>2. IsLines(LinesUpTo(<<>>), <<>>)
  BY <1>1, LinesRecursive
<1> QED
  BY <1>1, <1>2 DEF IsLines

LEMMA LinesAppend ==
    ASSUME NEW q \in Seq(Piece), NEW piece \in Piece
    PROVE  Lines(Append(q, piece)) = After(Lines(q), piece)
<1> DEFINE all == Append(q, piece)
           N == Len(q)
           f == LinesUpTo(q)
           g == LinesUpTo(all)
           S == {k \in Nat : k =< N => g[k] = f[k]}
<1>1. /\ all \in Seq(Piece) /\ N \in Nat /\ Len(all) = N + 1
      /\ \A i \in 1 .. N : all[i] = q[i]
      /\ all[N + 1] = piece
  BY AppendProperties, LenProperties
<1>2. f[0] = NoLines /\ Lines(q) = f[N] /\ \A i \in 1 .. N : f[i] = After(f[i - 1], q[i])
  <2>1. IsLines(f, q)
    BY LinesRecursive
  <2> QED
    BY <2>1 DEF IsLines
<1> HIDE DEF f, all
<1>3. /\ g[0] = NoLines /\ Lines(all) = g[N + 1]
      /\ \A i \in 1 .. N + 1 : g[i] = After(g[i - 1], all[i])
  <2>1. IsLines(g, all)
    BY <1>1, LinesRecursive
  <2> QED
    BY <1>1, <2>1 DEF IsLines
<1> HIDE DEF g, N
<1>4. 0 \in S
  BY <1>2, <1>3
<1>5. ASSUME NEW k \in Nat, k \in S PROVE k + 1 \in S
  <2> SUFFICES ASSUME k + 1 =< N PROVE g[k + 1] = f[k + 1]
    OBVIOUS
  <2>1. k + 1 \in 1 .. N /\ k + 1 \in 1 .. N + 1 /\ (k + 1) - 1 = k /\ g[k] = f[k]
    BY <1>1, <1>5
  <2>2. g[k + 1] = After(g[k], all[k + 1]) /\ f[k + 1] = After(f[k], q[k + 1])
    BY <1>2, <1>3, <2>1
  <2> QED
    BY <1>1, <2>1, <2>2
<1>6. g[N] = f[N]
  <2>1. \A k \in Nat : k \in S
    BY <1>4, <1>5, AllNumbers
  <2> QED
    BY <1>1, <2>1
<1>7. g[N + 1] = After(g[N], all[N + 1])
  <2>1. N + 1 \in 1 .. N + 1 /\ (N + 1) - 1 = N
    BY <1>1
  <2> QED
    BY <1>3, <2>1
<1> QED
  BY <1>1, <1>2, <1>3, <1>6, <1>7 DEF all

\* No line of q is complete.
NoEnd(q) == \A i \in 1 .. Len(q) : ~EndsLine(q[i])

\* l is one complete line.
WholeLine(l) ==
    /\ l # <<>>
    /\ EndsLine(l[Len(l)])
    /\ \A i \in 1 .. Len(l) - 1 : ~EndsLine(l[i])

LEMMA LinesOfPart ==
    ASSUME NEW q \in Seq(Piece), NoEnd(q)
    PROVE  Lines(q) = [rest |-> q, replies |-> <<>>]
<1> DEFINE S == {n \in Nat : \A s \in Seq(Piece) :
                     Len(s) = n /\ NoEnd(s) => Lines(s) = [rest |-> s, replies |-> <<>>]}
<1>1. 0 \in S
  BY EmptySeq, LinesEmpty DEF NoLines
<1>2. ASSUME NEW n \in Nat, n \in S PROVE n + 1 \in S
  <2> SUFFICES ASSUME NEW s \in Seq(Piece), Len(s) = n + 1, NoEnd(s)
               PROVE  Lines(s) = [rest |-> s, replies |-> <<>>]
    OBVIOUS
  <2>1. s # <<>>
    BY EmptySeq
  <2>2. PICK t \in Seq(Piece), e \in Piece : s = Append(t, e)
    BY <2>1, SequenceEmptyOrAppend
  <2>3. /\ Len(t) \in Nat /\ Len(s) = Len(t) + 1 /\ s[Len(t) + 1] = e
        /\ \A i \in 1 .. Len(t) : s[i] = t[i]
    BY <2>2, AppendProperties, LenProperties
  <2>4. Len(t) = n /\ ~EndsLine(e) /\ NoEnd(t)
    <3>1. Len(t) + 1 \in 1 .. Len(s) /\ \A i \in 1 .. Len(t) : i \in 1 .. Len(s)
      BY <2>3
    <3> QED
      BY <2>3, <3>1 DEF NoEnd
  <2>5. Lines(t) = [rest |-> t, replies |-> <<>>]
    BY <1>2, <2>4
  <2>6. Lines(s) = After(Lines(t), e)
    BY <2>2, LinesAppend
  <2> QED
    BY <2>2, <2>4, <2>5, <2>6 DEF After
<1>3. Len(q) \in S
  BY <1>1, <1>2, AllNumbers, LenProperties
<1> QED
  BY <1>3

LEMMA LinesOfLine ==
    ASSUME NEW l \in Seq(Piece), WholeLine(l)
    PROVE  Lines(l) = [rest |-> <<>>, replies |-> <<Answer(l)>>]
<1>1. PICK t \in Seq(Piece), e \in Piece : l = Append(t, e)
  BY SequenceEmptyOrAppend DEF WholeLine
<1>2. /\ Len(t) \in Nat /\ Len(l) = Len(t) + 1 /\ l[Len(t) + 1] = e
      /\ \A i \in 1 .. Len(t) : l[i] = t[i]
  BY <1>1, AppendProperties, LenProperties
<1>3. EndsLine(e) /\ NoEnd(t)
  <2>1. \A i \in 1 .. Len(t) : i \in 1 .. Len(l) - 1
    BY <1>2
  <2> QED
    BY <1>2, <2>1 DEF WholeLine, NoEnd
<1>4. Lines(t) = [rest |-> t, replies |-> <<>>]
  BY <1>3, LinesOfPart
<1>5. Lines(l) = After(Lines(t), e)
  BY <1>1, LinesAppend
<1>6. Append(<<>>, Answer(l)) = <<Answer(l)>>
  OBVIOUS
<1> QED
  BY <1>1, <1>3, <1>4, <1>5, <1>6 DEF After

\* The lines after a complete one are those of what follows.
LEMMA LinesAfterLine ==
    ASSUME NEW l \in Seq(Piece), WholeLine(l), NEW b \in Seq(Piece)
    PROVE  Lines(l \o b) = [rest |-> Lines(b).rest, replies |-> <<Answer(l)>> \o Lines(b).replies]
<1> DEFINE first == <<Answer(l)>>
           Later(s) == [rest |-> Lines(s).rest, replies |-> first \o Lines(s).replies]
           S == {n \in Nat : \A s \in Seq(Piece) : Len(s) = n => Lines(l \o s) = Later(s)}
<1>1. first \in Seq(Reply)
  <2>1. Answer(l) \in Reply
    BY AnswerType DEF WholeLine
  <2> QED
    BY <2>1
<1>2. 0 \in S
  <2> SUFFICES ASSUME NEW s \in Seq(Piece), Len(s) = 0 PROVE Lines(l \o s) = Later(s)
    OBVIOUS
  <2>1. s = <<>>
    BY EmptySeq
  <2>2. l \o s = l /\ first \o <<>> = first
    BY <1>1, <2>1, ConcatEmptySeq
  <2>3. Lines(s) = [rest |-> <<>>, replies |-> <<>>]
    BY <2>1, LinesEmpty DEF NoLines
  <2>4. Lines(l) = [rest |-> <<>>, replies |-> first]
    BY LinesOfLine
  <2> HIDE DEF first
  <2> QED
    BY <2>2, <2>3, <2>4
<1> HIDE DEF first
<1>3. ASSUME NEW n \in Nat, n \in S PROVE n + 1 \in S
  <2> SUFFICES ASSUME NEW s \in Seq(Piece), Len(s) = n + 1 PROVE Lines(l \o s) = Later(s)
    OBVIOUS
  <2>1. s # <<>>
    BY EmptySeq
  <2>2. PICK t \in Seq(Piece), e \in Piece : s = Append(t, e)
    BY <2>1, SequenceEmptyOrAppend
  <2>3. Len(t) = n
    BY <2>2, AppendProperties, LenProperties
  <2>4. Lines(l \o t) = Later(t)
    BY <1>3, <2>3
  <2>5. l \o s = Append(l \o t, e) /\ l \o t \in Seq(Piece)
    BY <2>2, AppendOfConcat, ConcatProperties
  <2>6. Lines(l \o s) = After(Lines(l \o t), e) /\ Lines(s) = After(Lines(t), e)
    <3> DEFINE u == l \o t
    <3>1. u \in Seq(Piece)
      BY <2>5
    <3> HIDE DEF u
    <3>2. Lines(Append(u, e)) = After(Lines(u), e) /\ Lines(Append(t, e)) = After(Lines(t), e)
      BY <3>1, LinesAppend
    <3> QED
      BY <2>2, <2>5, <3>2 DEF u
  <2> DEFINE rest == Lines(t).rest
             replies == Lines(t).replies
             line == Append(rest, e)
  <2>7. rest \in Seq(Piece) /\ replies \in Seq(Reply)
    BY LinesType DEF LineState
  <2>8. Answer(line) \in Reply
    <3> HIDE DEF rest
    <3>1. Append(rest, e) \in Seq(Piece) /\ Append(rest, e) # <<>>
      BY <2>7, AppendProperties
    <3> QED
      BY <3>1, AnswerType
  <2>9. first \o Append(replies, Answer(line)) = Append(first \o replies, Answer(line))
    <3> DEFINE answer == Answer(line)
    <3>1. answer \in Reply
      BY <2>8
    <3> HIDE DEF replies, line, answer
    <3>2. first \o Append(replies, answer) = Append(first \o replies, answer)
      BY <1>1, <2>7, <3>1, AppendOfConcat
    <3> QED
      BY <3>2 DEF answer
  <2>10. /\ Lines(l \o s) = IF EndsLine(e)
                            THEN [rest |-> <<>>, replies |-> Append(first \o replies, Answer(line))]
                            ELSE [rest |-> line, replies |-> first \o replies]
         /\ Lines(s) = IF EndsLine(e)
                       THEN [rest |-> <<>>, replies |-> Append(replies, Answer(line))]
                       ELSE [rest |-> line, replies |-> replies]
    BY <2>4, <2>6 DEF After
  <2> HIDE DEF rest, replies, line
  <2>11. CASE EndsLine(e)
    <3>1. Lines(s).rest = <<>> /\ Lines(s).replies = Append(replies, Answer(line))
      BY <2>10, <2>11
    <3> QED
      BY <2>9, <2>10, <2>11, <3>1
  <2>12. CASE ~EndsLine(e)
    <3>1. Lines(s).rest = line /\ Lines(s).replies = replies
      BY <2>10, <2>12
    <3> QED
      BY <2>10, <2>12, <3>1
  <2> QED
    BY <2>11, <2>12
<1>4. Len(b) \in S
  BY <1>2, <1>3, AllNumbers, LenProperties
<1> QED
  BY <1>4 DEF first

-----------------------------------------------------------------------------
(* The answers that lines deserve *)

LEMMA AnswersType ==
    ASSUME NEW q \in Seq(Piece), NEW fin \in BOOLEAN
    PROVE  Answers(q, fin) \in Seq(Reply)
<1>1. Lines(q).rest \in Seq(Piece) /\ Lines(q).replies \in Seq(Reply)
  BY LinesType DEF LineState
<1>2. CASE fin /\ Lines(q).rest # <<>>
  <2>1. Answer(Lines(q).rest) \in Reply
    BY <1>1, <1>2, AnswerType
  <2> QED
    BY <1>1, <1>2, <2>1, AppendProperties DEF Answers
<1>3. CASE ~(fin /\ Lines(q).rest # <<>>)
  BY <1>1, <1>3 DEF Answers
<1> QED
  BY <1>2, <1>3

LEMMA AnswersEmpty ==
    ASSUME NEW fin \in BOOLEAN
    PROVE  Answers(<<>>, fin) = <<>>
  BY LinesEmpty DEF Answers, NoLines

\* The first line is answered first.
LEMMA AnswersOfLine ==
    ASSUME NEW l \in Seq(Piece), WholeLine(l), NEW b \in Seq(Piece), NEW fin \in BOOLEAN
    PROVE  Answers(l \o b, fin) = <<Answer(l)>> \o Answers(b, fin)
<1> DEFINE first == <<Answer(l)>>
           rest == Lines(b).rest
           replies == Lines(b).replies
<1>1. first \in Seq(Reply)
  <2>1. Answer(l) \in Reply
    BY AnswerType DEF WholeLine
  <2> QED
    BY <2>1
<1>2. rest \in Seq(Piece) /\ replies \in Seq(Reply)
  BY LinesType DEF LineState
<1>3. Lines(l \o b).rest = rest /\ Lines(l \o b).replies = first \o replies
  BY LinesAfterLine
<1>4. CASE fin /\ rest # <<>>
  <2>1. Answer(rest) \in Reply
    BY <1>2, <1>4, AnswerType
  <2>2. Answers(l \o b, fin) = Append(first \o replies, Answer(rest))
    BY <1>3, <1>4 DEF Answers
  <2>3. Answers(b, fin) = Append(replies, Answer(rest))
    BY <1>4 DEF Answers
  <2> HIDE DEF first, rest, replies
  <2>4. first \o Append(replies, Answer(rest)) = Append(first \o replies, Answer(rest))
    BY <1>1, <1>2, <2>1, AppendOfConcat
  <2> QED
    BY <2>2, <2>3, <2>4 DEF first
<1>5. CASE ~(fin /\ rest # <<>>)
  BY <1>3, <1>5 DEF Answers
<1> QED
  BY <1>4, <1>5

\* What is left when the client has closed its side is one line.
LEMMA AnswersOfRest ==
    ASSUME NEW q \in Seq(Piece), q # <<>>, NoEnd(q)
    PROVE  Answers(q, TRUE) = <<Answer(q)>>
<1>1. Lines(q) = [rest |-> q, replies |-> <<>>]
  BY LinesOfPart
<1>2. Append(<<>>, Answer(q)) = <<Answer(q)>>
  OBVIOUS
<1> QED
  BY <1>1, <1>2 DEF Answers

\* The client sends one more piece, or closes its side: one answer more or none.
LEMMA AnswersMore ==
    ASSUME NEW q \in Seq(Piece), NEW piece \in Piece
    PROVE  Answers(Append(q, piece), FALSE) =
               IF EndsLine(piece) THEN Append(Answers(q, FALSE), Answer(Append(Lines(q).rest, piece)))
               ELSE Answers(q, FALSE)
<1>1. Lines(Append(q, piece)) = After(Lines(q), piece)
  BY LinesAppend
<1> QED
  BY <1>1 DEF Answers, After

LEMMA AnswersAtEnd ==
    ASSUME NEW q
    PROVE  Answers(q, TRUE) = IF Lines(q).rest # <<>>
                              THEN Append(Answers(q, FALSE), Answer(Lines(q).rest))
                              ELSE Answers(q, FALSE)
  BY DEF Answers

-----------------------------------------------------------------------------
(* What readline() returns *)

\* The first complete line of q, and what follows.
Cut(q, end) ==
    /\ end \in 1 .. Len(q)
    /\ SubSeq(q, 1, end) \in Seq(Piece) /\ SubSeq(q, end + 1, Len(q)) \in Seq(Piece)
    /\ q = SubSeq(q, 1, end) \o SubSeq(q, end + 1, Len(q))
    /\ WholeLine(SubSeq(q, 1, end))

LEMMA FirstEndCuts ==
    ASSUME NEW q \in Seq(Piece)
    PROVE  (FirstEnd(q) = 0 /\ NoEnd(q)) \/ Cut(q, FirstEnd(q))
<1> DEFINE T == {i \in 1 .. Len(q) : EndsLine(q[i])}
           IsFirst(i) == EndsLine(q[i]) /\ \A j \in 1 .. i - 1 : ~EndsLine(q[j])
<1>1. Len(q) \in Nat
  BY LenProperties
<1>2. CASE T = {}
  BY <1>2 DEF FirstEnd, NoEnd
<1>3. CASE T # {}
  <2>1. T \subseteq Nat
    BY <1>1
  <2>2. PICK i \in T : \A j \in T : i =< j
    <3> HIDE DEF T
    <3> QED
      BY <1>3, <2>1, Least
  <2>3. i \in 1 .. Len(q) /\ IsFirst(i)
    <3>1. ASSUME NEW j \in 1 .. i - 1, EndsLine(q[j]) PROVE FALSE
      <4>1. j \in T
        BY <1>1, <2>2, <3>1
      <4>2. i =< j
        BY <2>2, <4>1
      <4> QED
        BY <1>1, <2>2, <4>2
    <3> QED
      BY <2>2, <3>1
  <2> DEFINE end == FirstEnd(q)
  <2>4. end = CHOOSE k \in 1 .. Len(q) : IsFirst(k)
    BY <2>3 DEF FirstEnd
  <2>5. end \in 1 .. Len(q) /\ IsFirst(end)
    <3> HIDE DEF IsFirst, end
    <3> QED
      BY <2>3, <2>4
  <2> HIDE DEF end
  <2> DEFINE line == SubSeq(q, 1, end)
             rest == SubSeq(q, end + 1, Len(q))
  <2>6. /\ line \in Seq(Piece) /\ Len(line) = end
        /\ \A j \in 1 .. end : line[j] = q[j]
    <3>1. \A j \in 1 .. end : j \in 1 .. Len(q)
      BY <1>1, <2>5
    <3>2. \A j \in 1 .. end : q[j] \in Piece
      BY <3>1, ElementOfSeq
    <3> QED
      BY <1>1, <2>5, <3>2
  <2>7. rest \in Seq(Piece)
    <3>1. \A j \in end + 1 .. Len(q) : q[j] \in Piece
      BY <1>1, <2>5, ElementOfSeq
    <3> QED
      BY <1>1, <2>5, <3>1, SubSeqProperties
  <2>8. q = line \o rest
    <3>1. end \in 1 .. Len(q) /\ 1 \in 1 .. Len(q)
      BY <1>1, <2>5
    <3>2. CASE end = Len(q)
      <4>1. rest = <<>> /\ line = q
        BY <1>1, <3>2, SubSeqEmpty, SubSeqFull
      <4> QED
        BY <4>1, ConcatEmptySeq
    <3>3. CASE end # Len(q)
      <4>1. SubSeq(q, 1, Len(q)) = SubSeq(q, 1, end) \o SubSeq(q, end + 1, Len(q))
        BY <1>1, <3>1, <3>3, ConcatAdjacentSubSeq
      <4> QED
        BY <4>1, SubSeqFull
    <3> QED
      BY <3>2, <3>3
  <2>9. WholeLine(line)
    <3>1. end \in 1 .. end /\ \A j \in 1 .. end - 1 : j \in 1 .. end
      BY <1>1, <2>5
    <3>2. EndsLine(line[end]) /\ \A j \in 1 .. end - 1 : ~EndsLine(line[j])
      BY <2>5, <2>6, <3>1
    <3>3. line # <<>>
      BY <2>5, <2>6, EmptySeq
    <3> HIDE DEF line
    <3> QED
      BY <2>6, <3>2, <3>3 DEF WholeLine
  <2>10. Cut(q, end)
    BY <2>5, <2>6, <2>7, <2>8, <2>9 DEF Cut
  <2> QED
    BY <2>10 DEF end
<1> QED
  BY <1>2, <1>3

-----------------------------------------------------------------------------
(* Connections *)

Conn == [phase  : {"new", "open", "closing", "lost"},
         sent   : Seq(Piece), rcvq : Seq(Piece), fin : BOOLEAN, rst : BOOLEAN,
         task   : {"none", "read", "query", "drain", "gone"},
         line   : Seq(Piece), hello : BOOLEAN, since : Nat,
         ping   : {"none", "sleep", "drain", "dead"}, due : Nat,
         out    : Seq(Message), paused : BOOLEAN,
         sndq   : Seq(Message), got : Seq(Message)]

\* The kernel holds no more than it can.
Fits(c) == c \in Conn /\ Len(c.sndq) =< SndBuf

Stream(c) == c.got \o c.sndq \o c.out

\* Nothing but the buffers of the stream differs.
OtherwiseSame(c, r) ==
    /\ r.phase = c.phase /\ r.sent = c.sent /\ r.rcvq = c.rcvq /\ r.fin = c.fin /\ r.rst = c.rst
    /\ r.task = c.task /\ r.line = c.line /\ r.ping = c.ping /\ r.got = c.got

LEMMA Limits == SndBuf \in Nat \ {0} /\ HelloTimeout \in Nat /\ PingInterval \in Nat
  BY PushPyAssumption DEF PushPyAssumption

\* The kernel takes the beginning of the buffer.
LEMMA SentStream ==
    ASSUME NEW c, Fits(c)
    PROVE  /\ Fits(Sent(c)) /\ OtherwiseSame(c, Sent(c))
           /\ Stream(Sent(c)) = Stream(c)
           /\ c.rst => Sent(c).sndq = c.sndq
<1> DEFINE out == c.out
           q == c.sndq
           g == c.got
           n == IF c.rst THEN 0 ELSE Min2(SndBuf - Len(q), Len(out))
           a == SubSeq(out, 1, n)
           b == SubSeq(out, n + 1, Len(out))
<1>1. /\ c \in Conn /\ out \in Seq(Message) /\ q \in Seq(Message) /\ g \in Seq(Message)
      /\ Len(q) =< SndBuf /\ Len(q) \in Nat /\ Len(out) \in Nat
  <2>1. c \in Conn /\ c.out \in Seq(Message) /\ c.sndq \in Seq(Message) /\ c.got \in Seq(Message)
    BY DEF Fits, Conn
  <2> QED
    BY <2>1, LenProperties DEF Fits
<1>2. Sent(c) = [c EXCEPT !.sndq = q \o a, !.out = b]
  BY DEF Sent
<1>3. n \in 0 .. Len(out) /\ n =< SndBuf - Len(q)
  <2> HIDE DEF q, out
  <2> QED
    BY <1>1, Limits DEF Min2
<1>4. c.rst => n = 0
  OBVIOUS
<1> HIDE DEF n
<1>5. a \in Seq(Message) /\ b \in Seq(Message) /\ Len(a) = n /\ out = a \o b
  <2> HIDE DEF out
  <2>1. CASE n = 0
    <3>1. a = <<>> /\ b = out
      BY <1>1, <2>1, SubSeqEmpty, SubSeqFull
    <3> QED
      BY <1>1, <2>1, <3>1, EmptySeq, ConcatEmptySeq
  <2>2. CASE n # 0 /\ n = Len(out)
    <3>1. a = out /\ b = <<>>
      BY <1>1, <2>2, SubSeqEmpty, SubSeqFull
    <3> QED
      BY <1>1, <2>2, <3>1, EmptySeq, ConcatEmptySeq
  <2>3. CASE n # 0 /\ n # Len(out)
    <3>1. n \in 1 .. Len(out) /\ n + 1 \in 1 .. Len(out)
      BY <1>1, <1>3, <2>3
    <3>2. SubSeq(out, 1, Len(out)) = a \o b
      BY <1>1, <3>1, ConcatAdjacentSubSeq
    <3>3. \A j \in 1 .. Len(out) : out[j] \in Message
      BY <1>1, ElementOfSeq
    <3>4. a \in Seq(Message) /\ b \in Seq(Message) /\ Len(a) = n
      BY <1>1, <3>1, <3>3, SubSeqProperties
    <3> QED
      BY <1>1, <3>2, <3>4, SubSeqFull
  <2> QED
    BY <2>1, <2>2, <2>3
<1> DEFINE x == q \o a
<1> HIDE DEF a, b, q, out, g
<1>6. x \in Seq(Message) /\ Len(x) =< SndBuf
  <2>1. x \in Seq(Message) /\ Len(x) = Len(q) + n
    BY <1>1, <1>5, ConcatProperties
  <2> QED
    BY <1>1, <1>3, <2>1, Limits
<1>7. (g \o x) \o b = (g \o q) \o out
  <2>0. q \in Seq(Message) /\ g \in Seq(Message) /\ a \in Seq(Message)
    BY <1>1, <1>5
  <2>1. g \o (q \o a) = (g \o q) \o a /\ g \o q \in Seq(Message)
    <3>1. g \o q \in Seq(Message)
      BY <2>0, ConcatProperties
    <3> QED
      BY <2>0, <3>1, ConcatAssociative
  <2>2. ((g \o q) \o a) \o b = (g \o q) \o (a \o b)
    <3> DEFINE h == g \o q
    <3>1. h \in Seq(Message) /\ a \in Seq(Message) /\ b \in Seq(Message)
      BY <1>5, <2>1
    <3> HIDE DEF h
    <3>2. (h \o a) \o b = h \o (a \o b)
      BY <3>1, ConcatAssociative
    <3> QED
      BY <3>2 DEF h
  <2> QED
    BY <1>5, <2>1, <2>2
<1>8. c.rst => x = q
  <2>1. n = 0 => a = <<>>
    BY <1>5, EmptySeq
  <2> QED
    BY <1>1, <1>4, <2>1, ConcatEmptySeq
<1> DEFINE r == [c EXCEPT !.sndq = x, !.out = b]
<1> HIDE DEF x
<1>9. r \in Conn /\ r.sndq = x /\ r.out = b /\ OtherwiseSame(c, r)
  BY <1>1, <1>5, <1>6 DEF Conn, OtherwiseSame
<1>10. Sent(c) = r
  BY <1>2 DEF x
<1> HIDE DEF r
<1>11. Stream(r) = Stream(c)
  BY <1>7, <1>9 DEF Stream, OtherwiseSame, g, q, out
<1> QED
  BY <1>6, <1>8, <1>9, <1>10, <1>11 DEF Fits, q

-----------------------------------------------------------------------------
(* What a client has asked, what it can still get, what it got *)

LEMMA NotReplies == PingLine \notin Reply /\ ByeLine \notin Reply /\ Reply \subseteq Message
  BY DEF Reply, PingLine, ByeLine, Message

LEMMA OnlyReplies == Message \ {PingLine, ByeLine} = Reply
  BY NotReplies DEF Message

LEMMA RepliesInType ==
    ASSUME NEW ms \in Seq(Message)
    PROVE  RepliesIn(ms) \in Seq(Reply)
<1>1. Without(ms, {PingLine, ByeLine}) \in Seq(Message \ {PingLine, ByeLine})
  BY WithoutType
<1> QED
  BY <1>1, OnlyReplies DEF RepliesIn

LEMMA RepliesInEmpty == RepliesIn(<<>>) = <<>>
  BY WithoutEmpty DEF RepliesIn

LEMMA RepliesInAppend ==
    ASSUME NEW ms \in Seq(Message), NEW m \in Message
    PROVE  RepliesIn(Append(ms, m)) = IF m \in {PingLine, ByeLine} THEN RepliesIn(ms)
                                      ELSE Append(RepliesIn(ms), m)
<1> DEFINE skip == {PingLine, ByeLine}
<1> HIDE DEF skip
<1>1. Without(Append(ms, m), skip) = IF m \in skip THEN Without(ms, skip)
                                     ELSE Append(Without(ms, skip), m)
  BY WithoutAppend
<1> QED
  BY <1>1 DEF RepliesIn, skip

LEMMA RepliesInConcat ==
    ASSUME NEW a \in Seq(Message), NEW b \in Seq(Message)
    PROVE  RepliesIn(a \o b) = RepliesIn(a) \o RepliesIn(b)
  BY WithoutConcat DEF RepliesIn

Asked(c) == Deserved(c)
Delivered(c) == RepliesIn(c.got)
Ended(c) == c.rst \/ c.phase = "lost"

\* What on_client writes reaches the client.
Reaches(c) == c.phase \in {"open", "closing"} /\ ~c.rst

\* on_client still answers: what the client asked is what was answered, and
\* what the line in hand and the unread pieces deserve.
Waiting(c, q) ==
    Reaches(c) =>
        /\ Asked(c) = Reachable(c) \o Answers(q, c.fin)
        /\ ~c.fin => Lines(c.sent).rest = Lines(q).rest

Kept(c) ==
    /\ c.phase = "new" => c = NewConn
    /\ c.rst => c.sndq = <<>>
    /\ c.task \in {"read", "drain"} => c.line = <<>> /\ Waiting(c, c.rcvq)
    /\ c.task = "query" => WholeLine(c.line) /\ Waiting(c, c.line \o c.rcvq)
    /\ Prefix(Reachable(c), Asked(c), Reply)

Good(c) == Fits(c) /\ Kept(c)

LEMMA ConnSeqs ==
    ASSUME NEW c, Fits(c)
    PROVE  /\ c.got \in Seq(Message) /\ c.sndq \in Seq(Message) /\ c.out \in Seq(Message)
           /\ c.sent \in Seq(Piece) /\ c.rcvq \in Seq(Piece) /\ c.line \in Seq(Piece)
           /\ c.rst \in BOOLEAN /\ c.fin \in BOOLEAN
           /\ Stream(c) \in Seq(Message)
<1>1. /\ c.got \in Seq(Message) /\ c.sndq \in Seq(Message) /\ c.out \in Seq(Message)
      /\ c.sent \in Seq(Piece) /\ c.rcvq \in Seq(Piece) /\ c.line \in Seq(Piece)
      /\ c.rst \in BOOLEAN /\ c.fin \in BOOLEAN
  BY DEF Fits, Conn
<1>2. c.got \o c.sndq \in Seq(Message)
  BY <1>1, ConcatProperties
<1>3. Stream(c) \in Seq(Message)
  BY <1>1, <1>2, ConcatProperties DEF Stream
<1> QED
  BY <1>1, <1>3

LEMMA ReachableOf ==
    ASSUME NEW c
    PROVE  Reachable(c) = IF c.rst THEN Delivered(c) ELSE RepliesIn(Stream(c))
  BY DEF Reachable, Delivered, Stream

\* What can still reach the client begins with what reached it.
LEMMA ReachableParts ==
    ASSUME NEW c, Fits(c)
    PROVE  /\ Delivered(c) \in Seq(Reply) /\ Reachable(c) \in Seq(Reply) /\ Asked(c) \in Seq(Reply)
           /\ Prefix(Delivered(c), Reachable(c), Reply)
<1>1. Delivered(c) \in Seq(Reply) /\ RepliesIn(Stream(c)) \in Seq(Reply)
  BY ConnSeqs, RepliesInType DEF Delivered
<1>2. Asked(c) \in Seq(Reply)
  BY ConnSeqs, AnswersType DEF Asked, Deserved
<1>3. Prefix(Delivered(c), Reachable(c), Reply)
  <2>1. CASE c.rst
    BY <1>1, <2>1, ReachableOf, PrefixItself
  <2>2. CASE ~c.rst
    <3> DEFINE g == c.got
               q == c.sndq
               out == c.out
    <3>1. g \in Seq(Message) /\ q \in Seq(Message) /\ out \in Seq(Message)
      BY ConnSeqs
    <3>2. Reachable(c) = RepliesIn((g \o q) \o out) /\ Delivered(c) = RepliesIn(g)
      BY <2>2 DEF Reachable, Delivered
    <3> HIDE DEF g, q, out
    <3>3. q \o out \in Seq(Message)
      BY <3>1, ConcatProperties
    <3>4. (g \o q) \o out = g \o (q \o out)
      BY <3>1, ConcatAssociative
    <3>5. RepliesIn(g \o (q \o out)) = RepliesIn(g) \o RepliesIn(q \o out)
      BY <3>1, <3>3, RepliesInConcat
    <3>6. RepliesIn(q \o out) \in Seq(Reply)
      BY <3>3, RepliesInType
    <3>7. Reachable(c) = Delivered(c) \o RepliesIn(q \o out)
      BY <3>2, <3>4, <3>5
    <3> QED
      BY <3>6, <3>7 DEF Prefix
  <2> QED
    BY <2>1, <2>2
<1> QED
  BY <1>1, <1>2, <1>3, ReachableOf

-----------------------------------------------------------------------------
(* What the server does to a connection *)

\* The client's side of it is left alone.
SameClient(c, r) == r.sent = c.sent /\ r.fin = c.fin /\ r.rst = c.rst /\ r.got = c.got

\* It answers more, or ends the connection.
Advanced(c, r) ==
    /\ Good(r) /\ SameClient(c, r)
    /\ c.phase # "new" /\ r.phase # "new"
    /\ IF c.phase = "lost" THEN r.phase = "lost" /\ Reachable(r) = Reachable(c)
       ELSE r.phase = "lost" \/ Len(Reachable(c)) =< Len(Reachable(r))

LEMMA AdvancedTwice ==
    ASSUME NEW c, NEW d, NEW e, Fits(c), Fits(d), Advanced(c, d), Advanced(d, e)
    PROVE  Advanced(c, e)
<1>1. Fits(e)
  BY DEF Advanced, Good
<1>2. Len(Reachable(c)) \in Nat /\ Len(Reachable(d)) \in Nat /\ Len(Reachable(e)) \in Nat
  BY <1>1, ReachableParts, LenProperties
<1> QED
  BY <1>2 DEF Advanced, SameClient

\* The phases a connection may pass to.
Onward(c, r) == r.phase = c.phase \/ (c.phase \in {"open", "closing"} /\ r.phase \in {"closing", "lost"})

\* Steps that write no message: they send, close, or pass to another await.
LEMMA SameAdvanced ==
    ASSUME NEW c, Good(c), c.phase # "new",
           NEW r, Fits(r), SameClient(c, r), Onward(c, r),
           r.rst \/ Stream(r) = Stream(c), r.rst => r.sndq = c.sndq,
           \/ r.task \in {"none", "gone"}
           \/ /\ r.line = c.line /\ r.rcvq = c.rcvq
              /\ r.task = c.task \/ (r.task \in {"read", "drain"} /\ c.task \in {"read", "drain"})
    PROVE  Advanced(c, r)
<1>1. Asked(r) = Asked(c) /\ Delivered(r) = Delivered(c)
  BY DEF Asked, Deserved, Delivered, SameClient
<1>2. Reachable(r) = Reachable(c)
  BY <1>1, ReachableOf DEF SameClient
<1>3. Reaches(r) => Reaches(c)
  BY DEF Reaches, Onward, SameClient
<1>4. \A q : Waiting(c, q) => Waiting(r, q)
  BY <1>1, <1>2, <1>3 DEF Waiting, SameClient
<1>5. Len(Reachable(c)) =< Len(Reachable(r))
  <2>1. Len(Reachable(c)) \in Nat
    BY ReachableParts, LenProperties DEF Good
  <2> QED
    BY <1>2, <2>1
<1>6. r.phase # "new" /\ (c.phase = "lost" => r.phase = "lost")
  BY DEF Onward
<1>7. c.rst => c.sndq = <<>>
  BY DEF Good, Kept
<1>8. r.task \in {"read", "drain"} => r.line = <<>> /\ Waiting(r, r.rcvq)
  BY <1>4 DEF Good, Kept
<1>9. r.task = "query" => WholeLine(r.line) /\ Waiting(r, r.line \o r.rcvq)
  BY <1>4 DEF Good, Kept
<1>10. Prefix(Reachable(r), Asked(r), Reply)
  BY <1>1, <1>2 DEF Good, Kept
<1>11. Kept(r)
  BY <1>6, <1>7, <1>8, <1>9, <1>10 DEF Kept, SameClient
<1> QED
  BY <1>2, <1>5, <1>6, <1>11 DEF Advanced, Good

\* A message is appended to the stream, unless the connection is lost.
LEMMA WriteAppends ==
    ASSUME NEW c, Fits(c), NEW m \in Message
    PROVE  /\ Fits(Write(c, m)) /\ OtherwiseSame(c, Write(c, m))
           /\ c.phase = "lost" => Write(c, m) = c
           /\ c.phase # "lost" => Stream(Write(c, m)) = Append(Stream(c), m)
           /\ c.rst => Write(c, m).sndq = c.sndq
<1>1. CASE c.phase = "lost"
  BY <1>1 DEF Write, OtherwiseSame
<1>2. CASE c.phase # "lost"
  <2> DEFINE d == [c EXCEPT !.out = Append(@, m)]
             s == Sent(d)
             r == [s EXCEPT !.paused = @ \/ Len(s.out) > High]
  <2>1. Write(c, m) = r
    BY <1>2 DEF Write
  <2>2. Append(c.out, m) \in Seq(Message)
    BY ConnSeqs, AppendProperties
  <2>3. d \in Conn /\ d.out = Append(c.out, m) /\ d.sndq = c.sndq /\ OtherwiseSame(c, d)
    BY <2>2 DEF Fits, Conn, OtherwiseSame
  <2> HIDE DEF d
  <2>4. Fits(d)
    BY <2>3 DEF Fits
  <2>5. Stream(d) = Append(Stream(c), m)
    <3> DEFINE a == c.got \o c.sndq
               out == c.out
    <3>1. a \in Seq(Message) /\ out \in Seq(Message)
      BY ConnSeqs, ConcatProperties
    <3>2. Stream(d) = a \o Append(out, m) /\ Stream(c) = a \o out
      BY <2>3 DEF Stream, OtherwiseSame
    <3> HIDE DEF a, out
    <3> QED
      BY <3>1, <3>2, AppendOfConcat
  <2>6. /\ Fits(s) /\ OtherwiseSame(d, s) /\ Stream(s) = Stream(d)
        /\ d.rst => s.sndq = d.sndq
    BY <2>4, SentStream
  <2> HIDE DEF s
  <2>7. r \in Conn /\ r.sndq = s.sndq /\ r.out = s.out /\ OtherwiseSame(s, r)
    <3>1. s \in Conn /\ s.paused \in BOOLEAN
      BY <2>6 DEF Fits, Conn
    <3> QED
      BY <3>1 DEF Conn, OtherwiseSame
  <2> HIDE DEF r
  <2>8. Fits(r) /\ Stream(r) = Stream(s)
    BY <2>6, <2>7 DEF Fits, Stream, OtherwiseSame
  <2>9. OtherwiseSame(c, r)
    BY <2>3, <2>6, <2>7 DEF OtherwiseSame
  <2>10. c.rst => r.sndq = c.sndq
    BY <2>3, <2>6, <2>7 DEF OtherwiseSame
  <2> QED
    BY <1>2, <2>1, <2>5, <2>6, <2>8, <2>9, <2>10
<1> QED
  BY <1>1, <1>2

\* A ping or a bye is no reply.
LEMMA NoteAdvanced ==
    ASSUME NEW c, Good(c), c.phase # "new", NEW m \in {PingLine, ByeLine}
    PROVE  Advanced(c, Write(c, m))
<1> DEFINE r == Write(c, m)
<1>1. m \in Message
  BY DEF Message
<1>2. /\ Fits(r) /\ OtherwiseSame(c, r)
      /\ c.phase = "lost" => r = c
      /\ c.phase # "lost" => Stream(r) = Append(Stream(c), m)
      /\ c.rst => r.sndq = c.sndq
  BY <1>1, WriteAppends DEF Good
<1> HIDE DEF r
<1>3. Reachable(r) = Reachable(c)
  <2>1. RepliesIn(Append(Stream(c), m)) = RepliesIn(Stream(c))
    BY <1>1, ConnSeqs, RepliesInAppend DEF Good
  <2> QED
    BY <1>2, <2>1, ReachableOf DEF OtherwiseSame, Delivered
<1>4. Asked(r) = Asked(c) /\ SameClient(c, r) /\ r.phase = c.phase /\ r.task = c.task
      /\ r.line = c.line /\ r.rcvq = c.rcvq
  BY <1>2 DEF Asked, Deserved, OtherwiseSame, SameClient
<1>5. \A q : Waiting(c, q) => Waiting(r, q)
  BY <1>3, <1>4 DEF Waiting, SameClient, Reaches
<1>6. Kept(r)
  BY <1>2, <1>3, <1>4, <1>5 DEF Good, Kept, SameClient
<1>7. Len(Reachable(c)) =< Len(Reachable(r))
  <2>1. Len(Reachable(c)) \in Nat
    BY ReachableParts, LenProperties DEF Good
  <2> QED
    BY <1>3, <2>1
<1>8. Advanced(c, r)
  BY <1>2, <1>3, <1>4, <1>6, <1>7 DEF Advanced, Good
<1> QED
  BY <1>8 DEF r

-----------------------------------------------------------------------------
(* Answers *)

\* The line l is the next one to be answered; c.line plays no part.
Due(c, l) ==
    /\ Fits(c) /\ c.phase # "new" /\ (c.rst => c.sndq = <<>>)
    /\ l \in Seq(Piece) /\ l # <<>>
    /\ Prefix(Reachable(c), Asked(c), Reply)
    /\ Reaches(c) => /\ Asked(c) = Reachable(c) \o (<<Answer(l)>> \o Answers(c.rcvq, c.fin))
                     /\ ~c.fin => Lines(c.sent).rest = Lines(c.rcvq).rest

\* It was written.
Answered(c, w) ==
    /\ Fits(w) /\ OtherwiseSame(c, w) /\ (w.rst => w.sndq = <<>>)
    /\ Prefix(Reachable(w), Asked(w), Reply)
    /\ Waiting(w, w.rcvq)
    /\ IF c.phase = "lost" THEN Reachable(w) = Reachable(c)
       ELSE Len(Reachable(c)) =< Len(Reachable(w))

LEMMA ReplyWritten ==
    ASSUME NEW c, NEW l, Due(c, l)
    PROVE  Answered(c, Write(c, Answer(l)))
<1> DEFINE m == Answer(l)
           w == Write(c, m)
           rest == Answers(c.rcvq, c.fin)
<1>1. m \in Reply /\ m \in Message /\ m \notin {PingLine, ByeLine}
  BY AnswerType, NotReplies DEF Due
<1>2. Fits(c) /\ Stream(c) \in Seq(Message) /\ Delivered(c) \in Seq(Reply)
      /\ Reachable(c) \in Seq(Reply) /\ Asked(c) \in Seq(Reply)
  BY ConnSeqs, ReachableParts DEF Due
<1>3. /\ Fits(w) /\ OtherwiseSame(c, w)
      /\ c.phase = "lost" => w = c
      /\ c.phase # "lost" => Stream(w) = Append(Stream(c), m)
      /\ c.rst => w.sndq = c.sndq
  BY <1>1, <1>2, WriteAppends
<1>4. rest \in Seq(Reply)
  BY <1>2, ConnSeqs, AnswersType
<1>5. RepliesIn(Append(Stream(c), m)) = Append(RepliesIn(Stream(c)), m)
  BY <1>1, <1>2, RepliesInAppend
<1>6. /\ Due(c, l)
      /\ Reaches(c) => Asked(c) = Reachable(c) \o (<<m>> \o rest)
  BY DEF Due
<1> HIDE DEF m, w, rest
<1>7. Asked(w) = Asked(c) /\ Delivered(w) = Delivered(c) /\ w.rst = c.rst /\ w.phase = c.phase
  BY <1>3 DEF Asked, Deserved, Delivered, OtherwiseSame
<1>8. CASE ~Reaches(c)
  <2>1. Reachable(w) = Reachable(c)
    BY <1>3, <1>7, <1>8, ReachableOf, <1>6 DEF Reaches, Due, Fits, Conn
  <2>2. Waiting(w, w.rcvq)
    BY <1>7, <1>8 DEF Waiting, Reaches
  <2>3. Len(Reachable(c)) \in Nat
    BY <1>2, LenProperties
  <2>4. Len(Reachable(c)) =< Len(Reachable(w))
    BY <2>1, <2>3
  <2> QED
    BY <1>3, <1>6, <1>7, <2>1, <2>2, <2>4 DEF Answered, Due, w, m
<1>9. CASE Reaches(c)
  <2>1. Reachable(w) = Append(Reachable(c), m)
    BY <1>3, <1>5, <1>7, <1>9, ReachableOf DEF Reaches
  <2> DEFINE r == Reachable(c)
  <2>2. r \in Seq(Reply) /\ <<m>> \in Seq(Reply)
    BY <1>1, <1>2
  <2>3. Asked(c) = r \o (<<m>> \o rest) /\ Reachable(w) = Append(r, m)
    BY <1>6, <1>9, <2>1
  <2> HIDE DEF r
  <2>4. r \o (<<m>> \o rest) = (r \o <<m>>) \o rest
    BY <1>4, <2>2, ConcatAssociative
  <2>5. Append(r, m) = r \o <<m>>
    BY <1>1, <2>2, AppendIsConcat
  <2>6. Asked(w) = Reachable(w) \o rest
    BY <1>7, <2>3, <2>4, <2>5
  <2>7. Prefix(Reachable(w), Asked(w), Reply)
    BY <1>4, <2>6 DEF Prefix
  <2>8. ~c.fin => Lines(c.sent).rest = Lines(c.rcvq).rest
    BY <1>6, <1>9 DEF Due
  <2>9. Waiting(w, w.rcvq)
    BY <1>3, <2>6, <2>8 DEF Waiting, OtherwiseSame, rest
  <2>10. Len(r) =< Len(Reachable(w))
    <3>1. Len(r) \in Nat /\ Len(Append(r, m)) = Len(r) + 1
      BY <1>1, <2>2, AppendProperties, LenProperties
    <3> QED
      BY <2>3, <3>1
  <2>11. c.phase # "lost"
    BY <1>9 DEF Reaches
  <2> QED
    BY <1>3, <1>6, <1>7, <2>7, <2>9, <2>10, <2>11 DEF Answered, Due, r, w, m
<1> QED
  BY <1>8, <1>9

\* After it on_client reads on, waits in drain(), or ends.
LEMMA AnsweredAdvanced ==
    ASSUME NEW c, NEW l, Due(c, l), NEW w, Answered(c, w),
           NEW r, Fits(r), SameClient(w, r), Onward(w, r),
           Stream(r) = Stream(w), r.sndq = w.sndq,
           r.task = "gone" \/ (r.task \in {"read", "drain"} /\ r.line = <<>> /\ r.rcvq = w.rcvq)
    PROVE  Advanced(c, r)
<1>1. Asked(r) = Asked(w) /\ Delivered(r) = Delivered(w)
  BY DEF Asked, Deserved, Delivered, SameClient
<1>2. Reachable(r) = Reachable(w)
  BY <1>1, ReachableOf DEF SameClient
<1>3. Reaches(r) => Reaches(w)
  BY DEF Reaches, Onward, SameClient
<1>4. \A q : Waiting(w, q) => Waiting(r, q)
  BY <1>1, <1>2, <1>3 DEF Waiting, SameClient
<1>5. SameClient(c, r) /\ c.phase = w.phase /\ c.phase # "new"
  BY DEF Due, Answered, OtherwiseSame, SameClient
<1>6. r.phase # "new" /\ (c.phase = "lost" => r.phase = "lost")
  BY <1>5 DEF Onward
<1>7. r.rst => r.sndq = <<>>
  BY DEF Answered, SameClient
<1>8. r.task \in {"read", "drain"} => r.line = <<>> /\ Waiting(r, r.rcvq)
  BY <1>4 DEF Answered
<1>9. Kept(r)
  BY <1>1, <1>2, <1>6, <1>7, <1>8 DEF Kept, Answered
<1>10. IF c.phase = "lost" THEN Reachable(r) = Reachable(c)
       ELSE Len(Reachable(c)) =< Len(Reachable(r))
  BY <1>2 DEF Answered
<1> QED
  BY <1>5, <1>6, <1>9, <1>10 DEF Advanced, Good

-----------------------------------------------------------------------------
(* close(), the end of on_client, and its way back to readline() *)

LEMMA CloseFits ==
    ASSUME NEW c, Fits(c), c.phase # "new"
    PROVE  /\ Fits(Close(c)) /\ Onward(c, Close(c)) /\ SameClient(c, Close(c))
           /\ Stream(Close(c)) = Stream(c) /\ Close(c).sndq = c.sndq
           /\ Close(c).task = c.task /\ Close(c).line = c.line /\ Close(c).rcvq = c.rcvq
           /\ Close(c).ping = c.ping /\ Close(c).out = c.out
<1> DEFINE r == Close(c)
<1>1. c \in Conn
  BY DEF Fits
<1>2. /\ r \in Conn /\ r.sndq = c.sndq /\ r.out = c.out /\ SameClient(c, r)
      /\ r.task = c.task /\ r.line = c.line /\ r.rcvq = c.rcvq /\ r.ping = c.ping
      /\ r.phase = IF c.out = <<>> \/ c.phase = "lost" THEN "lost" ELSE "closing"
  BY <1>1 DEF Close, Conn, SameClient
<1>3. c.phase \in {"open", "closing", "lost"}
  BY <1>1 DEF Conn
<1> HIDE DEF r
<1>4. Onward(c, r)
  BY <1>2, <1>3 DEF Onward
<1>5. Stream(r) = Stream(c)
  BY <1>2 DEF Stream, SameClient
<1>6. Fits(r)
  BY <1>2 DEF Fits
<1> QED
  BY <1>2, <1>4, <1>5, <1>6 DEF r

LEMMA GoneFits ==
    ASSUME NEW c, Fits(c), c.phase # "new"
    PROVE  /\ Fits(Gone(c)) /\ Onward(c, Gone(c)) /\ SameClient(c, Gone(c))
           /\ Stream(Gone(c)) = Stream(c) /\ Gone(c).sndq = c.sndq
           /\ Gone(c).task = "gone" /\ Gone(c).out = c.out
           /\ c.out = <<>> => Gone(c).phase = "lost"
<1> DEFINE d == Close(c)
           r == [d EXCEPT !.task = "gone", !.ping = "dead", !.line = <<>>, !.rcvq = <<>>]
<1>1. /\ Fits(d) /\ Onward(c, d) /\ SameClient(c, d) /\ Stream(d) = Stream(c)
      /\ d.sndq = c.sndq /\ d.out = c.out
  BY CloseFits
<1>2. c.out = <<>> => d.phase = "lost"
  BY DEF Close, Fits, Conn
<1>3. Gone(c) = r
  BY DEF Gone
<1> HIDE DEF d
<1>4. /\ r \in Conn /\ r.sndq = d.sndq /\ r.out = d.out /\ r.phase = d.phase /\ r.task = "gone"
      /\ SameClient(d, r)
  <2>1. d \in Conn /\ <<>> \in Seq(Piece)
    BY <1>1, EmptySeq DEF Fits
  <2> QED
    BY <2>1 DEF Conn, SameClient
<1> HIDE DEF r
<1> QED
  BY <1>1, <1>2, <1>3, <1>4 DEF Fits, Onward, SameClient, Stream

LEMMA GoneAdvanced ==
    ASSUME NEW c, Good(c), c.phase # "new"
    PROVE  Advanced(c, Gone(c))
<1> DEFINE r == Gone(c)
<1>1. /\ Fits(r) /\ Onward(c, r) /\ SameClient(c, r) /\ Stream(r) = Stream(c)
      /\ r.sndq = c.sndq /\ r.task = "gone"
  BY GoneFits DEF Good
<1> HIDE DEF r
<1>2. Advanced(c, r)
  BY <1>1, SameAdvanced
<1> QED
  BY <1>2 DEF r

LEMMA ReadNextFits ==
    ASSUME NEW c, Fits(c), now \in Nat
    PROVE  /\ Fits(ReadNext(c)) /\ SameClient(c, ReadNext(c))
           /\ ReadNext(c).phase = c.phase /\ ReadNext(c).rcvq = c.rcvq /\ ReadNext(c).ping = c.ping
           /\ Stream(ReadNext(c)) = Stream(c) /\ ReadNext(c).sndq = c.sndq
           /\ ReadNext(c).task = "read" /\ ReadNext(c).line = <<>>
<1> DEFINE r == ReadNext(c)
<1>1. c \in Conn /\ <<>> \in Seq(Piece)
  BY EmptySeq DEF Fits
<1>2. /\ r \in Conn /\ r.sndq = c.sndq /\ r.out = c.out /\ r.got = c.got /\ r.task = "read"
      /\ r.line = <<>>
      /\ SameClient(c, r) /\ r.phase = c.phase /\ r.rcvq = c.rcvq /\ r.ping = c.ping
  BY <1>1 DEF ReadNext, Conn, SameClient
<1> HIDE DEF r
<1> QED
  BY <1>2 DEF Fits, Stream, r

\* The reply is written; on_client reads on, waits, or ends.
LEMMA RepliedAdvanced ==
    ASSUME NEW p, NEW c, NEW l, Due(c, l), now \in Nat
    PROVE  Advanced(c, Replied(p, c, l))
<1> DEFINE w == Write(c, Answer(l))
           d == [w EXCEPT !.task = "drain", !.line = <<>>]
           r == Replied(p, c, l)
<1>1. Answered(c, w)
  BY ReplyWritten
<1> HIDE DEF w
<1>2. Fits(w) /\ w.phase # "new" /\ w.phase = c.phase
  BY <1>1 DEF Answered, OtherwiseSame, Due
<1>3. r = Gone(w) \/ r = ReadNext(w) \/ r = d
  BY DEF Replied, w
<1> HIDE DEF r
<1>4. CASE r = Gone(w)
  <2>1. /\ Fits(r) /\ Onward(w, r) /\ SameClient(w, r) /\ Stream(r) = Stream(w)
        /\ r.sndq = w.sndq /\ r.task = "gone"
    BY <1>2, <1>4, GoneFits
  <2> QED
    BY <1>1, <2>1, AnsweredAdvanced DEF r
<1>5. CASE r = ReadNext(w)
  <2>1. /\ Fits(r) /\ SameClient(w, r) /\ r.phase = w.phase /\ r.rcvq = w.rcvq
        /\ Stream(r) = Stream(w) /\ r.sndq = w.sndq /\ r.task = "read" /\ r.line = <<>>
    BY <1>2, <1>5, ReadNextFits
  <2>2. Onward(w, r)
    BY <2>1 DEF Onward
  <2> QED
    BY <1>1, <2>1, <2>2, AnsweredAdvanced DEF r
<1>6. CASE r = d
  <2>1. w \in Conn /\ <<>> \in Seq(Piece)
    BY <1>2, EmptySeq DEF Fits
  <2>2. /\ r \in Conn /\ SameClient(w, r) /\ r.phase = w.phase /\ r.rcvq = w.rcvq
        /\ r.out = w.out /\ r.got = w.got /\ r.sndq = w.sndq /\ r.task = "drain" /\ r.line = <<>>
    BY <1>6, <2>1 DEF Conn, SameClient
  <2>3. Fits(r) /\ Stream(r) = Stream(w) /\ Onward(w, r)
    BY <1>2, <2>2 DEF Fits, Stream, Onward
  <2> QED
    BY <1>1, <2>2, <2>3, AnsweredAdvanced DEF r
<1> QED
  BY <1>3, <1>4, <1>5, <1>6

LEMMA AdvancedFrom ==
    ASSUME NEW c, NEW d, SameClient(c, d), d.phase = c.phase, Reachable(d) = Reachable(c),
           NEW r, Advanced(d, r)
    PROVE  Advanced(c, r)
  BY DEF Advanced, SameClient

\* What one line does.
LEMMA HandledAdvanced ==
    ASSUME NEW p, NEW c, NEW l, Due(c, l), now \in Nat,
           l[Len(l)].kind = "query" => WholeLine(l)
    PROVE  Advanced(c, Handled(p, c, l))
<1> DEFINE r == Handled(p, c, l)
           kind == l[Len(l)].kind
<1>1. Fits(c) /\ c \in Conn /\ l \in Seq(Piece) /\ c.phase # "new"
  BY DEF Due, Fits
<1>2. CASE kind = "query"
  <2> DEFINE d == [c EXCEPT !.task = "query", !.line = l]
  <2>1. r = d
    BY <1>2 DEF Handled
  <2>2. /\ d \in Conn /\ SameClient(c, d) /\ d.phase = c.phase /\ d.rcvq = c.rcvq /\ d.out = c.out
        /\ d.sndq = c.sndq /\ d.task = "query" /\ d.line = l
    BY <1>1 DEF Conn, SameClient
  <2> HIDE DEF d
  <2>3. Stream(d) = Stream(c) /\ Asked(d) = Asked(c) /\ Delivered(d) = Delivered(c) /\ Fits(d)
    BY <1>1, <2>2 DEF Stream, Asked, Deserved, Delivered, SameClient, Fits
  <2>4. Reachable(d) = Reachable(c)
    BY <2>2, <2>3, ReachableOf DEF SameClient
  <2> DEFINE b == c.rcvq
             fin == c.fin
  <2>5. b \in Seq(Piece) /\ fin \in BOOLEAN
    BY <1>1, ConnSeqs
  <2> HIDE DEF b, fin
  <2>6. WholeLine(l)
    BY <1>2
  <2>7. Answers(l \o b, fin) = <<Answer(l)>> \o Answers(b, fin)
    BY <1>1, <2>5, <2>6, AnswersOfLine
  <2>8. Lines(l \o b).rest = Lines(b).rest
    <3>1. Lines(l \o b) = [rest |-> Lines(b).rest, replies |-> <<Answer(l)>> \o Lines(b).replies]
      BY <1>1, <2>5, <2>6, LinesAfterLine
    <3> QED
      BY <3>1
  <2>9. Waiting(d, l \o b)
    BY <2>2, <2>3, <2>4, <2>7, <2>8 DEF Waiting, Due, Reaches, SameClient, b, fin
  <2>10. Kept(d)
    BY <2>2, <2>3, <2>4, <2>6, <2>9 DEF Kept, Due, SameClient, b
  <2>11. Len(Reachable(c)) =< Len(Reachable(d))
    <3>1. Len(Reachable(c)) \in Nat
      BY <1>1, ReachableParts, LenProperties
    <3> QED
      BY <2>4, <3>1
  <2>12. Advanced(c, d)
    BY <1>1, <2>2, <2>3, <2>4, <2>10, <2>11 DEF Advanced, Good
  <2> QED
    BY <2>1, <2>12
<1>3. CASE kind \in {"junk", "part"}
  <2> DEFINE w == Write(c, Answer(l))
             d == ReadNext(w)
  <2>1. r = d
    BY <1>3 DEF Handled
  <2>2. Answered(c, w)
    BY ReplyWritten
  <2> HIDE DEF w
  <2>3. Fits(w)
    BY <2>2 DEF Answered
  <2>4. /\ Fits(d) /\ SameClient(w, d) /\ d.phase = w.phase /\ d.rcvq = w.rcvq
        /\ Stream(d) = Stream(w) /\ d.sndq = w.sndq /\ d.task = "read" /\ d.line = <<>>
    BY <2>3, ReadNextFits
  <2> HIDE DEF d
  <2>5. Onward(w, d)
    BY <2>4 DEF Onward
  <2>6. Advanced(c, d)
    BY <2>2, <2>4, <2>5, AnsweredAdvanced
  <2> QED
    BY <2>1, <2>6
<1>4. CASE kind \notin {"query", "junk", "part"}
  <2> DEFINE d == [c EXCEPT !.hello = @ \/ kind = "hello"]
  <2>1. r = Replied(p, d, l)
    BY <1>4 DEF Handled
  <2>2. /\ d \in Conn /\ SameClient(c, d) /\ d.phase = c.phase /\ d.rcvq = c.rcvq /\ d.out = c.out
        /\ d.sndq = c.sndq
    <3>1. (c.hello \/ kind = "hello") \in BOOLEAN
      OBVIOUS
    <3> HIDE DEF kind
    <3> QED
      BY <1>1, <3>1 DEF Conn, SameClient
  <2> HIDE DEF d
  <2>3. Stream(d) = Stream(c) /\ Asked(d) = Asked(c) /\ Delivered(d) = Delivered(c) /\ Fits(d)
    BY <1>1, <2>2 DEF Stream, Asked, Deserved, Delivered, SameClient, Fits
  <2>4. Reachable(d) = Reachable(c)
    BY <2>2, <2>3, ReachableOf DEF SameClient
  <2>5. Due(d, l)
    BY <2>2, <2>3, <2>4 DEF Due, SameClient, Reaches
  <2>6. Advanced(d, Replied(p, d, l))
    BY <2>5, RepliedAdvanced
  <2>7. Advanced(c, Replied(p, d, l))
    BY <2>2, <2>4, <2>6, AdvancedFrom
  <2> QED
    BY <2>1, <2>7
<1> QED
  BY <1>2, <1>3, <1>4

\* readline() took the line l from what was there.
LEMMA LineTaken ==
    ASSUME NEW c, Good(c), c.task = "read", c.phase # "new",
           NEW l \in Seq(Piece), NEW b \in Seq(Piece),
           \/ WholeLine(l) /\ c.rcvq = l \o b
           \/ l # <<>> /\ NoEnd(l) /\ c.rcvq = l /\ b = <<>> /\ (c.fin \/ c.phase = "lost")
    PROVE  LET d == [c EXCEPT !.rcvq = b]
           IN  Due(d, l) /\ SameClient(c, d) /\ d.phase = c.phase /\ Reachable(d) = Reachable(c)
<1> DEFINE d == [c EXCEPT !.rcvq = b]
           q == c.rcvq
           fin == c.fin
<1>1. Fits(c) /\ c \in Conn /\ Kept(c)
  BY DEF Good, Fits
<1>2. /\ d \in Conn /\ SameClient(c, d) /\ d.phase = c.phase /\ d.rcvq = b /\ d.out = c.out
      /\ d.sndq = c.sndq
  BY <1>1 DEF Conn, SameClient
<1> HIDE DEF d
<1>3. Stream(d) = Stream(c) /\ Asked(d) = Asked(c) /\ Delivered(d) = Delivered(c) /\ Fits(d)
  BY <1>1, <1>2 DEF Stream, Asked, Deserved, Delivered, SameClient, Fits
<1>4. Reachable(d) = Reachable(c)
  BY <1>2, <1>3, ReachableOf DEF SameClient
<1>5. fin \in BOOLEAN /\ Waiting(c, q)
  BY <1>1, ConnSeqs DEF Kept
<1>6. l # <<>>
  BY DEF WholeLine
<1>7. Reaches(c) => /\ Answers(q, fin) = <<Answer(l)>> \o Answers(b, fin)
                    /\ ~fin => Lines(q).rest = Lines(b).rest
  <2>1. CASE WholeLine(l) /\ c.rcvq = l \o b
    <3>1. q = l \o b /\ WholeLine(l)
      BY <2>1
    <3> HIDE DEF q, fin
    <3>2. Answers(l \o b, fin) = <<Answer(l)>> \o Answers(b, fin)
      BY <1>5, <3>1, AnswersOfLine
    <3>3. Lines(l \o b).rest = Lines(b).rest
      <4>1. Lines(l \o b) = [rest |-> Lines(b).rest, replies |-> <<Answer(l)>> \o Lines(b).replies]
        BY <3>1, LinesAfterLine
      <4> QED
        BY <4>1
    <3> QED
      BY <3>1, <3>2, <3>3
  <2>2. CASE l # <<>> /\ NoEnd(l) /\ c.rcvq = l /\ b = <<>> /\ (c.fin \/ c.phase = "lost")
    <3>1. Reaches(c) => fin
      BY <2>2 DEF Reaches
    <3>2. fin => fin = TRUE
      BY <1>5
    <3>3. q = l /\ b = <<>>
      BY <2>2
    <3> HIDE DEF q, fin
    <3>4. Answers(l, TRUE) = <<Answer(l)>>
      BY <2>2, AnswersOfRest
    <3>5. Answers(<<>>, TRUE) = <<>>
      BY AnswersEmpty
    <3>6. <<Answer(l)>> \o <<>> = <<Answer(l)>>
      <4>1. Answer(l) \in Reply
        BY <1>6, AnswerType
      <4>2. <<Answer(l)>> \in Seq(Reply)
        BY <4>1
      <4> QED
        BY <4>2, ConcatEmptySeq
    <3> QED
      BY <3>1, <3>2, <3>3, <3>4, <3>5, <3>6
  <2> QED
    BY <2>1, <2>2
<1>8. Reaches(d) => /\ Asked(d) = Reachable(d) \o (<<Answer(l)>> \o Answers(d.rcvq, d.fin))
                    /\ ~d.fin => Lines(d.sent).rest = Lines(d.rcvq).rest
  BY <1>2, <1>3, <1>4, <1>5, <1>7 DEF Waiting, Reaches, SameClient
<1>9. Due(d, l)
  BY <1>1, <1>2, <1>3, <1>4, <1>6, <1>8 DEF Due, Kept, SameClient
<1> QED
  BY <1>2, <1>4, <1>9 DEF d


-----------------------------------------------------------------------------
(* The steps of the server, for the connection they touch *)

\* A task of a connection runs only once it is open.
LEMMA TaskOpen ==
    ASSUME NEW c, Good(c), c.task # "none" \/ c.ping # "none" \/ c.rst
    PROVE  c.phase # "new"
  BY DEF Good, Kept, NewConn

LEMMA ReadlineAdvances ==
    ASSUME NEW p \in Peers, Good(conn[p]), now \in Nat, Readline(p)
    PROVE  \E r : Advanced(conn[p], r) /\ Set(p, r)
<1> DEFINE c == conn[p]
           q == c.rcvq
           end == FirstEnd(q)
           over == c.fin \/ c.phase = "lost"
           n == IF end # 0 THEN end ELSE Len(q)
           l == SubSeq(q, 1, n)
           b == SubSeq(q, n + 1, Len(q))
           d == [c EXCEPT !.rcvq = b]
<1>1. /\ c.task = "read" /\ (end # 0 \/ n > MaxLine \/ over \/ c.rst)
      /\ Set(p, IF c.rst \/ n > MaxLine \/ n = 0 THEN Gone(c) ELSE Handled(p, d, l))
  BY DEF Readline
<1>2. c.phase # "new" /\ q \in Seq(Piece) /\ Len(q) \in Nat
  BY <1>1, TaskOpen, ConnSeqs, LenProperties DEF Good
<1>3. CASE c.rst \/ n > MaxLine \/ n = 0
  <2>1. Set(p, Gone(c))
    BY <1>1, <1>3
  <2>2. Advanced(c, Gone(c))
    BY <1>2, GoneAdvanced
  <2> QED
    BY <2>1, <2>2
<1>4. CASE ~(c.rst \/ n > MaxLine \/ n = 0)
  <2>1. Set(p, Handled(p, d, l))
    BY <1>1, <1>4
  <2>2. /\ l \in Seq(Piece) /\ b \in Seq(Piece)
        /\ \/ WholeLine(l) /\ q = l \o b
           \/ l # <<>> /\ NoEnd(l) /\ q = l /\ b = <<>> /\ over
    <3>1. (end = 0 /\ NoEnd(q)) \/ Cut(q, end)
      BY <1>2, FirstEndCuts
    <3>2. CASE Cut(q, end)
      <4> HIDE DEF q, end
      <4>1. end # 0
        BY <1>2, <3>2 DEF Cut
      <4> QED
        BY <3>2, <4>1 DEF Cut
    <3>3. CASE end = 0 /\ NoEnd(q)
      <4>1. n = Len(q) /\ Len(q) # 0 /\ over
        BY <1>1, <1>4, <3>3
      <4>2. l = q /\ b = <<>>
        <5> HIDE DEF q, n
        <5> QED
          BY <1>2, <4>1, SubSeqFull, SubSeqEmpty
      <4>3. q # <<>> /\ <<>> \in Seq(Piece)
        BY <1>2, <4>1, EmptySeq
      <4> QED
        BY <1>2, <3>3, <4>1, <4>2, <4>3
    <3> QED
      BY <3>1, <3>2, <3>3
  <2>3. l[Len(l)].kind = "query" => WholeLine(l)
    <3>1. CASE WholeLine(l)
      BY <3>1
    <3>2. CASE l # <<>> /\ NoEnd(l)
      <4> HIDE DEF l
      <4>1. Len(l) \in 1 .. Len(l)
        BY <2>2, <3>2, EmptySeq, LenProperties
      <4> QED
        BY <3>2, <4>1 DEF NoEnd, EndsLine
    <3> QED
      BY <2>2, <3>1, <3>2
  <2> HIDE DEF l, b
  <2>4. Due(d, l) /\ SameClient(c, d) /\ d.phase = c.phase /\ Reachable(d) = Reachable(c)
    BY <1>1, <1>2, <2>2, LineTaken
  <2> HIDE DEF c, d
  <2>5. Advanced(d, Handled(p, d, l))
    BY <2>3, <2>4, HandledAdvanced
  <2>6. Advanced(c, Handled(p, d, l))
    BY <2>4, <2>5, AdvancedFrom
  <2> QED
    BY <2>1, <2>6 DEF c
<1> QED
  BY <1>3, <1>4

LEMMA HelloExpiresAdvances ==
    ASSUME NEW p \in Peers, Good(conn[p]), HelloExpires(p)
    PROVE  \E r : Advanced(conn[p], r) /\ Set(p, r)
<1>1. conn[p].task = "read" /\ Set(p, Gone(conn[p]))
  BY DEF HelloExpires
<1>2. Advanced(conn[p], Gone(conn[p]))
  BY <1>1, TaskOpen, GoneAdvanced
<1> QED
  BY <1>1, <1>2

LEMMA QueryEndsAdvances ==
    ASSUME NEW p \in Peers, Good(conn[p]), now \in Nat, QueryEnds(p)
    PROVE  \E r : Advanced(conn[p], r) /\ Set(p, r)
<1> DEFINE c == conn[p]
           l == c.line
           b == c.rcvq
           fin == c.fin
<1>1. c.task = "query" /\ (Set(p, Replied(p, c, l)) \/ Set(p, Gone(c)))
  BY DEF QueryEnds
<1>2. /\ c.phase # "new" /\ Fits(c) /\ Kept(c) /\ WholeLine(l) /\ l # <<>>
      /\ l \in Seq(Piece) /\ b \in Seq(Piece) /\ fin \in BOOLEAN /\ Waiting(c, l \o b)
  BY <1>1, TaskOpen, ConnSeqs DEF Good, Kept, WholeLine
<1> HIDE DEF l, b, fin, c
<1>3. Answers(l \o b, fin) = <<Answer(l)>> \o Answers(b, fin)
  BY <1>2, AnswersOfLine
<1>4. Lines(l \o b).rest = Lines(b).rest
  <2>1. Lines(l \o b) = [rest |-> Lines(b).rest, replies |-> <<Answer(l)>> \o Lines(b).replies]
    BY <1>2, LinesAfterLine
  <2> QED
    BY <2>1
<1>5. Due(c, l)
  BY <1>2, <1>3, <1>4 DEF Due, Kept, Waiting, b, fin
<1>6. Advanced(c, Replied(p, c, l))
  BY <1>5, RepliedAdvanced
<1>7. Advanced(c, Gone(c))
  BY <1>2, GoneAdvanced DEF Good
<1> QED
  BY <1>1, <1>6, <1>7 DEF c

LEMMA PingAdvances ==
    ASSUME NEW p \in Peers, Good(conn[p]), now \in Nat, Ping(p)
    PROVE  \E r : Advanced(conn[p], r) /\ Set(p, r)
<1> DEFINE c == conn[p]
           w == Write(c, PingLine)
           dead == [w EXCEPT !.ping = "dead"]
           wait == [w EXCEPT !.ping = "drain"]
           slept == Slept(w)
<1>1. c.ping = "sleep" /\ \E r \in {dead, wait, slept} : Set(p, r)
  BY DEF Ping
<1>2. c.phase # "new" /\ Fits(c)
  BY <1>1, TaskOpen DEF Good
<1>3. Advanced(c, w)
  BY <1>2, NoteAdvanced
<1> HIDE DEF w, c
<1>4. Good(w) /\ Fits(w) /\ w \in Conn /\ w.phase # "new" /\ now + PingInterval \in Nat
  BY <1>3, Limits DEF Advanced, Good, Fits
<1>5. ASSUME NEW r \in {dead, wait, slept} PROVE Advanced(c, r)
  <2>1. /\ r \in Conn /\ SameClient(w, r) /\ r.phase = w.phase /\ r.out = w.out
        /\ r.sndq = w.sndq /\ r.task = w.task /\ r.line = w.line /\ r.rcvq = w.rcvq
    <3>1. CASE r = dead
      BY <1>4, <3>1 DEF Conn, SameClient
    <3>2. CASE r = wait
      BY <1>4, <3>2 DEF Conn, SameClient
    <3>3. CASE r = slept
      BY <1>4, <3>3 DEF Conn, SameClient, Slept
    <3> QED
      BY <3>1, <3>2, <3>3
  <2> HIDE DEF dead, wait, slept
  <2>2. Fits(r) /\ Stream(r) = Stream(w) /\ Onward(w, r)
    BY <1>4, <2>1 DEF Fits, Stream, Onward, SameClient
  <2>3. Advanced(w, r)
    BY <1>4, <2>1, <2>2, SameAdvanced
  <2> QED
    BY <1>2, <1>3, <1>4, <2>2, <2>3, AdvancedTwice
<1> QED
  BY <1>1, <1>5 DEF c


LEMMA AdvancedItself ==
    ASSUME NEW c, Good(c), c.phase # "new"
    PROVE  Advanced(c, c)
<1>1. Fits(c) /\ SameClient(c, c) /\ Onward(c, c) /\ c.task \in {"none", "read", "query", "drain", "gone"}
  BY DEF Good, Fits, Conn, SameClient, Onward
<1> QED
  BY <1>1, SameAdvanced

LEMMA CloseAdvanced ==
    ASSUME NEW c, Good(c), c.phase # "new"
    PROVE  Advanced(c, Close(c))
<1> DEFINE r == Close(c)
<1>1. /\ Fits(r) /\ Onward(c, r) /\ SameClient(c, r) /\ Stream(r) = Stream(c)
      /\ r.sndq = c.sndq /\ r.task = c.task /\ r.line = c.line /\ r.rcvq = c.rcvq
  BY CloseFits DEF Good
<1> HIDE DEF r
<1>2. Advanced(c, r)
  BY <1>1, SameAdvanced
<1> QED
  BY <1>2 DEF r

LEMMA ResumedAdvanced ==
    ASSUME NEW c, Good(c), c.phase # "new", now \in Nat
    PROVE  Advanced(c, Resumed(c))
<1> DEFINE task == IF c.task = "drain" THEN ReadNext(c) ELSE c
           ping == IF task.ping = "drain" THEN Slept(task) ELSE task
           r == [ping EXCEPT !.paused = FALSE]
<1>1. c \in Conn /\ Fits(c) /\ <<>> \in Seq(Piece) /\ now + PingInterval \in Nat
  BY EmptySeq, Limits DEF Good, Fits
<1>2. /\ Fits(task) /\ SameClient(c, task) /\ task.phase = c.phase /\ task.rcvq = c.rcvq
      /\ task.ping = c.ping /\ Stream(task) = Stream(c) /\ task.sndq = c.sndq
      /\ IF c.task = "drain" THEN task.task = "read" /\ task.line = <<>>
         ELSE task.task = c.task /\ task.line = c.line
  <2>1. CASE c.task = "drain"
    BY <1>1, <2>1, ReadNextFits
  <2>2. CASE c.task # "drain"
    BY <1>1, <2>2 DEF SameClient
  <2> QED
    BY <2>1, <2>2
<1>3. Resumed(c) = r
  BY <1>2 DEF Resumed
<1> HIDE DEF task
<1>4. /\ ping \in Conn /\ SameClient(task, ping) /\ ping.phase = task.phase /\ ping.out = task.out
      /\ ping.sndq = task.sndq /\ ping.task = task.task /\ ping.line = task.line
      /\ ping.rcvq = task.rcvq
  <2>1. task \in Conn
    BY <1>2 DEF Fits
  <2> DEFINE slept == Slept(task)
  <2>2. /\ slept \in Conn /\ SameClient(task, slept) /\ slept.phase = task.phase
        /\ slept.out = task.out /\ slept.sndq = task.sndq /\ slept.task = task.task
        /\ slept.line = task.line /\ slept.rcvq = task.rcvq
    BY <1>1, <2>1 DEF Conn, SameClient, Slept
  <2>3. SameClient(task, task) /\ (ping = slept \/ ping = task)
    BY DEF SameClient
  <2> HIDE DEF ping, slept
  <2> QED
    BY <2>1, <2>2, <2>3
<1> HIDE DEF ping
<1>5. /\ r \in Conn /\ SameClient(ping, r) /\ r.phase = ping.phase /\ r.out = ping.out
      /\ r.sndq = ping.sndq /\ r.task = ping.task /\ r.line = ping.line
      /\ r.rcvq = ping.rcvq
  BY <1>4 DEF Conn, SameClient
<1> HIDE DEF r
<1>6. /\ Fits(r) /\ Stream(r) = Stream(c) /\ SameClient(c, r) /\ Onward(c, r) /\ r.sndq = c.sndq
      /\ r.rcvq = c.rcvq
  BY <1>2, <1>4, <1>5 DEF Fits, Stream, SameClient, Onward
<1>7. r.line = c.line /\ (r.task = c.task \/ (r.task = "read" /\ c.task = "drain"))
  BY <1>2, <1>4, <1>5 DEF Good, Kept
<1>8. Advanced(c, r)
  BY <1>6, <1>7, SameAdvanced
<1> QED
  BY <1>3, <1>8

LEMMA SendBufferedAdvances ==
    ASSUME NEW p \in Peers, Good(conn[p]), now \in Nat, SendBuffered(p)
    PROVE  \E r : Advanced(conn[p], r) /\ conn' = [conn EXCEPT ![p] = r]
<1> DEFINE a == conn[p]
           s == Sent(a)
           resume == s.paused /\ Len(s.out) =< Low
           r == IF resume THEN Resumed(s) ELSE s
           c == IF resume /\ goodbye = p THEN Close(r) ELSE r
           lost == [c EXCEPT !.phase = "lost"]
           e == IF c.phase = "closing" /\ c.out = <<>> THEN lost ELSE c
<1>1. a.phase # "new" /\ conn' = [conn EXCEPT ![p] = e]
  BY DEF SendBuffered
<1>2. Fits(a)
  BY DEF Good
<1>3. Advanced(a, s)
  <2>1. /\ Fits(s) /\ OtherwiseSame(a, s) /\ Stream(s) = Stream(a)
        /\ a.rst => s.sndq = a.sndq
    BY <1>2, SentStream
  <2> HIDE DEF a, s
  <2>2. /\ SameClient(a, s) /\ Onward(a, s) /\ s.line = a.line /\ s.rcvq = a.rcvq
        /\ s.task = a.task /\ s.rst = a.rst
    BY <2>1 DEF OtherwiseSame, SameClient, Onward
  <2>3. Good(a)
    BY DEF a
  <2> QED
    BY <1>1, <2>1, <2>2, <2>3, SameAdvanced
<1> HIDE DEF s, a
<1>4. Good(s) /\ Fits(s) /\ s.phase # "new"
  BY <1>3 DEF Advanced, Good
<1>5. Advanced(s, r) /\ Good(r) /\ Fits(r) /\ r.phase # "new"
  <2>1. Advanced(s, r)
    BY <1>4, ResumedAdvanced, AdvancedItself
  <2> HIDE DEF r
  <2> QED
    BY <2>1 DEF Advanced, Good
<1> HIDE DEF r
<1>6. Advanced(r, c) /\ Good(c) /\ Fits(c) /\ c.phase # "new"
  <2>1. Advanced(r, c)
    BY <1>5, CloseAdvanced, AdvancedItself
  <2> HIDE DEF c
  <2> QED
    BY <2>1 DEF Advanced, Good
<1> HIDE DEF c, resume
<1>7. Advanced(c, e) /\ Fits(e)
  <2>1. CASE e = c
    BY <1>6, <2>1, AdvancedItself
  <2>2. CASE c.phase = "closing" /\ e = lost
    <3>1. c \in Conn
      BY <1>6 DEF Fits
    <3>2. /\ e \in Conn /\ SameClient(c, e) /\ Onward(c, e) /\ e.out = c.out /\ e.sndq = c.sndq
          /\ e.line = c.line /\ e.rcvq = c.rcvq /\ e.task = c.task
      BY <2>2, <3>1 DEF Conn, SameClient, Onward
    <3> HIDE DEF e
    <3>3. Fits(e) /\ Stream(e) = Stream(c)
      BY <1>6, <3>2 DEF Fits, Stream, SameClient
    <3> QED
      BY <1>6, <3>2, <3>3, SameAdvanced
  <2> QED
    BY <2>1, <2>2
<1>8. Advanced(a, e)
  <2> HIDE DEF e
  <2>1. Advanced(a, r)
    BY <1>2, <1>3, <1>4, <1>5, AdvancedTwice
  <2>2. Advanced(r, e)
    BY <1>5, <1>6, <1>7, AdvancedTwice
  <2> QED
    BY <1>2, <1>5, <1>7, <2>1, <2>2, AdvancedTwice
<1> QED
  BY <1>1, <1>8 DEF a

LEMMA ConnectionLostAdvances ==
    ASSUME NEW p \in Peers, Good(conn[p]), ConnectionLost(p)
    PROVE  \E r : Advanced(conn[p], r) /\ conn' = [conn EXCEPT ![p] = r]
<1> DEFINE a == conn[p]
           c == [a EXCEPT !.phase = "lost", !.out = <<>>, !.paused = FALSE]
           dead == [c EXCEPT !.ping = "dead"]
<1>1. /\ a.rst /\ a.phase \in {"open", "closing"}
      /\ \E r \in {Gone(c), dead, c} : conn' = [conn EXCEPT ![p] = r]
  BY DEF ConnectionLost
<1>2. Fits(a) /\ a \in Conn /\ <<>> \in Seq(Message) /\ Good(a)
  BY EmptySeq DEF Good, Fits
<1> HIDE DEF a
<1>3. /\ c \in Conn /\ SameClient(a, c) /\ Onward(a, c) /\ c.sndq = a.sndq /\ c.rst = a.rst
      /\ c.line = a.line /\ c.rcvq = a.rcvq /\ c.task = a.task
  BY <1>1, <1>2 DEF Conn, SameClient, Onward
<1> HIDE DEF c
<1>4. Fits(c)
  BY <1>2, <1>3 DEF Fits
<1>5. Advanced(a, c)
  BY <1>1, <1>2, <1>3, <1>4, SameAdvanced
<1>6. Good(c) /\ c.phase # "new"
  BY <1>5 DEF Advanced
<1>7. /\ dead \in Conn /\ SameClient(c, dead) /\ dead.phase = c.phase /\ dead.out = c.out
      /\ dead.sndq = c.sndq /\ dead.line = c.line /\ dead.rcvq = c.rcvq /\ dead.task = c.task
  BY <1>3 DEF Conn, SameClient
<1> HIDE DEF dead
<1>8. Fits(dead) /\ Stream(dead) = Stream(c) /\ Onward(c, dead)
  BY <1>4, <1>7 DEF Fits, Stream, SameClient, Onward
<1>9. Advanced(c, Gone(c)) /\ Advanced(c, dead) /\ Advanced(c, c)
  BY <1>6, <1>7, <1>8, SameAdvanced, GoneAdvanced, AdvancedItself
<1>10. Fits(Gone(c))
  BY <1>9 DEF Advanced, Good
<1>11. Advanced(a, Gone(c)) /\ Advanced(a, dead)
  BY <1>2, <1>4, <1>5, <1>8, <1>9, <1>10, AdvancedTwice
<1> QED
  BY <1>1, <1>5, <1>11 DEF a

LEMMA SayByeAdvances ==
    ASSUME NEW p \in Peers, Good(conn[p]), conn[p].phase # "new", SayBye(p)
    PROVE  \E r : Advanced(conn[p], r) /\ conn' = [conn EXCEPT ![p] = r]
<1> DEFINE c == conn[p]
           w == Write(c, ByeLine)
<1>1. \E r \in {w, Close(w)} : conn' = [conn EXCEPT ![p] = r]
  BY DEF SayBye
<1>2. Advanced(c, w)
  BY NoteAdvanced
<1> HIDE DEF w
<1>3. Good(w) /\ w.phase # "new" /\ Fits(w) /\ Fits(c)
  BY <1>2 DEF Advanced, Good
<1>4. Advanced(w, Close(w))
  BY <1>3, CloseAdvanced
<1>5. Fits(Close(w))
  BY <1>4 DEF Advanced, Good
<1>6. Advanced(c, Close(w))
  <2> HIDE DEF c
  <2> QED
    BY <1>2, <1>3, <1>4, <1>5, AdvancedTwice
<1> QED
  BY <1>1, <1>2, <1>6


-----------------------------------------------------------------------------
(* The steps of LineService, for one connection *)

Quietly(c, r) ==
    /\ Asked(r) = Asked(c) /\ Reachable(r) = Reachable(c)
    /\ Delivered(r) = Delivered(c) /\ Ended(r) = Ended(c)

Serves(c, r) ==
    /\ ~Ended(c)
    /\ Len(Reachable(r)) \in Len(Delivered(c)) .. Len(Asked(c))
    /\ Reachable(r) = SubSeq(Asked(c), 1, Len(Reachable(r)))
    /\ Len(Reachable(r)) < Len(Reachable(c)) => Ended(r)
    /\ Asked(r) = Asked(c) /\ Delivered(r) = Delivered(c)

Delivers(c, r) ==
    /\ Len(Delivered(c)) < Len(Reachable(c))
    /\ Delivered(r) = SubSeq(Reachable(c), 1, Len(Delivered(c)) + 1)
    /\ Asked(r) = Asked(c) /\ Reachable(r) = Reachable(c) /\ Ended(r) = Ended(c)

Asks(c, r) ==
    /\ Asked(r) # Asked(c)
    /\ Len(Asked(r)) = Len(Asked(c)) + 1
    /\ SubSeq(Asked(r), 1, Len(Asked(c))) = Asked(c)
    /\ Reachable(r) = Reachable(c) /\ Delivered(r) = Delivered(c) /\ Ended(r) = Ended(c)

Moved(c, r) ==
    /\ Good(r) /\ (c.phase # "new" => r.phase # "new")
    /\ Quietly(c, r) \/ Serves(c, r) \/ Delivers(c, r) \/ Asks(c, r)

LEMMA ServedMoved ==
    ASSUME NEW c, Good(c), ~Ended(c), NEW r, Good(r), c.phase # "new" => r.phase # "new",
           Asked(r) = Asked(c), Delivered(r) = Delivered(c),
           Len(Reachable(r)) < Len(Reachable(c)) => Ended(r)
    PROVE  Moved(c, r)
<1>1. Prefix(Reachable(r), Asked(r), Reply) /\ Prefix(Delivered(r), Reachable(r), Reply)
  BY ReachableParts DEF Good, Kept
<1>2. /\ Len(Reachable(r)) \in Nat /\ Len(Asked(r)) \in Nat /\ Len(Delivered(r)) \in Nat
      /\ Len(Reachable(r)) =< Len(Asked(r)) /\ Len(Delivered(r)) =< Len(Reachable(r))
      /\ Reachable(r) = SubSeq(Asked(r), 1, Len(Reachable(r)))
  BY <1>1, ReachableParts, PrefixIsSubSeq DEF Good
<1>3. Len(Reachable(r)) \in Len(Delivered(c)) .. Len(Asked(c))
  BY <1>2
<1>4. Serves(c, r)
  BY <1>2, <1>3 DEF Serves
<1> QED
  BY <1>4 DEF Moved

\* What the server does to a connection is a step of the service.
LEMMA AdvancedMoved ==
    ASSUME NEW c, Good(c), NEW r, Advanced(c, r)
    PROVE  Moved(c, r)
<1>1. /\ Good(r) /\ r.phase # "new" /\ r.rst = c.rst
      /\ Asked(r) = Asked(c) /\ Delivered(r) = Delivered(c)
  BY DEF Advanced, SameClient, Asked, Deserved, Delivered
<1>2. CASE Ended(c)
  <2>1. Reachable(r) = Reachable(c) /\ Ended(r) = Ended(c)
    <3>1. CASE c.rst
      BY <1>1, <3>1, ReachableOf DEF Ended
    <3>2. CASE ~c.rst /\ c.phase = "lost"
      BY <1>1, <3>2 DEF Advanced, Ended
    <3> QED
      BY <1>2, <3>1, <3>2 DEF Ended
  <2> QED
    BY <1>1, <2>1 DEF Moved, Quietly
<1>3. CASE ~Ended(c)
  <2>1. Len(Reachable(r)) < Len(Reachable(c)) => Ended(r)
    <3>1. Len(Reachable(c)) \in Nat /\ Len(Reachable(r)) \in Nat
      BY <1>1, ReachableParts, LenProperties DEF Good
    <3> QED
      BY <1>3, <3>1 DEF Advanced, Ended
  <2> QED
    BY <1>1, <1>3, <2>1, ServedMoved
<1> QED
  BY <1>2, <1>3

LEMMA StayedMoved ==
    ASSUME NEW c, Good(c)
    PROVE  Moved(c, c)
  BY DEF Moved, Quietly

LEMMA NewHasNothing ==
    /\ NewConn \in Conn
    /\ Asked(NewConn) = <<>> /\ Reachable(NewConn) = <<>> /\ Delivered(NewConn) = <<>>
    /\ ~Ended(NewConn)
<1> DEFINE c == NewConn
<1>1. /\ c \in Conn
      /\ c.sent = <<>> /\ c.got = <<>> /\ c.sndq = <<>> /\ c.out = <<>> /\ ~c.rst /\ c.fin = FALSE
      /\ c.phase = "new"
  <2>1. <<>> \in Seq(Piece) /\ <<>> \in Seq(Message)
    BY EmptySeq
  <2> QED
    BY <2>1 DEF NewConn, Conn
<1> HIDE DEF c
<1>2. <<>> \in Seq(Message) /\ <<>> \o <<>> = <<>>
  BY EmptySeq, ConcatEmptySeq
<1>3. Reachable(c) = <<>> /\ Delivered(c) = <<>>
  BY <1>1, <1>2, RepliesInEmpty DEF Reachable, Delivered
<1>4. Asked(c) = <<>>
  BY <1>1, AnswersEmpty DEF Asked, Deserved
<1>5. c \in Conn /\ ~Ended(c)
  BY <1>1 DEF Ended
<1> QED
  BY <1>3, <1>4, <1>5 DEF c

LEMMA NewGood == Good(NewConn)
<1> DEFINE c == NewConn
<1>1. c.task = "none" /\ c.sndq = <<>>
  BY DEF NewConn
<1>2. Len(<<>>) = 0
  BY EmptySeq
<1>3. Fits(c)
  BY <1>1, <1>2, NewHasNothing, Limits DEF Fits
<1>4. Prefix(Reachable(c), Asked(c), Reply)
  BY NewHasNothing, EmptySeq, PrefixItself
<1> QED
  BY <1>1, <1>3, <1>4 DEF Good, Kept

\* A client connects: its tasks begin, and there is nothing to answer.
LEMMA OpenedMoved ==
    ASSUME NEW c, Good(c), c.phase = "new", now \in Nat
    PROVE  Moved(c, Slept([ReadNext(c) EXCEPT !.phase = "open"]))
<1> DEFINE r == Slept([ReadNext(c) EXCEPT !.phase = "open"])
<1>1. c = NewConn
  BY DEF Good, Kept
<1>2. now \in Nat /\ now + PingInterval \in Nat /\ <<>> \in Seq(Piece) /\ <<>> \in Seq(Message)
      /\ <<>> \in Seq(Reply) /\ Len(<<>>) = 0
  BY Limits, EmptySeq
<1>3. /\ r \in Conn /\ r.phase = "open" /\ r.task = "read" /\ r.line = <<>> /\ r.rcvq = <<>>
      /\ r.sent = <<>> /\ r.got = <<>> /\ r.sndq = <<>> /\ r.out = <<>> /\ r.rst = FALSE
      /\ r.fin = FALSE
  BY <1>1, <1>2 DEF NewConn, ReadNext, Slept, Conn
<1>4. c.sent = <<>> /\ c.got = <<>> /\ c.sndq = <<>> /\ c.out = <<>> /\ c.rst = FALSE /\ c.fin = FALSE
  BY <1>1 DEF NewConn
<1> HIDE DEF r
<1>5. /\ Asked(r) = Asked(c) /\ Reachable(r) = Reachable(c) /\ Delivered(r) = Delivered(c)
      /\ Ended(r) = Ended(c)
  <2>1. Ended(r) = Ended(c)
    BY <1>3, <1>4 DEF Ended
  <2> QED
    BY <1>3, <1>4, <2>1 DEF Asked, Deserved, Reachable, Delivered
<1>6. Asked(r) = <<>> /\ Reachable(r) = <<>>
  BY <1>1, <1>5, NewHasNothing
<1>7. Waiting(r, r.rcvq)
  <2>1. Answers(r.rcvq, r.fin) = <<>>
    BY <1>3, AnswersEmpty
  <2>2. <<>> \o <<>> = <<>>
    BY <1>2, ConcatEmptySeq
  <2> QED
    BY <1>3, <1>6, <2>1, <2>2 DEF Waiting
<1>8. Prefix(Reachable(r), Asked(r), Reply)
  BY <1>2, <1>6, PrefixItself
<1>9. Good(r)
  BY <1>2, <1>3, <1>7, <1>8, Limits DEF Good, Fits, Kept
<1>10. Moved(c, r)
  BY <1>3, <1>5, <1>9 DEF Moved, Quietly
<1> QED
  BY <1>10 DEF r


\* What the client sends more is still to be answered.
LEMMA WaitingMore ==
    ASSUME NEW c, Fits(c), ~c.fin, NEW q \in Seq(Piece), Waiting(c, q), NEW piece \in Piece,
           NEW r, r.sent = Append(c.sent, piece), r.fin = c.fin, r.rst = c.rst,
           r.phase = c.phase, Reachable(r) = Reachable(c)
    PROVE  Waiting(r, Append(q, piece))
<1> DEFINE sent == c.sent
           more == Append(sent, piece)
           u == Append(q, piece)
           rest == Lines(q).rest
           x == Answer(Append(rest, piece))
           a == Reachable(c)
           d == Answers(q, FALSE)
<1> SUFFICES ASSUME Reaches(r)
             PROVE  Asked(r) = Reachable(r) \o Answers(u, r.fin) /\ Lines(r.sent).rest = Lines(u).rest
  BY DEF Waiting
<1>1. c.fin = FALSE /\ sent \in Seq(Piece) /\ a \in Seq(Reply) /\ d \in Seq(Reply)
      /\ rest \in Seq(Piece)
  <2>1. c.fin = FALSE /\ sent \in Seq(Piece)
    BY ConnSeqs
  <2>2. a \in Seq(Reply)
    BY ReachableParts
  <2>3. d \in Seq(Reply) /\ rest \in Seq(Piece)
    BY AnswersType, LinesType DEF LineState
  <2> QED
    BY <2>1, <2>2, <2>3
<1>2. /\ Answers(sent, FALSE) = a \o d
      /\ Lines(sent).rest = rest
  BY <1>1 DEF Waiting, Reaches, Asked, Deserved
<1>3. x \in Reply
  <2>1. Append(rest, piece) \in Seq(Piece) /\ Append(rest, piece) # <<>>
    BY <1>1, AppendProperties
  <2> QED
    BY <2>1, AnswerType
<1>4. r.sent = more /\ r.fin = FALSE /\ Reachable(r) = a
  BY <1>1
<1> HIDE DEF sent, a
<1>5. /\ Answers(more, FALSE) = IF EndsLine(piece) THEN Append(a \o d, x) ELSE a \o d
      /\ Answers(u, FALSE) = IF EndsLine(piece) THEN Append(d, x) ELSE d
  <2>1. /\ Answers(more, FALSE) =
               IF EndsLine(piece) THEN Append(Answers(sent, FALSE), Answer(Append(Lines(sent).rest, piece)))
               ELSE Answers(sent, FALSE)
        /\ Answers(u, FALSE) =
               IF EndsLine(piece) THEN Append(Answers(q, FALSE), Answer(Append(Lines(q).rest, piece)))
               ELSE Answers(q, FALSE)
    BY <1>1, AnswersMore
  <2> QED
    BY <1>2, <2>1
<1>6. Lines(more).rest = Lines(u).rest
  <2>1. Lines(more) = After(Lines(sent), piece) /\ Lines(u) = After(Lines(q), piece)
    BY <1>1, LinesAppend
  <2> QED
    BY <1>2, <2>1 DEF After
<1> HIDE DEF d, x, more, u
<1>7. a \o Append(d, x) = Append(a \o d, x)
  BY <1>1, <1>3, AppendOfConcat
<1>8. Answers(more, FALSE) = a \o Answers(u, FALSE)
  BY <1>5, <1>7
<1> QED
  BY <1>4, <1>6, <1>8 DEF Asked, Deserved

\* Once it closes its side, the unfinished line is to be answered as well.
LEMMA WaitingEnd ==
    ASSUME NEW c, Fits(c), ~c.fin, NEW q \in Seq(Piece), Waiting(c, q),
           NEW r, r.sent = c.sent, r.fin = TRUE, r.rst = c.rst,
           r.phase = c.phase, Reachable(r) = Reachable(c)
    PROVE  Waiting(r, q)
<1> DEFINE sent == c.sent
           rest == Lines(q).rest
           x == Answer(rest)
           a == Reachable(c)
           d == Answers(q, FALSE)
<1> SUFFICES ASSUME Reaches(r) PROVE Asked(r) = Reachable(r) \o Answers(q, r.fin)
  BY DEF Waiting
<1>1. c.fin = FALSE /\ sent \in Seq(Piece) /\ a \in Seq(Reply) /\ d \in Seq(Reply)
      /\ rest \in Seq(Piece)
  <2>1. c.fin = FALSE /\ sent \in Seq(Piece)
    BY ConnSeqs
  <2>2. a \in Seq(Reply)
    BY ReachableParts
  <2>3. d \in Seq(Reply) /\ rest \in Seq(Piece)
    BY AnswersType, LinesType DEF LineState
  <2> QED
    BY <2>1, <2>2, <2>3
<1>2. /\ Answers(sent, FALSE) = a \o d
      /\ Lines(sent).rest = rest
  BY <1>1 DEF Waiting, Reaches, Asked, Deserved
<1>3. rest # <<>> => x \in Reply
  BY <1>1, AnswerType
<1>4. r.sent = sent /\ Reachable(r) = a
  OBVIOUS
<1> HIDE DEF sent, a
<1>5. /\ Answers(sent, TRUE) = IF rest # <<>> THEN Append(a \o d, x) ELSE a \o d
      /\ Answers(q, TRUE) = IF rest # <<>> THEN Append(d, x) ELSE d
  <2>1. /\ Answers(sent, TRUE) = IF Lines(sent).rest # <<>>
                                 THEN Append(Answers(sent, FALSE), Answer(Lines(sent).rest))
                                 ELSE Answers(sent, FALSE)
        /\ Answers(q, TRUE) = IF Lines(q).rest # <<>>
                              THEN Append(Answers(q, FALSE), Answer(Lines(q).rest))
                              ELSE Answers(q, FALSE)
    BY AnswersAtEnd
  <2> QED
    BY <1>2, <2>1
<1> HIDE DEF d, rest, x
<1>6. rest # <<>> => a \o Append(d, x) = Append(a \o d, x)
  BY <1>1, <1>3, AppendOfConcat
<1>7. Answers(sent, TRUE) = a \o Answers(q, TRUE)
  BY <1>5, <1>6
<1> QED
  BY <1>4, <1>7 DEF Asked, Deserved

\* A client that asks for one reply more, or for none.
LEMMA AskedMoved ==
    ASSUME NEW c, Good(c), c.phase \in {"open", "closing"},
           NEW r, Fits(r), r.phase = c.phase, r.rst = c.rst, r.got = c.got, r.sndq = c.sndq,
           r.out = c.out, r.task = c.task, r.line = c.line,
           Asked(r) = Asked(c) \/ \E x \in Reply : Asked(r) = Append(Asked(c), x),
           r.task \in {"read", "drain"} => Waiting(r, r.rcvq),
           r.task = "query" => Waiting(r, r.line \o r.rcvq)
    PROVE  Moved(c, r)
<1>1. Reachable(r) = Reachable(c) /\ Delivered(r) = Delivered(c) /\ Ended(r) = Ended(c)
  BY DEF Reachable, Delivered, Ended
<1>2. Asked(c) \in Seq(Reply) /\ Asked(r) \in Seq(Reply) /\ Reachable(c) \in Seq(Reply)
  BY ReachableParts DEF Good
<1>3. Prefix(Asked(c), Asked(r), Reply)
  BY <1>2, PrefixItself, PrefixOfAppend
<1>4. Prefix(Reachable(r), Asked(r), Reply)
  BY <1>1, <1>2, <1>3, PrefixTransitive DEF Good, Kept
<1>5. Good(r)
  BY <1>4 DEF Good, Kept
<1>6. CASE Asked(r) = Asked(c)
  BY <1>1, <1>5, <1>6 DEF Moved, Quietly
<1>7. CASE Asked(r) # Asked(c)
  <2>1. PICK x \in Reply : Asked(r) = Append(Asked(c), x)
    BY <1>7
  <2>2. Len(Asked(r)) = Len(Asked(c)) + 1
    BY <1>2, <2>1, AppendProperties
  <2>3. SubSeq(Asked(r), 1, Len(Asked(c))) = Asked(c)
    BY <1>2, <1>3, PrefixIsSubSeq
  <2>4. Asks(c, r)
    BY <1>1, <1>7, <2>2, <2>3 DEF Asks
  <2> QED
    BY <1>5, <2>4 DEF Moved
<1> QED
  BY <1>6, <1>7

LEMMA SentMoved ==
    ASSUME NEW c, Good(c), c.phase \in {"open", "closing"}, ~c.fin, NEW piece \in Piece
    PROVE  Moved(c, [c EXCEPT !.sent = Append(@, piece),
                              !.rcvq = IF c.task = "gone" THEN @ ELSE Append(@, piece)])
<1> DEFINE q == IF c.task = "gone" THEN c.rcvq ELSE Append(c.rcvq, piece)
           r == [c EXCEPT !.sent = Append(@, piece), !.rcvq = q]
<1>1. /\ Fits(c) /\ c \in Conn /\ c.sent \in Seq(Piece) /\ c.rcvq \in Seq(Piece)
      /\ c.line \in Seq(Piece) /\ c.fin = FALSE
  BY ConnSeqs DEF Good, Fits
<1>2. Append(c.sent, piece) \in Seq(Piece) /\ Append(c.rcvq, piece) \in Seq(Piece)
  BY <1>1, AppendProperties
<1>3. q \in Seq(Piece) /\ (c.task # "gone" => q = Append(c.rcvq, piece))
  BY <1>1, <1>2
<1> HIDE DEF q
<1>4. /\ r \in Conn /\ r.phase = c.phase /\ r.rst = c.rst /\ r.got = c.got /\ r.sndq = c.sndq
      /\ r.out = c.out /\ r.task = c.task /\ r.line = c.line /\ r.fin = c.fin
      /\ r.sent = Append(c.sent, piece) /\ r.rcvq = q
  BY <1>1, <1>2, <1>3 DEF Conn
<1> HIDE DEF r
<1>5. Fits(r) /\ Reachable(r) = Reachable(c)
  BY <1>1, <1>4 DEF Fits, Reachable
<1>6. Asked(r) = Asked(c) \/ \E x \in Reply : Asked(r) = Append(Asked(c), x)
  <2> DEFINE rest == Lines(c.sent).rest
             x == Answer(Append(rest, piece))
  <2>1. x \in Reply
    <3>1. rest \in Seq(Piece)
      BY <1>1, LinesType DEF LineState
    <3>2. Append(rest, piece) \in Seq(Piece) /\ Append(rest, piece) # <<>>
      BY <3>1, AppendProperties
    <3> QED
      BY <3>2, AnswerType
  <2>2. Answers(Append(c.sent, piece), FALSE) =
            IF EndsLine(piece) THEN Append(Answers(c.sent, FALSE), x) ELSE Answers(c.sent, FALSE)
    BY <1>1, AnswersMore
  <2> HIDE DEF x
  <2> QED
    BY <1>1, <1>4, <2>1, <2>2 DEF Asked, Deserved
<1>7. r.task \in {"read", "drain"} => Waiting(r, r.rcvq)
  <2> SUFFICES ASSUME r.task \in {"read", "drain"} PROVE Waiting(r, r.rcvq)
    OBVIOUS
  <2>1. r.rcvq = Append(c.rcvq, piece) /\ Waiting(c, c.rcvq)
    BY <1>3, <1>4 DEF Good, Kept
  <2>2. Waiting(r, Append(c.rcvq, piece))
    BY <1>1, <1>4, <1>5, <2>1, WaitingMore
  <2> QED
    BY <2>1, <2>2
<1>8. r.task = "query" => Waiting(r, r.line \o r.rcvq)
  <2> SUFFICES ASSUME r.task = "query" PROVE Waiting(r, r.line \o r.rcvq)
    OBVIOUS
  <2> DEFINE l == c.line
             b == c.rcvq
             u == l \o b
  <2>1. r.rcvq = Append(b, piece) /\ r.line = l /\ Waiting(c, u)
    BY <1>3, <1>4 DEF Good, Kept
  <2>2. l \in Seq(Piece) /\ b \in Seq(Piece)
    BY <1>1
  <2> HIDE DEF l, b
  <2>3. u \in Seq(Piece) /\ l \o Append(b, piece) = Append(u, piece)
    BY <2>2, ConcatProperties, AppendOfConcat
  <2> HIDE DEF u
  <2>4. Waiting(r, Append(u, piece))
    BY <1>1, <1>4, <1>5, <2>1, <2>3, WaitingMore
  <2> QED
    BY <2>1, <2>3, <2>4
<1>9. Moved(c, r)
  BY <1>4, <1>5, <1>6, <1>7, <1>8, AskedMoved
<1> QED
  BY <1>9 DEF r, q

LEMMA HangupMoved ==
    ASSUME NEW c, Good(c), c.phase \in {"open", "closing"}, ~c.fin
    PROVE  Moved(c, [c EXCEPT !.fin = TRUE])
<1> DEFINE r == [c EXCEPT !.fin = TRUE]
<1>1. /\ Fits(c) /\ c \in Conn /\ c.sent \in Seq(Piece) /\ c.rcvq \in Seq(Piece)
      /\ c.line \in Seq(Piece) /\ c.fin = FALSE
  BY ConnSeqs DEF Good, Fits
<1>2. /\ r \in Conn /\ r.phase = c.phase /\ r.rst = c.rst /\ r.got = c.got /\ r.sndq = c.sndq
      /\ r.out = c.out /\ r.task = c.task /\ r.line = c.line /\ r.fin = TRUE
      /\ r.sent = c.sent /\ r.rcvq = c.rcvq
  BY <1>1 DEF Conn
<1> HIDE DEF r
<1>3. Fits(r) /\ Reachable(r) = Reachable(c)
  BY <1>1, <1>2 DEF Fits, Reachable
<1>4. Asked(r) = Asked(c) \/ \E x \in Reply : Asked(r) = Append(Asked(c), x)
  <2> DEFINE rest == Lines(c.sent).rest
  <2>1. rest # <<>> => Answer(rest) \in Reply
    BY <1>1, LinesType, AnswerType DEF LineState
  <2>2. Answers(c.sent, TRUE) = IF rest # <<>> THEN Append(Answers(c.sent, FALSE), Answer(rest))
                                ELSE Answers(c.sent, FALSE)
    BY AnswersAtEnd
  <2> HIDE DEF rest
  <2> QED
    BY <1>1, <1>2, <2>1, <2>2 DEF Asked, Deserved
<1>5. r.task \in {"read", "drain"} => Waiting(r, r.rcvq)
  BY <1>1, <1>2, <1>3, WaitingEnd DEF Good, Kept
<1>6. r.task = "query" => Waiting(r, r.line \o r.rcvq)
  <2>1. c.line \o c.rcvq \in Seq(Piece)
    BY <1>1, ConcatProperties
  <2> QED
    BY <1>1, <1>2, <1>3, <2>1, WaitingEnd DEF Good, Kept
<1>7. Moved(c, r)
  BY <1>2, <1>3, <1>4, <1>5, <1>6, AskedMoved
<1> QED
  BY <1>7 DEF r


\* A client reads the next message, also after the end.
LEMMA ReadMoved ==
    ASSUME NEW c, Good(c), c.sndq # <<>>
    PROVE  Moved(c, [c EXCEPT !.sndq = Tail(@), !.got = Append(@, Head(c.sndq))])
<1> DEFINE g == c.got
           h == Head(c.sndq)
           t == Tail(c.sndq)
           r == [c EXCEPT !.sndq = t, !.got = Append(@, h)]
<1> SUFFICES Moved(c, r)
  OBVIOUS
<1>1. Fits(c) /\ c \in Conn /\ g \in Seq(Message) /\ c.sndq \in Seq(Message) /\ c.out \in Seq(Message)
  BY ConnSeqs DEF Good, Fits
<1>2. /\ h \in Message /\ t \in Seq(Message) /\ <<h>> \in Seq(Message)
      /\ Append(g, h) \in Seq(Message) /\ Len(t) =< SndBuf
  <2>1. h \in Message /\ t \in Seq(Message) /\ Len(t) = Len(c.sndq) - 1 /\ Len(c.sndq) \in Nat
    BY <1>1, HeadTailProperties, LenProperties
  <2>2. Append(g, h) \in Seq(Message)
    BY <1>1, <2>1, AppendProperties
  <2> QED
    BY <2>1, <2>2, Limits DEF Good, Fits
<1>3. c.sndq = <<h>> \o t
  BY <1>1, HeadAndTail
<1>4. ~c.rst /\ c.phase # "new"
  BY DEF Good, Kept, NewConn
<1> HIDE DEF g, h, t
<1>5. /\ r \in Conn /\ r.sndq = t /\ r.got = Append(g, h) /\ r.phase = c.phase /\ r.out = c.out
      /\ r.sent = c.sent /\ r.rcvq = c.rcvq /\ r.fin = c.fin /\ r.rst = c.rst /\ r.task = c.task
      /\ r.line = c.line
  BY <1>1, <1>2 DEF Conn, g
<1> HIDE DEF r
<1>6. r.got \o r.sndq = c.got \o c.sndq
  <2>1. Append(g, h) = g \o <<h>>
    BY <1>1, <1>2, AppendIsConcat
  <2>2. (g \o <<h>>) \o t = g \o (<<h>> \o t)
    BY <1>1, <1>2, ConcatAssociative
  <2> QED
    BY <1>3, <1>5, <2>1, <2>2 DEF g
<1>7. Reachable(r) = Reachable(c) /\ Asked(r) = Asked(c) /\ Ended(r) = Ended(c) /\ Fits(r)
  BY <1>2, <1>4, <1>5, <1>6 DEF Reachable, Asked, Deserved, Ended, Fits
<1>8. \A q : Waiting(c, q) => Waiting(r, q)
  BY <1>5, <1>7 DEF Waiting, Reaches
<1>9. Good(r)
  BY <1>4, <1>5, <1>7, <1>8 DEF Good, Kept
<1>10. CASE h \in {PingLine, ByeLine}
  <2>1. Delivered(r) = Delivered(c)
    BY <1>1, <1>2, <1>5, <1>10, RepliesInAppend DEF Delivered, g
  <2> QED
    BY <1>5, <1>7, <1>9, <2>1 DEF Moved, Quietly
<1>11. CASE h \notin {PingLine, ByeLine}
  <2>1. Delivered(r) = Append(Delivered(c), h) /\ h \in Reply
    BY <1>1, <1>2, <1>5, <1>11, RepliesInAppend, OnlyReplies DEF Delivered, g
  <2>2. /\ Delivered(c) \in Seq(Reply) /\ Delivered(r) \in Seq(Reply) /\ Reachable(r) \in Seq(Reply)
        /\ Prefix(Delivered(r), Reachable(r), Reply)
    BY <1>1, <1>7, ReachableParts
  <2>3. Len(Delivered(r)) = Len(Delivered(c)) + 1 /\ Len(Delivered(c)) \in Nat
    BY <2>1, <2>2, AppendProperties, LenProperties
  <2>4. /\ Len(Delivered(r)) =< Len(Reachable(r)) /\ Len(Reachable(r)) \in Nat
        /\ Delivered(r) = SubSeq(Reachable(r), 1, Len(Delivered(r)))
    BY <2>2, PrefixIsSubSeq
  <2>5. Len(Delivered(c)) < Len(Reachable(c))
    BY <1>7, <2>3, <2>4
  <2>6. Delivers(c, r)
    BY <1>7, <2>3, <2>4, <2>5 DEF Delivers
  <2> QED
    BY <1>5, <1>9, <2>6 DEF Moved
<1> QED
  BY <1>10, <1>11

\* A connection that breaks keeps what the client has read.
LEMMA ResetMoved ==
    ASSUME NEW c, Good(c), c.phase \in {"open", "closing"}, ~c.rst
    PROVE  Moved(c, [c EXCEPT !.rst = TRUE, !.sndq = <<>>])
<1> DEFINE r == [c EXCEPT !.rst = TRUE, !.sndq = <<>>]
<1>1. Fits(c) /\ c \in Conn /\ <<>> \in Seq(Message) /\ Len(<<>>) = 0
  BY EmptySeq DEF Good, Fits
<1>2. /\ r \in Conn /\ r.sndq = <<>> /\ r.rst = TRUE /\ r.got = c.got /\ r.phase = c.phase
      /\ r.sent = c.sent /\ r.rcvq = c.rcvq /\ r.fin = c.fin /\ r.task = c.task
      /\ r.line = c.line
  BY <1>1 DEF Conn
<1> HIDE DEF r
<1>3. /\ Asked(r) = Asked(c) /\ Delivered(r) = Delivered(c) /\ Reachable(r) = Delivered(c)
      /\ Ended(r) /\ ~Ended(c) /\ Fits(r)
  BY <1>1, <1>2, ReachableOf, Limits DEF Asked, Deserved, Delivered, Ended, Fits
<1>4. Prefix(Reachable(r), Asked(r), Reply)
  <2>1. /\ Prefix(Delivered(c), Reachable(c), Reply) /\ Prefix(Reachable(c), Asked(c), Reply)
        /\ Delivered(c) \in Seq(Reply) /\ Asked(c) \in Seq(Reply) /\ Reachable(c) \in Seq(Reply)
    BY ReachableParts DEF Good, Kept
  <2> QED
    BY <1>3, <2>1, PrefixTransitive
<1>5. \A q : Waiting(r, q)
  BY <1>2 DEF Waiting, Reaches
<1>6. Good(r)
  BY <1>2, <1>3, <1>4, <1>5 DEF Good, Kept
<1>7. Moved(c, r)
  BY <1>2, <1>3, <1>6, ServedMoved
<1> QED
  BY <1>7 DEF r

\* The process ends and takes an open connection with it: what the kernel has
\* can still be read.
LEMMA TakenMoved ==
    ASSUME NEW c, Good(c), c.phase \in {"open", "closing"}
    PROVE  Moved(c, Gone([c EXCEPT !.out = <<>>, !.paused = FALSE]))
<1> DEFINE d == [c EXCEPT !.out = <<>>, !.paused = FALSE]
           r == Gone(d)
<1> SUFFICES Moved(c, r)
  OBVIOUS
<1>1. Fits(c) /\ c \in Conn /\ <<>> \in Seq(Message)
  BY EmptySeq DEF Good, Fits
<1>2. /\ d \in Conn /\ d.out = <<>> /\ d.sndq = c.sndq /\ d.got = c.got /\ d.phase = c.phase
      /\ SameClient(c, d)
  BY <1>1 DEF Conn, SameClient
<1> HIDE DEF d
<1>3. Fits(d) /\ d.phase # "new"
  BY <1>1, <1>2 DEF Fits
<1>4. /\ Fits(r) /\ SameClient(d, r) /\ Stream(r) = Stream(d) /\ r.sndq = d.sndq
      /\ r.task = "gone" /\ r.phase = "lost"
  BY <1>2, <1>3, GoneFits
<1> HIDE DEF r
<1>5. Asked(r) = Asked(c) /\ Delivered(r) = Delivered(c) /\ r.rst = c.rst
  BY <1>2, <1>4 DEF Asked, Deserved, Delivered, SameClient
<1>6. /\ Reachable(r) \in Seq(Reply) /\ Reachable(c) \in Seq(Reply) /\ Asked(c) \in Seq(Reply)
      /\ Prefix(Reachable(c), Asked(c), Reply)
  BY <1>1, <1>4, ReachableParts DEF Good, Kept
<1>7. Prefix(Reachable(r), Reachable(c), Reply)
  <2>1. CASE c.rst
    <3>1. Reachable(r) = Reachable(c)
      BY <1>5, <2>1, ReachableOf
    <3> QED
      BY <1>6, <3>1, PrefixItself
  <2>2. CASE ~c.rst
    <3> DEFINE a == c.got \o c.sndq
               out == c.out
    <3>1. a \in Seq(Message) /\ out \in Seq(Message)
      BY <1>1, ConnSeqs, ConcatProperties
    <3>2. Stream(r) = a
      <4>1. Stream(d) = a \o <<>>
        BY <1>2 DEF Stream
      <4> HIDE DEF a
      <4> QED
        BY <1>4, <3>1, <4>1, ConcatEmptySeq
    <3>3. Reachable(r) = RepliesIn(a) /\ Reachable(c) = RepliesIn(a \o out)
      BY <1>5, <2>2, <3>2, ReachableOf DEF Reachable
    <3> HIDE DEF a, out
    <3>4. RepliesIn(a \o out) = RepliesIn(a) \o RepliesIn(out) /\ RepliesIn(out) \in Seq(Reply)
      BY <3>1, RepliesInConcat, RepliesInType
    <3> QED
      BY <3>3, <3>4 DEF Prefix
  <2> QED
    BY <2>1, <2>2
<1>8. Prefix(Reachable(r), Asked(r), Reply)
  BY <1>5, <1>6, <1>7, PrefixTransitive
<1>9. Good(r)
  BY <1>2, <1>4, <1>5, <1>8 DEF Good, Kept
<1>10. CASE c.rst
  <2>1. Reachable(r) = Reachable(c) /\ Ended(r) = Ended(c)
    BY <1>5, <1>10, ReachableOf DEF Ended
  <2> QED
    BY <1>4, <1>5, <1>9, <2>1 DEF Moved, Quietly
<1>11. CASE ~c.rst
  <2>1. Ended(r) /\ ~Ended(c)
    BY <1>4, <1>11 DEF Ended
  <2> QED
    BY <1>4, <1>5, <1>9, <2>1, ServedMoved
<1> QED
  BY <1>10, <1>11

\* A connection that is over, or was never there, stays as it is.
LEMMA LeftMoved ==
    ASSUME NEW c, Good(c), c.phase \notin {"open", "closing"}
    PROVE  Moved(c, [c EXCEPT !.task = IF @ = "none" THEN @ ELSE "gone"])
<1> DEFINE r == [c EXCEPT !.task = IF @ = "none" THEN @ ELSE "gone"]
<1>1. Fits(c) /\ c \in Conn
  BY DEF Good, Fits
<1>2. CASE c.phase = "new"
  <2>1. c.task = "none"
    BY <1>2 DEF Good, Kept, NewConn
  <2>2. r = c
    BY <1>1, <2>1 DEF Conn
  <2>3. Moved(c, c)
    BY StayedMoved
  <2> QED
    BY <2>2, <2>3
<1>3. CASE c.phase # "new"
  <2>1. /\ r \in Conn /\ SameClient(c, r) /\ Onward(c, r) /\ r.out = c.out /\ r.sndq = c.sndq
        /\ r.task \in {"none", "gone"}
    BY <1>1 DEF Conn, SameClient, Onward
  <2> HIDE DEF r
  <2>2. Fits(r) /\ Stream(r) = Stream(c)
    BY <1>1, <2>1 DEF Fits, Stream, SameClient
  <2>3. Advanced(c, r)
    BY <1>3, <2>1, <2>2, SameAdvanced
  <2>4. Moved(c, r)
    BY <2>3, AdvancedMoved
  <2> QED
    BY <2>4 DEF r
<1> QED
  BY <1>2, <1>3


-----------------------------------------------------------------------------
(* The steps of the server, for all connections *)

\* Whatever a client sends and the server answers, writes, closes or loses, what
\* was answered of a connection and what its line in hand and its unread pieces
\* deserve are what its client asked for; the shutdown lists only clients that
\* came.
IInv ==
    /\ now \in Nat
    /\ conn = [p \in Peers |-> conn[p]]
    /\ \A p \in Peers : Good(conn[p])
    /\ toClose \subseteq {p \in Peers : conn[p].phase # "new"}

AllMoved == \A p \in Peers : Moved(conn[p], conn'[p])

LEMMA AllMovedKeeps ==
    ASSUME IInv, AllMoved, now' \in Nat, conn' = [p \in Peers |-> conn'[p]],
           \A p \in toClose' : p \in toClose \/ (p \in Peers /\ conn[p].phase # "new")
    PROVE  IInv'
<1>1. \A p \in Peers : Good(conn'[p]) /\ (conn[p].phase # "new" => conn'[p].phase # "new")
  BY DEF AllMoved, Moved
<1>2. \A p \in toClose : p \in Peers /\ conn[p].phase # "new"
  BY DEF IInv
<1>3. toClose' \subseteq {p \in Peers : conn'[p].phase # "new"}
  BY <1>1, <1>2
<1>4. (\A p \in Peers : Good(conn[p]))'
  BY <1>1
<1>5. (toClose \subseteq {p \in Peers : conn[p].phase # "new"})'
  BY <1>3
<1> QED
  BY <1>4, <1>5 DEF IInv

\* Steps that touch no connection.
LEMMA NobodyMoved ==
    ASSUME IInv, UNCHANGED conn, now' \in Nat,
           \A p \in toClose' : p \in toClose \/ (p \in Peers /\ conn[p].phase # "new")
    PROVE  IInv' /\ AllMoved
<1>1. \A p \in Peers : Moved(conn[p], conn'[p])
  BY StayedMoved DEF IInv
<1>2. conn' = [p \in Peers |-> conn'[p]]
  BY DEF IInv
<1> QED
  BY <1>1, <1>2, AllMovedKeeps DEF AllMoved

\* Steps that touch one connection.
LEMMA OneMoved ==
    ASSUME IInv, NEW p \in Peers, NEW r, Moved(conn[p], r), conn' = [conn EXCEPT ![p] = r],
           UNCHANGED now, toClose' \subseteq toClose
    PROVE  IInv' /\ AllMoved
<1>1. conn' = [u \in Peers |-> IF u = p THEN r ELSE conn[u]]
  BY DEF IInv
<1>2. \A u \in Peers : Moved(conn[u], conn'[u])
  BY <1>1, StayedMoved DEF IInv
<1>3. conn' = [u \in Peers |-> conn'[u]]
  BY <1>1
<1>4. now' \in Nat
  BY DEF IInv
<1> QED
  BY <1>2, <1>3, <1>4, AllMovedKeeps DEF AllMoved

\* Steps of the loop.
LEMMA LoopMoves ==
    ASSUME IInv, NEW p \in Peers,
           \/ Readline(p) \/ HelloExpires(p) \/ QueryEnds(p)
           \/ SendBuffered(p) \/ ConnectionLost(p) \/ Ping(p) \/ SayBye(p)
    PROVE  IInv' /\ AllMoved
<1>1. Good(conn[p]) /\ now \in Nat
  BY DEF IInv
<1>2. SayBye(p) => conn[p].phase # "new"
  BY DEF IInv, SayBye
<1>3. \E r : Advanced(conn[p], r) /\ conn' = [conn EXCEPT ![p] = r]
  <2>1. CASE Readline(p) \/ HelloExpires(p) \/ QueryEnds(p) \/ Ping(p)
    <3>1. \E r : Advanced(conn[p], r) /\ Set(p, r)
      BY <1>1, <2>1, ReadlineAdvances, HelloExpiresAdvances, QueryEndsAdvances, PingAdvances
    <3> QED
      BY <3>1 DEF Set
  <2>2. CASE SendBuffered(p) \/ ConnectionLost(p) \/ SayBye(p)
    BY <1>1, <1>2, <2>2, SendBufferedAdvances, ConnectionLostAdvances, SayByeAdvances
  <2> QED
    BY <2>1, <2>2
<1>4. PICK r : Advanced(conn[p], r) /\ conn' = [conn EXCEPT ![p] = r]
  BY <1>3
<1>5. Moved(conn[p], r)
  BY <1>1, <1>4, AdvancedMoved
<1>6. UNCHANGED now /\ toClose' \subseteq toClose
  BY DEF Readline, HelloExpires, QueryEnds, Ping, Set, SendBuffered, ConnectionLost, SayBye,
         ShutdownOn
<1> QED
  BY <1>4, <1>5, <1>6, OneMoved

\* Steps of the clients.
LEMMA ClientMoves ==
    ASSUME IInv, NEW p \in Peers,
           \/ Connect(p) \/ Receive(p) \/ Hangup(p) \/ Reset(p)
           \/ \E kind \in Kinds : SendPiece(p, kind)
    PROVE  IInv' /\ AllMoved
<1> DEFINE c == conn[p]
<1>1. Good(c) /\ now \in Nat
  BY DEF IInv
<1>2. UNCHANGED <<now, toClose>>
  BY DEF Connect, Receive, Hangup, Reset, SendPiece, Set, Client
<1>3. CASE Connect(p)
  <2> DEFINE r == Slept([ReadNext(c) EXCEPT !.phase = "open"])
  <2>1. c.phase = "new" /\ conn' = [conn EXCEPT ![p] = r]
    BY <1>3 DEF Connect, Set
  <2>2. Moved(c, r)
    BY <1>1, <2>1, OpenedMoved
  <2> HIDE DEF r
  <2> QED
    BY <1>2, <2>1, <2>2, OneMoved
<1>4. CASE Receive(p)
  <2> DEFINE r == [c EXCEPT !.sndq = Tail(@), !.got = Append(@, Head(c.sndq))]
  <2>1. c.sndq # <<>> /\ conn' = [conn EXCEPT ![p].sndq = Tail(@), ![p].got = Append(@, Head(c.sndq))]
    BY <1>4 DEF Receive
  <2>2. c \in Conn /\ conn = [u \in Peers |-> conn[u]]
    BY <1>1 DEF IInv, Good, Fits
  <2>3. conn' = [conn EXCEPT ![p] = r]
    BY <2>1, <2>2 DEF Conn
  <2>4. Moved(c, r)
    BY <1>1, <2>1, ReadMoved
  <2> HIDE DEF r
  <2> QED
    BY <1>2, <2>3, <2>4, OneMoved
<1>5. CASE Hangup(p)
  <2> DEFINE r == [c EXCEPT !.fin = TRUE]
  <2>1. /\ c.phase \in {"open", "closing"} /\ ~c.fin
        /\ conn' = [conn EXCEPT ![p] = r]
    BY <1>5 DEF Hangup, Client
  <2>2. Moved(c, r)
    BY <1>1, <2>1, HangupMoved
  <2> HIDE DEF r
  <2> QED
    BY <1>2, <2>1, <2>2, OneMoved
<1>6. CASE Reset(p)
  <2> DEFINE r == [c EXCEPT !.rst = TRUE, !.sndq = <<>>]
  <2>1. /\ c.phase \in {"open", "closing"} /\ ~c.rst
        /\ conn' = [conn EXCEPT ![p] = r]
    BY <1>6 DEF Reset, Client
  <2>2. Moved(c, r)
    BY <1>1, <2>1, ResetMoved
  <2> HIDE DEF r
  <2> QED
    BY <1>2, <2>1, <2>2, OneMoved
<1>7. ASSUME NEW kind \in Kinds, SendPiece(p, kind) PROVE IInv' /\ AllMoved
  <2> DEFINE piece == [kind |-> kind, n |-> Len(c.sent) + 1]
             r == [c EXCEPT !.sent = Append(@, piece),
                            !.rcvq = IF c.task = "gone" THEN @ ELSE Append(@, piece)]
  <2>1. /\ c.phase \in {"open", "closing"} /\ ~c.fin
        /\ conn' = [conn EXCEPT ![p] = r]
    BY <1>7 DEF SendPiece, Client
  <2>2. piece \in Piece
    <3>1. Len(c.sent) \in Nat
      BY <1>1, ConnSeqs, LenProperties DEF Good
    <3> QED
      BY <3>1 DEF Piece
  <2> HIDE DEF piece
  <2>3. Moved(c, r)
    BY <1>1, <2>1, <2>2, SentMoved
  <2> HIDE DEF r
  <2> QED
    BY <1>2, <2>1, <2>3, OneMoved
<1> QED
  BY <1>3, <1>4, <1>5, <1>6, <1>7

\* The end of the process.
LEMMA ProcessGoneMoves ==
    ASSUME IInv, ProcessGone
    PROVE  IInv' /\ AllMoved
<1> DEFINE R(c) == IF c.phase \in {"open", "closing"}
                   THEN Gone([c EXCEPT !.out = <<>>, !.paused = FALSE])
                   ELSE [c EXCEPT !.task = IF @ = "none" THEN @ ELSE "gone"]
<1>1. conn' = [p \in Peers |-> R(conn[p])] /\ now' = now /\ toClose' = {}
  BY DEF ProcessGone
<1>2. \A p \in Peers : Moved(conn[p], R(conn[p]))
  BY TakenMoved, LeftMoved DEF IInv
<1> HIDE DEF R
<1>3. conn' = [p \in Peers |-> conn'[p]] /\ \A p \in Peers : conn'[p] = R(conn[p])
  BY <1>1
<1>4. AllMoved
  BY <1>2, <1>3 DEF AllMoved
<1>5. now' \in Nat
  BY <1>1 DEF IInv
<1> QED
  BY <1>1, <1>3, <1>4, <1>5, AllMovedKeeps

LEMMA InitHolds ==
    ASSUME Init
    PROVE  /\ IInv
           /\ \A p \in Peers : /\ Asked(conn[p]) = <<>> /\ Reachable(conn[p]) = <<>>
                               /\ Delivered(conn[p]) = <<>> /\ ~Ended(conn[p])
<1>1. conn = [p \in Peers |-> NewConn] /\ now = 0 /\ toClose = {}
  BY DEF Init
<1>2. \A p \in Peers : conn[p] = NewConn
  BY <1>1
<1>3. conn = [p \in Peers |-> conn[p]]
  BY <1>1
<1>4. IInv
  BY <1>1, <1>2, <1>3, NewGood DEF IInv
<1> QED
  BY <1>2, <1>4, NewHasNothing

\* Every step is, for every client, a step of its service.
LEMMA NextMoves == IInv /\ [Next]_vars => IInv' /\ AllMoved
<1> SUFFICES ASSUME IInv, [Next]_vars PROVE IInv' /\ AllMoved
  OBVIOUS
<1>1. CASE BeginShutdown \/ Start \/ Tick \/ Terminate \/ UNCHANGED vars
  <2>1. /\ UNCHANGED conn
        /\ \A p \in toClose' : p \in toClose \/ (p \in Peers /\ conn[p].task # "none")
    BY <1>1 DEF BeginShutdown, Start, Tick, Terminate, vars
  <2>2. \A p \in Peers : conn[p].task # "none" => conn[p].phase # "new"
    BY TaskOpen DEF IInv
  <2>3. now' \in Nat
    <3>1. now \in Nat
      BY DEF IInv
    <3> QED
      BY <1>1, <3>1 DEF BeginShutdown, Start, Tick, Terminate, vars
  <2> QED
    BY <2>1, <2>2, <2>3, NobodyMoved
<1>2. CASE Exit \/ Kill
  BY <1>2, ProcessGoneMoves DEF Exit, Kill
<1>3. ASSUME NEW p \in Peers,
             \/ Readline(p) \/ HelloExpires(p) \/ QueryEnds(p)
             \/ SendBuffered(p) \/ ConnectionLost(p) \/ Ping(p) \/ SayBye(p)
      PROVE  IInv' /\ AllMoved
  BY <1>3, LoopMoves
<1>4. ASSUME NEW p \in Peers,
             \/ Connect(p) \/ Receive(p) \/ Hangup(p) \/ Reset(p)
             \/ \E kind \in Kinds : SendPiece(p, kind)
      PROVE  IInv' /\ AllMoved
  BY <1>4, ClientMoves
<1> QED
  BY <1>1, <1>2, <1>3, <1>4 DEF Next, Loop

\* Whatever interleaving of its three tasks, its buffers, resets, hangups and
\* restarts: on_client loses, doubles or reorders no line that it read
\* (readline, handle, write, the finally of on_client).
THEOREM PyInvariant == Spec => []IInv
<1>1. Init => IInv
  BY InitHolds
<1>2. IInv /\ [Next]_vars => IInv'
  BY NextMoves
<1> QED
  BY <1>1, <1>2, PTL DEF Spec

\* push.py keeps LineService's promise to each of its clients.
THEOREM PyImplements == Spec => ImplementsService
<1>1. Init => Service!ServiceInit
  <2> SUFFICES ASSUME Init PROVE Service!ServiceInit
    OBVIOUS
  <2>1. \A p \in Peers : /\ Asked(conn[p]) = <<>> /\ Reachable(conn[p]) = <<>>
                         /\ Delivered(conn[p]) = <<>> /\ ~Ended(conn[p])
    BY InitHolds
  <2>2. \A p \in Peers : (conn[p].rst \/ conn[p].phase = "lost") = FALSE
    BY <2>1 DEF Ended
  <2> QED
    BY <2>1, <2>2 DEF Service!ServiceInit, Asked, Delivered
<1>2. IInv /\ [Next]_vars => [Service!ServiceNext]_Service!serviceVars
  <2> SUFFICES ASSUME IInv, [Next]_vars PROVE Service!ServiceNext
    OBVIOUS
  <2>1. AllMoved
    BY NextMoves
  <2> SUFFICES ASSUME NEW p \in Peers
               PROVE  Service!Quiet(p) \/ Service!Deliver(p) \/ Service!Serve(p) \/ Service!Ask(p)
    BY DEF Service!ServiceNext
  <2> DEFINE c == conn[p]
             r == conn'[p]
  <2>2. Quietly(c, r) \/ Serves(c, r) \/ Delivers(c, r) \/ Asks(c, r)
    BY <2>1 DEF AllMoved, Moved
  <2>3. CASE Quietly(c, r)
    <3>1. Service!Quiet(p)
      BY <2>3 DEF Quietly, Service!Quiet, Asked, Delivered, Ended
    <3> QED
      BY <3>1
  <2>4. CASE Serves(c, r)
    <3>1. Service!Serve(p)
      BY <2>4 DEF Serves, Service!Serve, Asked, Delivered, Ended
    <3> QED
      BY <3>1
  <2>5. CASE Delivers(c, r)
    <3>1. Service!Deliver(p)
      BY <2>5 DEF Delivers, Service!Deliver, Asked, Delivered, Ended
    <3> QED
      BY <3>1
  <2>6. CASE Asks(c, r)
    <3>1. Service!Ask(p)
      BY <2>6 DEF Asks, Service!Ask, Asked, Delivered, Ended
    <3> QED
      BY <3>1
  <2> QED
    BY <2>2, <2>3, <2>4, <2>5, <2>6
<1> QED
  BY <1>1, <1>2, PyInvariant, PTL DEF Spec, ImplementsService, Service!ServiceSpec
=============================================================================
