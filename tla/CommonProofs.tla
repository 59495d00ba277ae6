---------------------------- MODULE CommonProofs ----------------------------
(***************************************************************************)
(* Facts about natural numbers, orders and sequences that the proofs of    *)
(* several components need.  The induction theorems of the library take a  *)
(* predicate as a parameter; here a set stands for it.                     *)
(***************************************************************************)
EXTENDS Integers, FiniteSets, Messages, FiniteSetTheorems, WellFoundedInduction,
        SequenceTheorems, TLAPS

-----------------------------------------------------------------------------
(* Induction and recursion *)

\* A set of natural numbers has a least element.
LEMMA Least ==
    ASSUME NEW T, T \subseteq Nat, T # {}
    PROVE  \E x \in T : \A y \in T : x =< y
<1> DEFINE R == OpToRel(<, Nat)
<1>1. IsWellFoundedOn(R, Nat)
  BY NatLessThanWellFounded
<1>2. \A a, b \in Nat : a < b => <<a, b>> \in R
  BY DEF OpToRel
<1> HIDE DEF R
<1>3. PICK x \in T : \A y \in T : ~ (<<y, x>> \in R)
  BY <1>1, WFMin
<1>4. \A y \in T : y \in Nat /\ x \in Nat /\ ~(y < x)
  BY <1>2, <1>3
<1>5. \A y \in T : x =< y
  BY <1>4
<1> QED
  BY <1>5

\* Induction: a set that holds 0 and all successors holds every number.
LEMMA AllNumbers ==
    ASSUME NEW S, 0 \in S, \A n \in Nat : n \in S => n + 1 \in S
    PROVE  \A n \in Nat : n \in S
<1> DEFINE T == {n \in Nat : n \notin S}
<1>1. SUFFICES ASSUME T # {} PROVE FALSE
  OBVIOUS
<1>2. PICK x \in T : \A y \in T : x =< y
  BY <1>1, Least
<1>3. x \in Nat /\ x # 0 /\ x - 1 \in Nat
  BY <1>2
<1>4. x - 1 \in S
  BY <1>2, <1>3
<1>5. (x - 1) + 1 = x
  BY <1>3
<1> QED
  BY <1>2, <1>3, <1>4, <1>5

\* The values of f each follow from the one before.
Recurrence(f, N, first, step) == f[0] = first /\ \A n \in 1 .. N : f[n] = step[n][f[n - 1]]

\* There is such a function.
LEMMA Recursion ==
    ASSUME NEW N \in Nat, NEW V, NEW first \in V, NEW step \in [1 .. N -> [V -> V]]
    PROVE  \E f \in [0 .. N -> V] : Recurrence(f, N, first, step)
<1> DEFINE Body(f, n) == IF n = 0 THEN first ELSE step[n][f[n - 1]]
           Upto(k) == {f \in [0 .. k -> V] : \A n \in 0 .. k : f[n] = Body(f, n)}
           S == {k \in Nat : k =< N => Upto(k) # {}}
<1>1. 0 \in S
  <2>1. [n \in 0 .. 0 |-> first] \in Upto(0)
    OBVIOUS
  <2> QED
    BY <2>1
<1>2. ASSUME NEW k \in Nat, k \in S PROVE k + 1 \in S
  <2> HIDE DEF Upto
  <2> SUFFICES ASSUME k + 1 =< N PROVE Upto(k + 1) # {}
    OBVIOUS
  <2>1. PICK f \in Upto(k) : TRUE
    BY <1>2
  <2> USE DEF Upto
  <2> DEFINE g == [n \in 0 .. k + 1 |-> IF n = k + 1 THEN step[k + 1][f[k]] ELSE f[n]]
  <2>2. f \in [0 .. k -> V] /\ \A n \in 0 .. k : f[n] = Body(f, n)
    OBVIOUS
  <2>3. step[k + 1][f[k]] \in V
    BY <2>2
  <2>4. g \in [0 .. k + 1 -> V]
    BY <2>2, <2>3
  <2>5. ASSUME NEW n \in 0 .. k + 1 PROVE g[n] = Body(g, n)
    <3>1. CASE n = 0
      BY <2>2, <3>1
    <3>2. CASE n \in 1 .. k
      <4>1. g[n] = f[n] /\ g[n - 1] = f[n - 1]
        BY <3>2
      <4> QED
        BY <2>2, <3>2, <4>1
    <3>3. CASE n = k + 1
      <4>1. g[n - 1] = f[k] /\ g[n] = step[n][f[k]]
        BY <3>3
      <4> QED
        BY <3>3, <4>1
    <3> QED
      BY <3>1, <3>2, <3>3
  <2> QED
    BY <2>4, <2>5
<1>3. N \in S
  <2> HIDE DEF Upto
  <2> QED
    BY <1>1, <1>2, AllNumbers
<1>4. PICK f \in Upto(N) : TRUE
  BY <1>3
<1> QED
  BY <1>4 DEF Recurrence

\* A bounded set of natural numbers has a greatest element.
LEMMA Greatest ==
    ASSUME NEW m \in Nat, NEW T, T \subseteq 0 .. m, T # {}
    PROVE  \E x \in T : \A y \in T : y =< x
<1> DEFINE U == {n \in Nat : \A y \in T : y =< n}
<1>1. m \in U
  OBVIOUS
<1>2. PICK x \in U : \A n \in U : x =< n
  BY <1>1, Least
<1>3. CASE x \in T
  BY <1>2, <1>3
<1>4. CASE x \notin T
  <2>1. \A y \in T : y \in Nat /\ y < x
    BY <1>2, <1>4
  <2>2. x - 1 \in Nat
    <3>1. x \in Nat
      OBVIOUS
    <3>2. PICK y \in T : TRUE
      OBVIOUS
    <3>3. y \in Nat /\ y < x
      BY <2>1
    <3> QED
      BY <3>1, <3>3
  <2>3. \A y \in T : y =< x - 1
    BY <2>1
  <2> QED
    BY <1>2, <2>2, <2>3
<1> QED
  BY <1>3, <1>4

-----------------------------------------------------------------------------
(* Ranks *)

StrictOrder(V, R) ==
    /\ \A i \in V : <<i, i>> \notin R
    /\ \A i, j \in V : i # j => <<i, j>> \in R \/ <<j, i>> \in R
    /\ \A i, j, h \in V : <<i, j>> \in R /\ <<j, h>> \in R => <<i, h>> \in R

OfRank(V, R, k) == {j \in V : Cardinality({i \in V : <<i, j>> \in R}) = k}

\* In a strict total order of a finite set, every rank is taken.
LEMMA EveryRank ==
    ASSUME NEW V, IsFiniteSet(V), NEW R, StrictOrder(V, R),
           NEW k \in 0 .. Cardinality(V) - 1
    PROVE  OfRank(V, R, k) # {}
<1> DEFINE n == Cardinality(V)
           below(j) == {i \in V : <<i, j>> \in R}
           rank == [j \in V |-> Cardinality(below(j))]
<1>1. n \in Nat
  BY FS_CardinalityType
<1>2. ASSUME NEW j \in V
      PROVE  /\ IsFiniteSet(below(j)) /\ Cardinality(below(j)) \in 0 .. n - 1
             /\ IsFiniteSet(below(j) \cup {j})
             /\ Cardinality(below(j) \cup {j}) = Cardinality(below(j)) + 1
  <2>1. j \notin below(j) /\ below(j) \cup {j} \subseteq V /\ below(j) \subseteq V
    BY DEF StrictOrder
  <2> HIDE DEF below
  <2>2. IsFiniteSet(below(j)) /\ Cardinality(below(j)) \in Nat
    BY <2>1, FS_Subset, FS_CardinalityType
  <2>3. /\ IsFiniteSet(below(j) \cup {j})
        /\ Cardinality(below(j) \cup {j}) = Cardinality(below(j)) + 1
    BY <2>1, <2>2, FS_AddElement
  <2>4. Cardinality(below(j) \cup {j}) =< n
    BY <2>1, FS_Subset
  <2> QED
    BY <1>1, <2>2, <2>3, <2>4
<1>3. ASSUME NEW i \in V, NEW j \in V, <<i, j>> \in R
      PROVE  Cardinality(below(i)) < Cardinality(below(j))
  <2>1. below(i) \cup {i} \subseteq below(j)
    BY <1>3 DEF StrictOrder
  <2> HIDE DEF below
  <2>2. /\ Cardinality(below(i) \cup {i}) = Cardinality(below(i)) + 1
        /\ Cardinality(below(i)) \in 0 .. n - 1
    BY <1>2
  <2>4. IsFiniteSet(below(j)) /\ Cardinality(below(j)) \in 0 .. n - 1
    BY <1>2
  <2>3. Cardinality(below(i) \cup {i}) =< Cardinality(below(j))
    BY <2>1, <2>4, FS_Subset
  <2> QED
    BY <1>1, <2>2, <2>3, <2>4
<1>4. rank \in Injection(V, 0 .. n - 1)
  <2>1. rank \in [V -> 0 .. n - 1]
    BY <1>2
  <2>2. ASSUME NEW i \in V, NEW j \in V, rank[i] = rank[j] PROVE i = j
    <3>1. Cardinality(below(i)) = Cardinality(below(j))
      BY <2>2
    <3> HIDE DEF below
    <3>3. Cardinality(below(i)) \in 0 .. n - 1
      BY <1>2
    <3>2. <<i, j>> \notin R /\ <<j, i>> \notin R
      BY <1>1, <1>3, <3>1, <3>3
    <3> QED
      BY <3>2 DEF StrictOrder
  <2> QED
    BY <2>1, <2>2 DEF Injection, IsInjective
<1>5. IsFiniteSet(0 .. n - 1) /\ Cardinality(0 .. n - 1) = n
  <2>1. 0 \in Int /\ n - 1 \in Int
    BY <1>1
  <2> HIDE DEF n
  <2>2. /\ IsFiniteSet(0 .. n - 1)
        /\ Cardinality(0 .. n - 1) = IF 0 > n - 1 THEN 0 ELSE (n - 1) - 0 + 1
    BY <2>1, FS_Interval
  <2> QED
    BY <1>1, <2>2
<1>6. rank \in Surjection(V, 0 .. n - 1)
  BY <1>4, <1>5, FS_Injection
<1>7. \E j \in V : rank[j] = k
  BY <1>6 DEF Surjection
<1> QED
  BY <1>7 DEF OfRank

\* A finite set of natural numbers has an element of every rank.
LEMMA Ranked ==
    ASSUME NEW A, A \subseteq Nat, IsFiniteSet(A), NEW k \in Nat, k < Cardinality(A)
    PROVE  \E f \in A : Cardinality({g \in A : g < f}) = k
<1> DEFINE R == {d \in A \X A : d[1] < d[2]}
<1>1. \A g, f \in A : <<g, f>> \in R <=> g < f
  OBVIOUS
<1>2. \A f \in A : f \in Nat
  OBVIOUS
<1> HIDE DEF R
<1>3. StrictOrder(A, R)
  BY <1>1, <1>2 DEF StrictOrder
<1>4. k \in 0 .. Cardinality(A) - 1
  BY FS_CardinalityType
<1>5. OfRank(A, R, k) # {}
  BY <1>3, <1>4, EveryRank
<1>6. PICK f \in A : Cardinality({g \in A : <<g, f>> \in R}) = k
  BY <1>5 DEF OfRank
<1>7. {g \in A : g < f} = {g \in A : <<g, f>> \in R}
  BY <1>1
<1> QED
  BY <1>6, <1>7

-----------------------------------------------------------------------------
(* Sequences *)

\* Appending to a concatenation appends to its second part.
LEMMA AppendOfConcat ==
    ASSUME NEW E, NEW a \in Seq(E), NEW b \in Seq(E), NEW e \in E
    PROVE  a \o Append(b, e) = Append(a \o b, e)
<1>1. <<e>> \in Seq(E)
  OBVIOUS
<1>2. a \o b \in Seq(E)
  BY ConcatProperties
<1>3. Append(b, e) = b \o <<e>> /\ Append(a \o b, e) = (a \o b) \o <<e>>
  BY <1>2, AppendIsConcat
<1> QED
  BY <1>1, <1>3, ConcatAssociative

LEMMA HeadAndTail ==
    ASSUME NEW E, NEW a \in Seq(E), a # <<>>
    PROVE  a = <<Head(a)>> \o Tail(a)
<1>1. Len(a) \in Nat \ {0}
  BY EmptySeq
<1>2. 1 \in 1 .. Len(a) /\ Len(a) \in 1 .. Len(a)
  BY <1>1
<1>3. SubSeq(a, 1, Len(a)) = <<a[1]>> \o SubSeq(a, 1 + 1, Len(a))
  BY <1>1, <1>2, SubSeqRecursiveFirst
<1>4. SubSeq(a, 1, Len(a)) = a /\ Tail(a) = SubSeq(a, 2, Len(a))
  BY <1>1, SubSeqFull, TailIsSubSeq
<1>5. Head(a) = a[1]
  BY <1>1
<1> QED
  BY <1>3, <1>4, <1>5

\* b begins with a.
Prefix(a, b, E) == \E rest \in Seq(E) : b = a \o rest

LEMMA PrefixItself ==
    ASSUME NEW E, NEW a \in Seq(E)
    PROVE  Prefix(a, a, E)
<1>1. <<>> \in Seq(E) /\ a \o <<>> = a
  BY EmptySeq, ConcatEmptySeq
<1> QED
  BY <1>1 DEF Prefix

LEMMA PrefixOfAppend ==
    ASSUME NEW E, NEW a \in Seq(E), NEW e \in E
    PROVE  Prefix(a, Append(a, e), E)
<1>1. <<e>> \in Seq(E) /\ Append(a, e) = a \o <<e>>
  BY AppendIsConcat
<1> QED
  BY <1>1 DEF Prefix

\* A prefix of a prefix is a prefix.
LEMMA PrefixTransitive ==
    ASSUME NEW E, NEW a \in Seq(E), NEW b \in Seq(E), NEW c \in Seq(E),
           Prefix(a, b, E), Prefix(b, c, E)
    PROVE  Prefix(a, c, E)
<1>1. PICK x \in Seq(E) : b = a \o x
  BY DEF Prefix
<1>2. PICK y \in Seq(E) : c = b \o y
  BY DEF Prefix
<1>3. (a \o x) \o y = a \o (x \o y)
  BY <1>1, <1>2, ConcatAssociative
<1>4. x \o y \in Seq(E)
  BY <1>1, <1>2, ConcatProperties
<1> DEFINE z == x \o y
<1>5. c = a \o z
  BY <1>1, <1>2, <1>3
<1>6. z \in Seq(E)
  BY <1>4
<1> HIDE DEF z
<1> QED
  BY <1>5, <1>6 DEF Prefix

\* A prefix is no longer than the whole, and the beginning of it.
LEMMA PrefixIsSubSeq ==
    ASSUME NEW E, NEW a \in Seq(E), NEW b \in Seq(E), Prefix(a, b, E)
    PROVE  Len(a) \in Nat /\ Len(b) \in Nat /\ Len(a) =< Len(b) /\ a = SubSeq(b, 1, Len(a))
<1>1. PICK x \in Seq(E) : b = a \o x
  BY DEF Prefix
<1>2. /\ Len(b) = Len(a) + Len(x) /\ Len(a) \in Nat /\ Len(x) \in Nat /\ Len(b) \in Nat
  BY <1>1, ConcatProperties, LenProperties
<1>3. Len(a) =< Len(b)
  BY <1>2
<1>4. CASE a = <<>>
  <2>1. SubSeq(b, 1, 0) = <<>>
    BY SubSeqEmpty
  <2> QED
    BY <1>2, <1>3, <1>4, <2>1, EmptySeq
<1>5. CASE a # <<>>
  <2>1. 1 \in 1 .. Len(a) /\ Len(a) \in 1 .. Len(a)
    BY <1>2, <1>5, EmptySeq
  <2>2. SubSeq(a \o x, 1, Len(a)) = SubSeq(a, 1, Len(a))
    BY <2>1, SubSeqOfConcat1
  <2>3. SubSeq(a, 1, Len(a)) = a
    BY SubSeqFull
  <2> QED
    BY <1>1, <1>2, <1>3, <2>2, <2>3
<1> QED
  BY <1>4, <1>5

-----------------------------------------------------------------------------
(* Messages without some of them *)

\* The function whose last value is Without.
UpTo(ms, skip) ==
    CHOOSE f : f = [n \in 0 .. Len(ms) |->
                        IF n = 0 THEN <<>>
                        ELSE IF ms[n] \in skip THEN f[n - 1]
                        ELSE Append(f[n - 1], ms[n])]

\* Its type, and its values one after another.
IsUpTo(f, ms, E, skip) ==
    /\ f \in [0 .. Len(ms) -> Seq(E \ skip)]
    /\ Without(ms, skip) = f[Len(ms)]
    /\ f[0] = <<>>
    /\ \A n \in 1 .. Len(ms) :
           f[n] = IF ms[n] \in skip THEN f[n - 1] ELSE Append(f[n - 1], ms[n])

LEMMA UpToRecursive ==
    ASSUME NEW E, NEW skip, NEW ms \in Seq(E)
    PROVE  IsUpTo(UpTo(ms, skip), ms, E, skip)
<1> DEFINE N == Len(ms)
           step == [n \in 1 .. N |-> [r \in Seq(E \ skip) |->
                       IF ms[n] \in skip THEN r ELSE Append(r, ms[n])]]
           Body(f) == [n \in 0 .. N |->
                          IF n = 0 THEN <<>>
                          ELSE IF ms[n] \in skip THEN f[n - 1]
                          ELSE Append(f[n - 1], ms[n])]
<1>1. N \in Nat /\ <<>> \in Seq(E \ skip)
  BY EmptySeq
<1>2. step \in [1 .. N -> [Seq(E \ skip) -> Seq(E \ skip)]]
  <2> SUFFICES ASSUME NEW n \in 1 .. N, NEW r \in Seq(E \ skip), ms[n] \notin skip
               PROVE  Append(r, ms[n]) \in Seq(E \ skip)
    OBVIOUS
  <2>1. ms[n] \in E \ skip
    BY ElementOfSeq
  <2> QED
    BY <2>1, AppendProperties
<1>3. PICK f \in [0 .. N -> Seq(E \ skip)] : Recurrence(f, N, <<>>, step)
  <2> HIDE DEF step, N
  <2> QED
    BY <1>1, <1>2, Recursion
<1>4. f = Body(f)
  <2>1. ASSUME NEW n \in 1 .. N
        PROVE step[n][f[n - 1]] = IF ms[n] \in skip THEN f[n - 1]
                                  ELSE Append(f[n - 1], ms[n])
    <3>1. f[n - 1] \in Seq(E \ skip)
      BY <1>1
    <3> QED
      BY <3>1
  <2> HIDE DEF step
  <2>2. \A n \in 0 .. N : f[n] = IF n = 0 THEN <<>>
                          ELSE IF ms[n] \in skip THEN f[n - 1]
                          ELSE Append(f[n - 1], ms[n])
    <3>1. \A n \in 0 .. N : n = 0 \/ n \in 1 .. N
      BY <1>1
    <3>2. f[0] = <<>> /\ \A n \in 1 .. N : f[n] = step[n][f[n - 1]] /\ n # 0
      BY <1>1, <1>3 DEF Recurrence
    <3> HIDE DEF N
    <3> QED
      BY <2>1, <3>1, <3>2, Zenon
  <2>3. f = [n \in 0 .. N |-> f[n]]
    BY <1>3
  <2> HIDE DEF N
  <2> QED
    BY <2>2, <2>3, Zenon
<1>5. UpTo(ms, skip) = Body(UpTo(ms, skip))
  BY <1>4 DEF UpTo
<1>6. Without(ms, skip) = UpTo(ms, skip)[N]
  BY DEF Without, UpTo
<1> DEFINE h == UpTo(ms, skip)
           H == {k \in Nat : k =< N => h[k] \in Seq(E \ skip)}
<1>7. /\ h[0] = <<>>
      /\ \A n \in 1 .. N : h[n] = IF ms[n] \in skip THEN h[n - 1]
                                  ELSE Append(h[n - 1], ms[n])
  <2>1. h = Body(h)
    BY <1>5
  <2> HIDE DEF h
  <2>2. \A n \in 0 .. N : h[n] = IF n = 0 THEN <<>>
                          ELSE IF ms[n] \in skip THEN h[n - 1]
                          ELSE Append(h[n - 1], ms[n])
    BY <2>1, Zenon
  <2>3. 0 \in 0 .. N /\ \A n \in 1 .. N : n \in 0 .. N /\ n # 0
    BY <1>1
  <2> HIDE DEF N
  <2> QED
    BY <2>2, <2>3, Zenon
<1>8. h = [n \in 0 .. N |-> h[n]]
  BY <1>5
<1> HIDE DEF h
<1>9. 0 \in H
  BY <1>1, <1>7
<1>10. ASSUME NEW k \in Nat, k \in H PROVE k + 1 \in H
  <2> SUFFICES ASSUME k + 1 =< N PROVE h[k + 1] \in Seq(E \ skip)
    OBVIOUS
  <2>1. h[k] \in Seq(E \ skip) /\ k + 1 \in 1 .. N
    BY <1>1, <1>10
  <2>2. h[k + 1] = IF ms[k + 1] \in skip THEN h[k] ELSE Append(h[k], ms[k + 1])
    BY <1>7, <2>1
  <2>3. CASE ms[k + 1] \in skip
    BY <2>1, <2>2, <2>3
  <2>4. CASE ms[k + 1] \notin skip
    <3>1. ms[k + 1] \in E \ skip
      BY <2>1, <2>4, ElementOfSeq
    <3> QED
      BY <2>1, <2>2, <2>4, <3>1, AppendProperties
  <2> QED
    BY <2>3, <2>4
<1>11. \A k \in 0 .. N : h[k] \in Seq(E \ skip)
  <2>1. \A k \in Nat : k \in H
    BY <1>9, <1>10, AllNumbers
  <2> QED
    BY <1>1, <2>1
<1>12. h \in [0 .. N -> Seq(E \ skip)]
  BY <1>8, <1>11
<1> QED
  BY <1>6, <1>7, <1>12 DEF h, IsUpTo

\* What is left has no member of skip.
LEMMA WithoutType ==
    ASSUME NEW E, NEW skip, NEW ms \in Seq(E)
    PROVE  Without(ms, skip) \in Seq(E \ skip)
<1>1. IsUpTo(UpTo(ms, skip), ms, E, skip)
  BY UpToRecursive
<1>2. Len(ms) \in 0 .. Len(ms)
  BY LenProperties
<1> QED
  BY <1>1, <1>2 DEF IsUpTo

LEMMA WithoutEmpty ==
    ASSUME NEW skip
    PROVE  Without(<<>>, skip) = <<>>
<1>1. <<>> \in Seq(Nat) /\ Len(<<>>) = 0
  BY EmptySeq
<1>2. IsUpTo(UpTo(<<>>, skip), <<>>, Nat, skip)
  BY <1>1, UpToRecursive
<1> QED
  BY <1>1, <1>2 DEF IsUpTo

\* One more message comes last, or is left out.
LEMMA WithoutAppend ==
    ASSUME NEW E, NEW skip, NEW ms \in Seq(E), NEW m \in E
    PROVE  Without(Append(ms, m), skip) = IF m \in skip THEN Without(ms, skip)
                                      ELSE Append(Without(ms, skip), m)
<1> DEFINE all == Append(ms, m)
           N == Len(ms)
           f == UpTo(ms, skip)
           g == UpTo(all, skip)
           S == {k \in Nat : k =< N => g[k] = f[k]}
<1>1. /\ all \in Seq(E) /\ N \in Nat /\ Len(all) = N + 1
      /\ \A n \in 1 .. N : all[n] = ms[n]
      /\ all[N + 1] = m
  BY AppendProperties, LenProperties
<1>2. /\ f[0] = <<>> /\ Without(ms, skip) = f[N]
      /\ \A n \in 1 .. N : f[n] = IF ms[n] \in skip THEN f[n - 1]
                                  ELSE Append(f[n - 1], ms[n])
  <2>1. IsUpTo(f, ms, E, skip)
    BY UpToRecursive
  <2> QED
    BY <2>1 DEF IsUpTo
<1> HIDE DEF f, all
<1>3. /\ g[0] = <<>> /\ Without(all, skip) = g[N + 1]
      /\ \A n \in 1 .. N + 1 : g[n] = IF all[n] \in skip THEN g[n - 1]
                                      ELSE Append(g[n - 1], all[n])
  <2>1. IsUpTo(g, all, E, skip)
    BY <1>1, UpToRecursive
  <2> QED
    BY <1>1, <2>1 DEF IsUpTo
<1> HIDE DEF g, N
<1>4. 0 \in S
  BY <1>2, <1>3
<1>5. ASSUME NEW k \in Nat, k \in S PROVE k + 1 \in S
  <2> SUFFICES ASSUME k + 1 =< N PROVE g[k + 1] = f[k + 1]
    OBVIOUS
  <2>1. k + 1 \in 1 .. N /\ k + 1 \in 1 .. N + 1 /\ (k + 1) - 1 = k /\ g[k] = f[k]
    BY <1>1, <1>5
  <2>2. all[k + 1] = ms[k + 1]
    BY <1>1, <2>1
  <2>3. g[k + 1] = IF all[k + 1] \in skip THEN g[k] ELSE Append(g[k], all[k + 1])
    BY <1>3, <2>1
  <2>4. f[k + 1] = IF ms[k + 1] \in skip THEN f[k] ELSE Append(f[k], ms[k + 1])
    BY <1>2, <2>1
  <2> QED
    BY <2>1, <2>2, <2>3, <2>4
<1>6. g[N] = f[N]
  <2>1. \A k \in Nat : k \in S
    BY <1>4, <1>5, AllNumbers
  <2> QED
    BY <1>1, <2>1
<1>7. g[N + 1] = IF all[N + 1] \in skip THEN g[N] ELSE Append(g[N], all[N + 1])
  <2>1. N + 1 \in 1 .. N + 1 /\ (N + 1) - 1 = N
    BY <1>1
  <2> QED
    BY <1>3, <2>1
<1> QED
  BY <1>1, <1>2, <1>3, <1>6, <1>7 DEF all

\* What is left of two sequences follows one another.
LEMMA WithoutConcat ==
    ASSUME NEW E, NEW skip, NEW a \in Seq(E), NEW b \in Seq(E)
    PROVE  Without(a \o b, skip) = Without(a, skip) \o Without(b, skip)
<1> DEFINE S == {n \in Nat : \A s \in Seq(E) :
                     Len(s) = n => Without(a \o s, skip) = Without(a, skip) \o Without(s, skip)}
<1>0. Without(a, skip) \in Seq(E \ skip)
  BY WithoutType
<1>1. 0 \in S
  <2> SUFFICES ASSUME NEW s \in Seq(E), Len(s) = 0
               PROVE  Without(a \o s, skip) = Without(a, skip) \o Without(s, skip)
    OBVIOUS
  <2>1. s = <<>>
    BY EmptySeq
  <2>2. a \o <<>> = a /\ Without(a, skip) \o <<>> = Without(a, skip)
    BY <1>0, ConcatEmptySeq
  <2> QED
    BY <2>1, <2>2, WithoutEmpty
<1>2. ASSUME NEW n \in Nat, n \in S PROVE n + 1 \in S
  <2> SUFFICES ASSUME NEW s \in Seq(E), Len(s) = n + 1
               PROVE  Without(a \o s, skip) = Without(a, skip) \o Without(s, skip)
    OBVIOUS
  <2>1. s # <<>>
    BY EmptySeq
  <2>2. PICK t \in Seq(E), m \in E : s = Append(t, m)
    BY <2>1, SequenceEmptyOrAppend
  <2>3. Len(t) = n
    BY <2>2, AppendProperties, LenProperties
  <2>4. Without(a \o t, skip) = Without(a, skip) \o Without(t, skip)
    BY <1>2, <2>3
  <2>5. a \o s = Append(a \o t, m)
    BY <2>2, AppendOfConcat
  <2>6. a \o t \in Seq(E) /\ Without(t, skip) \in Seq(E \ skip)
    BY ConcatProperties, WithoutType
  <2>7. Without(Append(a \o t, m), skip) = IF m \in skip THEN Without(a \o t, skip)
                                           ELSE Append(Without(a \o t, skip), m)
    <3> DEFINE u == a \o t
    <3>1. u \in Seq(E)
      BY <2>6
    <3> HIDE DEF u
    <3>2. Without(Append(u, m), skip) = IF m \in skip THEN Without(u, skip)
                                        ELSE Append(Without(u, skip), m)
      BY <3>1, WithoutAppend
    <3> QED
      BY <3>2 DEF u
  <2>8. Without(Append(t, m), skip) = IF m \in skip THEN Without(t, skip)
                                      ELSE Append(Without(t, skip), m)
    BY WithoutAppend
  <2>9. CASE m \in skip
    BY <2>2, <2>4, <2>5, <2>7, <2>8, <2>9
  <2>10. CASE m \notin skip
    <3>1. m \in E \ skip
      BY <2>10
    <3>2. Without(a, skip) \o Append(Without(t, skip), m) = Append(Without(a, skip) \o Without(t, skip), m)
      BY <1>0, <2>6, <3>1, AppendOfConcat
    <3> QED
      BY <2>2, <2>4, <2>5, <2>7, <2>8, <2>10, <3>2
  <2> QED
    BY <2>9, <2>10
<1>3. Len(b) \in S
  BY <1>1, <1>2, AllNumbers, LenProperties
<1> QED
  BY <1>3

\* A sequence without members of skip is left as it is.
LEMMA WithoutNothing ==
    ASSUME NEW E, NEW skip, NEW a \in Seq(E \ skip)
    PROVE  Without(a, skip) = a
<1> DEFINE S == {n \in Nat : \A s \in Seq(E \ skip) : Len(s) = n => Without(s, skip) = s}
<1>1. 0 \in S
  BY EmptySeq, WithoutEmpty
<1>2. ASSUME NEW n \in Nat, n \in S PROVE n + 1 \in S
  <2> SUFFICES ASSUME NEW s \in Seq(E \ skip), Len(s) = n + 1 PROVE Without(s, skip) = s
    OBVIOUS
  <2>1. s # <<>>
    BY EmptySeq
  <2>2. PICK t \in Seq(E \ skip), m \in E \ skip : s = Append(t, m)
    BY <2>1, SequenceEmptyOrAppend
  <2>3. Len(t) = n
    BY <2>2, AppendProperties, LenProperties
  <2>4. t \in Seq(E) /\ m \in E /\ m \notin skip
    BY SeqMonotonic
  <2> QED
    BY <1>2, <2>2, <2>3, <2>4, WithoutAppend
<1>3. Len(a) \in S
  BY <1>1, <1>2, AllNumbers, LenProperties
<1> QED
  BY <1>3

\* Members of skip leave nothing.
LEMMA WithoutAll ==
    ASSUME NEW E, NEW skip, NEW a \in Seq(E), \A i \in 1 .. Len(a) : a[i] \in skip
    PROVE  Without(a, skip) = <<>>
<1> DEFINE S == {n \in Nat : \A s \in Seq(E) :
                     Len(s) = n /\ (\A i \in 1 .. n : s[i] \in skip) => Without(s, skip) = <<>>}
<1>1. 0 \in S
  BY EmptySeq, WithoutEmpty
<1>2. ASSUME NEW n \in Nat, n \in S PROVE n + 1 \in S
  <2> SUFFICES ASSUME NEW s \in Seq(E), Len(s) = n + 1, \A i \in 1 .. n + 1 : s[i] \in skip
               PROVE  Without(s, skip) = <<>>
    OBVIOUS
  <2>1. s # <<>>
    BY EmptySeq
  <2>2. PICK t \in Seq(E), m \in E : s = Append(t, m)
    BY <2>1, SequenceEmptyOrAppend
  <2>3. Len(t) = n /\ m \in skip /\ \A i \in 1 .. n : t[i] \in skip
    <3>1. /\ Len(s) = Len(t) + 1 /\ s[Len(t) + 1] = m
          /\ \A i \in 1 .. Len(t) : s[i] = t[i]
      BY <2>2, AppendProperties
    <3>2. Len(t) \in Nat
      BY LenProperties
    <3>3. Len(t) = n
      BY <3>1, <3>2
    <3> QED
      BY <3>1, <3>3
  <2>4. Without(t, skip) = <<>>
    BY <1>2, <2>3
  <2> QED
    BY <2>2, <2>3, <2>4, WithoutAppend
<1>3. Len(a) \in S
  BY <1>1, <1>2, AllNumbers, LenProperties
<1> QED
  BY <1>3
=============================================================================
