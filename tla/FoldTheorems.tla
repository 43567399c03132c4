---------------------------- MODULE FoldTheorems ----------------------------
(***************************************************************************)
(* Lemmas about the operators the rules are built from: largest and least  *)
(* elements, induction, InsertAt, and the recursion behind the folds of    *)
(* the community modules.                                                  *)
(*                                                                         *)
(* The library's induction theorems take an operator as a parameter; what  *)
(* stands here does without: HasMax takes a least counterexample in a      *)
(* well-founded order of finite sets, and the rest follows from it.        *)
(***************************************************************************)
EXTENDS Integers, Sequences, FiniteSets, SequencesExt, FiniteSetsExt,
        TLAPS, FiniteSetTheorems, FunctionTheorems, SequenceTheorems

-----------------------------------------------------------------------------
(* Largest and least elements *)

\* A finite set of integers has a largest element: a smallest set without one would be
\* a larger one with one element less.
LEMMA HasMax ==
  ASSUME NEW S \in SUBSET Int, IsFiniteSet(S), S # {}
  PROVE  \E x \in S : \A y \in S : x >= y
<1> DEFINE C == {T \in SUBSET S : T # {} /\ ~ \E x \in T : \A y \in T : x >= y}
<1>1. SUFFICES ASSUME S \in C PROVE FALSE
  OBVIOUS
<1>2. C \subseteq FiniteSubsetsOf(S)
  BY FS_FiniteSubsetsOfFinite
<1>3. PICK T \in C : \A U \in C : ~ (<<U, T>> \in StrictSubsetOrdering(S))
  <2>1. IsWellFoundedOn(StrictSubsetOrdering(S), FiniteSubsetsOf(S))
    BY FS_StrictSubsetOrderingWellFounded
  <2> HIDE DEF C
  <2> QED BY <1>1, <1>2, <2>1, WFMin
<1>4. PICK x \in T : TRUE
  OBVIOUS
<1>5. T \ {x} \notin C
  BY <1>3, <1>4 DEF StrictSubsetOrdering
<1>6. CASE T \ {x} = {}
  <2>1. \A y \in T : x >= y
    BY <1>6
  <2> QED BY <1>3, <2>1
<1>7. CASE T \ {x} # {}
  <2>1. PICK m \in T \ {x} : \A y \in T \ {x} : m >= y
    BY <1>5, <1>7
  <2>2. CASE x >= m
    <3>1. \A y \in T : x >= y
      BY <2>1, <2>2
    <3> QED BY <3>1
  <2>3. CASE m >= x
    <3>1. \A y \in T : m >= y
      BY <2>1, <2>3
    <3> QED BY <3>1
  <2> QED BY <2>2, <2>3
<1> QED BY <1>6, <1>7

\* Max is the largest element.
LEMMA MaxIs ==
  ASSUME NEW S \in SUBSET Int, IsFiniteSet(S), S # {}
  PROVE  Max(S) \in S /\ \A y \in S : y <= Max(S)
<1>1. PICK x \in S : \A y \in S : x >= y
  BY HasMax
<1> QED BY <1>1 DEF Max

\* The least element is the negation of the largest one of the negations.
LEMMA MinIs ==
  ASSUME NEW S \in SUBSET Int, IsFiniteSet(S), S # {}
  PROVE  Min(S) \in S /\ \A y \in S : Min(S) <= y
<1> DEFINE T == {-x : x \in S}
           f == [x \in S |-> -x]
<1>1. f \in Surjection(S, T)
  BY DEF Surjection
<1>2. IsFiniteSet(T) /\ T \in SUBSET Int /\ T # {}
  <2>0. PICK x \in S : TRUE
    OBVIOUS
  <2>1. T \in SUBSET Int /\ -x \in T
    OBVIOUS
  <2> HIDE DEF T, f
  <2>2. IsFiniteSet(T)
    BY <1>1, FS_Surjection, Zenon
  <2> QED BY <2>1, <2>2
<1>3. PICK m \in T : \A y \in T : m >= y
  BY <1>2, HasMax
<1>4. PICK x \in S : m = -x
  OBVIOUS
<1>5. \A y \in S : x <= y
  BY <1>3, <1>4
<1> QED BY <1>5 DEF Min

\* Max of two numbers.
LEMMA LargerOf ==
  ASSUME NEW x \in Int, NEW y \in Int
  PROVE  Max({x, y}) = IF x >= y THEN x ELSE y
<1>1. \A z \in {x, y} : (\A u \in {x, y} : z >= u) => z = IF x >= y THEN x ELSE y
  OBVIOUS
<1>2. \E z \in {x, y} : \A u \in {x, y} : z >= u
  OBVIOUS
<1> QED BY <1>1, <1>2 DEF Max

\* Min of two numbers.
LEMMA SmallerOf ==
  ASSUME NEW x \in Int, NEW y \in Int
  PROVE  Min({x, y}) = IF x <= y THEN x ELSE y
<1>1. \A z \in {x, y} : (\A u \in {x, y} : z <= u) => z = IF x <= y THEN x ELSE y
  OBVIOUS
<1>2. \E z \in {x, y} : \A u \in {x, y} : z <= u
  OBVIOUS
<1> QED BY <1>1, <1>2 DEF Min

\* A part of 1..n is a finite set of integers.
LEMMA PartOfInterval ==
  ASSUME NEW n \in Nat, NEW I \in SUBSET (1..n)
  PROVE  IsFiniteSet(I) /\ I \in SUBSET Int
<1>1. IsFiniteSet(1..n)
  BY FS_Interval
<1>2. IsFiniteSet(I)
  BY <1>1, FS_Subset, Zenon
<1> QED BY <1>2

\* 1..n has n elements.
LEMMA IntervalSize ==
  ASSUME NEW n \in Nat
  PROVE  IsFiniteSet(1..n) /\ Cardinality(1..n) = n
<1>1. /\ IsFiniteSet(1..n)
      /\ Cardinality(1..n) = IF 1 > n THEN 0 ELSE n - 1 + 1
  BY FS_Interval
<1> QED BY <1>1

\* A part of 1..n that is not empty has a largest element.
LEMMA PartMax ==
  ASSUME NEW n \in Nat, NEW s \in SUBSET (1..n), s # {}
  PROVE  Max(s) \in s /\ \A y \in s : y <= Max(s)
<1>1. IsFiniteSet(s) /\ s \in SUBSET Int
  BY PartOfInterval
<1> QED BY <1>1, MaxIs

\* Induction: the least number outside S would come after one in S.
LEMMA SetInduction ==
  ASSUME NEW S, 0 \in S, \A k \in Nat : k \in S => k + 1 \in S
  PROVE  \A k \in Nat : k \in S
<1>1. SUFFICES ASSUME NEW z \in Nat, z \notin S PROVE FALSE
  OBVIOUS
<1> DEFINE T == (0..z) \ S
           m == Min(T)
<1>2. T \in SUBSET Int /\ z \in T /\ T # {}
  BY <1>1
<1>3. IsFiniteSet(T)
  <2>1. IsFiniteSet(0..z) /\ T \in SUBSET (0..z)
    BY FS_Interval
  <2> HIDE DEF T
  <2> QED BY <2>1, FS_Subset
<1>4. m \in T /\ \A y \in T : m <= y
  <2> HIDE DEF T
  <2> QED BY <1>2, <1>3, MinIs
<1> HIDE DEF m
<1>5. m \in Nat /\ m # 0 /\ m \notin S /\ m <= z
  BY <1>4
<1>6. m - 1 \in Nat /\ m - 1 \notin T /\ m - 1 \in 0..z
  <2>1. m - 1 \notin T
    <3> HIDE DEF T
    <3> QED BY <1>4, <1>5
  <2> QED BY <1>5, <2>1
<1>7. m - 1 \in S /\ m - 1 + 1 = m
  BY <1>5, <1>6
<1> QED BY <1>5, <1>6, <1>7

-----------------------------------------------------------------------------
(* Folds *)

\* The largest element of a part of 1..m that holds m is m.
LEMMA LastIsMax ==
  ASSUME NEW m \in Nat \ {0}, NEW s \in SUBSET (1..m), m \in s
  PROVE  Max(s) = m
<1>1. \A y \in s : m >= y
  OBVIOUS
<1>2. \A x \in s : (\A y \in s : x >= y) => x = m
  OBVIOUS
<1> QED BY <1>1, <1>2 DEF Max

\* it solves the recursion of MapThenFoldSet over 1..n, which takes the last element first.
FoldsTo(it, n, base, g) ==
  \A s \in SUBSET (1..n) :
    it[s] = IF s = {} THEN base ELSE g[Max(s)][it[s \ {Max(s)}]]

\* That recursion has a solution.
LEMMA FoldGraph ==
  ASSUME NEW n \in Nat, NEW D, NEW base \in D, NEW g \in [1..n -> [D -> D]]
  PROVE  \E it \in [SUBSET (1..n) -> D] : FoldsTo(it, n, base, g)
<1> DEFINE Solves(m, it) ==
             \A s \in SUBSET (1..m) :
               it[s] = IF s = {} THEN base ELSE g[Max(s)][it[s \ {Max(s)}]]
           Solved(m) == \E it \in [SUBSET (1..m) -> D] : Solves(m, it)
           S == {m \in Nat : m <= n => Solved(m)}
<1>1. Solved(0)
  <2> DEFINE it == [s \in SUBSET (1..0) |-> base]
  <2>1. \A s \in SUBSET (1..0) : s = {}
    OBVIOUS
  <2>2. it \in [SUBSET (1..0) -> D] /\ Solves(0, it)
    BY <2>1
  <2> QED BY <2>2
<1>2. ASSUME NEW m \in Nat, Solved(m), m + 1 <= n PROVE Solved(m + 1)
  <2>2. PICK old \in [SUBSET (1..m) -> D] : Solves(m, old)
    BY <1>2
  <2> DEFINE it == [s \in SUBSET (1..(m + 1)) |->
                      IF m + 1 \in s THEN g[m + 1][old[s \ {m + 1}]] ELSE old[s]]
  <2>3. \A s \in SUBSET (1..(m + 1)) :
          /\ s \ {m + 1} \in SUBSET (1..m)
          /\ m + 1 \notin s => s \in SUBSET (1..m)
    OBVIOUS
  <2>4. g[m + 1] \in [D -> D]
    BY <1>2
  <2>5. it \in [SUBSET (1..(m + 1)) -> D]
    BY <2>2, <2>3, <2>4
  <2>6. ASSUME NEW s \in SUBSET (1..(m + 1))
        PROVE  it[s] = IF s = {} THEN base ELSE g[Max(s)][it[s \ {Max(s)}]]
    <3>1. CASE m + 1 \in s
      <4>1. Max(s) = m + 1
        BY <3>1, LastIsMax
      <4>2. it[s] = g[m + 1][old[s \ {m + 1}]] /\ it[s \ {m + 1}] = old[s \ {m + 1}]
        BY <2>3, <3>1
      <4> HIDE DEF it
      <4> QED BY <3>1, <4>1, <4>2
    <3>2. CASE m + 1 \notin s
      <4>1. s \in SUBSET (1..m) /\ s \ {Max(s)} \in SUBSET (1..m)
        BY <2>3, <3>2
      <4>2. it[s] = old[s] /\ it[s \ {Max(s)}] = old[s \ {Max(s)}]
        BY <4>1
      <4> HIDE DEF it
      <4> QED BY <2>2, <4>1, <4>2
    <3> QED BY <3>1, <3>2
  <2> QED BY <2>5, <2>6
<1>3. n \in S
  <2> HIDE DEF Solved
  <2>1. 0 \in S /\ \A m \in Nat : m \in S => m + 1 \in S
    BY <1>1, <1>2
  <2> HIDE DEF S
  <2> QED BY <2>1, SetInduction
<1>4. Solved(n)
  <2> HIDE DEF Solved
  <2> QED BY <1>3
<1> QED BY <1>4 DEF FoldsTo

\* The steps of a fold: 1..k without its largest element.
LEMMA Prefix ==
  ASSUME NEW n \in Nat, NEW k \in 1..n
  PROVE  /\ 1..k \in SUBSET (1..n) /\ 1..(k - 1) \in SUBSET (1..n)
         /\ Max(1..k) = k /\ (1..k) \ {k} = 1..(k - 1) /\ 1..k # {}
<1>1. Max(1..k) = k
  BY LastIsMax
<1> QED BY <1>1

-----------------------------------------------------------------------------
(* InsertAt *)

\* InsertAt, written out.
LEMMA InsertIs ==
  \A q, p, t : InsertAt(q, p, t) = (SubSeq(q, 1, p - 1) \o <<t>>) \o SubSeq(q, p, Len(q))
BY DEF InsertAt

\* r is q with t behind the first c places.
Inserted(q, c, t, r) ==
  /\ Len(r) = Len(q) + 1
  /\ \A i \in 1..c : r[i] = q[i]
  /\ r[c + 1] = t
  /\ \A i \in (c + 2)..(Len(q) + 1) : r[i] = q[i - 1]

\* InsertAt puts its element where it says and keeps the others in their order.
LEMMA InsertProperties ==
  ASSUME NEW S, NEW q \in Seq(S), NEW t \in S, NEW c \in 0..Len(q)
  PROVE  /\ InsertAt(q, 1 + c, t) \in Seq(S)
         /\ Inserted(q, c, t, InsertAt(q, 1 + c, t))
<1> DEFINE front == SubSeq(q, 1, c)
           back == SubSeq(q, 1 + c, Len(q))
<1>1. Len(q) \in Nat /\ \A i \in 1..Len(q) : q[i] \in S
  BY LenProperties, ElementOfSeq
<1>2. c \in Nat /\ c <= Len(q)
  BY <1>1
<1>3. /\ front \in Seq(S) /\ Len(front) = c
      /\ \A i \in 1..c : front[i] = q[i]
  <2>1. \A i \in 1..c : q[i] \in S
    BY <1>1, <1>2
  <2>2. /\ front \in Seq(S) /\ Len(front) = IF 1 <= c THEN c - 1 + 1 ELSE 0
        /\ \A i \in 1..(c - 1 + 1) : front[i] = q[1 + i - 1]
    BY <1>2, <2>1, SubSeqProperties
  <2> QED BY <1>2, <2>2
<1>4. /\ back \in Seq(S) /\ Len(back) = Len(q) - c
      /\ \A i \in 1..(Len(q) - c) : back[i] = q[c + i]
  <2>1. \A i \in (1 + c)..Len(q) : q[i] \in S
    BY <1>1, <1>2
  <2>2. /\ back \in Seq(S)
        /\ Len(back) = IF 1 + c <= Len(q) THEN Len(q) - (1 + c) + 1 ELSE 0
        /\ \A i \in 1..(Len(q) - (1 + c) + 1) : back[i] = q[1 + c + i - 1]
    BY <1>1, <1>2, <2>1, SubSeqProperties
  <2> QED BY <1>1, <1>2, <2>2
<1>5. <<t>> \in Seq(S) /\ Len(<<t>>) = 1 /\ <<t>>[1] = t
  OBVIOUS
<1> HIDE DEF front, back
<1> DEFINE start == front \o <<t>>
           r == start \o back
<1>6. /\ start \in Seq(S) /\ Len(start) = c + 1
      /\ \A i \in 1..c : start[i] = q[i]
      /\ start[c + 1] = t
  <2>1. /\ start \in Seq(S) /\ Len(start) = c + 1
        /\ \A i \in 1..(c + 1) : start[i] = IF i <= c THEN front[i] ELSE <<t>>[i - c]
    BY <1>3, <1>5, ConcatProperties
  <2> HIDE DEF start
  <2>2. \A i \in 1..c : start[i] = q[i]
    <3>1. SUFFICES ASSUME NEW i \in 1..c PROVE start[i] = q[i]
      OBVIOUS
    <3>2. i \in 1..(c + 1) /\ i <= c
      BY <1>2
    <3> QED BY <1>3, <2>1, <3>2
  <2>3. start[c + 1] = t
    <3>1. c + 1 \in 1..(c + 1) /\ ~(c + 1 <= c) /\ c + 1 - c = 1
      BY <1>2
    <3> QED BY <1>5, <2>1, <3>1
  <2> QED BY <2>1, <2>2, <2>3
<1> HIDE DEF start
<1>7. /\ r \in Seq(S) /\ Len(r) = Len(q) + 1
      /\ \A i \in 1..(Len(q) + 1) :
           r[i] = IF i <= c + 1 THEN start[i] ELSE back[i - (c + 1)]
  <2>1. c + 1 + (Len(q) - c) = Len(q) + 1
    BY <1>1, <1>2
  <2> QED BY <1>4, <1>6, <2>1, ConcatProperties
<1>8. r = InsertAt(q, 1 + c, t)
  <2>1. 1 + c - 1 = c
    BY <1>2
  <2>2. PICK p : p = 1 + c /\ p - 1 = c
    BY <2>1
  <2>3. InsertAt(q, p, t) = (SubSeq(q, 1, p - 1) \o <<t>>) \o SubSeq(q, p, Len(q))
    BY InsertIs
  <2>4. r = (SubSeq(q, 1, c) \o <<t>>) \o SubSeq(q, 1 + c, Len(q))
    BY DEF start, front, back
  <2> HIDE DEF r
  <2> QED BY <2>2, <2>3, <2>4, Zenon
<1> HIDE DEF r
<1>9. \A i \in (c + 2)..(Len(q) + 1) : r[i] = q[i - 1]
  <2>1. SUFFICES ASSUME NEW i \in (c + 2)..(Len(q) + 1) PROVE r[i] = q[i - 1]
    OBVIOUS
  <2>2. /\ i \in 1..(Len(q) + 1) /\ ~(i <= c + 1)
        /\ i - (c + 1) \in 1..(Len(q) - c) /\ c + (i - (c + 1)) = i - 1
    BY <1>1, <1>2
  <2> QED BY <1>4, <1>7, <2>2
<1>10. (\A i \in 1..c : r[i] = q[i]) /\ r[c + 1] = t
  BY <1>1, <1>2, <1>6, <1>7
<1> QED BY <1>7, <1>8, <1>9, <1>10 DEF Inserted
=============================================================================
