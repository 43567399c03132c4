----------------------------- MODULE Rules_proofs -----------------------------
(***************************************************************************)
(* Theorems about two of the rules.  Workdays: for every day of the start, *)
(* every number of working days and every set of holidays.  Hotwords: for  *)
(* every glossary and every limit.                                         *)
(*                                                                         *)
(* Terms, Ranked and the joined length of Hotwords are folds over          *)
(* sequences.  Each is shown to go step by step, and what it yields by     *)
(* induction on the number of elements.                                    *)
(***************************************************************************)
EXTENDS Workdays, Hotwords, FoldTheorems

-----------------------------------------------------------------------------
(* Workdays *)

\* What the loop knows: its types, its count, and where the last working day was.
DInv ==
  /\ DaysTypeOK
  /\ CountsWorkdays
  /\ ExactPeriod

\* Between a day and itself there is no working day.
LEMMA NoDayIn ==
  ASSUME NEW a \in Nat
  PROVE  WorkdaysIn(a, a) = {}
BY DEF WorkdaysIn

\* One day more adds that day, if it is a working day, and nothing else.
LEMMA OneMoreDay ==
  ASSUME NEW a \in Nat, NEW b \in Nat, a <= b
  PROVE  /\ b + 1 \notin WorkdaysIn(a, b)
         /\ WorkdaysIn(a, b + 1)
              = IF IsWorkday(b + 1) THEN WorkdaysIn(a, b) \cup {b + 1} ELSE WorkdaysIn(a, b)
<1>1. (b + 1) % 7 \in 0..6
  OBVIOUS
<1>2. IsWorkday(b + 1) <=> (b + 1) % 7 \in 0..4 /\ b + 1 \notin holidays
  BY <1>1 DEF IsWorkday, Saturday
<1>3. (a + 1)..(b + 1) = ((a + 1)..b) \cup {b + 1}
  OBVIOUS
<1>4. b + 1 \notin (a + 1)..b
  OBVIOUS
<1> QED BY <1>2, <1>3, <1>4 DEF WorkdaysIn

\* The working days between two days can be counted.
LEMMA WorkdaysFinite ==
  ASSUME NEW a \in Nat, NEW b \in Nat
  PROVE  IsFiniteSet(WorkdaysIn(a, b)) /\ Cardinality(WorkdaysIn(a, b)) \in Nat
<1>1. IsFiniteSet((a + 1)..b)
  BY FS_Interval
<1>2. WorkdaysIn(a, b) \subseteq (a + 1)..b
  BY DEF WorkdaysIn
<1> QED BY <1>1, <1>2, FS_Subset, FS_CardinalityType

\* DaysInit: none is counted yet.
LEMMA InitDInv == DaysInit => DInv
<1> SUFFICES ASSUME DaysInit PROVE DInv
  OBVIOUS
<1>1. DaysTypeOK
  BY WorkdaysAssumption DEF DaysInit, DaysTypeOK
<1>2. Cardinality(WorkdaysIn(start, result)) = 0
  BY <1>1, NoDayIn, FS_EmptySet DEF DaysInit, DaysTypeOK
<1> QED BY <1>1, <1>2 DEF DaysInit, DaysTypeOK, DInv, CountsWorkdays, ExactPeriod

\* NextDay counts the day it passes, if it is one of them.
LEMMA StepDInv == DInv /\ [NextDay]_daysVars => DInv'
<1> SUFFICES ASSUME DInv, [NextDay]_daysVars PROVE DInv'
  OBVIOUS
<1> USE DEF DInv, DaysTypeOK, CountsWorkdays, ExactPeriod
<1>1. CASE UNCHANGED daysVars
  BY <1>1 DEF daysVars, WorkdaysIn
<1>2. CASE NextDay
  <2> DEFINE W == WorkdaysIn(start, result)
  <2>1. UNCHANGED <<start, n, holidays>> /\ result' = result + 1 /\ added < n
    BY <1>2 DEF NextDay
  <2>2. WorkdaysIn(start, result)' = WorkdaysIn(start, result + 1)
    BY <2>1 DEF WorkdaysIn
  <2>3. IsFiniteSet(W) /\ added = Cardinality(W) /\ start <= result
    BY WorkdaysFinite
  <2>4. CASE IsWorkday(result + 1)
    <3>1. WorkdaysIn(start, result)' = W \cup {result + 1} /\ result + 1 \notin W
      BY <2>2, <2>3, <2>4, OneMoreDay
    <3>2. Cardinality(WorkdaysIn(start, result)') = added + 1
      BY <2>3, <3>1, FS_AddElement
    <3>3. added' = added + 1
      BY <1>2, <2>4 DEF NextDay
    <3> HIDE DEF W
    <3> QED BY <2>1, <2>3, <3>1, <3>2, <3>3
  <2>5. CASE ~IsWorkday(result + 1)
    <3>1. WorkdaysIn(start, result)' = W
      BY <2>2, <2>3, <2>5, OneMoreDay
    <3>2. added' = added
      BY <1>2, <2>5 DEF NextDay
    <3> HIDE DEF W
    <3> QED BY <2>1, <2>3, <3>1, <3>2
  <2> QED BY <2>4, <2>5
<1> QED BY <1>1, <1>2

\* The loop of add_working_days counts the working days it has gone past, each once
\* and no other day, whatever the holidays.
THEOREM CountIsRight == DaysSpec => []CountsWorkdays
<1>1. DInv => CountsWorkdays
  BY DEF DInv
<1> QED BY <1>1, InitDInv, StepDInv, PTL DEF DaysSpec

\* A session is kept for exactly its number of working days: when the loop is over n
\* of them have gone by, and the last one is the day of expiry.
THEOREM RetentionIsExact == DaysSpec => []ExactPeriod
<1>1. DInv => ExactPeriod
  BY DEF DInv
<1> QED BY <1>1, InitDInv, StepDInv, PTL DEF DaysSpec

-----------------------------------------------------------------------------
(* The three folds, step by step *)

\* One step of Terms.
WithTerm(seen, l) ==
  IF l.length = 0 \/ \E i \in DOMAIN seen : seen[i].lower = l.lower
  THEN seen ELSE Append(seen, l)

\* Terms goes through the lines one by one.
LEMMA TermsSteps ==
  ASSUME NEW S, NEW ls \in Seq(S)
  PROVE  \E h : /\ h[0] = <<>> /\ h[Len(ls)] = Terms(ls)
                /\ \A k \in 1..Len(ls) : h[k] = WithTerm(h[k - 1], ls[k])
<1> DEFINE N == Len(ls)
           IsIt(it) == it = [s \in SUBSET (1..N) |->
                               IF s = {} THEN <<>> ELSE WithTerm(it[s \ {Max(s)}], ls[Max(s)])]
           g == [i \in 1..N |-> [seen \in Seq(S) |-> WithTerm(seen, ls[i])]]
<1>1. N \in Nat /\ DOMAIN ls = 1..N /\ \A i \in 1..N : ls[i] \in S
  BY LenProperties, ElementOfSeq
<1>2. \E it : IsIt(it)
  <2>1. \A i \in 1..N, seen \in Seq(S) : WithTerm(seen, ls[i]) \in Seq(S)
    BY <1>1, AppendProperties DEF WithTerm
  <2>2. g \in [1..N -> [Seq(S) -> Seq(S)]] /\ <<>> \in Seq(S)
    BY <2>1
  <2>3. \A i \in 1..N, seen \in Seq(S) : g[i][seen] = WithTerm(seen, ls[i])
    OBVIOUS
  <2> HIDE DEF g, N
  <2>4. PICK it \in [SUBSET (1..N) -> Seq(S)] : FoldsTo(it, N, <<>>, g)
    BY <1>1, <2>2, FoldGraph
  <2>5. ASSUME NEW s \in SUBSET (1..N), s # {}
        PROVE  it[s] = WithTerm(it[s \ {Max(s)}], ls[Max(s)])
    <3>1. Max(s) \in 1..N
      BY <1>1, <2>5, PartMax
    <3>2. s \ {Max(s)} \in SUBSET (1..N)
      OBVIOUS
    <3>3. it[s] = g[Max(s)][it[s \ {Max(s)}]] /\ it[s \ {Max(s)}] \in Seq(S)
      BY <2>4, <2>5, <3>2 DEF FoldsTo
    <3> QED BY <2>3, <3>1, <3>3
  <2>6. it[{}] = <<>>
    BY <2>4 DEF FoldsTo
  <2> QED BY <2>4, <2>5, <2>6
<1>3. Terms(ls) = (CHOOSE it : IsIt(it))[1..N]
  BY <1>1 DEF Terms, WithTerm, FoldLeft, MapThenFoldSet
<1>4. PICK it : IsIt(it) /\ Terms(ls) = it[1..N]
  <2> HIDE DEF IsIt
  <2> QED BY <1>2, <1>3
<1> DEFINE h == [k \in 0..N |-> it[1..k]]
<1>5. h[0] = <<>> /\ h[N] = Terms(ls)
  <2>1. 1..0 = {} /\ 1..0 \in SUBSET (1..N) /\ 0 \in 0..N /\ N \in 0..N
    BY <1>1
  <2>2. it[{}] = <<>>
    BY <1>4, <2>1
  <2> QED BY <1>4, <2>1, <2>2
<1>6. ASSUME NEW k \in 1..N PROVE h[k] = WithTerm(h[k - 1], ls[k])
  <2>1. /\ 1..k \in SUBSET (1..N) /\ 1..(k - 1) \in SUBSET (1..N)
        /\ Max(1..k) = k /\ (1..k) \ {k} = 1..(k - 1) /\ 1..k # {}
    BY <1>1, Prefix
  <2>2. it[1..k] = WithTerm(it[1..(k - 1)], ls[k])
    BY <1>4, <2>1
  <2>3. k \in 0..N /\ k - 1 \in 0..N
    BY <1>1
  <2> QED BY <2>2, <2>3
<1> QED BY <1>5, <1>6

\* One step of Ranked, and the terms that stay before the new one.
NotBelow(sorted, t) == {i \in DOMAIN sorted : ~Above(t, sorted[i])}

WithRank(sorted, t) == InsertAt(sorted, 1 + Cardinality(NotBelow(sorted, t)), t)

\* As many terms stay before the new one as there are places.
LEMMA NotBelowSize ==
  ASSUME NEW S, NEW q \in Seq(S), NEW t
  PROVE  NotBelow(q, t) \in SUBSET (1..Len(q)) /\ Cardinality(NotBelow(q, t)) \in 0..Len(q)
<1>1. Len(q) \in Nat /\ NotBelow(q, t) \in SUBSET (1..Len(q))
  BY LenProperties DEF NotBelow
<1>2. IsFiniteSet(1..Len(q)) /\ Cardinality(1..Len(q)) = Len(q)
  BY <1>1, IntervalSize
<1>3. /\ IsFiniteSet(NotBelow(q, t))
      /\ Cardinality(NotBelow(q, t)) <= Len(q)
  BY <1>1, <1>2, FS_Subset
<1>4. Cardinality(NotBelow(q, t)) \in Nat
  BY <1>3, FS_CardinalityType
<1> QED BY <1>1, <1>3, <1>4

\* What is inserted makes a sequence.
LEMMA WithRankType ==
  ASSUME NEW S, NEW q \in Seq(S), NEW t \in S
  PROVE  WithRank(q, t) \in Seq(S)
BY NotBelowSize, InsertProperties DEF WithRank

\* Ranked goes through the terms one by one.
LEMMA RankedSteps ==
  ASSUME NEW S, NEW ts \in Seq(S)
  PROVE  \E h : /\ h[0] = <<>> /\ h[Len(ts)] = Ranked(ts)
                /\ \A k \in 1..Len(ts) : h[k] = WithRank(h[k - 1], ts[k])
<1> DEFINE N == Len(ts)
           IsIt(it) == it = [s \in SUBSET (1..N) |->
                               IF s = {} THEN <<>> ELSE WithRank(it[s \ {Max(s)}], ts[Max(s)])]
           g == [i \in 1..N |-> [sorted \in Seq(S) |-> WithRank(sorted, ts[i])]]
<1>1. N \in Nat /\ DOMAIN ts = 1..N /\ \A i \in 1..N : ts[i] \in S
  BY LenProperties, ElementOfSeq
<1>2. \E it : IsIt(it)
  <2>1. \A i \in 1..N, sorted \in Seq(S) : WithRank(sorted, ts[i]) \in Seq(S)
    BY <1>1, WithRankType
  <2>2. g \in [1..N -> [Seq(S) -> Seq(S)]] /\ <<>> \in Seq(S)
    BY <2>1
  <2>3. \A i \in 1..N, sorted \in Seq(S) : g[i][sorted] = WithRank(sorted, ts[i])
    OBVIOUS
  <2> HIDE DEF g, N
  <2>4. PICK it \in [SUBSET (1..N) -> Seq(S)] : FoldsTo(it, N, <<>>, g)
    BY <1>1, <2>2, FoldGraph
  <2>5. ASSUME NEW s \in SUBSET (1..N), s # {}
        PROVE  it[s] = WithRank(it[s \ {Max(s)}], ts[Max(s)])
    <3>1. Max(s) \in 1..N
      BY <1>1, <2>5, PartMax
    <3>2. s \ {Max(s)} \in SUBSET (1..N)
      OBVIOUS
    <3>3. it[s] = g[Max(s)][it[s \ {Max(s)}]] /\ it[s \ {Max(s)}] \in Seq(S)
      BY <2>4, <2>5, <3>2 DEF FoldsTo
    <3> QED BY <2>3, <3>1, <3>3
  <2>6. it[{}] = <<>>
    BY <2>4 DEF FoldsTo
  <2> QED BY <2>4, <2>5, <2>6
<1>3. Ranked(ts) = (CHOOSE it : IsIt(it))[1..N]
  BY <1>1 DEF Ranked, WithRank, NotBelow, FoldLeft, MapThenFoldSet
<1>4. PICK it : IsIt(it) /\ Ranked(ts) = it[1..N]
  <2> HIDE DEF IsIt
  <2> QED BY <1>2, <1>3
<1> DEFINE h == [k \in 0..N |-> it[1..k]]
<1>5. h[0] = <<>> /\ h[N] = Ranked(ts)
  <2>1. 1..0 = {} /\ 1..0 \in SUBSET (1..N) /\ 0 \in 0..N /\ N \in 0..N
    BY <1>1
  <2>2. it[{}] = <<>>
    BY <1>4, <2>1
  <2> QED BY <1>4, <2>1, <2>2
<1>6. ASSUME NEW k \in 1..N PROVE h[k] = WithRank(h[k - 1], ts[k])
  <2>1. /\ 1..k \in SUBSET (1..N) /\ 1..(k - 1) \in SUBSET (1..N)
        /\ Max(1..k) = k /\ (1..k) \ {k} = 1..(k - 1) /\ 1..k # {}
    BY <1>1, Prefix
  <2>2. it[1..k] = WithRank(it[1..(k - 1)], ts[k])
    BY <1>4, <2>1
  <2>3. k \in 0..N /\ k - 1 \in 0..N
    BY <1>1
  <2> QED BY <2>2, <2>3
<1> QED BY <1>5, <1>6

\* The length of the terms at the places o of cs, together.
Joined(cs, o) == FoldLeft(LAMBDA sum, i : sum + cs[i].length, 0, o)

\* h adds up the lengths.
AddsUp(cs, o, h) ==
  /\ h[0] = 0 /\ h[Len(o)] = Joined(cs, o)
  /\ \A k \in 1..Len(o) : h[k] = h[k - 1] + cs[o[k]].length

\* Joined adds the lengths one by one.
LEMMA JoinedSteps ==
  ASSUME NEW cs, NEW I, NEW o \in Seq(I), \A i \in I : cs[i].length \in Nat
  PROVE  \E h : AddsUp(cs, o, h)
<1> DEFINE N == Len(o)
           IsIt(it) == it = [s \in SUBSET (1..N) |->
                               IF s = {} THEN 0 ELSE it[s \ {Max(s)}] + cs[o[Max(s)]].length]
           g == [i \in 1..N |-> [sum \in Nat |-> sum + cs[o[i]].length]]
<1>1. N \in Nat /\ DOMAIN o = 1..N /\ \A i \in 1..N : o[i] \in I
  BY LenProperties, ElementOfSeq
<1>2. \E it : IsIt(it)
  <2>1. \A i \in 1..N, sum \in Nat : sum + cs[o[i]].length \in Nat
    BY <1>1
  <2>2. g \in [1..N -> [Nat -> Nat]] /\ 0 \in Nat
    BY <2>1
  <2>3. \A i \in 1..N, sum \in Nat : g[i][sum] = sum + cs[o[i]].length
    OBVIOUS
  <2> HIDE DEF g, N
  <2>4. PICK it \in [SUBSET (1..N) -> Nat] : FoldsTo(it, N, 0, g)
    BY <1>1, <2>2, FoldGraph
  <2>5. ASSUME NEW s \in SUBSET (1..N), s # {}
        PROVE  it[s] = it[s \ {Max(s)}] + cs[o[Max(s)]].length
    <3>1. Max(s) \in 1..N
      BY <1>1, <2>5, PartMax
    <3>2. s \ {Max(s)} \in SUBSET (1..N)
      OBVIOUS
    <3>3. it[s] = g[Max(s)][it[s \ {Max(s)}]] /\ it[s \ {Max(s)}] \in Nat
      BY <2>4, <2>5, <3>2 DEF FoldsTo
    <3> QED BY <2>3, <3>1, <3>3
  <2>6. it[{}] = 0
    BY <2>4 DEF FoldsTo
  <2> QED BY <2>4, <2>5, <2>6
<1>3. Joined(cs, o) = (CHOOSE it : IsIt(it))[1..N]
  BY <1>1 DEF Joined, FoldLeft, MapThenFoldSet
<1>4. PICK it : IsIt(it) /\ Joined(cs, o) = it[1..N]
  <2> HIDE DEF IsIt
  <2> QED BY <1>2, <1>3
<1> DEFINE h == [k \in 0..N |-> it[1..k]]
<1>5. h[0] = 0 /\ h[N] = Joined(cs, o)
  <2>1. 1..0 = {} /\ 1..0 \in SUBSET (1..N) /\ 0 \in 0..N /\ N \in 0..N
    BY <1>1
  <2>2. it[{}] = 0
    BY <1>4, <2>1
  <2> QED BY <1>4, <2>1, <2>2
<1>6. ASSUME NEW k \in 1..N PROVE h[k] = h[k - 1] + cs[o[k]].length
  <2>1. /\ 1..k \in SUBSET (1..N) /\ 1..(k - 1) \in SUBSET (1..N)
        /\ Max(1..k) = k /\ (1..k) \ {k} = 1..(k - 1) /\ 1..k # {}
    BY <1>1, Prefix
  <2>2. it[1..k] = it[1..(k - 1)] + cs[o[k]].length
    BY <1>4, <2>1
  <2>3. k \in 0..N /\ k - 1 \in 0..N
    BY <1>1
  <2> QED BY <2>2, <2>3
<1> QED BY <1>5, <1>6 DEF AddsUp
-----------------------------------------------------------------------------
(* What the folds yield *)

DistinctTerms(q) == \A i, j \in DOMAIN q : q[i].lower = q[j].lower => i = j

\* x stands among the first k lines, before any other line of its lower case.
StandsFirst(ls, k, x) ==
  \E p \in 1..k : ls[p] = x /\ \A m \in 1..(p - 1) : ls[m].lower # ls[p].lower

\* What Terms has after k lines.
TermsOf(ls, k, q) ==
  /\ DistinctTerms(q)
  /\ \A i \in DOMAIN q : StandsFirst(ls, k, q[i])
  /\ \A p \in 1..k : ls[p].length # 0 => \E i \in DOMAIN q : q[i].lower = ls[p].lower

SameBlank(ls) ==
  \A i, j \in DOMAIN ls : ls[i].lower = ls[j].lower => (ls[i].length = 0 <=> ls[j].length = 0)

\* One more line: a new term, another spelling, or a blank.
LEMMA OneMoreLine ==
  ASSUME NEW S, NEW ls \in Seq(S), SameBlank(ls), NEW k \in Nat, k + 1 <= Len(ls),
         NEW q \in Seq(S), TermsOf(ls, k, q)
  PROVE  /\ WithTerm(q, ls[k + 1]) \in Seq(S)
         /\ TermsOf(ls, k + 1, WithTerm(q, ls[k + 1]))
<1> DEFINE l == ls[k + 1]
<1>1. /\ Len(ls) \in Nat /\ DOMAIN ls = 1..Len(ls) /\ l \in S
      /\ Len(q) \in Nat /\ DOMAIN q = 1..Len(q)
  BY LenProperties, ElementOfSeq
<1>2. \A x : StandsFirst(ls, k, x) => StandsFirst(ls, k + 1, x)
  BY DEF StandsFirst
<1>3. CASE l.length = 0 \/ \E i \in DOMAIN q : q[i].lower = l.lower
  <2>1. WithTerm(q, l) = q
    BY <1>3 DEF WithTerm
  <2>2. \A p \in 1..(k + 1) : p \in 1..k \/ p = k + 1
    OBVIOUS
  <2>3. TermsOf(ls, k + 1, q)
    BY <1>2, <1>3, <2>2 DEF TermsOf
  <2> QED BY <2>1, <2>3
<1>4. CASE l.length # 0 /\ \A i \in DOMAIN q : q[i].lower # l.lower
  <2> DEFINE r == Append(q, l)
  <2>1. WithTerm(q, l) = r
    BY <1>4 DEF WithTerm
  <2>2. /\ r \in Seq(S) /\ Len(r) = Len(q) + 1
        /\ \A i \in 1..Len(q) : r[i] = q[i]
        /\ r[Len(q) + 1] = l
    BY <1>1, AppendProperties
  <2>3. DOMAIN r = 1..(Len(q) + 1)
    BY <2>2, LenProperties
  <2> HIDE DEF r, l
  <2>4. \A i \in DOMAIN r : (i \in DOMAIN q /\ r[i] = q[i]) \/ (i = Len(q) + 1 /\ r[i] = l)
    BY <1>1, <2>2, <2>3
  <2>5. DistinctTerms(r)
    BY <1>4, <2>4 DEF DistinctTerms, TermsOf
  <2>6. StandsFirst(ls, k + 1, l)
    <3>1. ASSUME NEW m \in 1..k, ls[m].lower = l.lower PROVE FALSE
      <4>1. ls[m].length # 0
        BY <1>1, <1>4, <3>1 DEF SameBlank, l
      <4>2. \E i \in DOMAIN q : q[i].lower = l.lower
        BY <3>1, <4>1 DEF TermsOf
      <4> QED BY <1>4, <4>2
    <3>2. k + 1 \in 1..(k + 1) /\ ls[k + 1] = l /\ 1..(k + 1 - 1) = 1..k
      BY DEF l
    <3> QED BY <3>1, <3>2 DEF StandsFirst
  <2>7. \A i \in DOMAIN r : StandsFirst(ls, k + 1, r[i])
    BY <1>2, <2>4, <2>6 DEF TermsOf
  <2>8. ASSUME NEW p \in 1..(k + 1), ls[p].length # 0
        PROVE  \E i \in DOMAIN r : r[i].lower = ls[p].lower
    <3>1. CASE p \in 1..k
      BY <1>1, <2>2, <2>3, <2>8, <3>1 DEF TermsOf
    <3>2. CASE p = k + 1
      BY <1>1, <2>2, <2>3, <3>2 DEF l
    <3> QED BY <3>1, <3>2
  <2>9. TermsOf(ls, k + 1, r)
    BY <2>5, <2>7, <2>8 DEF TermsOf
  <2> QED BY <2>1, <2>2, <2>9 DEF l
<1> QED BY <1>3, <1>4

\* Terms holds the first spelling of every term, and nothing twice.
LEMMA TermsAre ==
  ASSUME NEW S, NEW ls \in Seq(S), SameBlank(ls)
  PROVE  /\ Terms(ls) \in Seq(S)
         /\ TermsOf(ls, Len(ls), Terms(ls))
<1>1. PICK h : /\ h[0] = <<>> /\ h[Len(ls)] = Terms(ls)
               /\ \A k \in 1..Len(ls) : h[k] = WithTerm(h[k - 1], ls[k])
  BY TermsSteps
<1>2. Len(ls) \in Nat
  BY LenProperties
<1> DEFINE K == {k \in Nat : k <= Len(ls) => h[k] \in Seq(S) /\ TermsOf(ls, k, h[k])}
<1>3. 0 \in K
  <2>1. DOMAIN <<>> = {} /\ <<>> \in Seq(S) /\ 1..0 = {}
    OBVIOUS
  <2>2. TermsOf(ls, 0, <<>>)
    BY <2>1 DEF TermsOf, DistinctTerms
  <2> QED BY <1>1, <2>1, <2>2
<1>4. ASSUME NEW k \in Nat, k \in K PROVE k + 1 \in K
  <2>1. SUFFICES ASSUME k + 1 <= Len(ls)
                 PROVE  h[k + 1] \in Seq(S) /\ TermsOf(ls, k + 1, h[k + 1])
    OBVIOUS
  <2>2. h[k] \in Seq(S) /\ TermsOf(ls, k, h[k])
    BY <1>2, <1>4, <2>1
  <2>3. h[k + 1] = WithTerm(h[k], ls[k + 1])
    <3>1. k + 1 \in 1..Len(ls) /\ k + 1 - 1 = k
      BY <1>2, <2>1
    <3> QED BY <1>1, <3>1
  <2> QED BY <2>1, <2>2, <2>3, OneMoreLine
<1>5. Len(ls) \in K
  <2> HIDE DEF K
  <2> QED BY <1>2, <1>3, <1>4, SetInduction
<1> QED BY <1>1, <1>2, <1>5

-----------------------------------------------------------------------------
(* Ranked *)

Ordinary(S) == \A x \in S : x.capitals \in Nat /\ x.spaced \in BOOLEAN

\* No term stands after a less important one.
InRank(q) == \A i, j \in DOMAIN q : i < j => ~Above(q[j], q[i])

\* What Ranked has after k terms.
RankedOf(ts, k, q) ==
  /\ InRank(q)
  /\ DistinctTerms(q)
  /\ \A i \in DOMAIN q : \E p \in 1..k : q[i] = ts[p]

\* Above is a strict weak order.
LEMMA AboveOrders ==
  ASSUME NEW S, Ordinary(S), NEW x \in S, NEW y \in S, NEW z \in S
  PROVE  /\ Above(x, y) => ~Above(y, x)
         /\ Above(x, y) => Above(x, z) \/ Above(z, y)
<1>1. /\ x.capitals \in Nat /\ x.spaced \in BOOLEAN
      /\ y.capitals \in Nat /\ y.spaced \in BOOLEAN
      /\ z.capitals \in Nat /\ z.spaced \in BOOLEAN
  BY DEF Ordinary
<1> QED BY <1>1 DEF Above

\* A set of places that holds every place before one of its own is the first so many.
LEMMA FirstPlaces ==
  ASSUME NEW N \in Nat, NEW A \in SUBSET (1..N),
         \A i, j \in 1..N : i < j /\ j \in A => i \in A
  PROVE  A = 1..Cardinality(A)
<1>1. CASE A = {}
  <2>1. Cardinality(A) = 0
    BY <1>1, FS_EmptySet
  <2> QED BY <1>1, <2>1
<1>2. CASE A # {}
  <2>1. Max(A) \in A /\ \A y \in A : y <= Max(A)
    BY <1>2, PartMax
  <2> DEFINE m == Max(A)
  <2> HIDE DEF m
  <2>2. m \in A /\ \A y \in A : y <= m
    BY <2>1 DEF m
  <2>3. m \in Nat /\ m \in 1..N
    BY <2>2
  <2>4. \A i \in 1..m : i \in A
    <3>1. SUFFICES ASSUME NEW i \in 1..m PROVE i \in A
      OBVIOUS
    <3>2. i \in 1..N /\ (i = m \/ i < m)
      BY <2>3
    <3> QED BY <2>2, <2>3, <3>2
  <2>5. A = 1..m
    <3>1. \A i \in A : i \in 1..m
      BY <2>2, <2>3
    <3> QED BY <2>4, <3>1
  <2>6. Cardinality(A) = m
    BY <2>3, <2>5, IntervalSize
  <2> QED BY <2>5, <2>6
<1> QED BY <1>1, <1>2

\* One more term goes behind those that are not below it.
LEMMA OneMoreTerm ==
  ASSUME NEW S, Ordinary(S), NEW ts \in Seq(S), DistinctTerms(ts),
         NEW k \in Nat, k + 1 <= Len(ts), NEW q \in Seq(S), RankedOf(ts, k, q)
  PROVE  RankedOf(ts, k + 1, WithRank(q, ts[k + 1]))
<1> DEFINE t == ts[k + 1]
           A == NotBelow(q, t)
           c == Cardinality(A)
           r == InsertAt(q, 1 + c, t)
<1>1. /\ Len(ts) \in Nat /\ DOMAIN ts = 1..Len(ts) /\ t \in S
      /\ Len(q) \in Nat /\ DOMAIN q = 1..Len(q) /\ \A i \in 1..Len(q) : q[i] \in S
  BY LenProperties, ElementOfSeq
<1>2. A \in SUBSET (1..Len(q)) /\ c \in 0..Len(q)
  BY NotBelowSize
<1>3. A = 1..c
  <2>1. ASSUME NEW i \in 1..Len(q), NEW j \in 1..Len(q), i < j, j \in A PROVE i \in A
    <3>1. ~Above(t, q[j]) /\ ~Above(q[j], q[i])
      BY <1>1, <2>1 DEF NotBelow, RankedOf, InRank
    <3>2. ~Above(t, q[i])
      BY <1>1, <3>1, AboveOrders
    <3> QED BY <1>1, <3>2 DEF NotBelow
  <2> HIDE DEF A
  <2> QED BY <1>1, <1>2, <2>1, FirstPlaces
<1>4. /\ r \in Seq(S) /\ Len(r) = Len(q) + 1
      /\ \A i \in 1..c : r[i] = q[i]
      /\ r[c + 1] = t
      /\ \A i \in (c + 2)..(Len(q) + 1) : r[i] = q[i - 1]
  <2>1. t \in S /\ c \in 0..Len(q)
    BY <1>1, <1>2
  <2> HIDE DEF c, t
  <2>2. r \in Seq(S) /\ Inserted(q, c, t, r)
    BY <2>1, InsertProperties
  <2> HIDE DEF r
  <2> QED BY <2>2 DEF Inserted
<1>5. DOMAIN r = 1..(Len(q) + 1)
  BY <1>4, LenProperties
<1>6. (\A i \in 1..c : ~Above(t, q[i])) /\ (\A i \in (c + 1)..Len(q) : Above(t, q[i]))
  <2>1. \A i \in 1..Len(q) : i \in A <=> ~Above(t, q[i])
    BY <1>1 DEF NotBelow
  <2> HIDE DEF A, t, c
  <2>2. \A i \in (c + 1)..Len(q) : i \in 1..Len(q) /\ i \notin 1..c
    BY <1>1, <1>2
  <2>3. \A i \in 1..c : i \in 1..Len(q)
    BY <1>1, <1>2
  <2> QED BY <1>3, <2>1, <2>2, <2>3
<1>7. r = WithRank(q, t)
  BY DEF WithRank
<1> HIDE DEF r, A, c, t
\* Every place of the new sequence is the new term or an old place.
<1> DEFINE old(i) == IF i <= c THEN i ELSE i - 1
<1>8. ASSUME NEW i \in DOMAIN r
      PROVE  \/ i = c + 1 /\ r[i] = t
             \/ i # c + 1 /\ old(i) \in 1..Len(q) /\ r[i] = q[old(i)]
  <2>1. CASE i <= c
    <3>1. i \in 1..c /\ i \in 1..Len(q) /\ i # c + 1
      BY <1>1, <1>2, <1>5, <2>1
    <3> QED BY <1>4, <2>1, <3>1
  <2>2. CASE i = c + 1
    BY <1>4, <2>2
  <2>3. CASE i > c + 1
    <3>1. i \in (c + 2)..(Len(q) + 1) /\ ~(i <= c) /\ i - 1 \in 1..Len(q) /\ i # c + 1
      BY <1>1, <1>2, <1>5, <2>3
    <3> QED BY <1>4, <3>1
  <2> QED BY <1>1, <1>2, <1>5, <2>1, <2>2, <2>3
<1>9. InRank(r)
  <2>1. SUFFICES ASSUME NEW i \in DOMAIN r, NEW j \in DOMAIN r, i < j
                 PROVE  ~Above(r[j], r[i])
    BY DEF InRank
  <2>2. c \in Nat /\ i \in Nat /\ j \in Nat
    BY <1>1, <1>2, <1>5
  <2>3. CASE i = c + 1
    <3>1. old(j) \in (c + 1)..Len(q) /\ r[j] = q[old(j)] /\ r[i] = t
      BY <1>1, <1>8, <2>1, <2>2, <2>3
    <3>2. Above(t, q[old(j)])
      BY <1>6, <3>1
    <3>3. q[old(j)] \in S
      BY <1>1, <2>2, <3>1
    <3> HIDE DEF old
    <3> QED BY <1>1, <3>1, <3>2, <3>3, AboveOrders
  <2>4. CASE j = c + 1
    <3>1. old(i) \in 1..c /\ r[i] = q[old(i)] /\ r[j] = t
      BY <1>1, <1>8, <2>1, <2>2, <2>4
    <3> QED BY <1>6, <3>1
  <2>5. CASE i # c + 1 /\ j # c + 1
    <3>1. /\ old(i) \in DOMAIN q /\ old(j) \in DOMAIN q /\ old(i) < old(j)
          /\ r[i] = q[old(i)] /\ r[j] = q[old(j)]
      BY <1>1, <1>8, <2>1, <2>2, <2>5
    <3> HIDE DEF old
    <3> QED BY <3>1 DEF RankedOf, InRank
  <2> QED BY <2>3, <2>4, <2>5
<1>10. \A i \in DOMAIN r : \E p \in 1..(k + 1) : r[i] = ts[p]
  <2>1. SUFFICES ASSUME NEW i \in DOMAIN r PROVE \E p \in 1..(k + 1) : r[i] = ts[p]
    OBVIOUS
  <2>2. CASE i = c + 1
    BY <1>8, <2>2 DEF t
  <2>3. CASE i # c + 1
    <3>1. old(i) \in DOMAIN q /\ r[i] = q[old(i)]
      BY <1>1, <1>8, <2>3
    <3> HIDE DEF old
    <3>2. PICK p \in 1..k : q[old(i)] = ts[p]
      BY <3>1 DEF RankedOf
    <3> QED BY <3>1, <3>2
  <2> QED BY <2>2, <2>3
<1>11. \A i \in DOMAIN q : q[i].lower # t.lower
  <2>1. SUFFICES ASSUME NEW i \in DOMAIN q PROVE q[i].lower # t.lower
    OBVIOUS
  <2>2. PICK p \in 1..k : q[i] = ts[p]
    BY DEF RankedOf
  <2>3. p \in DOMAIN ts /\ k + 1 \in DOMAIN ts /\ p # k + 1
    BY <1>1
  <2> QED BY <2>2, <2>3 DEF DistinctTerms, t
<1>12. DistinctTerms(r)
  <2>1. SUFFICES ASSUME NEW i \in DOMAIN r, NEW j \in DOMAIN r, r[i].lower = r[j].lower
                 PROVE  i = j
    BY DEF DistinctTerms
  <2>2. c \in Nat /\ i \in Nat /\ j \in Nat
    BY <1>1, <1>2, <1>5
  <2>3. CASE i = c + 1 \/ j = c + 1
    BY <1>1, <1>8, <1>11, <2>1, <2>3
  <2>4. CASE i # c + 1 /\ j # c + 1
    <3>1. /\ old(i) \in DOMAIN q /\ old(j) \in DOMAIN q
          /\ r[i] = q[old(i)] /\ r[j] = q[old(j)]
      BY <1>1, <1>8, <2>1, <2>4
    <3>2. old(i) = old(j)
      <4> HIDE DEF old
      <4> QED BY <2>1, <3>1 DEF RankedOf, DistinctTerms
    <3> QED BY <2>2, <2>4, <3>2
  <2> QED BY <2>3, <2>4
<1> QED BY <1>7, <1>9, <1>10, <1>12 DEF RankedOf, t

\* Ranked holds the terms by rank.
LEMMA RankedAre ==
  ASSUME NEW S, Ordinary(S), NEW ts \in Seq(S), DistinctTerms(ts)
  PROVE  /\ Ranked(ts) \in Seq(S)
         /\ RankedOf(ts, Len(ts), Ranked(ts))
<1>1. PICK h : /\ h[0] = <<>> /\ h[Len(ts)] = Ranked(ts)
               /\ \A k \in 1..Len(ts) : h[k] = WithRank(h[k - 1], ts[k])
  BY RankedSteps
<1>2. Len(ts) \in Nat /\ \A k \in 1..Len(ts) : ts[k] \in S
  BY LenProperties, ElementOfSeq
<1> DEFINE K == {k \in Nat : k <= Len(ts) => h[k] \in Seq(S) /\ RankedOf(ts, k, h[k])}
<1>3. 0 \in K
  <2>1. DOMAIN <<>> = {} /\ <<>> \in Seq(S)
    OBVIOUS
  <2>2. RankedOf(ts, 0, <<>>)
    BY <2>1 DEF RankedOf, DistinctTerms, InRank
  <2> QED BY <1>1, <2>1, <2>2
<1>4. ASSUME NEW k \in Nat, k \in K PROVE k + 1 \in K
  <2>1. SUFFICES ASSUME k + 1 <= Len(ts)
                 PROVE  h[k + 1] \in Seq(S) /\ RankedOf(ts, k + 1, h[k + 1])
    OBVIOUS
  <2>2. h[k] \in Seq(S) /\ RankedOf(ts, k, h[k])
    BY <1>2, <1>4, <2>1
  <2>3. h[k + 1] = WithRank(h[k], ts[k + 1]) /\ ts[k + 1] \in S
    <3>1. k + 1 \in 1..Len(ts) /\ k + 1 - 1 = k
      BY <1>2, <2>1
    <3> QED BY <1>1, <1>2, <3>1
  <2>4. h[k + 1] \in Seq(S)
    BY <2>2, <2>3, WithRankType
  <2>5. RankedOf(ts, k + 1, h[k + 1])
    BY <2>1, <2>2, <2>3, OneMoreTerm
  <2> QED BY <2>4, <2>5
<1>5. Len(ts) \in K
  <2> HIDE DEF K
  <2> QED BY <1>2, <1>3, <1>4, SetInduction
<1> QED BY <1>1, <1>2, <1>5
-----------------------------------------------------------------------------
(* The length of the terms taken *)

\* One more place adds the length of its term.
LEMMA JoinedAppend ==
  ASSUME NEW cs, NEW I, NEW o \in Seq(I), NEW x \in I, \A i \in I : cs[i].length \in Nat
  PROVE  /\ Joined(cs, o) \in Nat
         /\ Joined(cs, Append(o, x)) = Joined(cs, o) + cs[x].length
<1> DEFINE r == Append(o, x)
           N == Len(o)
<1>1. N \in Nat /\ \A k \in 1..N : o[k] \in I
  BY LenProperties, ElementOfSeq
<1>2. r \in Seq(I) /\ Len(r) = N + 1 /\ (\A k \in 1..N : r[k] = o[k]) /\ r[N + 1] = x
  BY AppendProperties
<1> HIDE DEF r
<1>3. PICK h : AddsUp(cs, o, h)
  BY JoinedSteps
<1>4. PICK j : AddsUp(cs, r, j)
  BY <1>2, JoinedSteps
<1>5. /\ h[0] = 0 /\ h[N] = Joined(cs, o)
      /\ \A k \in 1..N : h[k] = h[k - 1] + cs[o[k]].length
  BY <1>3 DEF AddsUp
<1>6. /\ j[0] = 0 /\ j[N + 1] = Joined(cs, r)
      /\ \A k \in 1..(N + 1) : j[k] = j[k - 1] + cs[r[k]].length
  BY <1>2, <1>4 DEF AddsUp
<1> HIDE DEF N
<1> DEFINE K == {k \in Nat : k <= N => h[k] \in Nat /\ j[k] = h[k]}
<1>7. 0 \in K
  BY <1>5, <1>6
<1>8. ASSUME NEW k \in Nat, k \in K PROVE k + 1 \in K
  <2>1. SUFFICES ASSUME k + 1 <= N PROVE h[k + 1] \in Nat /\ j[k + 1] = h[k + 1]
    OBVIOUS
  <2>2. /\ k + 1 \in 1..N /\ k + 1 \in 1..(N + 1) /\ k + 1 - 1 = k
        /\ h[k] \in Nat /\ j[k] = h[k]
    BY <1>1, <1>8, <2>1
  <2>3. /\ h[k + 1] = h[k] + cs[o[k + 1]].length
        /\ j[k + 1] = j[k] + cs[r[k + 1]].length
        /\ r[k + 1] = o[k + 1] /\ o[k + 1] \in I
    BY <1>1, <1>2, <1>5, <1>6, <2>2
  <2> QED BY <2>2, <2>3
<1>9. N \in K
  <2> HIDE DEF K
  <2> QED BY <1>1, <1>7, <1>8, SetInduction
<1>10. h[N] \in Nat /\ j[N] = h[N]
  BY <1>1, <1>9
<1>11. j[N + 1] = j[N] + cs[x].length
  <2> DEFINE m == N + 1
  <2>1. m = N + 1 /\ m \in 1..(N + 1) /\ m - 1 = N
    BY <1>1
  <2> HIDE DEF m
  <2>2. j[m] = j[m - 1] + cs[r[m]].length
    BY <1>6, <2>1
  <2> QED BY <1>2, <2>1, <2>2
<1> QED BY <1>5, <1>6, <1>10, <1>11 DEF r

\* The length of some terms is a number.
LEMMA JoinedType ==
  ASSUME NEW cs, NEW I, NEW o \in Seq(I), o # <<>>, \A i \in I : cs[i].length \in Nat
  PROVE  Joined(cs, o) \in Nat
<1>1. Len(o) \in Nat \ {0}
  BY EmptySeq
<1>2. o[1] \in I
  BY <1>1, ElementOfSeq
<1> QED BY <1>2, JoinedAppend

\* No term takes no room.
LEMMA JoinedNone ==
  ASSUME NEW cs
  PROVE  Joined(cs, <<>>) = 0
<1> DEFINE o == <<>>
           I == {}
<1>1. o \in Seq(I) /\ Len(o) = 0 /\ \A i \in I : cs[i].length \in Nat
  OBVIOUS
<1> HIDE DEF o, I
<1>2. PICK h : AddsUp(cs, o, h)
  BY <1>1, JoinedSteps
<1>3. Joined(cs, o) = 0
  BY <1>1, <1>2 DEF AddsUp
<1> QED BY <1>3 DEF o

-----------------------------------------------------------------------------
(* The selection *)

\* What the selection relies on: candidates in the order of their importance, no two
\* alike, each the first of its kind in the glossary.
Choice(cs, ls) ==
  /\ Len(cs) \in Nat /\ DOMAIN cs = 1..Len(cs)
  /\ \A i \in 1..Len(cs) : cs[i].length \in Nat
  /\ InRank(cs) /\ DistinctTerms(cs)
  /\ \A i \in 1..Len(cs) : StandsFirst(ls, Len(ls), cs[i])
  /\ DOMAIN ls = 1..Len(ls)

\* After the candidates before next: out has places of them, total is their length with
\* separators and within the limit; what was passed over does not fit any more, and
\* what was taken behind it is shorter.
Selected(cs) ==
  /\ next \in 1..(Len(cs) + 1)
  /\ out \in Seq(1..Len(cs))
  /\ \A k \in DOMAIN out : out[k] < next
  /\ total \in Nat /\ total <= Limit
  /\ total = Joined(cs, out) + 2 * Len(out)
  /\ \A i \in 1..(next - 1) \ ToSet(out) :
       /\ total + Size(cs[i]) > Limit
       /\ \A j \in ToSet(out) : i < j => cs[j].length < cs[i].length

PickInv ==
  /\ lines \in Glossaries
  /\ Choice(Candidates, lines)
  /\ Selected(Candidates)

\* What the selection chooses from.
LEMMA CandidatesAre ==
  ASSUME lines \in Glossaries
  PROVE  Choice(Candidates, lines)
<1> DEFINE ls == lines
           S == {ls[i] : i \in DOMAIN ls}
           ts == Terms(ls)
           cs == Ranked(ts)
<1>1. /\ ls \in Seq(S) /\ SameBlank(ls)
      /\ \A i \in DOMAIN ls :
           ls[i].capitals \in Nat /\ ls[i].spaced \in BOOLEAN /\ ls[i].length \in Nat
  BY HotwordsAssumption DEF SameBlank
<1>2. Ordinary(S) /\ \A x \in S : x.length \in Nat
  BY <1>1 DEF Ordinary
<1>3. Len(ls) \in Nat /\ DOMAIN ls = 1..Len(ls)
  BY <1>1, LenProperties
<1> HIDE DEF S
<1>4. ts \in Seq(S) /\ TermsOf(ls, Len(ls), ts)
  BY <1>1, TermsAre
<1> HIDE DEF ts
<1>5. cs \in Seq(S) /\ RankedOf(ts, Len(ts), cs)
  BY <1>2, <1>4, RankedAre DEF TermsOf
<1> HIDE DEF cs
<1>6. /\ Len(cs) \in Nat /\ DOMAIN cs = 1..Len(cs) /\ \A i \in 1..Len(cs) : cs[i] \in S
      /\ DOMAIN ts = 1..Len(ts)
  BY <1>4, <1>5, LenProperties, ElementOfSeq
<1>7. \A i \in 1..Len(cs) : StandsFirst(ls, Len(ls), cs[i])
  BY <1>4, <1>5, <1>6 DEF TermsOf, RankedOf
<1>8. Choice(cs, ls)
  BY <1>2, <1>3, <1>5, <1>6, <1>7 DEF Choice, RankedOf
<1> QED BY <1>8 DEF Candidates, cs, ts

\* Nothing is chosen yet.
LEMMA PickStarts == PickInit => PickInv
<1> SUFFICES ASSUME PickInit PROVE PickInv
  OBVIOUS
<1>1. lines \in Glossaries /\ next = 1 /\ out = <<>> /\ total = 0
  BY DEF PickInit
<1>2. Choice(Candidates, lines)
  BY <1>1, CandidatesAre
<1> DEFINE cs == Candidates
<1> HIDE DEF cs
<1>3. Len(cs) \in Nat
  BY <1>2 DEF cs, Choice
<1>4. Joined(cs, out) = 0 /\ Len(out) = 0 /\ DOMAIN out = {} /\ out \in Seq(1..Len(cs))
  BY <1>1, JoinedNone
<1>5. Selected(cs)
  BY <1>1, <1>3, <1>4, HotwordsAssumption DEF Selected
<1> QED BY <1>1, <1>2, <1>5 DEF PickInv, cs

\* Taking one more.
LEMMA TakeSelects ==
  ASSUME NEW cs, NEW ls, Choice(cs, ls), Selected(cs),
         next <= Len(cs), total + Size(cs[next]) <= Limit,
         out' = Append(out, next), total' = total + Size(cs[next]), next' = next + 1
  PROVE  Selected(cs)'
<1>1. /\ Len(cs) \in Nat /\ \A i \in 1..Len(cs) : cs[i].length \in Nat
      /\ next \in 1..Len(cs) /\ out \in Seq(1..Len(cs)) /\ total \in Nat /\ Limit \in Nat
  BY HotwordsAssumption DEF Choice, Selected
<1>2. /\ out' \in Seq(1..Len(cs)) /\ Len(out') = Len(out) + 1
      /\ \A k \in 1..Len(out) : out'[k] = out[k]
      /\ out'[Len(out) + 1] = next
  BY <1>1, AppendProperties
<1>3. Len(out) \in Nat /\ DOMAIN out = 1..Len(out) /\ DOMAIN out' = 1..(Len(out) + 1)
  BY <1>1, <1>2, LenProperties
<1>4. Joined(cs, out) \in Nat /\ Joined(cs, out') = Joined(cs, out) + cs[next].length
  BY <1>1, JoinedAppend
<1>5. ToSet(out') = ToSet(out) \cup {next}
  <2>1. \A k \in DOMAIN out' : (k \in DOMAIN out /\ out'[k] = out[k]) \/ out'[k] = next
    BY <1>2, <1>3, SMTT(30)
  <2>2. \A k \in DOMAIN out : k \in DOMAIN out' /\ out'[k] = out[k]
    BY <1>2, <1>3
  <2>3. Len(out) + 1 \in DOMAIN out'
    BY <1>3
  <2> QED BY <1>2, <2>1, <2>2, <2>3 DEF ToSet
<1>6. Size(cs[next]) = cs[next].length + 2 /\ cs[next].length \in Nat
  BY <1>1 DEF Size
<1>7. next' \in 1..(Len(cs) + 1) /\ \A k \in DOMAIN out' : out'[k] < next'
  <2>1. SUFFICES ASSUME NEW k \in DOMAIN out' PROVE out'[k] < next'
    BY <1>1
  <2>2. CASE k \in DOMAIN out
    <3>1. out[k] < next /\ out'[k] = out[k] /\ out[k] \in 1..Len(cs)
      BY <1>1, <1>2, <1>3, <2>2, ElementOfSeq DEF Selected
    <3> QED BY <1>1, <3>1
  <2>3. CASE k \notin DOMAIN out
    BY <1>1, <1>2, <1>3, <2>3
  <2> QED BY <2>2, <2>3
<1>8. total' \in Nat /\ total' <= Limit /\ total' = Joined(cs, out') + 2 * Len(out')
  <2>1. total = Joined(cs, out) + 2 * Len(out)
    BY DEF Selected
  <2> QED BY <1>1, <1>2, <1>3, <1>4, <1>6, <2>1, SMTT(30)
<1>9. ASSUME NEW i \in 1..(next' - 1) \ ToSet(out')
      PROVE  /\ total' + Size(cs[i]) > Limit
             /\ \A j \in ToSet(out') : i < j => cs[j].length < cs[i].length
  <2>1. i \in 1..(next - 1) \ ToSet(out) /\ i \in 1..Len(cs)
    BY <1>1, <1>5, <1>9
  <2>2. /\ total + Size(cs[i]) > Limit
        /\ \A j \in ToSet(out) : i < j => cs[j].length < cs[i].length
    BY <2>1 DEF Selected
  <2>3. Size(cs[i]) = cs[i].length + 2 /\ cs[i].length \in Nat
    BY <1>1, <2>1 DEF Size
  <2>4. cs[next].length < cs[i].length /\ total' + Size(cs[i]) > Limit
    <3> DEFINE a == cs[next].length
               b == cs[i].length
    <3>1. total + (a + 2) <= Limit /\ total' = total + (a + 2) /\ total + (b + 2) > Limit
      BY <1>6, <2>2, <2>3
    <3>2. total \in Nat /\ Limit \in Nat /\ a \in Nat /\ b \in Nat /\ Size(cs[i]) = b + 2
      BY <1>1, <1>6, <2>3
    <3> HIDE DEF a, b
    <3>3. a < b /\ total' + (b + 2) > Limit
      BY <3>1, <3>2
    <3> QED BY <3>2, <3>3 DEF a, b
  <2> QED BY <1>5, <2>2, <2>4
<1> QED BY <1>2, <1>7, <1>8, <1>9 DEF Selected

\* Passing one over.
LEMMA SkipSelects ==
  ASSUME NEW cs, NEW ls, Choice(cs, ls), Selected(cs),
         next <= Len(cs), total + Size(cs[next]) > Limit,
         out' = out, total' = total, next' = next + 1
  PROVE  Selected(cs)'
<1>1. /\ Len(cs) \in Nat /\ next \in 1..Len(cs) /\ out \in Seq(1..Len(cs))
  BY DEF Choice, Selected
<1>2. Len(out) \in Nat /\ DOMAIN out = 1..Len(out) /\ \A k \in DOMAIN out : out[k] \in 1..Len(cs)
  BY <1>1, LenProperties, ElementOfSeq
<1>3. next' \in 1..(Len(cs) + 1) /\ \A k \in DOMAIN out' : out'[k] < next'
  BY <1>1, <1>2 DEF Selected
<1>4. ASSUME NEW i \in 1..(next' - 1) \ ToSet(out)
      PROVE  /\ total + Size(cs[i]) > Limit
             /\ \A j \in ToSet(out) : i < j => cs[j].length < cs[i].length
  <2>1. CASE i = next
    <3>1. \A j \in ToSet(out) : j < next /\ j \in Nat
      BY <1>1, <1>2 DEF Selected, ToSet
    <3> QED BY <1>1, <2>1, <3>1
  <2>2. CASE i # next
    <3>1. i \in 1..(next - 1) \ ToSet(out)
      BY <1>1, <1>4, <2>2
    <3> QED BY <3>1 DEF Selected
  <2> QED BY <2>1, <2>2
<1> QED BY <1>3, <1>4 DEF Selected

\* A candidate is taken, or passed over for want of room.
LEMMA PickKeeps == PickInv /\ [PickNext]_pickVars => PickInv'
<1> SUFFICES ASSUME PickInv, [PickNext]_pickVars PROVE PickInv'
  OBVIOUS
<1> DEFINE cs == Candidates
<1>1. lines \in Glossaries /\ Choice(cs, lines) /\ Selected(cs)
  BY DEF PickInv
<1>2. lines' = lines
  BY DEF PickNext, Take, Skip, pickVars
<1>3. Candidates' = cs
  BY <1>2 DEF Candidates
<1> HIDE DEF cs
<1>4. CASE Take
  <2>1. /\ next <= Len(cs) /\ total + Size(cs[next]) <= Limit
        /\ out' = Append(out, next) /\ total' = total + Size(cs[next]) /\ next' = next + 1
    BY <1>4 DEF Take, cs
  <2> QED BY <1>1, <1>2, <1>3, <2>1, TakeSelects DEF PickInv, Selected, Choice
<1>5. CASE Skip
  <2>1. /\ next <= Len(cs) /\ total + Size(cs[next]) > Limit
        /\ out' = out /\ total' = total /\ next' = next + 1
    BY <1>5 DEF Skip, cs
  <2> QED BY <1>1, <1>2, <1>3, <2>1, SkipSelects DEF PickInv, Selected, Choice
<1>6. CASE UNCHANGED pickVars
  BY <1>1, <1>2, <1>3, <1>6 DEF PickInv, Selected, Choice, pickVars
<1> QED BY <1>4, <1>5, <1>6 DEF PickNext

\* So it is throughout the selection.
LEMMA PickInvariant == PickSpec => []PickInv
BY PickStarts, PickKeeps, PTL DEF PickSpec

-----------------------------------------------------------------------------
(* Theorems *)

\* The joined hotwords are never longer than the limit: total counts every term and a
\* separator behind each.
THEOREM FitsTheLimit == PickSpec => []WithinLimit
<1>1. PickInv => WithinLimit
  <2> SUFFICES ASSUME PickInv PROVE WithinLimit
    OBVIOUS
  <2> DEFINE cs == Candidates
  <2>1. /\ out \in Seq(1..Len(cs)) /\ total \in Nat /\ total <= Limit
        /\ total = Joined(cs, out) + 2 * Len(out)
        /\ \A i \in 1..Len(cs) : cs[i].length \in Nat
    BY DEF PickInv, Selected, Choice
  <2>2. Len(out) \in Nat /\ (out = <<>> => Len(out) = 0)
    BY <2>1, LenProperties
  <2>3. Joined(cs, out) \in Int
    <3>1. CASE out = <<>>
      BY <3>1, JoinedNone
    <3>2. CASE out # <<>>
      BY <2>1, <2>2, <3>2, JoinedType
    <3> QED BY <3>1, <3>2
  <2>4. WithinLimit <=> Joined(cs, out) + (IF out = <<>> THEN 0 ELSE 2 * (Len(out) - 1)) <= Limit
    BY DEF WithinLimit, JoinedSize, Joined, cs
  <2> HIDE DEF cs
  <2> QED BY <2>1, <2>2, <2>3, <2>4, HotwordsAssumption
<1> QED BY <1>1, PickInvariant, PTL

\* At the end no term that is left out could be joined to those taken and leave two
\* characters of the limit, and a term stands aside for a less important one only when
\* that is shorter.
THEOREM LeftOutForWantOfRoom == PickSpec => []LeftOutForLength
<1>1. PickInv => LeftOutForLength
  <2> SUFFICES ASSUME PickInv, next > Len(Candidates),
                      NEW i \in DOMAIN Candidates \ Picked
               PROVE  /\ JoinedSize(Append(out, i)) + 2 > Limit
                      /\ \A j \in Picked : Above(Candidates[i], Candidates[j]) =>
                                             Candidates[j].length < Candidates[i].length
    BY DEF LeftOutForLength
  <2> DEFINE cs == Candidates
  <2>1. Choice(cs, lines) /\ Selected(cs)
    BY DEF PickInv
  <2>2. i \in DOMAIN cs \ ToSet(out) /\ next > Len(cs)
    BY DEF Picked
  <2>0. \A o : JoinedSize(o) = Joined(cs, o) + (IF o = <<>> THEN 0 ELSE 2 * (Len(o) - 1))
    BY DEF JoinedSize, Joined, cs
  <2> HIDE DEF cs
  <2>3. i \in 1..(next - 1) \ ToSet(out) /\ i \in DOMAIN cs
    BY <2>1, <2>2 DEF Choice, Selected
  <2>4. /\ total + Size(cs[i]) > Limit
        /\ \A j \in ToSet(out) : i < j => cs[j].length < cs[i].length
    BY <2>1, <2>3 DEF Selected
  <2>5. ASSUME NEW j \in ToSet(out), Above(cs[i], cs[j]) PROVE i < j
    <3>1. j \in 1..Len(cs) /\ j # i /\ DOMAIN cs = 1..Len(cs) /\ Len(cs) \in Nat
      <4>1. out \in Seq(1..Len(cs)) /\ Len(cs) \in Nat /\ DOMAIN cs = 1..Len(cs)
        BY <2>1 DEF Selected, Choice
      <4>2. \A k \in DOMAIN out : out[k] \in 1..Len(cs)
        BY <4>1, LenProperties, ElementOfSeq
      <4> QED BY <2>2, <4>1, <4>2 DEF ToSet
    <3>2. ~(j < i)
      BY <2>1, <2>3, <2>5, <3>1 DEF Choice, InRank
    <3> QED BY <2>3, <3>1, <3>2
  <2>6. JoinedSize(Append(out, i)) + 2 > Limit
    <3> DEFINE o == Append(out, i)
    <3>1. /\ out \in Seq(1..Len(cs)) /\ i \in 1..Len(cs) /\ Len(cs) \in Nat
          /\ \A k \in 1..Len(cs) : cs[k].length \in Nat
          /\ total = Joined(cs, out) + 2 * Len(out)
      BY <2>1, <2>3 DEF Selected, Choice
    <3>2. Joined(cs, out) \in Nat /\ Joined(cs, o) = Joined(cs, out) + cs[i].length
      BY <3>1, JoinedAppend
    <3>3. Len(o) = Len(out) + 1 /\ Len(out) \in Nat /\ o # <<>>
      BY <3>1, AppendProperties, LenProperties
    <3>4. cs[i].length \in Nat /\ total + (cs[i].length + 2) > Limit /\ Limit \in Nat
      BY <2>4, <3>1, HotwordsAssumption DEF Size
    <3>5. JoinedSize(o) = Joined(cs, o) + 2 * Len(out)
      <4>1. JoinedSize(o) = Joined(cs, o) + 2 * (Len(o) - 1)
        BY <2>0, <3>3
      <4> QED BY <3>3, <4>1
    <3> QED BY <3>1, <3>2, <3>3, <3>4, <3>5
  <2> QED BY <2>4, <2>5, <2>6 DEF cs, Picked
<1> QED BY <1>1, PickInvariant, PTL

\* Of spellings that differ in case only, the first in the glossary is the one taken.
THEOREM FirstSpellingCounts == PickSpec => []FirstSpelling
<1>1. PickInv => FirstSpelling
  <2> SUFFICES ASSUME PickInv PROVE FirstSpelling
    OBVIOUS
  <2> DEFINE cs == Candidates
  <2>1. Choice(cs, lines) /\ Selected(cs)
    BY DEF PickInv
  <2> HIDE DEF cs
  <2>2. \A i \in ToSet(out) : i \in 1..Len(cs) /\ i \in DOMAIN cs
    <3>1. out \in Seq(1..Len(cs)) /\ DOMAIN cs = 1..Len(cs)
      BY <2>1 DEF Selected, Choice
    <3>2. \A k \in DOMAIN out : out[k] \in 1..Len(cs)
      BY <3>1, LenProperties, ElementOfSeq
    <3> QED BY <3>1, <3>2 DEF ToSet
  <2>3. ASSUME NEW i \in ToSet(out)
        PROVE  /\ \A j \in ToSet(out) : cs[i].lower = cs[j].lower => i = j
               /\ \E k \in DOMAIN lines :
                    lines[k] = cs[i] /\ \A m \in 1..(k - 1) : lines[m].lower # lines[k].lower
    BY <2>1, <2>2 DEF Choice, DistinctTerms, StandsFirst
  <2> QED BY <2>3 DEF FirstSpelling, Picked, cs
<1> QED BY <1>1, PickInvariant, PTL
=============================================================================
