------------------------- MODULE SpeakerMerge_proofs -------------------------
(***************************************************************************)
(* Theorems about SpeakerMerge, for every recording and every answer of    *)
(* the recogniser: the loop of _apply_min_segment comes to an end, only    *)
(* words of fragments too short change their speaker, names follow the     *)
(* order of speaking, and, when the words follow each other, clips are of  *)
(* one voice.  How the turns are glued and matched is left open: what Fill *)
(* makes of any assignment of speakers to timed words is enough.           *)
(***************************************************************************)
EXTENDS SpeakerMerge, FoldTheorems, FunctionTheorems

-----------------------------------------------------------------------------
(* Runs *)

\* A labelling of n words.
Labels(ls, n) == ls = [i \in 1..n |-> ls[i]]

\* A labelling is a sequence.
LEMMA LabelsSeq ==
  ASSUME NEW n \in Nat, NEW ls, Labels(ls, n)
  PROVE  DOMAIN ls = 1..n /\ Len(ls) = n
<1> DEFINE S == {ls[i] : i \in 1..n}
<1>1. DOMAIN ls = 1..n
  BY DEF Labels
<1>2. ls \in [1..n -> S]
  BY DEF Labels
<1>3. ls \in Seq(S)
  BY <1>2, SeqDef
<1>4. Len(ls) \in Nat /\ DOMAIN ls = 1..Len(ls)
  <2> HIDE DEF S
  <2> QED BY <1>3, LenProperties
<1> QED BY <1>1, <1>4

\* What a run is.
LEMMA RunOf ==
  ASSUME NEW n \in Nat, NEW ls, Labels(ls, n), NEW r \in Runs(ls)
  PROVE  /\ r = <<r[1], r[2]>>
         /\ r[1] \in 1..n /\ r[2] \in 1..n /\ r[1] <= r[2]
         /\ \A i \in r[1]..r[2] : ls[i] = ls[r[1]]
         /\ r[1] = 1 \/ ls[r[1] - 1] # ls[r[1]]
         /\ r[2] = n \/ ls[r[2] + 1] # ls[r[1]]
<1>1. DOMAIN ls = 1..n /\ Len(ls) = n
  BY LabelsSeq
<1> QED BY <1>1 DEF Runs

\* And what makes one.
LEMMA RunIntro ==
  ASSUME NEW n \in Nat, NEW ls, Labels(ls, n), NEW a \in 1..n, NEW b \in 1..n, a <= b,
         \A i \in a..b : ls[i] = ls[a],
         a = 1 \/ ls[a - 1] # ls[a],
         b = n \/ ls[b + 1] # ls[a]
  PROVE  <<a, b>> \in Runs(ls)
<1>1. DOMAIN ls = 1..n /\ Len(ls) = n
  BY LabelsSeq
<1> QED BY <1>1 DEF Runs

\* Where runs begin.
Begins(ls) == {i \in DOMAIN ls : i = 1 \/ ls[i - 1] # ls[i]}

\* At every such place one run begins.
LEMMA RunFrom ==
  ASSUME NEW n \in Nat, NEW ls, Labels(ls, n), NEW a \in Begins(ls)
  PROVE  \E b \in 1..n : <<a, b>> \in Runs(ls)
<1> DEFINE E == {j \in 1..n : a <= j /\ (j = n \/ ls[j + 1] # ls[a])}
<1>1. a \in 1..n /\ (a = 1 \/ ls[a - 1] # ls[a])
  BY LabelsSeq DEF Begins
<1>2. n \in E
  BY <1>1
<1>3. IsFiniteSet(E) /\ E \in SUBSET Int
  <2>1. E \in SUBSET (1..n)
    OBVIOUS
  <2> HIDE DEF E
  <2> QED BY <2>1, PartOfInterval
<1>4. PICK b \in E : \A j \in E : b <= j
  <2> HIDE DEF E
  <2> QED BY <1>2, <1>3, MinIs
<1>5. ASSUME NEW i \in a..b PROVE ls[i] = ls[a]
  <2>1. CASE i = a
    BY <2>1
  <2>2. CASE i > a
    <3>1. i - 1 \in 1..n /\ a <= i - 1 /\ i - 1 < b
      BY <1>1, <1>4, <1>5, <2>2
    <3>2. i - 1 \notin E
      BY <1>4, <3>1
    <3> QED BY <3>1, <3>2
  <2> QED BY <1>1, <1>5, <2>1, <2>2
<1> QED BY <1>1, <1>4, <1>5, RunIntro

\* Two runs that begin in the same place are one.
LEMMA OneRunFrom ==
  ASSUME NEW n \in Nat, NEW ls, Labels(ls, n), NEW r \in Runs(ls), NEW q \in Runs(ls),
         r[1] = q[1]
  PROVE  r = q
<1>1. ASSUME NEW x \in Runs(ls), NEW y \in Runs(ls), x[1] = y[1], x[2] < y[2]
      PROVE  FALSE
  <2>1. x[2] + 1 \in y[1]..y[2] /\ x[2] # n
    BY <1>1, RunOf
  <2>2. ls[x[2] + 1] = ls[y[1]]
    BY <2>1, RunOf
  <2> QED BY <1>1, <2>1, <2>2, RunOf
<1>2. r[2] = q[2]
  BY <1>1, RunOf
<1> QED BY <1>2, RunOf

\* So there are as many runs as places where one begins.
LEMMA CountRuns ==
  ASSUME NEW n \in Nat, NEW ls, Labels(ls, n)
  PROVE  /\ IsFiniteSet(Runs(ls)) /\ IsFiniteSet(Begins(ls))
         /\ Cardinality(Runs(ls)) = Cardinality(Begins(ls))
<1> DEFINE f == [r \in Runs(ls) |-> r[1]]
<1>1. Begins(ls) \in SUBSET (1..n)
  BY LabelsSeq DEF Begins
<1>2. IsFiniteSet(Begins(ls))
  BY <1>1, PartOfInterval
<1>3. f \in [Runs(ls) -> Begins(ls)]
  <2>1. ASSUME NEW r \in Runs(ls) PROVE r[1] \in Begins(ls)
    BY LabelsSeq, RunOf DEF Begins
  <2> QED BY <2>1
<1>4. \A r, q \in Runs(ls) : f[r] = f[q] => r = q
  BY OneRunFrom
<1>5. \A a \in Begins(ls) : \E r \in Runs(ls) : f[r] = a
  <2>1. ASSUME NEW a \in Begins(ls) PROVE \E r \in Runs(ls) : r[1] = a
    <3>1. PICK b \in 1..n : <<a, b>> \in Runs(ls)
      BY RunFrom
    <3>2. <<a, b>>[1] = a
      OBVIOUS
    <3> QED BY <3>1, <3>2
  <2> QED BY <2>1
<1>6. f \in Injection(Runs(ls), Begins(ls)) /\ f \in Surjection(Runs(ls), Begins(ls))
  <2> HIDE DEF f
  <2>1. f \in Injection(Runs(ls), Begins(ls))
    BY <1>3, <1>4, Fun_IsInj
  <2>2. f \in Surjection(Runs(ls), Begins(ls))
    BY <1>3, <1>5, Fun_IsSurj
  <2> QED BY <2>1, <2>2
<1>7. IsFiniteSet(Runs(ls)) /\ Cardinality(Runs(ls)) = Cardinality(Begins(ls))
  <2> HIDE DEF f
  <2> QED BY <1>2, <1>6, FS_Injection
<1> QED BY <1>2, <1>7

-----------------------------------------------------------------------------
(* One pass of the loop *)

\* The place next to a run whose speaker gets its words.
LEMMA GivenAway ==
  ASSUME NEW n \in Nat, NEW ls, Labels(ls, n), NEW r \in Runs(ls)
  PROVE  /\ Labels(GiveAway(ls, r), n)
         /\ \A i \in 1..n :
              GiveAway(ls, r)[i] = IF i \in r[1]..r[2]
                                   THEN IF r[1] > 1 THEN ls[r[1] - 1] ELSE ls[r[2] + 1]
                                   ELSE ls[i]
<1>1. DOMAIN ls = 1..n
  BY LabelsSeq
<1> QED BY <1>1 DEF GiveAway, Labels

\* No run begins where none began, and one place less begins a run: that of the run given
\* away, or of the one after it when it was the first.
LEMMA BeginsShrink ==
  ASSUME NEW n \in Nat, NEW ls, Labels(ls, n), NEW r \in Runs(ls),
         r[1] > 1 \/ r[2] < n
  PROVE  /\ Begins(GiveAway(ls, r)) \subseteq Begins(ls)
         /\ Begins(GiveAway(ls, r)) # Begins(ls)
<1> DEFINE new == GiveAway(ls, r)
           x == IF r[1] > 1 THEN r[1] ELSE r[2] + 1
<1>1. /\ Labels(new, n) /\ DOMAIN new = 1..n /\ DOMAIN ls = 1..n
      /\ \A i \in 1..n :
           new[i] = IF i \in r[1]..r[2]
                    THEN IF r[1] > 1 THEN ls[r[1] - 1] ELSE ls[r[2] + 1]
                    ELSE ls[i]
  BY GivenAway, LabelsSeq
<1>2. /\ r[1] \in 1..n /\ r[2] \in 1..n /\ r[1] <= r[2]
      /\ \A i \in r[1]..r[2] : ls[i] = ls[r[1]]
      /\ r[1] = 1 \/ ls[r[1] - 1] # ls[r[1]]
      /\ r[2] = n \/ ls[r[2] + 1] # ls[r[1]]
  BY RunOf
<1> HIDE DEF new
<1>3. x \in Begins(ls) /\ x \notin Begins(new)
  <2>1. CASE r[1] > 1
    BY <1>1, <1>2, <2>1 DEF Begins
  <2>2. CASE r[1] = 1
    <3>1. x \in 1..n /\ x # 1 /\ x - 1 = r[2] /\ x \notin r[1]..r[2] /\ r[2] \in r[1]..r[2]
      BY <1>2, <2>2
    <3>2. ls[x] # ls[x - 1]
      BY <1>2, <2>2, <3>1
    <3>3. new[x] = new[x - 1]
      BY <1>1, <2>2, <3>1
    <3> QED BY <1>1, <3>1, <3>2, <3>3 DEF Begins
  <2> QED BY <1>2, <2>1, <2>2
<1>4. ASSUME NEW i \in Begins(new) PROVE i \in Begins(ls)
  <2>1. i \in 1..n /\ (i = 1 \/ (i - 1 \in 1..n /\ new[i - 1] # new[i]))
    BY <1>1, <1>4 DEF Begins
  <2>2. CASE i = 1
    BY <1>1, <2>1, <2>2 DEF Begins
  <2>3. CASE i # 1 /\ i \in r[1]..r[2]
    <3>1. i - 1 \notin r[1]..r[2]
      BY <1>1, <2>1, <2>3
    <3>2. i = r[1]
      BY <1>2, <2>1, <2>3, <3>1
    <3> QED BY <1>1, <1>2, <2>1, <2>3, <3>2 DEF Begins
  <2>4. CASE i # 1 /\ i \notin r[1]..r[2] /\ i - 1 \in r[1]..r[2]
    <3>1. i = r[2] + 1 /\ i - 1 = r[2]
      BY <1>2, <2>1, <2>4
    <3>2. ls[i - 1] = ls[r[1]] /\ ls[i] # ls[r[1]]
      BY <1>2, <2>1, <2>4, <3>1
    <3> QED BY <1>1, <2>1, <3>2 DEF Begins
  <2>5. CASE i # 1 /\ i \notin r[1]..r[2] /\ i - 1 \notin r[1]..r[2]
    BY <1>1, <2>1, <2>5 DEF Begins
  <2> QED BY <2>2, <2>3, <2>4, <2>5
<1> QED BY <1>3, <1>4 DEF new

\* So a pass of the loop leaves fewer runs.
LEMMA GiveAwayShrinks ==
  ASSUME NEW n \in Nat, NEW ls, Labels(ls, n), NEW r \in Runs(ls), Cardinality(Runs(ls)) > 1
  PROVE  Cardinality(Runs(GiveAway(ls, r))) < Cardinality(Runs(ls))
<1> DEFINE new == GiveAway(ls, r)
<1>1. r[1] > 1 \/ r[2] < n
  <2>1. SUFFICES ASSUME r[1] = 1, r[2] = n PROVE FALSE
    BY RunOf
  <2>2. ASSUME NEW q \in Runs(ls) PROVE q = r
    <3>1. q[1] \in r[1]..r[2] /\ (q[1] - 1 \in r[1]..r[2] \/ q[1] = 1)
      BY <2>1, RunOf
    <3>2. q[1] = 1
      <4>1. q[1] = 1 \/ ls[q[1] - 1] # ls[q[1]]
        BY RunOf
      <4>2. \A i \in r[1]..r[2] : ls[i] = ls[r[1]]
        BY RunOf
      <4> QED BY <3>1, <4>1, <4>2
    <3> QED BY <2>1, <3>2, OneRunFrom
  <2>3. Runs(ls) = {r}
    BY <2>2
  <2>4. Cardinality({r}) = 1
    BY FS_Singleton, Zenon
  <2> QED BY <2>3, <2>4
<1>2. Labels(new, n)
  BY GivenAway
<1>3. Begins(new) \subseteq Begins(ls) /\ Begins(new) # Begins(ls)
  BY <1>1, BeginsShrink
<1> HIDE DEF new
<1>4. /\ IsFiniteSet(Begins(ls))
      /\ Cardinality(Runs(ls)) = Cardinality(Begins(ls))
      /\ Cardinality(Runs(new)) = Cardinality(Begins(new))
  BY <1>2, CountRuns
<1>5. /\ Cardinality(Begins(new)) <= Cardinality(Begins(ls))
      /\ Cardinality(Begins(new)) # Cardinality(Begins(ls))
  BY <1>3, <1>4, FS_Subset
<1>6. Cardinality(Begins(new)) \in Nat /\ Cardinality(Begins(ls)) \in Nat
  BY <1>3, <1>4, FS_Subset, FS_CardinalityType
<1> QED BY <1>4, <1>5, <1>6 DEF new

-----------------------------------------------------------------------------
(* The invariant: labellings of the words *)

WordInv ==
  /\ Len(words) \in Nat /\ DOMAIN words = 1..Len(words)
  /\ \A i \in DOMAIN words : words[i] \in [timed : BOOLEAN, start : Int, end : Int]
  /\ stage \in {"assign", "shorten", "done"}
  /\ stage # "assign" => Labels(filled, Len(words)) /\ Labels(labels, Len(words))

\* MergeInit: the words are what the recording has.
LEMMA InitWordInv == MergeInit => WordInv
<1> SUFFICES ASSUME MergeInit PROVE WordInv
  OBVIOUS
<1> DEFINE Word == [timed : BOOLEAN, start : Int, end : Int]
<1>1. words \in Seq(Word)
  BY MergeAssumption DEF MergeInit
<1>2. stage = "assign"
  BY DEF MergeInit
<1> HIDE DEF Word
<1>3. Len(words) \in Nat /\ DOMAIN words = 1..Len(words) /\ \A i \in DOMAIN words : words[i] \in Word
  BY <1>1, LenProperties, ElementOfSeq
<1> QED BY <1>2, <1>3 DEF WordInv, Word

\* No step takes or adds a word.
LEMMA StepWordInv == WordInv /\ [MergeNext]_mergeVars => WordInv'
<1> SUFFICES ASSUME WordInv, [MergeNext]_mergeVars PROVE WordInv'
  OBVIOUS
<1> DEFINE n == Len(words)
<1>1. CASE Assign
  <2>1. UNCHANGED words /\ stage' = "shorten" /\ labels' = filled'
    BY <1>1 DEF Assign
  <2>2. Labels(filled', n)
    BY <1>1 DEF Assign, Fill, Labels, WordInv
  <2> QED BY <2>1, <2>2 DEF WordInv, Labels
<1>2. CASE Shorten
  <2>1. PICK r \in Runs(labels) : labels' = GiveAway(labels, r)
    BY <1>2 DEF Shorten, ShortRuns
  <2>2. stage = "shorten" /\ UNCHANGED <<words, filled, stage>>
    BY <1>2 DEF Shorten
  <2>3. Labels(labels', n)
    BY <2>1, <2>2, GivenAway DEF WordInv
  <2> QED BY <2>2, <2>3 DEF WordInv, Labels
<1>3. CASE Finish
  BY <1>3 DEF Finish, WordInv, Labels
<1>4. CASE UNCHANGED mergeVars
  BY <1>4 DEF mergeVars, WordInv, Labels
<1> QED BY <1>1, <1>2, <1>3, <1>4 DEF MergeNext

\* The loop of _apply_min_segment comes to an end, whatever the words and the turns: every
\* pass leaves fewer runs than it found.
THEOREM LoopEnds == MergeSpec => RunsShrink
<1>1. ASSUME WordInv, [MergeNext]_mergeVars, stage = "shorten", labels' # labels
      PROVE  Cardinality(Runs(labels')) < Cardinality(Runs(labels))
  <2>1. CASE Shorten
    <3>1. PICK r \in ShortRuns(labels) : labels' = GiveAway(labels, r)
      BY <2>1 DEF Shorten
    <3>2. r \in Runs(labels) /\ ~(Cardinality(Runs(labels)) <= 1)
      BY <3>1 DEF ShortRuns
    <3>3. Len(words) \in Nat /\ Labels(labels, Len(words))
      BY <1>1 DEF WordInv
    <3>4. Cardinality(Runs(labels)) \in Nat
      BY <3>3, CountRuns, FS_CardinalityType
    <3> QED BY <3>1, <3>2, <3>3, <3>4, GiveAwayShrinks
  <2> QED BY <1>1, <2>1 DEF MergeNext, Assign, Finish, mergeVars
<1>2. WordInv /\ [MergeNext]_mergeVars
        => [stage = "shorten" /\ labels' # labels =>
              Cardinality(Runs(labels')) < Cardinality(Runs(labels))]_mergeVars
  BY <1>1
<1> QED BY <1>2, InitWordInv, StepWordInv, PTL DEF MergeSpec, RunsShrink

-----------------------------------------------------------------------------
(* Which words keep their speaker *)

\* Only words with times are given a speaker.
LEMMA UntimedHasNone ==
  ASSUME NEW w, ~w.timed, NEW ts
  PROVE  SpeakerOf(w, ts) = NoSpeaker
<1> DEFINE S == {0} \cup {Overlap(w, ts[i]) : i \in DOMAIN ts}
<1>1. S = {0}
  BY DEF Overlap
<1>2. Max({0}) = 0
  BY DEF Max
<1> HIDE DEF S
<1>3. Max(S) = 0
  BY <1>1, <1>2
<1> QED BY <1>3 DEF SpeakerOf, S

\* After Fill every run holds a word that was given its speaker, unless none was.
LEMMA RunHoldsKnown ==
  ASSUME NEW n \in Nat, NEW ls, Labels(ls, n), NEW r \in Runs(Fill(ls)),
         \E i \in 1..n : ls[i] # NoSpeaker
  PROVE  \E i \in r[1]..r[2] : ls[i] # NoSpeaker
<1> DEFINE known == {i \in 1..n : ls[i] # NoSpeaker}
           Before(i) == {j \in known : j <= i}
           new == Fill(ls)
<1>1. DOMAIN ls = 1..n
  BY LabelsSeq
<1>2. /\ Labels(new, n)
      /\ \A i \in 1..n : new[i] = IF Before(i) # {} THEN ls[Max(Before(i))] ELSE ls[Min(known)]
  <2>1. known # {} /\ known = {i \in DOMAIN ls : ls[i] # NoSpeaker}
    BY <1>1
  <2> QED BY <1>1, <2>1 DEF Fill, Labels
<1> HIDE DEF new
<1>3. /\ r[1] \in 1..n /\ r[2] \in 1..n /\ r[1] <= r[2]
      /\ r[1] = 1 \/ new[r[1] - 1] # new[r[1]]
      /\ r[2] = n \/ new[r[2] + 1] # new[r[1]]
  BY <1>2, RunOf DEF new
<1>4. ASSUME NEW i \in 1..n, Before(i) # {}
      PROVE  Max(Before(i)) \in Before(i) /\ \A j \in Before(i) : j <= Max(Before(i))
  <2>1. Before(i) \in SUBSET (1..n)
    OBVIOUS
  <2> HIDE DEF Before
  <2>2. IsFiniteSet(Before(i)) /\ Before(i) \in SUBSET Int
    BY <2>1, PartOfInterval
  <2> QED BY <1>4, <2>2, MaxIs
<1>5. Min(known) \in known /\ \A j \in known : Min(known) <= j
  <2>1. known \in SUBSET (1..n) /\ known # {}
    OBVIOUS
  <2> HIDE DEF known
  <2>2. IsFiniteSet(known) /\ known \in SUBSET Int
    BY <2>1, PartOfInterval
  <2> QED BY <2>1, <2>2, MinIs
<1>6. CASE Before(r[1]) # {}
  <2> DEFINE j == Max(Before(r[1]))
  <2>1. j \in known /\ j <= r[1] /\ \A k \in known : k <= r[1] => k <= j
    BY <1>3, <1>4, <1>6
  <2> HIDE DEF j
  <2>2. ASSUME NEW k \in j..r[1] PROVE new[k] = ls[j]
    <3>1. k \in 1..n /\ Before(k) # {}
      BY <1>3, <2>1
    <3>2. Max(Before(k)) \in known /\ Max(Before(k)) <= k /\ j <= Max(Before(k))
      BY <1>4, <2>1, <3>1
    <3>3. Max(Before(k)) = j
      BY <1>3, <2>1, <3>1, <3>2
    <3> QED BY <1>2, <3>1, <3>3
  <2>3. j = r[1]
    <3>1. CASE j < r[1]
      BY <1>3, <2>1, <2>2, <3>1
    <3> QED BY <1>3, <2>1, <3>1
  <2> QED BY <1>3, <2>1, <2>3
<1>7. CASE Before(r[1]) = {}
  <2> DEFINE j == Min(known)
  <2>1. j \in known /\ \A k \in known : j <= k
    BY <1>5
  <2> HIDE DEF j
  <2>2. r[1] < j
    BY <1>3, <1>7, <2>1
  <2>3. ASSUME NEW k \in r[1]..j PROVE new[k] = ls[j]
    <3>1. CASE k < j
      <4>1. k \in 1..n /\ Before(k) = {}
        BY <1>3, <2>1, <3>1
      <4> QED BY <1>2, <4>1 DEF j
    <3>2. CASE k = j
      <4>1. Before(k) # {} /\ k \in 1..n
        BY <2>1, <3>2
      <4>2. Max(Before(k)) \in known /\ Max(Before(k)) <= k
        BY <1>4, <4>1
      <4>3. Max(Before(k)) = j
        BY <2>1, <3>2, <4>2
      <4> QED BY <1>2, <4>1, <4>3
    <3> QED BY <2>1, <3>1, <3>2
  <2>4. j <= r[2]
    <3>1. SUFFICES ASSUME r[2] < j PROVE FALSE
      BY <1>3, <2>1
    <3>2. r[2] # n /\ r[2] + 1 \in r[1]..j /\ r[1] \in r[1]..j
      BY <1>3, <2>1, <2>2, <3>1
    <3>3. new[r[2] + 1] = ls[j] /\ new[r[1]] = ls[j]
      BY <2>3, <3>2
    <3> QED BY <1>3, <3>2, <3>3
  <2> QED BY <1>3, <2>1, <2>2, <2>4
<1> QED BY <1>6, <1>7

\* A labelling with one label only has no runs to go.
LEMMA OneLabel ==
  ASSUME NEW n \in Nat, NEW ls, Labels(ls, n), NEW x, \A i \in 1..n : ls[i] = x
  PROVE  ShortRuns(ls) = {}
<1>1. ASSUME NEW r \in Runs(ls), NEW q \in Runs(ls) PROVE r = q
  <2>1. \A p \in Runs(ls) : p[1] = 1
    BY RunOf
  <2> QED BY <2>1, OneRunFrom
<1>2. Cardinality(Runs(ls)) <= 1
  <2>1. CASE Runs(ls) = {}
    BY <2>1, FS_EmptySet
  <2>2. ASSUME NEW r \in Runs(ls) PROVE Cardinality(Runs(ls)) = 1
    <3>1. Runs(ls) = {r}
      BY <1>1
    <3>2. Cardinality({r}) = 1
      BY FS_Singleton, Zenon
    <3> QED BY <3>1, <3>2
  <2> QED BY <2>1, <2>2
<1> QED BY <1>2 DEF ShortRuns

\* A run with times that lies in a short one is short.
LEMMA ShortInside ==
  ASSUME WordInv, NEW r, NEW s, Short(s), Timed(r) # {},
         r[1] \in 1..Len(words), r[2] \in 1..Len(words),
         s[1] \in 1..Len(words), s[2] \in 1..Len(words),
         s[1] <= r[1], r[2] <= s[2]
  PROVE  Short(r)
<1> DEFINE Ends(q) == {words[i].end : i \in Timed(q)}
           From(q) == {words[i].start : i \in Timed(q)}
<1>1. Timed(r) \subseteq Timed(s) /\ Timed(s) \in SUBSET (1..Len(words))
  <2>1. Len(words) \in Nat
    BY DEF WordInv
  <2>2. \A i \in r[1]..r[2] : i \in s[1]..s[2]
    BY <2>1
  <2>3. \A i \in s[1]..s[2] : i \in 1..Len(words)
    BY <2>1
  <2> QED BY <2>2, <2>3, Zenon DEF Timed
<1>2. /\ Ends(r) \subseteq Ends(s) /\ From(r) \subseteq From(s)
      /\ Ends(s) \in SUBSET Int /\ From(s) \in SUBSET Int
  BY <1>1 DEF WordInv
<1>3. Ends(r) # {} /\ From(r) # {}
  <2>1. PICK i \in Timed(r) : TRUE
    OBVIOUS
  <2>2. words[i].end \in Ends(r) /\ words[i].start \in From(r)
    BY <2>1
  <2> QED BY <2>2
<1>4. /\ IsFiniteSet(Ends(r)) /\ IsFiniteSet(From(r))
      /\ IsFiniteSet(Ends(s)) /\ IsFiniteSet(From(s))
  <2>1. \A q : IsFiniteSet(Timed(q)) => IsFiniteSet(Ends(q)) /\ IsFiniteSet(From(q))
    <3>1. SUFFICES ASSUME NEW q, IsFiniteSet(Timed(q))
                   PROVE  IsFiniteSet(Ends(q)) /\ IsFiniteSet(From(q))
      OBVIOUS
    <3>2. [i \in Timed(q) |-> words[i].end] \in Surjection(Timed(q), Ends(q))
      BY DEF Surjection
    <3>3. [i \in Timed(q) |-> words[i].start] \in Surjection(Timed(q), From(q))
      BY DEF Surjection
    <3> HIDE DEF Ends, From
    <3> QED BY <3>1, <3>2, <3>3, FS_Surjection
  <2>2. IsFiniteSet(Timed(s))
    BY <1>1, PartOfInterval DEF WordInv
  <2>3. IsFiniteSet(Timed(r))
    BY <1>1, <2>2, FS_Subset
  <2> QED BY <2>1, <2>2, <2>3
<1>5. Max(Ends(s)) - Min(From(s)) < MinSegment
  BY DEF Short
<1> HIDE DEF Ends, From
<1>6. /\ Max(Ends(r)) \in Ends(r) /\ Min(From(r)) \in From(r)
  BY <1>2, <1>3, <1>4, MaxIs, MinIs
<1>7. /\ Max(Ends(s)) \in Ends(s) /\ \A y \in Ends(s) : y <= Max(Ends(s))
      /\ Min(From(s)) \in From(s) /\ \A y \in From(s) : Min(From(s)) <= y
  BY <1>2, <1>3, <1>4, MaxIs, MinIs
<1>8. Max(Ends(r)) <= Max(Ends(s)) /\ Min(From(s)) <= Min(From(r))
  BY <1>2, <1>6, <1>7
<1>9. Max(Ends(r)) - Min(From(r)) < MinSegment
  BY <1>2, <1>5, <1>6, <1>7, <1>8, MergeAssumption
<1> QED BY <1>9 DEF Short, Ends, From

\* What the loop has not broken so far: a run of filled has one label throughout, its own
\* when it was not short; and every one of them has a word with times, or nobody speaks.
KeptInv ==
  stage # "assign" =>
    /\ \A r \in Runs(filled) :
         /\ \A i, j \in r[1]..r[2] : labels[i] = labels[j]
         /\ ~Short(r) => \A i \in r[1]..r[2] : labels[i] = filled[i]
    /\ \/ \A r \in Runs(filled) : Timed(r) # {}
       \/ \A i \in 1..Len(words) : labels[i] = NoSpeaker

\* Assign.
LEMMA AssignKept ==
  ASSUME WordInv, Assign
  PROVE  KeptInv'
<1> DEFINE n == Len(words)
           ts == Coalesce(turns)
           ls == [i \in DOMAIN words |-> SpeakerOf(words[i], ts)]
<1>1. /\ filled' = Fill(ls) /\ labels' = filled' /\ UNCHANGED words
      /\ n \in Nat /\ DOMAIN words = 1..n
  BY DEF Assign, WordInv
<1>2. Labels(ls, n) /\ Labels(filled', n)
  BY <1>1 DEF Labels, Fill
<1>3. \A i \in 1..n : ls[i] # NoSpeaker => words[i].timed
  <2> HIDE DEF ts
  <2> QED BY <1>1, UntimedHasNone
<1> HIDE DEF ls
<1>4. ASSUME NEW r \in Runs(filled')
      PROVE  \A i, j \in r[1]..r[2] : labels'[i] = labels'[j]
  BY <1>1, <1>2, <1>4, RunOf
<1>5. CASE \E i \in 1..n : ls[i] # NoSpeaker
  <2>1. ASSUME NEW r \in Runs(filled') PROVE Timed(r)' # {}
    <3>1. PICK i \in r[1]..r[2] : ls[i] # NoSpeaker
      BY <1>1, <1>2, <1>5, RunHoldsKnown
    <3>2. i \in 1..n
      BY <1>1, <1>2, RunOf
    <3> QED BY <1>1, <1>3, <3>1, <3>2 DEF Timed
  <2> QED BY <1>1, <1>4, <2>1 DEF KeptInv
<1>6. CASE \A i \in 1..n : ls[i] = NoSpeaker
  <2>1. \A i \in 1..n : filled'[i] = NoSpeaker
    BY <1>1, <1>2, <1>6, LabelsSeq DEF Fill
  <2> QED BY <1>1, <1>4, <2>1 DEF KeptInv
<1> QED BY <1>5, <1>6

\* A run that is given away holds a run of filled as a whole or not at all.
LEMMA InsideOrOut ==
  ASSUME NEW n \in Nat, NEW f, Labels(f, n), NEW ls, Labels(ls, n),
         NEW r \in Runs(f), NEW s \in Runs(ls), \A i, j \in r[1]..r[2] : ls[i] = ls[j]
  PROVE  \/ s[1] <= r[1] /\ r[2] <= s[2]
         \/ \A i \in r[1]..r[2] : i \notin s[1]..s[2]
<1>1. /\ r[1] \in 1..n /\ r[2] \in 1..n /\ s[1] \in 1..n /\ s[2] \in 1..n
      /\ r[1] <= r[2]
      /\ \A i \in s[1]..s[2] : ls[i] = ls[s[1]]
      /\ s[1] = 1 \/ ls[s[1] - 1] # ls[s[1]]
      /\ s[2] = n \/ ls[s[2] + 1] # ls[s[1]]
  BY RunOf
<1>2. SUFFICES ASSUME NEW k \in r[1]..r[2], k \in s[1]..s[2]
               PROVE  s[1] <= r[1] /\ r[2] <= s[2]
  OBVIOUS
<1>3. ls[k] = ls[s[1]]
  BY <1>1, <1>2
<1>4. s[1] <= r[1]
  <2>1. SUFFICES ASSUME r[1] < s[1] PROVE FALSE
    BY <1>1
  <2>2. s[1] - 1 \in r[1]..r[2] /\ s[1] # 1
    BY <1>1, <1>2, <2>1
  <2>3. ls[s[1] - 1] = ls[k]
    BY <1>2, <2>2
  <2> QED BY <1>1, <1>3, <2>2, <2>3
<1>5. r[2] <= s[2]
  <2>1. SUFFICES ASSUME s[2] < r[2] PROVE FALSE
    BY <1>1
  <2>2. s[2] + 1 \in r[1]..r[2] /\ s[2] # n
    BY <1>1, <1>2, <2>1
  <2>3. ls[s[2] + 1] = ls[k]
    BY <1>2, <2>2
  <2> QED BY <1>1, <1>3, <2>2, <2>3
<1> QED BY <1>4, <1>5

\* Shorten: the run that goes holds whole runs of filled, all of them short.
LEMMA ShortenKept ==
  ASSUME WordInv, KeptInv, Shorten
  PROVE  KeptInv'
<1> DEFINE n == Len(words)
<1>1. PICK s \in ShortRuns(labels) : labels' = GiveAway(labels, s)
  BY DEF Shorten
<1>2. s \in Runs(labels) /\ Short(s)
  BY <1>1 DEF ShortRuns
<1>3. /\ stage = "shorten" /\ UNCHANGED <<words, filled, stage>>
      /\ n \in Nat /\ Labels(filled, n) /\ Labels(labels, n)
  BY DEF Shorten, WordInv
<1>4. \A r \in Runs(filled) : Timed(r) # {}
  BY <1>1, <1>3, OneLabel DEF KeptInv
<1>5. \A r : (Timed(r)' = Timed(r)) /\ (Short(r)' <=> Short(r))
  BY <1>3 DEF Timed, Short
<1>6. ASSUME NEW r \in Runs(filled)
      PROVE  /\ \A i, j \in r[1]..r[2] : labels'[i] = labels'[j]
             /\ ~Short(r) => \A i \in r[1]..r[2] : labels'[i] = filled[i]
  <2>1. /\ \A i, j \in r[1]..r[2] : labels[i] = labels[j]
        /\ ~Short(r) => \A i \in r[1]..r[2] : labels[i] = filled[i]
    BY <1>3 DEF KeptInv
  <2>2. /\ r[1] \in 1..n /\ r[2] \in 1..n /\ s[1] \in 1..n /\ s[2] \in 1..n
    BY <1>2, <1>3, RunOf
  <2>3. \A i \in r[1]..r[2] :
          labels'[i] = IF i \in s[1]..s[2]
                       THEN IF s[1] > 1 THEN labels[s[1] - 1] ELSE labels[s[2] + 1]
                       ELSE labels[i]
    <3>1. \A i \in r[1]..r[2] : i \in 1..n
      BY <1>3, <2>2
    <3> QED BY <1>1, <1>2, <1>3, <3>1, GivenAway
  <2>4. CASE \A i \in r[1]..r[2] : i \notin s[1]..s[2]
    BY <2>1, <2>3, <2>4
  <2>5. CASE s[1] <= r[1] /\ r[2] <= s[2]
    <3>1. Short(r)
      BY <1>2, <1>4, <2>2, <2>5, ShortInside
    <3>2. \A i \in r[1]..r[2] : i \in s[1]..s[2]
      BY <2>2, <2>5
    <3> QED BY <2>3, <3>1, <3>2
  <2> QED BY <1>2, <1>3, <2>1, <2>4, <2>5, InsideOrOut
<1> QED BY <1>3, <1>4, <1>5, <1>6 DEF KeptInv

\* Every step keeps what the loop has not broken.
LEMMA StepKeptInv ==
  WordInv /\ KeptInv /\ [MergeNext]_mergeVars => KeptInv'
<1> SUFFICES ASSUME WordInv, KeptInv, [MergeNext]_mergeVars PROVE KeptInv'
  OBVIOUS
<1>1. CASE Assign
  BY <1>1, AssignKept
<1>2. CASE Shorten
  BY <1>2, ShortenKept
<1>3. CASE Finish \/ UNCHANGED mergeVars
  <2>1. UNCHANGED <<words, filled, labels>> /\ (stage' # "assign" => stage # "assign")
    BY <1>3 DEF Finish, mergeVars
  <2>2. \A r : (Timed(r)' = Timed(r)) /\ (Short(r)' <=> Short(r))
    BY <2>1 DEF Timed, Short
  <2> QED BY <2>1, <2>2 DEF KeptInv
<1> QED BY <1>1, <1>2, <1>3 DEF MergeNext

\* Words that were in a long enough run, or in one without times, keep their speaker
\* through all the passes of _apply_min_segment, for every recording.
THEOREM LongRunsAreKept == MergeSpec => []LongRunsStay
<1>1. MergeInit => WordInv /\ KeptInv
  BY InitWordInv DEF MergeInit, KeptInv
<1>2. WordInv /\ KeptInv /\ [MergeNext]_mergeVars => (WordInv /\ KeptInv)'
  BY StepWordInv, StepKeptInv
<1>3. KeptInv => LongRunsStay
  BY DEF KeptInv, LongRunsStay
<1> QED BY <1>1, <1>2, <1>3, PTL DEF MergeSpec

-----------------------------------------------------------------------------
(* Names *)

\* Shorter, or of the same length and earlier in the alphabet.
NameBefore(p, q) ==
  \/ Len(p) < Len(q)
  \/ /\ Len(p) = Len(q)
     /\ \E k \in DOMAIN p : p[k] < q[k] /\ \A j \in 1..(k - 1) : p[j] = q[j]

\* f gives the names of the numbers 0 to m, as the recursion of StableLabel does.
Names(f, m) ==
  f = [n \in 0..m |->
         IF n = 0 THEN <<>> ELSE Append(f[(n - 1) \div Letters], (n - 1) % Letters)]

\* There is a letter.
LEMMA LettersType == Letters \in Nat \ {0}
BY MergeAssumption

\* Quotient and remainder of a number by the letters.
LEMMA Division ==
  ASSUME NEW a \in Nat
  PROVE  a \div Letters \in Nat /\ a % Letters \in Nat /\ a \div Letters <= a
<1>1. Letters \in Nat \ {0}
  BY LettersType
<1> QED BY <1>1

\* Numbers in order have their quotients in order, and with the same quotient their remainders.
LEMMA DivisionOrder ==
  ASSUME NEW a \in Nat, NEW b \in Nat, a < b
  PROVE  /\ a \div Letters <= b \div Letters
         /\ a \div Letters = b \div Letters => a % Letters < b % Letters
<1>1. Letters \in Nat \ {0}
  BY LettersType
<1> QED BY <1>1

\* One letter more keeps the order of two names, and decides it for names that are alike.
LEMMA AppendKeeps ==
  ASSUME NEW p \in Seq(Nat), NEW q \in Seq(Nat), NEW x \in Nat, NEW y \in Nat,
         NameBefore(p, q) \/ (p = q /\ x < y)
  PROVE  NameBefore(Append(p, x), Append(q, y))
<1> DEFINE P == Append(p, x)
           Q == Append(q, y)
<1>1. /\ Len(p) \in Nat /\ DOMAIN p = 1..Len(p)
      /\ Len(q) \in Nat /\ DOMAIN q = 1..Len(q)
  BY LenProperties
<1>2. /\ P \in Seq(Nat) /\ Len(P) = Len(p) + 1 /\ P[Len(p) + 1] = x
      /\ \A i \in 1..Len(p) : P[i] = p[i]
  BY AppendProperties
<1>3. /\ Q \in Seq(Nat) /\ Len(Q) = Len(q) + 1 /\ Q[Len(q) + 1] = y
      /\ \A i \in 1..Len(q) : Q[i] = q[i]
  BY AppendProperties
<1>4. DOMAIN P = 1..Len(P)
  BY <1>2, LenProperties
<1> HIDE DEF P, Q
<1>5. CASE Len(p) < Len(q)
  <2>1. Len(P) < Len(Q)
    BY <1>1, <1>2, <1>3, <1>5
  <2> QED BY <2>1 DEF NameBefore, P, Q
<1>6. CASE /\ Len(p) = Len(q)
           /\ \E k \in DOMAIN p : p[k] < q[k] /\ \A j \in 1..(k - 1) : p[j] = q[j]
  <2>1. PICK k \in 1..Len(p) : p[k] < q[k] /\ \A j \in 1..(k - 1) : p[j] = q[j]
    BY <1>1, <1>6
  <2>2. k \in DOMAIN P /\ P[k] < Q[k]
    BY <1>1, <1>2, <1>3, <1>4, <1>6, <2>1
  <2>3. \A j \in 1..(k - 1) : P[j] = Q[j]
    <3>1. SUFFICES ASSUME NEW j \in 1..(k - 1) PROVE P[j] = Q[j]
      OBVIOUS
    <3>2. j \in 1..Len(p)
      BY <1>1
    <3> QED BY <1>2, <1>3, <1>6, <2>1, <3>2
  <2> QED BY <1>2, <1>3, <1>6, <2>2, <2>3 DEF NameBefore, P, Q
<1>7. CASE p = q /\ x < y
  <2> DEFINE k == Len(p) + 1
  <2>1. k \in DOMAIN P /\ P[k] < Q[k]
    BY <1>1, <1>2, <1>3, <1>4, <1>7
  <2>2. \A j \in 1..(k - 1) : P[j] = Q[j]
    <3>1. k - 1 = Len(p)
      BY <1>1
    <3> QED BY <1>2, <1>3, <1>7, <3>1
  <2> HIDE DEF k
  <2> QED BY <1>2, <1>3, <1>7, <2>1, <2>2 DEF NameBefore, P, Q
<1> QED BY <1>5, <1>6, <1>7 DEF NameBefore

\* The recursion of StableLabel, unfolded.
LEMMA NamesStep ==
  ASSUME NEW m \in Nat, NEW f, Names(f, m), NEW n \in 1..m
  PROVE  f[n] = Append(f[(n - 1) \div Letters], (n - 1) % Letters)
<1>1. n \in 0..m /\ n # 0
  OBVIOUS
<1> DEFINE B(k) == IF k = 0 THEN <<>> ELSE Append(f[(k - 1) \div Letters], (k - 1) % Letters)
<1>2. f = [k \in 0..m |-> B(k)]
  BY DEF Names
<1>3. f[n] = B(n)
  <2> HIDE DEF B
  <2> QED BY <1>1, <1>2
<1> QED BY <1>1, <1>3

\* It begins with no letter.
LEMMA NamesZero ==
  ASSUME NEW m \in Nat, NEW f, Names(f, m)
  PROVE  f[0] = <<>>
<1> DEFINE B(k) == IF k = 0 THEN <<>> ELSE Append(f[(k - 1) \div Letters], (k - 1) % Letters)
<1>1. 0 \in 0..m
  OBVIOUS
<1>2. f = [k \in 0..m |-> B(k)]
  BY DEF Names
<1>3. f[0] = B(0)
  <2> HIDE DEF B
  <2> QED BY <1>1, <1>2
<1> QED BY <1>3

\* The number before n that the name of n goes on from.
LEMMA Prior ==
  ASSUME NEW n \in Nat \ {0}
  PROVE  /\ n - 1 \in Nat
         /\ (n - 1) \div Letters \in 0..(n - 1)
         /\ (n - 1) % Letters \in Nat
<1>1. n - 1 \in Nat
  OBVIOUS
<1> DEFINE a == n - 1
<1> HIDE DEF a
<1>2. a \in Nat
  BY <1>1 DEF a
<1>3. a \div Letters \in Nat /\ a % Letters \in Nat /\ a \div Letters <= a
  BY <1>2, Division
<1>4. a \div Letters \in 0..a
  BY <1>2, <1>3
<1> QED BY <1>2, <1>3, <1>4 DEF a

\* The recursion has a solution up to every number.
LEMMA NamesExist ==
  ASSUME NEW m \in Nat
  PROVE  \E f : Names(f, m)
<1> DEFINE S == {k \in Nat : \E f : Names(f, k)}
<1>1. 0 \in S
  <2> DEFINE f == [n \in 0..0 |-> <<>>]
  <2>1. f = [n \in 0..0 |->
              IF n = 0 THEN <<>> ELSE Append(f[(n - 1) \div Letters], (n - 1) % Letters)]
    OBVIOUS
  <2>2. Names(f, 0)
    <3> HIDE DEF f
    <3> QED BY <2>1 DEF Names
  <2> QED BY <2>2
<1>2. ASSUME NEW k \in Nat, k \in S PROVE k + 1 \in S
  <2>1. PICK f : Names(f, k)
    BY <1>2
  <2> DEFINE E(h, n) == IF n = 0 THEN <<>>
                        ELSE Append(h[(n - 1) \div Letters], (n - 1) % Letters)
             l == k + 1
             h == [n \in 0..l |-> E(f, n)]
  <2>2. \A n \in 0..k : f[n] = E(f, n)
    <3>1. f = [n \in 0..k |-> E(f, n)]
      BY <2>1 DEF Names
    <3> HIDE DEF E
    <3> QED BY <3>1
  <2>3. \A n \in 0..k : h[n] = f[n]
    <3> HIDE DEF E
    <3> QED BY <2>2
  <2>4. \A n \in 0..l : E(f, n) = E(h, n)
    <3>1. SUFFICES ASSUME NEW n \in 0..l, n # 0 PROVE E(f, n) = E(h, n)
      BY DEF E
    <3>2. (n - 1) \div Letters \in 0..k
      <4>1. (n - 1) \div Letters \in 0..(n - 1) /\ n - 1 <= k /\ n - 1 \in Nat
        BY <3>1, Prior
      <4> QED BY <4>1
    <3> HIDE DEF h
    <3> QED BY <2>3, <3>1, <3>2 DEF E
  <2>5. h = [n \in 0..l |-> E(h, n)]
    <3>1. h = [n \in 0..l |-> E(f, n)]
      OBVIOUS
    <3> HIDE DEF h, E
    <3> QED BY <2>4, <3>1
  <2>6. Names(h, l)
    <3> HIDE DEF h
    <3> QED BY <2>5 DEF Names
  <2> QED BY <2>6
<1>3. m \in S
  <2> HIDE DEF S
  <2> QED BY <1>1, <1>2, SetInduction
<1> QED BY <1>3

\* Names are sequences of letters.
LEMMA NamesType ==
  ASSUME NEW m \in Nat, NEW f, Names(f, m)
  PROVE  \A n \in 0..m : f[n] \in Seq(Nat)
<1> DEFINE S == {k \in Nat : \A n \in 0..k : n <= m => f[n] \in Seq(Nat)}
<1>1. 0 \in S
  <2>1. f[0] \in Seq(Nat)
    <3>1. f[0] = <<>>
      BY NamesZero
    <3>2. <<>> \in Seq(Nat)
      OBVIOUS
    <3> QED BY <3>1, <3>2
  <2>2. \A n \in 0..0 : n = 0
    OBVIOUS
  <2> QED BY <2>1, <2>2
<1>2. ASSUME NEW k \in Nat, k \in S PROVE k + 1 \in S
  <2> DEFINE n == k + 1
  <2>1. SUFFICES ASSUME n <= m PROVE f[n] \in Seq(Nat)
    BY <1>2
  <2>2. n \in Nat \ {0} /\ n \in 1..m
    BY <2>1
  <2>3. (n - 1) \div Letters \in 0..(n - 1) /\ (n - 1) % Letters \in Nat
    BY <2>2, Prior
  <2>4. f[(n - 1) \div Letters] \in Seq(Nat)
    <3>1. n - 1 = k /\ k <= m
      BY <2>1
    <3> QED BY <1>2, <2>3, <3>1
  <2>5. f[n] = Append(f[(n - 1) \div Letters], (n - 1) % Letters)
    BY <2>2, NamesStep
  <2> HIDE DEF n
  <2> QED BY <2>3, <2>4, <2>5, AppendProperties
<1>3. m \in S
  <2> HIDE DEF S
  <2> QED BY <1>1, <1>2, SetInduction
<1> QED BY <1>3

\* A smaller number has an earlier name, and the same number the same.
LEMMA NamesOrdered ==
  ASSUME NEW m \in Nat, NEW f, Names(f, m), NEW l \in Nat, NEW g, Names(g, l)
  PROVE  \A a \in 0..m, b \in 0..l :
           /\ a = b => f[a] = g[b]
           /\ a < b => NameBefore(f[a], g[b])
<1> DEFINE Right(a, b) == (a = b => f[a] = g[b]) /\ (a < b => NameBefore(f[a], g[b]))
           S == {k \in Nat : \A a \in 0..m, b \in 0..l : b <= k => Right(a, b)}
<1>1. \A a \in 0..m : f[a] \in Seq(Nat)
  BY NamesType
<1>2. \A b \in 0..l : g[b] \in Seq(Nat)
  BY NamesType
<1>3. 0 \in S
  <2>1. f[0] = <<>> /\ g[0] = <<>>
    BY NamesZero
  <2> QED BY <2>1
<1>4. ASSUME NEW k \in Nat, k \in S PROVE k + 1 \in S
  <2>0. \A a \in 0..m, b \in 0..l : b <= k => Right(a, b)
    BY <1>4
  <2> HIDE DEF Right
  <2>1. SUFFICES ASSUME NEW a \in 0..m, NEW b \in 0..l, b = k + 1, a <= b PROVE Right(a, b)
    <3>1. \A a \in 0..m, b \in 0..l : b < a => Right(a, b)
      BY DEF Right
    <3>2. \A a \in 0..m, b \in 0..l : b <= k + 1 => b <= k \/ (b = k + 1 /\ (a <= b \/ b < a))
      OBVIOUS
    <3> QED BY <2>0, <3>1, <3>2
  <2> DEFINE c == (a - 1) \div Letters
             d == (b - 1) \div Letters
             x == (a - 1) % Letters
             y == (b - 1) % Letters
  <2>2. b \in 1..l /\ b \in Nat \ {0} /\ b - 1 = k
    BY <2>1
  <2>3. d \in 0..(b - 1) /\ y \in Nat
    BY <2>2, Prior
  <2>4. g[b] = Append(g[d], y)
    BY <2>2, NamesStep
  <2>5. d \in 0..l /\ d <= k /\ g[d] \in Seq(Nat)
    BY <1>2, <2>2, <2>3
  <2>6. CASE a = 0
    <3>1. f[a] = <<>> /\ Len(<<>>) = 0 /\ a # b
      BY <2>2, <2>6, NamesZero
    <3>2. Len(g[b]) = Len(g[d]) + 1 /\ Len(g[d]) \in Nat
      BY <2>3, <2>4, <2>5, AppendProperties, LenProperties
    <3>3. Len(f[a]) < Len(g[b])
      BY <3>1, <3>2
    <3> QED BY <3>1, <3>3 DEF Right, NameBefore
  <2>7. CASE a # 0
    <3>1. a \in 1..m /\ a \in Nat \ {0} /\ a - 1 \in Nat
      BY <2>7
    <3>2. c \in 0..(a - 1) /\ x \in Nat
      BY <3>1, Prior
    <3>3. f[a] = Append(f[c], x)
      BY <3>1, NamesStep
    <3>4. c \in 0..m /\ f[c] \in Seq(Nat)
      BY <1>1, <3>1, <3>2
    <3>5. Right(c, d)
      BY <2>0, <2>5, <3>4
    <3>6. a < b => (c < d \/ (c = d /\ x < y))
      <4>1. SUFFICES ASSUME a < b PROVE c < d \/ (c = d /\ x < y)
        OBVIOUS
      <4>2. a - 1 < b - 1 /\ b - 1 \in Nat
        BY <2>2, <3>1, <4>1
      <4>3. c <= d /\ (c = d => x < y)
        BY <3>1, <4>2, DivisionOrder
      <4> HIDE DEF x, y
      <4>4. c \in Int /\ d \in Int
        BY <2>5, <3>4
      <4> HIDE DEF c, d
      <4> QED BY <4>3, <4>4
    <3>7. a = b => c = d /\ x = y
      OBVIOUS
    <3> HIDE DEF c, d, x, y
    <3>8. a = b => f[a] = g[b]
      BY <2>4, <3>3, <3>5, <3>7 DEF Right
    <3>9. ASSUME a < b PROVE NameBefore(f[a], g[b])
      <4>1. NameBefore(f[c], g[d]) \/ (f[c] = g[d] /\ x < y)
        BY <3>5, <3>6, <3>9 DEF Right
      <4> QED BY <2>3, <2>4, <2>5, <3>2, <3>3, <3>4, <4>1, AppendKeeps
    <3> QED BY <3>8, <3>9 DEF Right
  <2> QED BY <2>6, <2>7
<1>5. l \in S
  <2> HIDE DEF S
  <2> QED BY <1>3, <1>4, SetInduction
<1> QED BY <1>5

\* StableLabel is one of these solutions.
LEMMA LabelIsName ==
  ASSUME NEW i \in Nat
  PROVE  \E f : Names(f, i + 1) /\ StableLabel(i) = f[i + 1]
<1>1. StableLabel(i) = (CHOOSE f : Names(f, i + 1))[i + 1]
  BY DEF StableLabel, Names
<1>2. \E f : Names(f, i + 1)
  BY NamesExist
<1> QED BY <1>1, <1>2

\* _stable_label: the name of a later number comes later.
LEMMA LabelsOrdered ==
  ASSUME NEW i \in Nat, NEW j \in Nat, i < j
  PROVE  NameBefore(StableLabel(i), StableLabel(j))
<1>1. PICK f : Names(f, i + 1) /\ StableLabel(i) = f[i + 1]
  BY LabelIsName
<1>2. PICK g : Names(g, j + 1) /\ StableLabel(j) = g[j + 1]
  BY LabelIsName
<1>3. /\ i + 1 \in Nat /\ j + 1 \in Nat /\ i + 1 < j + 1
      /\ i + 1 \in 0..(i + 1) /\ j + 1 \in 0..(j + 1)
  OBVIOUS
<1> QED BY <1>1, <1>2, <1>3, NamesOrdered

\* One step of Order.
WithSpeaker(seen, spk) ==
  IF spk = NoSpeaker \/ spk \in ToSet(seen) THEN seen ELSE Append(seen, spk)

\* Order goes through the words one by one.
LEMMA OrderSteps ==
  ASSUME NEW S, labels \in Seq(S)
  PROVE  \E h : /\ h[0] = <<>> /\ h[Len(labels)] = Order
                /\ \A k \in 1..Len(labels) : h[k] = WithSpeaker(h[k - 1], labels[k])
<1> DEFINE N == Len(labels)
           IsIt(it) == it = [s \in SUBSET (1..N) |->
                               IF s = {} THEN <<>>
                               ELSE WithSpeaker(it[s \ {Max(s)}], labels[Max(s)])]
           g == [i \in 1..N |-> [seen \in Seq(S) |-> WithSpeaker(seen, labels[i])]]
<1>1. N \in Nat /\ DOMAIN labels = 1..N /\ \A i \in 1..N : labels[i] \in S
  BY LenProperties, ElementOfSeq
<1>2. \E it : IsIt(it)
  <2>1. \A i \in 1..N, seen \in Seq(S) : WithSpeaker(seen, labels[i]) \in Seq(S)
    BY <1>1, AppendProperties DEF WithSpeaker
  <2>2. g \in [1..N -> [Seq(S) -> Seq(S)]] /\ <<>> \in Seq(S)
    BY <2>1
  <2>3. \A i \in 1..N, seen \in Seq(S) : g[i][seen] = WithSpeaker(seen, labels[i])
    OBVIOUS
  <2> HIDE DEF g, N
  <2>4. PICK it \in [SUBSET (1..N) -> Seq(S)] : FoldsTo(it, N, <<>>, g)
    BY <1>1, <2>2, FoldGraph
  <2>5. ASSUME NEW s \in SUBSET (1..N), s # {}
        PROVE  it[s] = WithSpeaker(it[s \ {Max(s)}], labels[Max(s)])
    <3>1. Max(s) \in 1..N
      BY <1>1, <2>5, PartMax
    <3>2. s \ {Max(s)} \in SUBSET (1..N)
      OBVIOUS
    <3>3. it[s] = g[Max(s)][it[s \ {Max(s)}]] /\ it[s \ {Max(s)}] \in Seq(S)
      BY <2>4, <2>5, <3>2 DEF FoldsTo
    <3> QED BY <2>3, <3>1, <3>3
  <2>6. it[{}] = <<>>
    BY <2>4 DEF FoldsTo
  <2> QED BY <2>4, <2>5, <2>6
<1>3. Order = (CHOOSE it : IsIt(it))[1..N]
  BY <1>1 DEF Order, WithSpeaker, FoldLeft, MapThenFoldSet
<1>4. PICK it : IsIt(it) /\ Order = it[1..N]
  <2> HIDE DEF IsIt
  <2> QED BY <1>2, <1>3
<1> DEFINE h == [k \in 0..N |-> it[1..k]]
<1>5. h[0] = <<>> /\ h[N] = Order
  <2>1. 1..0 = {} /\ 1..0 \in SUBSET (1..N) /\ 0 \in 0..N /\ N \in 0..N
    BY <1>1
  <2>2. it[{}] = <<>>
    BY <1>4, <2>1
  <2> QED BY <1>4, <2>1, <2>2
<1>6. ASSUME NEW k \in 1..N PROVE h[k] = WithSpeaker(h[k - 1], labels[k])
  <2>1. /\ 1..k \in SUBSET (1..N) /\ 1..(k - 1) \in SUBSET (1..N)
        /\ Max(1..k) = k /\ (1..k) \ {k} = 1..(k - 1) /\ 1..k # {}
    BY <1>1, Prefix
  <2>2. it[1..k] = WithSpeaker(it[1..(k - 1)], labels[k])
    BY <1>4, <2>1
  <2>3. k \in 0..N /\ k - 1 \in 0..N
    BY <1>1
  <2> QED BY <2>2, <2>3
<1> QED BY <1>5, <1>6

\* The speakers of the first k words in the order in which they begin to speak: whoever
\* stands before another one has spoken before each of that one's words.
OrderOf(k, q) ==
  /\ \A p \in 1..k : labels[p] # NoSpeaker => \E i \in DOMAIN q : q[i] = labels[p]
  /\ \A i \in DOMAIN q : \E p \in 1..k : q[i] = labels[p]
  /\ \A i, j \in DOMAIN q, p \in 1..k :
       i < j /\ labels[p] = q[j] => \E o \in 1..(p - 1) : labels[o] = q[i]

\* One more word, by a known speaker or a new one.
LEMMA OneMoreWord ==
  ASSUME NEW S, labels \in Seq(S), NEW k \in Nat, k + 1 <= Len(labels),
         NEW q \in Seq(S), OrderOf(k, q)
  PROVE  /\ WithSpeaker(q, labels[k + 1]) \in Seq(S)
         /\ OrderOf(k + 1, WithSpeaker(q, labels[k + 1]))
<1> DEFINE m == k + 1
           spk == labels[m]
<1>1. /\ Len(labels) \in Nat /\ spk \in S
      /\ Len(q) \in Nat /\ DOMAIN q = 1..Len(q)
  BY LenProperties, ElementOfSeq
<1>2. /\ m \in Nat /\ m \in 1..m /\ m - 1 = k /\ \A p \in 1..m : p \in 1..k \/ p = m
  OBVIOUS
<1>3. \A p \in 1..k : p \in 1..m
  OBVIOUS
<1> HIDE DEF m, spk
<1>4. /\ \A p \in 1..k : labels[p] # NoSpeaker => \E i \in DOMAIN q : q[i] = labels[p]
      /\ \A i \in DOMAIN q : \E p \in 1..k : q[i] = labels[p]
      /\ \A i, j \in DOMAIN q, p \in 1..k :
           i < j /\ labels[p] = q[j] => \E o \in 1..(p - 1) : labels[o] = q[i]
  BY DEF OrderOf
<1>5. CASE spk = NoSpeaker \/ spk \in ToSet(q)
  <2>1. spk # NoSpeaker => \E i \in DOMAIN q : q[i] = spk
    BY <1>5 DEF ToSet
  <2>2. ASSUME NEW i \in DOMAIN q, NEW j \in DOMAIN q, i < j
        PROVE  \E o \in 1..(m - 1) : labels[o] = q[i]
    BY <1>2, <1>4
  <2>3. OrderOf(m, q)
    <3>1. \A p \in 1..m : labels[p] # NoSpeaker => \E i \in DOMAIN q : q[i] = labels[p]
      BY <1>2, <1>4, <2>1 DEF spk
    <3>2. \A i \in DOMAIN q : \E p \in 1..m : q[i] = labels[p]
      BY <1>3, <1>4
    <3>3. \A i, j \in DOMAIN q, p \in 1..m :
            i < j /\ labels[p] = q[j] => \E o \in 1..(p - 1) : labels[o] = q[i]
      BY <1>2, <1>4, <2>2
    <3> QED BY <3>1, <3>2, <3>3 DEF OrderOf
  <2>4. WithSpeaker(q, spk) = q
    BY <1>5 DEF WithSpeaker
  <2> QED BY <2>3, <2>4 DEF m, spk
<1>6. CASE spk # NoSpeaker /\ spk \notin ToSet(q)
  <2> DEFINE r == Append(q, spk)
             l == Len(q) + 1
  <2>1. /\ r \in Seq(S) /\ Len(r) = l /\ r[l] = spk
        /\ \A i \in 1..Len(q) : r[i] = q[i]
    BY <1>1, AppendProperties
  <2>2. DOMAIN r = 1..l
    BY <2>1, LenProperties
  <2>3. l \in DOMAIN r /\ \A i \in DOMAIN q : i \in DOMAIN r
    BY <1>1, <2>2
  <2>4. \A i \in DOMAIN r : i \in DOMAIN q \/ i = l
    BY <1>1, <2>2
  <2>4a. \A i \in DOMAIN q : ~(l < i) /\ l # i
    BY <1>1
  <2>4b. \A i \in DOMAIN q : q[i] # spk
    BY <1>6 DEF ToSet
  <2>4c. \A i \in DOMAIN q : r[i] = q[i]
    BY <1>1, <2>1
  <2>4d. r[l] = spk /\ spk = labels[m] /\ ~(l < l)
    BY <1>1, <2>1 DEF spk
  <2> HIDE DEF r, l
  <2>5. \A p \in 1..m : labels[p] # NoSpeaker => \E i \in DOMAIN r : r[i] = labels[p]
    BY <1>2, <1>4, <2>3, <2>4c, <2>4d
  <2>6. \A i \in DOMAIN r : \E p \in 1..m : r[i] = labels[p]
    BY <1>2, <1>3, <1>4, <2>4, <2>4c, <2>4d
  <2>7. ASSUME NEW i \in DOMAIN r, NEW j \in DOMAIN r, NEW p \in 1..m,
               i < j, labels[p] = r[j]
        PROVE  \E o \in 1..(p - 1) : labels[o] = r[i]
    <3>1. i \in DOMAIN q
      BY <2>4, <2>4a, <2>4d, <2>7
    <3>2. CASE p = m
      <4>1. PICK o \in 1..k : q[i] = labels[o]
        BY <1>4, <3>1
      <4>2. o \in 1..(p - 1) /\ labels[o] = r[i]
        BY <1>2, <2>4c, <3>1, <3>2, <4>1
      <4> QED BY <4>2
    <3>3. CASE p \in 1..k
      <4>1. j # l
        BY <1>4, <2>4b, <2>4d, <2>7, <3>3, <1>6
      <4>2. j \in DOMAIN q
        BY <2>4, <4>1
      <4> QED BY <1>4, <2>4c, <2>7, <3>1, <3>3, <4>2
    <3> QED BY <1>2, <3>2, <3>3
  <2>8. OrderOf(m, r)
    BY <2>5, <2>6, <2>7 DEF OrderOf
  <2>9. WithSpeaker(q, spk) = r
    BY <1>6 DEF WithSpeaker, r
  <2> QED BY <2>1, <2>8, <2>9 DEF m, spk, r
<1> QED BY <1>5, <1>6

\* Order holds the speakers as they begin to speak.
LEMMA OrderIs ==
  ASSUME NEW S, labels \in Seq(S)
  PROVE  Order \in Seq(S) /\ OrderOf(Len(labels), Order)
<1>1. PICK h : /\ h[0] = <<>> /\ h[Len(labels)] = Order
               /\ \A k \in 1..Len(labels) : h[k] = WithSpeaker(h[k - 1], labels[k])
  BY OrderSteps
<1>2. Len(labels) \in Nat
  BY LenProperties
<1> DEFINE K == {k \in Nat : k <= Len(labels) => h[k] \in Seq(S) /\ OrderOf(k, h[k])}
<1>3. 0 \in K
  <2>1. DOMAIN <<>> = {} /\ <<>> \in Seq(S) /\ 1..0 = {}
    OBVIOUS
  <2>2. OrderOf(0, <<>>)
    BY <2>1 DEF OrderOf
  <2> QED BY <1>1, <2>1, <2>2
<1>4. ASSUME NEW k \in Nat, k \in K PROVE k + 1 \in K
  <2>1. SUFFICES ASSUME k + 1 <= Len(labels)
                 PROVE  h[k + 1] \in Seq(S) /\ OrderOf(k + 1, h[k + 1])
    OBVIOUS
  <2>2. h[k] \in Seq(S) /\ OrderOf(k, h[k])
    BY <1>2, <1>4, <2>1
  <2>3. h[k + 1] = WithSpeaker(h[k], labels[k + 1])
    <3>1. k + 1 \in 1..Len(labels) /\ k + 1 - 1 = k
      BY <1>2, <2>1
    <3> QED BY <1>1, <3>1
  <2> QED BY <2>1, <2>2, <2>3, OneMoreWord
<1>5. Len(labels) \in K
  <2> HIDE DEF K
  <2> QED BY <1>2, <1>3, <1>4, SetInduction
<1> QED BY <1>1, <1>2, <1>5

\* Whoever begins to speak after somebody else gets a later name.
LEMMA LaterName ==
  ASSUME NEW S, labels \in Seq(S), NEW p \in DOMAIN labels, NEW q \in DOMAIN labels, p < q,
         labels[p] # NoSpeaker, labels[q] # NoSpeaker,
         \A o \in 1..(q - 1) : labels[o] # labels[q]
  PROVE  NameBefore(NameOf(labels[p]), NameOf(labels[q]))
<1> DEFINE Place(spk) == CHOOSE i \in DOMAIN Order : Order[i] = spk
           i == Place(labels[p])
           j == Place(labels[q])
<1>1. /\ Len(labels) \in Nat /\ DOMAIN labels = 1..Len(labels)
      /\ p \in Nat /\ q \in Nat
  BY LenProperties
<1>2. Order \in Seq(S) /\ OrderOf(Len(labels), Order)
  BY OrderIs
<1>3. Len(Order) \in Nat /\ DOMAIN Order = 1..Len(Order)
  BY <1>2, LenProperties
<1>4. i \in DOMAIN Order /\ Order[i] = labels[p]
  BY <1>1, <1>2 DEF OrderOf
<1>5. j \in DOMAIN Order /\ Order[j] = labels[q]
  BY <1>1, <1>2 DEF OrderOf
<1>6. NameOf(labels[p]) = StableLabel(i - 1) /\ NameOf(labels[q]) = StableLabel(j - 1)
  BY DEF NameOf
<1> HIDE DEF i, j
<1>7. p \in 1..(q - 1)
  BY <1>1
<1>8. i # j
  BY <1>4, <1>5, <1>7
<1>9. ~(j < i)
  <2>1. SUFFICES ASSUME j < i PROVE FALSE
    OBVIOUS
  <2>2. PICK o \in 1..(p - 1) : labels[o] = labels[q]
    <3>1. \A x, y \in DOMAIN Order, z \in 1..Len(labels) :
            x < y /\ labels[z] = Order[y] => \E o \in 1..(z - 1) : labels[o] = Order[x]
      BY <1>2 DEF OrderOf
    <3>2. p \in 1..Len(labels)
      BY <1>1
    <3> HIDE DEF Place
    <3>3. \E o \in 1..(p - 1) : labels[o] = Order[j]
      BY <1>4, <1>5, <2>1, <3>1, <3>2
    <3> QED BY <1>5, <3>3
  <2>3. o \in 1..(q - 1)
    BY <1>1
  <2> QED BY <2>2, <2>3
<1>10. i - 1 \in Nat /\ j - 1 \in Nat /\ i - 1 < j - 1
  BY <1>3, <1>4, <1>5, <1>8, <1>9
<1> QED BY <1>6, <1>10, LabelsOrdered

\* Names follow the order in which the speakers first speak, for every recording and
\* every alphabet.
THEOREM NamesAreOrdered == MergeSpec => []NamesFollowOrder
<1>1. WordInv => NamesFollowOrder
  <2> SUFFICES ASSUME WordInv, stage = "done",
                      NEW p \in DOMAIN labels, NEW q \in DOMAIN labels, p < q,
                      NoSpeaker \notin {labels[p], labels[q]},
                      \A o \in 1..(q - 1) : labels[o] # labels[q]
               PROVE  NameBefore(NameOf(labels[p]), NameOf(labels[q]))
    BY DEF NamesFollowOrder, NameBefore
  <2> DEFINE n == Len(words)
             S == {labels[i] : i \in 1..n}
  <2>1. n \in Nat /\ Labels(labels, n)
    BY DEF WordInv
  <2>2. labels \in Seq(S)
    <3>1. labels \in [1..n -> S]
      BY <2>1 DEF Labels
    <3> QED BY <2>1, <3>1, SeqDef
  <2> HIDE DEF S
  <2> QED BY <2>2, LaterName
<1> QED BY <1>1, InitWordInv, StepWordInv, PTL DEF MergeSpec

-----------------------------------------------------------------------------
(* Clips *)

Stretch == [start : Int, end : Int]

\* One step of Stretches.
WithWord(out, i, spk) ==
  IF ~words[i].timed \/ labels[i] # spk THEN out
  ELSE IF out # <<>> /\ words[i].start - Last(out).end <= MaxGap
  THEN [out EXCEPT ![Len(out)].end = Max({@, words[i].end})]
  ELSE Append(out, [start |-> words[i].start, end |-> words[i].end])

\* The last stretch goes on to the word.
Longer(out, i) == [out EXCEPT ![Len(out)].end = Max({@, words[i].end})]

\* It begins where it began, and ends with the word unless it lasts longer already.
LEMMA LongerIs ==
  ASSUME WordInv, NEW i \in DOMAIN words, NEW q \in Seq(Stretch), q # <<>>
  PROVE  /\ Longer(q, i) \in Seq(Stretch) /\ Len(Longer(q, i)) = Len(q)
         /\ \A x \in 1..Len(q) : x # Len(q) => Longer(q, i)[x] = q[x]
         /\ Longer(q, i)[Len(q)] =
              [start |-> q[Len(q)].start,
               end |-> IF q[Len(q)].end >= words[i].end THEN q[Len(q)].end ELSE words[i].end]
<1> DEFINE l == Len(q)
           e == [q[l] EXCEPT !.end = Max({@, words[i].end})]
           d == [start |-> q[l].start,
                 end |-> IF q[l].end >= words[i].end THEN q[l].end ELSE words[i].end]
<1>1. l \in Nat /\ l \in 1..l /\ q[l] \in Stretch
  <2>1. l \in Nat /\ l # 0
    BY LenProperties, EmptySeq
  <2> QED BY <2>1, ElementOfSeq
<1>2. words[i].end \in Int
  BY DEF WordInv
<1>3. e = d /\ d \in Stretch
  <2>1. q[l] = [start |-> q[l].start, end |-> q[l].end] /\ q[l].start \in Int /\ q[l].end \in Int
    BY <1>1 DEF Stretch
  <2>2. Max({q[l].end, words[i].end})
          = IF q[l].end >= words[i].end THEN q[l].end ELSE words[i].end
    BY <1>2, <2>1, LargerOf
  <2> QED BY <1>2, <2>1, <2>2 DEF Stretch
<1>4. Longer(q, i) = [q EXCEPT ![l] = e]
  <2>1. Longer(q, i) = [x \in DOMAIN q |-> IF x = l THEN e ELSE q[x]]
    BY DEF Longer
  <2> HIDE DEF e, l
  <2> QED BY <2>1
<1> HIDE DEF e, d, l
<1>5. Longer(q, i) = [q EXCEPT ![l] = d]
  BY <1>3, <1>4
<1>6. /\ Longer(q, i) \in Seq(Stretch) /\ Len(Longer(q, i)) = Len(q)
      /\ \A x \in 1..Len(q) : Longer(q, i)[x] = IF x = l THEN d ELSE q[x]
  <2>1. l \in 1..Len(q)
    BY <1>1 DEF l
  <2> QED BY <1>3, <1>5, <2>1, ExceptSeq
<1> QED BY <1>1, <1>6 DEF l, d

\* What one step makes of the stretches.
LEMMA WithWordIs ==
  ASSUME WordInv, NEW i \in DOMAIN words, NEW q \in Seq(Stretch), NEW spk
  PROVE  /\ WithWord(q, i, spk) \in Seq(Stretch)
         /\ WithWord(q, i, spk) =
              IF ~words[i].timed \/ labels[i] # spk THEN q
              ELSE IF q # <<>> /\ words[i].start - Last(q).end <= MaxGap THEN Longer(q, i)
              ELSE Append(q, [start |-> words[i].start, end |-> words[i].end])
<1>1. [start |-> words[i].start, end |-> words[i].end] \in Stretch
  BY DEF WordInv, Stretch
<1>2. Append(q, [start |-> words[i].start, end |-> words[i].end]) \in Seq(Stretch)
  BY <1>1, AppendProperties
<1>3. q # <<>> => Longer(q, i) \in Seq(Stretch)
  BY LongerIs
<1>4. WithWord(q, i, spk) =
        IF ~words[i].timed \/ labels[i] # spk THEN q
        ELSE IF q # <<>> /\ words[i].start - Last(q).end <= MaxGap THEN Longer(q, i)
        ELSE Append(q, [start |-> words[i].start, end |-> words[i].end])
  BY DEF WithWord, Longer
<1> QED BY <1>2, <1>3, <1>4

\* Stretches goes through the words one by one.
LEMMA StretchesSteps ==
  ASSUME WordInv, NEW spk
  PROVE  \E h : /\ h[0] = <<>> /\ h[Len(words)] = Stretches(spk)
                /\ \A k \in 1..Len(words) : h[k] = WithWord(h[k - 1], k, spk)
<1> DEFINE N == Len(words)
           ids == [i \in 1..N |-> i]
           IsIt(it) == it = [s \in SUBSET (1..N) |->
                               IF s = {} THEN <<>>
                               ELSE WithWord(it[s \ {Max(s)}], ids[Max(s)], spk)]
           g == [i \in 1..N |-> [out \in Seq(Stretch) |-> WithWord(out, i, spk)]]
<1>1. N \in Nat /\ DOMAIN words = 1..N
  BY DEF WordInv
<1>2. \E it : IsIt(it)
  <2>1. \A i \in 1..N, out \in Seq(Stretch) : WithWord(out, i, spk) \in Seq(Stretch)
    BY <1>1, WithWordIs
  <2>2. g \in [1..N -> [Seq(Stretch) -> Seq(Stretch)]] /\ <<>> \in Seq(Stretch)
    BY <2>1
  <2>3. \A i \in 1..N, out \in Seq(Stretch) : g[i][out] = WithWord(out, i, spk)
    OBVIOUS
  <2>3a. \A i \in 1..N : ids[i] = i
    OBVIOUS
  <2> HIDE DEF g, N, ids
  <2>4. PICK it \in [SUBSET (1..N) -> Seq(Stretch)] : FoldsTo(it, N, <<>>, g)
    BY <1>1, <2>2, FoldGraph
  <2>5. ASSUME NEW s \in SUBSET (1..N), s # {}
        PROVE  it[s] = WithWord(it[s \ {Max(s)}], ids[Max(s)], spk)
    <3>1. Max(s) \in 1..N
      BY <1>1, <2>5, PartMax
    <3>2. s \ {Max(s)} \in SUBSET (1..N)
      OBVIOUS
    <3>3. it[s] = g[Max(s)][it[s \ {Max(s)}]] /\ it[s \ {Max(s)}] \in Seq(Stretch)
      BY <2>4, <2>5, <3>2 DEF FoldsTo
    <3> QED BY <2>3, <2>3a, <3>1, <3>3
  <2>6. it[{}] = <<>>
    BY <2>4 DEF FoldsTo
  <2> QED BY <2>4, <2>5, <2>6
<1>3. Stretches(spk) = (CHOOSE it : IsIt(it))[1..N]
  <2>1. DOMAIN ids = 1..N /\ ids = [i \in DOMAIN words |-> i]
    BY <1>1
  <2> HIDE DEF ids
  <2> QED BY <1>1, <2>1 DEF Stretches, WithWord, FoldLeft, MapThenFoldSet
<1>4. PICK it : IsIt(it) /\ Stretches(spk) = it[1..N]
  <2> HIDE DEF IsIt
  <2> QED BY <1>2, <1>3
<1> DEFINE h == [k \in 0..N |-> it[1..k]]
<1>5. h[0] = <<>> /\ h[N] = Stretches(spk)
  <2>1. 1..0 = {} /\ 1..0 \in SUBSET (1..N) /\ 0 \in 0..N /\ N \in 0..N
    BY <1>1
  <2>2. it[{}] = <<>>
    BY <1>4, <2>1
  <2> QED BY <1>4, <2>1, <2>2
<1>6. ASSUME NEW k \in 1..N PROVE h[k] = WithWord(h[k - 1], k, spk)
  <2>1. /\ 1..k \in SUBSET (1..N) /\ 1..(k - 1) \in SUBSET (1..N)
        /\ Max(1..k) = k /\ (1..k) \ {k} = 1..(k - 1) /\ 1..k # {}
    BY <1>1, Prefix
  <2>2. it[1..k] = WithWord(it[1..(k - 1)], k, spk)
    <3>1. ids[k] = k
      OBVIOUS
    <3> HIDE DEF ids
    <3> QED BY <1>4, <2>1, <3>1
  <2>3. k \in 0..N /\ k - 1 \in 0..N
    BY <1>1
  <2> QED BY <2>2, <2>3
<1> QED BY <1>5, <1>6

\* Words as the transcription yields them: none ends before it begins, and those with
\* times follow each other.
Consecutive(ws) ==
  \A i, j \in DOMAIN ws :
    /\ ws[i].timed => ws[i].start <= ws[i].end
    /\ i < j /\ ws[i].timed /\ ws[j].timed => ws[i].end <= ws[j].start

InOrder == \A x \in Recordings : Consecutive(x.words)

\* Every word lies in a run.
LEMMA RunAt ==
  ASSUME NEW n \in Nat, NEW ls, Labels(ls, n), NEW i \in 1..n
  PROVE  \E r \in Runs(ls) : i \in r[1]..r[2]
<1> DEFINE A == {j \in 1..i : j \in Begins(ls)}
           m == Max(A)
<1>1. DOMAIN ls = 1..n
  BY LabelsSeq
<1>2. 1 \in A
  BY <1>1 DEF Begins
<1>3. m \in A /\ \A j \in A : j <= m
  <2>1. i \in Nat /\ A \in SUBSET (1..i) /\ A # {}
    BY <1>2
  <2> HIDE DEF A
  <2> QED BY <2>1, PartMax
<1> HIDE DEF m
<1>4. m \in 1..i /\ m \in Begins(ls)
  BY <1>3
<1>5. PICK e \in 1..n : <<m, e>> \in Runs(ls)
  BY <1>4, RunFrom
<1> DEFINE r == <<m, e>>
<1>6. r[1] = m /\ r[2] = e
  OBVIOUS
<1> HIDE DEF r
<1>7. r \in Runs(ls)
  BY <1>5 DEF r
<1>8. /\ m <= e
      /\ \A j \in m..e : ls[j] = ls[m]
      /\ e = n \/ ls[e + 1] # ls[m]
  BY <1>6, <1>7, RunOf
<1>9. ~(e < i)
  <2>1. SUFFICES ASSUME e < i PROVE FALSE
    OBVIOUS
  <2>2. e + 1 \in 1..i /\ e # n /\ e \in m..e /\ e + 1 # 1 /\ e + 1 - 1 = e /\ ~(e + 1 <= m)
    BY <1>4, <1>8, <2>1
  <2>3. e + 1 \in Begins(ls)
    <3>1. e + 1 \in DOMAIN ls
      BY <1>1, <2>2
    <3>2. ls[e] # ls[e + 1]
      BY <1>8, <2>2
    <3> QED BY <2>2, <3>1, <3>2 DEF Begins
  <2> QED BY <1>3, <2>2, <2>3
<1>10. i \in r[1]..r[2]
  BY <1>4, <1>6, <1>9
<1> QED BY <1>7, <1>10

\* Two different runs are more than one.
LEMMA TwoRuns ==
  ASSUME NEW n \in Nat, NEW ls, Labels(ls, n), NEW r \in Runs(ls), NEW q \in Runs(ls), r # q
  PROVE  ~(Cardinality(Runs(ls)) <= 1)
<1>1. IsFiniteSet({r}) /\ Cardinality({r}) = 1
  BY FS_Singleton
<1>2. Cardinality({r} \cup {q}) = 2
  BY <1>1, FS_AddElement
<1>3. IsFiniteSet(Runs(ls)) /\ {r} \cup {q} \subseteq Runs(ls)
  BY CountRuns
<1>4. Cardinality({r} \cup {q}) <= Cardinality(Runs(ls)) /\ Cardinality(Runs(ls)) \in Nat
  BY <1>3, FS_Subset, FS_CardinalityType
<1> QED BY <1>2, <1>4

\* From where to where the words with times of a run last.
LEMMA TimesOf ==
  ASSUME WordInv, NEW r, r[1] \in 1..Len(words), r[2] \in 1..Len(words), Timed(r) # {}
  PROVE  \E x, y \in Timed(r) :
           /\ Max({words[i].end : i \in Timed(r)}) = words[x].end
           /\ Min({words[i].start : i \in Timed(r)}) = words[y].start
<1> DEFINE Ends == {words[i].end : i \in Timed(r)}
           From == {words[i].start : i \in Timed(r)}
<1>1. Timed(r) \in SUBSET (1..Len(words)) /\ Len(words) \in Nat
  <2>1. \A i \in r[1]..r[2] : i \in 1..Len(words)
    BY DEF WordInv
  <2> QED BY <2>1 DEF Timed, WordInv
<1>2. Ends \in SUBSET Int /\ From \in SUBSET Int /\ Ends # {} /\ From # {}
  BY <1>1 DEF WordInv
<1>3. IsFiniteSet(Ends) /\ IsFiniteSet(From)
  <2>1. IsFiniteSet(Timed(r))
    BY <1>1, PartOfInterval
  <2>2. [i \in Timed(r) |-> words[i].end] \in Surjection(Timed(r), Ends)
    BY DEF Surjection
  <2>3. [i \in Timed(r) |-> words[i].start] \in Surjection(Timed(r), From)
    BY DEF Surjection
  <2> HIDE DEF Ends, From
  <2> QED BY <2>1, <2>2, <2>3, FS_Surjection
<1>4. Max(Ends) \in Ends /\ Min(From) \in From
  <2> HIDE DEF Ends, From
  <2> QED BY <1>2, <1>3, MaxIs, MinIs
<1> QED BY <1>4

\* Once no run is short, somebody else speaking between two words of one speaker takes
\* longer than a clip may pause.
LEMMA LongGap ==
  ASSUME WordInv, stage = "done", Consecutive(words), ShortRuns(labels) = {},
         NEW b \in DOMAIN words, NEW i \in DOMAIN words, NEW c \in DOMAIN words, b < i, i < c,
         words[b].timed, words[i].timed, words[c].timed,
         labels[b] = labels[c], labels[i] # labels[b]
  PROVE  ~(words[c].start - words[b].end <= MaxGap)
<1> DEFINE n == Len(words)
<1>1. n \in Nat /\ Labels(labels, n) /\ DOMAIN words = 1..n
  BY DEF WordInv
<1>2. PICK r \in Runs(labels) : i \in r[1]..r[2]
  BY <1>1, RunAt
<1>3. PICK q \in Runs(labels) : b \in q[1]..q[2]
  BY <1>1, RunAt
<1>4. /\ r[1] \in 1..n /\ r[2] \in 1..n
      /\ \A j \in r[1]..r[2] : labels[j] = labels[r[1]]
  BY <1>1, RunOf
<1>5. b \notin r[1]..r[2] /\ c \notin r[1]..r[2]
  BY <1>2, <1>4
<1>6. b < r[1] /\ r[2] < c
  BY <1>1, <1>2, <1>4, <1>5
<1>7. ~Short(r)
  <2>1. ~(Cardinality(Runs(labels)) <= 1)
    BY <1>1, <1>3, <1>5, TwoRuns
  <2> QED BY <2>1 DEF ShortRuns
<1>8. i \in Timed(r)
  BY <1>2 DEF Timed
<1> HIDE DEF n
<1>9. PICK x \in Timed(r), y \in Timed(r) : ~(words[x].end - words[y].start < MinSegment)
  <2>1. PICK x \in Timed(r), y \in Timed(r) :
          /\ Max({words[j].end : j \in Timed(r)}) = words[x].end
          /\ Min({words[j].start : j \in Timed(r)}) = words[y].start
    BY <1>4, <1>8, TimesOf DEF n
  <2> QED BY <1>7, <1>8, <2>1 DEF Short
<1>10. /\ x \in DOMAIN words /\ y \in DOMAIN words /\ x < c /\ b < y
       /\ words[x].timed /\ words[y].timed
  <2>1. x \in r[1]..r[2] /\ y \in r[1]..r[2] /\ words[x].timed /\ words[y].timed
    BY DEF Timed
  <2> QED BY <1>1, <1>4, <1>6, <2>1
<1>11. words[x].end <= words[c].start /\ words[b].end <= words[y].start
  BY <1>10 DEF Consecutive
<1> DEFINE u == words[x].end
           v == words[y].start
           s == words[c].start
           e == words[b].end
<1>12. u \in Int /\ v \in Int /\ s \in Int /\ e \in Int
  BY <1>10 DEF WordInv
<1>13. ~(u - v < MinSegment) /\ u <= s /\ e <= v
  BY <1>9, <1>11
<1>14. MaxGap \in Nat /\ MinSegment \in Nat /\ MaxGap < MinSegment
  BY MergeAssumption
<1> HIDE DEF u, v, s, e
<1>15. ~(s - e <= MaxGap)
  BY <1>12, <1>13, <1>14
<1> QED BY <1>15 DEF s, e

Spoken(i, spk) == words[i].timed /\ labels[i] = spk

\* s lasts from word a to word b of a speaker, with no word of anybody else in between.
Piece(s, a, b, spk) ==
  /\ a <= b /\ Spoken(a, spk) /\ Spoken(b, spk)
  /\ \A i \in a..b : words[i].timed => labels[i] = spk
  /\ s = [start |-> words[a].start, end |-> words[b].end]

\* The stretches of a speaker in the first k words.
StretchesOf(k, q, spk) ==
  /\ \A x \in DOMAIN q : \E a, b \in 1..k : Piece(q[x], a, b, spk)
  /\ q = <<>> => \A i \in 1..k : ~Spoken(i, spk)
  /\ q # <<>> => \E a, b \in 1..k :
                   /\ Piece(q[Len(q)], a, b, spk)
                   /\ \A i \in (b + 1)..k : ~Spoken(i, spk)

\* One more word of the speaker, soon enough after a piece.
LEMMA PieceGoesOn ==
  ASSUME WordInv, stage = "done", Consecutive(words), ShortRuns(labels) = {},
         NEW c \in DOMAIN words, NEW spk, Spoken(c, spk),
         NEW a \in 1..(c - 1), NEW b \in 1..(c - 1), NEW s, Piece(s, a, b, spk),
         \A i \in (b + 1)..(c - 1) : ~Spoken(i, spk),
         words[c].start - s.end <= MaxGap
  PROVE  /\ words[b].end <= words[c].end
         /\ Piece([start |-> words[a].start, end |-> words[c].end], a, c, spk)
<1>1. /\ DOMAIN words = 1..Len(words) /\ Len(words) \in Nat /\ c \in Int /\ a \in Int /\ b \in Int
      /\ a < c /\ b < c /\ a \in DOMAIN words /\ b \in DOMAIN words
  BY DEF WordInv
<1>2. s.end = words[b].end /\ Spoken(a, spk) /\ Spoken(b, spk)
      /\ \A i \in a..b : words[i].timed => labels[i] = spk
  BY DEF Piece
<1>3. words[b].end <= words[c].end
  <2>1. words[b].end <= words[c].start /\ words[c].start <= words[c].end
    BY <1>1, <1>2 DEF Consecutive, Spoken
  <2>2. words[b].end \in Int /\ words[c].start \in Int /\ words[c].end \in Int
    BY <1>1 DEF WordInv
  <2> QED BY <2>1, <2>2
<1>4. ASSUME NEW i \in a..c, words[i].timed PROVE labels[i] = spk
  <2>1. CASE i \in a..b
    BY <1>2, <1>4, <2>1
  <2>2. CASE i = c
    BY <2>2 DEF Spoken
  <2>3. CASE i \in (b + 1)..(c - 1)
    <3>1. i \in DOMAIN words /\ b < i /\ i < c
      BY <1>1, <2>3
    <3>2. SUFFICES ASSUME labels[i] # spk PROVE FALSE
      OBVIOUS
    <3>3. words[b].timed /\ words[c].timed /\ labels[b] = spk /\ labels[c] = spk
      BY <1>2 DEF Spoken
    <3>4. ~(words[c].start - words[b].end <= MaxGap)
      BY <1>1, <1>4, <3>1, <3>2, <3>3, LongGap
    <3> QED BY <1>2, <3>4
  <2> QED BY <1>1, <1>4, <2>1, <2>2, <2>3
<1>5. a <= c
  BY <1>1
<1> QED BY <1>2, <1>3, <1>4, <1>5 DEF Piece

\* One more word: of somebody else, soon enough after the last one, or after a pause.
LEMMA OneMoreSpoken ==
  ASSUME WordInv, stage = "done", Consecutive(words), ShortRuns(labels) = {},
         NEW k \in Nat, k + 1 <= Len(words), NEW spk,
         NEW q \in Seq(Stretch), StretchesOf(k, q, spk)
  PROVE  /\ WithWord(q, k + 1, spk) \in Seq(Stretch)
         /\ StretchesOf(k + 1, WithWord(q, k + 1, spk), spk)
<1> DEFINE c == k + 1
           new == WithWord(q, c, spk)
           s == [start |-> words[c].start, end |-> words[c].end]
           l == Len(q)
<1>1. /\ c \in DOMAIN words /\ c \in Nat /\ c - 1 = k /\ c \in 1..c
      /\ \A i \in 1..c : i \in 1..k \/ i = c
      /\ \A i \in 1..k : i \in 1..c
      /\ \A b \in 1..k : \A i \in (b + 1)..c : i \in (b + 1)..k \/ i = c
      /\ (c + 1)..c = {}
  BY DEF WordInv
<1>2. l \in Nat /\ DOMAIN q = 1..l /\ (q # <<>> => l \in 1..l)
  BY LenProperties, EmptySeq
<1> HIDE DEF c
<1>3. /\ new \in Seq(Stretch)
      /\ new = IF ~Spoken(c, spk) THEN q
               ELSE IF q # <<>> /\ words[c].start - q[l].end <= MaxGap THEN Longer(q, c)
               ELSE Append(q, s)
  BY <1>1, WithWordIs DEF Spoken, Last
<1> HIDE DEF new, l
<1>4. /\ \A x \in DOMAIN q : \E a, b \in 1..k : Piece(q[x], a, b, spk)
      /\ q = <<>> => \A i \in 1..k : ~Spoken(i, spk)
      /\ q # <<>> => \E a, b \in 1..k :
                       Piece(q[l], a, b, spk) /\ \A i \in (b + 1)..k : ~Spoken(i, spk)
  BY DEF StretchesOf, l
<1>5. \A x \in DOMAIN q : \E a, b \in 1..c : Piece(q[x], a, b, spk)
  BY <1>1, <1>4
<1>6. CASE ~Spoken(c, spk)
  <2>1. new = q
    BY <1>3, <1>6
  <2>2. q = <<>> => \A i \in 1..c : ~Spoken(i, spk)
    BY <1>1, <1>4, <1>6
  <2>3. q # <<>> => \E a, b \in 1..c :
                      Piece(q[l], a, b, spk) /\ \A i \in (b + 1)..c : ~Spoken(i, spk)
    BY <1>1, <1>4, <1>6
  <2>4. StretchesOf(c, q, spk)
    BY <1>5, <2>2, <2>3 DEF StretchesOf, l
  <2> QED BY <1>3, <2>1, <2>4 DEF c, new
<1>7. CASE Spoken(c, spk) /\ q # <<>> /\ words[c].start - q[l].end <= MaxGap
  <2>1. new = Longer(q, c)
    BY <1>3, <1>7
  <2>2. PICK a \in 1..k, b \in 1..k :
          Piece(q[l], a, b, spk) /\ \A i \in (b + 1)..k : ~Spoken(i, spk)
    BY <1>4, <1>7
  <2>3. /\ words[b].end <= words[c].end
        /\ Piece([start |-> words[a].start, end |-> words[c].end], a, c, spk)
    <3>1. a \in 1..(c - 1) /\ b \in 1..(c - 1)
      BY <1>1
    <3> QED BY <1>1, <1>7, <2>2, <3>1, PieceGoesOn
  <2>4. q[l].start = words[a].start /\ q[l].end = words[b].end
    BY <2>2 DEF Piece
  <2>5. /\ Len(new) = l
        /\ \A x \in 1..l : x # l => new[x] = q[x]
        /\ new[l] = [start |-> q[l].start,
                     end |-> IF q[l].end >= words[c].end THEN q[l].end ELSE words[c].end]
    BY <1>1, <1>7, <2>1, LongerIs DEF l
  <2>6. new[l] = [start |-> words[a].start, end |-> words[c].end]
    <3>1. words[b].end \in Int /\ words[c].end \in Int
      <4>1. b \in DOMAIN words
        BY <1>1 DEF c, WordInv
      <4> QED BY <1>1, <4>1 DEF WordInv
    <3>2. (IF q[l].end >= words[c].end THEN q[l].end ELSE words[c].end) = words[c].end
      BY <2>3, <2>4, <3>1
    <3> QED BY <2>4, <2>5, <3>2
  <2>7. Piece(new[l], a, c, spk) /\ a \in 1..c
    BY <1>1, <2>3, <2>6
  <2>8. DOMAIN new = 1..l
    BY <1>3, <2>5, LenProperties
  <2>9. \A x \in DOMAIN new : \E d, e \in 1..c : Piece(new[x], d, e, spk)
    BY <1>1, <1>2, <1>5, <2>5, <2>7, <2>8
  <2>10. new # <<>>
    BY <1>2, <1>7, <2>5, EmptySeq
  <2>11. StretchesOf(c, new, spk)
    BY <1>1, <2>5, <2>7, <2>9, <2>10 DEF StretchesOf
  <2> QED BY <1>3, <2>11 DEF c, new
<1>8. CASE Spoken(c, spk) /\ ~(q # <<>> /\ words[c].start - q[l].end <= MaxGap)
  <2>1. new = Append(q, s)
    BY <1>3, <1>8
  <2>2. s \in Stretch
    BY <1>1 DEF Stretch, WordInv
  <2>3. /\ Len(new) = l + 1 /\ new[l + 1] = s
        /\ \A x \in 1..l : new[x] = q[x]
    BY <2>1, <2>2, AppendProperties DEF l
  <2>4. DOMAIN new = 1..(l + 1) /\ \A x \in 1..(l + 1) : x \in 1..l \/ x = l + 1
    BY <1>2, <1>3, <2>3, LenProperties
  <2>5. Piece(s, c, c, spk)
    <3>1. c <= c /\ \A i \in c..c : i = c
      BY <1>1
    <3> QED BY <1>8, <3>1 DEF Piece, Spoken
  <2>6. \A x \in DOMAIN new : \E d, e \in 1..c : Piece(new[x], d, e, spk)
    BY <1>1, <1>2, <1>5, <2>3, <2>4, <2>5
  <2>7. new # <<>>
    BY <1>2, <2>3, EmptySeq
  <2>8. StretchesOf(c, new, spk)
    BY <1>1, <2>3, <2>5, <2>6, <2>7 DEF StretchesOf
  <2> QED BY <1>3, <2>8 DEF c, new
<1> QED BY <1>6, <1>7, <1>8

\* Stretches are pieces of one voice.
LEMMA StretchesAre ==
  ASSUME WordInv, stage = "done", Consecutive(words), ShortRuns(labels) = {}, NEW spk
  PROVE  Stretches(spk) \in Seq(Stretch) /\ StretchesOf(Len(words), Stretches(spk), spk)
<1>1. PICK h : /\ h[0] = <<>> /\ h[Len(words)] = Stretches(spk)
               /\ \A k \in 1..Len(words) : h[k] = WithWord(h[k - 1], k, spk)
  BY StretchesSteps
<1>2. Len(words) \in Nat
  BY DEF WordInv
<1> DEFINE K == {k \in Nat : k <= Len(words) => h[k] \in Seq(Stretch) /\ StretchesOf(k, h[k], spk)}
<1>3. 0 \in K
  <2>1. DOMAIN <<>> = {} /\ <<>> \in Seq(Stretch) /\ 1..0 = {}
    OBVIOUS
  <2>2. StretchesOf(0, <<>>, spk)
    BY <2>1 DEF StretchesOf
  <2> QED BY <1>1, <2>1, <2>2
<1>4. ASSUME NEW k \in Nat, k \in K PROVE k + 1 \in K
  <2>1. SUFFICES ASSUME k + 1 <= Len(words)
                 PROVE  h[k + 1] \in Seq(Stretch) /\ StretchesOf(k + 1, h[k + 1], spk)
    OBVIOUS
  <2>2. h[k] \in Seq(Stretch) /\ StretchesOf(k, h[k], spk)
    BY <1>2, <1>4, <2>1
  <2>3. h[k + 1] = WithWord(h[k], k + 1, spk)
    <3>1. k + 1 \in 1..Len(words) /\ k + 1 - 1 = k
      BY <1>2, <2>1
    <3> QED BY <1>1, <3>1
  <2> QED BY <2>1, <2>2, <2>3, OneMoreSpoken
<1>5. Len(words) \in K
  <2> HIDE DEF K
  <2> QED BY <1>2, <1>3, <1>4, SetInduction
<1> QED BY <1>1, <1>2, <1>5

\* Of a set of stretches one is the first of the longest.
Better(s, t) ==
  \/ s.end - s.start > t.end - t.start
  \/ s.end - s.start = t.end - t.start /\ s.start < t.start

\* So Clip has one to choose.
LEMMA BestExists ==
  ASSUME NEW A \in SUBSET Stretch, IsFiniteSet(A), A # {}
  PROVE  \E s \in A : \A t \in A \ {s} : Better(s, t)
<1> DEFINE long(s) == s.end - s.start
           L == {long(s) : s \in A}
           m == Max(L)
           B == {s \in A : long(s) = m}
           F == {s.start : s \in B}
<1>1. L \in SUBSET Int /\ L # {}
  BY DEF Stretch
<1>2. IsFiniteSet(L)
  <2>1. [s \in A |-> long(s)] \in Surjection(A, L)
    BY DEF Surjection
  <2> HIDE DEF L
  <2> QED BY <2>1, FS_Surjection
<1>3. m \in L /\ \A x \in L : x <= m
  <2> HIDE DEF L
  <2> QED BY <1>1, <1>2, MaxIs
<1> HIDE DEF m
<1>4. F \in SUBSET Int /\ F # {}
  BY <1>3 DEF Stretch
<1>5. IsFiniteSet(F)
  <2>1. IsFiniteSet(B)
    BY FS_Subset
  <2>2. [s \in B |-> s.start] \in Surjection(B, F)
    BY DEF Surjection
  <2> HIDE DEF B, F
  <2> QED BY <2>1, <2>2, FS_Surjection
<1>6. Min(F) \in F /\ \A x \in F : Min(F) <= x
  <2> HIDE DEF F
  <2> QED BY <1>4, <1>5, MinIs
<1>7. PICK s \in B : s.start = Min(F)
  BY <1>6
<1>8. ASSUME NEW t \in A, t # s PROVE Better(s, t)
  <2>1. /\ s = [start |-> s.start, end |-> s.end] /\ s.start \in Int /\ s.end \in Int
        /\ t = [start |-> t.start, end |-> t.end] /\ t.start \in Int /\ t.end \in Int
    BY <1>7, <1>8 DEF Stretch
  <2>2. long(t) <= m /\ long(s) = m
    BY <1>3, <1>7
  <2>3. long(t) = m => s.start <= t.start
    BY <1>6, <1>7
  <2>4. s.start # t.start \/ s.end # t.end
    BY <1>8, <2>1
  <2> QED BY <2>1, <2>2, <2>3, <2>4 DEF Better
<1> QED BY <1>7, <1>8

\* Clip begins with the piece chosen and ends with it at the latest.
LEMMA ClipIs ==
  ASSUME WordInv, stage = "done", Consecutive(words), ShortRuns(labels) = {}, NEW spk,
         NEW i \in DOMAIN words, Spoken(i, spk)
  PROVE  \E a, b \in DOMAIN words :
           /\ Piece([start |-> words[a].start, end |-> words[b].end], a, b, spk)
           /\ Clip(spk).start = words[a].start
           /\ Clip(spk).end \in Int /\ Clip(spk).end <= words[b].end
<1> DEFINE all == Stretches(spk)
           best == CHOOSE s \in ToSet(all) : \A t \in ToSet(all) \ {s} : Better(s, t)
<1>1. all \in Seq(Stretch) /\ StretchesOf(Len(words), all, spk)
  BY StretchesAre
<1>2. DOMAIN words = 1..Len(words) /\ Len(words) \in Nat
  BY DEF WordInv
<1> HIDE DEF all
<1>3. Len(all) \in Nat /\ DOMAIN all = 1..Len(all) /\ \A x \in DOMAIN all : all[x] \in Stretch
  BY <1>1, LenProperties, ElementOfSeq
<1>4. all # <<>>
  BY <1>1, <1>2 DEF StretchesOf
<1>5. ToSet(all) \in SUBSET Stretch /\ ToSet(all) # {} /\ IsFiniteSet(ToSet(all))
  <2>1. Len(all) # 0
    BY <1>1, <1>4, EmptySeq
  <2>2. ToSet(all) \in SUBSET Stretch /\ all[1] \in ToSet(all)
    BY <1>3, <2>1 DEF ToSet
  <2>3. IsFiniteSet(1..Len(all))
    BY <1>3, IntervalSize
  <2>4. all \in Surjection(1..Len(all), ToSet(all))
    <3>1. all = [x \in 1..Len(all) |-> all[x]]
      BY <1>1, <1>3
    <3> QED BY <1>3, <3>1 DEF ToSet, Surjection
  <2>5. IsFiniteSet(ToSet(all))
    BY <2>3, <2>4, FS_Surjection
  <2> QED BY <2>2, <2>5
<1>6. best \in ToSet(all)
  <2>1. \E s \in ToSet(all) : \A t \in ToSet(all) \ {s} : Better(s, t)
    BY <1>5, BestExists
  <2> QED BY <2>1
<1>7. Clip(spk) = [start |-> best.start, end |-> Min({best.end, best.start + Target})]
  BY DEF Clip, Better, all
<1> HIDE DEF best
<1>8. PICK x \in DOMAIN all : best = all[x]
  BY <1>6 DEF ToSet
<1>9. PICK a \in DOMAIN words, b \in DOMAIN words : Piece(best, a, b, spk)
  BY <1>1, <1>2, <1>8 DEF StretchesOf
<1>10. best = [start |-> words[a].start, end |-> words[b].end]
  BY <1>9 DEF Piece
<1>11. best.start = words[a].start /\ best.end = words[b].end
       /\ best.start \in Int /\ best.end \in Int /\ best.start + Target \in Int
  BY <1>10, MergeAssumption DEF WordInv
<1>12. Min({best.end, best.start + Target}) \in Int
       /\ Min({best.end, best.start + Target}) <= best.end
  <2>1. PICK u, v : u = best.end /\ v = best.start + Target
    OBVIOUS
  <2>2. u \in Int /\ v \in Int
    BY <1>11, <2>1
  <2>3. Min({u, v}) \in Int /\ Min({u, v}) <= u
    BY <2>2, SmallerOf
  <2> QED BY <2>1, <2>3
<1> QED BY <1>7, <1>9, <1>10, <1>11, <1>12

\* What overlaps a piece is one of its words.
LEMMA OverlapsInside ==
  ASSUME WordInv, Consecutive(words), NEW a \in DOMAIN words, NEW b \in DOMAIN words,
         words[a].timed, words[b].timed, NEW c, c.start = words[a].start,
         c.end \in Int, c.end <= words[b].end,
         NEW i \in DOMAIN words, Overlap(words[i], c) > 0
  PROVE  words[i].timed /\ i \in a..b
<1> DEFINE w == words[i]
           u == Min({w.end, c.end})
           v == Max({w.start, c.start})
<1>1. /\ w.start \in Int /\ w.end \in Int /\ c.start \in Int
      /\ words[b].end \in Int /\ a \in Int /\ b \in Int /\ i \in Int
  BY DEF WordInv
<1>2. w.timed
  <2>1. ~w.timed => Overlap(w, c) = 0
    BY DEF Overlap
  <2>2. ~(0 > 0)
    OBVIOUS
  <2> QED BY <2>1, <2>2
<1>3. Overlap(w, c) = Max({0, u - v})
  BY <1>2 DEF Overlap
<1>4. /\ u \in Int /\ u <= w.end /\ u <= c.end
      /\ v \in Int /\ w.start <= v /\ c.start <= v
  <2>1. PICK x, y : x = w.end /\ y = c.end
    OBVIOUS
  <2>2. PICK p, q : p = w.start /\ q = c.start
    OBVIOUS
  <2>3. x \in Int /\ y \in Int /\ p \in Int /\ q \in Int
    BY <1>1, <2>1, <2>2
  <2>4. Min({x, y}) \in Int /\ Min({x, y}) <= x /\ Min({x, y}) <= y
    BY <2>3, SmallerOf
  <2>5. Max({p, q}) \in Int /\ p <= Max({p, q}) /\ q <= Max({p, q})
    BY <2>3, LargerOf
  <2>6. u = Min({x, y}) /\ v = Max({p, q})
    BY <2>1, <2>2
  <2> HIDE DEF u, v
  <2> QED BY <2>1, <2>2, <2>4, <2>5, <2>6
<1> HIDE DEF u, v
<1>5. u > v
  <2>1. PICK d : d = u - v /\ d \in Int
    BY <1>4
  <2>2. Max({0, d}) > 0
    BY <1>3, <2>1
  <2>3. Max({0, d}) = IF 0 >= d THEN 0 ELSE d
    BY <2>1, LargerOf
  <2>4. d > 0
    BY <2>1, <2>2, <2>3
  <2> QED BY <1>4, <2>1, <2>4
<1>6. ~(i < a)
  <2>1. SUFFICES ASSUME i < a PROVE FALSE
    OBVIOUS
  <2>2. w.end <= c.start
    BY <1>2, <2>1 DEF Consecutive
  <2> QED BY <1>1, <1>4, <1>5, <2>2
<1>7. ~(b < i)
  <2>1. SUFFICES ASSUME b < i PROVE FALSE
    OBVIOUS
  <2>2. words[b].end <= w.start
    BY <1>2, <2>1 DEF Consecutive
  <2> QED BY <1>1, <1>4, <1>5, <2>2
<1>8. i \in a..b
  BY <1>1, <1>6, <1>7
<1> QED BY <1>2, <1>8

\* When the loop has ended no run is short.
DoneInv ==
  /\ Consecutive(words)
  /\ stage = "done" => ShortRuns(labels) = {}

\* What is short depends on the words and labels alone.
LEMMA ShortRunsSame ==
  ASSUME UNCHANGED <<words, labels>>
  PROVE  ShortRuns(labels)' = ShortRuns(labels)
BY DEF ShortRuns, Short, Timed, Runs

\* The clip of a speaker begins with a word of theirs and holds no word of anybody else,
\* for every recording whose words follow each other.
THEOREM ClipHasOneVoice ==
  ASSUME InOrder
  PROVE  MergeSpec => []ClipIsOneVoice
<1>1. MergeInit => WordInv /\ DoneInv
  <2>1. MergeInit => DoneInv
    BY DEF MergeInit, DoneInv, InOrder
  <2> QED BY <2>1, InitWordInv
<1>2. WordInv /\ DoneInv /\ [MergeNext]_mergeVars => (WordInv /\ DoneInv)'
  <2>1. SUFFICES ASSUME DoneInv, [MergeNext]_mergeVars PROVE DoneInv'
    BY StepWordInv
  <2>2. CASE Assign \/ Shorten
    BY <2>1, <2>2 DEF Assign, Shorten, DoneInv, Consecutive
  <2>3. CASE Finish
    <3>1. UNCHANGED <<words, labels>> /\ ShortRuns(labels) = {}
      BY <2>3 DEF Finish
    <3> QED BY <2>1, <3>1, ShortRunsSame DEF DoneInv, Consecutive
  <2>4. CASE UNCHANGED mergeVars
    <3>1. UNCHANGED <<words, labels, stage>>
      BY <2>4 DEF mergeVars
    <3> QED BY <2>1, <3>1, ShortRunsSame DEF DoneInv, Consecutive
  <2> QED BY <2>1, <2>2, <2>3, <2>4 DEF MergeNext
<1>3. WordInv /\ DoneInv => ClipIsOneVoice
  <2> SUFFICES ASSUME WordInv, DoneInv, stage = "done",
                      NEW k \in DOMAIN words, words[k].timed, NEW spk, spk = labels[k]
               PROVE  /\ \E i \in DOMAIN words : words[i].timed /\ labels[i] = spk
                                                 /\ words[i].start = Clip(spk).start
                      /\ \A i \in DOMAIN words :
                           Overlap(words[i], Clip(spk)) > 0 => labels[i] = spk
    BY DEF ClipIsOneVoice
  <2>1. Consecutive(words) /\ ShortRuns(labels) = {} /\ Spoken(k, spk)
    BY DEF DoneInv, Spoken
  <2>2. PICK a \in DOMAIN words, b \in DOMAIN words :
          /\ Piece([start |-> words[a].start, end |-> words[b].end], a, b, spk)
          /\ Clip(spk).start = words[a].start
          /\ Clip(spk).end \in Int /\ Clip(spk).end <= words[b].end
    BY <2>1, ClipIs
  <2>3. /\ words[a].timed /\ labels[a] = spk /\ words[b].timed
        /\ \A i \in a..b : words[i].timed => labels[i] = spk
    BY <2>2 DEF Piece, Spoken
  <2>4. ASSUME NEW i \in DOMAIN words, Overlap(words[i], Clip(spk)) > 0
        PROVE  labels[i] = spk
    <3>1. words[i].timed /\ i \in a..b
      BY <2>1, <2>2, <2>3, <2>4, OverlapsInside
    <3> QED BY <2>3, <3>1
  <2> QED BY <2>2, <2>3, <2>4
<1> QED BY <1>1, <1>2, <1>3, PTL DEF MergeSpec
=============================================================================
