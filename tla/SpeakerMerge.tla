---------------------------- MODULE SpeakerMerge ----------------------------
(***************************************************************************)
(* Who said what: backend/app/diarize/merge.py gives every transcribed     *)
(* word a speaker from the turns of the recogniser, gives the words of     *)
(* fragments that are too short to a neighbour, names the speakers in the  *)
(* order in which they first speak, and picks for each a clip to listen    *)
(* to.                                                                     *)
(*                                                                         *)
(* One step is one pass of the loop "while True" of _apply_min_segment;    *)
(* what comes before it is one step, what follows from its result are      *)
(* operators.  Times are whole numbers of a quarter of a second.           *)
(***************************************************************************)
EXTENDS Integers, Sequences, FiniteSets, SequencesExt, FiniteSetsExt

CONSTANTS
  Recordings,  \* inputs: records of a sequence of words and one of turns
  MinGap,      \* DIARIZE_MIN_GAP
  MinSegment,  \* DIARIZE_MIN_SEGMENT
  MaxGap,      \* max_gap of pick_speaker_clips, below MinSegment
  Target,      \* target of pick_speaker_clips
  Letters      \* letters to name speakers with, 26 in the code

ASSUME MergeAssumption ==
  /\ {MinGap, MinSegment, MaxGap, Target} \subseteq Nat
  /\ MaxGap < MinSegment
  /\ Letters \in Nat \ {0}
  /\ \A x \in Recordings : x.words \in Seq([timed : BOOLEAN, start : Int, end : Int])

VARIABLES
  words,   \* the words: timed or not, start, end; those timed are in order
  turns,   \* the turns of the recogniser: start, end, speaker; in any order
  filled,  \* the speaker of each word before the loop
  labels,  \* the speaker of each word
  stage    \* assign, shorten (the loop), done

mergeVars == <<words, turns, filled, labels, stage>>

NoSpeaker == "None"

-----------------------------------------------------------------------------
(* Speakers of words *)

\* sorted(..., key=start), which is stable.
SortByStart(ts) ==
  FoldLeft(LAMBDA sorted, t :
             InsertAt(sorted, 1 + Cardinality({i \in DOMAIN sorted : sorted[i].start <= t.start}), t),
           <<>>, ts)

InOrderOfAppearance(s) ==
  FoldLeft(LAMBDA seen, x : IF Contains(seen, x) THEN seen ELSE Append(seen, x), <<>>, s)

\* The turns of one speaker, glued over gaps shorter than MinGap.
Glue(ts) ==
  FoldLeft(LAMBDA out, t :
             IF out # <<>> /\ t.start - Last(out).end < MinGap
             THEN [out EXCEPT ![Len(out)].end = Max({@, t.end})]
             ELSE Append(out, t),
           <<>>, SortByStart(ts))

\* coalesce_turns: speaker by speaker, then all of them by start.
Coalesce(ts) ==
  LET speakers == InOrderOfAppearance([i \in DOMAIN ts |-> ts[i].speaker])
      TurnsOf(spk) == SelectSeq(ts, LAMBDA t : t.speaker = spk)
  IN SortByStart(FoldLeft(LAMBDA out, spk : out \o Glue(TurnsOf(spk)), <<>>, speakers))

Overlap(w, t) ==
  IF w.timed THEN Max({0, Min({w.end, t.end}) - Max({w.start, t.start})}) ELSE 0

\* assign_word_speakers: the first turn with the largest overlap, if any.
SpeakerOf(w, ts) ==
  LET best == Max({0} \cup {Overlap(w, ts[i]) : i \in DOMAIN ts})
  IN IF best = 0 THEN NoSpeaker
     ELSE ts[Min({i \in DOMAIN ts : Overlap(w, ts[i]) = best})].speaker

\* _fill_unassigned: the speaker before, at the beginning the next one.
Fill(ls) ==
  LET known == {i \in DOMAIN ls : ls[i] # NoSpeaker}
      Before(i) == {j \in known : j <= i}
  IN [i \in DOMAIN ls |->
        IF known = {} THEN NoSpeaker
        ELSE IF Before(i) # {} THEN ls[Max(Before(i))] ELSE ls[Min(known)]]

-----------------------------------------------------------------------------
(* Runs of one speaker *)

\* _runs: the longest stretches <<a, b>> of words with one label.
Runs(ls) ==
  {r \in (DOMAIN ls) \X (DOMAIN ls) :
     /\ r[1] <= r[2]
     /\ \A i \in r[1]..r[2] : ls[i] = ls[r[1]]
     /\ r[1] = 1 \/ ls[r[1] - 1] # ls[r[1]]
     /\ r[2] = Len(ls) \/ ls[r[2] + 1] # ls[r[1]]}

Timed(r) == {i \in r[1]..r[2] : words[i].timed}

\* _run_duration < min_segment; without times a run counts as infinitely long.
Short(r) ==
  /\ Timed(r) # {}
  /\ Max({words[i].end : i \in Timed(r)}) - Min({words[i].start : i \in Timed(r)}) < MinSegment

\* The runs to go: none when a single one is left.
ShortRuns(ls) == IF Cardinality(Runs(ls)) <= 1 THEN {} ELSE {r \in Runs(ls) : Short(r)}

\* Mutant: to the first speaker of all, or the last.
GiveAwayFirst(ls, r) ==
  LET target == IF r[1] > 1 THEN ls[1] ELSE ls[Len(ls)]
  IN [i \in DOMAIN ls |-> IF i \in r[1]..r[2] THEN target ELSE ls[i]]

\* Mutant: and one word more.
GiveAwayMore(ls, r) ==
  LET target == IF r[1] > 1 THEN ls[r[1] - 1] ELSE ls[r[2] + 1]
  IN [i \in DOMAIN ls |-> IF i \in r[1]..(r[2] + 1) THEN target ELSE ls[i]]

\* The words of run r go to the neighbour before, at the beginning to the next.
GiveAway(ls, r) ==
  LET target == IF r[1] > 1 THEN ls[r[1] - 1] ELSE ls[r[2] + 1]
  IN [i \in DOMAIN ls |-> IF i \in r[1]..r[2] THEN target ELSE ls[i]]

-----------------------------------------------------------------------------
(* merge, up to and with its loop *)

MergeInit ==
  /\ \E x \in Recordings : words = x.words /\ turns = x.turns
  /\ filled = <<>>
  /\ labels = <<>>
  /\ stage = "assign"

Assign ==
  /\ stage = "assign"
  /\ LET ts == Coalesce(turns)
     IN filled' = Fill([i \in DOMAIN words |-> SpeakerOf(words[i], ts)])
  /\ labels' = filled'
  /\ stage' = "shorten"
  /\ UNCHANGED <<words, turns>>

\* One pass of the loop: the first run that is too short.
Shorten ==
  /\ stage = "shorten"
  /\ \E r \in ShortRuns(labels) :
       /\ \A q \in ShortRuns(labels) : r[1] <= q[1]
       /\ labels' = GiveAway(labels, r)
  /\ UNCHANGED <<words, turns, filled, stage>>

Finish ==
  /\ stage = "shorten"
  /\ ShortRuns(labels) = {}
  /\ stage' = "done"
  /\ UNCHANGED <<words, turns, filled, labels>>

MergeNext == Assign \/ Shorten \/ Finish

MergeSpec == MergeInit /\ [][MergeNext]_mergeVars

-----------------------------------------------------------------------------
(* What the result looks like *)

\* The speakers in the order of their names.
Order ==
  FoldLeft(LAMBDA seen, spk :
             IF spk = NoSpeaker \/ spk \in ToSet(seen) THEN seen ELSE Append(seen, spk),
           <<>>, labels)

\* Mutant: the alphabet begins again.
StableLabelWraps(i) == <<i % Letters>>

\* _stable_label: 0 -> A, 25 -> Z, 26 -> AA, as a sequence of letters 0..Letters-1.
StableLabel(i) ==
  LET name[n \in 0..(i + 1)] ==
        IF n = 0 THEN <<>> ELSE Append(name[(n - 1) \div Letters], (n - 1) % Letters)
  IN name[i + 1]

\* speaker_map: the name of a speaker.
NameOf(spk) ==
  LET order == Order
  IN StableLabel((CHOOSE i \in DOMAIN order : order[i] = spk) - 1)

\* Mutant: gaps are not looked at.
StretchesAll(spk) ==
  LET spoken == {i \in DOMAIN words : words[i].timed /\ labels[i] = spk}
  IN IF spoken = {} THEN <<>>
     ELSE <<[start |-> Min({words[i].start : i \in spoken}),
             end |-> Max({words[i].end : i \in spoken})]>>

\* Continuous speech: timed words of one speaker, with gaps of at most MaxGap.
Stretches(spk) ==
  FoldLeft(LAMBDA out, i :
             IF ~words[i].timed \/ labels[i] # spk THEN out
             ELSE IF out # <<>> /\ words[i].start - Last(out).end <= MaxGap
             THEN [out EXCEPT ![Len(out)].end = Max({@, words[i].end})]
             ELSE Append(out, [start |-> words[i].start, end |-> words[i].end]),
           <<>>, [i \in DOMAIN words |-> i])

\* pick_speaker_clips: of the first longest stretch, up to Target.
Clip(spk) ==
  LET all == Stretches(spk)
      Length(s) == s.end - s.start
      best == CHOOSE s \in ToSet(all) :
                \A t \in ToSet(all) \ {s} :
                  Length(s) > Length(t) \/ (Length(s) = Length(t) /\ s.start < t.start)
  IN [start |-> best.start, end |-> Min({best.end, best.start + Target})]

-----------------------------------------------------------------------------
(* Properties *)

MergeTypeOK ==
  /\ \A ls \in {filled, labels} :
       /\ Len(ls) \in {0, Len(words)}
       /\ ToSet(ls) \subseteq {NoSpeaker} \cup {turns[i].speaker : i \in DOMAIN turns}
       /\ NoSpeaker \in ToSet(ls) => ToSet(ls) = {NoSpeaker}
  /\ stage \in {"assign", "shorten", "done"}

\* The loop of _apply_min_segment cannot go round for ever: every pass leaves fewer
\* runs than it found, whoever the words of a short run go to.
RunsShrink ==
  [][stage = "shorten" /\ labels' # labels =>
       Cardinality(Runs(labels')) < Cardinality(Runs(labels))]_mergeVars

\* "Niet weggooien": words that were in a long enough run, or in one without times,
\* keep their speaker through all the passes; only words of a fragment too short end
\* up with somebody else.
LongRunsStay ==
  stage = "done" =>
    \A r \in Runs(filled) :
      ~Short(r) => \A i \in r[1]..r[2] : labels[i] = filled[i]

\* Names follow the order in which the speakers first speak, also past the last
\* letter of the alphabet: who begins to speak after somebody else has a longer name,
\* or one of the same length and later in the alphabet.
NamesFollowOrder ==
  LET Before(a, b) ==
        \/ Len(a) < Len(b)
        \/ /\ Len(a) = Len(b)
           /\ \E k \in DOMAIN a : a[k] < b[k] /\ \A j \in 1..(k - 1) : a[j] = b[j]
  IN stage = "done" =>
       \A p, q \in DOMAIN labels :
         /\ p < q
         /\ NoSpeaker \notin {labels[p], labels[q]}
         /\ \A o \in 1..(q - 1) : labels[o] # labels[q]
         => Before(NameOf(labels[p]), NameOf(labels[q]))

\* The clip of a speaker begins with a word of theirs and holds no word of anybody
\* else: whoever speaks in between for long enough to keep a fragment of their own
\* makes a gap too long for the clip.
ClipIsOneVoice ==
  stage = "done" =>
    \A spk \in {labels[i] : i \in {j \in DOMAIN words : words[j].timed}} \ {NoSpeaker} :
      /\ \E i \in DOMAIN words : words[i].timed /\ labels[i] = spk
                                 /\ words[i].start = Clip(spk).start
      /\ \A i \in DOMAIN words :
           Overlap(words[i], Clip(spk)) > 0 => labels[i] = spk
=============================================================================
