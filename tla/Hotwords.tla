------------------------------ MODULE Hotwords ------------------------------
(***************************************************************************)
(* _select_hotwords of backend/worker/worker.py: which terms of a glossary *)
(* are passed to Whisper as hotwords, within a limit of characters.        *)
(*                                                                         *)
(* A line of the glossary is, stripped: its spelling, the same in lower    *)
(* case, how many capitals it has, whether it holds a space, its length.   *)
(***************************************************************************)
EXTENDS Integers, Sequences, FiniteSets, SequencesExt

CONSTANTS
  Glossaries,  \* sequences of lines
  Limit        \* limit, in characters

ASSUME HotwordsAssumption ==
  /\ Limit \in Nat
  /\ \A ls \in Glossaries :
       /\ ls \in Seq({ls[i] : i \in DOMAIN ls})
       /\ \A i \in DOMAIN ls :
            ls[i].capitals \in Nat /\ ls[i].spaced \in BOOLEAN /\ ls[i].length \in Nat
       \* The lower case of a line is blank when the line is.
       /\ \A i, j \in DOMAIN ls :
            ls[i].lower = ls[j].lower => (ls[i].length = 0 <=> ls[j].length = 0)

VARIABLES
  lines,  \* the glossary
  next,   \* the place of the term to look at
  out,    \* the places of the terms taken
  total   \* their characters, with a separator of two each

pickVars == <<lines, next, out, total>>

\* Mutant: upper and lower case are different terms.
TermsByCase(ls) ==
  FoldLeft(LAMBDA seen, l :
             IF l.length = 0 \/ \E i \in DOMAIN seen : seen[i] = l
             THEN seen ELSE Append(seen, l),
           <<>>, ls)

\* The terms, without blank lines and without those that differ in case only from an
\* earlier one.
Terms(ls) ==
  FoldLeft(LAMBDA seen, l :
             IF l.length = 0 \/ \E i \in DOMAIN seen : seen[i].lower = l.lower
             THEN seen ELSE Append(seen, l),
           <<>>, ls)

\* Is u more important than t: more capitals, or as many and u alone has a space?
Above(u, t) ==
  \/ u.capitals > t.capitals
  \/ u.capitals = t.capitals /\ u.spaced /\ ~t.spaced

\* terms.sort(key, reverse=True): the most important first, else in their order.
Ranked(ts) ==
  FoldLeft(LAMBDA sorted, t :
             InsertAt(sorted, 1 + Cardinality({i \in DOMAIN sorted : ~Above(t, sorted[i])}), t),
           <<>>, ts)

Candidates == Ranked(Terms(lines))

Size(t) == t.length + 2

PickInit ==
  /\ lines \in Glossaries
  /\ next = 1
  /\ out = <<>>
  /\ total = 0

\* Mutant: the separator is not counted.
TakeBare ==
  /\ next <= Len(Candidates)
  /\ total + Candidates[next].length <= Limit
  /\ out' = Append(out, next)
  /\ total' = total + Candidates[next].length
  /\ next' = next + 1
  /\ UNCHANGED lines

\* A term that fits is taken.
Take ==
  /\ next <= Len(Candidates)
  /\ total + Size(Candidates[next]) <= Limit
  /\ out' = Append(out, next)
  /\ total' = total + Size(Candidates[next])
  /\ next' = next + 1
  /\ UNCHANGED lines

\* Mutant: the first term that does not fit ends the selection.
SkipRest ==
  /\ next <= Len(Candidates)
  /\ total + Size(Candidates[next]) > Limit
  /\ next' = Len(Candidates) + 1
  /\ UNCHANGED <<lines, out, total>>

\* A term too long for what is left is passed over; a shorter one may follow.
Skip ==
  /\ next <= Len(Candidates)
  /\ total + Size(Candidates[next]) > Limit
  /\ next' = next + 1
  /\ UNCHANGED <<lines, out, total>>

PickNext == Take \/ Skip

PickSpec == PickInit /\ [][PickNext]_pickVars

-----------------------------------------------------------------------------
(* Properties *)

Picked == ToSet(out)

\* The length of ", ".join of the terms at the places o.
JoinedSize(o) ==
  FoldLeft(LAMBDA sum, i : sum + Candidates[i].length, 0, o)
  + (IF o = <<>> THEN 0 ELSE 2 * (Len(o) - 1))

\* The string handed to Whisper, terms joined by ", ", is never longer than the limit,
\* whatever the glossary.
WithinLimit == JoinedSize(out) <= Limit

\* A term is left out only for want of room: at the end no term that is left out could
\* be joined to the others and leave two characters of the limit (a term that just
\* fits may be left out: the code reserves a separator behind the last term as well);
\* and of two terms the less important one is taken instead of the other only when it
\* is shorter.
LeftOutForLength ==
  next > Len(Candidates) =>
    \A i \in DOMAIN Candidates \ Picked :
      /\ JoinedSize(Append(out, i)) + 2 > Limit
      /\ \A j \in Picked : Above(Candidates[i], Candidates[j]) =>
                             Candidates[j].length < Candidates[i].length

\* No two hotwords are the same but for capitals, and of such spellings the one that
\* stands first in the glossary is the one that counts, also when a later one has
\* more capitals and would rank higher.
FirstSpelling ==
  \A i \in Picked :
    /\ \A j \in Picked : Candidates[i].lower = Candidates[j].lower => i = j
    /\ \E k \in DOMAIN lines :
         /\ lines[k] = Candidates[i]
         /\ \A m \in 1..(k - 1) : lines[m].lower # lines[k].lower
=============================================================================
