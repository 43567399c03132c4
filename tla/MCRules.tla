------------------------------ MODULE MCRules ------------------------------
(***************************************************************************)
(* The rules the program computes with, side by side: in every behaviour   *)
(* one of SpeakerMerge, Workdays and Hotwords gets an input to work on,    *)
(* and the other two have nothing to do.                                   *)
(***************************************************************************)
EXTENDS SpeakerMerge, Workdays, Hotwords

-----------------------------------------------------------------------------
(* SpeakerMerge: four words, of which one may lack its times, after a pause or not, *)
(* and four turns of three speakers, with overlaps and gaps                         *)

Words(durations, pause, untimed) ==
  LET from[i \in 1..4] == IF i = 1 THEN 0
                          ELSE from[i - 1] + durations[i - 1] + (IF i = pause THEN 2 ELSE 0)
  IN [i \in 1..4 |-> [timed |-> i # untimed, start |-> from[i], end |-> from[i] + durations[i]]]

Turns(order, lengths, speakers) ==
  [k \in 1..4 |-> LET from == 2 * (order[k] - 1)
                  IN [start |-> from, end |-> from + lengths[k], speaker |-> speakers[k]]]

MCRecordings ==
  {[words |-> Words(d, p, u), turns |-> Turns(o, l, s)] :
     d \in [1..4 -> {1, 2}], p \in {0, 3}, u \in {0, 1, 3},
     o \in {<<1, 2, 3, 4>>, <<2, 1, 4, 3>>}, l \in {<<1, 1, 3, 2>>, <<2, 4, 1, 2>>},
     s \in [1..4 -> {"a", "b", "c"}]}

-----------------------------------------------------------------------------
(* Workdays: all starts of a week, up to eight working days, every set of holidays in *)
(* the week that follows; Hotwords: glossaries of four lines out of seven             *)

MCStarts == 0..6
MCCounts == 0..8
MCHolidaySets == SUBSET (4..9)

Term(lower, capitals, spaced, length) ==
  [lower |-> lower, capitals |-> capitals, spaced |-> spaced, length |-> length]

MCTerms == {Term("", 0, FALSE, 0),
            Term("apv", 0, FALSE, 3), Term("apv", 3, FALSE, 3),
            Term("leidse ring", 2, TRUE, 11), Term("ggd", 3, FALSE, 3),
            Term("bijstand", 0, FALSE, 8), Term("henri de wit", 2, TRUE, 12)}

MCGlossaries == [1..4 -> MCTerms]

-----------------------------------------------------------------------------
(* One of the three at work *)

MergeIdle == words = <<>> /\ turns = <<>> /\ filled = <<>> /\ labels = <<>> /\ stage = "done"
DaysIdle == start = 0 /\ n = 0 /\ holidays = {} /\ result = 0 /\ added = 0
PickIdle == lines = <<>> /\ next = 1 /\ out = <<>> /\ total = 0

RulesInit ==
  \/ MergeInit /\ DaysIdle /\ PickIdle
  \/ MergeIdle /\ DaysInit /\ PickIdle
  \/ MergeIdle /\ DaysIdle /\ PickInit

RulesNext ==
  \/ MergeNext /\ UNCHANGED <<daysVars, pickVars>>
  \/ NextDay /\ UNCHANGED <<mergeVars, pickVars>>
  \/ PickNext /\ UNCHANGED <<mergeVars, daysVars>>

RulesSpec == RulesInit /\ [][RulesNext]_<<mergeVars, daysVars, pickVars>>
=============================================================================
