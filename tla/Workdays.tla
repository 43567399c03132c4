------------------------------ MODULE Workdays ------------------------------
(***************************************************************************)
(* The end of the retention period: add_working_days of                    *)
(* backend/app/workdays.py, one step per day it looks at.                  *)
(*                                                                         *)
(* A day is its distance from some Monday, so that its weekday() is its    *)
(* remainder modulo 7; the time of day is carried along unchanged.         *)
(***************************************************************************)
EXTENDS Integers, FiniteSets

CONSTANTS
  Starts,       \* days on which a session may be finished
  Counts,       \* numbers of working days to add
  HolidaySets   \* sets of extra holidays

ASSUME WorkdaysAssumption ==
  /\ Starts \subseteq Nat
  /\ Counts \subseteq Nat
  /\ \A H \in HolidaySets : H \subseteq Nat

VARIABLES
  start,     \* the day it was finished
  n,         \* the working days to add
  holidays,  \* extra_holidays
  result,    \* the day looked at
  added      \* the working days counted

daysVars == <<start, n, holidays, result, added>>

Saturday == 5

\* Mutant: Saturday counts as a working day.
IsWorkdaySixDays(d) == d % 7 <= Saturday /\ d \notin holidays

\* A day that counts: before Saturday, and no holiday.
IsWorkday(d) == d % 7 < Saturday /\ d \notin holidays

DaysInit ==
  /\ start \in Starts
  /\ n \in Counts
  /\ holidays \in HolidaySets
  /\ result = start
  /\ added = 0

\* One pass of the loop.
NextDay ==
  /\ added < n
  /\ result' = result + 1
  /\ added' = IF IsWorkday(result + 1) THEN added + 1 ELSE added
  /\ UNCHANGED <<start, n, holidays>>

DaysSpec == DaysInit /\ [][NextDay]_daysVars

-----------------------------------------------------------------------------
(* Properties *)

DaysTypeOK ==
  /\ start \in Nat
  /\ n \in Nat
  /\ holidays \subseteq Nat
  /\ result \in Nat
  /\ added \in 0..n

\* The Mondays to Fridays after day a, up to and with day b, holidays excepted.
WorkdaysIn(a, b) == {d \in ((a + 1)..b) \ holidays : d % 7 \in 0..4}

\* What was counted is the number of working days that have gone by since the start,
\* the day of the start not included.
CountsWorkdays == start <= result /\ added = Cardinality(WorkdaysIn(start, result))

\* When counting is over the session has had its n working days and not one day
\* more: the period ends on a working day, unless it has no days at all.
ExactPeriod ==
  added = n =>
    /\ Cardinality(WorkdaysIn(start, result)) = n
    /\ IF n = 0 THEN result = start ELSE result \in WorkdaysIn(start, result)
=============================================================================
