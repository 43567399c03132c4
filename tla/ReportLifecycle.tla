-------------------------- MODULE ReportLifecycle --------------------------
(***************************************************************************)
(* What a user sees of a report, whatever workers, queue and recoveries do *)
(* behind it: it is being made until it is ready or has failed; a failed   *)
(* one may be tried again, a ready one is only ever changed by its reader, *)
(* and it may be removed at any time, alone or with its session.           *)
(***************************************************************************)
CONSTANT Reports

VARIABLE view  \* what is shown of each report

View == {"none", "making", "ready", "edited", "failed", "gone"}

LInit == view = [r \in Reports |-> "none"]

Move(r, from, to) == view[r] \in from /\ view' = [view EXCEPT ![r] = to]

Ask(r)     == Move(r, {"none"}, "making")
Succeed(r) == Move(r, {"making"}, "ready")
Fail(r)    == Move(r, {"making"}, "failed")
Retry(r)   == Move(r, {"failed"}, "making")
Edit(r)    == Move(r, {"ready", "edited"}, "edited")

\* A set of reports is removed: one by its reader, all with their session.
Remove(S) ==
  /\ \A r \in S : view[r] # "none"
  /\ view' = [r \in Reports |-> IF r \in S THEN "gone" ELSE view[r]]

LNext ==
  \/ \E r \in Reports : Ask(r) \/ Succeed(r) \/ Fail(r) \/ Retry(r) \/ Edit(r)
  \/ \E S \in SUBSET Reports : Remove(S)

LSpec == LInit /\ [][LNext]_view
=============================================================================
