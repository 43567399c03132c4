-------------------------- MODULE SessionLifecycle --------------------------
(***************************************************************************)
(* What the service promises its user about a session, without workers,    *)
(* queues or crashes: the meaning of SessionStatus in backend/app/models.py*)
(* and of expires_at in backend/cleanup/cleanup.py.                        *)
(*   open    audio may still be added                                      *)
(*   busy    accepted; the user waits (queued or being transcribed)        *)
(*   ready   the transcript is there, and its expiry date is fixed         *)
(*   failed  processing failed (it may be tried again)                     *)
(*   gone    removed by the user or by cleanup                             *)
(***************************************************************************)
CONSTANT Sessions

VARIABLES view, expiry

lvars == <<view, expiry>>

LTypeOK ==
  /\ view \in [Sessions -> {"none", "open", "busy", "ready", "failed", "gone"}]
  /\ expiry \in [Sessions -> {"null", "set", "due"}]

LInit ==
  /\ view = [s \in Sessions |-> "none"]
  /\ expiry = [s \in Sessions |-> "null"]

Show(s, from, to) == view[s] = from /\ view' = [view EXCEPT ![s] = to]

Open(s) == Show(s, "none", "open") /\ UNCHANGED expiry

Submit(s) == Show(s, "open", "busy") /\ UNCHANGED expiry

\* The only step that fixes the expiry date is the one that shows the result:
\* of a recording after its transcription, of a text at once.
Deliver(s) ==
  /\ Show(s, "busy", "ready") \/ Show(s, "none", "ready")
  /\ expiry' = [expiry EXCEPT ![s] = "set"]

Fail(s) == Show(s, "busy", "failed") /\ UNCHANGED expiry

Retry(s) == Show(s, "failed", "busy") /\ UNCHANGED expiry

\* All of a set of sessions disappears at once.
Vanish(S) ==
  /\ view' = [s \in Sessions |-> IF s \in S THEN "gone" ELSE view[s]]
  /\ expiry' = [s \in Sessions |-> IF s \in S THEN "null" ELSE expiry[s]]

Discard(s) == view[s] \notin {"none", "gone"} /\ Vanish({s})

Lapse(s) ==
  /\ expiry[s] = "set"
  /\ expiry' = [expiry EXCEPT ![s] = "due"]
  /\ UNCHANGED view

\* Cleanup removes what is due, and nothing that is not ready.
Purge ==
  LET due == {s \in Sessions : expiry[s] = "due"} IN
  /\ due # {}
  /\ \A s \in due : view[s] = "ready"
  /\ Vanish(due)

LNext ==
  \/ \E s \in Sessions : \/ Open(s) \/ Submit(s) \/ Deliver(s) \/ Fail(s)
                         \/ Retry(s) \/ Discard(s) \/ Lapse(s)
  \/ Purge

LSpec == LInit /\ [][LNext]_lvars
=============================================================================
