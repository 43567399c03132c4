----------------------------- MODULE ArqQueue -----------------------------
(***************************************************************************)
(* What the arq/Redis job queue keeps about one job id, and what the calls *)
(* of this repository do to it.  arq is a dependency, not part of the      *)
(* source: these operators describe the keys backend/app/queue.py and the  *)
(* recovery hooks of the workers rely on and name:                         *)
(*   key     arq:job:<id> together with its entry in the queue's zset      *)
(*   held    arq:in-progress:<id>, a worker has taken the job              *)
(*   result  arq:result:<id>, kept for keep_result seconds after the end   *)
(* Every job id is derived from a row (stt:<session>, report:<report>,     *)
(* diarize:<row>), so a job is a function of its row and its arguments     *)
(* need not be kept.                                                       *)
(* Not modelled: the 24-hour limits (job_timeout, the expiry of job data   *)
(* and of the in-progress key); every run is taken to last less than that. *)
(***************************************************************************)

Job == [key : BOOLEAN, held : BOOLEAN, result : BOOLEAN]

NoJob == [key |-> FALSE, held |-> FALSE, result |-> FALSE]

Known(j) == j.key \/ j.result

\* enqueue_job with a fixed _job_id: ignored while the job or its result exists.
Enqueue(j) == IF Known(j) THEN j ELSE [j EXCEPT !.key = TRUE]

\* Mutant: the in-progress key is not looked at.
ClaimableHeld(j) == j.key

\* A worker takes only a job that no worker holds.
Claimable(j) == j.key /\ ~j.held

Claim(j) == [j EXCEPT !.held = TRUE]

\* The coroutine returned, or raised: the job is over and its result is kept.
Finish(j) == [key |-> FALSE, held |-> FALSE, result |-> TRUE]

\* The coroutine was cancelled (worker shutdown) or is to be tried again: the
\* job stays in the queue and may be taken once more.
Release(j) == [j EXCEPT !.held = FALSE]

\* The result key expires.
ForgetResult(j) == [j EXCEPT !.result = FALSE]

\* Mutant: the job is enqueued without its keys being deleted first.
ResetKeepsKeys(j) == Enqueue(j)

\* The recovery hooks delete every key of the job, whoever holds it, and
\* enqueue it afresh.
Reset(j) == Enqueue(NoJob)
=============================================================================
