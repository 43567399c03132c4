--------------------------- MODULE Transcription ---------------------------
(***************************************************************************)
(* The life of a session from its creation to its removal: the API calls   *)
(* of backend/app/api/routes.py that create, complete and delete it, the   *)
(* STT job of backend/worker/worker.py that transcribes it on one or more  *)
(* worker processes, the recovery a starting worker performs, and the      *)
(* purge of backend/cleanup/cleanup.py.                                    *)
(*                                                                         *)
(* A step is what one process does between two awaits that others can be   *)
(* seen through: one committed database transaction, one Redis call, one   *)
(* call of ffmpeg or of the STT backend.  complete_upload is split at its  *)
(* awaits (read, commit, enqueue), and so is upload_chunk (check, store),  *)
(* since other requests may run in between.                                *)
(*                                                                         *)
(* The configuration is the default one, DIARIZE_BACKEND=none: the auto    *)
(* report is enqueued by transcribe_session itself.  What becomes of a     *)
(* report job is not part of this module.                                  *)
(***************************************************************************)
EXTENDS ArqQueue, Naturals, FiniteSets

CONSTANTS
  Sessions,        \* session tokens that may be handed out
  Workers,         \* worker processes (docker compose --scale worker=n)
  Callers,         \* requests that may be in flight for one session at a time
  SttConcurrency,  \* STT_CONCURRENCY, size of each worker's STT semaphore
  RetriesErrors,   \* does the queue run a job again that raised?
  StartsOverlap,   \* may a worker start up while another one is transcribing?
  MaxPuts,         \* bound: sessions with a chunk past its check, at a time
  MaxStops,        \* bound: orderly worker shutdowns
  MaxCrashes,      \* bound: worker crashes
  MaxApiCrashes    \* bound: API crashes

ASSUME ConstantsAssumption ==
  /\ SttConcurrency \in Nat \ {0}
  /\ RetriesErrors \in BOOLEAN
  /\ StartsOverlap \in BOOLEAN
  /\ MaxPuts \in Nat
  /\ MaxStops \in Nat
  /\ MaxCrashes \in Nat
  /\ MaxApiCrashes \in Nat

VARIABLES
  status,   \* sessions.status; "none": no row yet, "gone": row deleted
  expires,  \* sessions.expires_at: NULL, in the future, or past ("due")
  wants,    \* does sessions.auto_report ask for a report?
  reports,  \* how many auto reports rows the session has
  planned,  \* the ones among 1..reports whose job was put on the queue
  files,    \* the non-empty files in the session's storage directory
  put,      \* chunks of the session that are past the check of upload_chunk
  job,      \* the arq job stt:<session>
  call,     \* where each request of the API is, per caller and session
  up,       \* is the worker process running?
  run,      \* where each worker is in transcribe_session, per session
  own,      \* the auto report row the run created (auto_report_id)
  faults    \* shutdowns and crashes so far

rowVars  == <<status, expires, wants, reports, planned>>
vars == <<status, expires, wants, reports, planned, files, put, job, call, up,
          run, own, faults>>

Status == {"none", "created", "queued", "transcribing", "transcribed",
           "failed", "gone"}
Absent == {"none", "gone"}
PutPhase == {"idle", "body", "late"}
CallPhase == {"idle", "store", "commit", "enqueue", "report"}
RunPhase == {"idle", "begin", "audio", "wait", "stt", "save", "plan",
             "fail", "noaudio", "raise", "return"}

TypeOK ==
  /\ status \in [Sessions -> Status]
  /\ expires \in [Sessions -> {"null", "set", "due"}]
  /\ wants \in [Sessions -> BOOLEAN]
  /\ reports \in [Sessions -> Nat]
  /\ planned \in [Sessions -> SUBSET Nat]
  /\ files \in [Sessions -> SUBSET {"raw", "wav"}]
  /\ put \in [Sessions -> PutPhase]
  /\ job \in [Sessions -> Job]
  /\ call \in [Callers -> [Sessions -> CallPhase]]
  /\ up \in [Workers -> BOOLEAN]
  /\ run \in [Workers -> [Sessions -> RunPhase]]
  /\ own \in [Workers -> [Sessions -> Nat]]
  /\ faults \in [stop : Nat, crash : Nat, api : Nat]

Init ==
  /\ status = [s \in Sessions |-> "none"]
  /\ expires = [s \in Sessions |-> "null"]
  /\ wants = [s \in Sessions |-> FALSE]
  /\ reports = [s \in Sessions |-> 0]
  /\ planned = [s \in Sessions |-> {}]
  /\ files = [s \in Sessions |-> {}]
  /\ put = [s \in Sessions |-> "idle"]
  /\ job = [s \in Sessions |-> NoJob]
  /\ call = [c \in Callers |-> [s \in Sessions |-> "idle"]]
  /\ up = [w \in Workers |-> FALSE]
  /\ run = [w \in Workers |-> [s \in Sessions |-> "idle"]]
  /\ own = [w \in Workers |-> [s \in Sessions |-> 0]]
  /\ faults = [stop |-> 0, crash |-> 0, api |-> 0]

-----------------------------------------------------------------------------
(* The API *)

CallTo(c, s, phase) == call' = [call EXCEPT ![c][s] = phase]

\* create_session: a row for a recording whose chunks are still to come.
CreateSession(s) ==
  /\ status[s] = "none"
  /\ status' = [status EXCEPT ![s] = "created"]
  /\ \E wish \in BOOLEAN : wants' = [wants EXCEPT ![s] = wish]
  /\ UNCHANGED <<expires, reports, planned, files, put, job, call, up, run, own, faults>>

\* upload_chunk: the status is checked, then the body is awaited (put: "body").
\* (Which chunk it is, and its retries, are Upload's.)
UploadCheck(s) ==
  /\ status[s] = "created"
  /\ \A c \in Callers : call[c][s] # "store"
  /\ Cardinality({t \in Sessions : put[t] # "idle"} \ {s}) < MaxPuts
  /\ put' = [put EXCEPT ![s] = "body"]
  /\ UNCHANGED <<rowVars, files, job, call, up, run, own, faults>>

\* The body is there and is appended, whatever became of the session since the
\* check; a directory that was removed is made anew.
UploadStore(s) ==
  /\ put[s] # "idle"
  /\ files' = [files EXCEPT ![s] = @ \cup {"raw"}]
  /\ UNCHANGED <<rowVars, put, job, call, up, run, own, faults>>

\* No chunk is left past its check: the last one is stored, was refused for its
\* size (413) or broke off.
UploadChunksEnd(s) ==
  /\ put[s] = "body"
  /\ put' = [put EXCEPT ![s] = "idle"]
  /\ UNCHANGED <<rowVars, files, job, call, up, run, own, faults>>

\* complete_upload up to its first write: a session that is no longer being
\* uploaded is answered at once, one without audio is refused.
CompleteRead(c, s) ==
  /\ call[c][s] = "idle"
  /\ status[s] = "created"
  /\ "raw" \in files[s]
  /\ \A d \in Callers : call[d][s] # "store"
  /\ CallTo(c, s, "commit")
  /\ UNCHANGED <<rowVars, files, put, job, up, run, own, faults>>

\* complete_upload: status = QUEUED is committed on the row as it is now; a
\* row that was deleted meanwhile makes the commit fail.
CompleteCommit(c, s) ==
  /\ call[c][s] = "commit"
  /\ IF status[s] = "gone"
       THEN CallTo(c, s, "idle") /\ UNCHANGED status
       ELSE CallTo(c, s, "enqueue") /\ status' = [status EXCEPT ![s] = "queued"]
  /\ UNCHANGED <<expires, wants, reports, planned, files, put, job, up, run, own, faults>>

\* complete_upload and upload_file: enqueue_transcription after the commit.
EnqueueTranscription(c, s) ==
  /\ call[c][s] = "enqueue"
  /\ job' = [job EXCEPT ![s] = Enqueue(@)]
  /\ CallTo(c, s, "idle")
  /\ UNCHANGED <<rowVars, files, put, up, run, own, faults>>

\* upload_file: the row is committed before the body is stored.
UploadOpen(c, s) ==
  /\ status[s] = "none"
  /\ status' = [status EXCEPT ![s] = "created"]
  /\ \E wish \in BOOLEAN : wants' = [wants EXCEPT ![s] = wish]
  /\ CallTo(c, s, "store")
  /\ UNCHANGED <<expires, reports, planned, files, put, job, up, run, own, faults>>

\* upload_file: the whole body was stored and the session is queued ...
UploadStored(c, s) ==
  /\ call[c][s] = "store"
  /\ files' = [files EXCEPT ![s] = {"raw"}]
  /\ status' = [status EXCEPT ![s] = "queued"]
  /\ CallTo(c, s, "enqueue")
  /\ UNCHANGED <<expires, wants, reports, planned, put, job, up, run, own, faults>>

\* ... or was empty (400: the row stays) ...
UploadEmpty(c, s) ==
  /\ call[c][s] = "store"
  /\ CallTo(c, s, "idle")
  /\ UNCHANGED <<rowVars, files, put, job, up, run, own, faults>>

\* A chunk past its check finds its session removed.
Late(S) ==
  put' = [s \in Sessions |-> IF s \in S /\ put[s] = "body" THEN "late" ELSE put[s]]

\* Mutant: the files stay.
RemoveRowsOnly(S) ==
  /\ status' = [s \in Sessions |-> IF s \in S THEN "gone" ELSE status[s]]
  /\ expires' = [s \in Sessions |-> IF s \in S THEN "null" ELSE expires[s]]
  /\ reports' = [s \in Sessions |-> IF s \in S THEN 0 ELSE reports[s]]
  /\ planned' = [s \in Sessions |-> IF s \in S THEN {} ELSE planned[s]]
  /\ Late(S)
  /\ UNCHANGED <<wants, files>>

\* Mutant: the reports do not cascade.
RemoveNoCascade(S) ==
  /\ status' = [s \in Sessions |-> IF s \in S THEN "gone" ELSE status[s]]
  /\ expires' = [s \in Sessions |-> IF s \in S THEN "null" ELSE expires[s]]
  /\ files' = [s \in Sessions |-> IF s \in S THEN {} ELSE files[s]]
  /\ Late(S)
  /\ UNCHANGED <<wants, reports, planned>>

\* The rows of the sessions S, with the reports that cascade, and their files.  The
\* chunks that are past their check by then are late from now on.
Remove(S) ==
  /\ status' = [s \in Sessions |-> IF s \in S THEN "gone" ELSE status[s]]
  /\ expires' = [s \in Sessions |-> IF s \in S THEN "null" ELSE expires[s]]
  /\ reports' = [s \in Sessions |-> IF s \in S THEN 0 ELSE reports[s]]
  /\ planned' = [s \in Sessions |-> IF s \in S THEN {} ELSE planned[s]]
  /\ files' = [s \in Sessions |-> IF s \in S THEN {} ELSE files[s]]
  /\ Late(S)
  /\ UNCHANGED wants

\* ... or was too large (413: files and row are deleted).
UploadTooLarge(c, s) ==
  /\ call[c][s] = "store"
  /\ Remove({s})
  /\ CallTo(c, s, "idle")
  /\ UNCHANGED <<job, up, run, own, faults>>

\* create_text_session: the text is the transcript, there is no STT job.
CreateText(c, s) ==
  /\ status[s] = "none"
  /\ status' = [status EXCEPT ![s] = "transcribed"]
  /\ expires' = [expires EXCEPT ![s] = "set"]
  /\ \E wish \in BOOLEAN :
       /\ wants' = [wants EXCEPT ![s] = wish]
       /\ reports' = [reports EXCEPT ![s] = IF wish THEN 1 ELSE 0]
       /\ CallTo(c, s, IF wish THEN "report" ELSE "idle")
  /\ UNCHANGED <<planned, files, put, job, up, run, own, faults>>

\* create_text_session: enqueue_report after the commit.
EnqueueTextReport(c, s) ==
  /\ call[c][s] = "report"
  /\ planned' = [planned EXCEPT ![s] = IF status[s] = "gone" THEN @ ELSE @ \cup {1}]
  /\ CallTo(c, s, "idle")
  /\ UNCHANGED <<status, expires, wants, reports, files, put, job, up, run, own, faults>>

\* delete_session.  The token of an upload_file session is not known to the
\* client until that call has answered.
DeleteSession(s) ==
  /\ status[s] \notin Absent
  /\ \A c \in Callers : call[c][s] # "store"
  /\ Remove({s})
  /\ UNCHANGED <<job, call, up, run, own, faults>>

\* The API process dies: every request in flight is lost where it is.  (What a late
\* chunk has stored by then stays, and the mark that it was late with it.)
ApiCrash ==
  /\ faults.api < MaxApiCrashes
  /\ faults' = [faults EXCEPT !.api = @ + 1]
  /\ call' = [c \in Callers |-> [s \in Sessions |-> "idle"]]
  /\ put' = [s \in Sessions |-> IF put[s] = "late" /\ files[s] # {} THEN "late" ELSE "idle"]
  /\ UNCHANGED <<rowVars, files, job, up, run, own>>

-----------------------------------------------------------------------------
(* The worker: transcribe_session *)

Goto(w, s, phase) == run' = [run EXCEPT ![w][s] = phase]

Step(w, s, from, to) == run[w][s] = from /\ Goto(w, s, to)

\* arq starts the job's coroutine.
ClaimJob(w, s) ==
  /\ up[w]
  /\ Claimable(job[s])
  /\ Step(w, s, "idle", "begin")
  /\ job' = [job EXCEPT ![s] = Claim(@)]
  /\ UNCHANGED <<rowVars, files, put, call, up, own, faults>>

\* First transaction: nothing to do for a deleted or a transcribed session.
SkipJob(w, s) ==
  /\ status[s] \in {"gone", "transcribed"}
  /\ Step(w, s, "begin", "return")
  /\ UNCHANGED <<rowVars, files, put, job, call, up, own, faults>>

\* Mutant: a session that is transcribed already is begun again.
BeginJobAgain(w, s) ==
  /\ status[s] # "gone"
  /\ Step(w, s, "begin", "audio")
  /\ status' = [status EXCEPT ![s] = "transcribing"]
  /\ UNCHANGED <<expires, wants, reports, planned, files, put, job, call, up, own, faults>>

\* First transaction: status = TRANSCRIBING.
BeginJob(w, s) ==
  /\ status[s] \notin {"gone", "transcribed"}
  /\ Step(w, s, "begin", "audio")
  /\ status' = [status EXCEPT ![s] = "transcribing"]
  /\ UNCHANGED <<expires, wants, reports, planned, files, put, job, call, up, own, faults>>

\* resample_to_wav writes audio.wav next to the raw file ...
Resample(w, s) ==
  /\ "raw" \in files[s]
  /\ Step(w, s, "audio", "wait")
  /\ files' = [files EXCEPT ![s] = @ \cup {"wav"}]
  /\ UNCHANGED <<rowVars, put, job, call, up, own, faults>>

\* ... or finds no audio track (also when the raw file is gone) ...
ResampleNoAudio(w, s) ==
  /\ Step(w, s, "audio", "noaudio")
  /\ UNCHANGED <<rowVars, files, put, job, call, up, own, faults>>

\* The jobs of worker w that are inside its STT semaphore.
InStt(w) == {s \in Sessions : run[w][s] = "stt"}

\* async with sem
AcquireStt(w, s) ==
  /\ Cardinality(InStt(w)) < SttConcurrency
  /\ Step(w, s, "wait", "stt")
  /\ UNCHANGED <<rowVars, files, put, job, call, up, own, faults>>

\* The STT backend returns a transcript.
SttDone(w, s) ==
  /\ Step(w, s, "stt", "save")
  /\ UNCHANGED <<rowVars, files, put, job, call, up, own, faults>>

\* ffmpeg or the STT backend raises any other exception.
WorkFails(w, s) ==
  /\ \/ Step(w, s, "audio", "fail")
     \/ Step(w, s, "stt", "fail")
  /\ UNCHANGED <<rowVars, files, put, job, call, up, own, faults>>

\* Mutant: the row is written back although it was deleted meanwhile.
RecordFailureBlind(w, s) ==
  /\ \/ Step(w, s, "noaudio", "return")
     \/ Step(w, s, "fail", "raise")
  /\ status' = [status EXCEPT ![s] = "failed"]
  /\ UNCHANGED <<expires, wants, reports, planned, files, put, job, call, up, own, faults>>

\* The two except blocks: status = FAILED unless the row is gone.  NoAudioError
\* is swallowed, any other exception is raised again.
RecordFailure(w, s) ==
  /\ \/ Step(w, s, "noaudio", "return")
     \/ Step(w, s, "fail", "raise")
  /\ status' = [status EXCEPT ![s] = IF @ = "gone" THEN @ ELSE "failed"]
  /\ UNCHANGED <<expires, wants, reports, planned, files, put, job, call, up, own, faults>>

\* Last transaction, row deleted meanwhile.
SaveGone(w, s) ==
  /\ status[s] = "gone"
  /\ Step(w, s, "save", "return")
  /\ UNCHANGED <<rowVars, files, put, job, call, up, own, faults>>

\* Mutant: expires_at is forgotten.
SaveNoExpiry(w, s) ==
  /\ status[s] # "gone"
  /\ Step(w, s, "save", "return")
  /\ status' = [status EXCEPT ![s] = "transcribed"]
  /\ UNCHANGED <<expires, wants, reports, planned, files, put, job, call, up, own, faults>>

\* Last transaction: transcript, status = TRANSCRIBED, expires_at, and the row
\* of the auto report when one was asked for.
Save(w, s) ==
  /\ status[s] # "gone"
  /\ Step(w, s, "save", IF wants[s] THEN "plan" ELSE "return")
  /\ status' = [status EXCEPT ![s] = "transcribed"]
  /\ expires' = [expires EXCEPT ![s] = "set"]
  /\ IF wants[s]
       THEN /\ reports' = [reports EXCEPT ![s] = @ + 1]
            /\ own' = [own EXCEPT ![w][s] = reports[s] + 1]
       ELSE UNCHANGED <<reports, own>>
  /\ UNCHANGED <<wants, planned, files, put, job, call, up, faults>>

\* enqueue_job of generate_report after the commit.
PlanReport(w, s) ==
  /\ Step(w, s, "plan", "return")
  /\ planned' = [planned EXCEPT ![s] =
                   IF status[s] = "gone" THEN @ ELSE @ \cup {own[w][s]}]
  /\ UNCHANGED <<status, expires, wants, reports, files, put, job, call, up, own, faults>>

\* The coroutine returned or raised: arq ends the job.
EndJob(w, s) ==
  /\ \/ Step(w, s, "return", "idle")
     \/ Step(w, s, "raise", "idle")
  /\ job' = [job EXCEPT ![s] = Finish(@)]
  /\ UNCHANGED <<rowVars, files, put, call, up, own, faults>>

\* The coroutine raised and the queue will try the job again.
RetryJob(w, s) ==
  /\ RetriesErrors
  /\ Step(w, s, "raise", "idle")
  /\ job' = [job EXCEPT ![s] = Release(@)]
  /\ UNCHANGED <<rowVars, files, put, call, up, own, faults>>

-----------------------------------------------------------------------------
(* Worker processes: start with recovery, shutdown, crash *)

\* Is worker w inside transcribe_session for session s?
Running(w, s) == run[w][s] # "idle"

\* Mutant: unfinished reports are not enqueued again.
StartWorkerNoReports(w) ==
  /\ ~up[w]
  /\ \A v \in Workers, s \in Sessions : ~Running(v, s)
  /\ up' = [up EXCEPT ![w] = TRUE]
  /\ job' = [s \in Sessions |->
               IF status[s] = "transcribing" THEN Reset(job[s]) ELSE job[s]]
  /\ UNCHANGED <<rowVars, files, put, call, run, own, faults>>

\* startup: _recover_stuck_transcriptions takes every session that is
\* TRANSCRIBING for interrupted, resets its job and enqueues it;
\* _recover_stuck_reports enqueues every unfinished report row.
StartWorker(w) ==
  /\ ~up[w]
  /\ StartsOverlap \/ \A v \in Workers, s \in Sessions : ~Running(v, s)
  /\ up' = [up EXCEPT ![w] = TRUE]
  /\ job' = [s \in Sessions |->
               IF status[s] = "transcribing" THEN Reset(job[s]) ELSE job[s]]
  /\ planned' = [s \in Sessions |-> 1..reports[s]]
  /\ UNCHANGED <<status, expires, wants, reports, files, put, call, run, own, faults>>

\* The process is gone, and with it all its coroutines.
Halt(w) ==
  /\ up' = [up EXCEPT ![w] = FALSE]
  /\ run' = [run EXCEPT ![w] = [s \in Sessions |-> "idle"]]
  /\ UNCHANGED <<rowVars, files, put, call, own>>

\* Mutant: a cancelled coroutine ends its job.
StopWorkerEnds(w) ==
  /\ up[w]
  /\ faults.stop < MaxStops
  /\ faults' = [faults EXCEPT !.stop = @ + 1]
  /\ job' = [s \in Sessions |-> IF Running(w, s) THEN Finish(job[s]) ELSE job[s]]
  /\ Halt(w)

\* An orderly shutdown cancels the coroutines; arq releases their jobs.
StopWorker(w) ==
  /\ up[w]
  /\ faults.stop < MaxStops
  /\ faults' = [faults EXCEPT !.stop = @ + 1]
  /\ job' = [s \in Sessions |-> IF Running(w, s) THEN Release(job[s]) ELSE job[s]]
  /\ Halt(w)

\* A crash leaves the jobs marked in progress.
CrashWorker(w) ==
  /\ up[w]
  /\ faults.crash < MaxCrashes
  /\ faults' = [faults EXCEPT !.crash = @ + 1]
  /\ UNCHANGED job
  /\ Halt(w)

-----------------------------------------------------------------------------
(* Time *)

\* expires_at passes.
Expire(s) ==
  /\ expires[s] = "set"
  /\ expires' = [expires EXCEPT ![s] = "due"]
  /\ UNCHANGED <<status, wants, reports, planned, files, put, job, call, up, run, own, faults>>

\* purge_expired removes all sessions whose expires_at has passed.
PurgeExpired ==
  LET expired == {s \in Sessions : expires[s] = "due"} IN
  /\ expired # {}
  /\ Remove(expired)
  /\ UNCHANGED <<job, call, up, run, own, faults>>

\* arq:result:<id> expires after keep_result seconds.
ResultExpires(s) ==
  /\ job[s].result
  /\ job' = [job EXCEPT ![s] = ForgetResult(@)]
  /\ UNCHANGED <<rowVars, files, put, call, up, run, own, faults>>

-----------------------------------------------------------------------------
ApiStep(c, s) ==
  \/ CompleteRead(c, s)
  \/ CompleteCommit(c, s)
  \/ EnqueueTranscription(c, s)
  \/ UploadOpen(c, s)
  \/ UploadStored(c, s)
  \/ UploadEmpty(c, s)
  \/ UploadTooLarge(c, s)
  \/ CreateText(c, s)
  \/ EnqueueTextReport(c, s)

JobStep(w, s) ==
  \/ SkipJob(w, s)
  \/ BeginJob(w, s)
  \/ Resample(w, s)
  \/ ResampleNoAudio(w, s)
  \/ AcquireStt(w, s)
  \/ SttDone(w, s)
  \/ WorkFails(w, s)
  \/ RecordFailure(w, s)
  \/ SaveGone(w, s)
  \/ Save(w, s)
  \/ PlanReport(w, s)
  \/ EndJob(w, s)
  \/ RetryJob(w, s)

Next ==
  \/ \E s \in Sessions :
       \/ CreateSession(s) \/ UploadCheck(s) \/ UploadStore(s) \/ UploadChunksEnd(s)
       \/ DeleteSession(s) \/ Expire(s) \/ ResultExpires(s)
  \/ \E c \in Callers, s \in Sessions : ApiStep(c, s)
  \/ \E w \in Workers, s \in Sessions : ClaimJob(w, s) \/ JobStep(w, s)
  \/ \E w \in Workers : StartWorker(w) \/ StopWorker(w) \/ CrashWorker(w)
  \/ ApiCrash
  \/ PurgeExpired

Spec == Init /\ [][Next]_vars

\* Scheduling: a request in flight runs on, a running worker takes jobs and
\* carries them through (asyncio.Semaphore serves its waiters in turn), docker
\* restarts a container (restart: unless-stopped), time passes and cleanup loops.
Fairness ==
  /\ \A c \in Callers, s \in Sessions :
       WF_vars(CompleteCommit(c, s) \/ EnqueueTranscription(c, s) \/ EnqueueTextReport(c, s))
  /\ \A w \in Workers, s \in Sessions :
       /\ WF_vars(ClaimJob(w, s))
       /\ WF_vars(JobStep(w, s))
       /\ SF_vars(AcquireStt(w, s))
  /\ \A w \in Workers : WF_vars(StartWorker(w))
  /\ \A s \in Sessions : WF_vars(Expire(s))
  /\ WF_vars(PurgeExpired)

FairSpec == Spec /\ Fairness

-----------------------------------------------------------------------------
(* Properties *)

\* A session has an expiry date exactly while it is transcribed: finished work
\* is always due for removal one day, and cleanup, which looks at expires_at
\* alone, can never take a session whose processing is not finished.
ExpiryMatchesStatus ==
  \A s \in Sessions : (expires[s] # "null") <=> (status[s] = "transcribed")

\* However often a job is interrupted and run again, transcribe_session creates
\* at most one auto report row for a session.
AtMostOneAutoReport == \A s \in Sessions : reports[s] <= 1

\* The job of a session never runs twice at the same time: arq's in-progress
\* key, which recovery deletes, keeps the workers apart.
OneRunPerSession ==
  \A s \in Sessions, v, w \in Workers : Running(v, s) /\ Running(w, s) => v = w

\* A session shown as queued has a job on the queue, or the request that is
\* about to put it there is still running (models.py: "upload klaar, job op de
\* wachtrij").
QueuedHasJob ==
  \A s \in Sessions :
    status[s] = "queued" => job[s].key \/ \E c \in Callers : call[c][s] = "enqueue"

\* So it is as long as the API does not go down in the middle of a request: the
\* enqueue is never swallowed by the deduplication on the job id, and neither a
\* shutdown nor a recovery loses the job.
NoJobLost == faults.api = 0 => QueuedHasJob

\* The auto report that was asked for has had its job put on the queue, or somebody
\* is about to do it: the request or the run that created its row, or, when that
\* worker went down between the commit and the enqueue, the recovery of a worker
\* that is yet to start.
ReportHasJob ==
  \A s \in Sessions :
    reports[s] > 0 => \/ 1 \in planned[s]
                      \/ \E c \in Callers : call[c][s] = "report"
                      \/ \E w \in Workers : run[w][s] = "plan"
                      \/ \E w \in Workers : ~up[w]

NoReportLost == faults.api = 0 => ReportHasJob

\* Where there is no row there is no audio left in the storage directory, whoever
\* removed the session and whatever a worker was doing with it.  The one way for
\* audio to be there is a chunk whose upload_chunk was past its check when the
\* session was removed: that one is stored, and nobody removes it (UploadOrphan).
NoFilesWithoutRow ==
  \A s \in Sessions : status[s] \in Absent /\ put[s] # "late" => files[s] = {}

\* A transcribed session stays transcribed until it is deleted: neither a
\* repeated job nor a late failure takes its result back.
TranscribedIsFinal ==
  [][\A s \in Sessions :
       status[s] = "transcribed" => status'[s] \in {"transcribed", "gone"}]_vars

\* A queued session is taken up by a worker, or deleted, also when workers are
\* stopped and restarted.  (A worker that crashes between taking a job and its
\* first transaction leaves the job in progress, and the session queued.)
QueuedIsServed ==
  \A s \in Sessions : status[s] = "queued" ~> (status[s] # "queued" \/ faults.crash > 0)

\* A transcription that was begun comes to an end, also when its worker stops or
\* crashes on the way and recovery has to start it again.
TranscribingEnds ==
  \A s \in Sessions :
    status[s] = "transcribing" ~> status[s] \in {"transcribed", "failed", "gone"}

\* A transcribed session is removed in the end.
ResultsExpire ==
  \A s \in Sessions : status[s] = "transcribed" ~> status[s] = "gone"

\* What README.md and consent.md promise: everything is removed some time after
\* it was processed, whatever came of it.
ProcessedIsRemoved ==
  \A s \in Sessions : status[s] \in {"transcribed", "failed"} ~> status[s] = "gone"

\* Why no enqueue is lost: until a session is enqueued nothing is known of its
\* job that could swallow the enqueue, and a run past its first transaction never
\* faces a queued session.
EnqueueIsFresh ==
  \A s \in Sessions :
    /\ status[s] \in {"none", "created"} => ~Known(job[s])
    /\ \A c \in Callers :
         call[c][s] = "enqueue" => ~Known(job[s]) /\ status[s] \in {"queued", "gone"}
    /\ \A w \in Workers : status[s] = "queued" => run[w][s] \in {"idle", "begin"}

\* The inductive invariant behind the properties above, for a deployment in
\* which no worker starts while another one runs a job, and no session is
\* completed by two requests at once.  What it adds to them is who may be where:
\* a run holds its job; until its last transaction it finds the status it set, or
\* no row; there is a job, or a run, only for a session that was submitted;
\* a request that is about to submit one still finds it being uploaded; and a chunk
\* past its check finds its session, or is late.
RunsHoldTheirJobs ==
  \A w \in Workers, s \in Sessions : Running(w, s) => job[s].key /\ job[s].held

RunsFindTheirStatus ==
  \A w \in Workers, s \in Sessions :
    run[w][s] \in {"audio", "wait", "stt", "save", "fail", "noaudio"}
      => status[s] \in {"transcribing", "gone"}

JobsAreSubmitted ==
  \A s \in Sessions :
    \/ status[s] \notin {"none", "created"}
    \/ ~job[s].key /\ \A c \in Callers : call[c][s] # "enqueue"

RequestsFindUploads ==
  \A c \in Callers, s \in Sessions :
    /\ call[c][s] = "commit" => status[s] \in {"created", "gone"}
    /\ call[c][s] = "store" => status[s] = "created"

ChunksFindSessions ==
  \A s \in Sessions : /\ put[s] = "body" => status[s] \notin Absent
                      /\ put[s] = "late" => status[s] = "gone"

ReportsFollowTranscripts ==
  \A s \in Sessions : reports[s] <= 1 /\ (reports[s] > 0 => status[s] = "transcribed")

IInv ==
  /\ TypeOK
  /\ OneRunPerSession
  /\ RunsHoldTheirJobs
  /\ RunsFindTheirStatus
  /\ JobsAreSubmitted
  /\ RequestsFindUploads
  /\ ChunksFindSessions
  /\ ReportsFollowTranscripts
  /\ ExpiryMatchesStatus
  /\ NoFilesWithoutRow

\* What a status shows the user, in the words of SessionLifecycle.
ViewOf(st) == CASE st = "created" -> "open"
                [] st \in {"queued", "transcribing"} -> "busy"
                [] st = "transcribed" -> "ready"
                [] OTHER -> st

Lifecycle == INSTANCE SessionLifecycle
               WITH view <- [s \in Sessions |-> ViewOf(status[s])], expiry <- expires

\* Crashes, repeated runs and recovery included, the status a client polls only
\* ever moves as SessionLifecycle says: each step is one of its steps, or none.
ImplementsLifecycle == Lifecycle!LSpec
=============================================================================
