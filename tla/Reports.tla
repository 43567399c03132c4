------------------------------ MODULE Reports ------------------------------
(***************************************************************************)
(* The reports of one session: the calls of backend/app/api/routes.py that *)
(* create, edit and delete them, the job generate_report of                *)
(* backend/worker/worker.py that has the LLM write them on one or more     *)
(* worker processes, the recovery a starting worker performs, and the      *)
(* removal of the session with everything that belongs to it.              *)
(*                                                                         *)
(* A step is one committed transaction or one Redis call, together with    *)
(* the call of the LLM before it.  generate_report looks at its report     *)
(* twice, before and after it waits for the LLM semaphore: both looks are  *)
(* steps of their own.  How the session came to its transcript is          *)
(* Transcription's subject; here it simply gets one, which may be empty.   *)
(***************************************************************************)
EXTENDS ArqQueue, Naturals, FiniteSets

CONSTANTS
  Reports,         \* report ids that may be handed out
  Workers,         \* worker processes (docker compose --scale worker=n)
  LlmConcurrency,  \* LLM_CONCURRENCY, size of each worker's LLM semaphore
  StartsOverlap,   \* may a worker start up while another one has a job?
  MaxStops,        \* bound: orderly worker shutdowns
  MaxCrashes,      \* bound: worker crashes
  MaxApiCrashes    \* bound: API crashes

ASSUME ReportsAssumption ==
  /\ LlmConcurrency \in Nat \ {0}
  /\ StartsOverlap \in BOOLEAN
  /\ MaxStops \in Nat
  /\ MaxCrashes \in Nat
  /\ MaxApiCrashes \in Nat

VARIABLES
  sess,     \* the session: no transcript yet, with one that says something
            \* ("ready"), with an empty one ("silent"), deleted
  rstatus,  \* reports.status; "none": no row yet, "gone": row deleted
  content,  \* reports.content: NULL, as the LLM wrote it, or edited since
  job,      \* the arq job report:<report>
  asked,    \* is the process that committed the row still to enqueue the job?
  up,       \* is the worker process running?
  run,      \* where each worker is in generate_report, per report
  faults    \* shutdowns and crashes so far

rowVars == <<sess, rstatus, content>>
vars == <<sess, rstatus, content, job, asked, up, run, faults>>

Session == {"open", "ready", "silent", "gone"}
Status == {"none", "queued", "running", "done", "failed", "gone"}
RunPhase == {"idle", "check", "wait", "llm", "return", "raise"}

TypeOK ==
  /\ sess \in Session
  /\ rstatus \in [Reports -> Status]
  /\ content \in [Reports -> {"none", "draft", "edited"}]
  /\ job \in [Reports -> Job]
  /\ asked \in [Reports -> BOOLEAN]
  /\ up \in [Workers -> BOOLEAN]
  /\ run \in [Workers -> [Reports -> RunPhase]]
  /\ faults \in [stop : Nat, crash : Nat, api : Nat]

Init ==
  /\ sess = "open"
  /\ rstatus = [r \in Reports |-> "none"]
  /\ content = [r \in Reports |-> "none"]
  /\ job = [r \in Reports |-> NoJob]
  /\ asked = [r \in Reports |-> FALSE]
  /\ up = [w \in Workers |-> FALSE]
  /\ run = [w \in Workers |-> [r \in Reports |-> "idle"]]
  /\ faults = [stop |-> 0, crash |-> 0, api |-> 0]

SetStatus(r, st) == rstatus' = [rstatus EXCEPT ![r] = st]

-----------------------------------------------------------------------------
(* The API *)

\* The session gets its transcript: from create_text_session, where it is never
\* empty, or from the last transaction of transcribe_session, which commits the
\* auto report with it when one is wanted, whatever the speech recognition heard.
\* (EnqueueReport follows; what may come between the two is Pipeline's subject.)
GetTranscript ==
  /\ sess = "open"
  /\ sess' \in {"ready", "silent"}
  /\ \E R \in SUBSET Reports :
       /\ \A q, r \in R : q = r
       /\ R # {} \/ sess' = "silent" => \E w \in Workers : up[w]
       /\ rstatus' = [r \in Reports |-> IF r \in R THEN "queued" ELSE rstatus[r]]
       /\ asked' = [r \in Reports |-> r \in R \/ asked[r]]
  /\ UNCHANGED <<content, job, up, run, faults>>

\* create_report up to its commit (409 without a transcript, and with an empty one).
CreateReport(r) ==
  /\ sess = "ready"
  /\ rstatus[r] = "none"
  /\ SetStatus(r, "queued")
  /\ asked' = [asked EXCEPT ![r] = TRUE]
  /\ UNCHANGED <<sess, content, job, up, run, faults>>

\* enqueue_report after the commit.
EnqueueReport(r) ==
  /\ asked[r]
  /\ job' = [job EXCEPT ![r] = Enqueue(@)]
  /\ asked' = [asked EXCEPT ![r] = FALSE]
  /\ UNCHANGED <<rowVars, up, run, faults>>

\* update_report: only a finished report can be edited (409 otherwise).
EditReport(r) ==
  /\ rstatus[r] = "done"
  /\ content' = [content EXCEPT ![r] = "edited"]
  /\ UNCHANGED <<sess, rstatus, job, asked, up, run, faults>>

\* The rows of the reports S are deleted.
Drop(S) ==
  /\ rstatus' = [r \in Reports |-> IF r \in S THEN "gone" ELSE rstatus[r]]
  /\ content' = [r \in Reports |-> IF r \in S THEN "none" ELSE content[r]]

\* delete_report, whatever state the report is in.
DeleteReport(r) ==
  /\ rstatus[r] \notin {"none", "gone"}
  /\ Drop({r})
  /\ UNCHANGED <<sess, job, asked, up, run, faults>>

\* delete_session and purge_expired: the reports cascade.
RemoveSession ==
  /\ sess # "gone"
  /\ sess' = "gone"
  /\ Drop({r \in Reports : rstatus[r] # "none"})
  /\ UNCHANGED <<job, asked, up, run, faults>>

\* The API goes down with the requests it is serving.
ApiCrash ==
  /\ faults.api < MaxApiCrashes
  /\ \E r \in Reports : asked[r]
  /\ asked' = [r \in Reports |-> FALSE]
  /\ faults' = [faults EXCEPT !.api = @ + 1]
  /\ UNCHANGED <<rowVars, job, up, run>>

-----------------------------------------------------------------------------
(* The job generate_report *)

Step(w, r, from, to) ==
  /\ run[w][r] = from
  /\ run' = [run EXCEPT ![w][r] = to]

\* A worker takes a job from the queue.
ClaimJob(w, r) ==
  /\ up[w]
  /\ Claimable(job[r])
  /\ job' = [job EXCEPT ![r] = Claim(@)]
  /\ Step(w, r, "idle", "check")
  /\ UNCHANGED <<rowVars, asked, up, faults>>

\* The runs of worker w that are inside its LLM semaphore.
InLlm(w) == {r \in Reports : run[w][r] = "llm"}

\* async with sem: a run gets on when the semaphore has a place left.
SlotFree(w) == Cardinality(InLlm(w)) < LlmConcurrency

\* Mutant: a finished report is written again.
UnfinishedOrDone(r) == rstatus[r] # "gone"

\* What both looks at the row ask first: there is a row, and it is not DONE.  Then
\* they ask for a transcript that is not empty, sess = "ready".
Unfinished(r) == rstatus[r] \notin {"gone", "done"}

\* The first look, without the semaphore.
WaitForLlm(w, r) ==
  /\ Unfinished(r)
  /\ sess = "ready"
  /\ Step(w, r, "check", "wait")
  /\ UNCHANGED <<rowVars, job, asked, up, faults>>

\* Mutant: the report is not set to RUNNING.
BeginSilently(w, r) ==
  /\ SlotFree(w)
  /\ Unfinished(r)
  /\ sess = "ready"
  /\ Step(w, r, "wait", "llm")
  /\ UNCHANGED <<rowVars, job, asked, up, faults>>

\* The second look, with the semaphore: status = RUNNING.
BeginReport(w, r) ==
  /\ SlotFree(w)
  /\ Unfinished(r)
  /\ sess = "ready"
  /\ Step(w, r, "wait", "llm")
  /\ SetStatus(r, "running")
  /\ UNCHANGED <<sess, content, job, asked, up, faults>>

\* Either look finds the transcript empty ("no-transcript"): status = FAILED, and
\* the coroutine returns.
NoTranscript(w, r) ==
  /\ Unfinished(r)
  /\ sess # "ready"
  /\ \E from \in {"check", "wait"} :
       (from = "wait" => SlotFree(w)) /\ Step(w, r, from, "return")
  /\ SetStatus(r, "failed")
  /\ UNCHANGED <<sess, content, job, asked, up, faults>>

\* Either look finds the report finished ("already-done").
SkipReport(w, r) ==
  /\ rstatus[r] = "done"
  /\ Step(w, r, "check", "return") \/ (SlotFree(w) /\ Step(w, r, "wait", "return"))
  /\ UNCHANGED <<rowVars, job, asked, up, faults>>

\* Any transaction finds the row gone ("gone"), or loses it between its read and
\* its commit, which then fails.
MissReport(w, r) ==
  /\ rstatus[r] = "gone"
  /\ run[w][r] = "wait" => SlotFree(w)
  /\ \E from \in {"check", "wait", "llm"}, to \in {"return", "raise"} : Step(w, r, from, to)
  /\ UNCHANGED <<rowVars, job, asked, up, faults>>

\* The LLM answers: content, status = DONE.
WriteReport(w, r) ==
  /\ rstatus[r] # "gone"
  /\ Step(w, r, "llm", "return")
  /\ SetStatus(r, "done")
  /\ content' = [content EXCEPT ![r] = "draft"]
  /\ UNCHANGED <<sess, job, asked, up, faults>>

\* Mutant: the failure is written to a row that is gone.
FailReportBlind(w, r) ==
  /\ Step(w, r, "llm", "raise")
  /\ SetStatus(r, "failed")
  /\ UNCHANGED <<sess, content, job, asked, up, faults>>

\* The LLM call or the assembly of its messages raises: status = FAILED unless
\* the row is gone, and the exception is raised again.
FailReport(w, r) ==
  /\ rstatus[r] # "gone"
  /\ Step(w, r, "llm", "raise")
  /\ SetStatus(r, "failed")
  /\ UNCHANGED <<sess, content, job, asked, up, faults>>

\* The coroutine returned or raised: arq ends the job.
EndJob(w, r) ==
  /\ \E from \in {"return", "raise"} : Step(w, r, from, "idle")
  /\ job' = [job EXCEPT ![r] = Finish(@)]
  /\ UNCHANGED <<rowVars, asked, up, faults>>

\* The coroutine raised and the queue tries the job again (max_tries).
RetryJob(w, r) ==
  /\ Step(w, r, "raise", "idle")
  /\ job' = [job EXCEPT ![r] = Release(@)]
  /\ UNCHANGED <<rowVars, asked, up, faults>>

-----------------------------------------------------------------------------
(* Worker processes: start with recovery, shutdown, crash *)

Running(w, r) == run[w][r] # "idle"

\* The reports _recover_stuck_reports takes for stuck.
Stuck == {r \in Reports : rstatus[r] \in {"queued", "running"}}

\* Mutant: only RUNNING rows are recovered, as the diarize worker does.
StartWorkerRunningOnly(w) ==
  /\ ~up[w]
  /\ StartsOverlap \/ \A v \in Workers, r \in Reports : ~Running(v, r)
  /\ up' = [up EXCEPT ![w] = TRUE]
  /\ rstatus' = [r \in Reports |-> IF rstatus[r] = "running" THEN "queued" ELSE rstatus[r]]
  /\ job' = [r \in Reports |-> IF rstatus[r] = "running" THEN Reset(job[r]) ELSE job[r]]
  /\ UNCHANGED <<sess, content, asked, run, faults>>

\* startup: _recover_stuck_reports sets the reports it takes for stuck to QUEUED,
\* deletes every key of their jobs and enqueues them.
StartWorker(w) ==
  /\ ~up[w]
  /\ StartsOverlap \/ \A v \in Workers, r \in Reports : ~Running(v, r)
  /\ up' = [up EXCEPT ![w] = TRUE]
  /\ rstatus' = [r \in Reports |-> IF r \in Stuck THEN "queued" ELSE rstatus[r]]
  /\ job' = [r \in Reports |-> IF r \in Stuck THEN Reset(job[r]) ELSE job[r]]
  /\ UNCHANGED <<sess, content, asked, run, faults>>

\* The process is gone, and with it all its coroutines.
Halt(w) ==
  /\ up' = [up EXCEPT ![w] = FALSE]
  /\ run' = [run EXCEPT ![w] = [r \in Reports |-> "idle"]]
  /\ UNCHANGED <<rowVars, asked>>

\* An orderly shutdown cancels the coroutines (no except block of
\* generate_report catches that); arq keeps their jobs.
StopWorker(w) ==
  /\ up[w]
  /\ faults.stop < MaxStops
  /\ faults' = [faults EXCEPT !.stop = @ + 1]
  /\ job' = [r \in Reports |-> IF Running(w, r) THEN Release(job[r]) ELSE job[r]]
  /\ Halt(w)

\* A crash leaves the jobs marked in progress.
CrashWorker(w) ==
  /\ up[w]
  /\ faults.crash < MaxCrashes
  /\ faults' = [faults EXCEPT !.crash = @ + 1]
  /\ UNCHANGED job
  /\ Halt(w)

\* arq:result:<id> expires after keep_result seconds.
ResultExpires(r) ==
  /\ job[r].result
  /\ job' = [job EXCEPT ![r] = ForgetResult(@)]
  /\ UNCHANGED <<rowVars, asked, up, run, faults>>

-----------------------------------------------------------------------------
ReportStep(r) ==
  \/ CreateReport(r)
  \/ EnqueueReport(r)
  \/ EditReport(r)
  \/ DeleteReport(r)
  \/ ResultExpires(r)

JobStep(w, r) ==
  \/ WaitForLlm(w, r)
  \/ BeginReport(w, r)
  \/ NoTranscript(w, r)
  \/ SkipReport(w, r)
  \/ MissReport(w, r)
  \/ WriteReport(w, r)
  \/ FailReport(w, r)
  \/ EndJob(w, r)
  \/ RetryJob(w, r)

ProcessStep(w) == StartWorker(w) \/ StopWorker(w) \/ CrashWorker(w)

Next ==
  \/ GetTranscript
  \/ RemoveSession
  \/ ApiCrash
  \/ \E r \in Reports : ReportStep(r)
  \/ \E w \in Workers, r \in Reports : ClaimJob(w, r) \/ JobStep(w, r)
  \/ \E w \in Workers : ProcessStep(w)

Spec == Init /\ [][Next]_vars

-----------------------------------------------------------------------------
(* Properties *)

\* Two runs never write one report at the same time.
OneRunPerReport ==
  \A r \in Reports, v, w \in Workers : Running(v, r) /\ Running(w, r) => v = w

\* What a user has changed in a report stays as it is until the report is deleted:
\* no retry, repeated job or recovery puts another text of the LLM in its place.
EditIsKept ==
  [][\A r \in Reports :
       content[r] = "edited" => content'[r] = "edited" \/ rstatus'[r] = "gone"]_vars

\* A report shown as waiting or being written is on its way: its job can be taken,
\* or is being run, or is about to be enqueued, or a worker is down whose start
\* will recover it.
Attended(r) ==
  \/ asked[r]
  \/ job[r].key /\ ~job[r].held
  \/ \E w \in Workers : Running(w, r) \/ ~up[w]

NoReportStuck == faults.api = 0 => \A r \in Stuck : Attended(r)

\* The inductive invariant behind these properties, when no worker starts while
\* another one has a job: a run holds its job, alone; it finds the status it has
\* left, and returns with a report that failed only when the transcript is empty;
\* reports and jobs exist only for what was asked for; there is a text
\* exactly when the report is done; and a report that waits has no result that
\* keeps its job out of the queue, nor is its job held by nobody.
RunsHoldTheirJobs ==
  \A w \in Workers, r \in Reports : Running(w, r) => job[r].key /\ job[r].held

RunsFindTheirStatus ==
  \A w \in Workers, r \in Reports :
    /\ run[w][r] = "wait" => rstatus[r] # "done"
    /\ run[w][r] = "llm" => rstatus[r] \in {"running", "gone"}
    /\ run[w][r] = "return" =>
         rstatus[r] \in {"done", "gone"} \/ (rstatus[r] = "failed" /\ sess = "silent")
    /\ run[w][r] = "raise" => rstatus[r] \in {"failed", "gone"}

JobsAreAskedFor ==
  \A r \in Reports :
    /\ rstatus[r] = "none" => ~asked[r] /\ job[r] = NoJob
    /\ sess = "open" => rstatus[r] = "none"
    /\ sess = "gone" => rstatus[r] \in {"none", "gone"}

TextWhenDone == \A r \in Reports : (content[r] # "none") <=> (rstatus[r] = "done")

NoResultWhileStuck ==
  \A r \in Reports : job[r].result => ~job[r].key /\ r \notin Stuck

HeldIsAttended ==
  \A r \in Stuck : job[r].held => \E w \in Workers : Running(w, r) \/ ~up[w]

IInv ==
  /\ TypeOK
  /\ OneRunPerReport
  /\ RunsHoldTheirJobs
  /\ RunsFindTheirStatus
  /\ JobsAreAskedFor
  /\ TextWhenDone
  /\ NoResultWhileStuck
  /\ HeldIsAttended

\* What status and content show the user, in the words of ReportLifecycle.
ViewOf(st, text) == CASE st \in {"queued", "running"} -> "making"
                      [] st = "done" -> IF text = "edited" THEN "edited" ELSE "ready"
                      [] OTHER -> st

Shown == [r \in Reports |-> ViewOf(rstatus[r], content[r])]

Lifecycle == INSTANCE ReportLifecycle WITH view <- Shown

\* Crashes, retries and recovery included, what is shown of a report only ever
\* moves as ReportLifecycle says.
ImplementsReportLifecycle == Lifecycle!LSpec
=============================================================================
