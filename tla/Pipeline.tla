------------------------------ MODULE Pipeline ------------------------------
(***************************************************************************)
(* From transcript to speakers to report, with DIARIZE_BACKEND=pyannote:   *)
(* Reports, composed with the diarizations of a session and the diarize    *)
(* worker, a process of its own with its own queue                         *)
(* (backend/worker/diarize_worker.py, backend/app/diarize/run.py).         *)
(*                                                                         *)
(* A session may be created with a diarization row.  The transaction with  *)
(* which transcribe_session ends then attaches the auto report to it and   *)
(* enqueues the diarization alone; diarize_session enqueues the report     *)
(* when it is over, so that the report is written with speaker labels.     *)
(* rediarize adds further rows, without a report.                          *)
(***************************************************************************)
EXTENDS Reports

CONSTANTS
  Diars,               \* ids of diarization rows
  Diarizers,           \* diarize worker processes
  DiarizeConcurrency,  \* DIARIZE_CONCURRENCY, their semaphore
  MaxFaults            \* bound: shutdowns, crashes and errors of all processes

ASSUME PipelineAssumption ==
  /\ Diars \cap Reports = {}
  /\ DiarizeConcurrency \in Nat \ {0}
  /\ MaxFaults \in Nat

VARIABLES
  dstatus,  \* diarizations.status; "none": no row yet, "gone": row deleted
  dauto,    \* diarizations.auto_report_id, as a set of at most one report
  djob,     \* the arq job diarize:<row>
  dasked,   \* is the request that committed the row still to enqueue the job?
  dup,      \* is the diarize worker running?
  drun,     \* where each diarize worker is in diarize_session, per row
  plan,     \* what the base worker is to enqueue at the end of transcribe_session
  labels,   \* the transcript each report was last begun with: plain or labelled
  dfaults   \* shutdowns, crashes and errors of diarize workers so far

dvars == <<dstatus, dauto, djob, dasked, dup, drun, plan, labels, dfaults>>
pvars == <<vars, dvars>>

DiarPhase == {"idle", "wait", "work", "hand", "return", "raise"}

PTypeOK ==
  /\ TypeOK
  /\ dstatus \in [Diars -> Status]
  /\ dauto \in [Diars -> SUBSET Reports]
  /\ djob \in [Diars -> Job]
  /\ dasked \in [Diars -> BOOLEAN]
  /\ dup \in [Diarizers -> BOOLEAN]
  /\ drun \in [Diarizers -> [Diars -> DiarPhase]]
  /\ plan \in [Workers -> SUBSET (Diars \cup Reports)]
  /\ labels \in [Reports -> {"none", "plain", "labelled"}]
  /\ dfaults \in [stop : Nat, crash : Nat, error : Nat]

\* _maybe_create_diarization: the row is there from the start, when asked for.
PInit ==
  /\ Init
  /\ \E D \in SUBSET Diars :
       /\ \A d, e \in D : d = e
       /\ dstatus = [d \in Diars |-> IF d \in D THEN "queued" ELSE "none"]
  /\ dauto = [d \in Diars |-> {}]
  /\ djob = [d \in Diars |-> NoJob]
  /\ dasked = [d \in Diars |-> FALSE]
  /\ dup = [v \in Diarizers |-> FALSE]
  /\ drun = [v \in Diarizers |-> [d \in Diars |-> "idle"]]
  /\ plan = [w \in Workers |-> {}]
  /\ labels = [r \in Reports |-> "none"]
  /\ dfaults = [stop |-> 0, crash |-> 0, error |-> 0]

-----------------------------------------------------------------------------
(* The end of transcribe_session, on a base worker *)

Waiting == {d \in Diars : dstatus[d] = "queued"}

\* Mutant: the report is planned at once, the diarization as well.
TranscribeBoth(w) ==
  /\ up[w]
  /\ sess = "open"
  /\ sess' \in {"ready", "silent"}
  /\ \E R \in SUBSET Reports :
       /\ \A q, r \in R : q = r
       /\ rstatus' = [r \in Reports |-> IF r \in R THEN "queued" ELSE rstatus[r]]
       /\ dauto' = [d \in Diars |-> IF d \in Waiting THEN R ELSE dauto[d]]
       /\ plan' = [plan EXCEPT ![w] = Waiting \cup R]
  /\ UNCHANGED <<content, job, asked, up, run, faults, dstatus, djob, dasked, dup,
                 drun, labels, dfaults>>

\* Its last transaction: the transcript, empty or not, the auto report when one is
\* wanted, and that report on the diarization row that waits.
Transcribe(w) ==
  /\ up[w]
  /\ sess = "open"
  /\ sess' \in {"ready", "silent"}
  /\ \E R \in SUBSET Reports :
       /\ \A q, r \in R : q = r
       /\ rstatus' = [r \in Reports |-> IF r \in R THEN "queued" ELSE rstatus[r]]
       /\ dauto' = [d \in Diars |-> IF d \in Waiting THEN R ELSE dauto[d]]
       /\ plan' = [plan EXCEPT ![w] = IF Waiting # {} THEN Waiting ELSE R]
  /\ UNCHANGED <<content, job, asked, up, run, faults, dstatus, djob, dasked, dup,
                 drun, labels, dfaults>>

\* ... and the one enqueue after it: the diarization, else the report.
HandOver(w) ==
  /\ \E x \in plan[w] :
       /\ djob' = [d \in Diars |-> IF d = x THEN Enqueue(djob[d]) ELSE djob[d]]
       /\ job' = [r \in Reports |-> IF r = x THEN Enqueue(job[r]) ELSE job[r]]
       /\ plan' = [plan EXCEPT ![w] = @ \ {x}]
  /\ UNCHANGED <<rowVars, asked, up, run, faults, dstatus, dauto, dasked, dup, drun,
                 labels, dfaults>>

-----------------------------------------------------------------------------
(* The API *)

\* rediarize: a new row for the transcript that is there, then its job.
Rediarize(d) ==
  /\ sess = "ready"
  /\ dstatus[d] = "none"
  /\ dstatus' = [dstatus EXCEPT ![d] = "queued"]
  /\ dasked' = [dasked EXCEPT ![d] = TRUE]
  /\ UNCHANGED <<vars, dauto, djob, dup, drun, plan, labels, dfaults>>

EnqueueDiarization(d) ==
  /\ dasked[d]
  /\ djob' = [djob EXCEPT ![d] = Enqueue(@)]
  /\ dasked' = [dasked EXCEPT ![d] = FALSE]
  /\ UNCHANGED <<vars, dstatus, dauto, dup, drun, plan, labels, dfaults>>

\* delete_session, purge_expired: the diarizations cascade as the reports do.
PRemoveSession ==
  /\ RemoveSession
  /\ dstatus' = [d \in Diars |-> IF dstatus[d] = "none" THEN "none" ELSE "gone"]
  /\ dauto' = [d \in Diars |-> {}]
  /\ UNCHANGED <<djob, dasked, dup, drun, plan, labels, dfaults>>

\* The API goes down with the requests it is serving, of either kind.
PApiCrash ==
  /\ faults.api < MaxApiCrashes
  /\ (\E r \in Reports : asked[r]) \/ (\E d \in Diars : dasked[d])
  /\ asked' = [r \in Reports |-> FALSE]
  /\ dasked' = [d \in Diars |-> FALSE]
  /\ faults' = [faults EXCEPT !.api = @ + 1]
  /\ UNCHANGED <<rowVars, job, up, run, dstatus, dauto, djob, dup, drun, plan,
                 labels, dfaults>>

-----------------------------------------------------------------------------
(* The job diarize_session *)

DStep(v, d, from, to) ==
  /\ drun[v][d] = from
  /\ drun' = [drun EXCEPT ![v][d] = to]

DSet(d, st) == dstatus' = [dstatus EXCEPT ![d] = st]

ClaimDiarize(v, d) ==
  /\ dup[v]
  /\ Claimable(djob[d])
  /\ djob' = [djob EXCEPT ![d] = Claim(@)]
  /\ DStep(v, d, "idle", "wait")
  /\ UNCHANGED <<vars, dstatus, dauto, dasked, dup, plan, labels, dfaults>>

\* The jobs of v inside its semaphore, from run_diarization's first transaction on.
InWork(v) == {d \in Diars : drun[v][d] = "work"}

DSlotFree(v) == Cardinality(InWork(v)) < DiarizeConcurrency

\* run_diarization: status = RUNNING, whatever the row said before ...
BeginDiarize(v, d) ==
  /\ DSlotFree(v)
  /\ dstatus[d] # "gone"
  /\ DStep(v, d, "wait", "work")
  /\ DSet(d, "running")
  /\ UNCHANGED <<vars, dauto, djob, dasked, dup, plan, labels, dfaults>>

\* ... and its row is gone, now or at the end.
MissDiarize(v, d) ==
  /\ dstatus[d] = "gone"
  /\ drun[v][d] = "wait" => DSlotFree(v)
  /\ \E from \in {"wait", "work"}, to \in {"hand", "raise"} : DStep(v, d, from, to)
  /\ UNCHANGED <<vars, dstatus, dauto, djob, dasked, dup, plan, labels, dfaults>>

\* Mutant: a failed diarization does not hand over.
EndDiarizeHard(v, d) ==
  /\ dstatus[d] # "gone"
  /\ \/ DSet(d, "done") /\ DStep(v, d, "work", "hand")
     \/ DSet(d, "failed") /\ DStep(v, d, "work", "raise")
  /\ UNCHANGED <<vars, dauto, djob, dasked, dup, plan, labels, dfaults>>

\* The backend answered and the merge is saved, or it raised: DONE or FAILED, and
\* no exception gets out either way.
EndDiarize(v, d) ==
  /\ dstatus[d] # "gone"
  /\ DStep(v, d, "work", "hand")
  /\ DSet(d, "done") \/ DSet(d, "failed")
  /\ UNCHANGED <<vars, dauto, djob, dasked, dup, plan, labels, dfaults>>

\* An error after the try block, in the merge or in the transaction that saves it.
DiarizeRaises(v, d) ==
  /\ DStep(v, d, "work", "raise")
  /\ dfaults' = [dfaults EXCEPT !.error = @ + 1]
  /\ UNCHANGED <<vars, dstatus, dauto, djob, dasked, dup, plan, labels>>

\* Mutant: the report follows only a diarization that succeeded.
HandToReportDone(v, d) ==
  /\ DStep(v, d, "hand", "return")
  /\ job' = [r \in Reports |-> IF r \in dauto[d] /\ dstatus[d] = "done"
                                THEN Enqueue(job[r]) ELSE job[r]]
  /\ UNCHANGED <<rowVars, asked, up, run, faults, dstatus, dauto, djob, dasked, dup,
                 plan, labels, dfaults>>

\* _enqueue_auto_report: the report of the row, when it has one.
HandToReport(v, d) ==
  /\ DStep(v, d, "hand", "return")
  /\ job' = [r \in Reports |-> IF r \in dauto[d] THEN Enqueue(job[r]) ELSE job[r]]
  /\ UNCHANGED <<rowVars, asked, up, run, faults, dstatus, dauto, djob, dasked, dup,
                 plan, labels, dfaults>>

EndDiarizeJob(v, d) ==
  /\ \E from \in {"return", "raise"} : DStep(v, d, from, "idle")
  /\ djob' = [djob EXCEPT ![d] = Finish(@)]
  /\ UNCHANGED <<vars, dstatus, dauto, dasked, dup, plan, labels, dfaults>>

\* max_tries = 2 of the diarize worker.
RetryDiarizeJob(v, d) ==
  /\ DStep(v, d, "raise", "idle")
  /\ djob' = [djob EXCEPT ![d] = Release(@)]
  /\ UNCHANGED <<vars, dstatus, dauto, dasked, dup, plan, labels, dfaults>>

-----------------------------------------------------------------------------
(* Diarize worker processes *)

\* Mutant: RUNNING rows are not recovered.
StartDiarizerOnly(v) ==
  /\ ~dup[v]
  /\ dup' = [dup EXCEPT ![v] = TRUE]
  /\ UNCHANGED <<vars, dstatus, djob, dauto, dasked, drun, plan, labels, dfaults>>

\* _recover_stuck_diarizations takes RUNNING rows, and no others.
StartDiarizer(v) ==
  /\ ~dup[v]
  /\ dup' = [dup EXCEPT ![v] = TRUE]
  /\ dstatus' = [d \in Diars |-> IF dstatus[d] = "running" THEN "queued" ELSE dstatus[d]]
  /\ djob' = [d \in Diars |-> IF dstatus[d] = "running" THEN Reset(djob[d]) ELSE djob[d]]
  /\ UNCHANGED <<vars, dauto, dasked, drun, plan, labels, dfaults>>

DHalt(v) ==
  /\ dup[v]
  /\ dup' = [dup EXCEPT ![v] = FALSE]
  /\ drun' = [drun EXCEPT ![v] = [d \in Diars |-> "idle"]]
  /\ UNCHANGED <<vars, dstatus, dauto, dasked, plan, labels>>

StopDiarizer(v) ==
  /\ dfaults' = [dfaults EXCEPT !.stop = @ + 1]
  /\ djob' = [d \in Diars |-> IF drun[v][d] # "idle" THEN Release(djob[d]) ELSE djob[d]]
  /\ DHalt(v)

CrashDiarizer(v) ==
  /\ dfaults' = [dfaults EXCEPT !.crash = @ + 1]
  /\ UNCHANGED djob
  /\ DHalt(v)

-----------------------------------------------------------------------------
(* The steps of Reports, in this composition *)

\* generate_report reads the newest DONE diarization when it starts to write, and
\* takes its segments for the transcript.  (It has segments when the session has words
\* with timestamps, whatever speakers were found: STT_WORD_TIMESTAMPS is on.)
PBeginReport(w, r) ==
  /\ BeginReport(w, r)
  /\ labels' = [labels EXCEPT ![r] =
                  IF \E d \in Diars : dstatus[d] = "done" THEN "labelled" ELSE "plain"]
  /\ UNCHANGED <<dstatus, dauto, djob, dasked, dup, drun, plan, dfaults>>

\* The other steps of a run touch nothing of this module.
PJobStep(w, r) ==
  \/ PBeginReport(w, r)
  \/ /\ \/ WaitForLlm(w, r) \/ NoTranscript(w, r) \/ SkipReport(w, r) \/ MissReport(w, r)
        \/ WriteReport(w, r) \/ FailReport(w, r) \/ EndJob(w, r) \/ RetryJob(w, r)
     /\ UNCHANGED dvars

\* Nor do these.
PlainStep ==
  /\ \/ \E r \in Reports : ReportStep(r)
     \/ \E w \in Workers, r \in Reports : ClaimJob(w, r)
     \/ \E w \in Workers : StartWorker(w)
  /\ UNCHANGED dvars

\* A base worker that ends takes the hand-over it was about to make with it: the
\* repeated transcribe_session finds the session done and enqueues nothing.
PHalt(w) ==
  /\ StopWorker(w) \/ CrashWorker(w)
  /\ plan' = [plan EXCEPT ![w] = {}]
  /\ UNCHANGED <<dstatus, dauto, djob, dasked, dup, drun, labels, dfaults>>

DJobStep(v, d) ==
  \/ BeginDiarize(v, d)
  \/ MissDiarize(v, d)
  \/ EndDiarize(v, d)
  \/ DiarizeRaises(v, d)
  \/ HandToReport(v, d)
  \/ EndDiarizeJob(v, d)
  \/ RetryDiarizeJob(v, d)

FaultCount == faults.stop + faults.crash + faults.api
              + dfaults.stop + dfaults.crash + dfaults.error

PNext ==
  /\ \/ PlainStep
     \/ PRemoveSession
     \/ PApiCrash
     \/ \E w \in Workers : Transcribe(w) \/ HandOver(w) \/ PHalt(w)
     \/ \E w \in Workers, r \in Reports : PJobStep(w, r)
     \/ \E d \in Diars : Rediarize(d) \/ EnqueueDiarization(d)
     \/ \E v \in Diarizers, d \in Diars : ClaimDiarize(v, d) \/ DJobStep(v, d)
     \/ \E v \in Diarizers : StartDiarizer(v) \/ StopDiarizer(v) \/ CrashDiarizer(v)
  /\ FaultCount' <= MaxFaults

PSpec == PInit /\ [][PNext]_pvars

\* Scheduling: requests and hand-overs run on, a worker takes its jobs and carries
\* them through, asyncio.Semaphore serves its waiters in turn (strong fairness of
\* the steps that enter one), and docker restarts a container.
PFairness ==
  /\ \A r \in Reports : WF_pvars(EnqueueReport(r) /\ UNCHANGED dvars)
  /\ \A d \in Diars : WF_pvars(EnqueueDiarization(d))
  /\ \A w \in Workers :
       /\ WF_pvars(HandOver(w))
       /\ WF_pvars(StartWorker(w) /\ UNCHANGED dvars)
       /\ \A r \in Reports :
            /\ WF_pvars(ClaimJob(w, r) /\ UNCHANGED dvars)
            /\ WF_pvars(PJobStep(w, r))
            /\ SF_pvars(PBeginReport(w, r))
  /\ \A v \in Diarizers :
       /\ WF_pvars(StartDiarizer(v))
       /\ \A d \in Diars :
            /\ WF_pvars(ClaimDiarize(v, d))
            /\ WF_pvars(DJobStep(v, d))
            /\ SF_pvars(BeginDiarize(v, d))

PFairSpec == PSpec /\ PFairness

-----------------------------------------------------------------------------
(* Properties *)

\* No worker of either kind was stopped or restarted; diarize workers may crash.
Quiet == faults.stop + faults.crash + dfaults.stop = 0

\* A report that was asked for together with speaker recognition is written from
\* the labelled transcript whenever the recognition succeeds, however many other
\* recognitions are asked for meanwhile, and also when its worker crashes and
\* starts it again: the report is held back until it is over.
LabelsKept ==
  Quiet => \A d \in Diars : \A r \in dauto[d] :
             dstatus[d] = "done" /\ labels[r] # "none" => labels[r] = "labelled"

\* Somebody will enqueue diarization d, run it, or recover it.
DAttended(d) ==
  \/ dasked[d]
  \/ \E w \in Workers : d \in plan[w]
  \/ djob[d].key /\ ~djob[d].held
  \/ \E v \in Diarizers : drun[v][d] # "idle" \/ (~dup[v] /\ dstatus[d] = "running")

\* A report that waits for its diarization is not forgotten by the two workers
\* between which it is handed on: who it waits for is on its way, or the report is
\* attended to itself.  Shutdowns and base worker crashes are no exception; what
\* breaks the chain is a diarize worker or an API that dies, or an error that gets
\* out of run_diarization.
ChainUnbroken ==
  faults.api + dfaults.crash + dfaults.error = 0 =>
    \A r \in Stuck :
      \/ Attended(r)
      \/ \E w \in Workers : r \in plan[w]
      \/ \E d \in Diars : r \in dauto[d] /\ DAttended(d)

\* So every report that was asked for ends, whatever became of its diarization.
PReportEnds ==
  \A r \in Reports :
    r \in Stuck ~> (r \notin Stuck \/ faults.api + dfaults.crash + dfaults.error > 0)

\* A diarization that was begun comes to an end, also when its worker is stopped or
\* crashes once on the way and recovery has to start it again.
DiarizationEnds ==
  \A d \in Diars :
    dstatus[d] = "running" ~> \/ dstatus[d] \in {"done", "failed", "gone"}
                              \/ dfaults.stop + dfaults.crash > 1
                              \/ dfaults.error > 0
=============================================================================
