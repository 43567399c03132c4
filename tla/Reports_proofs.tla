--------------------------- MODULE Reports_proofs ---------------------------
(***************************************************************************)
(* Theorems about Reports, for every number of reports, workers and        *)
(* faults.  Those beyond type correctness are about the deployment in      *)
(* which no worker starts while another one has a job: with overlapping    *)
(* starts the recovery runs reports twice, and an edit may be lost.        *)
(***************************************************************************)
EXTENDS Reports, TLAPS

-----------------------------------------------------------------------------
(* Type correctness *)

\* The calls on a job id are well typed.
LEMMA JobTypes ==
  ASSUME NEW j \in Job
  PROVE  /\ NoJob \in Job
         /\ Enqueue(j) \in Job
         /\ Claim(j) \in Job
         /\ Finish(j) \in Job
         /\ Release(j) \in Job
         /\ ForgetResult(j) \in Job
         /\ Reset(j) \in Job
BY DEF Job, NoJob, Enqueue, Known, Claim, Finish, Release, ForgetResult, Reset

\* Init is well typed.
LEMMA InitTypeOK == Init => TypeOK
BY DEF Init, TypeOK, Session, Status, RunPhase, Job, NoJob

\* The steps on one report that belong to no run.
LEMMA ReportTypeOK ==
  ASSUME TypeOK, NEW r \in Reports, ReportStep(r)
  PROVE  TypeOK'
<1> USE DEF TypeOK, rowVars
<1>1. CASE CreateReport(r)
  BY <1>1 DEF CreateReport, SetStatus, Status
<1>2. CASE EnqueueReport(r)
  BY <1>2, JobTypes DEF EnqueueReport
<1>3. CASE EditReport(r)
  BY <1>3 DEF EditReport
<1>4. CASE DeleteReport(r)
  BY <1>4 DEF DeleteReport, Drop, Status
<1>5. CASE ResultExpires(r)
  BY <1>5, JobTypes DEF ResultExpires
<1> QED BY <1>1, <1>2, <1>3, <1>4, <1>5 DEF ReportStep

\* The steps of a run.
LEMMA JobTypeOK ==
  ASSUME TypeOK, NEW w \in Workers, NEW r \in Reports,
         ClaimJob(w, r) \/ JobStep(w, r)
  PROVE  TypeOK'
<1> USE DEF TypeOK, rowVars
<1>0. ASSUME NEW from \in RunPhase, NEW to \in RunPhase, Step(w, r, from, to)
      PROVE  run' \in [Workers -> [Reports -> RunPhase]]
  BY <1>0 DEF Step
<1>1. CASE ClaimJob(w, r)
  BY <1>0, <1>1, JobTypes DEF ClaimJob, RunPhase
<1>2. CASE WaitForLlm(w, r)
  BY <1>0, <1>2 DEF WaitForLlm, RunPhase
<1>3. CASE BeginReport(w, r)
  BY <1>0, <1>3 DEF BeginReport, SetStatus, Status, RunPhase
<1>4. CASE SkipReport(w, r)
  BY <1>0, <1>4 DEF SkipReport, RunPhase
<1>5. CASE MissReport(w, r)
  <2>1. run' \in [Workers -> [Reports -> RunPhase]]
    BY <1>0, <1>5 DEF MissReport, RunPhase
  <2> QED BY <1>5, <2>1 DEF MissReport
<1>6. CASE WriteReport(w, r)
  BY <1>0, <1>6 DEF WriteReport, SetStatus, Status, RunPhase
<1>7. CASE FailReport(w, r)
  BY <1>0, <1>7 DEF FailReport, SetStatus, Status, RunPhase
<1>8. CASE EndJob(w, r)
  <2>1. run' \in [Workers -> [Reports -> RunPhase]]
    BY <1>0, <1>8 DEF EndJob, RunPhase
  <2>2. job' \in [Reports -> Job]
    BY <1>8, JobTypes DEF EndJob
  <2> QED BY <1>8, <2>1, <2>2 DEF EndJob
<1>9. CASE RetryJob(w, r)
  BY <1>0, <1>9, JobTypes DEF RetryJob, RunPhase
<1>10. CASE NoTranscript(w, r)
  <2>1. run' \in [Workers -> [Reports -> RunPhase]]
    BY <1>0, <1>10 DEF NoTranscript, RunPhase
  <2> QED BY <1>10, <2>1 DEF NoTranscript, SetStatus, Status
<1> QED
  BY <1>1, <1>2, <1>3, <1>4, <1>5, <1>6, <1>7, <1>8, <1>9, <1>10 DEF JobStep

\* The steps that touch every report.
LEMMA ProcessTypeOK ==
  ASSUME TypeOK,
         \/ GetTranscript \/ RemoveSession \/ ApiCrash
         \/ \E w \in Workers : ProcessStep(w)
  PROVE  TypeOK'
<1> USE DEF TypeOK, rowVars
<1>1. CASE GetTranscript
  BY <1>1 DEF GetTranscript, Session, Status
<1>2. CASE RemoveSession
  BY <1>2 DEF RemoveSession, Drop, Session, Status
<1>3. CASE ApiCrash
  BY <1>3 DEF ApiCrash
<1>4. ASSUME NEW w \in Workers, StartWorker(w) PROVE TypeOK'
  <2>1. job' \in [Reports -> Job]
    BY <1>4, JobTypes DEF StartWorker
  <2> QED BY <1>4, <2>1 DEF StartWorker, Status
<1>5. ASSUME NEW w \in Workers, Halt(w)
      PROVE  /\ UNCHANGED <<sess, rstatus, content, asked>>
             /\ up' \in [Workers -> BOOLEAN]
             /\ run' \in [Workers -> [Reports -> RunPhase]]
  BY <1>5 DEF Halt, RunPhase
<1>6. ASSUME NEW w \in Workers, StopWorker(w) PROVE TypeOK'
  <2>1. job' \in [Reports -> Job]
    BY <1>6, JobTypes DEF StopWorker
  <2>2. faults' \in [stop : Nat, crash : Nat, api : Nat]
    BY <1>6 DEF StopWorker
  <2> QED BY <1>5, <1>6, <2>1, <2>2 DEF StopWorker
<1>7. ASSUME NEW w \in Workers, CrashWorker(w) PROVE TypeOK'
  <2>1. faults' \in [stop : Nat, crash : Nat, api : Nat]
    BY <1>7 DEF CrashWorker
  <2> QED BY <1>5, <1>7, <2>1 DEF CrashWorker
<1> QED BY <1>1, <1>2, <1>3, <1>4, <1>6, <1>7 DEF ProcessStep

\* Every step is well typed.
LEMMA StepTypeOK == TypeOK /\ [Next]_vars => TypeOK'
<1> SUFFICES ASSUME TypeOK, [Next]_vars PROVE TypeOK'
  OBVIOUS
<1>1. CASE UNCHANGED vars
  BY <1>1 DEF vars, TypeOK
<1>2. CASE Next
  BY <1>2, ReportTypeOK, JobTypeOK, ProcessTypeOK DEF Next
<1> QED BY <1>1, <1>2

\* In every state of every execution the variables have their types: no step of
\* the API, of a run or of a recovery writes a status reports do not have.
THEOREM TypeCorrect == Spec => []TypeOK
BY InitTypeOK, StepTypeOK, PTL DEF Spec

-----------------------------------------------------------------------------
(* The inductive invariant *)

\* What IInv says of one report.
RInv(r) ==
  /\ \A v, w \in Workers : Running(v, r) /\ Running(w, r) => v = w
  /\ \A w \in Workers : Running(w, r) => job[r].key /\ job[r].held
  /\ \A w \in Workers :
       /\ run[w][r] = "wait" => rstatus[r] # "done"
       /\ run[w][r] = "llm" => rstatus[r] \in {"running", "gone"}
       /\ run[w][r] = "return" =>
            rstatus[r] \in {"done", "gone"} \/ (rstatus[r] = "failed" /\ sess = "silent")
       /\ run[w][r] = "raise" => rstatus[r] \in {"failed", "gone"}
  /\ rstatus[r] = "none" => ~asked[r] /\ job[r] = NoJob
  /\ sess = "open" => rstatus[r] = "none"
  /\ sess = "gone" => rstatus[r] \in {"none", "gone"}
  /\ content[r] # "none" <=> rstatus[r] = "done"
  /\ job[r].result => ~job[r].key /\ rstatus[r] \notin {"queued", "running"}
  /\ rstatus[r] \in {"queued", "running"} /\ job[r].held =>
       \E w \in Workers : Running(w, r) \/ ~up[w]

\* The invariant speaks of one report at a time.
LEMMA Pointwise == IInv <=> TypeOK /\ \A r \in Reports : RInv(r)
BY DEF IInv, RInv, OneRunPerReport, RunsHoldTheirJobs, RunsFindTheirStatus,
   JobsAreAskedFor, TextWhenDone, NoResultWhileStuck, HeldIsAttended, Stuck

\* A step that touches nothing RInv(q) speaks of.
Same(q) ==
  /\ UNCHANGED <<sess, up>>
  /\ rstatus'[q] = rstatus[q] /\ content'[q] = content[q]
  /\ job'[q] = job[q] /\ asked'[q] = asked[q]
  /\ \A w \in Workers : run'[w][q] = run[w][q]

\* A step that leaves a report alone keeps its part of the invariant.
LEMMA Frame ==
  ASSUME NEW q \in Reports, RInv(q), Same(q)
  PROVE  RInv(q)'
BY DEF RInv, Same, Running

\* Init: no report was asked for.
LEMMA InitIInv == Init => IInv
<1> SUFFICES ASSUME Init PROVE TypeOK /\ \A r \in Reports : RInv(r)
  BY Pointwise
<1>1. TypeOK
  BY InitTypeOK
<1>2. ASSUME NEW r \in Reports PROVE RInv(r)
  BY DEF Init, RInv, Running, NoJob
<1> QED BY <1>1, <1>2

\* The steps on one report that belong to no run.
LEMMA ReportRInv ==
  ASSUME TypeOK, NEW r \in Reports, ReportStep(r), NEW q \in Reports, RInv(q)
  PROVE  RInv(q)'
<1> USE DEF TypeOK, rowVars, Running, NoJob
<1>1. CASE CreateReport(r)
  BY <1>1, SMTT(30) DEF CreateReport, SetStatus, RInv
<1>2. CASE EnqueueReport(r)
  BY <1>2 DEF EnqueueReport, Enqueue, Known, Job, RInv
<1>3. CASE EditReport(r)
  BY <1>3 DEF EditReport, RInv
<1>4. CASE DeleteReport(r)
  BY <1>4 DEF DeleteReport, Drop, RInv
<1>5. CASE ResultExpires(r)
  <2>1. CASE q # r
    BY <1>5, <2>1, Frame DEF ResultExpires, Same
  <2>2. CASE q = r
    <3>1. rstatus[q] # "none"
      BY <1>5, <2>2 DEF ResultExpires, RInv
    <3>2. /\ job'[q].key = job[q].key /\ job'[q].held = job[q].held
          /\ ~job'[q].result
      BY <1>5, <2>2 DEF ResultExpires, ForgetResult, Job
    <3> QED BY <1>5, <3>1, <3>2 DEF ResultExpires, RInv
  <2> QED BY <2>1, <2>2
<1> QED BY <1>1, <1>2, <1>3, <1>4, <1>5 DEF ReportStep

\* A step of a run touches its own report only.
LEMMA JobSame ==
  ASSUME TypeOK, NEW w \in Workers, NEW r \in Reports,
         ClaimJob(w, r) \/ JobStep(w, r),
         NEW q \in Reports, q # r
  PROVE  Same(q)
<1> USE DEF TypeOK, rowVars, Step
<1>1. CASE ClaimJob(w, r)
  BY <1>1 DEF ClaimJob, Same
<1>2. CASE WaitForLlm(w, r)
  BY <1>2 DEF WaitForLlm, Same
<1>3. CASE BeginReport(w, r)
  BY <1>3 DEF BeginReport, SetStatus, Same
<1>4. CASE SkipReport(w, r)
  BY <1>4 DEF SkipReport, Same
<1>5. CASE MissReport(w, r)
  BY <1>5 DEF MissReport, Same
<1>6. CASE WriteReport(w, r)
  BY <1>6 DEF WriteReport, SetStatus, Same
<1>7. CASE FailReport(w, r)
  BY <1>7 DEF FailReport, SetStatus, Same
<1>8. CASE EndJob(w, r)
  BY <1>8 DEF EndJob, Same
<1>9. CASE RetryJob(w, r)
  BY <1>9 DEF RetryJob, Same
<1>10. CASE NoTranscript(w, r)
  BY <1>10 DEF NoTranscript, SetStatus, Same
<1> QED
  BY <1>1, <1>2, <1>3, <1>4, <1>5, <1>6, <1>7, <1>8, <1>9, <1>10 DEF JobStep

\* The steps of a job keep the invariant.
LEMMA JobRInv ==
  ASSUME TypeOK, NEW w \in Workers, NEW r \in Reports,
         ClaimJob(w, r) \/ JobStep(w, r),
         NEW q \in Reports, RInv(q)
  PROVE  RInv(q)'
<1> USE DEF TypeOK, rowVars, Step, Running, NoJob
<1>1. CASE q # r
  BY <1>1, Frame, JobSame
<1>2. CASE q = r
  <2>1. CASE ClaimJob(w, r)
    BY <1>2, <2>1 DEF ClaimJob, Claim, Claimable, Job, RInv
  <2>2. CASE WaitForLlm(w, r)
    BY <1>2, <2>2 DEF WaitForLlm, Unfinished, RInv
  <2>3. CASE BeginReport(w, r)
    BY <1>2, <2>3 DEF BeginReport, SetStatus, Unfinished, RInv
  <2>4. CASE SkipReport(w, r)
    <3>1. rstatus[r] = "done" /\ run[w][r] \in {"check", "wait"}
          /\ run' = [run EXCEPT ![w][r] = "return"]
      BY <2>4 DEF SkipReport
    <3>2. \A v \in Workers : run'[v][r] = IF v = w THEN "return" ELSE run[v][r]
      BY <3>1
    <3>3. UNCHANGED <<sess, rstatus, content, job, asked, up>>
      BY <2>4 DEF SkipReport
    <3> QED BY <1>2, <3>1, <3>2, <3>3 DEF RInv
  <2>5. CASE MissReport(w, r)
    BY <1>2, <2>5 DEF MissReport, RInv
  <2>6. CASE WriteReport(w, r)
    BY <1>2, <2>6 DEF WriteReport, SetStatus, RInv
  <2>7. CASE FailReport(w, r)
    BY <1>2, <2>7 DEF FailReport, SetStatus, RInv
  <2>8. CASE EndJob(w, r)
    <3>1. run[w][r] \in {"return", "raise"} /\ run' = [run EXCEPT ![w][r] = "idle"]
      BY <2>8 DEF EndJob
    <3>2. \A v \in Workers : ~Running(v, r)'
      BY <1>2, <3>1 DEF RInv
    <3>3. job'[r] = [key |-> FALSE, held |-> FALSE, result |-> TRUE]
      BY <2>8 DEF EndJob, Finish
    <3>4. rstatus[r] \in {"done", "failed", "gone"}
      BY <1>2, <3>1 DEF RInv
    <3>5. UNCHANGED <<sess, rstatus, content, asked, up>>
      BY <2>8 DEF EndJob
    <3>6. rstatus[q] # "none"
      BY <1>2, <3>4
    <3> QED BY <1>2, <3>2, <3>3, <3>4, <3>5, <3>6 DEF RInv
  <2>9. CASE RetryJob(w, r)
    BY <1>2, <2>9 DEF RetryJob, Release, Job, RInv
  <2>10. CASE NoTranscript(w, r)
    <3>1. /\ rstatus[r] \notin {"done", "gone"} /\ sess # "ready"
          /\ run[w][r] # "idle" /\ run' = [run EXCEPT ![w][r] = "return"]
      BY <2>10 DEF NoTranscript, Unfinished
    <3>2. \A v \in Workers : run'[v][r] = IF v = w THEN "return" ELSE run[v][r]
      BY <3>1
    <3>3. /\ UNCHANGED <<sess, content, job, asked, up>>
          /\ rstatus' = [rstatus EXCEPT ![r] = "failed"]
      BY <2>10 DEF NoTranscript, SetStatus
    <3>4. job[r].key /\ job[r].held /\ rstatus[r] # "none"
      BY <1>2, <3>1 DEF RInv
    <3>5. sess = "silent"
      BY <1>2, <3>1, <3>4 DEF RInv, Session
    <3>6. \A v \in Workers : v # w => run[v][r] = "idle"
      BY <1>2, <3>1 DEF RInv
    <3>7. content[r] = "none" /\ ~job[r].result
      BY <1>2, <3>1, <3>4 DEF RInv
    <3> QED BY <1>2, <3>2, <3>3, <3>4, <3>5, <3>6, <3>7 DEF RInv
  <2> QED
    BY <2>1, <2>2, <2>3, <2>4, <2>5, <2>6, <2>7, <2>8, <2>9, <2>10 DEF JobStep
<1> QED BY <1>1, <1>2

\* The steps that touch every report.
LEMMA ProcessRInv ==
  ASSUME ~StartsOverlap, TypeOK, NEW q \in Reports, RInv(q),
         \/ GetTranscript \/ RemoveSession \/ ApiCrash
         \/ \E w \in Workers : ProcessStep(w)
  PROVE  RInv(q)'
<1> USE DEF TypeOK, rowVars, Running, NoJob
<1>1. CASE GetTranscript
  <2>1. /\ rstatus[q] = "none" /\ ~asked[q] /\ job[q] = NoJob /\ content[q] = "none"
        /\ sess' \in {"ready", "silent"} /\ UNCHANGED <<content, job, up, run>>
    BY <1>1 DEF GetTranscript, RInv
  <2>2. \/ rstatus'[q] = "none" /\ ~asked'[q]
        \/ rstatus'[q] = "queued"
    BY <1>1, <2>1 DEF GetTranscript
  <2>3. \A w \in Workers : run[w][q] = "idle"
    BY <2>1 DEF RInv
  <2> QED BY <2>1, <2>2, <2>3 DEF RInv
<1>2. CASE RemoveSession
  BY <1>2 DEF RemoveSession, Drop, RInv
<1>3. CASE ApiCrash
  BY <1>3 DEF ApiCrash, RInv
<1>4. ASSUME NEW w \in Workers, StartWorker(w) PROVE RInv(q)'
  <2>1. \A v \in Workers : run[v][q] = "idle"
    BY <1>4 DEF StartWorker
  <2> QED
    BY <1>4, <2>1 DEF StartWorker, Stuck, Reset, Enqueue, Known, NoJob, RInv
<1>5. ASSUME NEW w \in Workers, Halt(w)
      PROVE  /\ ~up'[w]
             /\ \A v \in Workers : run'[v][q] = IF v = w THEN "idle" ELSE run[v][q]
  BY <1>5 DEF Halt
<1>6. ASSUME NEW w \in Workers, StopWorker(w) PROVE RInv(q)'
  <2>1. job'[q] = IF Running(w, q) THEN [job[q] EXCEPT !.held = FALSE] ELSE job[q]
    BY <1>6 DEF StopWorker, Release
  <2>2. UNCHANGED <<sess, rstatus, content, asked>> /\ \E v \in Workers : ~up'[v]
    BY <1>5, <1>6 DEF StopWorker, Halt
  <2>3. CASE Running(w, q)
    <3>1. \A v \in Workers : run'[v][q] = "idle"
      <4>1. \A v \in Workers : Running(v, q) => v = w
        BY <2>3 DEF RInv
      <4> QED BY <1>5, <1>6, <4>1 DEF StopWorker
    <3>2. ~job'[q].held /\ job'[q].key /\ ~job'[q].result /\ rstatus[q] # "none"
      BY <2>1, <2>3 DEF RInv, Job
    <3> QED BY <2>2, <3>1, <3>2 DEF RInv
  <2>4. CASE ~Running(w, q)
    <3>1. job'[q] = job[q] /\ \A v \in Workers : run'[v][q] = run[v][q]
      BY <1>5, <1>6, <2>1, <2>4 DEF StopWorker
    <3> QED BY <2>2, <3>1 DEF RInv
  <2> QED BY <2>3, <2>4
<1>7. ASSUME NEW w \in Workers, CrashWorker(w) PROVE RInv(q)'
  BY <1>5, <1>7 DEF CrashWorker, Halt, RInv
<1> QED BY <1>1, <1>2, <1>3, <1>4, <1>6, <1>7 DEF ProcessStep

\* Every step keeps the invariant.
LEMMA StepIInv ==
  ASSUME ~StartsOverlap
  PROVE  IInv /\ [Next]_vars => IInv'
<1> SUFFICES ASSUME IInv, [Next]_vars PROVE TypeOK' /\ \A q \in Reports : RInv(q)'
  BY Pointwise DEF IInv, RInv, OneRunPerReport, RunsHoldTheirJobs, RunsFindTheirStatus,
     JobsAreAskedFor, TextWhenDone, NoResultWhileStuck, HeldIsAttended, Stuck
<1>1. TypeOK /\ \A r \in Reports : RInv(r)
  BY Pointwise
<1>2. TypeOK'
  BY <1>1, StepTypeOK
<1>3. ASSUME NEW q \in Reports PROVE RInv(q)'
  <2>1. CASE UNCHANGED vars
    BY <1>1, <2>1, Frame DEF vars, Same
  <2>2. CASE Next
    BY <1>1, <2>2, ReportRInv, JobRInv, ProcessRInv DEF Next
  <2> QED BY <2>1, <2>2
<1> QED BY <1>2, <1>3

\* Runs, rows, jobs and texts of reports stay consistent through every retry,
\* shutdown, crash and recovery.
THEOREM Invariance ==
  ASSUME ~StartsOverlap
  PROVE  Spec => []IInv
BY InitIInv, StepIInv, PTL DEF Spec

\* Two runs never write one report at the same time.
THEOREM OneWriter ==
  ASSUME ~StartsOverlap
  PROVE  Spec => []OneRunPerReport
<1>1. IInv => OneRunPerReport
  BY DEF IInv
<1> QED BY <1>1, Invariance, PTL

-----------------------------------------------------------------------------
(* Edits are kept *)

\* What EditIsKept asks of a step, for one report.
Kept(q) == content[q] = "edited" => content'[q] = "edited" \/ rstatus'[q] = "gone"

\* No step undoes an edit.
LEMMA StepKeeps ==
  ASSUME IInv, [Next]_vars, NEW q \in Reports
  PROVE  Kept(q)
<1> USE DEF Kept, rowVars
<1>0. TypeOK /\ RInv(q)
  BY Pointwise
<1>1. CASE UNCHANGED vars
  BY <1>1 DEF vars
<1>2. CASE GetTranscript \/ RemoveSession \/ ApiCrash
  BY <1>0, <1>2 DEF GetTranscript, RemoveSession, ApiCrash, Drop, RInv
<1>3. ASSUME NEW r \in Reports, ReportStep(r) PROVE Kept(q)
  BY <1>0, <1>3 DEF ReportStep, CreateReport, EnqueueReport, EditReport, DeleteReport,
     Drop, ResultExpires, TypeOK
<1>4. ASSUME NEW w \in Workers, NEW r \in Reports, ClaimJob(w, r) \/ JobStep(w, r)
      PROVE  Kept(q)
  <2>1. CASE q # r
    BY <1>0, <1>4, <2>1, JobSame DEF Same
  <2>2. CASE q = r /\ WriteReport(w, r)
    BY <1>0, <2>2 DEF WriteReport, Step, RInv
  <2>3. CASE q = r /\ ~WriteReport(w, r)
    BY <1>4, <2>3 DEF ClaimJob, JobStep, WaitForLlm, BeginReport, NoTranscript, SkipReport,
       MissReport, FailReport, EndJob, RetryJob
  <2> QED BY <2>1, <2>2, <2>3
<1>5. ASSUME NEW w \in Workers, ProcessStep(w) PROVE Kept(q)
  BY <1>5 DEF ProcessStep, StartWorker, StopWorker, CrashWorker, Halt
<1> QED BY <1>1, <1>2, <1>3, <1>4, <1>5 DEF Next

\* What a user has changed in a report is never replaced by a text of the LLM, by
\* no retry, repeated job or recovery.
THEOREM EditsSurvive ==
  ASSUME ~StartsOverlap
  PROVE  Spec => EditIsKept
<1>1. IInv /\ [Next]_vars
        => [\A r \in Reports :
              content[r] = "edited" => content'[r] = "edited" \/ rstatus'[r] = "gone"]_vars
  BY StepKeeps DEF Kept
<1> QED BY <1>1, Invariance, PTL DEF Spec, EditIsKept

-----------------------------------------------------------------------------
(* No report is stuck, as long as the API does not crash *)

\* NoReportStuck, for one report.
AInv(r) == rstatus[r] \in {"queued", "running"} => Attended(r)

\* A step that leaves a report alone leaves it attended to.
LEMMA AFrame ==
  ASSUME NEW q \in Reports, AInv(q), Same(q)
  PROVE  AInv(q)'
BY DEF AInv, Attended, Same, Running

\* Requests about a report leave it attended to.
LEMMA ReportAInv ==
  ASSUME TypeOK, NEW r \in Reports, ReportStep(r), NEW q \in Reports, RInv(q), AInv(q)
  PROVE  AInv(q)'
<1> USE DEF TypeOK, rowVars, AInv, Attended, Running
<1>1. CASE CreateReport(r)
  BY <1>1 DEF CreateReport, SetStatus
<1>2. CASE EnqueueReport(r)
  <2>1. CASE q # r
    BY <1>2, <2>1, AFrame DEF EnqueueReport, Same
  <2>2. CASE q = r
    <3>1. rstatus[q] \in {"queued", "running"} => job'[q].key /\ job'[q].held = job[q].held
      BY <1>2, <2>2 DEF EnqueueReport, Enqueue, Known, Job, RInv
    <3> QED BY <1>2, <3>1 DEF EnqueueReport, RInv
  <2> QED BY <2>1, <2>2
<1>3. CASE EditReport(r)
  BY <1>3 DEF EditReport
<1>4. CASE DeleteReport(r)
  BY <1>4 DEF DeleteReport, Drop
<1>5. CASE ResultExpires(r)
  BY <1>5 DEF ResultExpires, ForgetResult, Job
<1> QED BY <1>1, <1>2, <1>3, <1>4, <1>5 DEF ReportStep

\* So do the steps of a job,
LEMMA JobAInv ==
  ASSUME TypeOK, NEW w \in Workers, NEW r \in Reports,
         ClaimJob(w, r) \/ JobStep(w, r),
         NEW q \in Reports, RInv(q), AInv(q)
  PROVE  AInv(q)'
<1> USE DEF TypeOK, rowVars
<1>1. CASE q # r
  BY <1>1, AFrame, JobSame
<1>2. CASE q = r /\ run'[w][r] # "idle"
  BY <1>2 DEF AInv, Attended, Running
<1>3. CASE q = r /\ EndJob(w, r)
  BY <1>3 DEF EndJob, Step, RInv, AInv
<1>4. CASE q = r /\ RetryJob(w, r)
  BY <1>4 DEF RetryJob, Step, RInv, AInv
<1>5. EndJob(w, r) \/ RetryJob(w, r) \/ run'[w][r] # "idle"
  BY DEF ClaimJob, JobStep, WaitForLlm, BeginReport, NoTranscript, SkipReport, MissReport,
     WriteReport, FailReport, Step
<1> QED BY <1>1, <1>2, <1>3, <1>4, <1>5

\* and the starts, stops and crashes of workers.
LEMMA ProcessAInv ==
  ASSUME TypeOK, NEW q \in Reports, RInv(q), AInv(q),
         \/ GetTranscript \/ RemoveSession
         \/ \E w \in Workers : ProcessStep(w)
  PROVE  AInv(q)'
<1> USE DEF TypeOK, rowVars, AInv, Attended, Running
<1>1. CASE GetTranscript
  BY <1>1 DEF GetTranscript
<1>2. CASE RemoveSession
  BY <1>2 DEF RemoveSession, Drop
<1>3. ASSUME NEW w \in Workers, StartWorker(w) PROVE AInv(q)'
  BY <1>3 DEF StartWorker, Stuck, Reset, Enqueue, Known, NoJob
<1>4. ASSUME NEW w \in Workers, Halt(w) PROVE AInv(q)'
  BY <1>4 DEF Halt
<1> QED BY <1>1, <1>2, <1>3, <1>4 DEF ProcessStep, StopWorker, CrashWorker

\* An API crash is counted, and the count stays.
LEMMA Counted ==
  ASSUME TypeOK, [Next]_vars, faults'.api = 0
  PROVE  faults.api = 0 /\ ~ApiCrash
<1> USE DEF TypeOK
<1>1. ~ApiCrash
  BY DEF ApiCrash
<1>2. CASE UNCHANGED vars
  BY <1>1, <1>2 DEF vars
<1>3. CASE GetTranscript \/ RemoveSession
  BY <1>1, <1>3 DEF GetTranscript, RemoveSession
<1>4. ASSUME NEW r \in Reports, ReportStep(r) PROVE UNCHANGED faults
  BY <1>4 DEF ReportStep, CreateReport, EnqueueReport, EditReport, DeleteReport,
     ResultExpires
<1>5. ASSUME NEW w \in Workers, NEW r \in Reports, ClaimJob(w, r) \/ JobStep(w, r)
      PROVE  UNCHANGED faults
  BY <1>5 DEF ClaimJob, JobStep, WaitForLlm, BeginReport, NoTranscript, SkipReport,
     MissReport, WriteReport, FailReport, EndJob, RetryJob
<1>6. ASSUME NEW w \in Workers, ProcessStep(w) PROVE faults'.api = faults.api
  BY <1>6 DEF ProcessStep, StartWorker, StopWorker, CrashWorker
<1> QED BY <1>1, <1>2, <1>3, <1>4, <1>5, <1>6 DEF Next

\* While the API does not crash, a report that is shown as waiting or being written
\* has a job that can be taken, a run, a request about to enqueue it, or a worker
\* whose start will recover it.
THEOREM NothingStuck ==
  ASSUME ~StartsOverlap
  PROVE  Spec => []NoReportStuck
<1> DEFINE P == faults.api = 0 => \A r \in Reports : AInv(r)
<1>1. Init => P
  BY DEF Init, AInv
<1>2. IInv /\ P /\ [Next]_vars => P'
  <2> SUFFICES ASSUME IInv, P, [Next]_vars, faults'.api = 0, NEW q \in Reports
               PROVE  AInv(q)'
    OBVIOUS
  <2>1. TypeOK /\ RInv(q)
    BY Pointwise
  <2>2. faults.api = 0 /\ ~ApiCrash
    BY <2>1, Counted
  <2>3. AInv(q)
    BY <2>2
  <2>4. CASE UNCHANGED vars
    BY <2>3, <2>4, AFrame DEF vars, Same
  <2>5. CASE Next
    BY <2>1, <2>2, <2>3, <2>5, ReportAInv, JobAInv, ProcessAInv DEF Next
  <2> QED BY <2>4, <2>5
<1>3. P => NoReportStuck
  BY DEF AInv, NoReportStuck, Stuck
<1> QED BY <1>1, <1>2, <1>3, Invariance, PTL DEF Spec

-----------------------------------------------------------------------------
(* Steps and the life cycle *)

\* A step of ReportLifecycle, or none, under the refinement mapping.
LStep == [Lifecycle!LNext]_Shown

\* A step that changes neither status nor text shows nothing.
LEMMA Invisible == UNCHANGED <<rstatus, content>> => LStep
BY DEF LStep, Shown

\* A step that changes one report shows one change, and the change is a move of the
\* life cycle.
LEMMA Moves ==
  ASSUME NEW r \in Reports,
         rstatus' = [rstatus EXCEPT ![r] = rstatus'[r]],
         content' = [content EXCEPT ![r] = content'[r]],
         TypeOK,
         NEW x, x = ViewOf(rstatus[r], content[r]),
         NEW y, y = ViewOf(rstatus'[r], content'[r]),
         \/ x = y
         \/ x = "none" /\ y = "making"
         \/ x = "making" /\ y \in {"ready", "failed"}
         \/ x = "failed" /\ y = "making"
         \/ x \in {"ready", "edited"} /\ y = "edited"
  PROVE  LStep
<1>1. Shown[r] = x
  BY DEF Shown
<1>2. Shown' = [Shown EXCEPT ![r] = y]
  BY DEF Shown, TypeOK
<1>3. CASE x = y
  BY <1>1, <1>2, <1>3 DEF LStep, Shown
<1>4. CASE x = "none" /\ y = "making"
  BY <1>1, <1>2, <1>4 DEF LStep, Lifecycle!LNext, Lifecycle!Ask, Lifecycle!Move
<1>5. CASE x = "making" /\ y = "ready"
  BY <1>1, <1>2, <1>5 DEF LStep, Lifecycle!LNext, Lifecycle!Succeed, Lifecycle!Move
<1>6. CASE x = "making" /\ y = "failed"
  BY <1>1, <1>2, <1>6 DEF LStep, Lifecycle!LNext, Lifecycle!Fail, Lifecycle!Move
<1>7. CASE x = "failed" /\ y = "making"
  BY <1>1, <1>2, <1>7 DEF LStep, Lifecycle!LNext, Lifecycle!Retry, Lifecycle!Move
<1>8. CASE x \in {"ready", "edited"} /\ y = "edited"
  BY <1>1, <1>2, <1>8 DEF LStep, Lifecycle!LNext, Lifecycle!Edit, Lifecycle!Move
<1> QED BY <1>3, <1>4, <1>5, <1>6, <1>7, <1>8

\* Rows that go are removals of the abstract specification.
LEMMA Removes ==
  ASSUME TypeOK, NEW S \in SUBSET Reports, \A r \in S : rstatus[r] # "none", Drop(S)
  PROVE  LStep
<1>1. \A r \in Reports : Shown[r] = ViewOf(rstatus[r], content[r])
  BY DEF Shown
<1>2. \A r \in S : Shown[r] # "none"
  BY <1>1 DEF ViewOf, TypeOK, Status
<1>3. Shown' = [r \in Reports |-> IF r \in S THEN "gone" ELSE Shown[r]]
  BY DEF Shown, Drop, ViewOf
<1>4. Lifecycle!Remove(S)
  BY <1>2, <1>3 DEF Lifecycle!Remove
<1> QED BY <1>4 DEF LStep, Lifecycle!LNext

\* Requests about a report are steps of ReportLifecycle or none.
LEMMA ReportLStep ==
  ASSUME IInv, NEW r \in Reports, ReportStep(r)
  PROVE  LStep
<1>0. TypeOK /\ RInv(r)
  BY Pointwise
<1> USE DEF rowVars
<1>1. CASE CreateReport(r)
  BY <1>0, <1>1, Moves DEF CreateReport, SetStatus, ViewOf, TypeOK
<1>2. CASE EnqueueReport(r)
  BY <1>2, Invisible DEF EnqueueReport
<1>3. CASE EditReport(r)
  BY <1>0, <1>3, Moves DEF EditReport, ViewOf, TypeOK
<1>4. CASE DeleteReport(r)
  BY <1>0, <1>4, Removes DEF DeleteReport
<1>5. CASE ResultExpires(r)
  BY <1>5, Invisible DEF ResultExpires
<1> QED BY <1>1, <1>2, <1>3, <1>4, <1>5 DEF ReportStep

\* So are the steps of a job,
LEMMA JobLStep ==
  ASSUME IInv, NEW w \in Workers, NEW r \in Reports, ClaimJob(w, r) \/ JobStep(w, r)
  PROVE  LStep
<1>0. TypeOK /\ RInv(r)
  BY Pointwise
<1> USE DEF rowVars
<1>1. CASE BeginReport(w, r)
  <2>1. rstatus[r] \in {"queued", "running", "failed"}
    BY <1>0, <1>1 DEF BeginReport, Unfinished, Step, RInv, Running, NoJob, TypeOK, Status
  <2> QED BY <1>0, <1>1, <2>1, Moves DEF BeginReport, SetStatus, ViewOf, TypeOK
<1>2. CASE WriteReport(w, r)
  <2>1. rstatus[r] = "running"
    BY <1>0, <1>2 DEF WriteReport, Step, RInv
  <2> QED BY <1>0, <1>2, <2>1, Moves DEF WriteReport, SetStatus, ViewOf, TypeOK
<1>3. CASE FailReport(w, r)
  <2>1. rstatus[r] = "running"
    BY <1>0, <1>3 DEF FailReport, Step, RInv
  <2> QED BY <1>0, <1>3, <2>1, Moves DEF FailReport, SetStatus, ViewOf, TypeOK
<1>4. CASE UNCHANGED rowVars
  BY <1>4, Invisible
<1>5. CASE NoTranscript(w, r)
  <2>1. rstatus[r] \in {"queued", "running", "failed"}
    BY <1>0, <1>5 DEF NoTranscript, Unfinished, Step, RInv, Running, NoJob, TypeOK, Status
  <2>2. /\ rstatus' = [rstatus EXCEPT ![r] = "failed"] /\ content' = content
        /\ rstatus \in [Reports -> Status]
        /\ content \in [Reports -> {"none", "draft", "edited"}]
    BY <1>0, <1>5 DEF NoTranscript, SetStatus, TypeOK
  <2>3. content' = [content EXCEPT ![r] = content'[r]] /\ rstatus'[r] = "failed"
    BY <2>2
  <2> QED BY <1>0, <2>1, <2>2, <2>3, Moves DEF ViewOf
<1> QED
  BY <1>1, <1>2, <1>3, <1>4, <1>5 DEF ClaimJob, JobStep, WaitForLlm, SkipReport, MissReport,
     EndJob, RetryJob

\* and those of the session and of the processes.
LEMMA ProcessLStep ==
  ASSUME IInv,
         \/ GetTranscript \/ RemoveSession \/ ApiCrash
         \/ \E w \in Workers : ProcessStep(w)
  PROVE  LStep
<1>0. TypeOK
  BY DEF IInv
<1> USE DEF rowVars
<1>1. CASE RemoveSession
  BY <1>0, <1>1, Removes DEF RemoveSession
<1>2. ASSUME NEW w \in Workers, StartWorker(w) PROVE LStep
  <2>1. Shown' = Shown
    BY <1>2 DEF StartWorker, Stuck, Shown, ViewOf
  <2> QED BY <2>1 DEF LStep
<1>3. CASE ApiCrash \/ \E w \in Workers : Halt(w)
  BY <1>3, Invisible DEF ApiCrash, Halt
<1>4. CASE GetTranscript
  <2>1. PICK R \in SUBSET Reports :
          /\ \A q, r \in R : q = r
          /\ rstatus' = [r \in Reports |-> IF r \in R THEN "queued" ELSE rstatus[r]]
    BY <1>4 DEF GetTranscript
  <2>2. UNCHANGED content /\ \A r \in Reports : rstatus[r] = "none"
    BY <1>4, Pointwise DEF GetTranscript, RInv
  <2>3. CASE R = {}
    BY <1>0, <2>1, <2>2, <2>3, Invisible DEF TypeOK
  <2>4. ASSUME NEW r \in R PROVE LStep
    <3>1. R = {r}
      BY <2>1
    <3>2. rstatus' = [rstatus EXCEPT ![r] = "queued"] /\ rstatus[r] = "none"
      BY <1>0, <2>1, <2>2, <3>1 DEF TypeOK
    <3>3. content' = [content EXCEPT ![r] = content'[r]] /\ rstatus'[r] = "queued"
      BY <1>0, <2>2, <3>2 DEF TypeOK
    <3> QED BY <1>0, <3>2, <3>3, Moves DEF ViewOf
  <2> QED BY <2>3, <2>4
<1> QED BY <1>1, <1>2, <1>3, <1>4 DEF ProcessStep, StopWorker, CrashWorker

\* Init shows what LInit does.
LEMMA InitLInit == Init => Lifecycle!LInit
BY DEF Init, Lifecycle!LInit, Shown, ViewOf

\* Every step is a step of ReportLifecycle or none.
LEMMA NextLStep == IInv /\ [Next]_vars => LStep
<1> SUFFICES ASSUME IInv, [Next]_vars PROVE LStep
  OBVIOUS
<1>1. CASE UNCHANGED vars
  BY <1>1, Invisible DEF vars
<1>2. CASE Next
  BY <1>2, ReportLStep, JobLStep, ProcessLStep DEF Next
<1> QED BY <1>1, <1>2

\* Reports implements ReportLifecycle: whatever retries, crashes and recoveries do,
\* what is shown of a report moves only as that specification says.
THEOREM Refinement ==
  ASSUME ~StartsOverlap
  PROVE  Spec => ImplementsReportLifecycle
BY InitLInit, NextLStep, Invariance, PTL
   DEF Spec, ImplementsReportLifecycle, Lifecycle!LSpec, LStep

=============================================================================
