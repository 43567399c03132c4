-------------------------- MODULE Pipeline_proofs --------------------------
(***************************************************************************)
(* Theorems about Pipeline, for every number of reports, diarizations,     *)
(* workers and faults.  What Reports_proofs shows of a step of Reports is  *)
(* used here for the steps the composition shares with it; the hand-over   *)
(* of transcribe_session, the diarizations and their jobs are added.       *)
(***************************************************************************)
EXTENDS Pipeline, Reports_proofs

-----------------------------------------------------------------------------
(* The invariants *)

\* Somebody is to enqueue x at the end of a transcription.
Planned(x) == \E w \in Workers : x \in plan[w]

\* What is handed on or waited for has a row.
RowInv(r) ==
  Planned(r) \/ (\E d \in Diars : r \in dauto[d]) => rstatus[r] # "none"

\* A diarization has at most one who is to enqueue it, and that before anybody else
\* knows of its job; without a row there is no job, and no report that waits for it.
DiarInv(d) ==
  /\ dstatus[d] = "none" => ~Known(djob[d]) /\ ~dasked[d] /\ ~Planned(d)
  /\ dstatus[d] \in {"none", "gone"} => dauto[d] = {}
  /\ ~Known(djob[d]) => /\ dstatus[d] \in {"none", "queued", "gone"}
                        /\ \A v \in Diarizers : drun[v][d] = "idle"
  /\ djob[d].held => djob[d].key
  /\ dasked[d] \/ Planned(d) => ~Known(djob[d])
  /\ dasked[d] => ~Planned(d)
  /\ \A w, u \in Workers : d \in plan[w] /\ d \in plan[u] => w = u
  /\ sess = "open" => ~Known(djob[d]) /\ ~dasked[d] /\ ~Planned(d) /\ dauto[d] = {}

CoreInv ==
  /\ PTypeOK
  /\ \A r \in Reports : RInv(r) /\ RowInv(r)
  /\ \A d \in Diars : DiarInv(d)

\* The job of d can be taken, or is being run; or somebody is about to enqueue it.
Holding(d) ==
  \/ dasked[d] \/ Planned(d)
  \/ djob[d].key /\ (djob[d].held => \E v \in Diarizers : drun[v][d] # "idle")

\* A run of a diarization that has handed over did so to everyone who waits, and one
\* that fails has no row left.
HandInv(d) ==
  \A v \in Diarizers :
    /\ drun[v][d] = "return" => \A r \in dauto[d] : AInv(r)
    /\ drun[v][d] = "raise" => dstatus[d] = "gone"

ChainInv(r) ==
  \/ AInv(r)
  \/ Planned(r)
  \/ \E d \in Diars : r \in dauto[d] /\ Holding(d)

NoBreak == faults.api + dfaults.crash + dfaults.error = 0

HandOnInv == NoBreak => (\A d \in Diars : HandInv(d)) /\ (\A r \in Reports : ChainInv(r))

OneWorkerEach ==
  /\ \A w, u \in Workers : w = u
  /\ \A v, u \in Diarizers : v = u

\* With one diarize worker: its runs hold their jobs, and a diarization that is over is
\* not begun again.
OverInv(d) ==
  /\ \A v \in Diarizers :
       /\ drun[v][d] # "idle" => dup[v] /\ djob[d].key /\ djob[d].held
       /\ drun[v][d] \in {"work", "raise"} => dstatus[d] \in {"running", "gone"}
       /\ drun[v][d] \in {"hand", "return"} => dstatus[d] \in {"done", "failed", "gone"}
  /\ Quiet /\ dstatus[d] \in {"done", "failed"} =>
       /\ ~Claimable(djob[d])
       /\ \A v \in Diarizers : drun[v][d] \notin {"wait", "work", "raise"}

\* At most one diarization has a report that waits for it.
OneWaits ==
  /\ \A d, e \in Diars : dauto[d] # {} /\ dauto[e] # {} => d = e
  /\ sess = "open" => \A d, e \in Waiting : d = e

\* Nobody has begun report r, nor is about to.
HeldBack(r) ==
  /\ labels[r] = "none" /\ job[r] = NoJob /\ ~asked[r] /\ ~Planned(r)
  /\ \A w \in Workers : run[w][r] = "idle"

\* With one base worker: it is up from the transcript on, and a report is held back while
\* its diarization is not over.
LabelInv ==
  /\ \A r \in Reports : rstatus[r] = "none" => labels[r] = "none"
  /\ Quiet =>
       /\ sess \in {"ready", "silent"} => \A w \in Workers : up[w]
       /\ \A d \in Diars : \A r \in dauto[d] :
            dstatus[d] \in {"queued", "running"} => HeldBack(r)

OrderlyInv ==
  CoreInv /\ OneWaits /\ LabelInv /\ LabelsKept /\ \A d \in Diars : OverInv(d)

-----------------------------------------------------------------------------
(* Types *)

\* The steps of Reports that keep their meaning here.
BaseStep ==
  \/ RemoveSession
  \/ \E r \in Reports : ReportStep(r)
  \/ \E w \in Workers, r \in Reports : ClaimJob(w, r) \/ JobStep(w, r)
  \/ \E w \in Workers : ProcessStep(w)

\* What a step is to Reports: one of its own, one of four that enqueue or create
\* reports, or nothing.
LEMMA Kinds ==
  ASSUME PNext
  PROVE  \/ BaseStep
         \/ UNCHANGED vars
         \/ PApiCrash
         \/ \E w \in Workers : Transcribe(w) \/ HandOver(w)
         \/ \E v \in Diarizers, d \in Diars : HandToReport(v, d)
<1>1. CASE PlainStep \/ PRemoveSession \/ \E w \in Workers : PHalt(w)
  BY <1>1 DEF PlainStep, PRemoveSession, PHalt, BaseStep, ProcessStep
<1>2. CASE \E w \in Workers, r \in Reports : PJobStep(w, r)
  BY <1>2 DEF PJobStep, PBeginReport, BaseStep, JobStep
<1>3. CASE \E d \in Diars : Rediarize(d) \/ EnqueueDiarization(d)
  BY <1>3 DEF Rediarize, EnqueueDiarization
<1>4. ASSUME NEW v \in Diarizers, NEW d \in Diars, ClaimDiarize(v, d) \/ DJobStep(v, d)
      PROVE  UNCHANGED vars \/ HandToReport(v, d)
  BY <1>4 DEF ClaimDiarize, DJobStep, BeginDiarize, MissDiarize, EndDiarize, DiarizeRaises,
     EndDiarizeJob, RetryDiarizeJob
<1>5. ASSUME NEW v \in Diarizers, StartDiarizer(v) \/ StopDiarizer(v) \/ CrashDiarizer(v)
      PROVE  UNCHANGED vars
  BY <1>5 DEF StartDiarizer, StopDiarizer, CrashDiarizer, DHalt
<1> QED BY <1>1, <1>2, <1>3, <1>4, <1>5 DEF PNext

\* PInit is well typed.
LEMMA InitPTypeOK == PInit => PTypeOK
<1> SUFFICES ASSUME PInit PROVE PTypeOK
  OBVIOUS
<1>1. TypeOK
  BY InitTypeOK DEF PInit
<1>2. NoJob \in Job
  BY DEF NoJob, Job
<1>3. dstatus \in [Diars -> Status]
  BY DEF PInit, Status
<1>4. /\ dauto \in [Diars -> SUBSET Reports]
      /\ djob \in [Diars -> Job]
      /\ dasked \in [Diars -> BOOLEAN]
      /\ dup \in [Diarizers -> BOOLEAN]
      /\ drun \in [Diarizers -> [Diars -> DiarPhase]]
  BY <1>2 DEF PInit, DiarPhase
<1>5. /\ plan \in [Workers -> SUBSET (Diars \cup Reports)]
      /\ labels \in [Reports -> {"none", "plain", "labelled"}]
      /\ dfaults \in [stop : Nat, crash : Nat, error : Nat]
  BY DEF PInit
<1> QED BY <1>1, <1>3, <1>4, <1>5 DEF PTypeOK

\* The types of Reports.
LEMMA BaseTypeOK == TypeOK /\ BaseStep => TypeOK'
  BY ReportTypeOK, JobTypeOK, ProcessTypeOK DEF BaseStep

\* What the composition does to the variables of Reports is well typed.
LEMMA StepBaseTypeOK ==
  ASSUME PTypeOK, PNext
  PROVE  TypeOK'
<1>0. TypeOK
  BY DEF PTypeOK
<1>1. CASE UNCHANGED vars
  BY <1>0, <1>1 DEF vars, TypeOK
<1>2. CASE PApiCrash
  BY <1>0, <1>2 DEF PApiCrash, TypeOK, rowVars
<1>3. ASSUME NEW w \in Workers, Transcribe(w) PROVE TypeOK'
  BY <1>0, <1>3 DEF Transcribe, TypeOK, Session, Status
<1>4. ASSUME NEW w \in Workers, HandOver(w) PROVE TypeOK'
  <2>1. PICK x \in plan[w] : job' = [r \in Reports |-> IF r = x THEN Enqueue(job[r]) ELSE job[r]]
    BY <1>4 DEF HandOver
  <2>2. job' \in [Reports -> Job]
    BY <1>0, <2>1, JobTypes DEF TypeOK
  <2> QED BY <1>0, <1>4, <2>2 DEF HandOver, TypeOK, rowVars
<1>5. ASSUME NEW v \in Diarizers, NEW d \in Diars, HandToReport(v, d) PROVE TypeOK'
  <2>1. job' \in [Reports -> Job]
    BY <1>0, <1>5, JobTypes DEF HandToReport, TypeOK
  <2> QED BY <1>0, <1>5, <2>1 DEF HandToReport, TypeOK, rowVars
<1> QED BY <1>0, <1>1, <1>2, <1>3, <1>4, <1>5, BaseTypeOK, Kinds

\* Those of a run of a diarization.
LEMMA DRunTypes ==
  ASSUME PTypeOK, NEW v \in Diarizers, NEW d \in Diars,
         NEW from, NEW to \in DiarPhase, DStep(v, d, from, to)
  PROVE  drun' \in [Diarizers -> [Diars -> DiarPhase]]
  BY DEF PTypeOK, DStep

\* The steps of a diarize job are well typed.
LEMMA DJobTypeOK ==
  ASSUME PTypeOK, NEW v \in Diarizers, NEW d \in Diars,
         ClaimDiarize(v, d) \/ DJobStep(v, d), TypeOK'
  PROVE  PTypeOK'
<1>1. drun' \in [Diarizers -> [Diars -> DiarPhase]]
  <2>1. PICK from, to \in DiarPhase : DStep(v, d, from, to)
    BY DEF ClaimDiarize, DJobStep, BeginDiarize, MissDiarize, EndDiarize, DiarizeRaises,
       HandToReport, EndDiarizeJob, RetryDiarizeJob, DiarPhase
  <2> QED BY <2>1, DRunTypes
<1>2. djob' \in [Diars -> Job]
  <2>1. \/ djob' = djob
        \/ djob' = [djob EXCEPT ![d] = Claim(djob[d])]
        \/ djob' = [djob EXCEPT ![d] = Finish(djob[d])]
        \/ djob' = [djob EXCEPT ![d] = Release(djob[d])]
    BY DEF ClaimDiarize, DJobStep, BeginDiarize, MissDiarize, EndDiarize, DiarizeRaises,
       HandToReport, EndDiarizeJob, RetryDiarizeJob
  <2>2. djob \in [Diars -> Job] /\ djob[d] \in Job
    BY DEF PTypeOK
  <2> QED BY <2>1, <2>2, JobTypes
<1>3. dstatus' \in [Diars -> Status]
  <2>1. \/ dstatus' = dstatus
        \/ dstatus' = [dstatus EXCEPT ![d] = "running"]
        \/ dstatus' = [dstatus EXCEPT ![d] = "done"]
        \/ dstatus' = [dstatus EXCEPT ![d] = "failed"]
    BY DEF ClaimDiarize, DJobStep, BeginDiarize, MissDiarize, EndDiarize, DiarizeRaises,
       HandToReport, EndDiarizeJob, RetryDiarizeJob, DSet
  <2> QED BY <2>1 DEF PTypeOK, Status
<1>4. dfaults' \in [stop : Nat, crash : Nat, error : Nat]
  <2>1. dfaults' = dfaults \/ dfaults' = [dfaults EXCEPT !.error = @ + 1]
    BY DEF ClaimDiarize, DJobStep, BeginDiarize, MissDiarize, EndDiarize, DiarizeRaises,
       HandToReport, EndDiarizeJob, RetryDiarizeJob
  <2> QED BY <2>1 DEF PTypeOK
<1>5. UNCHANGED <<dauto, dasked, dup, plan, labels>>
  BY DEF ClaimDiarize, DJobStep, BeginDiarize, MissDiarize, EndDiarize, DiarizeRaises,
     HandToReport, EndDiarizeJob, RetryDiarizeJob
<1> QED BY <1>1, <1>2, <1>3, <1>4, <1>5 DEF PTypeOK

\* So are start, stop and crash of a diarize worker.
LEMMA DiarizerTypeOK ==
  ASSUME PTypeOK, NEW v \in Diarizers,
         StartDiarizer(v) \/ StopDiarizer(v) \/ CrashDiarizer(v), TypeOK'
  PROVE  PTypeOK'
<1>1. \A d \in Diars : djob[d] \in Job /\ Release(djob[d]) \in Job /\ Reset(djob[d]) \in Job
  BY JobTypes DEF PTypeOK
<1>2. djob' \in [Diars -> Job]
  BY <1>1 DEF PTypeOK, StartDiarizer, StopDiarizer, CrashDiarizer
<1>3. dstatus' \in [Diars -> Status]
  BY DEF PTypeOK, StartDiarizer, StopDiarizer, CrashDiarizer, DHalt, Status
<1>4. /\ dup' \in [Diarizers -> BOOLEAN]
      /\ drun' \in [Diarizers -> [Diars -> DiarPhase]]
  <2>1. CASE StartDiarizer(v)
    BY <2>1 DEF PTypeOK, StartDiarizer
  <2>2. CASE StopDiarizer(v) \/ CrashDiarizer(v)
    <3>1. DHalt(v)
      BY <2>2 DEF StopDiarizer, CrashDiarizer
    <3> QED BY <3>1 DEF DHalt, PTypeOK, DiarPhase
  <2> QED BY <2>1, <2>2
<1>5. dfaults' \in [stop : Nat, crash : Nat, error : Nat]
  <2>1. \/ dfaults' = dfaults
        \/ dfaults' = [dfaults EXCEPT !.stop = @ + 1]
        \/ dfaults' = [dfaults EXCEPT !.crash = @ + 1]
    BY DEF StartDiarizer, StopDiarizer, CrashDiarizer
  <2>2. dfaults \in [stop : Nat, crash : Nat, error : Nat]
    BY DEF PTypeOK
  <2> QED BY <2>1, <2>2
<1>6. UNCHANGED <<dauto, dasked, plan, labels>>
  BY DEF StartDiarizer, StopDiarizer, CrashDiarizer, DHalt
<1> QED BY <1>2, <1>3, <1>4, <1>5, <1>6 DEF PTypeOK

\* Every step is well typed.
LEMMA StepPTypeOK ==
  ASSUME PTypeOK, [PNext]_pvars
  PROVE  PTypeOK'
<1>1. CASE UNCHANGED pvars
  BY <1>1 DEF pvars, vars, dvars, PTypeOK, TypeOK
<1>2. CASE PNext
  <2>0. TypeOK'
    BY <1>2, StepBaseTypeOK
  <2>1. CASE PlainStep
    BY <2>0, <2>1 DEF PlainStep, dvars, PTypeOK
  <2>2. CASE PRemoveSession
    BY <2>0, <2>2 DEF PRemoveSession, PTypeOK, Status
  <2>3. CASE PApiCrash
    BY <2>0, <2>3 DEF PApiCrash, PTypeOK
  <2>4. ASSUME NEW w \in Workers, Transcribe(w) PROVE PTypeOK'
    <3>1. Waiting \subseteq Diars
      BY DEF Waiting
    <3>2. PICK R \in SUBSET Reports :
            /\ dauto' = [d \in Diars |-> IF d \in Waiting THEN R ELSE dauto[d]]
            /\ plan' = [plan EXCEPT ![w] = IF Waiting # {} THEN Waiting ELSE R]
      BY <2>4 DEF Transcribe
    <3> QED BY <2>0, <2>4, <3>1, <3>2 DEF Transcribe, PTypeOK
  <2>5. ASSUME NEW w \in Workers, HandOver(w) PROVE PTypeOK'
    <3>1. PICK x \in plan[w] :
            /\ djob' = [d \in Diars |-> IF d = x THEN Enqueue(djob[d]) ELSE djob[d]]
            /\ plan' = [plan EXCEPT ![w] = @ \ {x}]
      BY <2>5 DEF HandOver
    <3>2. djob' \in [Diars -> Job]
      BY <3>1, JobTypes DEF PTypeOK
    <3> QED BY <2>0, <2>5, <3>1, <3>2 DEF HandOver, PTypeOK
  <2>6. ASSUME NEW w \in Workers, PHalt(w) PROVE PTypeOK'
    BY <2>0, <2>6 DEF PHalt, PTypeOK
  <2>7. ASSUME NEW w \in Workers, NEW r \in Reports, PJobStep(w, r) PROVE PTypeOK'
    BY <2>0, <2>7 DEF PJobStep, PBeginReport, dvars, PTypeOK
  <2>8. ASSUME NEW d \in Diars, Rediarize(d) PROVE PTypeOK'
    BY <2>0, <2>8 DEF Rediarize, PTypeOK, Status
  <2>9. ASSUME NEW d \in Diars, EnqueueDiarization(d) PROVE PTypeOK'
    BY <2>0, <2>9, JobTypes DEF EnqueueDiarization, PTypeOK
  <2> QED BY <1>2, <2>0, <2>1, <2>2, <2>3, <2>4, <2>5, <2>6, <2>7, <2>8, <2>9,
             DJobTypeOK, DiarizerTypeOK DEF PNext
<1> QED BY <1>1, <1>2

\* Type correctness of the composition.
THEOREM PTypeCorrect == PSpec => []PTypeOK
  BY InitPTypeOK, StepPTypeOK, PTL DEF PSpec

-----------------------------------------------------------------------------
(* Reports in the composition *)

\* The invariant, for one report.
LEMMA RowOf ==
  ASSUME CoreInv, NEW q \in Reports
  PROVE  PTypeOK /\ TypeOK /\ RInv(q) /\ RowInv(q)
  BY DEF CoreInv, PTypeOK

\* A job that is enqueued for a report that exists.
LEMMA EnqueuedRInv ==
  ASSUME TypeOK, NEW q \in Reports, RInv(q),
         UNCHANGED <<rowVars, asked, up, run>>,
         \/ job'[q] = job[q]
         \/ rstatus[q] # "none" /\ job'[q] = Enqueue(job[q])
  PROVE  RInv(q)'
<1>1. CASE job'[q] = job[q]
  BY <1>1, Frame DEF Same, rowVars
<1>2. CASE rstatus[q] # "none" /\ job'[q] = Enqueue(job[q])
  <2>1. /\ job[q].key => job'[q].key
        /\ job'[q].held = job[q].held /\ job'[q].result = job[q].result
        /\ job[q].result => job'[q] = job[q]
    BY <1>2 DEF Enqueue, Known, Job, TypeOK
  <2> QED BY <1>2, <2>1 DEF RInv, rowVars, Running
<1> QED BY <1>1, <1>2

\* What HandOver and HandToReport do to the job of a report.
LEMMA HandOverJob ==
  ASSUME PTypeOK, NEW w \in Workers, HandOver(w), NEW q \in Reports
  PROVE  \/ job'[q] = job[q]
         \/ q \in plan[w] /\ job'[q] = Enqueue(job[q])
<1>1. \E x \in plan[w] : job'[q] = IF q = x THEN Enqueue(job[q]) ELSE job[q]
  BY DEF HandOver
<1> QED BY <1>1

\* HandToReport enqueues the reports attached to the diarization, and no other.
LEMMA HandToReportJob ==
  ASSUME PTypeOK, NEW v \in Diarizers, NEW d \in Diars, HandToReport(v, d), NEW q \in Reports
  PROVE  job'[q] = IF q \in dauto[d] THEN Enqueue(job[q]) ELSE job[q]
  BY DEF HandToReport

\* Every step keeps the invariant of Reports, report by report.
LEMMA StepRInv ==
  ASSUME ~StartsOverlap, CoreInv, PNext, NEW q \in Reports
  PROVE  RInv(q)'
<1>0. PTypeOK /\ TypeOK /\ RInv(q) /\ RowInv(q)
  BY RowOf
<1>1. CASE BaseStep
  BY <1>0, <1>1, ReportRInv, JobRInv, ProcessRInv DEF BaseStep
<1>2. CASE UNCHANGED vars
  BY <1>0, <1>2, Frame DEF vars, Same
<1>3. CASE PApiCrash
  BY <1>0, <1>3 DEF PApiCrash, RInv, rowVars, Running
<1>4. ASSUME NEW w \in Workers, Transcribe(w) PROVE RInv(q)'
  <2>1. rstatus[q] = "none" /\ ~asked[q] /\ job[q] = NoJob /\ content[q] = "none"
    BY <1>0, <1>4 DEF Transcribe, RInv, TypeOK
  <2>2. \A u \in Workers : ~Running(u, q)
    BY <1>0, <2>1 DEF RInv, NoJob
  <2>3. rstatus'[q] \in {"none", "queued"} /\ sess' \in {"ready", "silent"}
    BY <1>0, <1>4, <2>1 DEF Transcribe
  <2> QED BY <1>4, <2>1, <2>2, <2>3 DEF Transcribe, RInv, Running, NoJob
<1>5. ASSUME NEW w \in Workers, HandOver(w) PROVE RInv(q)'
  <2>1. q \in plan[w] => rstatus[q] # "none"
    BY <1>0 DEF RowInv, Planned
  <2> QED BY <1>0, <1>5, <2>1, EnqueuedRInv, HandOverJob DEF HandOver
<1>6. ASSUME NEW v \in Diarizers, NEW d \in Diars, HandToReport(v, d) PROVE RInv(q)'
  <2>1. q \in dauto[d] => rstatus[q] # "none"
    BY <1>0 DEF RowInv
  <2> QED BY <1>0, <1>6, <2>1, EnqueuedRInv, HandToReportJob DEF HandToReport
<1> QED BY <1>1, <1>2, <1>3, <1>4, <1>5, <1>6, Kinds

\* Reports are created by Transcribe and create_report, and never become nothing again.
LEMMA RowsStay ==
  ASSUME CoreInv, PNext, NEW q \in Reports, rstatus[q] # "none"
  PROVE  rstatus'[q] # "none"
<1>0. PTypeOK /\ TypeOK /\ RInv(q) /\ RowInv(q)
  BY RowOf
<1>1. CASE RemoveSession \/ UNCHANGED vars \/ PApiCrash
  BY <1>0, <1>1 DEF RemoveSession, Drop, vars, PApiCrash, rowVars
<1>2. ASSUME NEW r \in Reports, ReportStep(r) PROVE rstatus'[q] # "none"
  BY <1>0, <1>2 DEF ReportStep, CreateReport, EnqueueReport, EditReport, DeleteReport,
     Drop, ResultExpires, SetStatus, rowVars, TypeOK
<1>3. ASSUME NEW w \in Workers, NEW r \in Reports, ClaimJob(w, r) \/ JobStep(w, r)
      PROVE  rstatus'[q] # "none"
  BY <1>0, <1>3 DEF ClaimJob, JobStep, WaitForLlm, BeginReport, NoTranscript, SkipReport,
     MissReport, WriteReport, FailReport, EndJob, RetryJob, SetStatus, rowVars, TypeOK
<1>4. ASSUME NEW w \in Workers, ProcessStep(w) PROVE rstatus'[q] # "none"
  BY <1>0, <1>4 DEF ProcessStep, StartWorker, StopWorker, CrashWorker, Halt, rowVars, TypeOK
<1>5. ASSUME NEW w \in Workers, Transcribe(w) \/ HandOver(w) PROVE rstatus'[q] # "none"
  BY <1>0, <1>5 DEF Transcribe, HandOver, rowVars
<1>6. ASSUME NEW v \in Diarizers, NEW d \in Diars, HandToReport(v, d)
      PROVE  rstatus'[q] # "none"
  BY <1>6 DEF HandToReport, rowVars
<1> QED BY <1>1, <1>2, <1>3, <1>4, <1>5, <1>6, Kinds DEF BaseStep

\* Who waits, and who is to enqueue what: changed by few.
LEMMA PlansChange ==
  ASSUME PTypeOK, PNext
  PROVE  \/ UNCHANGED <<plan, dauto>>
         \/ PRemoveSession
         \/ \E w \in Workers : Transcribe(w) \/ HandOver(w) \/ PHalt(w)
<1>1. CASE PlainStep \/ PApiCrash
  BY <1>1 DEF PlainStep, PApiCrash, dvars
<1>2. ASSUME NEW w \in Workers, NEW r \in Reports, PJobStep(w, r) PROVE UNCHANGED <<plan, dauto>>
  BY <1>2 DEF PJobStep, PBeginReport, dvars
<1>3. ASSUME NEW d \in Diars, Rediarize(d) \/ EnqueueDiarization(d)
      PROVE  UNCHANGED <<plan, dauto>>
  BY <1>3 DEF Rediarize, EnqueueDiarization
<1>4. ASSUME NEW v \in Diarizers, NEW d \in Diars, ClaimDiarize(v, d) \/ DJobStep(v, d)
      PROVE  UNCHANGED <<plan, dauto>>
  BY <1>4 DEF ClaimDiarize, DJobStep, BeginDiarize, MissDiarize, EndDiarize, DiarizeRaises,
     HandToReport, EndDiarizeJob, RetryDiarizeJob
<1>5. ASSUME NEW v \in Diarizers, StartDiarizer(v) \/ StopDiarizer(v) \/ CrashDiarizer(v)
      PROVE  UNCHANGED <<plan, dauto>>
  BY <1>5 DEF StartDiarizer, StopDiarizer, CrashDiarizer, DHalt
<1> QED BY <1>1, <1>2, <1>3, <1>4, <1>5 DEF PNext

\* The session: opened by nobody, transcribed by Transcribe.
LEMMA SessionChanges ==
  ASSUME PNext
  PROVE  \/ UNCHANGED sess
         \/ sess' = "gone" /\ PRemoveSession
         \/ /\ sess = "open" /\ sess' \in {"ready", "silent"}
            /\ \E w \in Workers : Transcribe(w)
<1>1. CASE PlainStep
  BY <1>1 DEF PlainStep, ReportStep, CreateReport, EnqueueReport, EditReport, DeleteReport,
     ResultExpires, ClaimJob, StartWorker, rowVars
<1>2. CASE PRemoveSession
  BY <1>2 DEF PRemoveSession, RemoveSession
<1>3. CASE PApiCrash
  BY <1>3 DEF PApiCrash, rowVars
<1>4. ASSUME NEW w \in Workers, Transcribe(w)
      PROVE  sess = "open" /\ sess' \in {"ready", "silent"}
  BY <1>4 DEF Transcribe
<1>5. ASSUME NEW w \in Workers, HandOver(w) \/ PHalt(w) PROVE UNCHANGED sess
  BY <1>5 DEF HandOver, PHalt, StopWorker, CrashWorker, Halt, rowVars
<1>6. ASSUME NEW w \in Workers, NEW r \in Reports, PJobStep(w, r) PROVE UNCHANGED sess
  BY <1>6 DEF PJobStep, PBeginReport, WaitForLlm, BeginReport, NoTranscript, SkipReport,
     MissReport, WriteReport, FailReport, EndJob, RetryJob, rowVars
<1>7. ASSUME NEW d \in Diars, Rediarize(d) \/ EnqueueDiarization(d) PROVE UNCHANGED sess
  BY <1>7 DEF Rediarize, EnqueueDiarization, vars
<1>8. ASSUME NEW v \in Diarizers, NEW d \in Diars, ClaimDiarize(v, d) \/ DJobStep(v, d)
      PROVE  UNCHANGED sess
  BY <1>8 DEF ClaimDiarize, DJobStep, BeginDiarize, MissDiarize, EndDiarize, DiarizeRaises,
     HandToReport, EndDiarizeJob, RetryDiarizeJob, vars, rowVars
<1>9. ASSUME NEW v \in Diarizers, StartDiarizer(v) \/ StopDiarizer(v) \/ CrashDiarizer(v)
      PROVE  UNCHANGED sess
  BY <1>9 DEF StartDiarizer, StopDiarizer, CrashDiarizer, DHalt, vars
<1> QED BY <1>1, <1>2, <1>3, <1>4, <1>5, <1>6, <1>7, <1>8, <1>9 DEF PNext

\* The three steps that change a plan, and what becomes of it.
LEMMA PlanOf ==
  ASSUME PTypeOK, NEW w \in Workers, HandOver(w) \/ PHalt(w)
  PROVE  UNCHANGED dauto /\ \A u \in Workers : plan'[u] \subseteq plan[u]
<1>1. CASE HandOver(w)
  <2>1. PICK x \in plan[w] : plan' = [plan EXCEPT ![w] = @ \ {x}] /\ UNCHANGED dauto
    BY <1>1 DEF HandOver
  <2> QED BY <2>1 DEF PTypeOK
<1>2. CASE PHalt(w)
  BY <1>2 DEF PHalt, PTypeOK
<1> QED BY <1>1, <1>2

\* What is handed on or waited for has a row, after every step.
LEMMA StepRowInv ==
  ASSUME ~StartsOverlap, CoreInv, PNext, NEW q \in Reports
  PROVE  RowInv(q)'
<1>0. PTypeOK /\ TypeOK /\ RInv(q) /\ RowInv(q)
  BY RowOf
<1>1. SUFFICES ASSUME Planned(q)' \/ (\E d \in Diars : q \in dauto'[d])
               PROVE  rstatus'[q] # "none"
  BY DEF RowInv
<1>2. ASSUME Planned(q) \/ (\E d \in Diars : q \in dauto[d]) PROVE rstatus'[q] # "none"
  BY <1>0, <1>2, RowsStay DEF RowInv
<1>3. CASE UNCHANGED <<plan, dauto>>
  BY <1>1, <1>2, <1>3 DEF Planned
<1>4. CASE PRemoveSession
  BY <1>1, <1>2, <1>4 DEF PRemoveSession, Planned
<1>5. ASSUME NEW w \in Workers, HandOver(w) \/ PHalt(w) PROVE rstatus'[q] # "none"
  BY <1>0, <1>1, <1>2, <1>5, PlanOf DEF Planned
<1>6. ASSUME NEW w \in Workers, Transcribe(w) PROVE rstatus'[q] # "none"
  <2>1. PICK R \in SUBSET Reports :
          /\ rstatus' = [r \in Reports |-> IF r \in R THEN "queued" ELSE rstatus[r]]
          /\ dauto' = [d \in Diars |-> IF d \in Waiting THEN R ELSE dauto[d]]
          /\ plan' = [plan EXCEPT ![w] = IF Waiting # {} THEN Waiting ELSE R]
    BY <1>6 DEF Transcribe
  <2>2. q \notin Waiting
    BY PipelineAssumption DEF Waiting
  <2>3. CASE q \in R
    BY <2>1, <2>3
  <2>4. CASE q \notin R
    <3>1. \A u \in Workers : q \in plan'[u] => q \in plan[u]
      BY <1>0, <2>1, <2>2, <2>4 DEF PTypeOK
    <3>2. \A d \in Diars : q \in dauto'[d] => q \in dauto[d]
      BY <2>1, <2>4
    <3> QED BY <1>1, <1>2, <3>1, <3>2 DEF Planned
  <2> QED BY <2>3, <2>4
<1> QED BY <1>0, <1>3, <1>4, <1>5, <1>6, PlansChange

-----------------------------------------------------------------------------
(* Diarizations *)

\* What the calls on a job id do to what is known of it.
LEMMA KnownJobs ==
  ASSUME NEW j \in Job
  PROVE  /\ Known(Claim(j)) <=> Known(j)
         /\ Known(Release(j)) <=> Known(j)
         /\ Known(Finish(j)) /\ ~Finish(j).key /\ ~Finish(j).held
         /\ Known(Reset(j)) /\ Reset(j).key /\ ~Reset(j).held
         /\ Known(Enqueue(j)) /\ Enqueue(j).held = j.held
         /\ Claim(j).key = j.key /\ Claim(j).held
         /\ Release(j).key = j.key /\ ~Release(j).held
         /\ ~Known(j) => Enqueue(j).key
         /\ ~Known(NoJob)
  BY DEF Job, Known, Claim, Release, Finish, Reset, Enqueue, NoJob

\* PInit: nothing was asked for.
LEMMA InitCoreInv == PInit => CoreInv
<1> SUFFICES ASSUME PInit PROVE CoreInv
  OBVIOUS
<1>1. PTypeOK
  BY InitPTypeOK
<1>2. IInv
  BY InitIInv DEF PInit
<1>3. \A r \in Reports : RInv(r)
  BY <1>2, Pointwise
<1>4. \A r \in Reports : RowInv(r)
  BY DEF PInit, Init, RowInv, Planned
<1>5. ASSUME NEW d \in Diars PROVE DiarInv(d)
  <2>1. /\ dstatus[d] \in {"queued", "none"} /\ dauto[d] = {} /\ djob[d] = NoJob
        /\ ~dasked[d] /\ \A v \in Diarizers : drun[v][d] = "idle"
        /\ \A w \in Workers : plan[w] = {}
    BY <1>5 DEF PInit
  <2> QED BY <2>1 DEF DiarInv, Known, NoJob, Planned
<1> QED BY <1>1, <1>3, <1>4, <1>5 DEF CoreInv

\* A run that does something is of a diarization whose job is known, and leaves a job
\* that is known; it touches no other diarization.
LEMMA DRunOf ==
  ASSUME PTypeOK, NEW v \in Diarizers, NEW d \in Diars,
         ClaimDiarize(v, d) \/ DJobStep(v, d), DiarInv(d)
  PROVE  /\ UNCHANGED <<dauto, dasked, dup, plan, labels>>
         /\ Known(djob[d]) /\ Known(djob'[d]) /\ (djob'[d].held => djob'[d].key)
         /\ dstatus'[d] = dstatus[d] \/ (dstatus[d] # "gone" /\ dstatus'[d] \in {"running", "done", "failed"})
         /\ \A e \in Diars \ {d} :
              /\ djob'[e] = djob[e] /\ dstatus'[e] = dstatus[e]
              /\ \A u \in Diarizers : drun'[u][e] = drun[u][e]
         /\ \A u \in Diarizers \ {v} : drun'[u] = drun[u]
<1> USE DEF PTypeOK
<1>1. UNCHANGED <<dauto, dasked, dup, plan, labels>>
  BY DEF ClaimDiarize, DJobStep, BeginDiarize, MissDiarize, EndDiarize, DiarizeRaises,
     HandToReport, EndDiarizeJob, RetryDiarizeJob
<1>2. PICK from, to \in DiarPhase : DStep(v, d, from, to) /\ (from = "idle" => ClaimDiarize(v, d))
  BY DEF ClaimDiarize, DJobStep, BeginDiarize, MissDiarize, EndDiarize, DiarizeRaises,
     HandToReport, EndDiarizeJob, RetryDiarizeJob, DiarPhase
<1>3. /\ \A u \in Diarizers \ {v} : drun'[u] = drun[u]
      /\ \A e \in Diars \ {d}, u \in Diarizers : drun'[u][e] = drun[u][e]
  BY <1>2 DEF DStep
<1>4. Known(djob[d])
  <2>1. CASE from = "idle"
    BY <1>2, <2>1 DEF ClaimDiarize, Claimable, Known
  <2>2. CASE from # "idle"
    BY <1>2, <2>2 DEF DStep, DiarInv
  <2> QED BY <2>1, <2>2
<1>5. PICK j \in {djob[d], Claim(djob[d]), Finish(djob[d]), Release(djob[d])} :
        djob' = [djob EXCEPT ![d] = j]
  BY DEF ClaimDiarize, DJobStep, BeginDiarize, MissDiarize, EndDiarize, DiarizeRaises,
     HandToReport, EndDiarizeJob, RetryDiarizeJob
<1>6. /\ djob'[d] = j /\ djob[d] \in Job
      /\ \A e \in Diars \ {d} : djob'[e] = djob[e]
  BY <1>5
<1>7. Known(j) /\ (j.held => j.key)
  <2>1. CASE j = Claim(djob[d])
    <3>1. ClaimDiarize(v, d) \/ djob'[d] = djob[d] \/ ~djob'[d].held
      BY <1>6, KnownJobs DEF ClaimDiarize, DJobStep, BeginDiarize, MissDiarize, EndDiarize, DiarizeRaises,
     HandToReport, EndDiarizeJob, RetryDiarizeJob
    <3> QED BY <1>4, <1>6, <2>1, <3>1, KnownJobs DEF ClaimDiarize, Claimable, DiarInv
  <2>2. CASE j # Claim(djob[d])
    BY <1>4, <1>5, <1>6, <2>2, KnownJobs DEF DiarInv
  <2> QED BY <2>1, <2>2
<1>8. PICK x \in {dstatus[d], "running", "done", "failed"} :
        dstatus' = [dstatus EXCEPT ![d] = x] /\ (dstatus[d] = "gone" => x = dstatus[d])
  BY DEF ClaimDiarize, DJobStep, BeginDiarize, MissDiarize, EndDiarize, DiarizeRaises,
     HandToReport, EndDiarizeJob, RetryDiarizeJob, DSet
<1>9. /\ dstatus'[d] = dstatus[d]
         \/ (dstatus[d] # "gone" /\ dstatus'[d] \in {"running", "done", "failed"})
      /\ \A e \in Diars \ {d} : dstatus'[e] = dstatus[e]
  BY <1>8
<1> QED BY <1>1, <1>3, <1>4, <1>6, <1>7, <1>9

\* The steps of diarize workers, for every diarization.
LEMMA DiarizerDiarInv ==
  ASSUME PTypeOK, NEW e \in Diars, DiarInv(e), UNCHANGED sess,
         \/ \E v \in Diarizers, d \in Diars :
              DiarInv(d) /\ (ClaimDiarize(v, d) \/ DJobStep(v, d))
         \/ \E v \in Diarizers : StartDiarizer(v) \/ StopDiarizer(v) \/ CrashDiarizer(v)
  PROVE  DiarInv(e)'
<1>0. djob[e] \in Job
  BY DEF PTypeOK
<1>1. ASSUME NEW v \in Diarizers, NEW d \in Diars, DiarInv(d), ClaimDiarize(v, d) \/ DJobStep(v, d)
      PROVE  DiarInv(e)'
  <2>1. CASE e = d
    <3>1. /\ UNCHANGED <<dauto, dasked, plan>> /\ Known(djob[e]) /\ Known(djob'[e])
          /\ djob'[e].held => djob'[e].key
          /\ dstatus'[e] = dstatus[e]
             \/ (dstatus[e] # "gone" /\ dstatus'[e] \in {"running", "done", "failed"})
      BY <1>1, <2>1, DRunOf
    <3>2. dstatus[e] # "none" /\ ~dasked[e] /\ ~Planned(e) /\ sess # "open"
      BY <3>1 DEF DiarInv
    <3>3. ~Planned(e)'
      BY <3>1, <3>2 DEF Planned
    <3> QED BY <3>1, <3>2, <3>3 DEF DiarInv
  <2>2. CASE e # d
    <3>1. /\ UNCHANGED <<dauto, dasked, plan>>
          /\ djob'[e] = djob[e] /\ dstatus'[e] = dstatus[e]
          /\ \A u \in Diarizers : drun'[u][e] = drun[u][e]
      BY <1>1, <2>2, DRunOf
    <3> QED BY <3>1 DEF DiarInv, Planned
  <2> QED BY <2>1, <2>2
<1>2. ASSUME NEW v \in Diarizers, StartDiarizer(v) PROVE DiarInv(e)'
  <2>1. /\ UNCHANGED <<dauto, dasked, plan, drun>>
        /\ dstatus'[e] = IF dstatus[e] = "running" THEN "queued" ELSE dstatus[e]
        /\ djob'[e] = IF dstatus[e] = "running" THEN Reset(djob[e]) ELSE djob[e]
    BY <1>2 DEF StartDiarizer
  <2>2. CASE dstatus[e] = "running"
    <3>1. Known(djob[e]) /\ Known(djob'[e]) /\ ~djob'[e].held
      BY <1>0, <2>1, <2>2, KnownJobs DEF DiarInv
    <3>2. ~dasked[e] /\ ~Planned(e) /\ sess # "open"
      BY <3>1 DEF DiarInv
    <3> QED BY <2>1, <2>2, <3>1, <3>2 DEF DiarInv, Planned
  <2>3. CASE dstatus[e] # "running"
    BY <2>1, <2>3 DEF DiarInv, Planned
  <2> QED BY <2>2, <2>3
<1>3. ASSUME NEW v \in Diarizers, StopDiarizer(v) \/ CrashDiarizer(v) PROVE DiarInv(e)'
  <2>1. /\ UNCHANGED <<dauto, dasked, plan, dstatus>>
        /\ djob'[e] \in {djob[e], Release(djob[e])}
    BY <1>3 DEF StopDiarizer, CrashDiarizer, DHalt, PTypeOK
  <2>2. Known(djob'[e]) <=> Known(djob[e])
    BY <1>0, <2>1, KnownJobs
  <2>3. djob'[e].held => djob'[e].key
    BY <1>0, <2>1, KnownJobs DEF DiarInv
  <2>4. \A u \in Diarizers : drun'[u][e] \in {drun[u][e], "idle"}
    <3>1. DHalt(v)
      BY <1>3 DEF StopDiarizer, CrashDiarizer
    <3> QED BY <3>1 DEF DHalt, PTypeOK
  <2> QED BY <2>1, <2>2, <2>3, <2>4 DEF DiarInv, Planned
<1> QED BY <1>1, <1>2, <1>3

\* What Transcribe leaves of a diarization: planned and waited for, or as it was.
LEMMA TranscribeDiar ==
  ASSUME CoreInv, NEW w \in Workers, Transcribe(w), NEW e \in Diars
  PROVE  /\ UNCHANGED <<dstatus, djob, dasked, drun>>
         /\ sess = "open" /\ sess' \in {"ready", "silent"}
         /\ ~Known(djob[e]) /\ ~dasked[e] /\ dauto[e] = {}
         /\ \A u \in Workers : e \in plan'[u] => u = w /\ e \in Waiting
         /\ e \in Waiting => e \in plan'[w]
         /\ e \notin Waiting => dauto'[e] = {}
<1>0. PTypeOK /\ DiarInv(e)
  BY DEF CoreInv
<1>1. sess = "open" /\ sess' \in {"ready", "silent"} /\ UNCHANGED <<dstatus, djob, dasked, drun>>
  BY DEF Transcribe
<1>2. ~Known(djob[e]) /\ ~dasked[e] /\ dauto[e] = {} /\ \A u \in Workers : e \notin plan[u]
  BY <1>0, <1>1 DEF DiarInv, Planned
<1>3. PICK R \in SUBSET Reports :
        /\ dauto' = [d \in Diars |-> IF d \in Waiting THEN R ELSE dauto[d]]
        /\ plan' = [plan EXCEPT ![w] = IF Waiting # {} THEN Waiting ELSE R]
  BY DEF Transcribe
<1>4. e \notin R
  BY PipelineAssumption
<1>5. \A u \in Workers : e \in plan'[u] => u = w /\ e \in Waiting
  BY <1>0, <1>2, <1>3, <1>4 DEF PTypeOK
<1>6. e \in Waiting => e \in plan'[w]
  BY <1>0, <1>3 DEF PTypeOK
<1> QED BY <1>1, <1>2, <1>3, <1>5, <1>6

\* What HandOver does to a diarization.
LEMMA HandOverDiar ==
  ASSUME CoreInv, NEW w \in Workers, HandOver(w), NEW e \in Diars
  PROVE  /\ UNCHANGED <<sess, dstatus, dauto, dasked, drun>>
         /\ \/ /\ e \in plan[w] /\ ~Known(djob[e]) /\ djob'[e] = Enqueue(djob[e])
               /\ \A u \in Workers : e \notin plan'[u]
            \/ /\ djob'[e] = djob[e]
               /\ \A u \in Workers : e \in plan'[u] <=> e \in plan[u]
<1>0. PTypeOK /\ DiarInv(e)
  BY DEF CoreInv
<1>1. PICK x \in plan[w] :
        /\ djob' = [d \in Diars |-> IF d = x THEN Enqueue(djob[d]) ELSE djob[d]]
        /\ plan' = [plan EXCEPT ![w] = @ \ {x}]
  BY DEF HandOver
<1>2. UNCHANGED <<sess, dstatus, dauto, dasked, drun>>
  BY DEF HandOver, rowVars
<1>3. \A u \in Workers : plan'[u] = IF u = w THEN plan[u] \ {x} ELSE plan[u]
  BY <1>0, <1>1 DEF PTypeOK
<1>4. CASE e = x
  <2>1. Planned(e)
    BY <1>1, <1>4 DEF Planned
  <2>2. ~Known(djob[e]) /\ \A u \in Workers : e \in plan[u] => u = w
    BY <1>0, <1>1, <1>4, <2>1 DEF DiarInv
  <2> QED BY <1>1, <1>2, <1>3, <1>4, <2>2
<1>5. CASE e # x
  BY <1>1, <1>2, <1>3, <1>5
<1> QED BY <1>4, <1>5

\* A diarization has one who is to enqueue it at most.
LEMMA StepDiarInv ==
  ASSUME CoreInv, PNext, NEW e \in Diars
  PROVE  DiarInv(e)'
<1>0. /\ PTypeOK /\ DiarInv(e) /\ djob[e] \in Job
      /\ \A d \in Diars : DiarInv(d)
  BY DEF CoreInv, PTypeOK
<1>1. sess' = "open" => sess = "open"
  BY SessionChanges
<1>2. CASE PlainStep \/ \E w \in Workers, r \in Reports : PJobStep(w, r)
  <2>1. UNCHANGED <<dstatus, dauto, djob, dasked, drun, plan>>
    BY <1>2 DEF PlainStep, PJobStep, PBeginReport, dvars
  <2> QED BY <1>0, <1>1, <2>1 DEF DiarInv, Planned
<1>3. CASE PRemoveSession
  <2>1. /\ UNCHANGED <<djob, dasked, drun, plan>> /\ sess' = "gone" /\ dauto'[e] = {}
        /\ dstatus'[e] = IF dstatus[e] = "none" THEN "none" ELSE "gone"
    BY <1>3 DEF PRemoveSession, RemoveSession
  <2> QED BY <1>0, <2>1 DEF DiarInv, Planned
<1>4. CASE PApiCrash
  <2>1. UNCHANGED <<sess, dstatus, dauto, djob, drun, plan>> /\ ~dasked'[e]
    BY <1>4 DEF PApiCrash, rowVars
  <2> QED BY <1>0, <2>1 DEF DiarInv, Planned
<1>5. ASSUME NEW w \in Workers, Transcribe(w) PROVE DiarInv(e)'
  <2>1. /\ UNCHANGED <<dstatus, djob, dasked, drun>> /\ sess' \in {"ready", "silent"}
        /\ ~Known(djob[e]) /\ ~dasked[e]
        /\ \A u \in Workers : e \in plan'[u] => u = w /\ e \in Waiting
        /\ e \notin Waiting => dauto'[e] = {}
    BY <1>5, TranscribeDiar
  <2>2. e \in Waiting => dstatus[e] = "queued"
    BY DEF Waiting
  <2> QED BY <1>0, <2>1, <2>2 DEF DiarInv, Planned
<1>6. ASSUME NEW w \in Workers, HandOver(w) PROVE DiarInv(e)'
  <2>1. UNCHANGED <<sess, dstatus, dauto, dasked, drun>>
    BY <1>6, HandOverDiar
  <2>2. CASE /\ e \in plan[w] /\ ~Known(djob[e]) /\ djob'[e] = Enqueue(djob[e])
             /\ \A u \in Workers : e \notin plan'[u]
    <3>1. Known(djob'[e]) /\ djob'[e].key
      BY <1>0, <2>2, KnownJobs
    <3>2. ~dasked[e] /\ sess # "open" /\ dstatus[e] # "none" /\ ~Planned(e)'
      BY <1>0, <2>2 DEF DiarInv, Planned
    <3> QED BY <1>0, <2>1, <2>2, <3>1, <3>2 DEF DiarInv
  <2>3. CASE djob'[e] = djob[e] /\ \A u \in Workers : e \in plan'[u] <=> e \in plan[u]
    BY <1>0, <2>1, <2>3 DEF DiarInv, Planned
  <2> QED BY <1>6, <2>2, <2>3, HandOverDiar
<1>7. ASSUME NEW w \in Workers, PHalt(w) PROVE DiarInv(e)'
  <2>1. UNCHANGED <<dstatus, dauto, djob, dasked, drun>>
    BY <1>7 DEF PHalt
  <2>2. \A u \in Workers : plan'[u] \subseteq plan[u]
    BY <1>0, <1>7, PlanOf
  <2> QED BY <1>0, <1>1, <2>1, <2>2 DEF DiarInv, Planned
<1>8. ASSUME NEW d \in Diars, Rediarize(d) PROVE DiarInv(e)'
  <2>1. /\ UNCHANGED <<sess, dauto, djob, drun, plan>> /\ sess = "ready"
        /\ dstatus[d] = "none" /\ dstatus' = [dstatus EXCEPT ![d] = "queued"]
        /\ dasked' = [dasked EXCEPT ![d] = TRUE]
    BY <1>8 DEF Rediarize, vars
  <2> QED BY <1>0, <2>1 DEF DiarInv, Planned, PTypeOK
<1>9. ASSUME NEW d \in Diars, EnqueueDiarization(d) PROVE DiarInv(e)'
  <2>1. /\ UNCHANGED <<sess, dstatus, dauto, drun, plan>> /\ dasked[d]
        /\ djob' = [djob EXCEPT ![d] = Enqueue(@)]
        /\ dasked' = [dasked EXCEPT ![d] = FALSE]
    BY <1>9 DEF EnqueueDiarization, vars
  <2>2. CASE e = d
    <3>1. djob'[e] = Enqueue(djob[e]) /\ ~Known(djob[e]) /\ ~dasked'[e]
      BY <1>0, <2>1, <2>2 DEF DiarInv, PTypeOK
    <3>2. Known(djob'[e]) /\ djob'[e].key
      BY <1>0, <3>1, KnownJobs
    <3>3. ~Planned(e) /\ sess # "open" /\ dstatus[e] # "none"
      BY <1>0, <2>1, <2>2 DEF DiarInv
    <3> QED BY <1>0, <2>1, <3>1, <3>2, <3>3 DEF DiarInv, Planned
  <2>3. CASE e # d
    BY <1>0, <2>1, <2>3 DEF DiarInv, Planned, PTypeOK
  <2> QED BY <2>2, <2>3
<1>10. CASE \/ \E v \in Diarizers, d \in Diars : ClaimDiarize(v, d) \/ DJobStep(v, d)
            \/ \E v \in Diarizers : StartDiarizer(v) \/ StopDiarizer(v) \/ CrashDiarizer(v)
  <2>1. UNCHANGED sess
    BY <1>10, SessionChanges DEF ClaimDiarize, DJobStep, BeginDiarize, MissDiarize, EndDiarize,
       DiarizeRaises, HandToReport, EndDiarizeJob, RetryDiarizeJob, StartDiarizer,
       StopDiarizer, CrashDiarizer, DHalt, vars, rowVars
  <2> QED BY <1>0, <1>10, <2>1, DiarizerDiarInv
<1> QED BY <1>2, <1>3, <1>4, <1>5, <1>6, <1>7, <1>8, <1>9, <1>10 DEF PNext

\* Every step keeps CoreInv.
LEMMA StepCoreInv ==
  ASSUME ~StartsOverlap, CoreInv, [PNext]_pvars
  PROVE  CoreInv'
<1>1. CASE UNCHANGED pvars
  <2>1. UNCHANGED <<vars, dvars>>
    BY <1>1 DEF pvars
  <2>2. \A r \in Reports : RInv(r)'
    BY <2>1, Frame, RowOf DEF vars, Same
  <2>3. \A r \in Reports : RowInv(r)'
    BY <2>1, RowOf DEF vars, dvars, RowInv, Planned
  <2>4. \A d \in Diars : DiarInv(d)'
    BY <2>1 DEF CoreInv, vars, dvars, DiarInv, Planned
  <2>5. PTypeOK'
    BY StepPTypeOK DEF CoreInv
  <2> QED BY <2>2, <2>3, <2>4, <2>5 DEF CoreInv
<1>2. CASE PNext
  <2>1. PTypeOK'
    BY <1>2, StepPTypeOK DEF CoreInv
  <2> QED BY <1>2, <2>1, StepRInv, StepRowInv, StepDiarInv DEF CoreInv
<1> QED BY <1>1, <1>2

\* Reports, rows, jobs and diarizations stay consistent in the composition.
THEOREM PInvariance ==
  ASSUME ~StartsOverlap
  PROVE  PSpec => []CoreInv
  BY InitCoreInv, StepCoreInv, PTL DEF PSpec

\* Nor do two runs of generate_report write one report at the same time in the composition,
\* with the hand-over of a diarization as one more place that enqueues it.
THEOREM POneWriter ==
  ASSUME ~StartsOverlap
  PROVE  PSpec => []OneRunPerReport
<1>1. CoreInv => OneRunPerReport
  BY DEF CoreInv, RInv, OneRunPerReport
<1> QED BY <1>1, PInvariance, PTL

-----------------------------------------------------------------------------
(* No report that waits for its diarization is forgotten *)

\* What breaks the chain is counted, and the counts stay.
LEMMA BreaksCounted ==
  ASSUME PTypeOK, [PNext]_pvars, NoBreak'
  PROVE  /\ NoBreak /\ ~PApiCrash
         /\ \A v \in Diarizers : ~CrashDiarizer(v) /\ \A d \in Diars : ~DiarizeRaises(v, d)
<1>0. /\ faults.api \in Nat /\ dfaults.crash \in Nat /\ dfaults.error \in Nat
      /\ faults'.api \in Nat /\ dfaults'.crash \in Nat /\ dfaults'.error \in Nat
  <2>1. PTypeOK'
    BY StepPTypeOK
  <2> QED BY <2>1 DEF PTypeOK, TypeOK
<1>1. faults'.api = 0 /\ dfaults'.crash = 0 /\ dfaults'.error = 0
  <2>1. faults'.api + dfaults'.crash + dfaults'.error = 0
    BY DEF NoBreak
  <2>2. \A a, b, c \in Nat : a + b + c = 0 => a = 0 /\ b = 0 /\ c = 0
    OBVIOUS
  <2> QED BY <1>0, <2>1, <2>2
<1>2. ~PApiCrash
  <2>1. PApiCrash => faults'.api = faults.api + 1
    BY DEF PApiCrash, PTypeOK, TypeOK
  <2> QED BY <1>0, <1>1, <2>1
<1>3. ASSUME NEW v \in Diarizers PROVE ~CrashDiarizer(v) /\ \A d \in Diars : ~DiarizeRaises(v, d)
  <2>1. CrashDiarizer(v) => dfaults'.crash = dfaults.crash + 1
    BY DEF CrashDiarizer, PTypeOK
  <2>2. \A d \in Diars : DiarizeRaises(v, d) => dfaults'.error = dfaults.error + 1
    BY DEF DiarizeRaises, PTypeOK
  <2> QED BY <1>0, <1>1, <2>1, <2>2
<1>4. faults'.api = faults.api
  <2>1. CASE BaseStep
    <3>1. CASE RemoveSession
      BY <3>1 DEF RemoveSession
    <3>2. ASSUME NEW r \in Reports, ReportStep(r) PROVE UNCHANGED faults
      BY <3>2 DEF ReportStep, CreateReport, EnqueueReport, EditReport, DeleteReport,
         ResultExpires
    <3>3. ASSUME NEW w \in Workers, NEW r \in Reports, ClaimJob(w, r) \/ JobStep(w, r)
          PROVE  UNCHANGED faults
      BY <3>3 DEF ClaimJob, JobStep, WaitForLlm, BeginReport, NoTranscript, SkipReport,
         MissReport, WriteReport, FailReport, EndJob, RetryJob
    <3>4. ASSUME NEW w \in Workers, ProcessStep(w) PROVE faults'.api = faults.api
      BY <3>4 DEF ProcessStep, StartWorker, StopWorker, CrashWorker, PTypeOK, TypeOK
    <3> QED BY <2>1, <3>1, <3>2, <3>3, <3>4 DEF BaseStep
  <2>2. CASE UNCHANGED pvars \/ UNCHANGED vars
    BY <2>2 DEF pvars, vars
  <2>3. ASSUME NEW w \in Workers, Transcribe(w) \/ HandOver(w) PROVE faults'.api = faults.api
    BY <2>3 DEF Transcribe, HandOver
  <2>4. ASSUME NEW v \in Diarizers, NEW d \in Diars, HandToReport(v, d)
        PROVE  faults'.api = faults.api
    BY <2>4 DEF HandToReport
  <2> QED BY <1>2, <2>1, <2>2, <2>3, <2>4, Kinds
<1>5. dfaults'.crash = dfaults.crash /\ dfaults'.error = dfaults.error
  <2>1. CASE UNCHANGED dfaults
    BY <2>1
  <2>2. ASSUME NEW v \in Diarizers, StopDiarizer(v)
        PROVE  dfaults'.crash = dfaults.crash /\ dfaults'.error = dfaults.error
    BY <2>2 DEF StopDiarizer, PTypeOK
  <2>3. ASSUME NEW v \in Diarizers, NEW d \in Diars, DJobStep(v, d) PROVE UNCHANGED dfaults
    BY <1>3, <2>3 DEF DJobStep, BeginDiarize, MissDiarize, EndDiarize, HandToReport,
       EndDiarizeJob, RetryDiarizeJob
  <2>4. CASE \/ UNCHANGED pvars \/ PlainStep \/ PRemoveSession
             \/ \E w \in Workers : Transcribe(w) \/ HandOver(w) \/ PHalt(w)
             \/ \E w \in Workers, r \in Reports : PJobStep(w, r)
    BY <2>4 DEF pvars, dvars, PlainStep, PRemoveSession, Transcribe, HandOver, PHalt, PJobStep, PBeginReport
  <2>5. CASE \/ \E d \in Diars : Rediarize(d) \/ EnqueueDiarization(d)
             \/ \E v \in Diarizers, d \in Diars : ClaimDiarize(v, d)
             \/ \E v \in Diarizers : StartDiarizer(v)
    BY <2>5 DEF Rediarize, EnqueueDiarization, ClaimDiarize, StartDiarizer
  <2> QED BY <1>2, <1>3, <2>1, <2>2, <2>3, <2>4, <2>5 DEF PNext
<1> QED BY <1>0, <1>1, <1>2, <1>3, <1>4, <1>5 DEF NoBreak

\* A report whose job is enqueued is attended to: the job was not over, and if it was
\* held then for a run or for a worker that is down.
LEMMA EnqueuedAInv ==
  ASSUME TypeOK, NEW q \in Reports, RInv(q),
         UNCHANGED <<rowVars, asked, up, run>>,
         job'[q] = Enqueue(job[q]) \/ (job'[q] = job[q] /\ AInv(q))
  PROVE  AInv(q)'
<1>1. CASE job'[q] = job[q] /\ AInv(q)
  BY <1>1, AFrame DEF Same, rowVars
<1>2. CASE job'[q] = Enqueue(job[q])
  <2>1. rstatus[q] \in {"queued", "running"} => job'[q].key /\ job'[q].held = job[q].held
    BY <1>2 DEF Enqueue, Known, Job, TypeOK, RInv
  <2> QED BY <1>2, <2>1 DEF AInv, Attended, RInv, rowVars, Running
<1> QED BY <1>1, <1>2

\* Who is attended to stays so, unless the API dies.
LEMMA StepAInv ==
  ASSUME CoreInv, PNext, ~PApiCrash, \A w \in Workers : ~Transcribe(w),
         NEW q \in Reports, AInv(q)
  PROVE  AInv(q)'
<1>0. PTypeOK /\ TypeOK /\ RInv(q)
  BY RowOf
<1>1. CASE BaseStep
  BY <1>0, <1>1, ReportAInv, JobAInv, ProcessAInv DEF BaseStep
<1>2. CASE UNCHANGED vars
  BY <1>2, AFrame DEF vars, Same
<1>3. ASSUME NEW w \in Workers, HandOver(w) PROVE AInv(q)'
  BY <1>0, <1>3, EnqueuedAInv, HandOverJob DEF HandOver
<1>4. ASSUME NEW v \in Diarizers, NEW d \in Diars, HandToReport(v, d) PROVE AInv(q)'
  BY <1>0, <1>4, EnqueuedAInv, HandToReportJob DEF HandToReport
<1> QED BY <1>1, <1>2, <1>3, <1>4, Kinds

\* How a run comes to return or to raise.
LEMMA RunEnds ==
  ASSUME CoreInv, PNext, \A v \in Diarizers, d \in Diars : ~DiarizeRaises(v, d),
         NEW u \in Diarizers, NEW d \in Diars
  PROVE  /\ drun'[u][d] = "return" => drun[u][d] = "return" \/ HandToReport(u, d)
         /\ drun'[u][d] = "raise" => drun[u][d] = "raise" \/ dstatus'[d] = "gone"
<1>0. PTypeOK
  BY DEF CoreInv
<1>1. CASE UNCHANGED drun
  BY <1>1
<1>2. ASSUME NEW v \in Diarizers, NEW e \in Diars, ClaimDiarize(v, e) \/ DJobStep(v, e)
      PROVE  /\ drun'[u][d] = "return" => drun[u][d] = "return" \/ HandToReport(u, d)
             /\ drun'[u][d] = "raise" => drun[u][d] = "raise" \/ dstatus'[d] = "gone"
  <2>1. CASE u = v /\ d = e
    BY <1>0, <1>2, <2>1 DEF PTypeOK, ClaimDiarize, DJobStep, BeginDiarize, MissDiarize, EndDiarize,
     HandToReport, EndDiarizeJob, RetryDiarizeJob, DStep
  <2>2. CASE ~(u = v /\ d = e)
    <3>1. drun'[u][d] = drun[u][d]
      BY <1>0, <1>2, <2>2, DRunOf DEF CoreInv
    <3> QED BY <3>1
  <2> QED BY <2>1, <2>2
<1>3. ASSUME NEW v \in Diarizers, StopDiarizer(v) \/ CrashDiarizer(v)
      PROVE  drun'[u][d] = drun[u][d] \/ drun'[u][d] = "idle"
  <2>1. DHalt(v)
    BY <1>3 DEF StopDiarizer, CrashDiarizer
  <2> QED BY <1>0, <2>1 DEF DHalt, PTypeOK
<1>4. CASE \/ PlainStep \/ PRemoveSession \/ PApiCrash
           \/ \E w \in Workers : Transcribe(w) \/ HandOver(w) \/ PHalt(w)
           \/ \E w \in Workers, r \in Reports : PJobStep(w, r)
  BY <1>1, <1>4 DEF dvars, PlainStep, PRemoveSession, PApiCrash, Transcribe, HandOver, PHalt,
     PJobStep, PBeginReport
<1>5. CASE \/ \E e \in Diars : Rediarize(e) \/ EnqueueDiarization(e)
           \/ \E v \in Diarizers : StartDiarizer(v)
  BY <1>1, <1>5 DEF Rediarize, EnqueueDiarization, StartDiarizer
<1> QED BY <1>2, <1>3, <1>4, <1>5 DEF PNext

\* A row that is gone stays so.
LEMMA GoneForEver ==
  ASSUME CoreInv, PNext, NEW d \in Diars, dstatus[d] = "gone"
  PROVE  dstatus'[d] = "gone"
<1>0. PTypeOK
  BY DEF CoreInv
<1>1. ASSUME NEW v \in Diarizers, NEW e \in Diars, ClaimDiarize(v, e) \/ DJobStep(v, e)
      PROVE  dstatus'[d] = "gone"
  BY <1>0, <1>1, DRunOf DEF CoreInv
<1>2. ASSUME NEW v \in Diarizers, StartDiarizer(v) \/ StopDiarizer(v) \/ CrashDiarizer(v)
      PROVE  dstatus'[d] = "gone"
  BY <1>2 DEF StartDiarizer, StopDiarizer, CrashDiarizer, DHalt
<1>3. CASE \/ PlainStep \/ PRemoveSession \/ PApiCrash
           \/ \E w \in Workers : Transcribe(w) \/ HandOver(w) \/ PHalt(w)
           \/ \E w \in Workers, r \in Reports : PJobStep(w, r)
  BY <1>3 DEF dvars, PlainStep, PRemoveSession, PApiCrash, Transcribe, HandOver, PHalt,
     PJobStep, PBeginReport
<1>4. CASE \E e \in Diars : Rediarize(e) \/ EnqueueDiarization(e)
  BY <1>0, <1>4 DEF Rediarize, EnqueueDiarization, PTypeOK
<1> QED BY <1>1, <1>2, <1>3, <1>4 DEF PNext

\* A run of the diarize worker that has come to its end left nobody waiting.
LEMMA StepHandInv ==
  ASSUME ~StartsOverlap, CoreInv, PNext, NoBreak', NEW d \in Diars, HandInv(d)
  PROVE  HandInv(d)'
<1>0. /\ PTypeOK /\ DiarInv(d) /\ ~PApiCrash
      /\ \A v \in Diarizers, e \in Diars : ~DiarizeRaises(v, e)
  BY BreaksCounted DEF CoreInv
<1>1. ASSUME NEW v \in Diarizers, drun'[v][d] = "raise" PROVE dstatus'[d] = "gone"
  <2>1. drun[v][d] = "raise" \/ dstatus'[d] = "gone"
    BY <1>0, <1>1, RunEnds
  <2>2. drun[v][d] = "raise" => dstatus[d] = "gone"
    BY DEF HandInv
  <2> QED BY <2>1, <2>2, GoneForEver
<1>2. ASSUME NEW v \in Diarizers, drun'[v][d] = "return", NEW r \in dauto'[d]
      PROVE  AInv(r)'
  <2>0. r \in Reports
    <3>1. PTypeOK'
      BY <1>0, StepPTypeOK
    <3> QED BY <1>2, <3>1 DEF PTypeOK
  <2>1. CASE HandToReport(v, d)
    <3>1. dauto' = dauto
      BY <2>1 DEF HandToReport
    <3>2. TypeOK /\ RInv(r)
      BY <2>0, RowOf
    <3>3. job'[r] = Enqueue(job[r])
      BY <1>0, <1>2, <2>0, <2>1, <3>1, HandToReportJob
    <3>4. UNCHANGED <<rowVars, asked, up, run>>
      BY <2>1 DEF HandToReport
    <3> QED BY <2>0, <3>2, <3>3, <3>4, EnqueuedAInv
  <2>2. CASE drun[v][d] = "return"
    <3>1. Known(djob[d])
      BY <1>0, <2>2 DEF DiarInv
    <3>2. \A w \in Workers : ~Transcribe(w)
      BY <3>1, TranscribeDiar
    <3>3. UNCHANGED dauto \/ dauto'[d] = {}
      BY <1>0, <3>2, PlansChange, PlanOf DEF PRemoveSession
    <3>4. AInv(r)
      BY <1>2, <2>2, <3>3 DEF HandInv
    <3> QED BY <1>0, <2>0, <3>2, <3>4, StepAInv
  <2> QED BY <1>0, <1>2, <2>1, <2>2, RunEnds
<1> QED BY <1>1, <1>2 DEF HandInv

\* A diarization that is held stays so, unless a run of it returns, or nobody waits.
LEMMA StepHolding ==
  ASSUME CoreInv, PNext, NoBreak', NEW d \in Diars, HandInv(d), Holding(d),
         ~PRemoveSession, \A w \in Workers : ~PHalt(w) /\ ~Transcribe(w),
         \A v \in Diarizers : drun[v][d] # "return",
         dauto[d] # {}
  PROVE  Holding(d)'
<1>0. /\ PTypeOK /\ DiarInv(d) /\ ~PApiCrash /\ djob[d] \in Job
      /\ \A v \in Diarizers : ~CrashDiarizer(v) /\ \A e \in Diars : ~DiarizeRaises(v, e)
      /\ \A v \in Diarizers : drun[v][d] \notin {"return", "raise"}
  BY BreaksCounted DEF CoreInv, PTypeOK, DiarInv, HandInv
<1>1. CASE PlainStep \/ \E w \in Workers, r \in Reports : PJobStep(w, r)
  <2>1. UNCHANGED <<djob, dasked, drun, plan>>
    BY <1>1 DEF PlainStep, PJobStep, PBeginReport, dvars
  <2> QED BY <2>1 DEF Holding, Planned
<1>2. ASSUME NEW w \in Workers, HandOver(w) PROVE Holding(d)'
  <2>1. UNCHANGED <<dasked, drun>>
    BY <1>2, HandOverDiar
  <2>2. CASE d \in plan[w] /\ ~Known(djob[d]) /\ djob'[d] = Enqueue(djob[d])
    <3>1. djob'[d].key /\ ~djob'[d].held
      BY <1>0, <2>2, KnownJobs DEF DiarInv, Known
    <3> QED BY <3>1 DEF Holding
  <2>3. CASE djob'[d] = djob[d] /\ \A u \in Workers : d \in plan'[u] <=> d \in plan[u]
    BY <2>1, <2>3 DEF Holding, Planned
  <2> QED BY <1>2, <2>2, <2>3, HandOverDiar
<1>3. ASSUME NEW e \in Diars, Rediarize(e) PROVE Holding(d)'
  BY <1>0, <1>3 DEF Rediarize, Holding, Planned, PTypeOK
<1>4. ASSUME NEW e \in Diars, EnqueueDiarization(e) PROVE Holding(d)'
  <2>1. /\ UNCHANGED <<drun, plan>> /\ dasked[e]
        /\ djob' = [djob EXCEPT ![e] = Enqueue(@)]
        /\ dasked' = [dasked EXCEPT ![e] = FALSE]
    BY <1>4 DEF EnqueueDiarization
  <2>2. CASE e = d
    <3>1. djob'[d] = Enqueue(djob[d]) /\ ~Known(djob[d]) /\ ~djob[d].held
      BY <1>0, <2>1, <2>2 DEF DiarInv, PTypeOK, Known
    <3>2. djob'[d].key /\ ~djob'[d].held
      BY <1>0, <3>1, KnownJobs
    <3> QED BY <3>2 DEF Holding
  <2>3. CASE e # d
    BY <1>0, <2>1, <2>3 DEF Holding, Planned, PTypeOK
  <2> QED BY <2>2, <2>3
<1>5. ASSUME NEW v \in Diarizers, NEW e \in Diars, ClaimDiarize(v, e) \/ DJobStep(v, e)
      PROVE  Holding(d)'
  <2>0. UNCHANGED <<dasked, plan>>
    BY <1>0, <1>5, DRunOf DEF CoreInv
  <2>1. CASE d # e
    <3>1. djob'[d] = djob[d] /\ \A u \in Diarizers : drun'[u][d] = drun[u][d]
      BY <1>0, <1>5, <2>1, DRunOf DEF CoreInv
    <3> QED BY <2>0, <3>1 DEF Holding, Planned
  <2>2. CASE d = e
    <3>1. drun'[v][d] # "idle" /\ djob'[d].key = djob[d].key
      <4>1. CASE ClaimDiarize(v, d)
        <5>1. djob' = [djob EXCEPT ![d] = Claim(djob[d])] /\ DStep(v, d, "idle", "wait")
          BY <4>1 DEF ClaimDiarize
        <5>2. djob'[d] = Claim(djob[d]) /\ drun'[v][d] = "wait"
          BY <1>0, <5>1 DEF DStep, PTypeOK
        <5> QED BY <1>0, <5>2, KnownJobs
      <4>2. CASE DJobStep(v, d)
        BY <1>0, <4>2 DEF PTypeOK, DJobStep, BeginDiarize, MissDiarize, EndDiarize, HandToReport,
           EndDiarizeJob, RetryDiarizeJob, DStep
      <4> QED BY <1>5, <2>2, <4>1, <4>2
    <3> QED BY <2>0, <3>1 DEF Holding, Planned
  <2> QED BY <2>1, <2>2
<1>6. ASSUME NEW v \in Diarizers, StartDiarizer(v) PROVE Holding(d)'
  <2>1. /\ UNCHANGED <<dasked, drun, plan>>
        /\ djob'[d] = IF dstatus[d] = "running" THEN Reset(djob[d]) ELSE djob[d]
    BY <1>6 DEF StartDiarizer
  <2>2. CASE dstatus[d] = "running"
    <3>1. djob'[d].key /\ ~djob'[d].held
      BY <1>0, <2>1, <2>2, KnownJobs
    <3> QED BY <3>1 DEF Holding
  <2>3. CASE dstatus[d] # "running"
    BY <2>1, <2>3 DEF Holding, Planned
  <2> QED BY <2>2, <2>3
<1>7. ASSUME NEW v \in Diarizers, StopDiarizer(v) PROVE Holding(d)'
  <2>1. /\ UNCHANGED <<dasked, plan>>
        /\ djob'[d] = IF drun[v][d] # "idle" THEN Release(djob[d]) ELSE djob[d]
        /\ \A u \in Diarizers \ {v} : drun'[u][d] = drun[u][d]
    BY <1>0, <1>7 DEF StopDiarizer, DHalt, PTypeOK
  <2>2. CASE drun[v][d] # "idle"
    <3>1. djob'[d].key = djob[d].key /\ ~djob'[d].held
      BY <1>0, <2>1, <2>2, KnownJobs
    <3> QED BY <2>1, <3>1 DEF Holding, Planned
  <2>3. CASE drun[v][d] = "idle"
    BY <2>1, <2>3 DEF Holding, Planned
  <2> QED BY <2>2, <2>3
<1> QED BY <1>0, <1>1, <1>2, <1>3, <1>4, <1>5, <1>6, <1>7 DEF PNext

\* Who waits for a diarization is not forgotten.
LEMMA StepChainInv ==
  ASSUME ~StartsOverlap, CoreInv, PNext, NoBreak', \A d \in Diars : HandInv(d),
         NEW q \in Reports, ChainInv(q)
  PROVE  ChainInv(q)'
<1>0. /\ PTypeOK /\ TypeOK /\ RInv(q) /\ RowInv(q) /\ ~PApiCrash
  BY BreaksCounted, RowOf
<1>1. ASSUME NEW w \in Workers, Transcribe(w) PROVE ChainInv(q)'
  <2>1. PICK R \in SUBSET Reports :
          /\ rstatus' = [r \in Reports |-> IF r \in R THEN "queued" ELSE rstatus[r]]
          /\ dauto' = [d \in Diars |-> IF d \in Waiting THEN R ELSE dauto[d]]
          /\ plan' = [plan EXCEPT ![w] = IF Waiting # {} THEN Waiting ELSE R]
    BY <1>1 DEF Transcribe
  <2>2. rstatus[q] = "none"
    BY <1>0, <1>1 DEF Transcribe, RInv
  <2>3. CASE q \notin R
    <3>1. rstatus'[q] = "none"
      BY <2>1, <2>2, <2>3
    <3> QED BY <3>1 DEF ChainInv, AInv
  <2>4. CASE q \in R /\ Waiting = {}
    <3>1. q \in plan'[w]
      BY <1>0, <2>1, <2>4 DEF PTypeOK
    <3> QED BY <3>1 DEF ChainInv, Planned
  <2>5. CASE q \in R /\ Waiting # {}
    <3>1. PICK e \in Diars : e \in Waiting
      BY <2>5 DEF Waiting
    <3>2. e \in plan'[w] /\ q \in dauto'[e]
      BY <1>0, <2>1, <2>5, <3>1 DEF PTypeOK
    <3>3. Holding(e)'
      BY <3>2 DEF Holding, Planned
    <3> QED BY <3>2, <3>3 DEF ChainInv
  <2> QED BY <2>3, <2>4, <2>5
<1>2. CASE PRemoveSession
  <2>1. rstatus'[q] \in {"none", "gone"}
    BY <1>2 DEF PRemoveSession, RemoveSession, Drop
  <2> QED BY <2>1 DEF ChainInv, AInv
<1>3. ASSUME NEW w \in Workers, PHalt(w) PROVE ChainInv(q)'
  <2>1. ~up'[w]
    BY <1>0, <1>3 DEF PHalt, StopWorker, CrashWorker, Halt, TypeOK
  <2> QED BY <2>1 DEF ChainInv, AInv, Attended
<1>4. CASE ~PRemoveSession /\ \A w \in Workers : ~Transcribe(w) /\ ~PHalt(w)
  <2>0. UNCHANGED dauto
    BY <1>0, <1>4, PlansChange, PlanOf
  <2>1. CASE AInv(q)
    BY <1>0, <1>4, <2>1, StepAInv DEF ChainInv
  <2>2. CASE Planned(q)
    <3>1. PICK u \in Workers : q \in plan[u]
      BY <2>2 DEF Planned
    <3>2. CASE UNCHANGED plan
      BY <3>1, <3>2 DEF ChainInv, Planned
    <3>3. ASSUME NEW w \in Workers, HandOver(w) PROVE ChainInv(q)'
      <4>1. PICK x \in plan[w] :
              /\ job' = [r \in Reports |-> IF r = x THEN Enqueue(job[r]) ELSE job[r]]
              /\ plan' = [plan EXCEPT ![w] = @ \ {x}]
        BY <3>3 DEF HandOver
      <4>2. CASE q = x
        <5>1. job'[q] = Enqueue(job[q])
          BY <4>1, <4>2
        <5>2. UNCHANGED <<rowVars, asked, up, run>>
          BY <3>3 DEF HandOver
        <5> QED BY <1>0, <5>1, <5>2, EnqueuedAInv DEF ChainInv
      <4>3. CASE q # x
        <5>1. q \in plan'[u]
          BY <1>0, <3>1, <4>1, <4>3 DEF PTypeOK
        <5> QED BY <5>1 DEF ChainInv, Planned
      <4> QED BY <4>2, <4>3
    <3> QED BY <1>0, <1>4, <3>2, <3>3, PlansChange
  <2>3. ASSUME NEW d \in Diars, q \in dauto[d], Holding(d), ~AInv(q) PROVE ChainInv(q)'
    <3>1. \A v \in Diarizers : drun[v][d] # "return"
      BY <2>3 DEF HandInv
    <3>2. Holding(d)'
      BY <1>4, <2>3, <3>1, StepHolding
    <3> QED BY <2>0, <2>3, <3>2 DEF ChainInv
  <2> QED BY <2>1, <2>2, <2>3 DEF ChainInv
<1> QED BY <1>1, <1>2, <1>3, <1>4

\* PInit: nobody waits.
LEMMA InitHandOnInv == PInit => HandOnInv
  BY DEF PInit, Init, HandOnInv, HandInv, ChainInv, AInv

\* Every step keeps the chain of hand-overs.
LEMMA StepHandOnInv ==
  ASSUME ~StartsOverlap, CoreInv, HandOnInv, [PNext]_pvars
  PROVE  HandOnInv'
<1>1. SUFFICES ASSUME NoBreak'
               PROVE  (\A d \in Diars : HandInv(d)') /\ (\A r \in Reports : ChainInv(r)')
  BY DEF HandOnInv
<1>2. PTypeOK
  BY DEF CoreInv
<1>3. (\A d \in Diars : HandInv(d)) /\ (\A r \in Reports : ChainInv(r))
  BY <1>1, <1>2, BreaksCounted DEF HandOnInv
<1>4. CASE UNCHANGED pvars
  <2>1. \A r \in Reports : AInv(r)' <=> AInv(r)
    BY <1>4 DEF pvars, vars, AInv, Attended, Running
  <2>2. UNCHANGED <<djob, dasked, drun, plan, dauto, dstatus>>
    BY <1>4 DEF pvars, dvars
  <2>3. \A d \in Diars : Holding(d)' <=> Holding(d)
    BY <2>2 DEF Holding, Planned
  <2>4. \A d \in Diars : dauto[d] \subseteq Reports
    BY <1>2 DEF PTypeOK
  <2> QED BY <1>3, <2>1, <2>2, <2>3, <2>4 DEF HandInv, ChainInv, Planned
<1>5. CASE PNext
  BY <1>1, <1>3, <1>5, StepHandInv, StepChainInv
<1> QED BY <1>4, <1>5

\* A report that waits for its diarization is not forgotten between transcribe_session,
\* diarize_session and generate_report: whoever it waits for is on its way, or it is
\* attended to itself, as long as no API or diarize worker dies and no error gets out.
THEOREM ChainHolds ==
  ASSUME ~StartsOverlap
  PROVE  PSpec => []ChainUnbroken
<1>1. PInit => CoreInv /\ HandOnInv
  BY InitCoreInv, InitHandOnInv
<1>2. CoreInv /\ HandOnInv /\ [PNext]_pvars => (CoreInv /\ HandOnInv)'
  BY StepCoreInv, StepHandOnInv
<1>3. HandOnInv => ChainUnbroken
  <2>1. \A d \in Diars : Holding(d) => DAttended(d)
    BY DEF Holding, DAttended, Planned
  <2> QED BY <2>1 DEF HandOnInv, NoBreak, ChainInv, AInv, ChainUnbroken, Stuck, Planned
<1> QED BY <1>1, <1>2, <1>3, PTL DEF PSpec

-----------------------------------------------------------------------------
(* The report is written from the labelled transcript *)

\* A quiet state comes from a quiet one, by no stop or base worker crash.
LEMMA QuietKept ==
  ASSUME PTypeOK, [PNext]_pvars, Quiet'
  PROVE  /\ Quiet
         /\ \A w \in Workers : ~StopWorker(w) /\ ~CrashWorker(w)
         /\ \A v \in Diarizers : ~StopDiarizer(v)
<1>0. /\ faults.stop \in Nat /\ faults.crash \in Nat /\ dfaults.stop \in Nat
      /\ faults'.stop \in Nat /\ faults'.crash \in Nat /\ dfaults'.stop \in Nat
  <2>1. PTypeOK'
    BY StepPTypeOK
  <2> QED BY <2>1 DEF PTypeOK, TypeOK
<1>1. faults'.stop = 0 /\ faults'.crash = 0 /\ dfaults'.stop = 0
  <2>1. faults'.stop + faults'.crash + dfaults'.stop = 0
    BY DEF Quiet
  <2>2. \A a, b, c \in Nat : a + b + c = 0 => a = 0 /\ b = 0 /\ c = 0
    OBVIOUS
  <2> QED BY <1>0, <2>1, <2>2
<1>2. ASSUME NEW w \in Workers PROVE ~StopWorker(w) /\ ~CrashWorker(w)
  <2>1. StopWorker(w) => faults'.stop = faults.stop + 1
    BY DEF StopWorker, PTypeOK, TypeOK
  <2>2. CrashWorker(w) => faults'.crash = faults.crash + 1
    BY DEF CrashWorker, PTypeOK, TypeOK
  <2> QED BY <1>0, <1>1, <2>1, <2>2
<1>3. ASSUME NEW v \in Diarizers PROVE ~StopDiarizer(v)
  <2>1. StopDiarizer(v) => dfaults'.stop = dfaults.stop + 1
    BY DEF StopDiarizer, PTypeOK
  <2> QED BY <1>0, <1>1, <2>1
<1>4. faults'.stop = faults.stop /\ faults'.crash = faults.crash
  <2>1. CASE BaseStep
    <3>1. CASE RemoveSession
      BY <3>1 DEF RemoveSession
    <3>2. ASSUME NEW r \in Reports, ReportStep(r) PROVE UNCHANGED faults
      BY <3>2 DEF ReportStep, CreateReport, EnqueueReport, EditReport, DeleteReport,
         ResultExpires
    <3>3. ASSUME NEW w \in Workers, NEW r \in Reports, ClaimJob(w, r) \/ JobStep(w, r)
          PROVE  UNCHANGED faults
      BY <3>3 DEF ClaimJob, JobStep, WaitForLlm, BeginReport, NoTranscript, SkipReport,
         MissReport, WriteReport, FailReport, EndJob, RetryJob
    <3>4. ASSUME NEW w \in Workers, ProcessStep(w) PROVE UNCHANGED faults
      BY <1>2, <3>4 DEF ProcessStep, StartWorker
    <3> QED BY <2>1, <3>1, <3>2, <3>3, <3>4 DEF BaseStep
  <2>2. CASE UNCHANGED pvars \/ UNCHANGED vars
    BY <2>2 DEF pvars, vars
  <2>3. CASE PApiCrash
    BY <2>3 DEF PApiCrash, PTypeOK, TypeOK
  <2>4. ASSUME NEW w \in Workers, Transcribe(w) \/ HandOver(w) PROVE UNCHANGED faults
    BY <2>4 DEF Transcribe, HandOver
  <2>5. ASSUME NEW v \in Diarizers, NEW d \in Diars, HandToReport(v, d) PROVE UNCHANGED faults
    BY <2>5 DEF HandToReport
  <2> QED BY <2>1, <2>2, <2>3, <2>4, <2>5, Kinds
<1>5. dfaults'.stop = dfaults.stop
  <2>1. ASSUME NEW v \in Diarizers, CrashDiarizer(v) \/ StartDiarizer(v)
        PROVE  dfaults'.stop = dfaults.stop
    BY <2>1 DEF CrashDiarizer, StartDiarizer, PTypeOK
  <2>2. ASSUME NEW v \in Diarizers, NEW d \in Diars, ClaimDiarize(v, d) \/ DJobStep(v, d)
        PROVE  dfaults'.stop = dfaults.stop
    BY <2>2 DEF ClaimDiarize, DJobStep, BeginDiarize, MissDiarize, EndDiarize, DiarizeRaises,
       HandToReport, EndDiarizeJob, RetryDiarizeJob, PTypeOK
  <2>3. CASE \/ UNCHANGED pvars \/ PlainStep \/ PRemoveSession \/ PApiCrash
             \/ \E w \in Workers : Transcribe(w) \/ HandOver(w) \/ PHalt(w)
             \/ \E w \in Workers, r \in Reports : PJobStep(w, r)
    BY <2>3 DEF pvars, dvars, PlainStep, PRemoveSession, PApiCrash, Transcribe, HandOver,
       PHalt, PJobStep, PBeginReport
  <2>4. CASE \E d \in Diars : Rediarize(d) \/ EnqueueDiarization(d)
    BY <2>4 DEF Rediarize, EnqueueDiarization
  <2> QED BY <1>3, <2>1, <2>2, <2>3, <2>4 DEF PNext
<1> QED BY <1>1, <1>2, <1>3, <1>4, <1>5 DEF Quiet

\* Labels are given when a report is begun.
LEMMA LabelsChange ==
  ASSUME PTypeOK, PNext, NEW r \in Reports
  PROVE  \/ labels'[r] = labels[r]
         \/ \E w \in Workers :
              /\ run[w][r] = "wait" /\ rstatus'[r] = "running"
              /\ labels'[r] = IF \E d \in Diars : dstatus[d] = "done" THEN "labelled" ELSE "plain"
<1>1. ASSUME NEW w \in Workers, NEW q \in Reports, PBeginReport(w, q)
      PROVE  \/ labels'[r] = labels[r]
             \/ /\ run[w][r] = "wait" /\ rstatus'[r] = "running"
                /\ labels'[r] = IF \E d \in Diars : dstatus[d] = "done" THEN "labelled" ELSE "plain"
  BY <1>1 DEF PBeginReport, BeginReport, Step, SetStatus, PTypeOK, TypeOK
<1>2. CASE UNCHANGED labels
  BY <1>2
<1>3. ASSUME NEW w \in Workers, NEW q \in Reports, PJobStep(w, q), ~PBeginReport(w, q)
      PROVE  UNCHANGED labels
  BY <1>3 DEF PJobStep, dvars
<1>4. CASE \/ PlainStep \/ PRemoveSession \/ PApiCrash
           \/ \E w \in Workers : Transcribe(w) \/ HandOver(w) \/ PHalt(w)
  BY <1>2, <1>4 DEF dvars, PlainStep, PRemoveSession, PApiCrash, Transcribe, HandOver, PHalt
<1>5. CASE \E d \in Diars : Rediarize(d) \/ EnqueueDiarization(d)
  BY <1>2, <1>5 DEF Rediarize, EnqueueDiarization
<1>6. ASSUME NEW v \in Diarizers, NEW d \in Diars, ClaimDiarize(v, d) \/ DJobStep(v, d)
      PROVE  UNCHANGED labels
  BY <1>6 DEF ClaimDiarize, DJobStep, BeginDiarize, MissDiarize, EndDiarize, DiarizeRaises,
       HandToReport, EndDiarizeJob, RetryDiarizeJob
<1>7. ASSUME NEW v \in Diarizers, StartDiarizer(v) \/ StopDiarizer(v) \/ CrashDiarizer(v)
      PROVE  UNCHANGED labels
  BY <1>7 DEF StartDiarizer, StopDiarizer, CrashDiarizer, DHalt
<1> QED BY <1>1, <1>2, <1>3, <1>4, <1>5, <1>6, <1>7 DEF PNext

\* Statuses of diarizations, and who changes them.
LEMMA DiarStatus ==
  ASSUME CoreInv, PNext, NEW d \in Diars
  PROVE  \/ dstatus'[d] = dstatus[d]
         \/ dstatus'[d] = "gone"
         \/ dstatus'[d] = "queued" /\ dstatus[d] = "none" /\ sess = "ready"
         \/ dstatus'[d] = "queued" /\ dstatus[d] = "running"
         \/ \E v \in Diarizers : drun[v][d] = "wait" /\ dstatus'[d] = "running"
         \/ /\ dstatus[d] # "gone" /\ dstatus'[d] \in {"done", "failed"}
            /\ UNCHANGED labels /\ \E v \in Diarizers : drun[v][d] = "work"
<1>0. PTypeOK
  BY DEF CoreInv
<1>1. CASE UNCHANGED dstatus \/ PRemoveSession
  BY <1>1 DEF PRemoveSession
<1>2. CASE \/ PlainStep \/ PApiCrash
           \/ \E w \in Workers : Transcribe(w) \/ HandOver(w) \/ PHalt(w)
           \/ \E w \in Workers, r \in Reports : PJobStep(w, r)
  BY <1>1, <1>2 DEF dvars, PlainStep, PApiCrash, Transcribe, HandOver, PHalt, PJobStep,
     PBeginReport
<1>3. ASSUME NEW e \in Diars, Rediarize(e) \/ EnqueueDiarization(e)
      PROVE  \/ dstatus'[d] = dstatus[d]
             \/ dstatus'[d] = "queued" /\ dstatus[d] = "none" /\ sess = "ready"
  BY <1>0, <1>3 DEF Rediarize, EnqueueDiarization, PTypeOK
<1>4. ASSUME NEW v \in Diarizers, NEW e \in Diars, ClaimDiarize(v, e) \/ DJobStep(v, e)
      PROVE  \/ dstatus'[d] = dstatus[d]
             \/ drun[v][d] = "wait" /\ dstatus'[d] = "running"
             \/ /\ dstatus[d] # "gone" /\ dstatus'[d] \in {"done", "failed"}
                /\ UNCHANGED labels /\ drun[v][d] = "work"
  <2>1. CASE BeginDiarize(v, e)
    BY <1>0, <2>1 DEF BeginDiarize, DStep, DSet, PTypeOK
  <2>2. CASE EndDiarize(v, e)
    BY <1>0, <2>2 DEF EndDiarize, DStep, DSet, PTypeOK
  <2>3. CASE ~BeginDiarize(v, e) /\ ~EndDiarize(v, e)
    BY <1>4, <2>3 DEF ClaimDiarize, DJobStep, MissDiarize, DiarizeRaises, HandToReport,
       EndDiarizeJob, RetryDiarizeJob
  <2> QED BY <2>1, <2>2, <2>3
<1>5. ASSUME NEW v \in Diarizers, StartDiarizer(v) \/ StopDiarizer(v) \/ CrashDiarizer(v)
      PROVE  \/ dstatus'[d] = dstatus[d]
             \/ dstatus'[d] = "queued" /\ dstatus[d] = "running"
  BY <1>5 DEF StartDiarizer, StopDiarizer, CrashDiarizer, DHalt
<1> QED BY <1>1, <1>2, <1>3, <1>4, <1>5 DEF PNext

\* A diarization that is over is not begun again.
LEMMA StepOverInv ==
  ASSUME OneWorkerEach, CoreInv, PNext, NEW d \in Diars, OverInv(d)
  PROVE  OverInv(d)'
<1>0. /\ PTypeOK /\ DiarInv(d) /\ djob[d] \in Job
      /\ \A u, v \in Diarizers : u = v
  BY DEF CoreInv, PTypeOK, OneWorkerEach
<1>q. Quiet' => Quiet
  BY <1>0, QuietKept
<1>1. CASE \/ PlainStep
           \/ \E w \in Workers : PHalt(w)
           \/ \E w \in Workers, r \in Reports : PJobStep(w, r)
  <2>1. UNCHANGED <<dstatus, djob, dup, drun>>
    BY <1>1 DEF dvars, PlainStep, PHalt, PJobStep, PBeginReport
  <2> QED BY <1>q, <2>1 DEF OverInv
<1>2. CASE PApiCrash
  <2>1. UNCHANGED <<dstatus, djob, dup, drun>>
    BY <1>2 DEF PApiCrash
  <2> QED BY <1>q, <2>1 DEF OverInv
<1>3. CASE PRemoveSession
  <2>1. /\ UNCHANGED <<djob, dup, drun>>
        /\ dstatus'[d] = IF dstatus[d] = "none" THEN "none" ELSE "gone"
    BY <1>3 DEF PRemoveSession
  <2>2. dstatus[d] = "none" => \A v \in Diarizers : drun[v][d] = "idle"
    BY <1>0 DEF DiarInv
  <2> QED BY <1>q, <2>1, <2>2 DEF OverInv
<1>4. ASSUME NEW w \in Workers, Transcribe(w) PROVE OverInv(d)'
  <2>1. UNCHANGED <<dstatus, djob, dup, drun>>
    BY <1>4 DEF Transcribe
  <2> QED BY <1>q, <2>1 DEF OverInv
<1>5. ASSUME NEW w \in Workers, HandOver(w) PROVE OverInv(d)'
  <2>1. UNCHANGED <<dstatus, dup, drun>>
    BY <1>5 DEF HandOver
  <2>2. CASE ~Known(djob[d])
    <3>1. /\ dstatus[d] \in {"none", "queued", "gone"}
          /\ \A v \in Diarizers : drun[v][d] = "idle"
      BY <1>0, <2>2 DEF DiarInv
    <3> QED BY <2>1, <3>1 DEF OverInv
  <2>3. CASE djob'[d] = djob[d]
    BY <1>q, <2>1, <2>3 DEF OverInv
  <2> QED BY <1>5, <2>2, <2>3, HandOverDiar
<1>6. ASSUME NEW e \in Diars, Rediarize(e) PROVE OverInv(d)'
  <2>1. /\ UNCHANGED <<djob, dup, drun>> /\ dstatus[e] = "none"
        /\ dstatus' = [dstatus EXCEPT ![e] = "queued"]
    BY <1>6 DEF Rediarize
  <2>2. CASE e = d
    <3>1. dstatus'[d] = "queued" /\ \A v \in Diarizers : drun[v][d] = "idle"
      BY <1>0, <2>1, <2>2 DEF DiarInv, PTypeOK
    <3> QED BY <2>1, <3>1 DEF OverInv
  <2>3. CASE e # d
    <3>1. dstatus'[d] = dstatus[d]
      BY <1>0, <2>1, <2>3 DEF PTypeOK
    <3> QED BY <1>q, <2>1, <3>1 DEF OverInv
  <2> QED BY <2>2, <2>3
<1>7. ASSUME NEW e \in Diars, EnqueueDiarization(e) PROVE OverInv(d)'
  <2>1. /\ UNCHANGED <<dstatus, dup, drun>> /\ dasked[e]
        /\ djob' = [djob EXCEPT ![e] = Enqueue(@)]
    BY <1>7 DEF EnqueueDiarization
  <2>2. CASE e = d
    <3>1. /\ dstatus[d] \in {"none", "queued", "gone"}
          /\ \A v \in Diarizers : drun[v][d] = "idle"
      BY <1>0, <2>1, <2>2 DEF DiarInv
    <3> QED BY <2>1, <3>1 DEF OverInv
  <2>3. CASE e # d
    <3>1. djob'[d] = djob[d]
      BY <1>0, <2>1, <2>3 DEF PTypeOK
    <3> QED BY <1>q, <2>1, <3>1 DEF OverInv
  <2> QED BY <2>2, <2>3
<1>8. ASSUME NEW v \in Diarizers, NEW e \in Diars, ClaimDiarize(v, e) \/ DJobStep(v, e)
      PROVE  OverInv(d)'
  <2>0. dup' = dup
    BY <1>0, <1>8, DRunOf DEF CoreInv
  <2>1. CASE e # d
    <3>1. /\ djob'[d] = djob[d] /\ dstatus'[d] = dstatus[d]
          /\ \A u \in Diarizers : drun'[u][d] = drun[u][d]
      BY <1>0, <1>8, <2>1, DRunOf DEF CoreInv
    <3> QED BY <1>q, <2>0, <3>1 DEF OverInv
  <2>2. CASE e = d
    <3>0. \A from, to : DStep(v, d, from, to) =>
             /\ drun[v][d] = from /\ \A u \in Diarizers : drun[u][d] = from /\ drun'[u][d] = to
      BY <1>0 DEF DStep, PTypeOK
    <3> USE <2>2
    <3>1. CASE ClaimDiarize(v, e)
      <4>1. /\ dstatus' = dstatus /\ dup[v] /\ Claimable(djob[d]) /\ DStep(v, d, "idle", "wait")
            /\ djob' = [djob EXCEPT ![d] = Claim(djob[d])]
        BY <3>1 DEF ClaimDiarize
      <4>2. djob'[d].key /\ djob'[d].held
        BY <1>0, <4>1, KnownJobs DEF PTypeOK, Claimable
      <4>3. \A u \in Diarizers : drun'[u][d] = "wait" /\ dup'[u]
        BY <1>0, <2>0, <3>0, <4>1
      <4>4. Quiet' => dstatus[d] \notin {"done", "failed"}
        BY <1>q, <4>1 DEF OverInv
      <4> QED BY <4>1, <4>2, <4>3, <4>4 DEF OverInv
    <3>2. CASE BeginDiarize(v, e)
      <4>1. djob' = djob /\ DStep(v, d, "wait", "work") /\ dstatus'[d] = "running"
        BY <1>0, <3>2 DEF BeginDiarize, DSet, PTypeOK
      <4> QED BY <2>0, <3>0, <4>1 DEF OverInv
    <3>3. CASE MissDiarize(v, e)
      <4>1. /\ djob' = djob /\ dstatus' = dstatus /\ dstatus[d] = "gone"
            /\ \E from \in {"wait", "work"}, to \in {"hand", "raise"} : DStep(v, d, from, to)
        BY <3>3 DEF MissDiarize
      <4> QED BY <2>0, <3>0, <4>1 DEF OverInv
    <3>4. CASE EndDiarize(v, e)
      <4>1. djob' = djob /\ DStep(v, d, "work", "hand") /\ dstatus'[d] \in {"done", "failed"}
        BY <1>0, <3>4 DEF EndDiarize, DSet, PTypeOK
      <4>2. \A u \in Diarizers : drun[u][d] = "work" /\ drun'[u][d] = "hand"
        BY <3>0, <4>1
      <4>3. djob[d].held
        BY <4>2 DEF OverInv
      <4> QED BY <2>0, <4>1, <4>2, <4>3 DEF OverInv, Claimable
    <3>5. CASE DiarizeRaises(v, e)
      <4>1. djob' = djob /\ dstatus' = dstatus /\ DStep(v, d, "work", "raise")
        BY <3>5 DEF DiarizeRaises
      <4>2. \A u \in Diarizers : drun[u][d] = "work" /\ drun'[u][d] = "raise"
        BY <3>0, <4>1
      <4> QED BY <2>0, <4>1, <4>2 DEF OverInv
    <3>6. CASE HandToReport(v, e)
      <4>1. djob' = djob /\ dstatus' = dstatus /\ DStep(v, d, "hand", "return")
        BY <3>6 DEF HandToReport
      <4>2. \A u \in Diarizers : drun[u][d] = "hand" /\ drun'[u][d] = "return"
        BY <3>0, <4>1
      <4> QED BY <1>q, <2>0, <4>1, <4>2 DEF OverInv
    <3>7. CASE EndDiarizeJob(v, e) \/ RetryDiarizeJob(v, e)
      <4>1. /\ dstatus' = dstatus
            /\ \/ /\ DStep(v, d, "return", "idle") \/ DStep(v, d, "raise", "idle")
                  /\ djob'[d] = Finish(djob[d])
               \/ DStep(v, d, "raise", "idle")
        BY <1>0, <3>7 DEF EndDiarizeJob, RetryDiarizeJob, PTypeOK
      <4>2. /\ \A u \in Diarizers : drun'[u][d] = "idle"
            /\ drun[v][d] \in {"return", "raise"}
            /\ drun[v][d] = "return" => djob'[d] = Finish(djob[d])
        BY <3>0, <4>1
      <4>3. dstatus[d] \in {"done", "failed"} => djob'[d] = Finish(djob[d])
        BY <4>2 DEF OverInv
      <4>4. dstatus[d] \in {"done", "failed"} => ~Claimable(djob'[d])
        BY <1>0, <4>3, KnownJobs DEF Claimable
      <4> QED BY <4>1, <4>2, <4>4 DEF OverInv
    <3> QED BY <1>8, <3>1, <3>2, <3>3, <3>4, <3>5, <3>6, <3>7 DEF DJobStep
  <2> QED BY <2>1, <2>2
<1>9. ASSUME NEW v \in Diarizers, StartDiarizer(v) PROVE OverInv(d)'
  <2>1. /\ UNCHANGED drun /\ ~dup[v]
        /\ dstatus'[d] = IF dstatus[d] = "running" THEN "queued" ELSE dstatus[d]
        /\ djob'[d] = IF dstatus[d] = "running" THEN Reset(djob[d]) ELSE djob[d]
    BY <1>9 DEF StartDiarizer
  <2>2. \A u \in Diarizers : drun[u][d] = "idle"
    BY <1>0, <2>1 DEF OverInv
  <2> QED BY <1>q, <2>1, <2>2 DEF OverInv
<1>10. ASSUME NEW v \in Diarizers, StopDiarizer(v) \/ CrashDiarizer(v) PROVE OverInv(d)'
  <2>1. dstatus' = dstatus
    BY <1>10 DEF StopDiarizer, CrashDiarizer, DHalt
  <2>2. \A u \in Diarizers : drun'[u][d] = "idle"
    <3>1. DHalt(v)
      BY <1>10 DEF StopDiarizer, CrashDiarizer
    <3>2. drun'[v][d] = "idle"
      BY <1>0, <3>1 DEF DHalt, PTypeOK
    <3> QED BY <1>0, <3>2
  <2>3. Quiet' => djob' = djob
    BY <1>0, <1>10, QuietKept DEF CrashDiarizer, PNext
  <2> QED BY <1>q, <2>1, <2>2, <2>3 DEF OverInv
<1> QED BY <1>1, <1>2, <1>3, <1>4, <1>5, <1>6, <1>7, <1>8, <1>9, <1>10 DEF PNext

\* A report waits for one diarization.
LEMMA StepOneWaits ==
  ASSUME CoreInv, PNext, OneWaits
  PROVE  OneWaits'
<1>0. PTypeOK
  BY DEF CoreInv
<1>1. ASSUME NEW w \in Workers, Transcribe(w) PROVE OneWaits'
  <2>1. \A e \in Diars : e \notin Waiting => dauto'[e] = {}
    BY <1>1, TranscribeDiar
  <2>2. sess = "open" /\ sess' \in {"ready", "silent"}
    BY <1>1 DEF Transcribe
  <2> QED BY <2>1, <2>2 DEF OneWaits
<1>2. CASE \A w \in Workers : ~Transcribe(w)
  <2>1. UNCHANGED dauto \/ \A d \in Diars : dauto'[d] = {}
    BY <1>0, <1>2, PlansChange, PlanOf DEF PRemoveSession
  <2>2. ASSUME sess' = "open" PROVE sess = "open" /\ Waiting' \subseteq Waiting
    <3>1. sess = "open"
      BY <2>2, SessionChanges
    <3>2. ASSUME NEW d \in Diars, dstatus'[d] = "queued" PROVE dstatus[d] = "queued"
      <4>1. dstatus[d] # "running"
        BY <3>1 DEF CoreInv, DiarInv
      <4> QED BY <3>1, <3>2, <4>1, DiarStatus
    <3> QED BY <3>1, <3>2 DEF Waiting
  <2> QED BY <2>1, <2>2 DEF OneWaits
<1> QED BY <1>1, <1>2

\* Who holds a report back lets go of it only by handing it on, or when a worker that
\* starts takes it for stuck.
LEMMA HeldStays ==
  ASSUME CoreInv, PNext, NEW q \in Reports, HeldBack(q), rstatus[q] # "none",
         q \in Stuck => \A w \in Workers : up[w],
         \A w \in Workers : ~Transcribe(w) /\ ~StopWorker(w) /\ ~CrashWorker(w),
         \A v \in Diarizers, e \in Diars : HandToReport(v, e) => q \notin dauto[e]
  PROVE  HeldBack(q)'
<1>0. PTypeOK /\ TypeOK
  BY RowOf
<1>1. job'[q] = NoJob /\ ~asked'[q] /\ \A w \in Workers : run'[w][q] = "idle"
  <2>1. CASE RemoveSession \/ UNCHANGED vars
    BY <2>1 DEF RemoveSession, vars, HeldBack
  <2>2. ASSUME NEW r \in Reports, ReportStep(r)
        PROVE  job'[q] = NoJob /\ ~asked'[q] /\ UNCHANGED run
    <3>1. /\ CreateReport(r) \/ EnqueueReport(r) => r # q
          /\ ResultExpires(r) => r # q
      BY <2>2 DEF CreateReport, EnqueueReport, ResultExpires, NoJob, HeldBack
    <3>2. UNCHANGED run /\ job'[q] = job[q] /\ asked'[q] = asked[q]
      BY <1>0, <2>2, <3>1 DEF ReportStep, CreateReport, EnqueueReport, EditReport,
         DeleteReport, ResultExpires, TypeOK
    <3> QED BY <3>2 DEF HeldBack
  <2>3. ASSUME NEW w \in Workers, NEW r \in Reports, ClaimJob(w, r) \/ JobStep(w, r)
        PROVE  r # q /\ UNCHANGED asked /\ job'[q] = job[q] /\ \A u \in Workers : run'[u][q] = run[u][q]
    <3>1. PICK from, to \in RunPhase : Step(w, r, from, to) /\ (from = "idle" => Claimable(job[r]))
      BY <2>3 DEF ClaimJob, JobStep, WaitForLlm, BeginReport, NoTranscript, SkipReport,
         MissReport, WriteReport, FailReport, EndJob, RetryJob, RunPhase
    <3>2. r # q
      BY <3>1 DEF Step, Claimable, NoJob, HeldBack
    <3>3. \A u \in Workers : run'[u][q] = run[u][q]
      BY <1>0, <3>1, <3>2 DEF Step, TypeOK
    <3> QED BY <1>0, <2>3, <3>2, <3>3 DEF ClaimJob, JobStep, WaitForLlm, BeginReport,
       NoTranscript, SkipReport, MissReport, WriteReport, FailReport, EndJob, RetryJob,
       TypeOK
  <2>4. ASSUME NEW w \in Workers, ProcessStep(w)
        PROVE  UNCHANGED <<asked, run>> /\ job'[q] = job[q]
    BY <1>0, <2>4 DEF ProcessStep, StartWorker
  <2>5. CASE PApiCrash
    BY <2>5 DEF PApiCrash, HeldBack
  <2>6. ASSUME NEW w \in Workers, HandOver(w)
        PROVE  UNCHANGED <<asked, run>> /\ job'[q] = job[q]
    BY <1>0, <2>6, HandOverJob DEF HandOver, HeldBack, Planned
  <2>7. ASSUME NEW v \in Diarizers, NEW e \in Diars, HandToReport(v, e)
        PROVE  UNCHANGED <<asked, run>> /\ job'[q] = job[q]
    BY <1>0, <2>7, HandToReportJob DEF HandToReport
  <2> QED BY <2>1, <2>2, <2>3, <2>4, <2>5, <2>6, <2>7, Kinds DEF BaseStep, HeldBack
<1>2. ~Planned(q)'
  BY <1>0, PlansChange, PlanOf DEF Planned, HeldBack, PRemoveSession
<1>3. labels'[q] = "none"
  BY <1>0, LabelsChange DEF HeldBack
<1> QED BY <1>1, <1>2, <1>3 DEF HeldBack

\* A base worker that is up stays up while it is quiet.
LEMMA UpStays ==
  ASSUME PTypeOK, PNext, NEW w \in Workers, up[w],
         \A u \in Workers : ~StopWorker(u) /\ ~CrashWorker(u)
  PROVE  up'[w]
<1>1. UNCHANGED up \/ \E u \in Workers : StartWorker(u)
  <2>1. CASE BaseStep
    BY <2>1 DEF BaseStep, RemoveSession, ReportStep, CreateReport, EnqueueReport,
       EditReport, DeleteReport, ResultExpires, ClaimJob, JobStep, WaitForLlm, BeginReport,
       NoTranscript, SkipReport, MissReport, WriteReport, FailReport, EndJob, RetryJob,
       ProcessStep
  <2>2. CASE UNCHANGED vars \/ PApiCrash
    BY <2>2 DEF vars, PApiCrash
  <2>3. ASSUME NEW u \in Workers, Transcribe(u) \/ HandOver(u) PROVE UNCHANGED up
    BY <2>3 DEF Transcribe, HandOver
  <2>4. ASSUME NEW v \in Diarizers, NEW d \in Diars, HandToReport(v, d) PROVE UNCHANGED up
    BY <2>4 DEF HandToReport
  <2> QED BY <2>1, <2>2, <2>3, <2>4, Kinds
<1>2. ASSUME NEW u \in Workers, StartWorker(u) PROVE up'[w]
  BY <1>2 DEF StartWorker, PTypeOK, TypeOK
<1> QED BY <1>1, <1>2

\* What transcribe_session promises a report for waits for the diarization alone.
LEMMA TranscribedHeldBack ==
  ASSUME CoreInv, NEW w \in Workers, Transcribe(w), NEW d \in Diars, NEW q \in dauto'[d],
         q \in Reports, labels[q] = "none"
  PROVE  HeldBack(q)'
<1>0. PTypeOK /\ TypeOK /\ RInv(q) /\ RowInv(q) /\ DiarInv(d)
  BY RowOf DEF CoreInv
<1>1. rstatus[q] = "none"
  BY <1>0 DEF Transcribe, RInv
<1>2. job[q] = NoJob /\ ~asked[q] /\ ~Planned(q) /\ \A u \in Workers : run[u][q] = "idle"
  BY <1>0, <1>1 DEF RInv, RowInv, Running, NoJob
<1>3. UNCHANGED <<labels, job, asked, run>>
  BY DEF Transcribe
<1>4. ~Planned(q)'
  <2>1. d \in Waiting
    BY <1>0, TranscribeDiar DEF Transcribe
  <2>2. plan' = [plan EXCEPT ![w] = Waiting]
    BY <2>1 DEF Transcribe
  <2>3. q \notin Waiting
    BY PipelineAssumption DEF Waiting
  <2> QED BY <1>0, <1>2, <2>2, <2>3 DEF Planned, PTypeOK
<1> QED BY <1>2, <1>3, <1>4 DEF HeldBack

\* A report that waited is begun after its diarization was over.
LEMMA StepLabelInv ==
  ASSUME ~StartsOverlap, OneWorkerEach, OrderlyInv, PNext
  PROVE  LabelInv'
<1>0. CoreInv /\ PTypeOK /\ PTypeOK' /\ TypeOK
  BY StepPTypeOK DEF OrderlyInv, CoreInv, PTypeOK
<1>1. ASSUME NEW r \in Reports, rstatus'[r] = "none" PROVE labels'[r] = "none"
  BY <1>0, <1>1, RowsStay, LabelsChange DEF OrderlyInv, LabelInv
<1>2. ASSUME Quiet'
      PROVE  /\ Quiet
             /\ \A w \in Workers : ~StopWorker(w) /\ ~CrashWorker(w)
  BY <1>0, <1>2, QuietKept
<1>3. ASSUME Quiet', sess' \in {"ready", "silent"}, NEW w \in Workers PROVE up'[w]
  <2>1. CASE \E u \in Workers : Transcribe(u)
    BY <2>1 DEF Transcribe, OneWorkerEach
  <2>2. CASE sess \in {"ready", "silent"}
    BY <1>0, <1>2, <1>3, <2>2, UpStays DEF OrderlyInv, LabelInv
  <2> QED BY <1>3, <2>1, <2>2, SessionChanges
<1>4. ASSUME Quiet', NEW d \in Diars, NEW r \in dauto'[d], dstatus'[d] \in {"queued", "running"}
      PROVE  HeldBack(r)'
  <2>0. r \in Reports
    BY <1>0 DEF PTypeOK
  <2>1. RInv(r) /\ RowInv(r) /\ DiarInv(d) /\ OverInv(d)
    BY <1>0, <2>0 DEF CoreInv, OrderlyInv
  <2>2. CASE \E w \in Workers : Transcribe(w)
    <3>1. labels[r] = "none"
      BY <2>0, <2>1, <2>2 DEF Transcribe, RInv, OrderlyInv, LabelInv
    <3> QED BY <1>0, <2>0, <2>2, <3>1, TranscribedHeldBack
  <2>3. CASE \A w \in Workers : ~Transcribe(w)
    <3>1. r \in dauto[d]
      BY <1>0, <2>3, PlansChange, PlanOf DEF PRemoveSession
    <3>2. dstatus[d] \in {"queued", "running"}
      <4>1. dstatus[d] \notin {"none", "gone"}
        BY <2>1, <3>1 DEF DiarInv
      <4>2. dstatus'[d] = "running" /\ (\E v \in Diarizers : drun[v][d] = "wait")
              => dstatus[d] \notin {"done", "failed"}
        BY <1>2, <1>4, <2>1 DEF OverInv
      <4>3. dstatus[d] \in Status
        BY <1>0 DEF PTypeOK
      <4> QED BY <1>0, <1>4, <4>1, <4>2, <4>3, DiarStatus DEF Status
    <3>3. HeldBack(r) /\ rstatus[r] # "none"
      BY <1>2, <1>4, <2>1, <3>1, <3>2 DEF OrderlyInv, LabelInv, RowInv
    <3>4. r \in Stuck => \A w \in Workers : up[w]
      <4>1. rstatus[r] \in {"queued", "running"} => sess \in {"ready", "silent"}
        BY <1>0, <2>1 DEF RInv, TypeOK, Session
      <4> QED BY <1>2, <1>4, <4>1 DEF Stuck, OrderlyInv, LabelInv
    <3>5. ASSUME NEW v \in Diarizers, NEW e \in Diars, HandToReport(v, e), r \in dauto[e]
          PROVE  FALSE
      <4>1. e = d
        BY <3>1, <3>5 DEF OrderlyInv, OneWaits
      <4>2. dstatus[d] \in {"done", "failed", "gone"}
        BY <2>1, <3>5, <4>1 DEF HandToReport, DStep, OverInv
      <4> QED BY <3>2, <4>2
    <3> QED BY <1>0, <1>2, <1>4, <2>0, <2>3, <3>3, <3>4, <3>5, HeldStays
  <2> QED BY <2>2, <2>3
<1> QED BY <1>1, <1>3, <1>4 DEF LabelInv

\* A report that is begun when its diarization is done is begun with labels, and one
\* whose diarization comes to be done was held back until then.
LEMMA StepLabelsKept ==
  ASSUME OrderlyInv, PNext
  PROVE  LabelsKept'
<1>0. CoreInv /\ PTypeOK
  BY DEF OrderlyInv, CoreInv
<1>1. SUFFICES ASSUME Quiet', NEW d \in Diars, NEW r \in dauto'[d],
                      dstatus'[d] = "done", labels'[r] # "none"
               PROVE  labels'[r] = "labelled"
  BY DEF LabelsKept
<1>2. Quiet
  BY <1>0, <1>1, QuietKept
<1>3. CASE dstatus[d] = "done"
  <2>1. r \in dauto[d]
    <3>1. CASE \E w \in Workers : Transcribe(w)
      BY <1>0, <1>1, <1>3, <3>1 DEF Transcribe, Waiting, PTypeOK
    <3> QED BY <1>0, <1>1, <3>1, PlansChange, PlanOf DEF PRemoveSession
  <2>2. r \in Reports
    BY <1>0, <2>1 DEF PTypeOK
  <2> QED BY <1>0, <1>1, <1>2, <1>3, <2>1, <2>2, LabelsChange DEF OrderlyInv, LabelsKept
<1>4. CASE dstatus[d] # "done"
  <2>1. UNCHANGED labels /\ dstatus[d] # "gone" /\ \E v \in Diarizers : drun[v][d] = "work"
    BY <1>0, <1>1, <1>4, DiarStatus
  <2>2. dstatus[d] = "running"
    BY <2>1 DEF OrderlyInv, OverInv
  <2>3. r \in dauto[d]
    <3>1. CASE \E w \in Workers : Transcribe(w)
      BY <1>0, <1>1, <2>2, <3>1 DEF Transcribe, Waiting, PTypeOK
    <3> QED BY <1>0, <1>1, <3>1, PlansChange, PlanOf DEF PRemoveSession
  <2> QED BY <1>1, <1>2, <2>1, <2>2, <2>3 DEF OrderlyInv, LabelInv, HeldBack
<1> QED BY <1>3, <1>4

\* PInit: nothing was begun.
LEMMA InitOrderlyInv == PInit => OrderlyInv
<1> SUFFICES ASSUME PInit PROVE OrderlyInv
  OBVIOUS
<1>1. CoreInv
  BY InitCoreInv
<1>2. OneWaits /\ LabelsKept
  BY DEF PInit, OneWaits, Waiting, LabelsKept
<1>3. LabelInv
  BY DEF PInit, Init, LabelInv
<1>4. \A d \in Diars : OverInv(d)
  BY DEF PInit, OverInv
<1> QED BY <1>1, <1>2, <1>3, <1>4 DEF OrderlyInv

\* Every step keeps the order of report and diarization.
LEMMA StepOrderlyInv ==
  ASSUME ~StartsOverlap, OneWorkerEach, OrderlyInv, [PNext]_pvars
  PROVE  OrderlyInv'
<1>1. CASE PNext
  BY <1>1, StepCoreInv, StepOneWaits, StepLabelInv, StepLabelsKept, StepOverInv DEF OrderlyInv
<1>2. CASE UNCHANGED pvars
  <2>1. CoreInv'
    BY <1>2, StepCoreInv DEF OrderlyInv
  <2>2. Quiet' <=> Quiet
    BY <1>2 DEF pvars, vars, dvars, Quiet
  <2>3. UNCHANGED <<sess, rstatus, job, asked, up, run>>
        /\ UNCHANGED <<dstatus, dauto, djob, dup, drun, plan, labels>>
    BY <1>2 DEF pvars, vars, dvars
  <2>4. OneWaits' /\ LabelsKept'
    BY <2>2, <2>3 DEF OrderlyInv, OneWaits, Waiting, LabelsKept
  <2>5. LabelInv'
    BY <2>2, <2>3 DEF OrderlyInv, LabelInv, HeldBack, Planned
  <2>6. \A d \in Diars : OverInv(d)'
    BY <2>2, <2>3 DEF OrderlyInv, OverInv
  <2> QED BY <2>1, <2>4, <2>5, <2>6 DEF OrderlyInv
<1> QED BY <1>1, <1>2

\* With one base worker and one diarize worker, as docker-compose.yml starts them when it
\* is not told to start more: a report asked for together with speaker recognition is
\* written from the labelled transcript whenever the recognition succeeds, as long as nobody
\* is stopped or restarted, however often the diarize worker crashes and whatever else is
\* asked for meanwhile.
THEOREM LabelsAreKept ==
  ASSUME ~StartsOverlap, OneWorkerEach
  PROVE  PSpec => []LabelsKept
<1>1. PInit => OrderlyInv
  BY InitOrderlyInv
<1>2. OrderlyInv /\ [PNext]_pvars => OrderlyInv'
  BY StepOrderlyInv
<1>3. OrderlyInv => LabelsKept
  BY DEF OrderlyInv
<1> QED BY <1>1, <1>2, <1>3, PTL DEF PSpec

-----------------------------------------------------------------------------
(* What is shown of a report *)

\* CoreInv contains the invariant of Reports.
LEMMA BaseIInv == CoreInv => IInv
  BY Pointwise DEF CoreInv, PTypeOK

\* Transcribe creates rows; the other three steps that Reports does not have leave rows as
\* they are.
LEMMA RowsElsewhere ==
  ASSUME \/ UNCHANGED vars \/ PApiCrash
         \/ \E w \in Workers : HandOver(w)
         \/ \E v \in Diarizers, d \in Diars : HandToReport(v, d)
  PROVE  UNCHANGED rowVars
  BY DEF vars, PApiCrash, HandOver, HandToReport, rowVars

\* No step of the composition undoes an edit.
LEMMA PStepKeeps ==
  ASSUME CoreInv, [PNext]_pvars, NEW q \in Reports
  PROVE  Kept(q)
<1>1. CASE BaseStep
  BY <1>1, BaseIInv, StepKeeps DEF BaseStep, Next
<1>2. CASE UNCHANGED rowVars \/ \E w \in Workers : Transcribe(w)
  BY <1>2 DEF rowVars, Kept, Transcribe
<1>3. CASE UNCHANGED pvars
  BY <1>2, <1>3, RowsElsewhere DEF pvars
<1> QED BY <1>1, <1>2, <1>3, Kinds, RowsElsewhere

\* Also with reports that wait for a diarization, and are enqueued by whoever ends it: what
\* a user has changed in a report is never replaced by a text of the LLM.
THEOREM PEditsSurvive ==
  ASSUME ~StartsOverlap
  PROVE  PSpec => EditIsKept
<1>1. CoreInv /\ [PNext]_pvars
        => [\A r \in Reports :
              content[r] = "edited" => content'[r] = "edited" \/ rstatus'[r] = "gone"]_vars
  BY PStepKeeps DEF Kept
<1> QED BY <1>1, PInvariance, PTL DEF PSpec, EditIsKept

\* Transcribe may ask for reports.
LEMMA TranscribeLStep ==
  ASSUME CoreInv, NEW w \in Workers, Transcribe(w)
  PROVE  LStep
<1>0. TypeOK /\ \A r \in Reports : rstatus[r] = "none"
  BY DEF CoreInv, PTypeOK, RInv, Transcribe
<1>1. PICK R \in SUBSET Reports :
        /\ \A q, r \in R : q = r
        /\ rstatus' = [r \in Reports |-> IF r \in R THEN "queued" ELSE rstatus[r]]
  BY DEF Transcribe
<1>2. UNCHANGED content
  BY DEF Transcribe
<1>3. CASE R = {}
  <2>1. UNCHANGED rstatus
    BY <1>0, <1>1, <1>3 DEF TypeOK
  <2> QED BY <1>2, <2>1, Invisible
<1>4. CASE R # {}
  <2>1. PICK r \in R : TRUE
    BY <1>4
  <2>2. r \in Reports /\ rstatus' = [rstatus EXCEPT ![r] = "queued"]
    BY <1>0, <1>1, <2>1 DEF TypeOK
  <2>3. rstatus'[r] = "queued" /\ content' = [content EXCEPT ![r] = content'[r]]
    BY <1>0, <1>2, <2>2 DEF TypeOK
  <2>4. ViewOf(rstatus[r], content[r]) = "none" /\ ViewOf(rstatus'[r], content'[r]) = "making"
    BY <1>0, <2>2, <2>3 DEF ViewOf
  <2> QED BY <1>0, <2>2, <2>3, <2>4, Moves
<1> QED BY <1>3, <1>4

\* Every step of the composition is a step of ReportLifecycle or none.
LEMMA PStepLStep ==
  ASSUME CoreInv, [PNext]_pvars
  PROVE  LStep
<1>1. CASE BaseStep
  BY <1>1, BaseIInv, ReportLStep, JobLStep, ProcessLStep DEF BaseStep
<1>2. CASE UNCHANGED rowVars
  BY <1>2, Invisible DEF rowVars
<1>3. CASE UNCHANGED pvars
  BY <1>2, <1>3, RowsElsewhere DEF pvars
<1> QED BY <1>1, <1>2, <1>3, Kinds, RowsElsewhere, TranscribeLStep

\* Reports and diarizations together implement ReportLifecycle: a report that waits for
\* its diarization shows no move that a report of its own would not.
THEOREM PRefinement ==
  ASSUME ~StartsOverlap
  PROVE  PSpec => ImplementsReportLifecycle
<1>1. PInit => Lifecycle!LInit
  BY InitLInit DEF PInit
<1>2. CoreInv /\ [PNext]_pvars => LStep
  BY PStepLStep
<1> QED BY <1>1, <1>2, PInvariance, PTL
        DEF PSpec, ImplementsReportLifecycle, Lifecycle!LSpec, LStep
=============================================================================
