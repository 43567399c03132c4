------------------------ MODULE Transcription_proofs ------------------------
(***************************************************************************)
(* Theorems about Transcription, for every number of sessions, workers and *)
(* faults.  Those beyond type correctness are about the deployment without *)
(* overlapping starts (one worker process, or several of which none starts *)
(* while a job runs) and one complete request at a time per session; the   *)
(* run TranscriptionOverlap shows that the first hypothesis is needed.     *)
(***************************************************************************)
EXTENDS Transcription, TLAPS

-----------------------------------------------------------------------------
(* Type correctness *)

\* What upload_chunk does.
Chunk(s) == UploadCheck(s) \/ UploadStore(s) \/ UploadChunksEnd(s)

\* The calls on a job id are well typed.
LEMMA JobTypes ==
  ASSUME NEW j \in Job
  PROVE  /\ NoJob \in Job
         /\ Enqueue(j) \in Job
         /\ Claim(j) \in Job
         /\ Finish(j) \in Job
         /\ Release(j) \in Job
         /\ ForgetResult(j) \in Job
         /\ Reset(j) \in Job
BY DEF Job, NoJob, Enqueue, Known, Claim, Finish, Release, ForgetResult, Reset

\* Init is well typed.
LEMMA InitTypeOK == Init => TypeOK
BY DEF Init, TypeOK, Status, PutPhase, CallPhase, RunPhase, Job, NoJob

\* The steps on one session that belong to no request in flight.
LEMMA SessionTypeOK ==
  ASSUME TypeOK, NEW s \in Sessions,
         \/ CreateSession(s) \/ DeleteSession(s) \/ Chunk(s)
         \/ Expire(s) \/ ResultExpires(s)
  PROVE  TypeOK'
<1> USE DEF TypeOK, rowVars
<1>1. CASE CreateSession(s)
  BY <1>1 DEF CreateSession, Status
<1>2. CASE Chunk(s)
  <2>1. CASE UploadCheck(s)
    BY <2>1 DEF UploadCheck, PutPhase
  <2>2. CASE UploadStore(s)
    BY <2>2 DEF UploadStore
  <2>3. CASE UploadChunksEnd(s)
    BY <2>3 DEF UploadChunksEnd, PutPhase
  <2> QED BY <1>2, <2>1, <2>2, <2>3 DEF Chunk
<1>3. CASE DeleteSession(s)
  BY <1>3 DEF DeleteSession, Remove, Late, PutPhase, Status
<1>4. CASE Expire(s)
  BY <1>4 DEF Expire
<1>5. CASE ResultExpires(s)
  BY <1>5, JobTypes DEF ResultExpires
<1> QED BY <1>1, <1>2, <1>3, <1>4, <1>5

\* The steps of a request.
LEMMA ApiTypeOK ==
  ASSUME TypeOK, NEW s \in Sessions, NEW c \in Callers, ApiStep(c, s)
  PROVE  TypeOK'
<1> USE DEF TypeOK, rowVars
<1>0. ASSUME NEW phase \in CallPhase, CallTo(c, s, phase)
      PROVE  call' \in [Callers -> [Sessions -> CallPhase]]
  BY <1>0 DEF CallTo
<1>1. CASE CompleteRead(c, s)
  BY <1>0, <1>1 DEF CompleteRead, CallPhase
<1>2. CASE CompleteCommit(c, s)
  <2>1. status' \in [Sessions -> Status]
    BY <1>2 DEF CompleteCommit, Status
  <2>2. call' \in [Callers -> [Sessions -> CallPhase]]
    BY <1>0, <1>2 DEF CompleteCommit, CallPhase
  <2> QED BY <1>2, <2>1, <2>2 DEF CompleteCommit
<1>3. CASE EnqueueTranscription(c, s)
  BY <1>0, <1>3, JobTypes DEF EnqueueTranscription, CallPhase
<1>4. CASE UploadOpen(c, s)
  BY <1>0, <1>4 DEF UploadOpen, CallPhase, Status
<1>5. CASE UploadStored(c, s)
  BY <1>0, <1>5 DEF UploadStored, CallPhase, Status
<1>6. CASE UploadEmpty(c, s)
  BY <1>0, <1>6 DEF UploadEmpty, CallPhase
<1>7. CASE UploadTooLarge(c, s)
  BY <1>0, <1>7 DEF UploadTooLarge, Remove, Late, PutPhase, CallPhase, Status
<1>8. CASE CreateText(c, s)
  BY <1>0, <1>8 DEF CreateText, CallPhase, Status
<1>9. CASE EnqueueTextReport(c, s)
  BY <1>0, <1>9 DEF EnqueueTextReport, CallPhase
<1> QED
  BY <1>1, <1>2, <1>3, <1>4, <1>5, <1>6, <1>7, <1>8, <1>9 DEF ApiStep

\* Every step of a job keeps the types.
LEMMA JobTypeOK ==
  ASSUME TypeOK, NEW s \in Sessions, NEW w \in Workers,
         ClaimJob(w, s) \/ JobStep(w, s)
  PROVE  TypeOK'
<1> USE DEF TypeOK, rowVars
<1>0. ASSUME NEW from \in RunPhase, NEW to \in RunPhase, Step(w, s, from, to)
      PROVE  run' \in [Workers -> [Sessions -> RunPhase]]
  BY <1>0 DEF Step, Goto
<1>1. CASE ClaimJob(w, s)
  BY <1>0, <1>1, JobTypes DEF ClaimJob, RunPhase
<1>2. CASE SkipJob(w, s)
  BY <1>0, <1>2 DEF SkipJob, RunPhase
<1>3. CASE BeginJob(w, s)
  BY <1>0, <1>3 DEF BeginJob, Status, RunPhase
<1>4. CASE Resample(w, s)
  BY <1>0, <1>4 DEF Resample, RunPhase
<1>5. CASE ResampleNoAudio(w, s)
  BY <1>0, <1>5 DEF ResampleNoAudio, RunPhase
<1>6. CASE AcquireStt(w, s)
  BY <1>0, <1>6 DEF AcquireStt, RunPhase
<1>7. CASE SttDone(w, s)
  BY <1>0, <1>7 DEF SttDone, RunPhase
<1>8. CASE WorkFails(w, s)
  <2>1. run' \in [Workers -> [Sessions -> RunPhase]]
    BY <1>0, <1>8 DEF WorkFails, RunPhase
  <2> QED BY <1>8, <2>1 DEF WorkFails
<1>9. CASE RecordFailure(w, s)
  <2>1. run' \in [Workers -> [Sessions -> RunPhase]]
    BY <1>0, <1>9 DEF RecordFailure, RunPhase
  <2>2. status' \in [Sessions -> Status]
    BY <1>9 DEF RecordFailure, Status
  <2> QED BY <1>9, <2>1, <2>2 DEF RecordFailure
<1>10. CASE SaveGone(w, s)
  BY <1>0, <1>10 DEF SaveGone, RunPhase
<1>11. CASE Save(w, s)
  <2>1. run' \in [Workers -> [Sessions -> RunPhase]]
    <3>1. Step(w, s, "save", IF wants[s] THEN "plan" ELSE "return")
      BY <1>11 DEF Save
    <3> QED BY <1>0, <3>1 DEF RunPhase
  <2>2. reports' \in [Sessions -> Nat] /\ own' \in [Workers -> [Sessions -> Nat]]
    <3>1. CASE wants[s]
      <4>1. reports' = [reports EXCEPT ![s] = @ + 1]
        BY <1>11, <3>1 DEF Save
      <4>2. own' = [own EXCEPT ![w][s] = reports[s] + 1]
        BY <1>11, <3>1 DEF Save
      <4> QED BY <4>1, <4>2
    <3>2. CASE ~wants[s]
      BY <1>11, <3>2 DEF Save
    <3> QED BY <3>1, <3>2
  <2> QED BY <1>11, <2>1, <2>2 DEF Save, Status
<1>12. CASE PlanReport(w, s)
  BY <1>0, <1>12 DEF PlanReport, RunPhase
<1>13. CASE EndJob(w, s)
  <2>1. run' \in [Workers -> [Sessions -> RunPhase]]
    BY <1>0, <1>13 DEF EndJob, RunPhase
  <2>2. job' \in [Sessions -> Job]
    BY <1>13, JobTypes DEF EndJob
  <2> QED BY <1>13, <2>1, <2>2 DEF EndJob
<1>14. CASE RetryJob(w, s)
  BY <1>0, <1>14, JobTypes DEF RetryJob, RunPhase
<1> QED
  BY <1>1, <1>2, <1>3, <1>4, <1>5, <1>6, <1>7, <1>8, <1>9, <1>10, <1>11,
     <1>12, <1>13, <1>14 DEF JobStep

\* Counting a fault gives counters again.
LEMMA FaultTypes ==
  ASSUME faults \in [stop : Nat, crash : Nat, api : Nat]
  PROVE  /\ [faults EXCEPT !.stop = faults.stop + 1] \in [stop : Nat, crash : Nat, api : Nat]
         /\ [faults EXCEPT !.crash = faults.crash + 1] \in [stop : Nat, crash : Nat, api : Nat]
         /\ [faults EXCEPT !.api = faults.api + 1] \in [stop : Nat, crash : Nat, api : Nat]
BY SMTT(30)

\* Every step of a process as a whole keeps the types.
LEMMA ProcessTypeOK ==
  ASSUME TypeOK,
         \/ \E w \in Workers : StartWorker(w) \/ StopWorker(w) \/ CrashWorker(w)
         \/ ApiCrash \/ PurgeExpired
  PROVE  TypeOK'
<1> USE DEF TypeOK, rowVars
<1>0. ASSUME NEW w \in Workers, Halt(w)
      PROVE  up' \in [Workers -> BOOLEAN] /\ run' \in [Workers -> [Sessions -> RunPhase]]
  BY <1>0 DEF Halt, RunPhase
<1>1. ASSUME NEW w \in Workers, StartWorker(w) PROVE TypeOK'
  <2>1. job' \in [Sessions -> Job]
    BY <1>1, JobTypes DEF StartWorker
  <2>2. planned' \in [Sessions -> SUBSET Nat]
    <3>1. \A s \in Sessions : 1..reports[s] \in SUBSET Nat
      OBVIOUS
    <3> QED BY <1>1, <3>1 DEF StartWorker
  <2> QED BY <1>1, <2>1, <2>2 DEF StartWorker
<1>2. ASSUME NEW w \in Workers, StopWorker(w) PROVE TypeOK'
  <2>1. job' \in [Sessions -> Job]
    BY <1>2, JobTypes DEF StopWorker
  <2>2. faults' \in [stop : Nat, crash : Nat, api : Nat]
    BY <1>2, FaultTypes DEF StopWorker
  <2> QED BY <1>0, <1>2, <2>1, <2>2 DEF StopWorker, Halt
<1>3. ASSUME NEW w \in Workers, CrashWorker(w) PROVE TypeOK'
  <2>1. faults' \in [stop : Nat, crash : Nat, api : Nat]
    BY <1>3, FaultTypes DEF CrashWorker
  <2> QED BY <1>0, <1>3, <2>1 DEF CrashWorker, Halt
<1>4. CASE ApiCrash
  <2>1. faults' \in [stop : Nat, crash : Nat, api : Nat]
    BY <1>4, FaultTypes DEF ApiCrash
  <2> QED BY <1>4, <2>1 DEF ApiCrash, CallPhase, PutPhase
<1>5. CASE PurgeExpired
  BY <1>5 DEF PurgeExpired, Remove, Late, PutPhase, Status
<1> QED BY <1>1, <1>2, <1>3, <1>4, <1>5

\* Every step is well typed.
LEMMA StepTypeOK == TypeOK /\ [Next]_vars => TypeOK'
<1> SUFFICES ASSUME TypeOK, [Next]_vars PROVE TypeOK'
  OBVIOUS
<1>1. CASE UNCHANGED vars
  BY <1>1 DEF TypeOK, vars
<1> QED
  BY <1>1, SessionTypeOK, ApiTypeOK, JobTypeOK, ProcessTypeOK DEF Next, Chunk

\* Every reachable state is well typed: in particular every request and every
\* run of a job is in one of the phases the source has.
THEOREM TypeCorrect == Spec => []TypeOK
BY InitTypeOK, StepTypeOK, PTL DEF Spec

-----------------------------------------------------------------------------
(* The inductive invariant *)

\* One worker starts at a time and alone, and one request completes a session.
Isolated == ~StartsOverlap /\ \A c, d \in Callers : c = d

\* What IInv says of one session.
SInv(s) ==
  /\ \A v, w \in Workers : Running(v, s) /\ Running(w, s) => v = w
  /\ \A w \in Workers : Running(w, s) => job[s].key /\ job[s].held
  /\ \A w \in Workers :
       run[w][s] \in {"audio", "wait", "stt", "save", "fail", "noaudio"}
         => status[s] \in {"transcribing", "gone"}
  /\ \/ status[s] \notin {"none", "created"}
     \/ ~job[s].key /\ \A c \in Callers : call[c][s] # "enqueue"
  /\ \A c \in Callers : /\ call[c][s] = "commit" => status[s] \in {"created", "gone"}
                        /\ call[c][s] = "store" => status[s] = "created"
  /\ reports[s] <= 1 /\ (reports[s] > 0 => status[s] = "transcribed")
  /\ (expires[s] # "null") <=> (status[s] = "transcribed")
  /\ status[s] \in Absent /\ put[s] # "late" => files[s] = {}
  /\ put[s] = "body" => status[s] \notin Absent
  /\ put[s] = "late" => status[s] = "gone"

\* The invariant speaks of one session at a time.
LEMMA Pointwise == IInv <=> TypeOK /\ \A s \in Sessions : SInv(s)
BY DEF IInv, SInv, OneRunPerSession, RunsHoldTheirJobs, RunsFindTheirStatus,
       JobsAreSubmitted, RequestsFindUploads, ReportsFollowTranscripts,
       ExpiryMatchesStatus, NoFilesWithoutRow, ChunksFindSessions

\* A step that touches nothing SInv(t) speaks of.
Same(t) ==
  /\ status'[t] = status[t] /\ expires'[t] = expires[t] /\ reports'[t] = reports[t]
  /\ files'[t] = files[t] /\ put'[t] = put[t] /\ job'[t] = job[t]
  /\ \A c \in Callers : call'[c][t] = call[c][t]
  /\ \A w \in Workers : run'[w][t] = run[w][t]

\* A step that leaves a session alone keeps its part of the invariant.
LEMMA Frame ==
  ASSUME NEW t \in Sessions, SInv(t), Same(t)
  PROVE  SInv(t)'
BY DEF SInv, Same, Running

\* Init: there is no session.
LEMMA InitIInv == Init => IInv
<1> SUFFICES ASSUME Init PROVE TypeOK /\ \A s \in Sessions : SInv(s)
  BY Pointwise
<1>1. TypeOK
  BY InitTypeOK
<1>2. ASSUME NEW s \in Sessions PROVE SInv(s)
  BY DEF Init, SInv, Running, Absent, NoJob
<1> QED BY <1>1, <1>2

\* The steps on one session that belong to no request in flight.
LEMMA SessionSInv ==
  ASSUME TypeOK, NEW s \in Sessions, SInv(s), NEW t \in Sessions, SInv(t),
         \/ CreateSession(s) \/ DeleteSession(s) \/ Chunk(s)
         \/ Expire(s) \/ ResultExpires(s)
  PROVE  SInv(t)'
<1> USE DEF TypeOK, rowVars
<1>1. CASE CreateSession(s)
  BY <1>1 DEF CreateSession, SInv, Running, Absent
<1>2. CASE Chunk(s)
  <2>1. CASE UploadCheck(s)
    BY <1>2, <2>1 DEF UploadCheck, SInv, Running, Absent
  <2>2. CASE UploadStore(s)
    BY <1>2, <2>2 DEF UploadStore, SInv, Running, PutPhase
  <2>3. CASE UploadChunksEnd(s)
    BY <1>2, <2>3 DEF UploadChunksEnd, SInv, Running
  <2> QED BY <1>2, <2>1, <2>2, <2>3 DEF Chunk
<1>3. CASE DeleteSession(s)
  BY <1>3 DEF DeleteSession, Remove, Late, PutPhase, SInv, Running, Absent
<1>4. CASE Expire(s)
  BY <1>4 DEF Expire, SInv, Running
<1>5. CASE ResultExpires(s)
  BY <1>5 DEF ResultExpires, ForgetResult, Job, SInv, Running
<1> QED BY <1>1, <1>2, <1>3, <1>4, <1>5

\* A request changes the session it is about, and no other.
LEMMA ApiSame ==
  ASSUME TypeOK, NEW s \in Sessions, NEW c \in Callers, ApiStep(c, s),
         NEW t \in Sessions, t # s
  PROVE  Same(t)
<1> USE DEF TypeOK, rowVars, CallTo
<1>1. CASE CompleteRead(c, s)
  BY <1>1 DEF CompleteRead, Same
<1>2. CASE CompleteCommit(c, s)
  <2>1. status'[t] = status[t] /\ \A d \in Callers : call'[d][t] = call[d][t]
    <3>1. CASE status[s] = "gone"
      <4>1. call' = [call EXCEPT ![c][s] = "idle"]
        BY <1>2, <3>1 DEF CompleteCommit
      <4>2. status' = status
        BY <1>2, <3>1 DEF CompleteCommit
      <4> QED BY <4>1, <4>2
    <3>2. CASE status[s] # "gone"
      <4>1. call' = [call EXCEPT ![c][s] = "enqueue"]
        BY <1>2, <3>2 DEF CompleteCommit
      <4>2. status' = [status EXCEPT ![s] = "queued"]
        BY <1>2, <3>2 DEF CompleteCommit
      <4> QED BY <4>1, <4>2
    <3> QED BY <3>1, <3>2
  <2> QED BY <1>2, <2>1 DEF CompleteCommit, Same
<1>3. CASE EnqueueTranscription(c, s)
  BY <1>3 DEF EnqueueTranscription, Same
<1>4. CASE UploadOpen(c, s)
  BY <1>4 DEF UploadOpen, Same
<1>5. CASE UploadStored(c, s)
  BY <1>5 DEF UploadStored, Same
<1>6. CASE UploadEmpty(c, s)
  BY <1>6 DEF UploadEmpty, Same
<1>7. CASE UploadTooLarge(c, s)
  BY <1>7 DEF UploadTooLarge, Remove, Late, PutPhase, Same
<1>8. CASE CreateText(c, s)
  BY <1>8 DEF CreateText, Same
<1>9. CASE EnqueueTextReport(c, s)
  BY <1>9 DEF EnqueueTextReport, Same
<1> QED
  BY <1>1, <1>2, <1>3, <1>4, <1>5, <1>6, <1>7, <1>8, <1>9 DEF ApiStep

\* The steps of a request.
LEMMA ApiSInv ==
  ASSUME Isolated, TypeOK, NEW s \in Sessions, NEW c \in Callers, ApiStep(c, s),
         NEW t \in Sessions, SInv(t)
  PROVE  SInv(t)'
<1> USE DEF TypeOK, rowVars, CallTo
<1>1. CASE t # s
  BY <1>1, Frame, ApiSame
<1>2. CASE t = s
  <2>0. \A d \in Callers : d = c
    BY DEF Isolated
  <2>1. CASE CompleteRead(c, s)
    BY <1>2, <2>0, <2>1 DEF CompleteRead, SInv, Running
  <2>2. CASE CompleteCommit(c, s)
    BY <1>2, <2>0, <2>2 DEF CompleteCommit, SInv, Running, Absent
  <2>3. CASE EnqueueTranscription(c, s)
    BY <1>2, <2>0, <2>3 DEF EnqueueTranscription, Enqueue, Known, Job, SInv, Running
  <2>4. CASE UploadOpen(c, s)
    BY <1>2, <2>0, <2>4 DEF UploadOpen, SInv, Running, Absent
  <2>5. CASE UploadStored(c, s)
    BY <1>2, <2>0, <2>5 DEF UploadStored, SInv, Running, Absent
  <2>6. CASE UploadEmpty(c, s)
    BY <1>2, <2>0, <2>6 DEF UploadEmpty, SInv, Running
  <2>7. CASE UploadTooLarge(c, s)
    BY <1>2, <2>0, <2>7 DEF UploadTooLarge, Remove, Late, PutPhase, SInv, Running, Absent
  <2>8. CASE CreateText(c, s)
    BY <1>2, <2>0, <2>8 DEF CreateText, SInv, Running, Absent
  <2>9. CASE EnqueueTextReport(c, s)
    BY <1>2, <2>0, <2>9 DEF EnqueueTextReport, SInv, Running
  <2> QED
    BY <2>1, <2>2, <2>3, <2>4, <2>5, <2>6, <2>7, <2>8, <2>9 DEF ApiStep
<1> QED BY <1>1, <1>2

\* So does a job.
LEMMA JobSame ==
  ASSUME TypeOK, NEW s \in Sessions, NEW w \in Workers,
         ClaimJob(w, s) \/ JobStep(w, s),
         NEW t \in Sessions, t # s
  PROVE  Same(t)
<1> USE DEF TypeOK, rowVars, Step, Goto
<1>1. CASE ClaimJob(w, s)
  BY <1>1 DEF ClaimJob, Same
<1>2. CASE SkipJob(w, s)
  BY <1>2 DEF SkipJob, Same
<1>3. CASE BeginJob(w, s)
  BY <1>3 DEF BeginJob, Same
<1>4. CASE Resample(w, s)
  BY <1>4 DEF Resample, Same
<1>5. CASE ResampleNoAudio(w, s)
  BY <1>5 DEF ResampleNoAudio, Same
<1>6. CASE AcquireStt(w, s)
  BY <1>6 DEF AcquireStt, Same
<1>7. CASE SttDone(w, s)
  BY <1>7 DEF SttDone, Same
<1>8. CASE WorkFails(w, s)
  <2>1. run' = [run EXCEPT ![w][s] = "fail"]
    BY <1>8 DEF WorkFails
  <2> QED BY <1>8, <2>1 DEF WorkFails, Same
<1>9. CASE RecordFailure(w, s)
  <2>1. status'[t] = status[t] /\ \A v \in Workers : run'[v][t] = run[v][t]
    <3>1. PICK to \in {"return", "raise"} : run' = [run EXCEPT ![w][s] = to]
      BY <1>9 DEF RecordFailure
    <3>2. status' = [status EXCEPT ![s] = IF @ = "gone" THEN @ ELSE "failed"]
      BY <1>9 DEF RecordFailure
    <3> QED BY <3>1, <3>2
  <2> QED BY <1>9, <2>1 DEF RecordFailure, Same
<1>10. CASE SaveGone(w, s)
  BY <1>10 DEF SaveGone, Same
<1>11. CASE Save(w, s)
  BY <1>11 DEF Save, Same
<1>12. CASE PlanReport(w, s)
  BY <1>12 DEF PlanReport, Same
<1>13. CASE EndJob(w, s)
  <2>1. run' = [run EXCEPT ![w][s] = "idle"]
    BY <1>13 DEF EndJob
  <2>2. job'[t] = job[t]
    BY <1>13 DEF EndJob
  <2> QED BY <1>13, <2>1, <2>2 DEF EndJob, Same
<1>14. CASE RetryJob(w, s)
  BY <1>14 DEF RetryJob, Same
<1> QED
  BY <1>1, <1>2, <1>3, <1>4, <1>5, <1>6, <1>7, <1>8, <1>9, <1>10, <1>11,
     <1>12, <1>13, <1>14 DEF JobStep

\* The steps of a job.
LEMMA JobSInv ==
  ASSUME TypeOK, NEW s \in Sessions, NEW w \in Workers,
         ClaimJob(w, s) \/ JobStep(w, s),
         NEW t \in Sessions, SInv(t)
  PROVE  SInv(t)'
<1> USE DEF TypeOK, rowVars, Step, Goto
<1>1. CASE t # s
  BY <1>1, Frame, JobSame
<1>2. CASE t = s
  <2>1. CASE ClaimJob(w, s)
    BY <1>2, <2>1 DEF ClaimJob, Claim, Claimable, Job, SInv, Running
  <2>2. CASE SkipJob(w, s)
    BY <1>2, <2>2 DEF SkipJob, SInv, Running
  <2>3. CASE BeginJob(w, s)
    <3>1. status' = [status EXCEPT ![s] = "transcribing"]
          /\ run' = [run EXCEPT ![w][s] = "audio"]
      BY <2>3 DEF BeginJob
    <3>2. \A v \in Workers : Running(v, s)' <=> Running(v, s)
      BY <2>3, <3>1 DEF BeginJob, Running
    <3> QED BY <1>2, <2>3, <3>1, <3>2 DEF BeginJob, SInv, Running, Absent
  <2>4. CASE Resample(w, s)
    BY <1>2, <2>4 DEF Resample, Absent, SInv, Running
  <2>5. CASE ResampleNoAudio(w, s)
    BY <1>2, <2>5 DEF ResampleNoAudio, SInv, Running
  <2>6. CASE AcquireStt(w, s)
    BY <1>2, <2>6 DEF AcquireStt, SInv, Running
  <2>7. CASE SttDone(w, s)
    BY <1>2, <2>7 DEF SttDone, SInv, Running
  <2>8. CASE WorkFails(w, s)
    <3>1. run' = [run EXCEPT ![w][s] = "fail"] /\ run[w][s] \in {"audio", "stt"}
      BY <2>8 DEF WorkFails
    <3> QED BY <1>2, <2>8, <3>1 DEF WorkFails, SInv, Running
  <2>9. CASE RecordFailure(w, s)
    <3>1. PICK to \in {"return", "raise"} : run' = [run EXCEPT ![w][s] = to]
      BY <2>9 DEF RecordFailure
    <3>2. run[w][s] \in {"noaudio", "fail"}
      BY <2>9 DEF RecordFailure
    <3>3. status'[s] = IF status[s] = "gone" THEN "gone" ELSE "failed"
      BY <2>9 DEF RecordFailure
    <3> QED
      BY <1>2, <2>9, <3>1, <3>2, <3>3 DEF RecordFailure, SInv, Running, Absent
  <2>10. CASE SaveGone(w, s)
    BY <1>2, <2>10 DEF SaveGone, SInv, Running
  <2>11. CASE Save(w, s)
    BY <1>2, <2>11 DEF Save, Absent, SInv, Running
  <2>12. CASE PlanReport(w, s)
    BY <1>2, <2>12 DEF PlanReport, SInv, Running
  <2>13. CASE EndJob(w, s)
    <3>1. run' = [run EXCEPT ![w][s] = "idle"] /\ run[w][s] # "idle"
      BY <2>13 DEF EndJob
    <3>2. \A v \in Workers : ~Running(v, s)'
      BY <1>2, <3>1 DEF SInv, Running
    <3>3. ~job'[s].key
      BY <2>13 DEF EndJob, Finish
    <3> QED BY <1>2, <2>13, <3>2, <3>3 DEF EndJob, SInv, Running
  <2>14. CASE RetryJob(w, s)
    BY <1>2, <2>14 DEF RetryJob, Release, Job, SInv, Running
  <2> QED
    BY <2>1, <2>2, <2>3, <2>4, <2>5, <2>6, <2>7, <2>8, <2>9, <2>10, <2>11,
    <2>12, <2>13, <2>14 DEF JobStep
<1> QED BY <1>1, <1>2

\* The steps of a process as a whole, which touch every session.
LEMMA ProcessSInv ==
  ASSUME Isolated, TypeOK, NEW t \in Sessions, SInv(t),
         \/ \E w \in Workers : StartWorker(w) \/ StopWorker(w) \/ CrashWorker(w)
         \/ ApiCrash \/ PurgeExpired
  PROVE  SInv(t)'
<1> USE DEF TypeOK, rowVars
<1>1. ASSUME NEW w \in Workers, StartWorker(w) PROVE SInv(t)'
  <2>1. \A v \in Workers : ~Running(v, t)
    BY <1>1 DEF StartWorker, Isolated
  <2> QED
    BY <1>1, <2>1 DEF StartWorker, Reset, Enqueue, Known, NoJob, SInv, Running
<1>2. ASSUME NEW w \in Workers, StopWorker(w) PROVE SInv(t)'
  BY <1>2 DEF StopWorker, Halt, Release, Job, SInv, Running
<1>3. ASSUME NEW w \in Workers, CrashWorker(w) PROVE SInv(t)'
  BY <1>3 DEF CrashWorker, Halt, SInv, Running
<1>4. CASE ApiCrash
  BY <1>4 DEF ApiCrash, PutPhase, SInv, Running
<1>5. CASE PurgeExpired
  BY <1>5 DEF PurgeExpired, Remove, Late, PutPhase, SInv, Running, Absent
<1> QED BY <1>1, <1>2, <1>3, <1>4, <1>5

\* Every step keeps the invariant.
LEMMA StepIInv ==
  ASSUME Isolated
  PROVE  IInv /\ [Next]_vars => IInv'
<1> SUFFICES ASSUME IInv, [Next]_vars PROVE TypeOK' /\ \A t \in Sessions : SInv(t)'
  BY Pointwise DEF IInv, SInv, OneRunPerSession, RunsHoldTheirJobs,
     RunsFindTheirStatus, JobsAreSubmitted, RequestsFindUploads,
     ReportsFollowTranscripts, ExpiryMatchesStatus, NoFilesWithoutRow, ChunksFindSessions
<1>1. TypeOK /\ \A s \in Sessions : SInv(s)
  BY Pointwise
<1>2. TypeOK'
  BY <1>1, StepTypeOK
<1>3. ASSUME NEW t \in Sessions PROVE SInv(t)'
  <2>1. CASE UNCHANGED vars
    BY <1>1, <2>1 DEF SInv, vars, Running
  <2>2. CASE Next
    BY <1>1, <2>2, SessionSInv, ApiSInv, JobSInv, ProcessSInv DEF Next, Chunk
  <2> QED BY <2>1, <2>2
<1> QED BY <1>2, <1>3

\* The inductive invariant holds in every reachable state.
THEOREM Invariance ==
  ASSUME Isolated
  PROVE  Spec => []IInv
BY InitIInv, StepIInv, PTL DEF Spec

-----------------------------------------------------------------------------
(* What follows from it *)

\* A session has an expiry date exactly while it is transcribed, so cleanup
\* never removes a session whose processing is not finished.
THEOREM ExpirySafe ==
  ASSUME Isolated
  PROVE  Spec => []ExpiryMatchesStatus
<1>1. IInv => ExpiryMatchesStatus
  BY DEF IInv
<1> QED BY <1>1, Invariance, PTL

\* transcribe_session is idempotent for the auto report, however often crashes,
\* shutdowns and recovery make it run.
THEOREM OneAutoReport ==
  ASSUME Isolated
  PROVE  Spec => []AtMostOneAutoReport
<1>1. IInv => AtMostOneAutoReport
  BY DEF IInv, ReportsFollowTranscripts, AtMostOneAutoReport
<1> QED BY <1>1, Invariance, PTL

\* No two workers run the job of one session.
THEOREM JobsExclusive ==
  ASSUME Isolated
  PROVE  Spec => []OneRunPerSession
<1>1. IInv => OneRunPerSession
  BY DEF IInv
<1> QED BY <1>1, Invariance, PTL

\* A deleted session leaves no audio behind, also when a worker was busy with it, unless
\* a chunk was past the check of upload_chunk when it was deleted.
THEOREM NoOrphans ==
  ASSUME Isolated
  PROVE  Spec => []NoFilesWithoutRow
<1>1. IInv => NoFilesWithoutRow
  BY DEF IInv
<1> QED BY <1>1, Invariance, PTL

-----------------------------------------------------------------------------
(* Steps and the life cycle *)

\* A step of SessionLifecycle, or none, under the refinement mapping.
LStep == [Lifecycle!LNext]_(Lifecycle!lvars)

\* A step that changes neither status nor expires is no step of the life cycle.
LEMMA Invisible == UNCHANGED <<status, expires>> => LStep
BY DEF LStep, Lifecycle!lvars

\* A step that changes the status of one session changes its view.
LEMMA ViewUpdate ==
  ASSUME TypeOK, NEW s \in Sessions, NEW x \in Status,
         status' = [status EXCEPT ![s] = x]
  PROVE  [t \in Sessions |-> ViewOf(status'[t])]
           = [[t \in Sessions |-> ViewOf(status[t])] EXCEPT ![s] = ViewOf(x)]
BY DEF TypeOK

\* A change of one status, without an expiry date, that goes forward.
LEMMA Moves ==
  ASSUME TypeOK, NEW s \in Sessions, NEW x \in Status,
         status' = [status EXCEPT ![s] = x], expires' = expires,
         \/ status[s] = "none" /\ x = "created"
         \/ status[s] = "created" /\ x = "queued"
         \/ status[s] \in {"queued", "failed", "transcribing"} /\ x = "transcribing"
         \/ status[s] = "transcribing" /\ x = "failed"
  PROVE  LStep
<1> DEFINE v == [t \in Sessions |-> ViewOf(status[t])]
<1>1. v' = [v EXCEPT ![s] = ViewOf(x)]
  BY ViewUpdate
<1>2. v[s] = ViewOf(status[s])
  OBVIOUS
<1> HIDE DEF v
<1>3. CASE status[s] = "none" /\ x = "created"
  <2>1. v[s] = "none" /\ v' = [v EXCEPT ![s] = "open"]
    BY <1>1, <1>2, <1>3 DEF ViewOf
  <2>2. Lifecycle!Open(s)
    BY <2>1 DEF Lifecycle!Open, Lifecycle!Show, v
  <2> QED BY <2>2 DEF LStep, Lifecycle!LNext
<1>4. CASE status[s] = "created" /\ x = "queued"
  <2>1. v[s] = "open" /\ v' = [v EXCEPT ![s] = "busy"]
    BY <1>1, <1>2, <1>4 DEF ViewOf
  <2>2. Lifecycle!Submit(s)
    BY <2>1 DEF Lifecycle!Submit, Lifecycle!Show, v
  <2> QED BY <2>2 DEF LStep, Lifecycle!LNext
<1>5. CASE status[s] = "failed" /\ x = "transcribing"
  <2>1. v[s] = "failed" /\ v' = [v EXCEPT ![s] = "busy"]
    BY <1>1, <1>2, <1>5 DEF ViewOf
  <2>2. Lifecycle!Retry(s)
    BY <2>1 DEF Lifecycle!Retry, Lifecycle!Show, v
  <2> QED BY <2>2 DEF LStep, Lifecycle!LNext
<1>6. CASE status[s] \in {"queued", "transcribing"} /\ x = "transcribing"
  <2>1. v' = v
    BY <1>1, <1>2, <1>6 DEF ViewOf, v
  <2> QED BY <2>1 DEF LStep, Lifecycle!lvars, v
<1>7. CASE status[s] = "transcribing" /\ x = "failed"
  <2>1. v[s] = "busy" /\ v' = [v EXCEPT ![s] = "failed"]
    BY <1>1, <1>2, <1>7 DEF ViewOf
  <2>2. Lifecycle!Fail(s)
    BY <2>1 DEF Lifecycle!Fail, Lifecycle!Show, v
  <2> QED BY <2>2 DEF LStep, Lifecycle!LNext
<1> QED BY <1>3, <1>4, <1>5, <1>6, <1>7

\* The result appears, with its expiry date.
LEMMA Delivers ==
  ASSUME TypeOK, NEW s \in Sessions,
         status' = [status EXCEPT ![s] = "transcribed"],
         expires' = [expires EXCEPT ![s] = "set"],
         status[s] \in {"none", "transcribing"}
  PROVE  LStep
<1> DEFINE v == [t \in Sessions |-> ViewOf(status[t])]
<1>1. v' = [v EXCEPT ![s] = "ready"]
  BY ViewUpdate DEF Status, ViewOf
<1>2. v[s] \in {"none", "busy"}
  BY DEF ViewOf
<1> HIDE DEF v
<1>3. Lifecycle!Deliver(s)
  BY <1>1, <1>2 DEF Lifecycle!Deliver, Lifecycle!Show, v
<1> QED BY <1>3 DEF LStep, Lifecycle!LNext

\* Removing sessions: by their users, one at a time, or by cleanup.
LEMMA Removes ==
  ASSUME TypeOK, NEW S \in SUBSET Sessions, Remove(S)
  PROVE  Lifecycle!Vanish(S)
BY DEF Remove, Late, PutPhase, Lifecycle!Vanish, ViewOf

\* Requests of one step, and time, are steps of SessionLifecycle or none.
LEMMA SessionLStep ==
  ASSUME IInv, NEW s \in Sessions,
         \/ CreateSession(s) \/ DeleteSession(s) \/ Chunk(s)
         \/ Expire(s) \/ ResultExpires(s)
  PROVE  LStep
<1>0. TypeOK
  BY DEF IInv
<1>1. CASE CreateSession(s)
  BY <1>0, <1>1, Moves DEF CreateSession, Status
<1>2. CASE Chunk(s)
  BY <1>2, Invisible DEF Chunk, UploadCheck, UploadStore, UploadChunksEnd, rowVars
<1>3. CASE DeleteSession(s)
  <2>1. Lifecycle!Vanish({s})
    BY <1>0, <1>3, Removes DEF DeleteSession
  <2>2. ViewOf(status[s]) \notin {"none", "gone"}
    BY <1>0, <1>3 DEF DeleteSession, Absent, TypeOK, Status, ViewOf
  <2>3. Lifecycle!Discard(s)
    BY <2>1, <2>2 DEF Lifecycle!Discard
  <2> QED BY <2>3 DEF LStep, Lifecycle!LNext
<1>4. CASE Expire(s)
  <2>1. Lifecycle!Lapse(s)
    BY <1>4 DEF Expire, Lifecycle!Lapse
  <2> QED BY <2>1 DEF LStep, Lifecycle!LNext
<1>5. CASE ResultExpires(s)
  BY <1>5, Invisible DEF ResultExpires, rowVars
<1> QED BY <1>1, <1>2, <1>3, <1>4, <1>5

\* So are the requests of several steps,
LEMMA ApiLStep ==
  ASSUME IInv, NEW s \in Sessions, NEW c \in Callers, ApiStep(c, s)
  PROVE  LStep
<1>0. TypeOK
  BY DEF IInv
<1>1. CASE CompleteRead(c, s)
  BY <1>1, Invisible DEF CompleteRead, rowVars
<1>2. CASE CompleteCommit(c, s)
  <2>1. CASE status[s] = "gone"
    BY <1>2, <2>1, Invisible DEF CompleteCommit
  <2>2. CASE status[s] # "gone"
    <3>1. status[s] = "created"
      BY <1>2, <2>2 DEF IInv, RequestsFindUploads, CompleteCommit
    <3>2. status' = [status EXCEPT ![s] = "queued"] /\ expires' = expires
      BY <1>2, <2>2 DEF CompleteCommit
    <3> QED BY <1>0, <3>1, <3>2, Moves DEF Status
  <2> QED BY <2>1, <2>2
<1>3. CASE EnqueueTranscription(c, s)
  BY <1>3, Invisible DEF EnqueueTranscription, rowVars
<1>4. CASE UploadOpen(c, s)
  BY <1>0, <1>4, Moves DEF UploadOpen, Status
<1>5. CASE UploadStored(c, s)
  <2>1. status[s] = "created"
    BY <1>5 DEF IInv, RequestsFindUploads, UploadStored
  <2>2. status' = [status EXCEPT ![s] = "queued"] /\ expires' = expires
    BY <1>5 DEF UploadStored
  <2> QED BY <1>0, <2>1, <2>2, Moves DEF Status
<1>6. CASE UploadEmpty(c, s)
  BY <1>6, Invisible DEF UploadEmpty, rowVars
<1>7. CASE UploadTooLarge(c, s)
  <2>1. Lifecycle!Vanish({s})
    BY <1>0, <1>7, Removes DEF UploadTooLarge
  <2>2. status[s] = "created"
    BY <1>7 DEF IInv, RequestsFindUploads, UploadTooLarge
  <2>3. Lifecycle!Discard(s)
    BY <2>1, <2>2 DEF Lifecycle!Discard, ViewOf
  <2> QED BY <2>3 DEF LStep, Lifecycle!LNext
<1>8. CASE CreateText(c, s)
  BY <1>0, <1>8, Delivers DEF CreateText
<1>9. CASE EnqueueTextReport(c, s)
  BY <1>9, Invisible DEF EnqueueTextReport
<1> QED
  BY <1>1, <1>2, <1>3, <1>4, <1>5, <1>6, <1>7, <1>8, <1>9 DEF ApiStep

\* the steps of a job,
LEMMA JobLStep ==
  ASSUME IInv, NEW s \in Sessions, NEW w \in Workers,
         ClaimJob(w, s) \/ JobStep(w, s)
  PROVE  LStep
<1>0. TypeOK
  BY DEF IInv
<1>1. CASE BeginJob(w, s)
  <2>1. status[s] \in {"queued", "failed", "transcribing"}
    <3>1. job[s].key
      BY <1>1 DEF BeginJob, Step, IInv, RunsHoldTheirJobs, Running
    <3>2. status[s] \notin {"none", "created"}
      BY <3>1 DEF IInv, JobsAreSubmitted
    <3> QED BY <1>0, <1>1, <3>2 DEF BeginJob, TypeOK, Status
  <2>2. status' = [status EXCEPT ![s] = "transcribing"] /\ expires' = expires
    BY <1>1 DEF BeginJob
  <2> QED BY <1>0, <2>1, <2>2, Moves DEF Status
<1>2. CASE RecordFailure(w, s)
  <2>1. status[s] \in {"transcribing", "gone"}
    BY <1>2 DEF RecordFailure, Step, IInv, RunsFindTheirStatus
  <2>2. status' = [status EXCEPT ![s] = IF @ = "gone" THEN @ ELSE "failed"]
        /\ expires' = expires
    BY <1>2 DEF RecordFailure
  <2>3. CASE status[s] = "gone"
    <3>1. status' = status
      BY <1>0, <2>2, <2>3 DEF TypeOK
    <3> QED BY <2>2, <3>1, Invisible
  <2>4. CASE status[s] = "transcribing"
    <3>1. status' = [status EXCEPT ![s] = "failed"]
      BY <1>0, <2>2, <2>4 DEF TypeOK
    <3> QED BY <1>0, <2>2, <2>4, <3>1, Moves DEF Status
  <2> QED BY <2>1, <2>3, <2>4
<1>3. CASE Save(w, s)
  <2>1. status[s] = "transcribing"
    BY <1>3 DEF Save, Step, IInv, RunsFindTheirStatus
  <2> QED BY <1>0, <1>3, <2>1, Delivers DEF Save
<1>4. CASE /\ ~BeginJob(w, s) /\ ~RecordFailure(w, s) /\ ~Save(w, s)
  BY <1>4, Invisible DEF JobStep, ClaimJob, SkipJob, Resample, ResampleNoAudio,
     AcquireStt, SttDone, WorkFails, SaveGone, PlanReport, EndJob, RetryJob, rowVars
<1> QED BY <1>1, <1>2, <1>3, <1>4

\* and those of workers, crashes and the cleanup.
LEMMA ProcessLStep ==
  ASSUME IInv,
         \/ \E w \in Workers : StartWorker(w) \/ StopWorker(w) \/ CrashWorker(w)
         \/ ApiCrash \/ PurgeExpired
  PROVE  LStep
<1>1. CASE PurgeExpired
  <2> DEFINE S == {s \in Sessions : expires[s] = "due"}
  <2>1. Lifecycle!Vanish(S)
    BY <1>1, Removes DEF PurgeExpired, IInv
  <2>2. \A s \in S : ViewOf(status[s]) = "ready"
    BY DEF IInv, ExpiryMatchesStatus, ViewOf
  <2>3. Lifecycle!Purge
    BY <1>1, <2>1, <2>2 DEF PurgeExpired, Lifecycle!Purge
  <2> QED BY <2>3 DEF LStep, Lifecycle!LNext
<1>2. CASE ~PurgeExpired
  BY <1>2, Invisible DEF StartWorker, StopWorker, CrashWorker, Halt, ApiCrash, rowVars
<1> QED BY <1>1, <1>2

\* Init shows what LInit does.
LEMMA InitLInit == Init => Lifecycle!LInit
BY DEF Init, Lifecycle!LInit, ViewOf

\* Every step is a step of SessionLifecycle or none.
LEMMA NextLStep == IInv /\ [Next]_vars => LStep
<1> SUFFICES ASSUME IInv, [Next]_vars PROVE LStep
  OBVIOUS
<1>1. CASE UNCHANGED vars
  BY <1>1, Invisible DEF vars
<1>2. CASE Next
  BY <1>2, SessionLStep, ApiLStep, JobLStep, ProcessLStep DEF Next, Chunk
<1> QED BY <1>1, <1>2

\* Transcription implements SessionLifecycle: whatever workers, recovery and
\* cleanup do, the user sees only the steps that specification allows.
THEOREM Refinement ==
  ASSUME Isolated
  PROVE  Spec => ImplementsLifecycle
BY InitLInit, NextLStep, Invariance, PTL
   DEF Spec, ImplementsLifecycle, Lifecycle!LSpec, LStep

\* A step of the life cycle takes a result away only by removing the session.
LEMMA ReadyStays ==
  ASSUME IInv, LStep, TypeOK', NEW s \in Sessions, status[s] = "transcribed"
  PROVE  status'[s] \in {"transcribed", "gone"}
<1> DEFINE v == [t \in Sessions |-> ViewOf(status[t])]
<1>1. v[s] = "ready" /\ v'[s] = ViewOf(status'[s])
  BY DEF ViewOf
<1>2. v'[s] \in {"ready", "gone"}
  BY <1>1 DEF LStep, Lifecycle!LNext, Lifecycle!lvars, Lifecycle!Open, Lifecycle!Submit,
     Lifecycle!Deliver, Lifecycle!Fail, Lifecycle!Retry, Lifecycle!Discard,
     Lifecycle!Lapse, Lifecycle!Purge, Lifecycle!Vanish, Lifecycle!Show
<1> QED BY <1>1, <1>2 DEF ViewOf, TypeOK, Status

\* A transcribed session stays transcribed until it is deleted.
THEOREM ResultIsFinal ==
  ASSUME Isolated
  PROVE  Spec => TranscribedIsFinal
<1>1. IInv /\ IInv' /\ [Next]_vars
        => [\A s \in Sessions :
              status[s] = "transcribed" => status'[s] \in {"transcribed", "gone"}]_vars
  BY NextLStep, ReadyStays DEF IInv
<1> QED BY <1>1, Invariance, PTL DEF Spec, TranscribedIsFinal

-----------------------------------------------------------------------------
(* No queued session without a job, as long as the API does not crash *)

\* What EnqueueIsFresh says of one session and, where k holds, QueuedHasJob.
FInv(s, k) ==
  /\ status[s] \in {"none", "created"} => ~Known(job[s])
  /\ \A c \in Callers :
       call[c][s] = "enqueue" => ~Known(job[s]) /\ status[s] \in {"queued", "gone"}
  /\ \A w \in Workers : status[s] = "queued" => run[w][s] \in {"idle", "begin"}
  /\ k /\ status[s] = "queued" => job[s].key \/ \E c \in Callers : call[c][s] = "enqueue"

\* EnqueueIsFresh and QueuedHasJob speak of one session at a time.
LEMMA FreshPointwise ==
  /\ EnqueueIsFresh <=> \A s \in Sessions : FInv(s, FALSE)
  /\ EnqueueIsFresh /\ QueuedHasJob <=> \A s \in Sessions : FInv(s, TRUE)
BY DEF EnqueueIsFresh, QueuedHasJob, FInv

\* A step that leaves a session alone keeps its part of them.
LEMMA FreshFrame ==
  ASSUME NEW t \in Sessions, NEW k \in BOOLEAN, FInv(t, k), Same(t)
  PROVE  FInv(t, k)'
BY DEF FInv, Same

\* Requests of one step, and time, keep an enqueue fresh and a queued session's job.
LEMMA SessionFInv ==
  ASSUME TypeOK, NEW s \in Sessions, NEW t \in Sessions, NEW k \in BOOLEAN, SInv(t), FInv(t, k),
         \/ CreateSession(s) \/ DeleteSession(s) \/ Chunk(s)
         \/ Expire(s) \/ ResultExpires(s)
  PROVE  FInv(t, k)'
<1> USE DEF TypeOK, rowVars
<1>1. CASE CreateSession(s)
  BY <1>1 DEF CreateSession, FInv
<1>2. CASE Chunk(s)
  BY <1>2 DEF Chunk, UploadCheck, UploadStore, UploadChunksEnd, FInv
<1>3. CASE DeleteSession(s)
  BY <1>3 DEF DeleteSession, Remove, Late, PutPhase, FInv
<1>4. CASE Expire(s)
  BY <1>4 DEF Expire, FInv
<1>5. CASE ResultExpires(s)
  <2>1. job'[t].key = job[t].key /\ (Known(job'[t]) => Known(job[t]))
    BY <1>5 DEF ResultExpires, ForgetResult, Job, Known
  <2>2. UNCHANGED <<status, call, run>>
    BY <1>5 DEF ResultExpires
  <2> QED BY <2>1, <2>2 DEF FInv
<1> QED BY <1>1, <1>2, <1>3, <1>4, <1>5

\* So do the requests of several steps,
LEMMA ApiFInv ==
  ASSUME Isolated, TypeOK, NEW s \in Sessions, NEW c \in Callers, ApiStep(c, s),
         NEW t \in Sessions, NEW k \in BOOLEAN, SInv(t), FInv(t, k)
  PROVE  FInv(t, k)'
<1> USE DEF TypeOK, rowVars, CallTo
<1>0. \A d \in Callers : d = c
  BY DEF Isolated
<1>1. CASE t # s
  BY <1>1, FreshFrame, ApiSame
<1>2. CASE t = s
  <2>0. k /\ status[s] = "queued" => job[s].key \/ call[c][s] = "enqueue"
    BY <1>0, <1>2 DEF FInv
  <2>1. CASE CompleteRead(c, s)
    BY <1>0, <1>2, <2>0, <2>1 DEF CompleteRead, FInv
  <2>2. CASE CompleteCommit(c, s)
    <3>1. \A w \in Workers : status[s] = "created" => run[w][s] = "idle"
      BY <1>2 DEF SInv, FInv, Running, Known
    <3> QED
      BY <1>0, <1>2, <2>0, <2>2, <3>1 DEF CompleteCommit, SInv, FInv
  <2>3. CASE EnqueueTranscription(c, s)
    BY <1>0, <1>2, <2>3 DEF EnqueueTranscription, Enqueue, Known, FInv
  <2>4. CASE UploadOpen(c, s)
    BY <1>0, <1>2, <2>4 DEF UploadOpen, FInv
  <2>5. CASE UploadStored(c, s)
    <3>1. \A w \in Workers : run[w][s] = "idle"
      BY <1>2, <2>5 DEF UploadStored, SInv, FInv, Running, Known
    <3> QED
      BY <1>0, <1>2, <2>5, <3>1 DEF UploadStored, SInv, FInv
  <2>6. CASE UploadEmpty(c, s)
    BY <1>0, <1>2, <2>6 DEF UploadEmpty, FInv, SInv
  <2>7. CASE UploadTooLarge(c, s)
    BY <1>0, <1>2, <2>7 DEF UploadTooLarge, Remove, Late, PutPhase, FInv
  <2>8. CASE CreateText(c, s)
    BY <1>0, <1>2, <2>8 DEF CreateText, FInv
  <2>9. CASE EnqueueTextReport(c, s)
    BY <1>0, <1>2, <2>0, <2>9 DEF EnqueueTextReport, FInv
  <2> QED
    BY <2>1, <2>2, <2>3, <2>4, <2>5, <2>6, <2>7, <2>8, <2>9 DEF ApiStep
<1> QED BY <1>1, <1>2

\* the steps of a job,
LEMMA JobFInv ==
  ASSUME TypeOK, NEW s \in Sessions, NEW w \in Workers,
         ClaimJob(w, s) \/ JobStep(w, s),
         NEW t \in Sessions, NEW k \in BOOLEAN, SInv(t), FInv(t, k)
  PROVE  FInv(t, k)'
<1> USE DEF TypeOK, rowVars, Step, Goto
<1>1. CASE t # s
  BY <1>1, FreshFrame, JobSame
<1>2. CASE t = s
  <2>0. Running(w, s) => job[s].key
    BY <1>2 DEF SInv
  <2>1. CASE ClaimJob(w, s)
    BY <1>2, <2>0, <2>1 DEF ClaimJob, Claim, Claimable, Job, FInv, SInv, Running, Known
  <2>2. CASE SkipJob(w, s)
    BY <1>2, <2>0, <2>2 DEF SkipJob, FInv, SInv, Running, Known
  <2>3. CASE BeginJob(w, s)
    BY <1>2, <2>0, <2>3 DEF BeginJob, FInv, SInv, Running, Known
  <2>4. CASE Resample(w, s)
    BY <1>2, <2>0, <2>4 DEF Resample, FInv, SInv, Running, Known
  <2>5. CASE ResampleNoAudio(w, s)
    BY <1>2, <2>0, <2>5 DEF ResampleNoAudio, FInv, SInv, Running, Known
  <2>6. CASE AcquireStt(w, s)
    BY <1>2, <2>0, <2>6 DEF AcquireStt, FInv, SInv, Running, Known
  <2>7. CASE SttDone(w, s)
    BY <1>2, <2>0, <2>7 DEF SttDone, FInv, SInv, Running, Known
  <2>8. CASE WorkFails(w, s)
    BY <1>2, <2>0, <2>8 DEF WorkFails, FInv, SInv, Running, Known
  <2>9. CASE RecordFailure(w, s)
    BY <1>2, <2>0, <2>9 DEF RecordFailure, FInv, SInv, Running, Known
  <2>10. CASE SaveGone(w, s)
    BY <1>2, <2>0, <2>10 DEF SaveGone, FInv, SInv, Running, Known
  <2>11. CASE Save(w, s)
    BY <1>2, <2>0, <2>11 DEF Save, FInv, SInv, Running, Known
  <2>12. CASE PlanReport(w, s)
    BY <1>2, <2>0, <2>12 DEF PlanReport, FInv, SInv, Running, Known
  <2>13. CASE EndJob(w, s)
    BY <1>2, <2>0, <2>13 DEF EndJob, Finish, Job, FInv, SInv, Running, Known
  <2>14. CASE RetryJob(w, s)
    BY <1>2, <2>0, <2>14 DEF RetryJob, Release, Job, FInv, SInv, Running, Known
  <2> QED
    BY <2>1, <2>2, <2>3, <2>4, <2>5, <2>6, <2>7, <2>8, <2>9, <2>10, <2>11,
    <2>12, <2>13, <2>14 DEF JobStep
<1> QED BY <1>1, <1>2

\* and those of workers and the cleanup.
LEMMA ProcessFInv ==
  ASSUME Isolated, TypeOK, NEW t \in Sessions, NEW k \in BOOLEAN, SInv(t), FInv(t, k),
         \/ \E w \in Workers : StartWorker(w) \/ StopWorker(w) \/ CrashWorker(w)
         \/ PurgeExpired
  PROVE  FInv(t, k)'
<1> USE DEF TypeOK, rowVars
<1>1. ASSUME NEW w \in Workers, StartWorker(w) PROVE FInv(t, k)'
  BY <1>1 DEF StartWorker, FInv
<1>2. ASSUME NEW w \in Workers, StopWorker(w) PROVE FInv(t, k)'
  <2>1. job'[t].key = job[t].key /\ (Known(job'[t]) => Known(job[t]))
    BY <1>2 DEF StopWorker, Release, Job, Known
  <2>2. UNCHANGED <<status, call>> /\ \A v \in Workers : run'[v][t] \in {run[v][t], "idle"}
    BY <1>2 DEF StopWorker, Halt
  <2> QED BY <2>1, <2>2 DEF FInv
<1>3. ASSUME NEW w \in Workers, CrashWorker(w) PROVE FInv(t, k)'
  BY <1>3 DEF CrashWorker, Halt, FInv
<1>4. CASE PurgeExpired
  BY <1>4 DEF PurgeExpired, Remove, Late, PutPhase, FInv
<1> QED BY <1>1, <1>2, <1>3, <1>4

\* So does every step but an API crash.
LEMMA StepFInv ==
  ASSUME Isolated, TypeOK, NEW k \in BOOLEAN,
         \A s \in Sessions : SInv(s) /\ FInv(s, k), [Next]_vars, ~ApiCrash
  PROVE  \A s \in Sessions : FInv(s, k)'
<1> TAKE t \in Sessions
<1>1. CASE UNCHANGED vars
  BY <1>1, FreshFrame DEF vars, Same
<1>2. CASE Next
  BY <1>2, SessionFInv, ApiFInv, JobFInv, ProcessFInv DEF Next, Chunk
<1> QED BY <1>1, <1>2

\* An API crash is counted, and the count stays.
LEMMA Counted ==
  ASSUME TypeOK, [Next]_vars, faults'.api = 0
  PROVE  faults.api = 0 /\ ~ApiCrash
<1> USE DEF TypeOK
<1>1. ~ApiCrash
  BY DEF ApiCrash
<1>2. CASE UNCHANGED vars
  BY <1>1, <1>2 DEF vars
<1>3. ASSUME NEW s \in Sessions,
             \/ CreateSession(s) \/ DeleteSession(s) \/ Chunk(s)
             \/ Expire(s) \/ ResultExpires(s)
      PROVE  UNCHANGED faults
  BY <1>3 DEF CreateSession, DeleteSession, Chunk, UploadCheck, UploadStore,
     UploadChunksEnd, Expire, ResultExpires
<1>4. ASSUME NEW c \in Callers, NEW s \in Sessions, ApiStep(c, s)
      PROVE  UNCHANGED faults
  BY <1>4 DEF ApiStep, CompleteRead, CompleteCommit, EnqueueTranscription, UploadOpen,
     UploadStored, UploadEmpty, UploadTooLarge, CreateText, EnqueueTextReport
<1>5. ASSUME NEW w \in Workers, NEW s \in Sessions, ClaimJob(w, s) \/ JobStep(w, s)
      PROVE  UNCHANGED faults
  BY <1>5 DEF ClaimJob, JobStep, SkipJob, BeginJob, Resample, ResampleNoAudio, AcquireStt,
     SttDone, WorkFails, RecordFailure, SaveGone, Save, PlanReport, EndJob, RetryJob
<1>6. ASSUME NEW w \in Workers, StartWorker(w) \/ StopWorker(w) \/ CrashWorker(w)
      PROVE  faults'.api = faults.api
  BY <1>6 DEF StartWorker, StopWorker, CrashWorker
<1>7. CASE PurgeExpired
  BY <1>1, <1>7 DEF PurgeExpired
<1> QED BY <1>1, <1>2, <1>3, <1>4, <1>5, <1>6, <1>7 DEF Next, Chunk

\* An API crash keeps enqueues fresh, and is counted.
LEMMA StepFresh ==
  ASSUME Isolated
  PROVE  IInv /\ EnqueueIsFresh /\ NoJobLost /\ [Next]_vars
           => EnqueueIsFresh' /\ NoJobLost'
<1> SUFFICES ASSUME IInv, EnqueueIsFresh, NoJobLost, [Next]_vars
             PROVE  EnqueueIsFresh' /\ NoJobLost'
  OBVIOUS
<1>1. TypeOK /\ \A s \in Sessions : SInv(s)
  BY Pointwise
<1>2. CASE ApiCrash
  <2>1. faults'.api # 0
    BY <1>1, <1>2, Counted
  <2>2. EnqueueIsFresh'
    BY <1>1, <1>2 DEF ApiCrash, EnqueueIsFresh, rowVars, TypeOK
  <2> QED BY <2>1, <2>2 DEF NoJobLost
<1>3. CASE ~ApiCrash
  <2>1. EnqueueIsFresh'
    <3>1. \A s \in Sessions : FInv(s, FALSE)
      BY FreshPointwise
    <3>2. \A s \in Sessions : FInv(s, FALSE)'
      BY <1>1, <1>3, <3>1, StepFInv
    <3> QED BY <3>2 DEF FInv, EnqueueIsFresh
  <2>2. ASSUME faults'.api = 0 PROVE QueuedHasJob'
    <3>1. \A s \in Sessions : FInv(s, TRUE)
      BY <1>1, <2>2, Counted, FreshPointwise DEF NoJobLost
    <3>2. \A s \in Sessions : FInv(s, TRUE)'
      BY <1>1, <1>3, <3>1, StepFInv
    <3> QED BY <3>2 DEF FInv, QueuedHasJob
  <2> QED BY <2>1, <2>2 DEF NoJobLost
<1> QED BY <1>2, <1>3

\* While the API does not crash a session shown as queued always has its job on
\* the queue, or is about to get it: no enqueue is swallowed by arq's
\* deduplication, whatever workers and recovery do.
THEOREM NoLostJob ==
  ASSUME Isolated
  PROVE  Spec => []NoJobLost
<1>1. Init => EnqueueIsFresh /\ NoJobLost
  BY DEF Init, EnqueueIsFresh, NoJobLost, QueuedHasJob, Known, NoJob
<1>2. IInv /\ EnqueueIsFresh /\ NoJobLost /\ [Next]_vars
        => EnqueueIsFresh' /\ NoJobLost'
  BY StepFresh
<1> QED BY <1>1, <1>2, Invariance, PTL DEF Spec

-----------------------------------------------------------------------------
(* No auto report without a job, as long as the API does not crash *)

\* What ReportHasJob says of one session, and why the job a run plans is the one
\* of the report it created.
PInv(s) ==
  /\ \A w \in Workers : run[w][s] = "plan" /\ reports[s] > 0 => own[w][s] = 1
  /\ reports[s] > 0 => \/ 1 \in planned[s]
                       \/ \E c \in Callers : call[c][s] = "report"
                       \/ \E w \in Workers : run[w][s] = "plan"
                       \/ \E w \in Workers : ~up[w]

\* A step that touches nothing PInv(t) speaks of.
SamePlan(t) ==
  /\ reports'[t] = reports[t] /\ planned'[t] = planned[t] /\ up' = up
  /\ \A c \in Callers : call'[c][t] = call[c][t]
  /\ \A w \in Workers : run'[w][t] = run[w][t] /\ own'[w][t] = own[w][t]

\* A step that leaves a session alone keeps the plan of its report.
LEMMA PlanFrame ==
  ASSUME NEW t \in Sessions, PInv(t), SamePlan(t)
  PROVE  PInv(t)'
BY DEF PInv, SamePlan

\* Requests of one step, and time, leave a planned report planned.
LEMMA SessionPInv ==
  ASSUME TypeOK, NEW s \in Sessions, NEW t \in Sessions, PInv(t),
         \/ CreateSession(s) \/ DeleteSession(s) \/ Chunk(s)
         \/ Expire(s) \/ ResultExpires(s)
  PROVE  PInv(t)'
<1> USE DEF TypeOK, rowVars
<1>1. CASE CreateSession(s)
  BY <1>1, PlanFrame DEF CreateSession, SamePlan
<1>2. CASE Chunk(s)
  BY <1>2, PlanFrame DEF Chunk, UploadCheck, UploadStore, UploadChunksEnd, SamePlan
<1>3. CASE DeleteSession(s)
  BY <1>3 DEF DeleteSession, Remove, Late, PutPhase, PInv
<1>4. CASE Expire(s)
  BY <1>4, PlanFrame DEF Expire, SamePlan
<1>5. CASE ResultExpires(s)
  BY <1>5, PlanFrame DEF ResultExpires, SamePlan
<1> QED BY <1>1, <1>2, <1>3, <1>4, <1>5

\* A request or a run that goes from one phase to another, neither of them the one
\* that is about to enqueue a report.
LEMMA PhasePInv ==
  ASSUME TypeOK, NEW s \in Sessions, NEW t \in Sessions, PInv(t),
         UNCHANGED <<reports, planned, up, own>>,
         \/ /\ UNCHANGED run
            /\ \E c \in Callers, to \in CallPhase : call[c][s] # "report" /\ CallTo(c, s, to)
         \/ /\ UNCHANGED call
            /\ \E w \in Workers, to \in RunPhase \ {"plan"} :
                 run[w][s] # "plan" /\ Goto(w, s, to)
  PROVE  PInv(t)'
<1>1. \A c \in Callers : call[c][t] = "report" => call'[c][t] = "report"
  <2>1. CASE UNCHANGED call
    BY <2>1
  <2>2. ASSUME NEW c \in Callers, NEW to, call[c][s] # "report",
               call' = [call EXCEPT ![c][s] = to]
        PROVE  \A d \in Callers : call[d][t] = "report" => call'[d][t] = "report"
    BY <2>2 DEF TypeOK
  <2> QED BY <2>1, <2>2 DEF CallTo
<1>2. \A w \in Workers : (run'[w][t] = "plan") <=> (run[w][t] = "plan")
  <2>1. CASE UNCHANGED run
    BY <2>1
  <2>2. ASSUME NEW w \in Workers, NEW to \in RunPhase \ {"plan"}, run[w][s] # "plan",
               run' = [run EXCEPT ![w][s] = to]
        PROVE  \A v \in Workers : (run'[v][t] = "plan") <=> (run[v][t] = "plan")
    BY <2>2 DEF TypeOK
  <2> QED BY <2>1, <2>2 DEF Goto
<1> QED BY <1>1, <1>2 DEF PInv

\* So do the requests of several steps,
LEMMA ApiPInv ==
  ASSUME TypeOK, NEW s \in Sessions, NEW c \in Callers, ApiStep(c, s),
         NEW t \in Sessions, SInv(s), SInv(t), PInv(t)
  PROVE  PInv(t)'
<1> USE DEF rowVars
<1>1. CASE CompleteRead(c, s)
  BY <1>1, PhasePInv DEF CompleteRead, CallPhase
<1>2. CASE CompleteCommit(c, s)
  BY <1>2, PhasePInv DEF CompleteCommit, CallPhase
<1>3. CASE EnqueueTranscription(c, s)
  BY <1>3, PhasePInv DEF EnqueueTranscription, CallPhase
<1>4. CASE UploadOpen(c, s)
  <2>1. UNCHANGED <<reports, planned, up, run, own>> /\ CallTo(c, s, "store")
    BY <1>4 DEF UploadOpen
  <2>2. \A d \in Callers : call'[d][t] = call[d][t] \/ t = s
    BY <2>1 DEF CallTo, TypeOK
  <2>3. CASE t # s
    BY <2>1, <2>2, <2>3 DEF PInv
  <2>4. CASE t = s
    <3>1. reports'[s] = 0
      BY <1>4, <2>1 DEF UploadOpen, TypeOK, SInv
    <3> QED BY <2>4, <3>1 DEF PInv
  <2> QED BY <2>3, <2>4
<1>5. CASE UploadStored(c, s)
  BY <1>5, PhasePInv DEF UploadStored, CallPhase
<1>6. CASE UploadEmpty(c, s)
  BY <1>6, PhasePInv DEF UploadEmpty, CallPhase
<1>7. CASE UploadTooLarge(c, s)
  BY <1>7 DEF UploadTooLarge, Remove, Late, PutPhase, CallTo, TypeOK, PInv
<1>8. CASE CreateText(c, s)
  <2>1. CASE t # s
    BY <1>8, <2>1, PlanFrame DEF CreateText, CallTo, TypeOK, SamePlan
  <2>2. CASE t = s
    <3>1. \A w \in Workers : run[w][s] = "idle"
      BY <1>8 DEF CreateText, SInv, Running
    <3> QED BY <1>8, <2>2, <3>1 DEF CreateText, CallTo, TypeOK, PInv
  <2> QED BY <2>1, <2>2
<1>9. CASE EnqueueTextReport(c, s)
  <2>1. CASE t # s
    BY <1>9, <2>1, PlanFrame DEF EnqueueTextReport, CallTo, TypeOK, SamePlan
  <2>2. CASE t = s
    <3>1. reports[s] > 0 => status[s] # "gone"
      BY DEF SInv
    <3>2. reports[s] > 0 => 1 \in planned'[s]
      BY <1>9, <3>1 DEF EnqueueTextReport, TypeOK
    <3>3. UNCHANGED <<reports, run, own>>
      BY <1>9 DEF EnqueueTextReport
    <3> QED BY <2>2, <3>2, <3>3 DEF PInv
  <2> QED BY <2>1, <2>2
<1> QED BY <1>1, <1>2, <1>3, <1>4, <1>5, <1>6, <1>7, <1>8, <1>9 DEF ApiStep

\* the steps of a job,
LEMMA JobPInv ==
  ASSUME TypeOK, NEW s \in Sessions, NEW w \in Workers,
         ClaimJob(w, s) \/ JobStep(w, s),
         NEW t \in Sessions, SInv(t), PInv(t)
  PROVE  PInv(t)'
<1> USE DEF rowVars, Step
<1>1. CASE ClaimJob(w, s)
  BY <1>1, PhasePInv DEF ClaimJob, RunPhase
<1>2. CASE SkipJob(w, s)
  BY <1>2, PhasePInv DEF SkipJob, RunPhase
<1>3. CASE BeginJob(w, s)
  BY <1>3, PhasePInv DEF BeginJob, RunPhase
<1>4. CASE Resample(w, s)
  BY <1>4, PhasePInv DEF Resample, RunPhase
<1>5. CASE ResampleNoAudio(w, s)
  BY <1>5, PhasePInv DEF ResampleNoAudio, RunPhase
<1>6. CASE AcquireStt(w, s)
  BY <1>6, PhasePInv DEF AcquireStt, RunPhase
<1>7. CASE SttDone(w, s)
  BY <1>7, PhasePInv DEF SttDone, RunPhase
<1>8. CASE WorkFails(w, s)
  BY <1>8, PhasePInv DEF WorkFails, RunPhase
<1>9. CASE RecordFailure(w, s)
  BY <1>9, PhasePInv DEF RecordFailure, RunPhase
<1>10. CASE SaveGone(w, s)
  BY <1>10, PhasePInv DEF SaveGone, RunPhase
<1>11. CASE EndJob(w, s)
  BY <1>11, PhasePInv DEF EndJob, RunPhase
<1>12. CASE RetryJob(w, s)
  BY <1>12, PhasePInv DEF RetryJob, RunPhase
<1>13. CASE Save(w, s)
  <2>1. CASE ~wants[s]
    BY <1>13, <2>1, PhasePInv DEF Save, RunPhase
  <2>2. CASE wants[s] /\ t # s
    <3>1. /\ reports' = [reports EXCEPT ![s] = @ + 1]
          /\ own' = [own EXCEPT ![w][s] = reports[s] + 1]
          /\ run' = [run EXCEPT ![w][s] = "plan"]
          /\ UNCHANGED <<planned, call, up>>
      BY <1>13, <2>2 DEF Save, Goto
    <3>2. SamePlan(t)
      BY <2>2, <3>1 DEF TypeOK, SamePlan
    <3> QED BY <3>2, PlanFrame
  <2>3. CASE wants[s] /\ t = s
    <3>1. reports[s] = 0 /\ \A v \in Workers : v # w => run[v][s] = "idle"
      BY <1>13, <2>3 DEF Save, SInv, Running, TypeOK
    <3>2. /\ own' = [own EXCEPT ![w][s] = reports[s] + 1]
          /\ run' = [run EXCEPT ![w][s] = "plan"]
      BY <1>13, <2>3 DEF Save, Goto
    <3>3. own'[w][s] = 1 /\ run'[w][s] = "plan"
      BY <3>1, <3>2 DEF TypeOK
    <3>4. \A v \in Workers : v # w => run'[v][s] = "idle"
      BY <3>1, <3>2 DEF TypeOK
    <3> QED BY <2>3, <3>3, <3>4 DEF PInv
  <2> QED BY <2>1, <2>2, <2>3 DEF TypeOK
<1>14. CASE PlanReport(w, s)
  <2>1. CASE t # s
    BY <1>14, <2>1, PlanFrame DEF PlanReport, Goto, TypeOK, SamePlan
  <2>2. CASE t = s
    <3>1. reports[s] > 0 => status[s] # "gone" /\ own[w][s] = 1
      BY <1>14, <2>2 DEF PlanReport, SInv, PInv
    <3>2. reports[s] > 0 => 1 \in planned'[s]
      BY <1>14, <3>1 DEF PlanReport, TypeOK
    <3>3. reports' = reports /\ own' = own
      BY <1>14 DEF PlanReport
    <3>4. \A v \in Workers : run'[v][s] = "plan" => run[v][s] = "plan"
      <4>1. run[w][s] = "plan" /\ run' = [run EXCEPT ![w][s] = "return"]
        BY <1>14 DEF PlanReport, Goto
      <4> QED BY <4>1 DEF TypeOK
    <3> QED BY <2>2, <3>2, <3>3, <3>4 DEF PInv
  <2> QED BY <2>1, <2>2
<1> QED
  BY <1>1, <1>2, <1>3, <1>4, <1>5, <1>6, <1>7, <1>8, <1>9, <1>10, <1>11, <1>12,
  <1>13, <1>14 DEF JobStep

\* and those of workers and the cleanup.
LEMMA ProcessPInv ==
  ASSUME TypeOK, NEW t \in Sessions, SInv(t), PInv(t),
         \/ \E w \in Workers : StartWorker(w) \/ StopWorker(w) \/ CrashWorker(w)
         \/ PurgeExpired
  PROVE  PInv(t)'
<1> USE DEF TypeOK, rowVars
<1>1. ASSUME NEW w \in Workers, StartWorker(w) PROVE PInv(t)'
  <2>1. reports'[t] = reports[t] /\ planned'[t] = 1..reports[t] /\ run' = run /\ own' = own
    BY <1>1 DEF StartWorker
  <2>2. reports[t] > 0 => 1 \in planned'[t]
    BY <2>1
  <2> QED BY <2>1, <2>2 DEF PInv
<1>2. ASSUME NEW w \in Workers, Halt(w) PROVE PInv(t)'
  <2>1. ~up'[w] /\ UNCHANGED <<reports, own>>
    BY <1>2 DEF Halt
  <2>2. \A v \in Workers : run'[v][t] \in {run[v][t], "idle"}
    BY <1>2 DEF Halt
  <2> QED BY <2>1, <2>2 DEF PInv
<1>3. CASE PurgeExpired
  BY <1>3 DEF PurgeExpired, Remove, Late, PutPhase, PInv
<1> QED BY <1>1, <1>2, <1>3 DEF StopWorker, CrashWorker

\* So does every step but an API crash.
LEMMA StepPInv ==
  ASSUME TypeOK, \A s \in Sessions : SInv(s) /\ PInv(s), [Next]_vars, ~ApiCrash
  PROVE  \A s \in Sessions : PInv(s)'
<1> TAKE t \in Sessions
<1>1. CASE UNCHANGED vars
  BY <1>1, PlanFrame DEF vars, SamePlan
<1>2. CASE Next
  BY <1>2, SessionPInv, ApiPInv, JobPInv, ProcessPInv DEF Next, Chunk
<1> QED BY <1>1, <1>2

\* While the API does not crash, no auto report is left without its job, or without
\* a request, a run or a recovery that is about to enqueue it.
THEOREM NoLostReport ==
  ASSUME Isolated
  PROVE  Spec => []NoReportLost
<1> DEFINE P == faults.api = 0 => \A s \in Sessions : PInv(s)
<1>1. Init => P
  BY DEF Init, PInv
<1>2. IInv /\ P /\ [Next]_vars => P'
  <2> SUFFICES ASSUME IInv, P, [Next]_vars, faults'.api = 0
               PROVE  \A s \in Sessions : PInv(s)'
    OBVIOUS
  <2>1. TypeOK /\ \A s \in Sessions : SInv(s)
    BY Pointwise
  <2>2. faults.api = 0 /\ ~ApiCrash
    BY <2>1, Counted
  <2> QED BY <2>1, <2>2, StepPInv
<1>3. P => NoReportLost
  BY DEF PInv, NoReportLost, ReportHasJob
<1> QED BY <1>1, <1>2, <1>3, Invariance, PTL DEF Spec

=============================================================================
