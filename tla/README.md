# A verification project for the Leidse Transcriptietool

TLA+ specifications of the transcription service in `src/`, checked with TLC on
small instances and, where it matters most, proved with TLAPS for every
instance. Comments in the modules name the code they translate;
`PROJECT.json` maps each definition to its lines.

## 1. The system

A browser page records a meeting (or picks a file or a text) and uploads it; an
API keeps sessions in a database and audio on a volume; workers take jobs from
a Redis queue (arq) to transcribe the audio, recognise speakers and write
reports with an LLM; a cleanup loop removes what has expired.

| Component | Code | State | Operations |
|---|---|---|---|
| Recorder page, upload client | `frontend/js/app.js`, `api.js`, `recorder.js` | `sessionId`, `uploadChain`, `chunkErr`, buttons | start, chunk, pause, stop, discard; PUT with retries |
| Session API | `backend/app/api/routes.py` | rows `sessions`, `diarizations`, `reports` | create, chunk, complete, upload, text, status, events, result, delete, rediarize |
| Report API | `routes.py` | rows `reports` | create, read, edit, delete |
| Following a session | `app.js` (`openSession`, `loadResult`, `pollDiarization`), `routes.py` (`session_events`, `get_status`) | event stream, polls of status and speakers, the screen | open, fall back to polling, show the result, have speakers recognised anew |
| Storage | `backend/app/storage.py` | directory per session: `raw`, `audio.wav` | append, remove |
| Job queue | `backend/app/queue.py`, arq | `arq:job`, `in-progress`, `result` per job id | enqueue (ignored while the id is known), claim, finish, release |
| STT job | `backend/worker/worker.py` | `status`, `expires_at`, transcript, auto report row | `transcribe_session`, semaphore, recovery at start |
| Report job | `worker.py` | `reports.status`, content | `generate_report`, semaphore, recovery at start |
| Diarize worker | `backend/worker/diarize_worker.py`, `app/diarize/run.py` | `diarizations.status`, payload | `diarize_session`, hand-over to the report, recovery |
| Speaker merge | `app/diarize/merge.py` | none | pure functions over words and turns |
| Cleanup | `backend/cleanup/cleanup.py` | none | `purge_expired` in a loop |
| Retention | `app/workdays.py` | none | pure function |
| Prompts, hotwords, statistics | `prompts.py`, `worker.py`, `stats.py` | none; append-only events | pure functions, reports for display |
| STT, diarize and LLM backends | `worker/stt/*`, `app/diarize/*_backend.py`, `worker/llm.py` | models | inference |

How they interact:

* The page talks to the API by HTTP. Chunks go one after the other through a
  promise chain; a call may be lost before or after the server handled it.
* The API commits a row first and enqueues the job afterwards; neither undoes
  the other.
* Every job id is derived from a row, and arq drops an enqueue whose id it still
  knows. Recovery at a worker's start deletes the keys of a job and enqueues anew.
* A job reads its row, works for minutes without holding a transaction, and writes
  at the end: in between the session may be deleted, purged, or be taken by another
  run. What a job finds in each transaction decides what it does.
* `transcribe_session` creates the auto report row and enqueues `generate_report`,
  or, with diarization on, leaves that to `diarize_session`.

What makes it hard: the awaits between a check and the write that relies on it;
crashes between a commit and an enqueue; two workers of which one recovers the
work of the other; retries of calls that were served; values of one recording
seen by the callbacks of another; rows nobody looks at any more. Section 7 and
`hazards` in `PROJECT.json` list these by line.

What correctness means per component:

* *Sessions and STT job*: a result appears once and stays until it is removed; an
  expiry date exactly when there is a result; whatever is submitted gets settled; a
  report that was asked for is made once.
* *Upload*: a completed session holds the recording, all of it, once, in order, and
  nothing else; what the user discards is gone; a recording is never lost.
* *Queue*: a queued row has a job; a job runs once at a time.
* *Reports*: a report ends; an edit is not undone; labels are there when speaker
  recognition ended before.
* *Diarization*: a request for speakers ends; the report follows whatever came of it.
* *Cleanup and storage*: everything expires; no file without a row, but for a chunk
  already past its check.
* *Following a session*: the screen shows the session whose code is on it, never goes
  back, and ends with the result and the speakers asked for last.
* *Merge, workdays, hotwords*: the rules their docstrings state.

## 2. The modules

| Module | What it is |
|---|---|
| `ArqQueue` | the keys arq keeps about one job id, and what the calls of this repository do to them (external, except the recovery's reset) |
| `Transcription` | sessions, the STT job, workers, API requests, cleanup; composes `ArqQueue` (EXTENDS) |
| `SessionLifecycle` | the abstract specification: what a user sees of a session |
| `MCTranscription` | instances of `Transcription` for TLC |
| `Transcription_proofs` | theorems about `Transcription`, and that it implements `SessionLifecycle` |
| `Upload` | recorder page, chunk uploads, `upload_chunk`, complete and discard |
| `Upload_proofs` | theorems about `Upload`, and that it implements `SessionLifecycle` |
| `Reports` | the report rows of a session, the job `generate_report`, its recovery, edits and deletes; composes `ArqQueue` (EXTENDS) |
| `ReportLifecycle` | the abstract specification: what a user sees of a report |
| `Reports_proofs` | theorems about `Reports`, and that it implements `ReportLifecycle` |
| `Pipeline` | speaker recognition switched on: `Reports` (EXTENDS) composed with the diarizations and the diarize worker |
| `Pipeline_proofs` | theorems about `Pipeline`, on top of `Reports_proofs`, and that it implements `ReportLifecycle` |
| `StatusStream`, `StatusStream_proofs` | the status page: event stream, polls, result and speakers of the sessions opened one after the other; theorems about it |
| `SpeakerMerge`, `SpeakerMerge_proofs` | who said what: the algorithm of `merge.py`; theorems about its loop |
| `Workdays` | the retention period |
| `Hotwords` | which glossary terms go to Whisper |
| `Rules_proofs` | theorems about `Workdays` and `Hotwords` |
| `FoldTheorems` | lemmas for the proofs about rules: induction, least and largest elements, insertion, folds |
| `MCUpload`, `MCReports`, `MCPipeline`, `MCStatusStream`, `MCRules` | instances for TLC; `MCStatusStream` adds bounds to the next-state relation; `MCRules` runs the three modules of rules side by side on their inputs |

Definitions whose comment starts with "Mutant:" are no part of a model. Each is a
variant of the definition below it with a bug one could make in that code, and is
there to show that a property notices.

### 2.1 Transcription

State and code: `status`, `expires`, `wants`, `reports` are columns and rows of the
database (`wants` is `auto_report` asking for kinds or a prompt, `reports` the number
of auto report rows); `files` is the session's directory; `put` says
whether a chunk of it is past its check, and whether the session has gone since (`late`); `job` is the arq job
`stt:<id>`; `call` is where the requests of the API are, `run` and `own` where the
coroutines of the workers are; `planned` says which auto reports had their job put on
the queue; `faults` counts what the bounds limit.

A step is what one process does between two points where others can be seen: one
transaction, one Redis call, one call of ffmpeg or a backend. `upload_chunk` is split at
its `await request.body()` into `UploadCheck` and `UploadStore` (`UploadChunksEnd`: no chunk
is left past its check); `complete_upload` is
split into read, commit and enqueue; `upload_file` into the row, the body and the
enqueue; `transcribe_session` into `BeginJob`/`SkipJob` (first transaction),
`Resample`, `AcquireStt`, `SttDone`, `RecordFailure` (the except blocks),
`Save`/`SaveGone` (last transaction), `PlanReport` (enqueue after the commit) and
`EndJob`. `StartWorker` is the startup hook with both recoveries; it is one step,
since arq takes jobs only after it. `StopWorker` is an orderly shutdown (arq cancels
the coroutines and keeps their jobs), `CrashWorker` leaves the in-progress keys.

Abstractions, and why they are sound for the properties:

* `DIARIZE_BACKEND=none`, the default (`config.py:96`); the diarization branch of
  `transcribe_session` is in module `Pipeline`.
* Deleting is one step, files and row; a chunk whose check comes between the two is to the
  model one that was checked before.
  A chunk that was past its check by then may be stored after it (`put` is `late` from the
  deletion on), which makes the directory anew; that is the exception of
  `NoFilesWithoutRow`, and the run `UploadOrphan` shows it to happen. The removal of
  a directory is itself one step: an ffmpeg that creates its output while the
  directory is being emptied is not modelled. Which chunk it is, its size and its retries are
  the subject of `Upload`.
* `purge_expired` is one transaction, so one step.
* `RetriesErrors` says whether the queue tries a job again that raised. The source
  counts on it (`worker.py:174`, `max_tries`); whether arq does is its own matter, so the
  safety runs allow both outcomes (with TRUE, `EndJob` and `RetryJob` are both enabled
  after a failure), and the liveness runs take FALSE.
* `max_tries = 3` is not counted. `MaxStops = 1` keeps interrupted jobs within it; a job
  that raises again and again leaves the same row each time.
* arq's day-long limits (`job_timeout`, expiry of the in-progress key) do not pass.
* Dates: `expires` is NULL, in the future, or past.
* Resampling blocks the worker's event loop; the model lets other jobs of the same
  worker go on meanwhile, which allows more interleavings and no fewer.

### 2.2 SessionLifecycle and the refinement

`open -> busy -> ready | failed`, `failed -> busy` (a repeated job), and `gone` from
anywhere; the expiry date is set by the step that shows the result, and only ready
sessions are purged. `Transcription` maps to it by `view <- ViewOf(status[s])`,
`expiry <- expires`: workers, queue, requests and files are hidden.
`ImplementsLifecycle` says that every step of the one is a step of the other or none.
What must happen in the end is stated of `Transcription` itself, where the exceptions
can be named: `QueuedIsServed`, `TranscribingEnds`, `ResultsExpire`.

### 2.3 Upload

State and code: `sid`, `chunkErr`, `chain` are `sessionId`, `chunkErr` and
`uploadChain` of `setupRecorder`; `tries` and `target` the loop variable and the argument
of `uploadChunk` for the head of a chain; `page` what the recorder card is doing; `saved`
and `discarded` what became of each recording; `reqs` the PUT requests in the
network and at the server, each with its phase (`sent`, row read: `body`, chunk stored:
`commit`, then the answer); `row` and `raw` the session's status and the chunks in its
raw file. A request the page has given up goes on at the server (`AnswersLost`).

A new recording of the same page gets a new session, while the chain of a
discarded one runs on with the page's variables: this is in the code
(`app.js:556-560`) and kept as it is. A chunk has size one. Pausing, audio sources and
levels do not touch this state. After a recording was sent the page is loaded anew
before the next one, which is what its buttons require.

`Upload` maps to `SessionLifecycle` too, by `view <- ViewOf(row[s])` with no expiry date:
the page, its retries and the calls it gives up open a session once, complete it once and
while it is open, and remove it only then. That is what `Transcription` takes its clients
to do, so that the two models meet in the same abstract session.

### 2.4 Reports and ReportLifecycle

State and code: `sess` is whether the one session has its transcript, has an empty one
(`silent`) or is gone,
`rstatus` and `content` are columns of `reports`, `job` is the arq job `report:<id>`,
`asked` the request (or job) between its commit and its enqueue, `run` where each worker is
in `generate_report`. Several reports of one session meet in the LLM semaphore, in the
removal of the session and in the recovery of all reports at once; reports of different
sessions meet in less.

`generate_report` looks at its row before it waits for the semaphore (`WaitForLlm`) and
again inside it (`BeginReport`). `NoTranscript` is the return of both looks for a transcript
that is empty: `create_report` refuses such a session, but `transcribe_session` commits the
auto report together with whatever was heard (`GetTranscript`). `SkipReport` and `MissReport` are the returns for a finished
and a removed row, `WriteReport` and `FailReport` the two ends of the LLM call. A row that
goes between the read of a transaction and its commit makes that commit fail, hence the two
outcomes of `MissReport`. `StartWorker` is `_recover_stuck_reports`, with both the QUEUED
and the RUNNING rows. The text of a report is nothing, as written, or edited.

`ReportLifecycle` is what the reader of a report sees: being made, ready, edited, failed,
perhaps being made again, gone. `Reports` maps to it by `Shown`, from `rstatus` and
`content`.

### 2.5 Pipeline

With `DIARIZE_BACKEND=pyannote` three parties hand a session on: `transcribe_session`
(`Transcribe`, `HandOver`) attaches the auto report to the waiting diarization and enqueues
that alone; `diarize_session` (`BeginDiarize`, `EndDiarize`, `HandToReport`) enqueues the
report when it is over; `generate_report` reads the newest finished diarization when it
begins (`PBeginReport`, `labels`). `rediarize` adds rows at any time. The diarize worker is
a process with its own queue and its own recovery, which takes RUNNING rows only
(`StartDiarizer`). An error behind the try block of `run_diarization` is `DiarizeRaises`.
The steps of `Reports` are reused as they are; those that touch the new variables are
redefined with a P in front. Which of several finished diarizations is the newest is not
told apart, and each one gives labels: its payload has segments because there is a transcript
with word times, which needs `STT_WORD_TIMESTAMPS` to be on, as it is by default
(`config.py:44`, `worker.py:185`). An empty transcript ends the report as in `Reports`
(`NoTranscript`).

### 2.6 The rules: SpeakerMerge, Workdays, Hotwords

Each is a small state machine, one step per pass of the loop in the code, over inputs that
are constants.

`SpeakerMerge`: `Coalesce`, `SpeakerOf`, `Fill` and `Runs` are the helpers of `merge.py` of
the same purpose; `Shorten` is one pass of `_apply_min_segment`; `StableLabel`, `Stretches`
and `Clip` work on the result. A word gets the speaker of the single *turn* that overlaps it
most (`merge.py:62-65`), which is not always the *speaker* with the largest overlap of
rule 1 of the docstring (`merge.py:9`) when a speaker has several turns within a word; the
module follows the code. `RunsShrink` is the reason why the loop ends.

`Workdays`: a day is a number counted from a Monday. `Hotwords`: a term is its spelling, its
lower case, its capitals, whether it has a space, and its length.

### 2.7 StatusStream

A call of `openSession` leaves callbacks behind, here a *follower* `g`: its stream (`link`,
`serving`, `pipe`), its poll (`poll`, `answer`) and the calls and polls about its reports
(`watch`). Its first terminal status starts a *chain* of requests for the result (`fetch`):
`finishWhenReady` (`FindResult`), `loadResult` (`FillScreen`) and, as long as speakers are
being recognised, `pollDiarization` (`TimerFires`, `AskSpeakers`), which calls `loadResult`
again when they are there. The button for a new recognition starts a chain of its own
(`Redo`, `RedoStarts`); `whose` says which opening a chain belongs to. `timer` is
`_diarPoll`, which all chains share: a chain that begins to poll clears the timer set
last, whosever it is, and a tick that has fired cannot be cleared. `diar` is the newest
diarization row of a session and whether it is over.

The next `openSession` closes the stream of the one before and nothing else, so
followers and chains of earlier openings may still be at work; the screen (`text`,
`area`, `list`) is one for all. What is written to it carries who wrote it, and `area` also
the recognition its speakers come from. `under` collects the openings that had something
under way when the next one came (`UnderWay`).

A status is busy, transcribed, failed or gone, with a version that counts its changes; how it
changes is left to `Transcription`, so here it changes freely within what
`SessionLifecycle` allows. A request and its answer are two steps for the poll of the status,
where a change in between matters, and one for the result. That the redo button is disabled
after its use is left out, which allows more. Reports are one flag per opening: one or
several may be polled for, and an answer redraws the list there is (`layoutReports`) or
changes nothing.

## 3. What is checked

All runs set `CHECK_DEADLOCK FALSE`: the sets of session tokens, recordings, reports and
inputs are finite, so a run legitimately comes to a stop when they are used up. What must
not stop is stated as liveness.

| Run | Question |
|---|---|
| `TranscriptionSafety` | Two workers, two sessions; chunks between check and append; a stop, a crash and an API crash: expiry, one report, exclusive runs, files, no lost job or report, finality, the refinement and the inductive invariant |
| `TranscriptionLiveness` | One worker, a stop and a crash: a queued session is served, a begun transcription ends, results are removed |
| `UploadTwo` | Two recordings, a failing call that may have been served, a size limit in reach: nothing is missing from a completed session, nothing is lost, the limit holds |
| `UploadExact` | Failing calls were not served: the session is exactly the recording, it is frozen once completed, and stop ends |
| `ReportsSafety` | Two reports, two workers; a transcript that may be empty; a stop, a crash and an API crash: one writer per report, an edit is never overwritten, no report is left that nobody will write, the refinement and the inductive invariant |
| `Pipeline` | Base and diarize worker, two diarizations, one fault of any process: the report gets its labels, the chain of hand-overs holds but for the named faults, reports and diarizations end |
| `Rules` | All inputs of `MCRules`: the loop of the merge shrinks, long runs keep their speaker, names follow the order of speaking, a clip is one voice; the retention period is exact; hotwords fit, and one is left out only when less than two characters of the limit would be left after it, or for shorter ones before it |
| `StatusStream` | Two openings of one session or of two, one with speakers and one with reports, and a fault or a new recognition: the screen is the session's own, never goes back, says "not found" only when it is so, and shows the result and the speakers asked for last in the end |

Runs that end in a counterexample, each a disagreement between the code and what the
repository says of it:

| Run | What happens | What is said |
|---|---|---|
| `TranscriptionOverlap` | with two workers, the start of one re-enqueues the session the other is transcribing; both save, two auto reports | `worker.py:83` "Idempotent: al klaar? niets doen."; `README.md:321` `--scale worker=3` |
| `TranscriptionKept` | a failed session is never purged | `README.md:72` "alles wordt automatisch verwijderd" |
| `UploadForeign` | chunks of a discarded recording arrive in the next session | `app.js:620` "wordt niet verstuurd en direct verwijderd" |
| `UploadOrphan` | a chunk stored during the delete stays without a row | `routes.py:732` "bestanden + DB-rij" |

Type invariants. Those of `Transcription` and `Reports` are conjuncts of the `IInv` of
their runs. The others (`PTypeOK`, `StreamTypeOK`, the `TypeOK` of `Upload`) are no
property of a run; all of them are proved, each as the first theorem of its module or as
part of its invariant. `MergeTypeOK` is a definition to read `SpeakerMerge` by.

### Properties with a condition

Some properties are true of this code only up to a fault, which they name. Without the
condition each is false:

* `NoJobLost`, `NoReportLost`, `NoReportStuck`: no API crash. `QueuedHasJob`, the first
  without the condition, fails as soon as the API may go down between commit and enqueue
  (`routes.py:403`).
* `EditIsKept`, `OneRunPerReport` (and the same of sessions): no worker starts while another
  one has a job, `StartsOverlap = FALSE`. With TRUE the recovery of reports does what
  `TranscriptionOverlap` shows for sessions (`worker.py:404`).
* `ExactlyRecorded`, `CompletedIsFrozen`: a call that failed was not served. With
  `AnswersLost = TRUE` a chunk whose answer was lost is stored twice, since `append_chunk`
  appends whatever arrives. And no chunk of a discarded recording has come into the
  session (`OwnAudio`), which is what `UploadForeign` shows to happen.
* `LabelsKept`: base workers are not stopped or restarted and the diarize worker is not shut
  down (`Quiet`). A restart enqueues the report that waits for its diarization
  (`worker.py:404`). Its theorem also assumes one worker of each kind (`OneWorkerEach`), as
  in `docker-compose.yml`: a second base worker that starts later takes the waiting report
  for a stuck one and it is written without labels, and a second diarize worker that
  starts sets a running diarization back to QUEUED.
* `ChainUnbroken`, `PReportEnds`: no API or diarize worker crash, no error behind the try
  block of `run_diarization`. Each of the three leaves a report without a job until a base
  worker starts (`diarize_worker.py:52`, `run.py:69`).
* `DiarizationEnds`: at most one stop or crash of the diarize worker. With a second one before
  it has set the row to RUNNING again nobody recovers it (`diarize_worker.py:66`).
* `NoFilesWithoutRow`: no chunk was past its check when the row went (`routes.py:359-369`).
  `UploadOrphan` is the counterexample without the condition.
* `OwnScreen`: no earlier opening had anything under way: no poll of the status
  (`app.js:734`), of the speakers (`app.js:1010`) or of a report (`app.js:1220`), and no call for
  the result, a new recognition or a report. Such a one goes on and may put its
  session's transcript under the code of the next.
* `LeftOutForLength` speaks of the room the code takes into account: it reserves a separator
  behind the last term too (`worker.py:67`), so that a term may be left out that would just
  fit. With a limit of 19, `APV`, `GGD` and `bijstand` give `APV, GGD`, although
  the three joined are 18 characters long.
* `ClipIsOneVoice`: its theorem assumes that no word ends before it begins and that words
  with times follow each other (`InOrder`), which is how Whisper returns them and how the
  inputs of `MCRules` are. With words that overlap a clip holds two voices.
* `LostMeansGone`, `ResultIsShown`, `SpeakersAreShown`: no failed call, since one failed poll
  ends the following for good (`app.js:740`, `app.js:1014`); and nothing of an earlier opening
  of another session under way, which may write to the screen or clear the shared timer.

### Bounds

* Two sessions: what concerns one session is independent of the others but for the
  semaphore, the purge of several sessions in one transaction, and the recovery of
  several jobs; two show each of these. The violation runs need one. The same goes for the
  two reports of `ReportsSafety`.
* One or two workers; `SttConcurrency = 1`, `LlmConcurrency = 1` and
  `DiarizeConcurrency = 1`, so that the semaphores are contended.
* `MaxStops`, `MaxCrashes`, `MaxApiCrashes`: one of each gives a fault during a run that
  was itself started by recovery. Every interleaving of them with every step is explored.
* `Pipeline`: one report, one base and one diarize worker, two diarizations (one may carry the
  report, the other comes from `rediarize` before, during or after it). `MaxFaults = 1` bounds
  the faults of all processes together: each kind of fault occurs at each step, and one
  is what `DiarizationEnds` allows.
* `Callers` are requests in flight *per session*: one is what the page makes. With two,
  `ExpiryMatchesStatus` fails: of two `complete` requests that both read CREATED the slower
  one commits QUEUED over TRANSCRIBED (`routes.py:396-403`), which no client of the
  repository does. The hazard is listed, the theorems assume one (`Isolated`).
* Upload: two recordings of two chunks, the second recording with chunks of the first still
  on their way; two attempts (instead of three) still give a retry and a give-up. Two
  failing calls in `UploadExact` let a whole chunk fail; in `UploadTwo` one lets a chunk be stored twice, and chunks are
  also given up by being refused (409, 413). `MaxBytes` lies below what a recording with a
  repeated chunk stores. These numbers are constants of the module.
* `MaxPuts` bounds the sessions with a chunk past its check: both in the safety run, one in
  the liveness run, where chunks only matter to what `complete` finds.
* `StatusStream`: two openings, of the same session or of one each, are the smallest case in
  which callbacks of one meet the screen of the next. `MaxFaults = 1` is shared by broken
  streams, failed calls and repeated jobs. One session has speakers and the other
  reports (`Diarized`, `Reporting`), so that each kind of poller meets the next screen.
  `MaxRedos = 1` gives two recognitions polled for at once, by two chains of one opening or
  of two. `MCStatusStream` bounds the run further (`MCStreamSpec`): a fault or a new
  recognition, not both; no opening of *another* session while something is under way, since
  `OwnScreen`, `LostMeansGone`, `ResultIsShown` and `SpeakersAreShown` except what follows, and
  `SeenForward` is about one follower at a time (openings of the *same* session with polls and
  calls under way are all there); and only the session on the screen changes, since nothing
  looks at the others, and one that has changed before it is opened is met by opening the
  same one again. The theorems are about `StreamSpec`, without these bounds.
* `Rules`: four words and four turns of three speakers give overlapping and adjacent turns,
  a pause, a word without times, and short runs at the beginning, in the middle and at the
  end, next to each other and alone; times are in quarters of a second. `Letters = 2` makes
  names of two letters from the third speaker on. Starts on every day of a week, up to eight
  working days, every set of holidays in six days with a weekend. Glossaries of four lines out
  of seven that differ in case, capitals, spaces and length, and a limit that two or
  three of them reach.
* Symmetry (sessions, workers, callers are interchangeable) is used in `TranscriptionSafety`
  only; the runs with liveness do without.

### Fairness

`Transcription`: requests and jobs run on (weak fairness of their steps together, so
that which of the outcomes occurs is open); a worker takes its jobs; `asyncio.Semaphore`
serves waiters in turn, hence strong fairness of `AcquireStt`; docker restarts a
container (`restart: unless-stopped`); time passes and the cleanup loop goes on. No
fairness for users, faults, or the expiry of arq results.

`Upload`: the page's code runs on and a request that is not lost is answered. No
fairness for the user or for the network's failures.

`Pipeline` (`PFairness`): requests and hand-overs run on, workers of both kinds take their
jobs and carry them through, the two semaphores serve in turn (strong fairness of
`PBeginReport` and `BeginDiarize`), docker restarts a container. None for users and faults.

`StatusStream` (`StreamFairness`): the server answers and the page's callbacks and timers run,
each kind in its own time (`ChainStep` for every chain). None for the user, the calls and polls
about reports, the end of a recognition, for the changes of a status or for failures.

## 4. What is proved

`Transcription_proofs`, for any sets of sessions, workers and callers and any numbers
of faults:

| Theorem | Assumption | Statement |
|---|---|---|
| `TypeCorrect` | none | `Spec => []TypeOK` |
| `Invariance` | `Isolated` | `Spec => []IInv` |
| `ExpirySafe`, `OneAutoReport`, `JobsExclusive`, `NoOrphans` | `Isolated` | the safety invariants of the runs |
| `Refinement` | `Isolated` | `Spec => ImplementsLifecycle` |
| `ResultIsFinal` | `Isolated` | `Spec => TranscribedIsFinal` |
| `NoLostJob` | `Isolated` | `Spec => []NoJobLost`: unless the API has crashed, a queued session has its job or is about to get it |
| `NoLostReport` | `Isolated` | `Spec => []NoReportLost`: the same of the auto report of a transcribed session, or the recovery of a starting worker will enqueue it |

`Isolated` says that no worker starts while another one runs a job and that a session is
completed by one request at a time. It is needed: `TranscriptionOverlap` is the
counterexample without the first half, the two `complete` requests under *Bounds* without
the second.

The argument. None of the safety invariants is inductive. That a report is made once
rests on the run finding the status it has set itself, which rests on no other run being
there, which rests on the job being held by its run. `IInv` is the conjunction of these:
a run holds its job, runs of a session exclude each other, from `audio` to the last
transaction a run finds `transcribing` or no row, jobs exist for submitted sessions only,
a request about to submit finds the session still open, a chunk past its check finds its
session or is late (`ChunksFindSessions`), an auto report comes with `transcribed`. It speaks of one session at a time, so the proof is done for one session
(`SInv`): a step about another session leaves all of it alone (`Frame`), and there is one
case per action for a step about this one. The refinement maps each action to a step of
`SessionLifecycle` or to a stutter, using `IInv` for the status an action finds; the
finality of results is then read off the abstract specification. For `NoLostJob` the
invariant is strengthened with `EnqueueIsFresh`: until a session is enqueued the queue
knows nothing of its job, so the enqueue cannot be swallowed. The step lemmas are stated
once for `FInv(s, k)`, with `k` saying whether `QueuedHasJob` is carried along:
`EnqueueIsFresh` holds in any case, `QueuedHasJob` as long as no API crash is counted.
For `NoLostReport` it is strengthened (`PInv`) with the number a run about to enqueue a
report holds: it is the one of the row it created.

`Reports_proofs`, for any sets of reports and workers and any numbers of faults:

| Theorem | Assumption | Statement |
|---|---|---|
| `TypeCorrect` | none | `Spec => []TypeOK` |
| `Invariance` | `~StartsOverlap` | `Spec => []IInv` |
| `OneWriter` | `~StartsOverlap` | `Spec => []OneRunPerReport` |
| `EditsSurvive` | `~StartsOverlap` | `Spec => EditIsKept` |
| `NothingStuck` | `~StartsOverlap` | `Spec => []NoReportStuck` |
| `Refinement` | `~StartsOverlap` | `Spec => ImplementsReportLifecycle` |

The argument is of the same kind. An edit survives because whoever may write a report is a
run past its second look, which finds RUNNING or no row (`RunsFindTheirStatus`), while only
a DONE report has a text to edit (`TextWhenDone`); that no second run finds otherwise rests
on runs excluding each other by the job they hold (`RunsHoldTheirJobs`, `OneRunPerReport`).
A run that returns leaves the report done or gone, or failed when the transcript was empty.
For `NothingStuck`, a waiting report whose job is marked in progress has a run or a worker
that is down (`HeldIsAttended`), and no result is left that would keep its job out of the
queue (`NoResultWhileStuck`).

`Rules_proofs`, for every start, number of days and set of holidays: `CountIsRight`, what
was added is at every step the number of working days gone by, and from it
`RetentionIsExact`, `DaysSpec => []ExactPeriod`. The proof adds one day at a time to the set
of days counted and uses the library's facts about cardinalities.

`Upload_proofs`, for any number of recordings, chunks, attempts and failing calls:

| Theorem | Assumption | Statement |
|---|---|---|
| `TypeCorrect` | none | `Spec => []TypeOK` |
| `SizeStaysBounded` | none | `Spec => []SizeBounded` |
| `NothingLost` | none | `Spec => []NeverLost` |
| `NothingIsMissing` | none | `Spec => []NothingMissing` |
| `ExactWithoutLostAnswers` | `~AnswersLost` | `Spec => []ExactlyRecorded` |
| `FrozenWithoutLostAnswers` | `~AnswersLost` | `Spec => CompletedIsFrozen` |
| `Refinement` | none | `Spec => ImplementsLifecycle` |

`NothingMissing` speaks of a completed session and says nothing about the uploads that lead
there. Its invariant `UInv` says where the chunks of the recording at work are at any time:
the chain holds the last ones in order, every chunk before its head is stored unless one has
been given up (`chunkErr`), and what is stored of one chunk begins before anything of the
next. `XInv` adds what a network that fails before serving a call gives: the head of the
chain has one request at most, nothing of a completed session is under way, and the raw
file is as long as the chain has come, plus one if the head was served and the page does not
know yet. Chunks of a discarded recording that arrive in the next session are followed
through all of this: they add to the file and disturb nothing else. `Refinement` needs
only the part of the invariant about the page (`PageInv`), which gives the status of the
session that `Created`, `Completed` and `EraseRow` find; no run
checks it.

`StatusStream_proofs`, for any number of openings and sessions, with any faults:

| Theorem | Statement |
|---|---|
| `TypeCorrect` | `StreamSpec => []StreamTypeOK` |
| `SeenOnlyForward` | `StreamSpec => SeenForward` |
| `ScreenIsOwn` | `StreamSpec => []OwnScreen` |
| `LostIsTrue` | `StreamSpec => []LostMeansGone` |

Only the last opening has a stream, and a follower that polls has none (`LinkInv`); so what
is on its way to a follower is one ordered list, bounded by what it has seen and by the
session's version (`OrderInv`). Each chain and each call about a report belongs to an opening
there was (`ChainInv`), so none of them can write for one to come. Unless an earlier opening
had something under way, the last one is alone at work (`AloneInv`); what it writes is its
own (`OwnScreen`), and the next opening starts from its screen, so the two are kept
together. Who is told that a session is gone is told the truth (`GoneInv`).

`Pipeline_proofs`, for any sets of reports, diarizations and workers and any faults:

| Theorem | Assumption | Statement |
|---|---|---|
| `PTypeCorrect` | none | `PSpec => []PTypeOK` |
| `PInvariance` | `~StartsOverlap` | `PSpec => []CoreInv` |
| `POneWriter` | `~StartsOverlap` | `PSpec => []OneRunPerReport` |
| `ChainHolds` | `~StartsOverlap` | `PSpec => []ChainUnbroken` |
| `LabelsAreKept` | `~StartsOverlap`, `OneWorkerEach` | `PSpec => []LabelsKept` |
| `PEditsSurvive` | `~StartsOverlap` | `PSpec => EditIsKept` |
| `PRefinement` | `~StartsOverlap` | `PSpec => ImplementsReportLifecycle` |

Most steps of the composition are steps of `Reports` (`Kinds`) and keep the invariant of
`Reports_proofs` by its own lemmas; the four that are not (`Transcribe`, `HandOver`,
`HandToReport`, `PApiCrash`) get a lemma each. `CoreInv` adds that a diarization has at most
one who is to enqueue it, that before anybody else knows of its job. For `ChainUnbroken` the
invariant (`HandOnInv`) says that a report is attended to, or planned by a base worker, or
waits for a diarization that is itself planned, queued or run; and that a run of the
diarize worker that has come to its end left nobody waiting. For `LabelsKept` it
(`OrderlyInv`) says that nobody has begun a report that waits for a diarization not yet
over, and that a diarization that is over is not begun again: the second is what a second
diarize worker would break.

`SpeakerMerge_proofs`, for every recording and every answer of the recogniser:

| Theorem | Statement |
|---|---|
| `LoopEnds` | `MergeSpec => RunsShrink` |
| `LongRunsAreKept` | `MergeSpec => []LongRunsStay` |
| `NamesAreOrdered` | `MergeSpec => []NamesFollowOrder` |
| `ClipHasOneVoice` | `InOrder` assumed: `MergeSpec => []ClipIsOneVoice` |

Runs are counted by the words they begin with: giving a run away removes its first word, or
the one behind it, from these and adds none. That long runs stay takes two facts: a
run of the labels of `Fill` stays in one piece through the passes (`KeptInv`), so a run that
is given away holds such a run as a whole or not at all (`InsideOrOut`), and one that is
short holds none that was long (`ShortInside`). How turns are glued and matched to
words is left open; the theorems hold for any assignment.

For the names, any two solutions of the recursion of `StableLabel` are compared number by
number (`NamesOrdered`): the name of a smaller number goes on from the same name or an
earlier one, and the letter that is added keeps the order or decides it (`AppendKeeps`);
and in `Order` a speaker stands before those who began to speak later (`OrderIs`). For the
clips, every stretch is a piece from one word of the speaker to another without a word of
anybody else in between (`StretchesAre`): the run of whoever speaks in between is not short
once the loop is done, and so makes a gap of `MinSegment` or more, which is longer than
`MaxGap` (`LongGap`).

`Rules_proofs`, for every glossary and limit:

| Theorem | Statement |
|---|---|
| `FitsTheLimit` | `PickSpec => []WithinLimit` |
| `LeftOutForWantOfRoom` | `PickSpec => []LeftOutForLength` |
| `FirstSpellingCounts` | `PickSpec => []FirstSpelling` |

`Terms`, `Ranked` and the joined length are folds. Each is first shown to go step by step
(`TermsSteps`, `RankedSteps`, `JoinedSteps`), which needs a solution of the recursion behind
`FoldLeft` (`FoldGraph` in `FoldTheorems`); then what they yield is shown by induction on the number of
elements (`TermsAre`, `RankedAre`, `JoinedAppend`): no two terms alike, each the first of its
lower case, none after a less important one. The invariant of the selection (`Selected`)
says that what was passed over does not fit any more, the separator behind it included, and
that what was taken after it is shorter.

`HotwordsAssumption` says what lines are: finite sequences of records, with numbers where
the model calculates, and lower case that does not make a line blank. `MergeAssumption`
does the same for words. `PipelineAssumption` says that the ids of reports and of
diarizations differ, as the prefixes of their job ids do.

The induction theorems of the library take an operator as a parameter and cannot be used
with the installed provers. Where induction is needed it goes by a least counterexample in a
well-founded order of finite sets, which needs no parameter (`SetInduction`, `HasMax` in `FoldTheorems`).

Only model-checked: all liveness (`QueuedIsServed`, `TranscribingEnds`, `ResultsExpire`,
`StopEnds`, `PReportEnds`, `DiarizationEnds`, `ResultIsShown`, `SpeakersAreShown`), which is out of the prover's
reach.

## 5. Plan

Done, in the order of what it risks, each with its proofs: `Transcription`,
`SessionLifecycle`, `ArqQueue`; `Upload`; `Reports`, `ReportLifecycle`; `Pipeline`;
`SpeakerMerge`, `Workdays`, `Hotwords`; `StatusStream`.

Left:

1. The report list of the page itself: how many pollers there are per waiting report, and what
   they do to the list after a deletion (`StatusStream` has them as one flag).
2. The recorder's buttons as state of `Upload`.

## 6. Not modelled, and why

Inference (STT, diarization, LLM) and ffmpeg are outside the repository's logic: each is a
choice of its outcomes. Prompt assembly, document extraction and export are text
processing without state. Statistics are append-only and read for display. Queue positions
and progress are numbers for display, computed anew for every answer. Rendering, audio
devices, scripts and configuration have no state the properties could speak of.

## 7. Hazards without a property

* A worker that dies between taking a job and its first commit leaves a QUEUED session
  whose job is held by nobody until arq's day-long expiry (`worker.py:382`).
* Two `complete` requests at once (`routes.py:396`), see *Bounds*.
* After a recording was sent, *New* does not reset the recorder's buttons
  (`app.js:586-609`, `resetRecUI` is only called on failure and discard).
* FAILED ends stream and poll, although the queue may try the job again: the page never
  learns of a later success (`routes.py:791`). `ResultIsShown` excludes repeated jobs.
* A report's poller goes on for ever when the report is deleted, and every redraw of the list
  adds one (`app.js:1229`). That it outlives its opening is in `StatusStream`.

What the other hazards of `PROJECT.json` except is listed under *Properties with a
condition*.
