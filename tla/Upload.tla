------------------------------- MODULE Upload -------------------------------
(***************************************************************************)
(* How a recording gets from the browser to the server: the recorder of    *)
(* frontend/js/app.js hands each chunk to a chain of uploads, api.js sends *)
(* it with PUT and tries again when that fails, upload_chunk of            *)
(* backend/app/api/routes.py appends it to the session's raw file, and     *)
(* stop completes or discards the session.  Transcription has what follows *)
(* the completion.                                                         *)
(*                                                                         *)
(* A handler is split at its awaits.  A chunk is its recording and number, *)
(* and takes one unit of the size limit.  The k-th recording of the page   *)
(* creates session k; session 0 is the null the page starts out with.      *)
(***************************************************************************)
EXTENDS Naturals, Sequences

CONSTANTS
  MaxRecordings,  \* bound: recordings made in one page
  MaxChunks,      \* bound: chunks per recording
  MaxBytes,       \* max_upload_bytes, in chunks
  Attempts,       \* how often uploadChunk sends a chunk
  MaxDrops,       \* bound: calls that fail in the network
  AnswersLost     \* may a call that fails still reach the server?

ASSUME UploadAssumption ==
  /\ MaxRecordings \in Nat /\ MaxChunks \in Nat /\ MaxBytes \in Nat
  /\ MaxDrops \in Nat /\ Attempts \in Nat \ {0}
  /\ AnswersLost \in BOOLEAN

VARIABLES
  page,       \* what the recorder card is doing
  sid,        \* sessionId of the page, shared by all its chains
  chunkErr,   \* a chunk was given up
  made,       \* chunks made so far, per recording
  chain,      \* uploadChain: the chunks of a recording still to be uploaded
  tries,      \* the attempt the head of the chain is at, 0: not begun
  target,     \* the session the head of the chain is sent to
  cur,        \* number of recordings started
  saved,      \* recordings saved as a local file
  discarded,  \* recordings the user threw away
  reqs,       \* the PUT requests in the network and at the server
  row,        \* sessions.status; 0 is no session
  raw,        \* the chunks in the raw file
  drops       \* failed calls so far

pageVars   == <<page, sid, cur, made, saved, discarded>>
chainVars  == <<chain, tries, target, chunkErr>>
serverVars == <<row, raw>>
vars == <<pageVars, chainVars, serverVars, reqs, drops>>

Recordings == 1..MaxRecordings
Ids == 0..MaxRecordings
Chunk == Recordings \X (1..MaxChunks)

Request == [rec : Recordings, chunk : 1..MaxChunks, try : 1..Attempts, to : Ids,
            phase : {"sent", "body", "commit", "ok", "refused", "error"}]

TypeOK ==
  /\ page \in {"idle", "creating", "recording", "stopping", "completing",
               "sent", "discarding", "erasing"}
  /\ sid \in Ids /\ cur \in Ids
  /\ chunkErr \in BOOLEAN
  /\ made \in [Recordings -> 0..MaxChunks]
  /\ chain \in [Recordings -> Seq(1..MaxChunks)]
  /\ tries \in [Recordings -> 0..Attempts]
  /\ target \in [Recordings -> Ids]
  /\ saved \subseteq Recordings /\ discarded \subseteq Recordings
  /\ reqs \subseteq Request
  /\ row \in [Ids -> {"none", "created", "queued", "gone"}]
  /\ raw \in [Ids -> Seq(Chunk)]
  /\ drops \in Nat

Init ==
  /\ page = "idle" /\ sid = 0 /\ cur = 0 /\ chunkErr = FALSE
  /\ made = [r \in Recordings |-> 0]
  /\ chain = [r \in Recordings |-> <<>>]
  /\ tries = [r \in Recordings |-> 0]
  /\ target = [r \in Recordings |-> 0]
  /\ saved = {} /\ discarded = {} /\ reqs = {}
  /\ row = [s \in Ids |-> "none"]
  /\ raw = [s \in Ids |-> <<>>]
  /\ drops = 0

-----------------------------------------------------------------------------
(* The page *)

\* startBtn: createSession is called ...
Start ==
  /\ page = "idle" /\ cur < MaxRecordings
  /\ page' = "creating" /\ chunkErr' = FALSE
  /\ UNCHANGED <<sid, cur, made, saved, discarded, chain, tries, target,
                 serverVars, reqs, drops>>

\* ... and answers: a new session and a new chain (the chain of an earlier
\* recording, if any is left, goes on by itself) ...
Created ==
  /\ page = "creating"
  /\ page' = "recording"
  /\ cur' = cur + 1 /\ sid' = cur + 1
  /\ row' = [row EXCEPT ![cur + 1] = "created"]
  /\ UNCHANGED <<made, saved, discarded, chainVars, raw, reqs, drops>>

\* ... or fails.
CreateFails ==
  /\ page = "creating" /\ drops < MaxDrops
  /\ page' = "idle" /\ drops' = drops + 1
  /\ UNCHANGED <<sid, cur, made, saved, discarded, chainVars, serverVars, reqs>>

\* Mutant: the newest chunk is sent first.
EmitFront(r) ==
  /\ made[r] < MaxChunks
  /\ made' = [made EXCEPT ![r] = @ + 1]
  /\ chain' = [chain EXCEPT ![r] =
                 IF tries[r] = 0 THEN <<made[r] + 1>> \o @
                 ELSE <<Head(@), made[r] + 1>> \o Tail(@)]

\* ondataavailable: the chunk joins the end of the chain.
Emit(r) ==
  /\ made[r] < MaxChunks
  /\ made' = [made EXCEPT ![r] = @ + 1]
  /\ chain' = [chain EXCEPT ![r] = Append(@, made[r] + 1)]

MakeChunk ==
  /\ page = "recording"
  /\ Emit(cur)
  /\ UNCHANGED <<page, sid, cur, saved, discarded, tries, target, chunkErr,
                 serverVars, reqs, drops>>

\* recorder.stop() delivers what was recorded since the last chunk.
StopRecorder == Emit(cur) \/ UNCHANGED <<made, chain>>

\* stopBtn: with the option on, the recording is saved locally first.
Stop ==
  /\ page = "recording"
  /\ StopRecorder
  /\ page' = "stopping"
  /\ saved' \in {saved, saved \cup {cur}}
  /\ UNCHANGED <<sid, cur, discarded, tries, target, chunkErr, serverVars, reqs, drops>>

\* The catch block: the recording is saved locally, the buttons are reset.
Rescue == page' = "idle" /\ saved' = saved \cup {cur}

\* Mutant: the error of a chunk is not looked at.
UploadedUnchecked ==
  /\ page = "stopping"
  /\ chain[cur] = <<>>
  /\ page' = "completing"
  /\ UNCHANGED <<saved, sid, cur, made, discarded, chainVars, serverVars, reqs, drops>>

\* Mutant: the chain is not awaited.
UploadedEarly ==
  /\ page = "stopping"
  /\ IF chunkErr THEN Rescue ELSE page' = "completing" /\ UNCHANGED saved
  /\ UNCHANGED <<sid, cur, made, discarded, chainVars, serverVars, reqs, drops>>

\* await uploadChain; a chunk that was given up means the session is not completed.
Uploaded ==
  /\ page = "stopping"
  /\ chain[cur] = <<>>
  /\ IF chunkErr THEN Rescue ELSE page' = "completing" /\ UNCHANGED saved
  /\ UNCHANGED <<sid, cur, made, discarded, chainVars, serverVars, reqs, drops>>

\* Mutant: a recording whose completion fails is not saved.
CompletedUnsaved ==
  /\ page = "completing"
  /\ IF raw[sid] # <<>>
       THEN page' = "sent" /\ row' = [row EXCEPT ![sid] = "queued"]
       ELSE page' = "idle" /\ UNCHANGED row
  /\ UNCHANGED <<sid, cur, made, saved, discarded, chainVars, raw, reqs, drops>>

\* complete_upload, answered: 400 without audio.
Completed ==
  /\ page = "completing"
  /\ IF raw[sid] # <<>>
       THEN page' = "sent" /\ row' = [row EXCEPT ![sid] = "queued"] /\ UNCHANGED saved
       ELSE Rescue /\ UNCHANGED row
  /\ UNCHANGED <<sid, cur, made, discarded, chainVars, raw, reqs, drops>>

\* The call fails; the server may have completed the session all the same.
CompleteFails ==
  /\ page = "completing" /\ drops < MaxDrops
  /\ drops' = drops + 1
  /\ Rescue
  /\ \/ UNCHANGED row
     \/ AnswersLost /\ raw[sid] # <<>> /\ row' = [row EXCEPT ![sid] = "queued"]
  /\ UNCHANGED <<sid, cur, made, discarded, chainVars, raw, reqs>>

\* discardBtn: the recorder is stopped and DELETE is called, uploads or not.
Discard ==
  /\ page = "recording"
  /\ StopRecorder
  /\ page' = "discarding"
  /\ discarded' = discarded \cup {cur}
  /\ UNCHANGED <<sid, cur, saved, tries, target, chunkErr, serverVars, reqs, drops>>

\* delete_session: the files ...
EraseFiles ==
  /\ page = "discarding"
  /\ page' = "erasing"
  /\ raw' = [raw EXCEPT ![sid] = <<>>]
  /\ UNCHANGED <<sid, cur, made, saved, discarded, chainVars, row, reqs, drops>>

\* ... then the row; the page forgets the session.
EraseRow ==
  /\ page = "erasing"
  /\ page' = "idle" /\ sid' = 0
  /\ row' = [row EXCEPT ![sid] = "gone"]
  /\ UNCHANGED <<cur, made, saved, discarded, chainVars, raw, reqs, drops>>

\* deleteSession ignores every failure.
DiscardFails ==
  /\ page = "discarding" /\ drops < MaxDrops
  /\ page' = "idle" /\ sid' = 0 /\ drops' = drops + 1
  /\ UNCHANGED <<cur, made, saved, discarded, chainVars, serverVars, reqs>>

\* The page is loaded anew while no recording is under way.
Reload ==
  /\ page \in {"idle", "sent"}
  /\ page' = "idle" /\ sid' = 0 /\ chunkErr' = FALSE
  /\ chain' = [r \in Recordings |-> <<>>]
  /\ tries' = [r \in Recordings |-> 0]
  /\ UNCHANGED <<cur, made, saved, discarded, target, serverVars, reqs, drops>>

-----------------------------------------------------------------------------
(* api.js: uploadChunk *)

Put(r, n, to) == [rec |-> r, chunk |-> Head(chain[r]), try |-> n, to |-> to, phase |-> "sent"]

\* The head of the chain is begun, for the session the page has by now.
Begin(r) ==
  /\ chain[r] # <<>> /\ tries[r] = 0
  /\ tries' = [tries EXCEPT ![r] = 1]
  /\ target' = [target EXCEPT ![r] = sid]
  /\ reqs' = reqs \cup {Put(r, 1, sid)}
  /\ UNCHANGED <<pageVars, chain, chunkErr, serverVars, drops>>

\* Is the page still waiting for the answer to q?
Awaited(q) ==
  chain[q.rec] # <<>> /\ Head(chain[q.rec]) = q.chunk /\ tries[q.rec] = q.try

\* The head of the chain is over, for better or worse.
Advance(r) ==
  /\ chain' = [chain EXCEPT ![r] = Tail(@)]
  /\ tries' = [tries EXCEPT ![r] = 0]

\* The attempt q failed: the next one, until there have been enough of them.
\* "left" are the other requests.
TryAgain(q, left) ==
  IF q.try < Attempts
    THEN /\ tries' = [tries EXCEPT ![q.rec] = @ + 1]
         /\ reqs' = left \cup {Put(q.rec, q.try + 1, q.to)}
         /\ UNCHANGED <<chain, chunkErr>>
    ELSE Advance(q.rec) /\ chunkErr' = TRUE /\ reqs' = left

\* Mutant: a refused chunk is sent again, for ever.
AnswerRefusedAgain(q) ==
  /\ q.phase \in {"ok", "refused", "error"} /\ Awaited(q)
  /\ \/ q.phase = "ok" /\ Advance(q.rec) /\ reqs' = reqs \ {q} /\ UNCHANGED chunkErr
     \/ /\ q.phase = "refused"
        /\ reqs' = (reqs \ {q}) \cup {Put(q.rec, q.try, q.to)}
        /\ UNCHANGED <<chain, tries, chunkErr>>
     \/ q.phase = "error" /\ TryAgain(q, reqs \ {q})
  /\ UNCHANGED <<pageVars, target, serverVars, drops>>

\* fetch resolves: 4xx is final, a 5xx is tried again.
Answer(q) ==
  /\ q.phase \in {"ok", "refused", "error"} /\ Awaited(q)
  /\ \/ q.phase = "ok" /\ Advance(q.rec) /\ reqs' = reqs \ {q} /\ UNCHANGED chunkErr
     \/ q.phase = "refused" /\ Advance(q.rec) /\ reqs' = reqs \ {q} /\ chunkErr' = TRUE
     \/ q.phase = "error" /\ TryAgain(q, reqs \ {q})
  /\ UNCHANGED <<pageVars, target, serverVars, drops>>

\* fetch throws: the request never got there, or goes on without the page.
NetworkFails(q) ==
  /\ Awaited(q) /\ drops < MaxDrops
  /\ drops' = drops + 1
  /\ \/ q.phase = "sent" /\ TryAgain(q, reqs \ {q})
     \/ AnswersLost /\ TryAgain(q, reqs)
  /\ UNCHANGED <<pageVars, target, serverVars>>

\* Nobody reads the answer any more.
Forget(q) ==
  /\ q.phase \in {"ok", "refused", "error"} /\ ~Awaited(q)
  /\ reqs' = reqs \ {q}
  /\ UNCHANGED <<pageVars, chainVars, serverVars, drops>>

-----------------------------------------------------------------------------
(* routes.py: upload_chunk *)

Reply(q, phase) == reqs' = (reqs \ {q}) \cup {[q EXCEPT !.phase = phase]}

\* The row is read (404) and its status checked (409).
Check(q) ==
  /\ q.phase = "sent"
  /\ Reply(q, IF row[q.to] = "created" THEN "body" ELSE "refused")
  /\ UNCHANGED <<pageVars, chainVars, serverVars, drops>>

\* Mutant: the size of the new chunk is not counted.
StoreUncounted(q) ==
  /\ q.phase = "body"
  /\ IF Len(raw[q.to]) > MaxBytes
       THEN Reply(q, "refused") /\ UNCHANGED raw
       ELSE Reply(q, "commit") /\ raw' = [raw EXCEPT ![q.to] = Append(@, <<q.rec, q.chunk>>)]
  /\ UNCHANGED <<pageVars, chainVars, row, drops>>

\* The body is there: the size is checked (413) and the chunk appended, in a
\* directory that is made when there is none.
Store(q) ==
  /\ q.phase = "body"
  /\ IF Len(raw[q.to]) + 1 > MaxBytes
       THEN Reply(q, "refused") /\ UNCHANGED raw
       ELSE Reply(q, "commit") /\ raw' = [raw EXCEPT ![q.to] = Append(@, <<q.rec, q.chunk>>)]
  /\ UNCHANGED <<pageVars, chainVars, row, drops>>

\* The row is updated; that fails (500) when it was deleted meanwhile.
Commit(q) ==
  /\ q.phase = "commit"
  /\ Reply(q, IF row[q.to] = "gone" THEN "error" ELSE "ok")
  /\ UNCHANGED <<pageVars, chainVars, serverVars, drops>>

-----------------------------------------------------------------------------
PageStep == Created \/ CreateFails \/ Uploaded \/ Completed \/ CompleteFails
            \/ EraseFiles \/ EraseRow \/ DiscardFails

Next ==
  \/ Start \/ MakeChunk \/ Stop \/ Discard \/ Reload
  \/ PageStep
  \/ \E r \in Recordings : Begin(r)
  \/ \E q \in reqs : Check(q) \/ Store(q) \/ Commit(q) \/ Answer(q)
                     \/ NetworkFails(q) \/ Forget(q)

Spec == Init /\ [][Next]_vars

\* The page's code runs on, and every request that is not lost gets its answer.
\* What the user does is not assumed.
Fairness ==
  /\ WF_vars(PageStep)
  /\ \A r \in Recordings : WF_vars(Begin(r))
  /\ WF_vars(\E q \in reqs : Check(q) \/ Store(q) \/ Commit(q) \/ Answer(q))

FairSpec == Spec /\ Fairness

-----------------------------------------------------------------------------
(* Properties *)

\* The chunks <<s, i>>, i = 1, 2, ..., of which raw[s] ought to consist.
Recorded(s) == [i \in 1..made[s] |-> <<s, i>>]

\* Where chunk i of recording s is stored.
Places(s, i) == {k \in DOMAIN raw[s] : raw[s][k] = <<s, i>>}

\* A session whose upload was completed misses no chunk, and a chunk comes first
\* before the one that was recorded after it, whatever had to be sent again:
\* stop waits for the chain, and does not complete after a chunk was given up.
NothingMissing ==
  \A s \in Recordings : row[s] = "queued" =>
    \A i \in 1..made[s] :
      /\ Places(s, i) # {}
      /\ i > 1 => \E k \in Places(s, i - 1) : \A l \in Places(s, i) : k < l

\* A recording that was stopped ends up at the server or in a local file
\* (app.js: "zo raak je de audio nooit kwijt als de upload faalt").
NeverLost ==
  \A r \in 1..cur \ discarded :
    (r < cur \/ page \in {"idle", "creating", "sent"}) => r \in saved \/ row[r] = "queued"

\* The raw file stays within the limit although the size is checked per request,
\* and several requests for one session may be under way.
SizeBounded == \A s \in Ids : Len(raw[s]) <= MaxBytes

\* Does session s have audio of its own recording only?
OwnAudio(s) == \A k \in DOMAIN raw[s] : raw[s][k][1] = s

\* A session whose upload was completed holds exactly what was recorded, every chunk
\* once and in order; unless chunks of a discarded recording have got into it.
ExactlyRecorded ==
  \A s \in Recordings : row[s] = "queued" /\ OwnAudio(s) => raw[s] = Recorded(s)

\* The audio of a completed session does not change any more: upload_chunk refuses it
\* (409).  Only a chunk of another, discarded recording can have passed that check
\* before and be stored afterwards.
CompletedIsFrozen ==
  [][\A s \in Recordings : row[s] = "queued" /\ raw'[s] # raw[s] =>
       \E c \in Chunk : c[1] # s /\ raw'[s] = Append(raw[s], c)]_vars

\* No session gets audio of another recording.
NoForeignAudio == \A s \in Recordings : OwnAudio(s)

\* Deleting a session leaves no audio of it.
NoAudioWithoutRow == \A s \in Recordings : row[s] = "gone" => raw[s] = <<>>

\* Who has pressed stop or discard gets an outcome: the page does not wait for
\* an upload without end.
StopEnds ==
  page \in {"stopping", "completing", "discarding", "erasing"} ~> page \in {"idle", "sent"}

\* What the status of a session shows the user, in the words of SessionLifecycle.
ViewOf(st) == CASE st = "created" -> "open"
                [] st = "queued" -> "busy"
                [] OTHER -> st

Lifecycle == INSTANCE SessionLifecycle
               WITH Sessions <- Recordings,
                    view <- [s \in Recordings |-> ViewOf(row[s])],
                    expiry <- [s \in Recordings |-> "null"]

\* The page, its retries and what it gives up move a session as Transcription expects of
\* its clients: it is opened once, completed at most once and while it is open, and
\* nothing of it comes back after it was removed.
ImplementsLifecycle == Lifecycle!LSpec
=============================================================================
