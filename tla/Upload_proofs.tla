---------------------------- MODULE Upload_proofs ----------------------------
(***************************************************************************)
(* Theorems about Upload, for every number of recordings, chunks, attempts *)
(* and failing calls, and every size limit.  What is lost or stored twice  *)
(* when answers get lost is not excluded by any of them: only the theorems *)
(* about exactness assume a network that fails before a call is served.    *)
(***************************************************************************)
EXTENDS Upload, Integers, TLAPS

-----------------------------------------------------------------------------
(* The invariants *)

\* The recorder has a session it uploads to.
Active == page \in {"recording", "stopping", "completing"}

\* The chunks of recording r that the chain is through with, and those of which a
\* request may have been made.
Done(r) == made[r] - Len(chain[r])
Ahead(r) == IF tries[r] = 0 THEN Done(r) ELSE Done(r) + 1

\* Page and session belong together ...
PageRow ==
  /\ sid <= cur
  /\ page = "creating" => cur < MaxRecordings
  /\ page \notin {"idle", "creating"} => sid = cur /\ cur \in Recordings
  /\ Active => row[cur] = "created" /\ cur \notin discarded
  /\ page \in {"discarding", "erasing"} => row[cur] = "created" /\ cur \in discarded
  /\ page = "completing" => chain[cur] = <<>>

\* ... nothing is known of recordings to come ...
Untouched ==
  /\ \A r \in Recordings : r > cur =>
       /\ row[r] = "none" /\ made[r] = 0 /\ chain[r] = <<>> /\ tries[r] = 0
       /\ raw[r] = <<>>
       /\ r \notin discarded
  /\ \A q \in reqs : q.rec <= cur /\ q.to <= cur

\* ... and a completed session is not discarded, nor uploaded to.
Settled == \A s \in Recordings : row[s] = "queued" => s \notin discarded /\ chain[s] = <<>>

PageInv == PageRow /\ Untouched /\ Settled

\* The chain of the recording at work holds its last chunks, in order; of the others,
\* and of the first of these once it is begun, there may be requests and audio.
LastChunks ==
  /\ Len(chain[cur]) <= made[cur]
  /\ \A i \in 1..Len(chain[cur]) : chain[cur][i] = Done(cur) + i
  /\ tries[cur] > 0 => chain[cur] # <<>>

RequestsBegun ==
  \A q \in reqs : q.rec = cur =>
    /\ q.to = cur
    /\ q.chunk <= Ahead(cur)
    /\ q.phase \in {"commit", "ok", "error"} => Places(cur, q.chunk) # {}

AudioBegun == \A k \in DOMAIN raw[cur] : raw[cur][k][1] = cur => raw[cur][k][2] <= Ahead(cur)

ChainInv == Active => LastChunks /\ RequestsBegun /\ AudioBegun

\* Nothing of the recording at work has been given up.
Whole == page = "completing" \/ (page \in {"recording", "stopping"} /\ ~chunkErr)

\* Chunk i of s is stored, and comes before chunk i + 1.
Stored(s, i) == Places(s, i) # {}
Before(s, i) == \E k \in Places(s, i) : \A l \in Places(s, i + 1) : k < l

\* ... so the chunks the chain is through with are stored, in order.
WholeInv == Whole => \A i \in 1..Done(cur) : Stored(cur, i) /\ Before(cur, i)

\* What NothingMissing says, in the same words.
QueuedInv ==
  \A s \in Recordings : row[s] = "queued" =>
    /\ \A i \in 1..made[s] : Stored(s, i)
    /\ \A i \in 1..(made[s] - 1) : Before(s, i)

UInv == TypeOK /\ PageInv /\ ChainInv /\ WholeInv /\ QueuedInv

\* With a network that fails only before a call is served: the recording at work has
\* one request, for the head of its chain; a completed one has none.
HeadOnly ==
  \A q \in reqs : q.rec = cur =>
    /\ Awaited(q)
    /\ q.phase # "error"
    /\ \A p \in reqs : p.rec = cur => p = q

NoneLeft == \A s \in Recordings : row[s] = "queued" => \A q \in reqs : q.rec # s

OneRequest == (Active => HeadOnly) /\ NoneLeft

\* The request for the head of the chain has been served.
Served(s) == \E q \in reqs : q.rec = s /\ q.phase \in {"commit", "ok"}

\* ... so what is stored is what the chain is through with, and perhaps its head.
ExactInv ==
  Whole /\ OwnAudio(cur) =>
    /\ Len(raw[cur]) = (IF Served(cur) THEN Done(cur) + 1 ELSE Done(cur))
    /\ \A k \in DOMAIN raw[cur] : raw[cur][k] = <<cur, k>>

XInv == UInv /\ OneRequest /\ ExactInv /\ ExactlyRecorded

-----------------------------------------------------------------------------
(* Type correctness *)

\* Init is well typed.
LEMMA InitTypeOK == Init => TypeOK
<1>1. 0 \in Ids /\ 0 \in 0..MaxChunks /\ 0 \in 0..Attempts
  BY UploadAssumption DEF Ids
<1>2. <<>> \in Seq(1..MaxChunks) /\ <<>> \in Seq(Chunk)
  OBVIOUS
<1>3. ASSUME Init
      PROVE  /\ made \in [Recordings -> 0..MaxChunks]
             /\ chain \in [Recordings -> Seq(1..MaxChunks)]
             /\ tries \in [Recordings -> 0..Attempts]
             /\ target \in [Recordings -> Ids]
             /\ row \in [Ids -> {"none", "created", "queued", "gone"}]
             /\ raw \in [Ids -> Seq(Chunk)]
  BY <1>1, <1>2, <1>3 DEF Init
<1>4. ASSUME Init
      PROVE  /\ page = "idle" /\ sid \in Ids /\ cur \in Ids /\ chunkErr \in BOOLEAN
             /\ saved = {} /\ discarded = {} /\ reqs = {} /\ drops \in Nat
  BY <1>1, <1>4 DEF Init
<1> QED BY <1>3, <1>4 DEF TypeOK

\* What becomes of a chain.
LEMMA ChainTypes ==
  ASSUME TypeOK
  PROVE  /\ cur \in Recordings /\ (Emit(cur) \/ UNCHANGED <<made, chain>>) =>
              /\ made' \in [Recordings -> 0..MaxChunks]
              /\ chain' \in [Recordings -> Seq(1..MaxChunks)]
         /\ \A r \in Recordings : chain[r] # <<>> /\ Advance(r) =>
              /\ tries' \in [Recordings -> 0..Attempts]
              /\ chain' \in [Recordings -> Seq(1..MaxChunks)]
         /\ \A r \in Recordings, n \in 1..Attempts, to \in Ids :
              chain[r] # <<>> => Put(r, n, to) \in Request
<1> USE UploadAssumption DEF TypeOK
<1>1. ASSUME cur \in Recordings, Emit(cur)
      PROVE  /\ made' \in [Recordings -> 0..MaxChunks]
             /\ chain' \in [Recordings -> Seq(1..MaxChunks)]
  <2>1. made[cur] + 1 \in 1..MaxChunks
    BY <1>1 DEF Emit
  <2>2. Append(chain[cur], made[cur] + 1) \in Seq(1..MaxChunks)
    BY <1>1, <2>1
  <2> QED BY <1>1, <2>1, <2>2 DEF Emit
<1>2. ASSUME NEW r \in Recordings, chain[r] # <<>>
      PROVE  Head(chain[r]) \in 1..MaxChunks /\ Tail(chain[r]) \in Seq(1..MaxChunks)
  BY <1>2
<1>3. ASSUME NEW r \in Recordings, chain[r] # <<>>, Advance(r)
      PROVE  /\ tries' \in [Recordings -> 0..Attempts]
             /\ chain' \in [Recordings -> Seq(1..MaxChunks)]
  BY <1>2, <1>3 DEF Advance
<1>4. ASSUME NEW r \in Recordings, NEW n \in 1..Attempts, NEW to \in Ids, chain[r] # <<>>
      PROVE  Put(r, n, to) \in Request
  BY <1>2, <1>4 DEF Put, Request
<1> QED BY <1>1, <1>3, <1>4

\* What becomes of the request q when the page has an answer, or gives it up.
LEMMA RetryTypes ==
  ASSUME TypeOK, NEW q \in reqs, Awaited(q), NEW left \in SUBSET reqs, TryAgain(q, left)
  PROVE  /\ tries' \in [Recordings -> 0..Attempts]
         /\ chain' \in [Recordings -> Seq(1..MaxChunks)]
         /\ chunkErr' \in BOOLEAN
         /\ reqs' \subseteq Request
<1> USE UploadAssumption DEF TypeOK
<1>1. q.rec \in Recordings /\ q.try \in 1..Attempts /\ q.to \in Ids
  BY DEF Request
<1>2. chain[q.rec] # <<>> /\ tries[q.rec] = q.try
  BY DEF Awaited
<1>3. CASE q.try < Attempts
  <2>0. q.try + 1 \in 1..Attempts
    BY <1>1, <1>3
  <2>1. Put(q.rec, q.try + 1, q.to) \in Request
    BY <1>1, <1>2, <2>0, ChainTypes
  <2>2. tries' = [tries EXCEPT ![q.rec] = q.try + 1]
    BY <1>1, <1>2, <1>3 DEF TryAgain
  <2>3. reqs' = left \cup {Put(q.rec, q.try + 1, q.to)} /\ UNCHANGED <<chain, chunkErr>>
    BY <1>3 DEF TryAgain
  <2> QED BY <1>1, <1>3, <2>1, <2>2, <2>3
<1>4. CASE ~(q.try < Attempts)
  <2>1. Advance(q.rec) /\ chunkErr' = TRUE /\ reqs' = left
    BY <1>4 DEF TryAgain
  <2> QED BY <1>1, <1>2, <2>1, ChainTypes
<1> QED BY <1>3, <1>4

\* The steps of the page, but for its uploads.
LEMMA PageTypeOK ==
  ASSUME TypeOK, PageInv,
         Start \/ MakeChunk \/ Stop \/ Discard \/ Reload \/ PageStep
  PROVE  TypeOK'
<1> USE UploadAssumption DEF TypeOK, chainVars, serverVars
<1>0. /\ page = "creating" => cur + 1 \in Ids
      /\ page \notin {"idle", "creating"} => sid = cur /\ cur \in Recordings
      /\ 0 \in Ids /\ 0 \in 0..Attempts /\ <<>> \in Seq(1..MaxChunks)
  BY DEF PageInv, PageRow, Ids
<1>1. CASE Start
  BY <1>1 DEF Start
<1>2. CASE Created
  BY <1>0, <1>2 DEF Created
<1>3. CASE CreateFails
  BY <1>3 DEF CreateFails
<1>4. CASE MakeChunk
  BY <1>0, <1>4, ChainTypes DEF MakeChunk
<1>5. CASE Stop
  BY <1>0, <1>5, ChainTypes DEF Stop, StopRecorder
<1>6. CASE Uploaded
  BY <1>0, <1>6 DEF Uploaded, Rescue
<1>7. CASE Completed
  BY <1>0, <1>7 DEF Completed, Rescue
<1>8. CASE CompleteFails
  <2>1. row' = row \/ row' = [row EXCEPT ![sid] = "queued"]
    BY <1>8 DEF CompleteFails
  <2>2. row' \in [Ids -> {"none", "created", "queued", "gone"}]
    BY <2>1
  <2> QED BY <1>0, <1>8, <2>2 DEF CompleteFails, Rescue
<1>9. CASE Discard
  BY <1>0, <1>9, ChainTypes DEF Discard, StopRecorder
<1>10. CASE EraseFiles
  BY <1>0, <1>10 DEF EraseFiles
<1>11. CASE EraseRow
  BY <1>0, <1>11 DEF EraseRow
<1>12. CASE DiscardFails
  BY <1>0, <1>12 DEF DiscardFails
<1>13. CASE Reload
  BY <1>0, <1>13 DEF Reload
<1> QED
  BY <1>1, <1>2, <1>3, <1>4, <1>5, <1>6, <1>7, <1>8, <1>9, <1>10, <1>11, <1>12,
     <1>13 DEF PageStep

\* The uploads, on the page and at the server.
LEMMA RequestTypeOK ==
  ASSUME TypeOK, NEW q \in reqs,
         Check(q) \/ Store(q) \/ Commit(q) \/ Answer(q) \/ NetworkFails(q) \/ Forget(q)
  PROVE  TypeOK'
<1> USE UploadAssumption DEF TypeOK, pageVars, chainVars, serverVars
<1>0. /\ q \in Request /\ q.rec \in Recordings /\ q.chunk \in 1..MaxChunks
      /\ q.try \in 1..Attempts /\ q.to \in Ids
  BY DEF Request
<1>1. ASSUME NEW phase \in {"body", "commit", "ok", "refused", "error"}, Reply(q, phase)
      PROVE  reqs' \subseteq Request
  BY <1>0, <1>1 DEF Reply, Request
<1>2. CASE Check(q)
  BY <1>1, <1>2 DEF Check
<1>3. CASE Store(q)
  <2>1. Append(raw[q.to], <<q.rec, q.chunk>>) \in Seq(Chunk)
    BY <1>0 DEF Chunk
  <2>2. reqs' \subseteq Request
        /\ UNCHANGED <<page, sid, cur, made, saved, discarded, chain, tries, target,
                       chunkErr, row, drops>>
    BY <1>1, <1>3 DEF Store
  <2>3. raw' = raw \/ raw' = [raw EXCEPT ![q.to] = Append(@, <<q.rec, q.chunk>>)]
    BY <1>3 DEF Store
  <2>4. raw' \in [Ids -> Seq(Chunk)]
    BY <1>0, <2>1, <2>3
  <2> QED BY <2>2, <2>4
<1>4. CASE Commit(q)
  BY <1>1, <1>4 DEF Commit
<1>5. CASE Answer(q)
  <2>1. CASE q.phase = "error"
    BY <1>5, <2>1, RetryTypes DEF Answer
  <2>2. CASE q.phase # "error"
    <3>1. Advance(q.rec) /\ reqs' = reqs \ {q} /\ chunkErr' \in BOOLEAN
          /\ UNCHANGED <<page, sid, cur, made, saved, discarded, target, row, raw, drops>>
      BY <1>5, <2>2 DEF Answer
    <3>2. chain[q.rec] # <<>>
      BY <1>5 DEF Answer, Awaited
    <3> QED BY <1>0, <3>1, <3>2, ChainTypes
  <2> QED BY <2>1, <2>2
<1>6. CASE NetworkFails(q)
  <2>1. Awaited(q) /\ drops' \in Nat
        /\ UNCHANGED <<page, sid, cur, made, saved, discarded, target, row, raw>>
    BY <1>6 DEF NetworkFails
  <2>2. TryAgain(q, reqs \ {q}) \/ TryAgain(q, reqs)
    BY <1>6 DEF NetworkFails
  <2> QED BY <2>1, <2>2, RetryTypes
<1>7. CASE Forget(q)
  BY <1>7 DEF Forget
<1> QED BY <1>2, <1>3, <1>4, <1>5, <1>6, <1>7

\* Every step is well typed.
LEMMA StepTypeOK == TypeOK /\ PageInv /\ [Next]_vars => TypeOK'
<1> SUFFICES ASSUME TypeOK, PageInv, [Next]_vars PROVE TypeOK'
  OBVIOUS
<1>1. CASE UNCHANGED vars
  BY <1>1 DEF TypeOK, vars, pageVars, chainVars, serverVars
<1>2. ASSUME NEW r \in Recordings, Begin(r) PROVE TypeOK'
  <2>1. Put(r, 1, sid) \in Request
    BY <1>2, ChainTypes, UploadAssumption DEF Begin, TypeOK
  <2> QED
    BY <1>2, <2>1, UploadAssumption DEF Begin, TypeOK, pageVars, serverVars
<1> QED BY <1>1, <1>2, PageTypeOK, RequestTypeOK DEF Next

-----------------------------------------------------------------------------
(* The kinds of steps *)

\* What the page does about its requests, as far as the invariants can tell: the
\* answer is not read, the head of a chain is over, or it is sent again.
Dropped == UNCHANGED chainVars /\ reqs' \subseteq reqs
Passed(q) ==
  /\ Advance(q.rec) /\ reqs' \subseteq reqs
  /\ chunkErr' = TRUE \/ (q.phase = "ok" /\ UNCHANGED chunkErr)
  /\ UNCHANGED target
Resent(q) ==
  /\ q.try < Attempts
  /\ tries' = [tries EXCEPT ![q.rec] = q.try + 1]
  /\ reqs' \subseteq reqs \cup {Put(q.rec, q.try + 1, q.to)}
  /\ UNCHANGED <<chain, chunkErr, target>>

\* An answer is of no interest any more, or lets the chain go on, or has the chunk sent again.
LEMMA AnswerCases ==
  ASSUME TypeOK, NEW q \in reqs, Answer(q) \/ NetworkFails(q) \/ Forget(q)
  PROVE  /\ UNCHANGED <<pageVars, serverVars>>
         /\ Dropped \/ (Awaited(q) /\ (Passed(q) \/ Resent(q)))
<1>0. q.rec \in Recordings /\ tries \in [Recordings -> 0..Attempts]
  BY DEF TypeOK, Request
<1>1. ASSUME NEW left \in SUBSET reqs, TryAgain(q, left), Awaited(q), UNCHANGED target
      PROVE  Passed(q) \/ Resent(q)
  BY <1>0, <1>1 DEF TryAgain, Passed, Resent, Awaited
<1>2. CASE Answer(q)
  <2>1. TryAgain(q, reqs \ {q}) \/ Passed(q)
    BY <1>2 DEF Answer, Passed
  <2> QED BY <1>1, <1>2, <2>1 DEF Answer
<1>3. CASE NetworkFails(q)
  <2>1. TryAgain(q, reqs \ {q}) \/ TryAgain(q, reqs)
    BY <1>3 DEF NetworkFails
  <2> QED BY <1>1, <1>3, <2>1 DEF NetworkFails
<1>4. CASE Forget(q)
  BY <1>4 DEF Forget, Dropped
<1> QED BY <1>2, <1>3, <1>4

\* What the server does with a request: it goes on to the next phase, and its chunk
\* may have been stored.
Appended(q) == raw' = [raw EXCEPT ![q.to] = Append(@, <<q.rec, q.chunk>>)]
Handled(q, phase) ==
  /\ Reply(q, phase)
  /\ \/ q.phase \in {"sent", "body"} /\ phase \in {"body", "refused"} /\ UNCHANGED raw
     \/ /\ q.phase = "commit" /\ UNCHANGED raw
        /\ phase = IF row[q.to] = "gone" THEN "error" ELSE "ok"
     \/ q.phase = "body" /\ phase = "commit" /\ Appended(q)

Phases == {"sent", "body", "commit", "ok", "refused", "error"}

\* The server takes a request one phase further.
LEMMA ServeCases ==
  ASSUME NEW q \in reqs, Check(q) \/ Store(q) \/ Commit(q)
  PROVE  /\ UNCHANGED <<pageVars, chainVars, row>>
         /\ \E phase \in Phases : Handled(q, phase)
<1>1. CASE Check(q)
  <2>1. Handled(q, IF row[q.to] = "created" THEN "body" ELSE "refused")
    BY <1>1 DEF Check, Handled, serverVars
  <2> QED BY <1>1, <2>1 DEF Check, serverVars, Phases
<1>2. CASE Store(q)
  <2>1. Handled(q, "refused") \/ Handled(q, "commit")
    BY <1>2 DEF Store, Handled, Appended
  <2> QED BY <1>2, <2>1 DEF Store, Phases
<1>3. CASE Commit(q)
  <2>1. Handled(q, IF row[q.to] = "gone" THEN "error" ELSE "ok")
    BY <1>3 DEF Commit, Handled, serverVars
  <2> QED BY <1>3, <2>1 DEF Commit, serverVars, Phases
<1> QED BY <1>1, <1>2, <1>3

\* The parts of a request.
LEMMA RequestParts ==
  ASSUME TypeOK, NEW q \in reqs
  PROVE  /\ q \in Request /\ q.rec \in Recordings /\ q.chunk \in 1..MaxChunks
         /\ q.try \in 1..Attempts /\ q.to \in Ids /\ <<q.rec, q.chunk>> \in Chunk
  BY DEF TypeOK, Request, Chunk

\* A request that is handled keeps all but its phase; the others are what they were.
LEMMA ReplyKeeps ==
  ASSUME TypeOK, NEW q \in reqs, NEW phase \in Phases, Reply(q, phase)
  PROVE  \A p \in reqs' :
           \/ p \in reqs
           \/ /\ p.rec = q.rec /\ p.chunk = q.chunk /\ p.try = q.try /\ p.to = q.to
              /\ p.phase = phase
<1>1. q \in Request
  BY RequestParts
<1> QED BY <1>1 DEF Reply, Request

\* A chunk that is appended to a raw file takes nothing away and changes no order.
LEMMA AppendPlaces ==
  ASSUME TypeOK, NEW to \in Ids, NEW c \in Chunk,
         raw' = [raw EXCEPT ![to] = Append(@, c)], NEW s \in Recordings
  PROVE  /\ \A i \in Nat : Stored(s, i) => Stored(s, i)'
         /\ \A i \in Nat : Stored(s, i) /\ Before(s, i) => Before(s, i)'
         /\ \A k \in DOMAIN raw'[s] :
              \/ k \in DOMAIN raw[s] /\ raw'[s][k] = raw[s][k]
              \/ to = s /\ raw'[s][k] = c
         /\ \A i \in Nat : to = s /\ c = <<s, i>> => Stored(s, i)'
<1>0. s \in Ids /\ raw[s] \in Seq(Chunk) /\ raw[to] \in Seq(Chunk) /\ Len(raw[s]) \in Nat
  BY UploadAssumption DEF TypeOK, Ids, Recordings
<1>1. CASE to # s
  <2>1. raw'[s] = raw[s]
    BY <1>0, <1>1 DEF TypeOK
  <2>2. \A i : Places(s, i)' = Places(s, i)
    BY <2>1 DEF Places
  <2>3. \A i : (Stored(s, i)' <=> Stored(s, i)) /\ (Before(s, i)' <=> Before(s, i))
    BY <2>2 DEF Stored, Before
  <2> QED BY <1>1, <2>1, <2>3
<1>2. CASE to = s
  <2>1. raw'[s] = Append(raw[s], c)
    BY <1>0, <1>2 DEF TypeOK
  <2>2. /\ DOMAIN raw[s] = 1..Len(raw[s])
        /\ DOMAIN raw'[s] = 1..(Len(raw[s]) + 1)
        /\ \A k \in 1..Len(raw[s]) : raw'[s][k] = raw[s][k]
        /\ raw'[s][Len(raw[s]) + 1] = c
    BY <1>0, <2>1
  <2>3. ASSUME NEW i \in Nat
        PROVE  /\ Places(s, i) \subseteq Places(s, i)'
               /\ Places(s, i)' \subseteq Places(s, i) \cup {Len(raw[s]) + 1}
               /\ Places(s, i) \subseteq 1..Len(raw[s])
               /\ c = <<s, i>> => Places(s, i)' # {}
    BY <1>0, <2>2 DEF Places
  <2>4. \A i \in Nat : Stored(s, i) => Stored(s, i)'
    BY <2>3 DEF Stored
  <2>5. ASSUME NEW i \in Nat, Before(s, i) PROVE Before(s, i)'
    <3>1. PICK k \in Places(s, i) : \A l \in Places(s, i + 1) : k < l
      BY <2>5 DEF Before
    <3>2. k \in Places(s, i)' /\ k \in 1..Len(raw[s])
      BY <2>3, <3>1
    <3>3. \A l \in Places(s, i + 1)' : k < l
      <4>1. Places(s, i + 1)' \subseteq Places(s, i + 1) \cup {Len(raw[s]) + 1}
        BY <2>3
      <4> QED BY <1>0, <3>1, <3>2, <4>1
    <3> QED BY <3>2, <3>3 DEF Before
  <2>6. \A k \in DOMAIN raw'[s] :
          \/ k \in DOMAIN raw[s] /\ raw'[s][k] = raw[s][k]
          \/ to = s /\ raw'[s][k] = c
    BY <1>0, <1>2, <2>2
  <2>7. \A i \in Nat : to = s /\ c = <<s, i>> => Stored(s, i)'
    BY <2>3 DEF Stored
  <2> QED BY <2>4, <2>5, <2>6, <2>7
<1> QED BY <1>1, <1>2

-----------------------------------------------------------------------------
(* Page and session belong together *)

\* Init: nothing was recorded.
LEMMA InitPageInv == Init => PageInv
  BY UploadAssumption
  DEF Init, PageInv, PageRow, Untouched, Settled, Active, Recordings, Ids

\* What the page does keeps the relation of page and rows.
LEMMA PagePageInv ==
  ASSUME TypeOK, PageInv,
         Start \/ MakeChunk \/ Stop \/ Discard \/ Reload \/ PageStep
  PROVE  PageInv'
<1>0. /\ PageRow /\ Untouched /\ Settled /\ MaxRecordings \in Nat
      /\ cur \in 0..MaxRecordings /\ sid \in 0..MaxRecordings
      /\ Recordings = 1..MaxRecordings /\ Ids = 0..MaxRecordings
      /\ \A q \in reqs : q.rec \in Nat /\ q.to \in Nat
      /\ row \in [Ids -> {"none", "created", "queued", "gone"}]
      /\ chain \in [Recordings -> Seq(1..MaxChunks)]
      /\ made \in [Recordings -> 0..MaxChunks]
      /\ raw \in [Ids -> Seq(Chunk)]
  <2>1. \A q \in reqs : q.rec \in Recordings /\ q.to \in Ids
    BY RequestParts
  <2>2. \A q \in reqs : q.rec \in Nat /\ q.to \in Nat
    BY <2>1 DEF Recordings, Ids
  <2>3. cur \in 0..MaxRecordings /\ sid \in 0..MaxRecordings
    BY DEF TypeOK, Ids
  <2> QED BY <2>2, <2>3, UploadAssumption DEF PageInv, TypeOK, Recordings, Ids
<1> USE DEF Active, chainVars, serverVars
<1>1. CASE Start
  <2> USE <1>0, <1>1 DEF Start
  <2>1. PageRow'
    BY DEF PageRow
  <2>2. Untouched'
    BY DEF PageRow, Untouched
  <2>3. Settled'
    BY DEF PageRow, Untouched, Settled
  <2> QED BY <2>1, <2>2, <2>3 DEF PageInv
<1>2. CASE Created
  <2>0. /\ cur + 1 \in Recordings /\ row'[cur + 1] = "created"
        /\ \A s \in Recordings : s # cur + 1 => row'[s] = row[s]
        /\ page' = "recording" /\ cur' = cur + 1 /\ sid' = cur + 1
        /\ UNCHANGED <<made, discarded, chain, tries, raw, reqs>>
    BY <1>0, <1>2 DEF Created, PageRow
  <2>1. PageRow'
    BY <1>0, <2>0 DEF PageRow, Untouched
  <2>2. Untouched'
    <3>1. ASSUME NEW r \in Recordings, r > cur + 1
          PROVE  /\ row'[r] = "none" /\ made[r] = 0 /\ chain[r] = <<>> /\ tries[r] = 0
                 /\ raw[r] = <<>> /\ r \notin discarded
      <4>1. r > cur /\ r # cur + 1 /\ row'[r] = row[r]
        BY <1>0, <2>0, <3>1
      <4> QED BY <1>0, <4>1 DEF Untouched
    <3>2. \A q \in reqs : q.rec <= cur + 1 /\ q.to <= cur + 1
      BY <1>0 DEF Untouched
    <3> QED BY <2>0, <3>1, <3>2 DEF Untouched
  <2>3. Settled'
    BY <1>0, <2>0 DEF Settled
  <2> QED BY <2>1, <2>2, <2>3 DEF PageInv
<1>3. CASE CreateFails
  <2> USE <1>0, <1>3 DEF CreateFails
  <2>1. PageRow'
    BY DEF PageRow
  <2>2. Untouched'
    BY DEF PageRow, Untouched
  <2>3. Settled'
    BY DEF PageRow, Untouched, Settled
  <2> QED BY <2>1, <2>2, <2>3 DEF PageInv
<1>4. CASE MakeChunk
  <2> USE <1>0, <1>4 DEF MakeChunk, Emit
  <2>1. PageRow'
    BY DEF PageRow
  <2>2. Untouched'
    BY DEF PageRow, Untouched
  <2>3. Settled'
    BY DEF PageRow, Untouched, Settled
  <2> QED BY <2>1, <2>2, <2>3 DEF PageInv
<1>5. CASE Stop
  <2> USE <1>0, <1>5 DEF Stop, StopRecorder, Emit
  <2>1. PageRow'
    BY DEF PageRow
  <2>2. Untouched'
    BY DEF PageRow, Untouched
  <2>3. Settled'
    BY DEF PageRow, Untouched, Settled
  <2> QED BY <2>1, <2>2, <2>3 DEF PageInv
<1>6. CASE Uploaded
  <2> USE <1>0, <1>6 DEF Uploaded, Rescue
  <2>1. PageRow'
    BY DEF PageRow
  <2>2. Untouched'
    BY DEF PageRow, Untouched
  <2>3. Settled'
    BY DEF PageRow, Untouched, Settled
  <2> QED BY <2>1, <2>2, <2>3 DEF PageInv
<1>7. CASE Completed
  <2>0. /\ page = "completing" /\ sid = cur /\ cur \in Recordings
        /\ page' \in {"idle", "sent"}
        /\ row' = row \/ row' = [row EXCEPT ![cur] = "queued"]
        /\ UNCHANGED <<sid, cur, made, discarded, chain, tries, raw, reqs>>
    BY <1>0, <1>7 DEF Completed, Rescue, PageRow
  <2>1. PageRow'
    BY <1>0, <2>0 DEF PageRow
  <2>2. \A s \in Recordings : s # cur => row'[s] = row[s]
    BY <1>0, <2>0
  <2>3. Untouched'
    <3>1. ASSUME NEW r \in Recordings, r > cur
          PROVE  /\ row'[r] = "none" /\ made[r] = 0 /\ chain[r] = <<>> /\ tries[r] = 0
                 /\ raw[r] = <<>> /\ r \notin discarded
      <4>1. r > cur /\ r # cur /\ row'[r] = row[r]
        BY <1>0, <2>2, <3>1
      <4> QED BY <1>0, <4>1 DEF Untouched
    <3>2. \A q \in reqs : q.rec <= cur /\ q.to <= cur
      BY <1>0 DEF Untouched
    <3> QED BY <2>0, <3>1, <3>2 DEF Untouched
  <2>4. Settled'
    BY <1>0, <2>0, <2>2 DEF PageRow, Settled
  <2> QED BY <2>1, <2>3, <2>4 DEF PageInv
<1>8. CASE CompleteFails
  <2>0. /\ page = "completing" /\ sid = cur /\ cur \in Recordings
        /\ page' \in {"idle", "sent"}
        /\ row' = row \/ row' = [row EXCEPT ![cur] = "queued"]
        /\ UNCHANGED <<sid, cur, made, discarded, chain, tries, raw, reqs>>
    BY <1>0, <1>8 DEF CompleteFails, Rescue, PageRow
  <2>1. PageRow'
    BY <1>0, <2>0 DEF PageRow
  <2>2. \A s \in Recordings : s # cur => row'[s] = row[s]
    BY <1>0, <2>0
  <2>3. Untouched'
    <3>1. ASSUME NEW r \in Recordings, r > cur
          PROVE  /\ row'[r] = "none" /\ made[r] = 0 /\ chain[r] = <<>> /\ tries[r] = 0
                 /\ raw[r] = <<>> /\ r \notin discarded
      <4>1. r > cur /\ r # cur /\ row'[r] = row[r]
        BY <1>0, <2>2, <3>1
      <4> QED BY <1>0, <4>1 DEF Untouched
    <3>2. \A q \in reqs : q.rec <= cur /\ q.to <= cur
      BY <1>0 DEF Untouched
    <3> QED BY <2>0, <3>1, <3>2 DEF Untouched
  <2>4. Settled'
    BY <1>0, <2>0, <2>2 DEF PageRow, Settled
  <2> QED BY <2>1, <2>3, <2>4 DEF PageInv
<1>9. CASE Discard
  <2> USE <1>0, <1>9 DEF Discard, StopRecorder, Emit
  <2>1. PageRow'
    BY DEF PageRow
  <2>2. Untouched'
    BY DEF PageRow, Untouched
  <2>3. Settled'
    BY DEF PageRow, Untouched, Settled
  <2> QED BY <2>1, <2>2, <2>3 DEF PageInv
<1>10. CASE EraseFiles
  <2> USE <1>0, <1>10 DEF EraseFiles
  <2>1. PageRow'
    BY DEF PageRow
  <2>2. Untouched'
    BY DEF PageRow, Untouched
  <2>3. Settled'
    BY DEF PageRow, Untouched, Settled
  <2> QED BY <2>1, <2>2, <2>3 DEF PageInv
<1>11. CASE EraseRow
  <2> USE <1>0, <1>11 DEF EraseRow
  <2>1. PageRow'
    BY DEF PageRow
  <2>2. Untouched'
    BY DEF PageRow, Untouched
  <2>3. Settled'
    BY DEF PageRow, Untouched, Settled
  <2> QED BY <2>1, <2>2, <2>3 DEF PageInv
<1>12. CASE DiscardFails
  <2> USE <1>0, <1>12 DEF DiscardFails
  <2>1. PageRow'
    BY DEF PageRow
  <2>2. Untouched'
    BY DEF PageRow, Untouched
  <2>3. Settled'
    BY DEF PageRow, Untouched, Settled
  <2> QED BY <2>1, <2>2, <2>3 DEF PageInv
<1>13. CASE Reload
  <2> USE <1>0, <1>13 DEF Reload
  <2>1. PageRow'
    BY DEF PageRow
  <2>2. Untouched'
    BY DEF PageRow, Untouched
  <2>3. Settled'
    BY DEF PageRow, Untouched, Settled
  <2> QED BY <2>1, <2>2, <2>3 DEF PageInv
<1> QED
  BY <1>1, <1>2, <1>3, <1>4, <1>5, <1>6, <1>7, <1>8, <1>9, <1>10, <1>11, <1>12,
     <1>13 DEF PageStep

\* The steps that leave the page alone touch neither the chains of recordings to come
\* nor those of completed sessions.
LEMMA QuietPageInv ==
  ASSUME TypeOK, PageInv, UNCHANGED <<pageVars, row>>,
         \A r \in Recordings : chain[r] = <<>> => UNCHANGED <<chain[r], tries[r]>>,
         \A r \in Recordings : r > cur => UNCHANGED raw[r],
         \A q \in reqs' : q.rec <= cur /\ q.to <= cur
  PROVE  PageInv'
<1>1. page' = page /\ sid' = sid /\ cur' = cur /\ made' = made /\ discarded' = discarded
      /\ row' = row
  BY DEF pageVars
<1>2. Active' <=> Active
  BY <1>1 DEF Active
<1>3. page' = "completing" => chain'[cur'] = <<>>
  BY <1>1 DEF PageInv, PageRow
<1>4. PageRow'
  BY <1>1, <1>2, <1>3 DEF PageInv, PageRow
<1>5. Untouched'
  BY <1>1 DEF PageInv, Untouched
<1>6. Settled'
  BY <1>1 DEF PageInv, Settled
<1> QED BY <1>4, <1>5, <1>6 DEF PageInv

\* So does sending a chunk,
LEMMA BeginPageInv ==
  ASSUME TypeOK, PageInv, NEW r \in Recordings, Begin(r)
  PROVE  PageInv'
<1>1. r <= cur
  BY DEF Begin, PageInv, Untouched, TypeOK, Recordings, Ids
<1>2. Put(r, 1, sid).rec = r /\ Put(r, 1, sid).to = sid
  BY DEF Put
<1>3. /\ chain' = chain /\ raw' = raw /\ cur' = cur
      /\ \A x \in Recordings : chain[x] = <<>> => UNCHANGED <<chain[x], tries[x]>>
  BY DEF Begin, pageVars, serverVars, TypeOK
<1>4. \A q \in reqs' : q.rec <= cur /\ q.to <= cur
  BY <1>1, <1>2 DEF Begin, PageInv, PageRow, Untouched
<1> QED BY <1>3, <1>4, QuietPageInv DEF Begin, serverVars

\* an answer or its loss,
LEMMA AnswerPageInv ==
  ASSUME TypeOK, PageInv, NEW q \in reqs, Answer(q) \/ NetworkFails(q) \/ Forget(q)
  PROVE  PageInv'
<1>0. q.rec \in Recordings /\ q.rec <= cur /\ q.to <= cur
  BY RequestParts DEF PageInv, Untouched
<1>1. /\ UNCHANGED <<pageVars, serverVars>>
      /\ Dropped \/ (Awaited(q) /\ (Passed(q) \/ Resent(q)))
  BY AnswerCases
<1>2. Put(q.rec, q.try + 1, q.to).rec = q.rec /\ Put(q.rec, q.try + 1, q.to).to = q.to
  BY DEF Put
<1>3. \A x \in Recordings : chain[x] = <<>> => UNCHANGED <<chain[x], tries[x]>>
  BY <1>0, <1>1 DEF TypeOK, Dropped, Passed, Resent, Advance, Awaited, chainVars
<1>4. \A p \in reqs' : p.rec <= cur /\ p.to <= cur
  BY <1>0, <1>1, <1>2 DEF Dropped, Passed, Resent, PageInv, Untouched
<1> QED BY <1>1, <1>3, <1>4, QuietPageInv DEF serverVars

\* and serving a request.
LEMMA ServePageInv ==
  ASSUME TypeOK, PageInv, NEW q \in reqs, Check(q) \/ Store(q) \/ Commit(q)
  PROVE  PageInv'
<1>1. PICK phase \in Phases :
        Handled(q, phase) /\ UNCHANGED <<pageVars, chainVars, row>>
  BY ServeCases
<1>2. q.to \in Ids /\ q.rec <= cur /\ q.to <= cur
  BY RequestParts DEF PageInv, Untouched
<1>3. \A p \in reqs' : p.rec <= cur /\ p.to <= cur
  BY <1>1, <1>2, ReplyKeeps DEF Handled, PageInv, Untouched
<1>4. \A r \in Recordings : r > cur => UNCHANGED raw[r]
  <2>1. raw' = raw \/ Appended(q)
    BY <1>1 DEF Handled
  <2>2. raw \in [Ids -> Seq(Chunk)] /\ Recordings \subseteq Ids /\ cur \in Nat
        /\ q.to \in Nat
    BY <1>2, UploadAssumption DEF TypeOK, Ids, Recordings
  <2>3. \A r \in Recordings : r > cur => r # q.to
    BY <1>2, <2>2 DEF Recordings
  <2> QED BY <2>1, <2>2, <2>3 DEF Appended
<1> QED BY <1>1, <1>3, <1>4, QuietPageInv DEF chainVars

\* So does every step.
LEMMA StepPageInv == TypeOK /\ PageInv /\ [Next]_vars => PageInv'
<1> SUFFICES ASSUME TypeOK, PageInv, [Next]_vars PROVE PageInv'
  OBVIOUS
<1>1. CASE UNCHANGED vars
  BY <1>1 DEF PageInv, PageRow, Untouched, Settled, Active, vars, pageVars, chainVars, serverVars
<1> QED BY <1>1, PagePageInv, BeginPageInv, AnswerPageInv, ServePageInv DEF Next

\* Type correctness: the page only ever starts a recording and answers to requests it
\* has a session for.
THEOREM TypeCorrect == Spec => []TypeOK
<1>1. Init => TypeOK /\ PageInv
  BY InitTypeOK, InitPageInv
<1>2. TypeOK /\ PageInv /\ [Next]_vars => (TypeOK /\ PageInv)'
  BY StepTypeOK, StepPageInv
<1> QED BY <1>1, <1>2, PTL DEF Spec

-----------------------------------------------------------------------------
(* The size limit, and what becomes of a recording that was stopped *)

\* The steps that change the audio.
LEMMA AudioSteps ==
  ASSUME [Next]_vars
  PROVE  raw' = raw \/ EraseFiles \/ \E q \in reqs : Store(q)
<1>1. CASE UNCHANGED vars
  BY <1>1 DEF vars, serverVars
<1>2. CASE Start \/ MakeChunk \/ Stop \/ Discard \/ Reload \/ PageStep
  BY <1>2 DEF Start, MakeChunk, Stop, Discard, Reload, PageStep, Created, CreateFails,
              Uploaded, Completed, CompleteFails, EraseRow, DiscardFails, serverVars
<1>3. ASSUME NEW r \in Recordings, Begin(r) PROVE raw' = raw
  BY <1>3 DEF Begin, serverVars
<1>4. ASSUME NEW q \in reqs,
             Check(q) \/ Commit(q) \/ Answer(q) \/ NetworkFails(q) \/ Forget(q)
      PROVE  raw' = raw
  BY <1>4 DEF Check, Commit, Answer, NetworkFails, Forget, serverVars
<1> QED BY <1>1, <1>2, <1>3, <1>4 DEF Next

\* The size is checked and the chunk appended in one step, so requests that are under
\* way together do not exceed the limit together.
LEMMA StepSizeBounded == TypeOK /\ PageInv /\ SizeBounded /\ [Next]_vars => SizeBounded'
<1> SUFFICES ASSUME TypeOK, PageInv, SizeBounded, [Next]_vars PROVE SizeBounded'
  OBVIOUS
<1>0. raw \in [Ids -> Seq(Chunk)] /\ MaxBytes \in Nat
  BY UploadAssumption DEF TypeOK
<1>1. CASE raw' = raw
  BY <1>1 DEF SizeBounded
<1>2. CASE EraseFiles
  <2>1. \A s \in Ids : raw'[s] = raw[s] \/ raw'[s] = <<>>
    BY <1>0, <1>2 DEF EraseFiles
  <2>2. Len(<<>>) <= MaxBytes
    BY <1>0
  <2> QED BY <2>1, <2>2 DEF SizeBounded
<1>3. ASSUME NEW q \in reqs, Store(q), raw' # raw PROVE SizeBounded'
  <2>1. q.to \in Ids /\ <<q.rec, q.chunk>> \in Chunk
    BY RequestParts
  <2>2. ~(Len(raw[q.to]) + 1 > MaxBytes)
        /\ raw' = [raw EXCEPT ![q.to] = Append(@, <<q.rec, q.chunk>>)]
    BY <1>3 DEF Store
  <2>3. \A s \in Ids : s # q.to => raw'[s] = raw[s]
    BY <1>0, <2>2
  <2>4. Len(raw'[q.to]) = Len(raw[q.to]) + 1 /\ Len(raw[q.to]) \in Nat
    BY <1>0, <2>1, <2>2
  <2> QED BY <1>0, <2>2, <2>3, <2>4 DEF SizeBounded
<1>4. raw' = raw \/ EraseFiles \/ \E q \in reqs : Store(q)
  BY AudioSteps
<1> QED BY <1>1, <1>2, <1>3, <1>4

\* The raw file stays within the limit.
THEOREM SizeStaysBounded == Spec => []SizeBounded
<1>1. Init => TypeOK /\ PageInv /\ SizeBounded
  <2>1. Init => SizeBounded
    BY UploadAssumption DEF Init, SizeBounded
  <2> QED BY <2>1, InitTypeOK, InitPageInv
<1>2. TypeOK /\ PageInv /\ SizeBounded /\ [Next]_vars => (TypeOK /\ PageInv /\ SizeBounded)'
  BY StepTypeOK, StepPageInv, StepSizeBounded
<1> QED BY <1>1, <1>2, PTL DEF Spec

\* No step loses a recording.
LEMMA StepNeverLost == TypeOK /\ PageInv /\ NeverLost /\ [Next]_vars => NeverLost'
<1> SUFFICES ASSUME TypeOK, PageInv, NeverLost, [Next]_vars PROVE NeverLost'
  OBVIOUS
<1>0. /\ cur \in 0..MaxRecordings /\ Recordings = 1..MaxRecordings
      /\ Ids = 0..MaxRecordings /\ MaxRecordings \in Nat
      /\ row \in [Ids -> {"none", "created", "queued", "gone"}]
      /\ PageRow
  BY UploadAssumption DEF TypeOK, PageInv, Recordings, Ids
<1> USE DEF NeverLost, chainVars, serverVars
<1>1. CASE UNCHANGED <<page, cur, saved, discarded, row>>
  BY <1>1
<1>2. CASE Start \/ CreateFails
  BY <1>2 DEF Start, CreateFails
<1>3. CASE Created
  <2>1. /\ page = "creating" /\ page' = "recording" /\ cur' = cur + 1
        /\ UNCHANGED <<saved, discarded>>
        /\ \A r \in 1..cur : row'[r] = row[r]
    BY <1>0, <1>3 DEF Created
  <2> QED BY <1>0, <2>1
<1>4. CASE Stop \/ Uploaded \/ Discard
  BY <1>0, <1>4 DEF Stop, Uploaded, Discard, Rescue, PageRow
<1>5. CASE Completed \/ CompleteFails
  <2>1. /\ page = "completing" /\ sid = cur /\ cur \in Recordings
        /\ \/ row' = [row EXCEPT ![cur] = "queued"] /\ saved' = saved
           \/ saved' = saved \cup {cur}
        /\ row' = row \/ row' = [row EXCEPT ![cur] = "queued"]
        /\ UNCHANGED <<cur, discarded>>
    BY <1>0, <1>5 DEF Completed, CompleteFails, Rescue, PageRow
  <2>2. \A r \in 1..cur : row'[r] = row[r] \/ row'[r] = "queued"
    BY <1>0, <2>1
  <2>3. cur \in saved' \/ row'[cur] = "queued"
    BY <1>0, <2>1
  <2> QED BY <1>0, <2>1, <2>2, <2>3
<1>6. CASE EraseRow \/ DiscardFails
  <2>1. /\ cur \in discarded /\ cur' = cur /\ saved' = saved /\ discarded' = discarded
        /\ \A r \in 1..cur : r # cur => row'[r] = row[r]
    BY <1>0, <1>6 DEF EraseRow, DiscardFails, PageRow
  <2> QED BY <1>0, <2>1
<1>7. CASE EraseFiles \/ MakeChunk \/ Reload
  BY <1>7 DEF EraseFiles, MakeChunk, Reload
<1>8. ASSUME NEW r \in Recordings, Begin(r) PROVE UNCHANGED <<page, cur, saved, discarded, row>>
  BY <1>8 DEF Begin, pageVars
<1>9. ASSUME NEW q \in reqs, Check(q) \/ Store(q) \/ Commit(q)
      PROVE  UNCHANGED <<page, cur, saved, discarded, row>>
  BY <1>9 DEF Check, Store, Commit, pageVars
<1>10. ASSUME NEW q \in reqs, Answer(q) \/ NetworkFails(q) \/ Forget(q)
       PROVE  UNCHANGED <<page, cur, saved, discarded, row>>
  BY <1>10 DEF Answer, NetworkFails, Forget, pageVars
<1>11. CASE UNCHANGED vars
  BY <1>11 DEF vars, pageVars
<1> QED
  BY <1>1, <1>2, <1>3, <1>4, <1>5, <1>6, <1>7, <1>8, <1>9, <1>10, <1>11 DEF Next, PageStep

\* A recording that was stopped ends up at the server or in a local file: whichever call
\* fails, the page is not left before one of the two.
THEOREM NothingLost == Spec => []NeverLost
<1>1. Init => TypeOK /\ PageInv /\ NeverLost
  <2>1. Init => NeverLost
    BY DEF Init, NeverLost
  <2> QED BY <2>1, InitTypeOK, InitPageInv
<1>2. TypeOK /\ PageInv /\ NeverLost /\ [Next]_vars => (TypeOK /\ PageInv /\ NeverLost)'
  BY StepTypeOK, StepPageInv, StepNeverLost
<1> QED BY <1>1, <1>2, PTL DEF Spec

-----------------------------------------------------------------------------
(* The chain and the audio *)

\* Init: the chain is empty.
LEMMA InitChain == Init => ChainInv /\ WholeInv /\ QueuedInv
<1>1. Init => ~Active /\ ~Whole
  BY DEF Init, Active, Whole
<1>2. Init => \A s \in Recordings : row[s] # "queued"
  BY UploadAssumption DEF Init, Recordings, Ids
<1> QED BY <1>1, <1>2 DEF ChainInv, WholeInv, QueuedInv

\* The types of what belongs to one recording.
LEMMA RecordingTypes ==
  ASSUME TypeOK, NEW r \in Recordings
  PROVE  /\ made[r] \in Nat /\ chain[r] \in Seq(1..MaxChunks) /\ Len(chain[r]) \in Nat
         /\ tries[r] \in Nat /\ Done(r) \in Int /\ Ahead(r) \in Int
         /\ r \in Ids /\ r \in Nat /\ raw[r] \in Seq(Chunk) /\ Len(raw[r]) \in Nat
         /\ DOMAIN raw[r] = 1..Len(raw[r])
         /\ \A k \in DOMAIN raw[r] : raw[r][k][1] \in Nat /\ raw[r][k][2] \in Nat
<1>1. made[r] \in Nat /\ chain[r] \in Seq(1..MaxChunks) /\ tries[r] \in Nat
  BY UploadAssumption DEF TypeOK
<1>2. r \in Ids /\ r \in Nat
  BY UploadAssumption DEF Ids, Recordings
<1>3. raw[r] \in Seq(Chunk)
  BY <1>2 DEF TypeOK
<1>4. \A k \in DOMAIN raw[r] : raw[r][k] \in Chunk
  BY <1>3
<1>5. \A c \in Chunk : c[1] \in Nat /\ c[2] \in Nat
  BY DEF Chunk, Recordings
<1>6. Len(chain[r]) \in Nat /\ Len(raw[r]) \in Nat /\ DOMAIN raw[r] = 1..Len(raw[r])
  BY <1>1, <1>3
<1> QED BY <1>1, <1>2, <1>3, <1>4, <1>5, <1>6 DEF Done, Ahead

\* The places of a chunk are where they were when the audio is what it was.
LEMMA SamePlaces ==
  ASSUME NEW s \in Recordings, raw'[s] = raw[s]
  PROVE  /\ \A i : Places(s, i)' = Places(s, i)
         /\ \A i : Stored(s, i)' <=> Stored(s, i)
         /\ \A i : Before(s, i)' <=> Before(s, i)
<1>1. \A i : Places(s, i)' = Places(s, i)
  BY DEF Places
<1> QED BY <1>1 DEF Stored, Before

\* When the chain is empty, it is through with everything.
LEMMA DoneAll ==
  ASSUME NEW r \in Recordings, TypeOK, chain[r] = <<>>
  PROVE  Done(r) = made[r]
<1>1. Len(chain[r]) = 0 /\ made[r] \in Nat
  BY RecordingTypes
<1> QED BY <1>1 DEF Done

\* A new chunk joins the chain: of what is behind or before it nothing changes.
LEMMA EmitChain ==
  ASSUME TypeOK, cur \in Recordings, LastChunks,
         Emit(cur) \/ UNCHANGED <<made, chain>>, UNCHANGED <<cur, tries>>
  PROVE  LastChunks' /\ Done(cur)' = Done(cur) /\ Ahead(cur)' = Ahead(cur)
<1>0. /\ made[cur] \in Nat /\ chain[cur] \in Seq(1..MaxChunks) /\ Len(chain[cur]) \in Nat
      /\ made \in [Recordings -> 0..MaxChunks]
      /\ chain \in [Recordings -> Seq(1..MaxChunks)]
  BY RecordingTypes DEF TypeOK
<1>1. CASE Emit(cur)
  <2>0. made[cur] + 1 \in 1..MaxChunks
    BY <1>0, <1>1, UploadAssumption DEF Emit
  <2>1. made'[cur] = made[cur] + 1 /\ chain'[cur] = Append(chain[cur], made[cur] + 1)
    BY <1>0, <1>1 DEF Emit
  <2>2. /\ Len(chain'[cur]) = Len(chain[cur]) + 1
        /\ \A i \in 1..Len(chain[cur]) : chain'[cur][i] = chain[cur][i]
        /\ chain'[cur][Len(chain[cur]) + 1] = made[cur] + 1
    BY <1>0, <2>0, <2>1
  <2>3. Done(cur)' = Done(cur) /\ Ahead(cur)' = Ahead(cur)
    BY <1>0, <2>1, <2>2 DEF Done, Ahead
  <2>4. ASSUME NEW i \in 1..Len(chain'[cur]) PROVE chain'[cur][i] = Done(cur) + i
    <3>1. CASE i \in 1..Len(chain[cur])
      BY <2>2, <3>1 DEF LastChunks
    <3>2. CASE i = Len(chain[cur]) + 1
      BY <1>0, <2>2, <3>2 DEF Done
    <3> QED BY <1>0, <2>2, <3>1, <3>2
  <2>5. chain'[cur] # <<>> /\ Len(chain'[cur]) <= made'[cur]
    BY <1>0, <2>1, <2>2 DEF LastChunks
  <2>6. cur' = cur
    OBVIOUS
  <2> QED BY <2>3, <2>4, <2>5, <2>6 DEF LastChunks, Done
<1>2. CASE UNCHANGED <<made, chain>>
  BY <1>2 DEF LastChunks, Done, Ahead
<1> QED BY <1>1, <1>2

\* A session that is created is the next one.
LEMMA CreatedCur ==
  ASSUME TypeOK, PageInv, Created
  PROVE  /\ cur' \in Recordings /\ cur' = cur + 1
         /\ UNCHANGED <<made, chain, tries, raw, reqs>>
<1>1. cur' = cur + 1 /\ cur < MaxRecordings
  BY DEF Created, PageInv, PageRow
<1>2. cur \in 0..MaxRecordings /\ MaxRecordings \in Nat
  BY UploadAssumption DEF TypeOK, Ids
<1>3. cur + 1 \in 1..MaxRecordings
  BY <1>1, <1>2
<1>4. UNCHANGED <<made, chain, tries, raw, reqs>>
  BY DEF Created, chainVars
<1> QED BY <1>1, <1>3, <1>4 DEF Recordings

\* What the page does to a recording, without touching requests or audio.
LEMMA PageChainInv ==
  ASSUME TypeOK, PageInv, ChainInv, WholeInv,
         Start \/ MakeChunk \/ Stop \/ Discard \/ Reload \/ PageStep
  PROVE  ChainInv' /\ WholeInv'
<1> USE DEF Active, Whole, chainVars, serverVars
<1>1. CASE Created
  <2>0. cur' \in Recordings /\ cur' = cur + 1 /\ page' = "recording"
        /\ UNCHANGED <<made, chain, tries, raw, reqs>>
    BY <1>1, CreatedCur DEF Created
  <2>1. /\ made[cur'] = 0 /\ chain[cur'] = <<>> /\ tries[cur'] = 0 /\ raw[cur'] = <<>>
        /\ \A q \in reqs : q.rec # cur'
    <3>1. cur \in Nat
      BY <2>0 DEF Recordings, TypeOK, Ids
    <3>2. \A q \in reqs : q.rec \in Recordings
      BY RequestParts
    <3>3. cur + 1 \in Recordings /\ cur + 1 > cur /\ Untouched
      BY <2>0, <3>1 DEF PageInv
    <3>4. \A q \in reqs : q.rec # cur + 1
      BY <3>1, <3>2, <3>3 DEF Untouched, Recordings
    <3> QED BY <2>0, <3>3, <3>4 DEF Untouched
  <2>2. Done(cur)' = 0
    <3>1. Done(cur') = 0
      BY <2>0, <2>1, DoneAll
    <3> QED BY <2>0, <3>1 DEF Done
  <2>3. LastChunks'
    BY <2>0, <2>1, <2>2 DEF LastChunks
  <2>4. RequestsBegun' /\ AudioBegun'
    BY <2>0, <2>1 DEF RequestsBegun, AudioBegun
  <2> QED BY <2>2, <2>3, <2>4 DEF ChainInv, WholeInv
<1>2. CASE MakeChunk \/ Stop
  <2>1. /\ page = "recording" /\ page' \in {"recording", "stopping"} /\ cur \in Recordings
        /\ Emit(cur) \/ UNCHANGED <<made, chain>>
        /\ UNCHANGED <<cur, tries, chunkErr, raw, reqs>>
    BY <1>2 DEF MakeChunk, Stop, StopRecorder, PageInv, PageRow
  <2>2. LastChunks' /\ Done(cur)' = Done(cur) /\ Ahead(cur)' = Ahead(cur)
    BY <2>1, EmitChain DEF ChainInv
  <2>3. RequestsBegun' /\ AudioBegun'
    BY <2>1, <2>2 DEF ChainInv, RequestsBegun, AudioBegun, Places
  <2>4. WholeInv'
    BY <2>1, <2>2 DEF WholeInv, Stored, Before, Places
  <2> QED BY <2>2, <2>3, <2>4 DEF ChainInv
<1>3. CASE Uploaded
  <2>1. CASE chunkErr
    BY <1>3, <2>1 DEF Uploaded, Rescue, ChainInv, WholeInv
  <2>2. CASE ~chunkErr
    <3>1. page = "stopping" /\ page' = "completing"
          /\ UNCHANGED <<cur, made, chain, tries, raw, reqs, chunkErr>>
      BY <1>3, <2>2 DEF Uploaded
    <3>2. ChainInv'
      BY <3>1 DEF ChainInv, LastChunks, RequestsBegun, AudioBegun, Done, Ahead, Places
    <3>3. WholeInv'
      <4>1. /\ Done(cur)' = Done(cur) /\ cur' = cur /\ Whole /\ cur \in Recordings
            /\ raw'[cur] = raw[cur]
        BY <2>2, <3>1 DEF Done, PageInv, PageRow
      <4> QED BY <4>1, SamePlaces DEF WholeInv
    <3> QED BY <3>2, <3>3
  <2> QED BY <2>1, <2>2
<1>4. CASE Start \/ CreateFails \/ Completed \/ CompleteFails \/ Discard \/ EraseFiles
           \/ EraseRow \/ DiscardFails \/ Reload
  <2>1. page' \in {"idle", "creating", "sent", "discarding", "erasing"}
    BY <1>4 DEF Start, CreateFails, Completed, CompleteFails, Discard, EraseFiles,
                EraseRow, DiscardFails, Reload, Rescue
  <2> QED BY <2>1 DEF ChainInv, WholeInv
<1> QED BY <1>1, <1>2, <1>3, <1>4 DEF PageStep

\* Completing finds everything stored.
LEMMA PageQueuedInv ==
  ASSUME TypeOK, PageInv, ChainInv, WholeInv, QueuedInv,
         Start \/ MakeChunk \/ Stop \/ Discard \/ Reload \/ PageStep
  PROVE  QueuedInv'
<1> USE DEF chainVars, serverVars
<1>0. /\ row \in [Ids -> {"none", "created", "queued", "gone"}]
      /\ made \in [Recordings -> 0..MaxChunks] /\ raw \in [Ids -> Seq(Chunk)]
      /\ PageRow /\ \A s \in Recordings : s \in Ids
  BY RecordingTypes DEF TypeOK, PageInv
<1>1. ASSUME NEW s \in Recordings, row[s] = "queued", UNCHANGED <<raw[s], made[s]>>
      PROVE  /\ \A i \in 1..made[s]' : Stored(s, i)'
             /\ \A i \in 1..(made[s]' - 1) : Before(s, i)'
  <2>1. \A i : Places(s, i)' = Places(s, i)
    BY <1>1 DEF Places
  <2> QED BY <1>1, <2>1 DEF QueuedInv, Stored, Before
<1>2. CASE Completed \/ CompleteFails
  <2>1. /\ page = "completing" /\ sid = cur /\ cur \in Recordings /\ UNCHANGED <<made, raw>>
        /\ row' = row \/ row' = [row EXCEPT ![cur] = "queued"]
    BY <1>0, <1>2 DEF Completed, CompleteFails, Rescue, PageRow
  <2>2. Done(cur) = made[cur] /\ made[cur] \in Nat
    BY <1>0, <2>1, RecordingTypes, DoneAll DEF PageRow
  <2>3. ASSUME NEW s \in Recordings, s = cur
        PROVE  /\ \A i \in 1..made'[s] : Stored(s, i)'
               /\ \A i \in 1..(made'[s] - 1) : Before(s, i)'
    <3>1. \A i \in 1..made[s] : Stored(s, i) /\ Before(s, i)
      BY <2>1, <2>2, <2>3 DEF WholeInv, Whole
    <3>2. \A i \in 1..(made[s] - 1) : i \in 1..made[s]
      BY <2>2, <2>3
    <3> QED BY <2>1, <3>1, <3>2, SamePlaces
  <2>4. ASSUME NEW s \in Recordings, row'[s] = "queued"
        PROVE  s = cur \/ row[s] = "queued"
    <3>1. s # cur => row'[s] = row[s]
      BY <1>0, <2>1
    <3> QED BY <2>4, <3>1
  <2> QED BY <1>1, <2>1, <2>3, <2>4 DEF QueuedInv
<1>3. CASE Start \/ Created \/ CreateFails \/ MakeChunk \/ Stop \/ Uploaded \/ Discard
           \/ EraseFiles \/ EraseRow \/ DiscardFails \/ Reload
  <2>1. ASSUME NEW s \in Recordings, row'[s] = "queued" PROVE row[s] = "queued"
    BY <1>0, <1>3, <2>1
    DEF Start, Created, CreateFails, MakeChunk, Stop, Uploaded, Discard, EraseFiles,
        EraseRow, DiscardFails, Reload
  <2>2. ASSUME NEW s \in Recordings, row[s] = "queued" PROVE UNCHANGED <<raw[s], made[s]>>
    <3>1. CASE MakeChunk \/ Stop \/ Discard
      <4>1. /\ cur \in Recordings /\ row[cur] = "created" /\ raw' = raw
            /\ Emit(cur) \/ made' = made
        BY <1>0, <3>1 DEF MakeChunk, Stop, Discard, StopRecorder, PageRow, Active
      <4> QED BY <1>0, <2>2, <4>1 DEF Emit
    <3>2. CASE EraseFiles
      <4>1. sid = cur /\ row[cur] = "created"
        BY <1>0, <3>2 DEF EraseFiles, PageRow
      <4> QED BY <1>0, <2>2, <3>2, <4>1 DEF EraseFiles
    <3>3. CASE Start \/ Created \/ CreateFails \/ Uploaded \/ EraseRow \/ DiscardFails
               \/ Reload
      BY <3>3 DEF Start, Created, CreateFails, Uploaded, EraseRow, DiscardFails, Reload
    <3> QED BY <1>3, <3>1, <3>2, <3>3
  <2> QED BY <1>1, <2>1, <2>2 DEF QueuedInv
<1> QED BY <1>2, <1>3 DEF PageStep

\* The head of the chain is the first chunk not yet passed.
LEMMA HeadOfChain ==
  ASSUME TypeOK, cur \in Recordings, LastChunks, chain[cur] # <<>>
  PROVE  /\ Head(chain[cur]) = Done(cur) + 1
         /\ Len(Tail(chain[cur])) = Len(chain[cur]) - 1
         /\ \A i \in 1..Len(Tail(chain[cur])) : Tail(chain[cur])[i] = Done(cur) + 1 + i
<1>1. chain[cur] \in Seq(1..MaxChunks) /\ Len(chain[cur]) \in Nat /\ Done(cur) \in Int
  BY RecordingTypes
<1>2. Len(chain[cur]) >= 1
  BY <1>1
<1>3. Head(chain[cur]) = chain[cur][1] /\ Len(Tail(chain[cur])) = Len(chain[cur]) - 1
      /\ \A i \in 1..Len(Tail(chain[cur])) : Tail(chain[cur])[i] = chain[cur][i + 1]
  BY <1>1, <1>2
<1>4. \A i \in 1..Len(Tail(chain[cur])) : chain[cur][i + 1] = Done(cur) + (i + 1)
  BY <1>1, <1>3 DEF LastChunks
<1> QED BY <1>1, <1>2, <1>3, <1>4 DEF LastChunks

\* While the audio stays, so does what is known of it.
LEMMA WholeKept ==
  ASSUME WholeInv, UNCHANGED <<cur, raw>>, Whole' => Whole, Done(cur)' = Done(cur)
  PROVE  WholeInv'
<1>1. SUFFICES ASSUME Whole', NEW i \in 1..Done(cur) PROVE (Stored(cur, i) /\ Before(cur, i))'
  BY DEF WholeInv
<1>2. Stored(cur, i) /\ Before(cur, i)
  BY <1>1 DEF WholeInv
<1>3. Places(cur, i)' = Places(cur, i) /\ Places(cur, i + 1)' = Places(cur, i + 1)
  BY DEF Places
<1> QED BY <1>2, <1>3 DEF Stored, Before

\* Completed sessions stay as they are while nothing is stored.
LEMMA QueuedKept ==
  ASSUME QueuedInv, UNCHANGED <<row, made, raw>>
  PROVE  QueuedInv'
<1>1. SUFFICES ASSUME NEW s \in Recordings, row[s] = "queued"
               PROVE  /\ \A i \in 1..made[s] : Stored(s, i)'
                      /\ \A i \in 1..(made[s] - 1) : Before(s, i)'
  BY DEF QueuedInv
<1> QED BY <1>1, SamePlaces DEF QueuedInv

\* Sending a chunk keeps what is known of chain and files.
LEMMA BeginChainInv ==
  ASSUME TypeOK, PageInv, ChainInv, WholeInv, QueuedInv, NEW r \in Recordings, Begin(r)
  PROVE  ChainInv' /\ WholeInv' /\ QueuedInv'
<1>1. UNCHANGED <<page, sid, cur, made, chain, chunkErr, row, raw>>
  BY DEF Begin, pageVars, serverVars
<1>2. (Active' <=> Active) /\ (Whole' <=> Whole) /\ Done(cur)' = Done(cur)
  BY <1>1 DEF Active, Whole, Done
<1>3. QueuedInv' /\ WholeInv'
  BY <1>1, <1>2, WholeKept, QueuedKept
<1>4. ASSUME Active PROVE LastChunks' /\ RequestsBegun' /\ AudioBegun'
  <2>0. cur \in Recordings /\ sid = cur /\ LastChunks /\ RequestsBegun /\ AudioBegun
    BY <1>4 DEF Active, PageInv, PageRow, ChainInv
  <2>1. /\ chain[r] # <<>> /\ tries[r] = 0 /\ tries' = [tries EXCEPT ![r] = 1]
        /\ reqs' = reqs \cup {Put(r, 1, sid)}
        /\ tries \in [Recordings -> 0..Attempts]
    BY DEF Begin, TypeOK
  <2>2. Done(cur) \in Int /\ tries[cur] \in Nat
        /\ \A q \in reqs : q.chunk \in Nat
        /\ \A k \in DOMAIN raw[cur] : raw[cur][k][2] \in Nat
    <3>1. \A q \in reqs : q.chunk \in 1..MaxChunks
      BY RequestParts
    <3> QED BY <2>0, <3>1, RecordingTypes
  <2>3. Ahead(cur)' = (IF r = cur THEN Done(cur) + 1 ELSE Ahead(cur))
    BY <1>1, <1>2, <2>0, <2>1 DEF Ahead
  <2>4. Ahead(cur) \in Int /\ Ahead(cur)' \in Int /\ Ahead(cur) <= Ahead(cur)'
    BY <2>0, <2>1, <2>2, <2>3, RecordingTypes DEF Ahead
  <2>5. LastChunks'
    <3>1. chain'[cur'] = chain[cur] /\ cur' = cur /\ made'[cur'] = made[cur]
      BY <1>1
    <3>2. (tries[cur] > 0 => chain[cur] # <<>>)'
      BY <2>0, <2>1, <3>1 DEF LastChunks
    <3>3. (Len(chain[cur]) <= made[cur])'
      BY <2>0, <3>1 DEF LastChunks
    <3>4. (\A i \in 1..Len(chain[cur]) : chain[cur][i] = Done(cur) + i)'
      BY <1>2, <2>0, <3>1 DEF LastChunks
    <3> QED BY <3>2, <3>3, <3>4 DEF LastChunks
  <2>6. AudioBegun'
    <3>1. ASSUME NEW k \in DOMAIN raw[cur], raw[cur][k][1] = cur
          PROVE  raw[cur][k][2] <= Ahead(cur)'
      <4>1. raw[cur][k][2] <= Ahead(cur)
        BY <2>0, <3>1 DEF AudioBegun
      <4>2. raw[cur][k][2] \in Nat
        BY <2>0, <3>1, RecordingTypes
      <4> QED BY <2>4, <4>1, <4>2
    <3> QED BY <1>1, <3>1 DEF AudioBegun
  <2>7. RequestsBegun'
    <3>1. Put(r, 1, sid).rec = r /\ Put(r, 1, sid).to = cur /\ Put(r, 1, sid).phase = "sent"
          /\ Put(r, 1, sid).chunk = Head(chain[r])
      BY <2>0 DEF Put
    <3>2. r = cur => Head(chain[r]) = Ahead(cur)'
      BY <2>0, <2>1, <2>3, HeadOfChain
    <3>3. \A i : Places(cur, i)' = Places(cur, i)
      BY <1>1 DEF Places
    <3>4. ASSUME NEW q \in reqs', q.rec = cur
          PROVE  /\ q.to = cur /\ q.chunk <= Ahead(cur)'
                 /\ q.phase \in {"commit", "ok", "error"} => Places(cur, q.chunk) # {}
      <4>1. CASE q \in reqs
        BY <2>0, <2>2, <2>4, <3>4, <4>1 DEF RequestsBegun
      <4>2. CASE q = Put(r, 1, sid)
        BY <2>4, <3>1, <3>2, <3>4, <4>2
      <4> QED BY <2>1, <3>4, <4>1, <4>2
    <3> QED BY <1>1, <3>3, <3>4 DEF RequestsBegun
  <2> QED BY <2>5, <2>6, <2>7
<1> QED BY <1>2, <1>3, <1>4 DEF ChainInv

\* What the page does about the requests of another recording leaves the one at work
\* alone.
LEMMA OtherRecording ==
  ASSUME TypeOK, PageInv, ChainInv, WholeInv, NEW q \in reqs,
         UNCHANGED <<pageVars, serverVars>>,
         Dropped \/ (q.rec # cur /\ Awaited(q) /\ (Passed(q) \/ Resent(q)))
  PROVE  ChainInv' /\ WholeInv'
<1>1. UNCHANGED <<page, sid, cur, made, row, raw>>
  BY DEF pageVars, serverVars
<1>2. Active' <=> Active
  BY <1>1 DEF Active
<1>3. cur \in Recordings => chain'[cur] = chain[cur] /\ tries'[cur] = tries[cur]
  <2>1. CASE Dropped
    BY <2>1 DEF Dropped, chainVars
  <2>2. CASE q.rec # cur /\ Passed(q)
    BY <2>2 DEF Passed, Advance, TypeOK
  <2>3. CASE q.rec # cur /\ Resent(q)
    BY <2>3 DEF Resent, TypeOK
  <2> QED BY <2>1, <2>2, <2>3
<1>4. Whole' => Whole
  BY <1>1 DEF Whole, Dropped, Passed, Resent, chainVars
<1>5. ASSUME Active PROVE LastChunks' /\ RequestsBegun' /\ AudioBegun'
  <2>0. cur \in Recordings /\ LastChunks /\ RequestsBegun /\ AudioBegun
    BY <1>5 DEF Active, PageInv, PageRow, ChainInv
  <2>1. /\ Done(cur)' = Done(cur) /\ Ahead(cur)' = Ahead(cur)
        /\ \A i : Places(cur, i)' = Places(cur, i)
    BY <1>1, <1>3, <2>0 DEF Done, Ahead, Places
  <2>2. Put(q.rec, q.try + 1, q.to).rec = q.rec
    BY DEF Put
  <2>3. \A p \in reqs' : p.rec = cur => p \in reqs
    BY <2>2 DEF Dropped, Passed, Resent
  <2>4. RequestsBegun'
    BY <1>1, <2>0, <2>1, <2>3 DEF RequestsBegun
  <2>5. LastChunks' /\ AudioBegun'
    BY <1>1, <1>3, <2>0, <2>1 DEF LastChunks, AudioBegun
  <2> QED BY <2>4, <2>5
<1>6. ASSUME Whole PROVE WholeInv'
  <2>0. cur \in Recordings
    BY <1>6 DEF Whole, PageInv, PageRow
  <2>1. Done(cur)' = Done(cur)
    BY <1>1, <1>3, <2>0 DEF Done
  <2> QED BY <1>1, <1>4, <2>1, WholeKept
<1> QED BY <1>2, <1>4, <1>5, <1>6 DEF ChainInv, WholeInv

\* The recording at work: its head is over, and then it is stored, or given up.
LEMMA OwnHeadPassed ==
  ASSUME TypeOK, PageInv, ChainInv, WholeInv, Active, NEW q \in reqs, q.rec = cur,
         UNCHANGED <<pageVars, serverVars>>, Awaited(q), Passed(q)
  PROVE  ChainInv' /\ WholeInv'
<1>0. /\ cur \in Recordings /\ LastChunks /\ RequestsBegun /\ AudioBegun
      /\ UNCHANGED <<page, sid, cur, made, row, raw>>
  BY DEF Active, PageInv, PageRow, ChainInv, pageVars, serverVars
<1>1. /\ chain[cur] # <<>> /\ Head(chain[cur]) = q.chunk /\ tries[cur] = q.try
      /\ q.try \in 1..Attempts
  BY RequestParts DEF Awaited
<1>2. /\ chain'[cur] = Tail(chain[cur]) /\ tries'[cur] = 0
      /\ reqs' \subseteq reqs
  BY <1>0 DEF Passed, Advance, TypeOK
<1>3. /\ q.chunk = Done(cur) + 1 /\ Ahead(cur) = Done(cur) + 1 /\ Done(cur) \in Nat
      /\ made[cur] \in Nat /\ Len(chain[cur]) \in Nat
      /\ Len(chain'[cur]) = Len(chain[cur]) - 1
      /\ \A i \in 1..Len(chain'[cur]) : chain'[cur][i] = Done(cur) + 1 + i
  <2>1. made[cur] \in Nat /\ Len(chain[cur]) \in Nat /\ Done(cur) \in Int /\ tries[cur] # 0
    BY <1>0, <1>1, RecordingTypes
  <2>2. Done(cur) \in Nat
    BY <1>0, <2>1 DEF LastChunks, Done
  <2>3. Ahead(cur) = Done(cur) + 1
    BY <2>1 DEF Ahead
  <2> QED BY <1>0, <1>1, <1>2, <2>1, <2>2, <2>3, HeadOfChain
<1>4. Done(cur)' = Done(cur) + 1 /\ Ahead(cur)' = Ahead(cur)
  BY <1>0, <1>2, <1>3 DEF Done, Ahead
<1>5. LastChunks'
  <2>1. Len(chain'[cur]) <= made[cur]
    BY <1>0, <1>3 DEF LastChunks
  <2>2. chain'[cur'] = chain'[cur] /\ made'[cur'] = made[cur] /\ tries'[cur'] = 0
    BY <1>0, <1>2
  <2>3. Len(chain[cur])' <= made[cur]' /\ ~(tries[cur]' > 0)
    BY <2>1, <2>2
  <2>4. \A i \in 1..Len(chain[cur])' : chain[cur]'[i] = Done(cur)' + i
    BY <1>0, <1>3, <1>4
  <2> QED BY <2>3, <2>4 DEF LastChunks
<1>6. RequestsBegun' /\ AudioBegun'
  BY <1>0, <1>2, <1>4 DEF RequestsBegun, AudioBegun, Places
<1>7. WholeInv'
  <2>1. SUFFICES ASSUME Whole' PROVE WholeInv'
    BY DEF WholeInv
  <2>2. page # "completing"
    BY <1>1 DEF PageInv, PageRow
  <2>3. Whole /\ q.phase = "ok"
    BY <1>0, <2>1, <2>2 DEF Whole, Passed
  <2>4. Stored(cur, Done(cur) + 1)
    BY <1>0, <1>3, <2>3 DEF RequestsBegun, Stored
  <2>5. Before(cur, Done(cur) + 1)
    <3>1. Places(cur, Done(cur) + 2) = {}
      BY <1>0, <1>3 DEF AudioBegun, Places
    <3>2. PICK k : k \in Places(cur, Done(cur) + 1)
      BY <2>4 DEF Stored
    <3> QED BY <1>3, <3>1, <3>2 DEF Before
  <2>6. \A i \in 1..(Done(cur) + 1) : Stored(cur, i) /\ Before(cur, i)
    BY <1>3, <2>3, <2>4, <2>5 DEF WholeInv
  <2>7. ASSUME NEW i \in 1..Done(cur)' PROVE (Stored(cur, i) /\ Before(cur, i))'
    <3>1. Places(cur, i)' = Places(cur, i) /\ Places(cur, i + 1)' = Places(cur, i + 1)
      BY <1>0 DEF Places
    <3>2. Stored(cur, i) /\ Before(cur, i)
      BY <1>4, <2>6, <2>7
    <3> QED BY <3>1, <3>2 DEF Stored, Before
  <2> QED BY <2>7 DEF WholeInv
<1> QED BY <1>5, <1>6, <1>7 DEF ChainInv

\* ... or it is sent again.
LEMMA OwnHeadResent ==
  ASSUME TypeOK, PageInv, ChainInv, WholeInv, Active, NEW q \in reqs, q.rec = cur,
         UNCHANGED <<pageVars, serverVars>>, Awaited(q), Resent(q)
  PROVE  ChainInv' /\ WholeInv'
<1>0. /\ cur \in Recordings /\ LastChunks /\ RequestsBegun /\ AudioBegun
      /\ UNCHANGED <<page, sid, cur, made, row, raw, chain, chunkErr>>
  BY DEF Active, PageInv, PageRow, ChainInv, pageVars, serverVars, Resent
<1>1. /\ chain[cur] # <<>> /\ Head(chain[cur]) = q.chunk /\ tries[cur] = q.try
      /\ q.try \in Nat \ {0} /\ tries'[cur] = q.try + 1
  <2>1. q.try \in Nat \ {0}
    <3>1. q.try \in 1..Attempts
      BY RequestParts
    <3> QED BY <3>1, UploadAssumption
  <2> QED BY <1>0, <2>1 DEF Awaited, Resent, TypeOK
<1>2. /\ Done(cur)' = Done(cur) /\ Ahead(cur)' = Ahead(cur)
      /\ \A i : Places(cur, i)' = Places(cur, i)
  BY <1>0, <1>1 DEF Done, Ahead, Places
<1>3. LastChunks' /\ AudioBegun'
  BY <1>0, <1>1, <1>2 DEF LastChunks, AudioBegun
<1>4. RequestsBegun'
  <2> DEFINE p == Put(q.rec, q.try + 1, q.to)
  <2>1. p.to = q.to /\ p.phase = "sent" /\ p.chunk = q.chunk
    BY <1>1 DEF Put
  <2>2. reqs' \subseteq reqs \cup {p}
    BY DEF Resent
  <2> HIDE DEF p
  <2> QED BY <1>0, <1>2, <2>1, <2>2 DEF RequestsBegun
<1>5. WholeInv'
  BY <1>0, <1>2, WholeKept DEF Whole
<1> QED BY <1>3, <1>4, <1>5 DEF ChainInv

\* So does an answer or its loss,
LEMMA AnswerChainInv ==
  ASSUME TypeOK, PageInv, ChainInv, WholeInv, QueuedInv, NEW q \in reqs,
         Answer(q) \/ NetworkFails(q) \/ Forget(q)
  PROVE  ChainInv' /\ WholeInv' /\ QueuedInv'
<1>1. /\ UNCHANGED <<pageVars, serverVars>>
      /\ Dropped \/ (Awaited(q) /\ (Passed(q) \/ Resent(q)))
  BY AnswerCases
<1>2. QueuedInv'
  BY <1>1, QueuedKept DEF pageVars, serverVars
<1>3. CASE Dropped \/ q.rec # cur
  BY <1>1, <1>2, <1>3, OtherRecording
<1>4. CASE Active /\ q.rec = cur
  BY <1>1, <1>2, <1>4, OtherRecording, OwnHeadPassed, OwnHeadResent
<1>5. CASE ~Active
  <2>1. ~Active' /\ ~Whole'
    BY <1>1, <1>5 DEF Active, Whole, pageVars
  <2> QED BY <1>2, <2>1 DEF ChainInv, WholeInv
<1> QED BY <1>3, <1>4, <1>5

\* Whatever the server does with a request: what is stored stays, where it is.
LEMMA HandledPlaces ==
  ASSUME TypeOK, NEW q \in reqs, NEW phase \in Phases, Handled(q, phase),
         NEW s \in Recordings
  PROVE  /\ \A i \in Nat : Stored(s, i) => Stored(s, i)'
         /\ \A i \in Nat : Stored(s, i) /\ Before(s, i) => Before(s, i)'
         /\ \A k \in DOMAIN raw'[s] :
              \/ k \in DOMAIN raw[s] /\ raw'[s][k] = raw[s][k]
              \/ q.to = s /\ raw'[s][k] = <<q.rec, q.chunk>>
         /\ q.phase # "commit" /\ phase \in {"commit", "ok", "error"} /\ q.to = s /\ q.rec = s
              => Stored(s, q.chunk)'
<1>1. CASE raw' = raw
  <2>1. phase \notin {"commit", "ok", "error"} \/ q.phase = "commit"
    <3>1. CASE Appended(q)
      <4>1. q.to \in Ids /\ raw[q.to] \in Seq(Chunk) /\ raw \in [Ids -> Seq(Chunk)]
            /\ <<q.rec, q.chunk>> \in Chunk
        BY RequestParts DEF TypeOK
      <4>2. Append(raw[q.to], <<q.rec, q.chunk>>) = raw[q.to]
        BY <1>1, <3>1, <4>1 DEF Appended
      <4>3. Len(Append(raw[q.to], <<q.rec, q.chunk>>)) = Len(raw[q.to]) + 1
            /\ Len(raw[q.to]) \in Nat
        BY <4>1
      <4> QED BY <4>2, <4>3
    <3> QED BY <3>1 DEF Handled
  <2> QED BY <1>1, <2>1, SamePlaces
<1>2. CASE Appended(q)
  <2>1. q.to \in Ids /\ <<q.rec, q.chunk>> \in Chunk /\ q.chunk \in Nat
    <3>1. q.to \in Ids /\ <<q.rec, q.chunk>> \in Chunk /\ q.chunk \in 1..MaxChunks
      BY RequestParts
    <3> QED BY <3>1
  <2>2. raw' = [raw EXCEPT ![q.to] = Append(@, <<q.rec, q.chunk>>)]
    BY <1>2 DEF Appended
  <2>3. q.to = s /\ q.rec = s => Stored(s, q.chunk)'
    BY <2>1, <2>2, AppendPlaces
  <2>4. /\ \A i \in Nat : Stored(s, i) => Stored(s, i)'
        /\ \A i \in Nat : Stored(s, i) /\ Before(s, i) => Before(s, i)'
    BY <2>1, <2>2, AppendPlaces
  <2>5. \A k \in DOMAIN raw'[s] :
          \/ k \in DOMAIN raw[s] /\ raw'[s][k] = raw[s][k]
          \/ q.to = s /\ raw'[s][k] = <<q.rec, q.chunk>>
    BY <2>1, <2>2, AppendPlaces
  <2> QED BY <2>3, <2>4, <2>5
<1> QED BY <1>1, <1>2 DEF Handled

\* and serving a request.
LEMMA ServeChainInv ==
  ASSUME TypeOK, PageInv, ChainInv, WholeInv, QueuedInv, NEW q \in reqs,
         Check(q) \/ Store(q) \/ Commit(q)
  PROVE  ChainInv' /\ WholeInv' /\ QueuedInv'
<1>1. PICK phase \in Phases :
        Handled(q, phase) /\ UNCHANGED <<pageVars, chainVars, row>>
  BY ServeCases
<1>2. UNCHANGED <<page, sid, cur, made, chain, tries, chunkErr, row>>
  BY <1>1 DEF pageVars, chainVars
<1>3. (Active' <=> Active) /\ (Whole' <=> Whole) /\ Done(cur)' = Done(cur)
      /\ Ahead(cur)' = Ahead(cur)
  BY <1>2 DEF Active, Whole, Done, Ahead
<1>4. QueuedInv'
  <2>1. SUFFICES ASSUME NEW s \in Recordings, row[s] = "queued"
                 PROVE  /\ \A i \in 1..made[s] : Stored(s, i)'
                        /\ \A i \in 1..(made[s] - 1) : Before(s, i)'
    BY <1>2 DEF QueuedInv
  <2>2. \A i \in 1..made[s] : Stored(s, i)
    BY <2>1 DEF QueuedInv
  <2>3. \A i \in 1..(made[s] - 1) : Stored(s, i) /\ Before(s, i)
    BY <2>1, RecordingTypes DEF QueuedInv
  <2> QED BY <1>1, <2>2, <2>3, HandledPlaces
<1>5. WholeInv'
  <2>1. SUFFICES ASSUME Whole, NEW i \in 1..Done(cur) PROVE (Stored(cur, i) /\ Before(cur, i))'
    BY <1>3 DEF WholeInv
  <2>2. cur \in Recordings /\ Stored(cur, i) /\ Before(cur, i) /\ i \in Nat
    BY <2>1 DEF WholeInv, Whole, PageInv, PageRow
  <2>3. ASSUME NEW s \in Recordings, s = cur PROVE Stored(s, i)' /\ Before(s, i)'
    BY <1>1, <2>2, <2>3, HandledPlaces
  <2> QED BY <1>2, <2>2, <2>3
<1>6. ASSUME Active PROVE LastChunks' /\ RequestsBegun' /\ AudioBegun'
  <2>0. cur \in Recordings /\ LastChunks /\ RequestsBegun /\ AudioBegun
    BY <1>6 DEF Active, PageInv, PageRow, ChainInv
  <2>1. LastChunks'
    BY <1>2, <1>3, <2>0 DEF LastChunks
  <2>2. AudioBegun'
    <3>1. ASSUME NEW s \in Recordings, s = cur, NEW k \in DOMAIN raw'[s], raw'[s][k][1] = s
          PROVE  raw'[s][k][2] <= Ahead(cur)
      <4>1. CASE k \in DOMAIN raw[s] /\ raw'[s][k] = raw[s][k]
        BY <2>0, <3>1, <4>1 DEF AudioBegun
      <4>2. CASE q.to = s /\ raw'[s][k] = <<q.rec, q.chunk>>
        <5>1. q.rec = cur /\ raw'[s][k][2] = q.chunk
          BY <3>1, <4>2
        <5> QED BY <2>0, <5>1 DEF RequestsBegun
      <4> QED BY <1>1, <3>1, <4>1, <4>2, HandledPlaces
    <3> QED BY <1>2, <1>3, <2>0, <3>1 DEF AudioBegun
  <2>3. ASSUME NEW p \in reqs', p.rec = cur
        PROVE  /\ p.to = cur /\ p.chunk <= Ahead(cur)
               /\ p.phase \in {"commit", "ok", "error"} => Places(cur, p.chunk)' # {}
    <3>0. q.chunk \in Nat
      <4>1. q.chunk \in 1..MaxChunks
        BY RequestParts
      <4> QED BY <4>1
    <3>1. ASSUME NEW s \in Recordings, s = cur, NEW c \in Nat, Stored(s, c)
          PROVE  Places(s, c)' # {}
      BY <1>1, <3>1, HandledPlaces DEF Stored
    <3>2. CASE p \in reqs
      <4>1. /\ p.to = cur /\ p.chunk <= Ahead(cur) /\ p.chunk \in Nat
            /\ p.phase \in {"commit", "ok", "error"} => Stored(cur, p.chunk)
        <5>1. p.chunk \in 1..MaxChunks
          BY <3>2, RequestParts
        <5> QED BY <2>0, <2>3, <3>2, <5>1 DEF RequestsBegun, Stored
      <4> QED BY <1>2, <2>0, <3>1, <4>1
    <3>3. CASE p.rec = q.rec /\ p.chunk = q.chunk /\ p.to = q.to /\ p.phase = phase
      <4>1. /\ q.rec = cur /\ p.to = cur /\ p.chunk <= Ahead(cur)
            /\ q.phase = "commit" => Stored(cur, q.chunk)
        BY <2>0, <2>3, <3>3 DEF RequestsBegun, Stored
      <4>2. ASSUME NEW s \in Recordings, s = cur, phase \in {"commit", "ok", "error"}
            PROVE  Places(s, q.chunk)' # {}
        <5>1. CASE q.phase = "commit"
          BY <3>0, <3>1, <4>1, <4>2, <5>1, SMTT(30)
        <5>2. CASE q.phase # "commit"
          BY <1>1, <2>0, <3>3, <4>1, <4>2, <5>2, HandledPlaces DEF Stored
        <5> QED BY <5>1, <5>2
      <4> QED BY <1>2, <2>0, <3>3, <4>1, <4>2
    <3> QED BY <1>1, <3>2, <3>3, ReplyKeeps DEF Handled
  <2>4. RequestsBegun'
    BY <1>2, <1>3, <2>3 DEF RequestsBegun
  <2> QED BY <2>1, <2>2, <2>4
<1> QED BY <1>3, <1>4, <1>5, <1>6 DEF ChainInv

\* So does every step.
LEMMA StepUInv == UInv /\ [Next]_vars => UInv'
<1> SUFFICES ASSUME UInv, [Next]_vars PROVE UInv'
  OBVIOUS
<1>0. TypeOK /\ PageInv /\ ChainInv /\ WholeInv /\ QueuedInv
  BY DEF UInv
<1>1. TypeOK' /\ PageInv'
  BY <1>0, StepTypeOK, StepPageInv
<1>2. ChainInv' /\ WholeInv' /\ QueuedInv'
  <2>1. CASE UNCHANGED vars
    <3>1. (Active' <=> Active) /\ (Whole' <=> Whole) /\ Done(cur)' = Done(cur)
          /\ UNCHANGED <<cur, made, chain, tries, reqs, raw, row>>
      BY <2>1 DEF vars, pageVars, chainVars, serverVars, Active, Whole, Done
    <3>2. QueuedInv' /\ WholeInv'
      BY <1>0, <3>1, WholeKept, QueuedKept
    <3>3. ChainInv'
      BY <1>0, <3>1 DEF ChainInv, LastChunks, RequestsBegun, AudioBegun, Ahead, Done, Places
    <3> QED BY <3>2, <3>3
  <2>2. CASE Start \/ MakeChunk \/ Stop \/ Discard \/ Reload \/ PageStep
    BY <1>0, <2>2, PageChainInv, PageQueuedInv
  <2> QED BY <1>0, <2>1, <2>2, BeginChainInv, AnswerChainInv, ServeChainInv DEF Next
<1> QED BY <1>1, <1>2 DEF UInv

\* It holds throughout.
LEMMA UInvHolds == Spec => []UInv
<1>1. Init => UInv
  BY InitTypeOK, InitPageInv, InitChain DEF UInv
<1> QED BY <1>1, StepUInv, PTL DEF Spec

\* A session whose upload was completed misses no chunk and has them in order, whatever
\* had to be sent again.
THEOREM NothingIsMissing == Spec => []NothingMissing
<1>1. UInv => NothingMissing
  <2>1. SUFFICES ASSUME UInv, NEW s \in Recordings, row[s] = "queued", NEW i \in 1..made[s]
                 PROVE  /\ Places(s, i) # {}
                        /\ i > 1 => \E k \in Places(s, i - 1) : \A l \in Places(s, i) : k < l
    BY DEF NothingMissing
  <2>2. QueuedInv /\ made[s] \in Nat
    BY <2>1, RecordingTypes DEF UInv
  <2>3. Places(s, i) # {}
    BY <2>1, <2>2 DEF QueuedInv, Stored
  <2>4. ASSUME i > 1 PROVE \E k \in Places(s, i - 1) : \A l \in Places(s, i) : k < l
    <3>1. i - 1 \in 1..(made[s] - 1) /\ (i - 1) + 1 = i
      BY <2>2, <2>4
    <3>2. Before(s, i - 1)
      BY <2>1, <2>2, <3>1 DEF QueuedInv
    <3> QED BY <3>1, <3>2 DEF Before
  <2> QED BY <2>3, <2>4
<1> QED BY <1>1, UInvHolds, PTL

-----------------------------------------------------------------------------
(* A network that fails only before a call is served *)

PassedOnce(q) == Passed(q) /\ reqs' = reqs \ {q}
DroppedOnce(q) == Dropped /\ ~Awaited(q) /\ reqs' = reqs \ {q}
ResentOnce(q) ==
  /\ Resent(q) /\ q.phase \in {"sent", "error"}
  /\ reqs' = (reqs \ {q}) \cup {Put(q.rec, q.try + 1, q.to)}

\* The same of an answer when calls that fail were not served.
LEMMA AnswerOnceCases ==
  ASSUME TypeOK, ~AnswersLost, NEW q \in reqs, Answer(q) \/ NetworkFails(q) \/ Forget(q)
  PROVE  /\ UNCHANGED <<pageVars, serverVars>>
         /\ DroppedOnce(q) \/ (Awaited(q) /\ (PassedOnce(q) \/ ResentOnce(q)))
<1>0. q.rec \in Recordings /\ tries \in [Recordings -> 0..Attempts]
  BY RequestParts DEF TypeOK
<1>1. ASSUME TryAgain(q, reqs \ {q}), Awaited(q), UNCHANGED target,
             q.phase \in {"sent", "error"}
      PROVE  PassedOnce(q) \/ ResentOnce(q)
  BY <1>0, <1>1 DEF TryAgain, PassedOnce, ResentOnce, Passed, Resent, Awaited
<1>2. CASE Answer(q)
  <2>1. (TryAgain(q, reqs \ {q}) /\ q.phase = "error") \/ PassedOnce(q)
    BY <1>2 DEF Answer, Passed, PassedOnce
  <2> QED BY <1>1, <1>2, <2>1 DEF Answer
<1>3. CASE NetworkFails(q)
  <2>1. TryAgain(q, reqs \ {q}) /\ q.phase = "sent"
    BY <1>3 DEF NetworkFails
  <2> QED BY <1>1, <1>3, <2>1 DEF NetworkFails
<1>4. CASE Forget(q)
  BY <1>4 DEF Forget, Dropped, DroppedOnce
<1> QED BY <1>2, <1>3, <1>4

\* The page: a completed recording has an empty chain, so nothing is waited for.
LEMMA PageOneRequest ==
  ASSUME TypeOK, PageInv, OneRequest,
         Start \/ MakeChunk \/ Stop \/ Discard \/ Reload \/ PageStep
  PROVE  OneRequest'
<1> USE DEF Active, chainVars, serverVars
<1>0. /\ row \in [Ids -> {"none", "created", "queued", "gone"}]
      /\ chain \in [Recordings -> Seq(1..MaxChunks)]
      /\ \A s \in Recordings : s \in Ids
      /\ PageRow
      /\ \A q \in reqs : q.rec \in Recordings
  BY RecordingTypes, RequestParts DEF TypeOK, PageInv
<1>1. reqs' = reqs
  BY DEF Start, MakeChunk, Stop, Discard, Reload, PageStep, Created, CreateFails, Uploaded,
         Completed, CompleteFails, EraseFiles, EraseRow, DiscardFails
<1>2. NoneLeft'
  <2>1. CASE Completed \/ CompleteFails
    <3>1. /\ page = "completing" /\ sid = cur /\ cur \in Recordings /\ chain[cur] = <<>>
          /\ row' = row \/ row' = [row EXCEPT ![cur] = "queued"]
      BY <1>0, <2>1 DEF Completed, CompleteFails, PageRow
    <3>2. \A q \in reqs : q.rec # cur
      BY <3>1 DEF OneRequest, HeadOnly, Awaited
    <3>3. ASSUME NEW s \in Recordings, row'[s] = "queued" PROVE s = cur \/ row[s] = "queued"
      <4>1. s # cur => row'[s] = row[s]
        BY <1>0, <3>1
      <4> QED BY <3>3, <4>1
    <3> QED BY <1>1, <3>2, <3>3 DEF OneRequest, NoneLeft
  <2>2. CASE ~(Completed \/ CompleteFails)
    <3>1. ASSUME NEW s \in Recordings, row'[s] = "queued" PROVE row[s] = "queued"
      BY <1>0, <2>2, <3>1
      DEF Start, Created, CreateFails, MakeChunk, Stop, Uploaded, Discard, EraseFiles,
          EraseRow, DiscardFails, Reload, PageStep
    <3> QED BY <1>1, <3>1 DEF OneRequest, NoneLeft
  <2> QED BY <2>1, <2>2
<1>3. ASSUME Active' PROVE HeadOnly'
  <2>1. CASE Created
    <3>1. cur' = cur + 1
      BY <2>1 DEF Created
    <3>2. \A q \in reqs : q.rec # cur + 1
      BY <1>0 DEF PageInv, Untouched, TypeOK, Recordings, Ids
    <3> QED BY <1>1, <3>1, <3>2 DEF HeadOnly
  <2>2. CASE ~Created
    <3>1. /\ Active /\ cur' = cur /\ tries' = tries /\ cur \in Recordings
          /\ Emit(cur) \/ chain' = chain
      BY <1>0, <1>3, <2>2
      DEF Start, CreateFails, MakeChunk, Stop, Uploaded, Discard, EraseFiles, EraseRow,
          DiscardFails, Reload, PageStep, Completed, CompleteFails, Rescue, StopRecorder,
          PageRow
    <3>2. chain[cur] # <<>> => chain'[cur] # <<>> /\ Head(chain'[cur]) = Head(chain[cur])
      <4>1. CASE chain' = chain
        BY <4>1
      <4>2. CASE Emit(cur)
        <5>1. chain'[cur] = Append(chain[cur], made[cur] + 1) /\ chain[cur] \in Seq(1..MaxChunks)
              /\ made[cur] + 1 \in 1..MaxChunks
          BY <1>0, <3>1, <4>2, UploadAssumption DEF Emit, TypeOK
        <5> QED BY <5>1
      <4> QED BY <3>1, <4>1, <4>2
    <3>3. \A q \in reqs : q.rec = cur /\ Awaited(q) => Awaited(q)'
      BY <3>1, <3>2 DEF Awaited
    <3> QED BY <1>1, <3>1, <3>3 DEF OneRequest, HeadOnly
  <2> QED BY <2>1, <2>2
<1> QED BY <1>2, <1>3 DEF OneRequest

\* Sending a chunk makes the one request there is for the head of the chain.
LEMMA BeginOneRequest ==
  ASSUME TypeOK, PageInv, OneRequest, NEW r \in Recordings, Begin(r)
  PROVE  OneRequest'
<1>1. /\ UNCHANGED <<page, cur, chain, row>> /\ reqs' = reqs \cup {Put(r, 1, sid)}
      /\ chain[r] # <<>> /\ tries[r] = 0 /\ tries' = [tries EXCEPT ![r] = 1]
      /\ tries \in [Recordings -> 0..Attempts]
  BY DEF Begin, pageVars, serverVars, TypeOK
<1>2. PICK new : new = Put(r, 1, sid)
  OBVIOUS
<1>3. /\ new.rec = r /\ new.phase = "sent" /\ new.try = 1 /\ new.chunk = Head(chain[r])
      /\ reqs' = reqs \cup {new}
  BY <1>1, <1>2 DEF Put
<1>4. NoneLeft'
  BY <1>1, <1>3 DEF OneRequest, NoneLeft, PageInv, Settled
<1>5. ASSUME Active PROVE HeadOnly'
  <2>0. HeadOnly /\ cur \in Recordings
    BY <1>5 DEF OneRequest, Active, PageInv, PageRow
  <2>1. CASE r = cur
    <3>1. ASSUME NEW q \in reqs PROVE q.rec # cur
      <4>1. q.try \in 1..Attempts
        BY RequestParts
      <4>2. q.try # 0
        BY <4>1
      <4> QED BY <1>1, <2>0, <2>1, <4>2 DEF HeadOnly, Awaited
    <3>2. Awaited(new)'
      BY <1>1, <1>3 DEF Awaited
    <3> QED BY <1>1, <1>3, <2>1, <3>1, <3>2 DEF HeadOnly
  <2>2. CASE r # cur
    <3>1. \A q \in reqs' : q.rec = cur => q \in reqs
      BY <1>3, <2>2
    <3>2. \A q \in reqs : q.rec = cur /\ Awaited(q) => Awaited(q)'
      BY <1>1, <2>0, <2>2 DEF Awaited
    <3> QED BY <1>1, <2>0, <3>1, <3>2 DEF HeadOnly
  <2> QED BY <2>1, <2>2
<1> QED BY <1>1, <1>4, <1>5 DEF OneRequest, Active

\* Is the recording at work waiting for q alone?
LEMMA OnlyOne ==
  ASSUME OneRequest, Active, NEW q \in reqs, q.rec = cur
  PROVE  Awaited(q) /\ q.phase # "error" /\ \A p \in reqs \ {q} : p.rec # cur
  BY DEF OneRequest, HeadOnly

\* An answer takes it away.
LEMMA AnswerOneRequest ==
  ASSUME TypeOK, PageInv, OneRequest, ~AnswersLost, NEW q \in reqs,
         Answer(q) \/ NetworkFails(q) \/ Forget(q)
  PROVE  OneRequest'
<1>1. /\ UNCHANGED <<page, cur, row>>
      /\ Dropped \/ (Awaited(q) /\ (PassedOnce(q) \/ ResentOnce(q)))
  BY AnswerOnceCases DEF pageVars, serverVars, DroppedOnce
<1>2. PICK new : new = Put(q.rec, q.try + 1, q.to)
  OBVIOUS
<1>3. /\ new.rec = q.rec /\ new.phase = "sent" /\ new.try = q.try + 1
      /\ new.chunk = Head(chain[q.rec])
  BY <1>2 DEF Put
<1>4. \A p \in reqs' : p \in reqs \/ (p = new /\ ResentOnce(q))
  BY <1>1, <1>2 DEF Dropped, PassedOnce, ResentOnce
<1>5. NoneLeft'
  BY <1>1, <1>3, <1>4 DEF OneRequest, NoneLeft
<1>6. ASSUME Active PROVE HeadOnly'
  <2>0. /\ HeadOnly /\ cur \in Recordings
        /\ chain \in [Recordings -> Seq(1..MaxChunks)] /\ tries \in [Recordings -> 0..Attempts]
    BY <1>6 DEF OneRequest, Active, PageInv, PageRow, TypeOK
  <2>1. ASSUME chain'[cur] = chain[cur], tries'[cur] = tries[cur],
               \A p \in reqs' : p.rec = cur => p \in reqs
        PROVE  HeadOnly'
    <3>1. \A p \in reqs : p.rec = cur /\ Awaited(p) => Awaited(p)'
      BY <1>1, <2>1 DEF Awaited
    <3> QED BY <1>1, <2>0, <2>1, <3>1 DEF HeadOnly
  <2>2. CASE Dropped
    BY <2>1, <2>2 DEF Dropped, chainVars
  <2>3. CASE q.rec # cur /\ PassedOnce(q)
    <3>1. chain'[cur] = chain[cur] /\ tries'[cur] = tries[cur] /\ reqs' \subseteq reqs
      BY <2>0, <2>3 DEF PassedOnce, Passed, Advance
    <3> QED BY <2>1, <3>1
  <2>4. CASE q.rec # cur /\ ResentOnce(q)
    <3>1. chain'[cur] = chain[cur] /\ tries'[cur] = tries[cur]
      BY <2>0, <2>4 DEF ResentOnce, Resent
    <3> QED BY <1>3, <1>4, <2>1, <2>4, <3>1
  <2>5. CASE q.rec = cur /\ PassedOnce(q)
    <3>1. \A p \in reqs' : p.rec # cur
      BY <1>6, <2>5, OnlyOne DEF PassedOnce
    <3> QED BY <1>1, <3>1 DEF HeadOnly
  <2>6. CASE q.rec = cur /\ ResentOnce(q)
    <3>1. \A p \in reqs' : p.rec = cur => p = new
      BY <1>2, <1>6, <2>6, OnlyOne DEF ResentOnce
    <3>2. Awaited(new)'
      <4>1. Awaited(q)
        BY <1>6, <2>6, OnlyOne
      <4> QED BY <1>3, <2>0, <2>6, <4>1 DEF Awaited, ResentOnce, Resent
    <3> QED BY <1>1, <1>3, <3>1, <3>2 DEF HeadOnly
  <2> QED BY <1>1, <2>2, <2>3, <2>4, <2>5, <2>6
<1> QED BY <1>1, <1>5, <1>6 DEF OneRequest, Active

\* Serving leaves it the only one.
LEMMA ServeOneRequest ==
  ASSUME TypeOK, PageInv, ChainInv, OneRequest, NEW q \in reqs,
         Check(q) \/ Store(q) \/ Commit(q)
  PROVE  OneRequest'
<1>1. PICK phase \in Phases :
        Handled(q, phase) /\ UNCHANGED <<pageVars, chainVars, row>>
  BY ServeCases
<1>2. UNCHANGED <<page, cur, chain, tries, row>>
  BY <1>1 DEF pageVars, chainVars
<1>3. PICK new : new = [q EXCEPT !.phase = phase]
  OBVIOUS
<1>4. /\ new.rec = q.rec /\ new.chunk = q.chunk /\ new.try = q.try /\ new.phase = phase
      /\ reqs' = (reqs \ {q}) \cup {new}
  <2>1. q \in Request
    BY RequestParts
  <2> QED BY <1>1, <1>3, <2>1 DEF Request, Handled, Reply
<1>5. NoneLeft'
  BY <1>2, <1>4 DEF OneRequest, NoneLeft
<1>6. ASSUME Active PROVE HeadOnly'
  <2>0. HeadOnly /\ cur \in Recordings
    BY <1>6 DEF OneRequest, Active, PageInv, PageRow
  <2>1. \A p \in reqs : p.rec = cur => Awaited(p)'
    BY <1>2, <2>0 DEF HeadOnly, Awaited
  <2>2. CASE q.rec # cur
    <3>1. \A p \in reqs' : p.rec = cur => p \in reqs
      BY <1>4, <2>2
    <3> QED BY <1>2, <2>0, <2>1, <3>1 DEF HeadOnly
  <2>3. CASE q.rec = cur
    <3>1. \A p \in reqs' : p.rec = cur => p = new
      BY <1>4, <1>6, <2>3, OnlyOne
    <3>2. Awaited(new)'
      BY <1>4, <2>1, <2>3 DEF Awaited
    <3>3. phase # "error"
      <4>1. q.to = cur /\ row[cur] = "created"
        BY <1>6, <2>3 DEF ChainInv, RequestsBegun, PageInv, PageRow
      <4> QED BY <1>1, <4>1 DEF Handled
    <3> QED BY <1>2, <1>4, <3>1, <3>2, <3>3 DEF HeadOnly
  <2> QED BY <2>2, <2>3
<1> QED BY <1>2, <1>5, <1>6 DEF OneRequest, Active

-----------------------------------------------------------------------------
(* What is stored is what was recorded *)

\* What is stored stays exact while chain and files stay as they are.
LEMMA ExactKept ==
  ASSUME ExactInv, UNCHANGED <<cur, raw>>, Whole' => Whole, Done(cur)' = Done(cur),
         Served(cur)' <=> Served(cur)
  PROVE  ExactInv'
<1>1. OwnAudio(cur)' <=> OwnAudio(cur)
  BY DEF OwnAudio
<1>2. SUFFICES ASSUME Whole, OwnAudio(cur)
               PROVE  /\ Len(raw[cur]) = (IF Served(cur) THEN Done(cur) + 1 ELSE Done(cur))
                      /\ \A k \in DOMAIN raw[cur] : raw[cur][k] = <<cur, k>>
  BY <1>1 DEF ExactInv
<1> QED BY <1>2 DEF ExactInv

\* Completed sessions stay exact while they stay as they are.
LEMMA RecordedKept ==
  ASSUME ExactlyRecorded,
         \A s \in Recordings : row'[s] = "queued" =>
           row[s] = "queued" /\ UNCHANGED <<made[s], raw[s]>>
  PROVE  ExactlyRecorded'
<1>1. SUFFICES ASSUME NEW s \in Recordings, row'[s] = "queued", OwnAudio(s)'
               PROVE  raw'[s] = Recorded(s)'
  BY DEF ExactlyRecorded
<1>2. row[s] = "queued" /\ made'[s] = made[s] /\ raw'[s] = raw[s]
  BY <1>1
<1>3. OwnAudio(s)
  BY <1>1, <1>2 DEF OwnAudio
<1>4. Recorded(s)' = Recorded(s)
  BY <1>2 DEF Recorded
<1> QED BY <1>2, <1>3, <1>4 DEF ExactlyRecorded

\* What the page does keeps the file exact,
LEMMA PageExactInv ==
  ASSUME TypeOK, PageInv, ChainInv, ExactInv,
         Start \/ MakeChunk \/ Stop \/ Discard \/ Reload \/ PageStep
  PROVE  ExactInv'
<1> USE DEF Active, Whole, chainVars, serverVars
<1>1. CASE Created
  <2>0. cur' \in Recordings /\ cur' = cur + 1 /\ UNCHANGED <<made, chain, tries, raw, reqs>>
    BY <1>1, CreatedCur
  <2>1. cur \in Nat /\ \A q \in reqs : q.rec \in Recordings
    <3>1. cur \in Nat
      BY DEF TypeOK, Ids
    <3> QED BY <3>1, RequestParts
  <2>2. cur + 1 \in Recordings /\ cur + 1 > cur /\ Untouched
    BY <2>0, <2>1 DEF PageInv
  <2>3. made[cur'] = 0 /\ chain[cur'] = <<>> /\ raw[cur'] = <<>>
    BY <2>0, <2>2 DEF Untouched
  <2>4. \A q \in reqs : q.rec # cur'
    BY <2>0, <2>1, <2>2 DEF Untouched, Recordings
  <2>5. Done(cur)' = 0
    <3>1. Done(cur') = 0
      BY <2>0, <2>3, DoneAll
    <3> QED BY <2>0, <3>1 DEF Done
  <2>6. ~Served(cur)'
    BY <2>0, <2>4 DEF Served
  <2>7. raw'[cur'] = <<>>
    BY <2>0, <2>3
  <2> QED BY <2>5, <2>6, <2>7 DEF ExactInv
<1>2. CASE MakeChunk \/ Stop
  <2>1. /\ page = "recording" /\ page' \in {"recording", "stopping"} /\ cur \in Recordings
        /\ Emit(cur) \/ UNCHANGED <<made, chain>>
        /\ UNCHANGED <<cur, tries, chunkErr, raw, reqs>>
    BY <1>2 DEF MakeChunk, Stop, StopRecorder, PageInv, PageRow
  <2>2. Done(cur)' = Done(cur)
    BY <2>1, EmitChain DEF ChainInv
  <2>3. Served(cur)' <=> Served(cur)
    BY <2>1 DEF Served
  <2> QED BY <2>1, <2>2, <2>3, ExactKept
<1>3. CASE Uploaded /\ ~chunkErr
  <2>1. page = "stopping" /\ page' = "completing"
        /\ UNCHANGED <<cur, made, chain, raw, reqs, chunkErr>>
    BY <1>3 DEF Uploaded
  <2>2. (Served(cur)' <=> Served(cur)) /\ Done(cur)' = Done(cur)
    BY <2>1 DEF Served, Done
  <2> QED BY <1>3, <2>1, <2>2, ExactKept
<1>4. CASE ~(Created \/ MakeChunk \/ Stop \/ (Uploaded /\ ~chunkErr))
  <2>1. page' \in {"idle", "creating", "sent", "discarding", "erasing"}
    BY <1>4 DEF Start, CreateFails, Completed, CompleteFails, Discard, EraseFiles,
                EraseRow, DiscardFails, Reload, Rescue, Uploaded, PageStep
  <2> QED BY <2>1 DEF ExactInv
<1> QED BY <1>1, <1>2, <1>3, <1>4

\* and completes exact files only.
LEMMA PageExactlyRecorded ==
  ASSUME TypeOK, PageInv, OneRequest, ExactInv, ExactlyRecorded,
         Start \/ MakeChunk \/ Stop \/ Discard \/ Reload \/ PageStep
  PROVE  ExactlyRecorded'
<1> USE DEF chainVars, serverVars
<1>0. /\ row \in [Ids -> {"none", "created", "queued", "gone"}]
      /\ made \in [Recordings -> 0..MaxChunks] /\ raw \in [Ids -> Seq(Chunk)]
      /\ PageRow /\ \A s \in Recordings : s \in Ids
  BY RecordingTypes DEF TypeOK, PageInv
<1>1. CASE Completed \/ CompleteFails
  <2>1. /\ page = "completing" /\ sid = cur /\ cur \in Recordings /\ chain[cur] = <<>>
        /\ UNCHANGED <<made, raw>>
        /\ row' = row \/ row' = [row EXCEPT ![cur] = "queued"]
    BY <1>0, <1>1 DEF Completed, CompleteFails, Rescue, PageRow
  <2>2. ~Served(cur)
    BY <2>1 DEF OneRequest, HeadOnly, Awaited, Active, Served
  <2>3. Done(cur) = made[cur] /\ made[cur] \in Nat
    BY <2>1, DoneAll, RecordingTypes
  <2>4. ASSUME OwnAudio(cur) PROVE raw[cur] = Recorded(cur)
    <3>1. Len(raw[cur]) = made[cur] /\ \A k \in DOMAIN raw[cur] : raw[cur][k] = <<cur, k>>
      BY <2>1, <2>2, <2>3, <2>4 DEF ExactInv, Whole
    <3>2. raw[cur] \in Seq(Chunk)
      BY <2>1, RecordingTypes
    <3>3. raw[cur] = [k \in 1..made[cur] |-> raw[cur][k]]
          /\ DOMAIN raw[cur] = 1..made[cur]
      BY <3>1, <3>2
    <3> QED BY <3>1, <3>3 DEF Recorded
  <2>5. ASSUME NEW s \in Recordings, row'[s] = "queued", OwnAudio(s)'
        PROVE  raw'[s] = Recorded(s)'
    <3>1. OwnAudio(s) /\ Recorded(s)' = Recorded(s) /\ raw'[s] = raw[s]
      BY <2>1, <2>5 DEF OwnAudio, Recorded
    <3>2. s # cur => row'[s] = row[s]
      BY <1>0, <2>1
    <3> QED BY <2>4, <2>5, <3>1, <3>2 DEF ExactlyRecorded
  <2> QED BY <2>5 DEF ExactlyRecorded
<1>2. CASE ~(Completed \/ CompleteFails)
  <2>1. ASSUME NEW s \in Recordings, row'[s] = "queued" PROVE row[s] = "queued"
    BY <1>0, <1>2, <2>1
    DEF Start, Created, CreateFails, MakeChunk, Stop, Uploaded, Discard, EraseFiles,
        EraseRow, DiscardFails, Reload, PageStep
  <2>2. ASSUME NEW s \in Recordings, row[s] = "queued" PROVE UNCHANGED <<made[s], raw[s]>>
    <3>1. CASE MakeChunk \/ Stop \/ Discard
      <4>1. /\ cur \in Recordings /\ row[cur] = "created" /\ raw' = raw
            /\ Emit(cur) \/ made' = made
        BY <1>0, <3>1 DEF MakeChunk, Stop, Discard, StopRecorder, PageRow, Active
      <4> QED BY <1>0, <2>2, <4>1 DEF Emit
    <3>2. CASE EraseFiles
      <4>1. sid = cur /\ row[cur] = "created"
        BY <1>0, <3>2 DEF EraseFiles, PageRow
      <4> QED BY <1>0, <2>2, <3>2, <4>1 DEF EraseFiles
    <3>3. CASE ~(MakeChunk \/ Stop \/ Discard \/ EraseFiles)
      BY <1>2, <3>3 DEF Start, Created, CreateFails, Uploaded, EraseRow, DiscardFails,
                        Reload, PageStep
    <3> QED BY <3>1, <3>2, <3>3
  <2> QED BY <2>1, <2>2, RecordedKept
<1> QED BY <1>1, <1>2

\* Sending a chunk keeps files exact.
LEMMA BeginExact ==
  ASSUME TypeOK, ExactInv, ExactlyRecorded, NEW r \in Recordings, Begin(r)
  PROVE  ExactInv' /\ ExactlyRecorded'
<1>1. UNCHANGED <<page, cur, made, chain, chunkErr, row, raw>>
      /\ reqs' = reqs \cup {Put(r, 1, sid)}
  BY DEF Begin, pageVars, serverVars
<1>2. Put(r, 1, sid).phase = "sent"
  BY DEF Put
<1>3. (Whole' <=> Whole) /\ Done(cur)' = Done(cur) /\ (Served(cur)' <=> Served(cur))
  BY <1>1, <1>2 DEF Whole, Done, Served
<1>4. ExactInv'
  BY <1>1, <1>3, ExactKept
<1>5. ExactlyRecorded'
  BY <1>1, RecordedKept
<1> QED BY <1>4, <1>5

\* So does an answer or its loss.
LEMMA AnswerExact ==
  ASSUME TypeOK, PageInv, ChainInv, OneRequest, ExactInv, ExactlyRecorded, ~AnswersLost,
         NEW q \in reqs, Answer(q) \/ NetworkFails(q) \/ Forget(q)
  PROVE  ExactInv' /\ ExactlyRecorded'
<1>1. /\ UNCHANGED <<page, cur, made, row, raw>>
      /\ DroppedOnce(q) \/ (Awaited(q) /\ (PassedOnce(q) \/ ResentOnce(q)))
  BY AnswerOnceCases DEF pageVars, serverVars
<1>2. ExactlyRecorded'
  BY <1>1, RecordedKept
<1>3. PICK new : new = Put(q.rec, q.try + 1, q.to)
  OBVIOUS
<1>4. new.rec = q.rec /\ new.phase = "sent"
  BY <1>3 DEF Put
<1>5. CASE ~Active
  BY <1>1, <1>2, <1>5 DEF Active, Whole, ExactInv
<1>6. CASE Active /\ q.rec # cur
  <2>1. Served(cur)' <=> Served(cur)
    <3>1. \A p : p.rec = cur => (p \in reqs' <=> p \in reqs)
      BY <1>1, <1>3, <1>4, <1>6 DEF DroppedOnce, PassedOnce, ResentOnce
    <3> QED BY <1>1, <3>1 DEF Served
  <2>2. cur \in Recordings /\ chain \in [Recordings -> Seq(1..MaxChunks)]
    BY <1>6 DEF Active, PageInv, PageRow, TypeOK
  <2>3. chain'[cur] = chain[cur] /\ (Whole' => Whole)
    BY <1>1, <1>6, <2>2
    DEF DroppedOnce, Dropped, PassedOnce, Passed, Advance, ResentOnce, Resent, Whole, chainVars
  <2>4. Done(cur)' = Done(cur)
    BY <1>1, <2>3 DEF Done
  <2> QED BY <1>1, <1>2, <2>1, <2>3, <2>4, ExactKept
<1>7. CASE Active /\ q.rec = cur /\ PassedOnce(q)
  <2>1. SUFFICES ASSUME Whole', OwnAudio(cur)'
                 PROVE  /\ Len(raw[cur])' = (IF Served(cur) THEN Done(cur) + 1 ELSE Done(cur))'
                        /\ (\A k \in DOMAIN raw[cur] : raw[cur][k] = <<cur, k>>)'
    BY <1>2 DEF ExactInv
  <2>2. Awaited(q)
    BY <1>7, OnlyOne
  <2>3. Whole /\ q.phase = "ok" /\ OwnAudio(cur)
    BY <1>1, <1>7, <2>1, <2>2 DEF Whole, PassedOnce, Passed, PageInv, PageRow, Awaited, OwnAudio
  <2>4. Served(cur)
    BY <1>7, <2>3 DEF Served
  <2>5. ~Served(cur)'
    BY <1>1, <1>7, OnlyOne DEF Served, PassedOnce
  <2>6. Done(cur)' = Done(cur) + 1
    <3>1. cur \in Recordings /\ LastChunks /\ chain[cur] # <<>>
      BY <1>7, <2>2 DEF Active, PageInv, PageRow, ChainInv, Awaited
    <3>2. chain'[cur] = Tail(chain[cur])
      BY <1>7, <3>1 DEF PassedOnce, Passed, Advance, TypeOK
    <3>3. Len(chain'[cur]) = Len(chain[cur]) - 1 /\ made[cur] \in Nat /\ Len(chain[cur]) \in Nat
      BY <3>1, <3>2, HeadOfChain, RecordingTypes
    <3> QED BY <1>1, <3>3 DEF Done
  <2> QED BY <1>1, <2>3, <2>4, <2>5, <2>6 DEF ExactInv
<1>8. CASE Active /\ q.rec = cur /\ ResentOnce(q)
  <2>1. q.phase = "sent" /\ \A p \in reqs : p.rec = cur => p = q
    BY <1>8, OnlyOne DEF ResentOnce
  <2>2. ~Served(cur) /\ ~Served(cur)'
    BY <1>1, <1>3, <1>4, <1>8, <2>1 DEF Served, ResentOnce
  <2>3. (Whole' <=> Whole) /\ Done(cur)' = Done(cur)
    BY <1>1, <1>8 DEF ResentOnce, Resent, Whole, Done
  <2> QED BY <1>1, <1>2, <2>2, <2>3, ExactKept
<1>9. CASE Active /\ q.rec = cur /\ DroppedOnce(q)
  BY <1>9, OnlyOne DEF DroppedOnce
<1> QED BY <1>1, <1>5, <1>6, <1>7, <1>8, <1>9

\* The chunk that is stored is the head of the chain, so it is the next one; a chunk of
\* another recording makes the audio mixed, which no claim is made about.
LEMMA ServeExact ==
  ASSUME TypeOK, PageInv, ChainInv, OneRequest, ExactInv, ExactlyRecorded,
         NEW q \in reqs, Check(q) \/ Store(q) \/ Commit(q)
  PROVE  ExactInv' /\ ExactlyRecorded'
<1>1. PICK phase \in Phases :
        Handled(q, phase) /\ UNCHANGED <<pageVars, chainVars, row>>
  BY ServeCases
<1>2. UNCHANGED <<page, cur, made, chain, chunkErr, row>>
  BY <1>1 DEF pageVars, chainVars
<1>3. PICK new : new = [q EXCEPT !.phase = phase]
  OBVIOUS
<1>4. new.rec = q.rec /\ new.phase = phase /\ reqs' = (reqs \ {q}) \cup {new}
  <2>1. q \in Request
    BY RequestParts
  <2> QED BY <1>1, <1>3, <2>1 DEF Request, Handled, Reply
<1>5. (Whole' <=> Whole) /\ Done(cur)' = Done(cur)
  BY <1>2 DEF Whole, Done
<1>6. q.to \in Ids /\ <<q.rec, q.chunk>> \in Chunk /\ raw \in [Ids -> Seq(Chunk)]
  BY RequestParts DEF TypeOK
<1>7. ASSUME NEW s \in Recordings, OwnAudio(s)', q.rec # s PROVE raw'[s] = raw[s]
  <2>1. CASE q.to = s /\ Appended(q)
    <3>1. raw'[s] = Append(raw[s], <<q.rec, q.chunk>>) /\ raw[s] \in Seq(Chunk)
      BY <1>6, <2>1 DEF Appended
    <3>2. /\ Len(raw[s]) + 1 \in DOMAIN raw'[s]
          /\ raw'[s][Len(raw[s]) + 1] = <<q.rec, q.chunk>>
      BY <1>6, <3>1
    <3>3. q.rec = s
      BY <1>7, <3>2 DEF OwnAudio
    <3> QED BY <1>7, <3>3
  <2>2. CASE q.to # s /\ Appended(q)
    BY <1>6, <2>2 DEF Appended
  <2> QED BY <1>1, <2>1, <2>2 DEF Handled
<1>8. ExactlyRecorded'
  <2>1. SUFFICES ASSUME NEW s \in Recordings, row[s] = "queued", OwnAudio(s)'
                 PROVE  raw'[s] = Recorded(s)'
    BY <1>2 DEF ExactlyRecorded
  <2>2. q.rec # s
    BY <2>1 DEF OneRequest, NoneLeft
  <2>3. raw'[s] = raw[s]
    BY <1>7, <2>1, <2>2
  <2>4. OwnAudio(s) /\ Recorded(s)' = Recorded(s)
    BY <1>2, <2>1, <2>3 DEF OwnAudio, Recorded
  <2> QED BY <2>1, <2>3, <2>4 DEF ExactlyRecorded
<1>9. ExactInv'
  <2>1. SUFFICES ASSUME Whole, NEW c \in Recordings, c = cur, OwnAudio(c)'
                 PROVE  /\ Len(raw'[c]) = (IF Served(c)' THEN Done(c) + 1 ELSE Done(c))
                        /\ \A k \in DOMAIN raw'[c] : raw'[c][k] = <<c, k>>
    <3>1. Whole => cur \in Recordings
      BY DEF Whole, PageInv, PageRow
    <3> QED BY <1>2, <1>5, <3>1 DEF ExactInv
  <2>2. Active
    BY <2>1 DEF Whole, Active
  <2>3. CASE q.rec # c
    <3>1. raw'[c] = raw[c]
      BY <1>7, <2>1, <2>3
    <3>2. OwnAudio(c)
      BY <2>1, <3>1 DEF OwnAudio
    <3>3. Served(c)' <=> Served(c)
      BY <1>4, <2>3 DEF Served
    <3> QED BY <2>1, <3>1, <3>2, <3>3 DEF ExactInv
  <2>4. CASE q.rec = c
    <3>1. Awaited(q) /\ \A p \in reqs \ {q} : p.rec # c
      BY <2>1, <2>2, <2>4, OnlyOne
    <3>2. (Served(c) <=> q.phase \in {"commit", "ok"})
          /\ (Served(c)' <=> phase \in {"commit", "ok"})
      BY <1>4, <2>4, <3>1 DEF Served
    <3>3. CASE raw' = raw /\ (Served(c)' <=> Served(c))
      <4>1. OwnAudio(c)
        BY <2>1, <3>3 DEF OwnAudio
      <4> QED BY <2>1, <3>3, <4>1 DEF ExactInv
    <3>4. CASE q.phase \in {"sent", "body"} /\ phase \in {"body", "refused"} /\ UNCHANGED raw
      BY <3>2, <3>3, <3>4
    <3>5. CASE /\ q.phase = "commit" /\ UNCHANGED raw
               /\ phase = IF row[q.to] = "gone" THEN "error" ELSE "ok"
      <4>1. row[q.to] # "gone"
        BY <2>1, <2>2, <2>4 DEF ChainInv, RequestsBegun, PageInv, PageRow
      <4> QED BY <3>2, <3>3, <3>5, <4>1
    <3>6. CASE q.phase = "body" /\ phase = "commit" /\ Appended(q)
      <4>1. q.to = c /\ LastChunks /\ chain[cur] # <<>> /\ Head(chain[cur]) = q.chunk
        BY <2>1, <2>2, <2>4, <3>1 DEF ChainInv, RequestsBegun, Awaited
      <4>2. q.chunk = Done(c) + 1
        BY <2>1, <4>1, HeadOfChain
      <4>3. raw'[c] = Append(raw[c], <<c, q.chunk>>) /\ raw[c] \in Seq(Chunk)
            /\ Len(raw[c]) \in Nat
        BY <1>6, <2>4, <3>6, <4>1, RecordingTypes DEF Appended
      <4>4. /\ Len(raw'[c]) = Len(raw[c]) + 1
            /\ DOMAIN raw[c] = 1..Len(raw[c]) /\ DOMAIN raw'[c] = 1..(Len(raw[c]) + 1)
            /\ \A k \in 1..Len(raw[c]) : raw'[c][k] = raw[c][k]
            /\ raw'[c][Len(raw[c]) + 1] = <<c, q.chunk>>
        BY <4>3
      <4>5. OwnAudio(c)
        BY <2>1, <4>3, <4>4 DEF OwnAudio
      <4>6. Len(raw[c]) = Done(c) /\ \A k \in DOMAIN raw[c] : raw[c][k] = <<c, k>>
        BY <2>1, <3>2, <3>6, <4>5 DEF ExactInv
      <4>7. \A k \in DOMAIN raw'[c] : raw'[c][k] = <<c, k>>
        BY <4>2, <4>3, <4>4, <4>6
      <4> QED BY <3>2, <3>6, <4>4, <4>6, <4>7
    <3> QED BY <1>1, <3>4, <3>5, <3>6 DEF Handled
  <2> QED BY <2>3, <2>4
<1> QED BY <1>8, <1>9

\* So does every step.
LEMMA StepXInv ==
  ASSUME ~AnswersLost, XInv, [Next]_vars
  PROVE  XInv'
<1>0. /\ UInv /\ TypeOK /\ PageInv /\ ChainInv /\ WholeInv /\ OneRequest /\ ExactInv
      /\ ExactlyRecorded
  BY DEF XInv, UInv
<1>1. UInv'
  BY <1>0, StepUInv
<1>2. OneRequest' /\ ExactInv' /\ ExactlyRecorded'
  <2>1. CASE UNCHANGED vars
    <3>1. /\ UNCHANGED <<page, cur, chain, tries, row, made, raw, chunkErr, reqs>>
          /\ Active' <=> Active
      BY <2>1 DEF vars, pageVars, chainVars, serverVars, Active
    <3>2. OneRequest'
      BY <1>0, <3>1 DEF OneRequest, HeadOnly, NoneLeft, Awaited
    <3>3. (Whole' <=> Whole) /\ Done(cur)' = Done(cur) /\ (Served(cur)' <=> Served(cur))
      BY <3>1 DEF Whole, Done, Served
    <3> QED BY <1>0, <3>1, <3>2, <3>3, ExactKept, RecordedKept
  <2>2. CASE Start \/ MakeChunk \/ Stop \/ Discard \/ Reload \/ PageStep
    BY <1>0, <2>2, PageOneRequest, PageExactInv, PageExactlyRecorded
  <2>3. ASSUME NEW r \in Recordings, Begin(r)
        PROVE  OneRequest' /\ ExactInv' /\ ExactlyRecorded'
    BY <1>0, <2>3, BeginOneRequest, BeginExact
  <2>4. ASSUME NEW q \in reqs, Answer(q) \/ NetworkFails(q) \/ Forget(q)
        PROVE  OneRequest' /\ ExactInv' /\ ExactlyRecorded'
    BY <1>0, <2>4, AnswerOneRequest, AnswerExact
  <2>5. ASSUME NEW q \in reqs, Check(q) \/ Store(q) \/ Commit(q)
        PROVE  OneRequest' /\ ExactInv' /\ ExactlyRecorded'
    BY <1>0, <2>5, ServeOneRequest, ServeExact
  <2> QED BY <2>1, <2>2, <2>3, <2>4, <2>5 DEF Next
<1> QED BY <1>1, <1>2 DEF XInv

\* It holds throughout.
LEMMA XInvHolds == ASSUME ~AnswersLost PROVE Spec => []XInv
<1>1. Init => XInv
  <2>1. Init => UInv
    BY InitTypeOK, InitPageInv, InitChain DEF UInv
  <2>2. Init => OneRequest /\ ExactInv /\ ExactlyRecorded
    <3>1. Init => ~Active /\ ~Whole
      BY DEF Init, Active, Whole
    <3>2. Init => \A s \in Recordings : row[s] # "queued"
      BY UploadAssumption DEF Init, Recordings, Ids
    <3> QED BY <3>1, <3>2 DEF OneRequest, NoneLeft, ExactInv, ExactlyRecorded
  <2> QED BY <2>1, <2>2 DEF XInv
<1>2. XInv /\ [Next]_vars => XInv'
  BY StepXInv
<1> QED BY <1>1, <1>2, PTL DEF Spec

\* With a network that fails only before a call is served, a completed session holds
\* exactly what was recorded, every chunk once and in order - unless chunks of a
\* discarded recording have got into it.
THEOREM ExactWithoutLostAnswers == ASSUME ~AnswersLost PROVE Spec => []ExactlyRecorded
<1>1. XInv => ExactlyRecorded
  BY DEF XInv
<1> QED BY <1>1, XInvHolds, PTL

\* ... and its audio does not change any more, but for such chunks.
THEOREM FrozenWithoutLostAnswers == ASSUME ~AnswersLost PROVE Spec => CompletedIsFrozen
<1> DEFINE Frozen == \A s \in Recordings : row[s] = "queued" /\ raw'[s] # raw[s] =>
                       \E c \in Chunk : c[1] # s /\ raw'[s] = Append(raw[s], c)
<1>1. ASSUME XInv, [Next]_vars PROVE [Frozen]_vars
  <2>0. TypeOK /\ PageInv /\ OneRequest
    BY <1>1 DEF XInv, UInv
  <2>1. SUFFICES ASSUME NEW s \in Recordings, row[s] = "queued", raw'[s] # raw[s]
                 PROVE  \E c \in Chunk : c[1] # s /\ raw'[s] = Append(raw[s], c)
    OBVIOUS
  <2>2. ASSUME NEW q \in reqs, Check(q) \/ Store(q) \/ Commit(q)
        PROVE  \E c \in Chunk : c[1] # s /\ raw'[s] = Append(raw[s], c)
    <3>1. PICK phase \in Phases : Handled(q, phase)
      BY <2>0, <2>2, ServeCases
    <3>2. Appended(q) /\ q.rec # s
      BY <2>0, <2>1, <3>1 DEF Handled, OneRequest, NoneLeft
    <3>3. q.to \in Ids /\ <<q.rec, q.chunk>> \in Chunk /\ raw \in [Ids -> Seq(Chunk)]
      BY <2>0, <2>2, RequestParts DEF TypeOK
    <3>4. s = q.to
      BY <2>1, <3>2, <3>3 DEF Appended
    <3>5. raw'[s] = Append(raw[s], <<q.rec, q.chunk>>)
      BY <3>2, <3>3, <3>4 DEF Appended
    <3> QED BY <3>2, <3>3, <3>5
  <2>3. CASE EraseFiles
    <3>1. sid = cur /\ row[cur] = "created" /\ raw' = [raw EXCEPT ![sid] = <<>>]
      BY <2>0, <2>3 DEF EraseFiles, PageInv, PageRow
    <3>2. raw \in [Ids -> Seq(Chunk)] /\ s \in Ids
      BY <2>0, RecordingTypes DEF TypeOK
    <3> QED BY <2>1, <3>1, <3>2
  <2>4. raw' = raw \/ EraseFiles \/ \E q \in reqs : Store(q)
    BY <1>1, AudioSteps
  <2> QED BY <2>1, <2>2, <2>3, <2>4
<1>2. Spec => [][Frozen]_vars
  <2>1. Spec => []XInv
    BY XInvHolds
  <2> QED BY <1>1, <2>1, PTL DEF Spec
<1> QED BY <1>2 DEF CompletedIsFrozen

-----------------------------------------------------------------------------
(* Upload implements SessionLifecycle *)

LStep == [Lifecycle!LNext]_(Lifecycle!lvars)

\* A step that changes no status shows nothing.
LEMMA Invisible == UNCHANGED row => LStep
BY DEF LStep, Lifecycle!lvars

\* The views of the sessions, after a step that changes the status of one of them.
LEMMA ViewUpdate ==
  ASSUME TypeOK, NEW s \in Recordings, NEW x, row' = [row EXCEPT ![s] = x]
  PROVE  [r \in Recordings |-> ViewOf(row'[r])]
           = [[r \in Recordings |-> ViewOf(row[r])] EXCEPT ![s] = ViewOf(x)]
<1>1. \A r \in Recordings : row'[r] = IF r = s THEN x ELSE row[r]
  BY DEF TypeOK, Ids, Recordings
<1> DEFINE V == [r \in Recordings |-> ViewOf(row[r])]
<1>2. [V EXCEPT ![s] = ViewOf(x)] = [r \in Recordings |-> IF r = s THEN ViewOf(x) ELSE V[r]]
  OBVIOUS
<1>3. \A r \in Recordings : ViewOf(row'[r]) = IF r = s THEN ViewOf(x) ELSE V[r]
  BY <1>1
<1> HIDE DEF V
<1>4. [r \in Recordings |-> ViewOf(row'[r])]
        = [r \in Recordings |-> IF r = s THEN ViewOf(x) ELSE V[r]]
  BY <1>3
<1> QED BY <1>2, <1>4 DEF V

\* A new session is opened.
LEMMA Opens ==
  ASSUME TypeOK, NEW s \in Recordings, row[s] = "none", row' = [row EXCEPT ![s] = "created"]
  PROVE  LStep
<1>1. Lifecycle!Open(s)
  BY ViewUpdate DEF Lifecycle!Open, Lifecycle!Show, ViewOf
<1> QED BY <1>1 DEF LStep, Lifecycle!LNext

\* An open session is completed.
LEMMA Submits ==
  ASSUME TypeOK, NEW s \in Recordings, row[s] = "created", row' = [row EXCEPT ![s] = "queued"]
  PROVE  LStep
<1>1. Lifecycle!Submit(s)
  BY ViewUpdate DEF Lifecycle!Submit, Lifecycle!Show, ViewOf
<1> QED BY <1>1 DEF LStep, Lifecycle!LNext

\* An open session is removed.
LEMMA Removes ==
  ASSUME TypeOK, NEW s \in Recordings, row[s] = "created", row' = [row EXCEPT ![s] = "gone"]
  PROVE  LStep
<1>1. [r \in Recordings |-> ViewOf(row'[r])]
        = [r \in Recordings |-> IF r \in {s} THEN "gone" ELSE ViewOf(row[r])]
  <2>1. \A r \in Recordings : row'[r] = IF r = s THEN "gone" ELSE row[r]
    BY DEF TypeOK, Ids, Recordings
  <2>2. ViewOf("gone") = "gone"
    BY DEF ViewOf
  <2>3. \A r \in Recordings : ViewOf(row'[r]) = IF r \in {s} THEN "gone" ELSE ViewOf(row[r])
    BY <2>1, <2>2
  <2> QED BY <2>3
<1>2. Lifecycle!Discard(s)
  BY <1>1 DEF Lifecycle!Discard, Lifecycle!Vanish, ViewOf
<1> QED BY <1>2 DEF LStep, Lifecycle!LNext

\* Every step is a step of SessionLifecycle or none.
LEMMA NextLStep == TypeOK /\ PageInv /\ [Next]_vars => LStep
<1> SUFFICES ASSUME TypeOK, PageInv, [Next]_vars PROVE LStep
  OBVIOUS
<1>1. CASE UNCHANGED vars
  BY <1>1, Invisible DEF vars, serverVars
<1>2. CASE Start \/ MakeChunk \/ Stop \/ Discard \/ Reload \/ CreateFails \/ Uploaded
           \/ EraseFiles \/ DiscardFails
  BY <1>2, Invisible DEF Start, MakeChunk, Stop, Discard, Reload, CreateFails, Uploaded,
     EraseFiles, DiscardFails, serverVars
<1>3. CASE Created
  <2>1. cur + 1 \in Recordings /\ row[cur + 1] = "none"
    BY <1>3, UploadAssumption
    DEF Created, PageInv, PageRow, Untouched, TypeOK, Recordings, Ids
  <2> QED BY <1>3, <2>1, Opens DEF Created
<1>4. CASE Completed \/ CompleteFails
  <2>1. sid \in Recordings /\ row[sid] = "created"
    BY <1>4 DEF Completed, CompleteFails, PageInv, PageRow, Active
  <2>2. UNCHANGED row \/ row' = [row EXCEPT ![sid] = "queued"]
    BY <1>4 DEF Completed, CompleteFails
  <2> QED BY <2>1, <2>2, Invisible, Submits
<1>5. CASE EraseRow
  <2>1. sid \in Recordings /\ row[sid] = "created"
    BY <1>5 DEF EraseRow, PageInv, PageRow
  <2> QED BY <1>5, <2>1, Removes DEF EraseRow
<1>6. CASE \E r \in Recordings : Begin(r)
  BY <1>6, Invisible DEF Begin, serverVars
<1>7. CASE \E q \in reqs : \/ Check(q) \/ Store(q) \/ Commit(q) \/ Answer(q)
                           \/ NetworkFails(q) \/ Forget(q)
  BY <1>7, Invisible DEF Check, Store, Commit, Answer, NetworkFails, Forget, serverVars
<1> QED BY <1>1, <1>2, <1>3, <1>4, <1>5, <1>6, <1>7 DEF Next, PageStep

\* Whatever the network loses and the page repeats, a session is opened once, completed at
\* most once and while it is open, and stays away once it was removed.
THEOREM Refinement == Spec => ImplementsLifecycle
<1>1. Init => Lifecycle!LInit
  BY DEF Init, Lifecycle!LInit, ViewOf, Recordings, Ids
<1>2. Init => TypeOK /\ PageInv
  BY InitTypeOK, InitPageInv
<1>3. TypeOK /\ PageInv /\ [Next]_vars => (TypeOK /\ PageInv)'
  BY StepTypeOK, StepPageInv
<1> QED BY <1>1, <1>2, <1>3, NextLStep, PTL
        DEF Spec, ImplementsLifecycle, Lifecycle!LSpec, LStep
=============================================================================
