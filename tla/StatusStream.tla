---------------------------- MODULE StatusStream ----------------------------
(***************************************************************************)
(* Following a session on the page: openSession of frontend/js/app.js      *)
(* listens to the event stream of session_events, falls back to polling    *)
(* get_status when the stream ends or breaks, and shows the result when    *)
(* the status says it is there (finishWhenReady, loadResult).  A result    *)
(* whose speakers are still being recognised, at first or because the user *)
(* asks for it anew, is polled for and shown again (pollDiarization).      *)
(*                                                                         *)
(* Every call of openSession leaves callbacks behind, here a "follower",   *)
(* and every call of finishWhenReady or of the redo button a "chain" of    *)
(* requests for the result, each of which sets the next one going.  The    *)
(* next openSession closes the stream of the one before, and nothing else: *)
(* what was polling goes on polling, and writes to the same screen.        *)
(*                                                                         *)
(* A request and its answer are two steps where a change in between could  *)
(* be told apart, else one.  What a session's status says and how it       *)
(* changes is SessionLifecycle's; here it changes by itself.               *)
(***************************************************************************)
EXTENDS Naturals, Sequences

CONSTANTS
  Sessions,    \* sessions that may be opened, all of them submitted
  NoSession,   \* no session opened yet
  Diarized,    \* the sessions that were submitted with speaker recognition
  Reporting,   \* the sessions for which the user looks after reports
  MaxOpens,    \* bound: calls of openSession
  MaxRedos,    \* bound: uses of the button for a new recognition
  MaxFaults    \* bound: streams that break, calls without an answer or with one of
               \* another error than 404, failed sessions transcribed once more

ASSUME StatusStreamAssumption ==
  /\ NoSession \notin Sessions
  /\ Diarized \subseteq Sessions /\ Reporting \subseteq Sessions
  /\ MaxOpens \in Nat /\ MaxRedos \in Nat /\ MaxFaults \in Nat

Openings == 1..MaxOpens

\* Chain g begins with the finishWhenReady of opening g; the others with a redo.
Chains == 1..(MaxOpens + MaxRedos)

VARIABLES
  status,   \* sessions.status of each
  version,  \* how often it has changed
  diar,     \* of each session, which diarization row is its newest (0: none), and is
            \* that one done or failed?
  open,     \* the calls of openSession so far; the last one made the screen
  of,       \* the session each of them is about
  link,     \* where its follower is: connect, stream, poll, off
  serving,  \* is the server's gen() at work for it?
  last,     \* the version gen() sent last
  pipe,     \* events on their way
  poll,     \* its poll: idle, asked, answered, lost, waiting
  answer,   \* ... and what was answered
  seen,     \* the version its render() saw last
  txt,      \* the opening whose screen its finishWhenReady will write to
  watch,    \* is a poll or call about its reports under way?
  fetch,    \* where each chain is: not begun; the result asked for by finishWhenReady,
            \* by loadResult; the timer of pollDiarization runs, has fired and asks for
            \* the result; a new recognition is asked for; over
  whose,    \* the opening each chain belongs to
  timer,    \* _diarPoll: the chain that has set a timer last
  redos,    \* uses of the redo button
  text,     \* #status-text: who wrote it, and what
  area,     \* #result-area: who filled it, and with the speakers of which row
  list,     \* #reports-wrap in it: who wrote it last (0: there is none)
  under,    \* openings that had a poll or call under way when the next one came
  faults    \* streams broken, calls failed, retries

serverVars == <<status, version, diar>>
screen == <<text, area, list>>
followers == <<of, link, serving, last, pipe, poll, answer, seen, txt>>
calls == <<whose, timer, redos, watch>>
streamVars == <<serverVars, screen, followers, fetch, calls, open, under, faults>>

Terminal == {"transcribed", "failed"}

\* What the page tells apart of a status; "busy" is queued or transcribing.
Statuses == {"busy"} \cup Terminal
Event == [status : Statuses \cup {"gone"}, version : Nat]
Reply == [status : Statuses, version : Nat]
NoReply == [status |-> "busy", version |-> 0]
Empty == [by |-> 0, speakers |-> 0]
Phases == {"idle", "first", "second", "timer", "tick", "redo", "over"}

StreamTypeOK ==
  /\ status \in [Sessions -> Statuses \cup {"gone"}]
  /\ version \in [Sessions -> Nat]
  /\ diar \in [Sessions -> [row : Nat, over : BOOLEAN]]
  /\ open \in 0..MaxOpens
  /\ of \in [Openings -> Sessions \cup {NoSession}]
  /\ link \in [Openings -> {"connect", "stream", "poll", "off"}]
  /\ serving \in [Openings -> BOOLEAN]
  /\ last \in [Openings -> Nat]
  /\ pipe \in [Openings -> Seq(Event)]
  /\ poll \in [Openings -> {"idle", "asked", "answered", "lost", "waiting"}]
  /\ answer \in [Openings -> Reply]
  /\ seen \in [Openings -> Nat]
  /\ txt \in [Openings -> 0..MaxOpens]
  /\ watch \in [Openings -> BOOLEAN]
  /\ fetch \in [Chains -> Phases]
  /\ whose \in [Chains -> 0..MaxOpens]
  /\ timer \in {0} \cup Chains
  /\ redos \in 0..MaxRedos
  /\ text \in [by : 0..MaxOpens, says : {"loading", "busy", "lost"}]
  /\ area \in [by : 0..MaxOpens, speakers : Nat]
  /\ list \in 0..MaxOpens
  /\ under \subseteq Openings
  /\ faults \in [break : Nat, fail : Nat, retry : Nat]

StreamInit ==
  /\ status = [s \in Sessions |-> "busy"]
  /\ version = [s \in Sessions |-> 1]
  /\ diar = [s \in Sessions |-> [row |-> IF s \in Diarized THEN 1 ELSE 0, over |-> FALSE]]
  /\ open = 0
  /\ of = [g \in Openings |-> NoSession]
  /\ link = [g \in Openings |-> "off"]
  /\ serving = [g \in Openings |-> FALSE]
  /\ last = [g \in Openings |-> 0]
  /\ pipe = [g \in Openings |-> <<>>]
  /\ poll = [g \in Openings |-> "idle"]
  /\ answer = [g \in Openings |-> NoReply]
  /\ seen = [g \in Openings |-> 0]
  /\ txt = [g \in Openings |-> 0]
  /\ watch = [g \in Openings |-> FALSE]
  /\ fetch = [c \in Chains |-> "idle"]
  /\ whose = [c \in Chains |-> IF c \in Openings THEN c ELSE 0]
  /\ timer = 0
  /\ redos = 0
  /\ text = [by |-> 0, says |-> "loading"]
  /\ area = Empty
  /\ list = 0
  /\ under = {}
  /\ faults = [break |-> 0, fail |-> 0, retry |-> 0]

MayFault == faults.break + faults.fail + faults.retry < MaxFaults

-----------------------------------------------------------------------------
(* The server *)

\* The status of a session changes: a worker ends it either way, takes a failed one
\* once more; the session is deleted or expires.
ChangeStatus(s) ==
  /\ \E to \in Statuses \cup {"gone"} :
       /\ \/ status[s] = "busy" /\ to \in Terminal
          \/ status[s] = "failed" /\ to = "busy" /\ MayFault
          \/ status[s] # "gone" /\ to = "gone"
       /\ status' = [status EXCEPT ![s] = to]
       /\ faults' = IF status[s] = "failed" /\ to = "busy"
                    THEN [faults EXCEPT !.retry = @ + 1] ELSE faults
  /\ version' = [version EXCEPT ![s] = @ + 1]
  /\ UNCHANGED <<diar, screen, followers, fetch, calls, open, under>>

\* The recognition asked for last ends, done or failed: not before the transcript.
EndSpeakers(s) ==
  /\ status[s] = "transcribed"
  /\ diar[s].row > 0 /\ ~diar[s].over
  /\ diar' = [diar EXCEPT ![s].over = TRUE]
  /\ UNCHANGED <<status, version, screen, followers, fetch, calls, open, under, faults>>

\* session_events accepts the request of follower g.
Accept(g) ==
  /\ link[g] = "connect"
  /\ status[of[g]] # "gone"
  /\ link' = [link EXCEPT ![g] = "stream"]
  /\ serving' = [serving EXCEPT ![g] = TRUE]
  /\ UNCHANGED <<serverVars, screen, open, under, faults, of, last, pipe, poll, answer,
                 seen, fetch, txt, calls>>

\* One pass of gen(): an event when the status is not the one sent last; the stream
\* ends with a terminal status and with the session.
Push(g) ==
  LET s == of[g]
      new == version[s] # last[g]
  IN /\ serving[g] /\ link[g] = "stream" /\ new
     /\ pipe' = [pipe EXCEPT ![g] = Append(@, [status |-> status[s], version |-> version[s]])]
     /\ last' = [last EXCEPT ![g] = version[s]]
     /\ serving' = [serving EXCEPT ![g] = status[s] \notin Terminal \cup {"gone"}]
     /\ UNCHANGED <<serverVars, screen, open, under, faults, of, link, poll, answer,
                    seen, fetch, txt, calls>>

\* get_status: answered, 404, or failed on the way.
AnswerPoll(g) ==
  /\ poll[g] = "asked"
  /\ LET s == of[g]
     IN \/ /\ status[s] # "gone"
           /\ poll' = [poll EXCEPT ![g] = "answered"]
           /\ answer' = [answer EXCEPT ![g] = [status |-> status[s], version |-> version[s]]]
           /\ UNCHANGED faults
        \/ /\ status[s] = "gone"
           /\ poll' = [poll EXCEPT ![g] = "lost"]
           /\ UNCHANGED <<faults, answer>>
        \/ /\ MayFault
           /\ poll' = [poll EXCEPT ![g] = "lost"]
           /\ faults' = [faults EXCEPT !.fail = @ + 1]
           /\ UNCHANGED answer
  /\ UNCHANGED <<serverVars, screen, open, under, of, link, serving, last, pipe, seen,
                 fetch, txt, calls>>

-----------------------------------------------------------------------------
(* The page *)

\* What a follower has under way that no later opening ends.
UnderWay(g) ==
  \/ poll[g] # "idle"
  \/ \E c \in Chains : whose[c] = g /\ fetch[c] \notin {"idle", "over"}
  \/ watch[g]

\* Mutant: the stream of the opening before is not closed.
OpenOver(s) ==
  /\ open < MaxOpens
  /\ open' = open + 1
  /\ link' = [link EXCEPT ![open + 1] = "connect"]
  /\ text' = [by |-> open + 1, says |-> "loading"]
  /\ area' = Empty
  /\ list' = 0
  /\ under' = under \cup {g \in 1..open : UnderWay(g)}
  /\ of' = [of EXCEPT ![open + 1] = s]
  /\ UNCHANGED <<serverVars, faults, serving, last, pipe, poll, answer, seen, fetch, txt,
                 calls>>

\* openSession: a new screen and a new stream; the stream there was is closed.
OpenSession(s) ==
  /\ open < MaxOpens
  /\ open' = open + 1
  /\ link' = [g \in Openings |-> IF g = open + 1 THEN "connect"
                                 ELSE IF link[g] = "poll" THEN "poll" ELSE "off"]
  /\ pipe' = [g \in Openings |-> <<>>]
  /\ serving' = [g \in Openings |-> FALSE]
  /\ last' = [g \in Openings |-> 0]
  /\ text' = [by |-> open + 1, says |-> "loading"]
  /\ area' = Empty
  /\ list' = 0
  /\ under' = under \cup {g \in 1..open : UnderWay(g)}
  /\ of' = [of EXCEPT ![open + 1] = s]
  /\ UNCHANGED <<serverVars, faults, poll, answer, seen, fetch, txt, calls>>

\* render(): the first terminal status starts finishWhenReady, which remembers the
\* screen it finds; any other is written to the screen there is.
Render(g, st) ==
  /\ seen' = [seen EXCEPT ![g] = st.version]
  /\ IF st.status \in Terminal
     THEN /\ fetch' = [fetch EXCEPT ![g] = IF @ = "idle" THEN "first" ELSE @]
          /\ txt' = [txt EXCEPT ![g] = IF fetch[g] = "idle" THEN open ELSE @]
          /\ UNCHANGED text
     ELSE text' = [by |-> g, says |-> "busy"] /\ UNCHANGED <<fetch, txt>>

\* sse.onmessage
ReceiveEvent(g) ==
  /\ link[g] = "stream" /\ pipe[g] # <<>> /\ Head(pipe[g]).status # "gone"
  /\ Render(g, Head(pipe[g]))
  /\ pipe' = [pipe EXCEPT ![g] = Tail(@)]
  /\ UNCHANGED <<serverVars, area, list, open, under, faults, of, link, serving, last,
                 poll, answer,
                 calls>>

\* The event "gone"
ReceiveGone(g) ==
  /\ link[g] = "stream" /\ pipe[g] # <<>> /\ Head(pipe[g]).status = "gone"
  /\ text' = [by |-> g, says |-> "lost"]
  /\ link' = [link EXCEPT ![g] = "off"]
  /\ pipe' = [pipe EXCEPT ![g] = <<>>]
  /\ UNCHANGED <<serverVars, area, list, open, under, faults, of, serving, last, poll,
                 answer, seen, fetch, txt, calls>>

\* Mutant: the stream is left open beside the poll.
FallBackOpen(g) ==
  /\ poll' = [poll EXCEPT ![g] = "asked"]
  /\ UNCHANGED <<link, serving, last, pipe>>

\* Mutant: nothing is polled.
FallBackSilent(g) ==
  /\ link' = [link EXCEPT ![g] = "off"]
  /\ serving' = [serving EXCEPT ![g] = FALSE]
  /\ last' = [last EXCEPT ![g] = 0]
  /\ pipe' = [pipe EXCEPT ![g] = <<>>]
  /\ UNCHANGED poll

\* sse.onerror: the stream is closed, with what was on its way, and polling begins.
FallBack(g) ==
  /\ link' = [link EXCEPT ![g] = "poll"]
  /\ serving' = [serving EXCEPT ![g] = FALSE]
  /\ last' = [last EXCEPT ![g] = 0]
  /\ pipe' = [pipe EXCEPT ![g] = <<>>]
  /\ poll' = [poll EXCEPT ![g] = "asked"]

\* ... because the server has ended the stream, or refused it: 404.
StreamEnds(g) ==
  /\ \/ link[g] = "stream" /\ ~serving[g] /\ pipe[g] = <<>>
     \/ link[g] = "connect" /\ status[of[g]] = "gone"
  /\ FallBack(g)
  /\ UNCHANGED <<serverVars, screen, open, under, faults, of, seen, fetch, txt, calls,
                 answer>>

\* ... or because the connection breaks.
StreamBreaks(g) ==
  /\ link[g] \in {"connect", "stream"}
  /\ MayFault
  /\ faults' = [faults EXCEPT !.break = @ + 1]
  /\ FallBack(g)
  /\ UNCHANGED <<serverVars, screen, open, under, of, seen, fetch, txt, calls, answer>>

\* The answer to a poll: rendered, and asked for again unless it is terminal ...
ReceivePoll(g) ==
  /\ poll[g] = "answered"
  /\ Render(g, answer[g])
  /\ poll' = [poll EXCEPT ![g] = IF answer[g].status \in Terminal THEN "idle" ELSE "waiting"]
  /\ answer' = [answer EXCEPT ![g] = NoReply]
  /\ UNCHANGED <<serverVars, area, list, open, under, faults, of, link, serving, last,
                 pipe, calls>>

\* ... after two seconds.
PollAgain(g) ==
  /\ poll[g] = "waiting"
  /\ poll' = [poll EXCEPT ![g] = "asked"]
  /\ UNCHANGED <<serverVars, screen, open, under, faults, of, link, serving, last, pipe,
                 seen, fetch, txt, calls, answer>>

\* A poll that throws, whatever for, says that there is no such session and ends.
LosePoll(g) ==
  /\ poll[g] = "lost"
  /\ poll' = [poll EXCEPT ![g] = "idle"]
  /\ text' = [by |-> g, says |-> "lost"]
  /\ UNCHANGED <<serverVars, area, list, open, under, faults, of, link, serving, last,
                 pipe, seen, fetch, txt, calls, answer>>

\* The session chain c is about.
About(c) == of[whose[c]]

\* finishWhenReady has asked for the result; loadResult asks for it again.
FindResult(c) ==
  /\ fetch[c] = "first"
  /\ status[About(c)] # "gone"
  /\ fetch' = [fetch EXCEPT ![c] = "second"]
  /\ UNCHANGED <<serverVars, screen, followers, calls, open, under, faults>>

\* pollDiarization: the timer set last is cleared, and one set for this chain.
PollDiarization(c) ==
  /\ fetch' = [d \in Chains |-> IF d = c THEN "timer"
                                ELSE IF d = timer /\ fetch[d] = "timer" THEN "over"
                                ELSE fetch[d]]
  /\ timer' = c

\* loadResult fills the screen there is: with the words that it failed, or with the
\* transcript, the speakers and the reports.  Speakers that are being recognised are
\* polled for, and so are the reports that wait.
FillScreen(c) ==
  LET g == whose[c]
      s == of[g]
      failed == status[s] = "failed"
  IN /\ fetch[c] = "second"
     /\ status[s] # "gone"
     /\ area' = [by |-> g, speakers |-> IF ~failed /\ diar[s].over THEN diar[s].row ELSE 0]
     /\ list' = IF failed THEN 0 ELSE g
     /\ \/ ~failed /\ diar[s].row > 0 /\ ~diar[s].over /\ PollDiarization(c)
        \/ /\ failed \/ diar[s].row = 0 \/ diar[s].over
           /\ fetch' = [fetch EXCEPT ![c] = "over"]
           /\ UNCHANGED timer
     /\ \E waiting \in {FALSE, ~failed /\ s \in Reporting} :
          watch' = [watch EXCEPT ![g] = @ \/ waiting]
     /\ UNCHANGED <<serverVars, text, followers, whose, redos, open, under, faults>>

\* After 2.5 seconds the timer fires, and can no longer be cleared.
TimerFires(c) ==
  /\ fetch[c] = "timer"
  /\ fetch' = [fetch EXCEPT ![c] = "tick"]
  /\ UNCHANGED <<serverVars, screen, followers, calls, open, under, faults>>

\* Mutant: the recognition is asked about once.
AskSpeakersOnce(c) ==
  /\ fetch[c] = "tick"
  /\ status[About(c)] # "gone"
  /\ fetch' = [fetch EXCEPT ![c] = IF diar[About(c)].over THEN "second" ELSE "over"]
  /\ UNCHANGED <<serverVars, screen, followers, calls, open, under, faults>>

\* Its tick() asks for the result: loadResult is called when the recognition is over,
\* else there is a new timer, and the one before is not cleared.
AskSpeakers(c) ==
  LET over == diar[About(c)].over
  IN /\ fetch[c] = "tick"
     /\ status[About(c)] # "gone"
     /\ fetch' = [fetch EXCEPT ![c] = IF over THEN "second" ELSE "timer"]
     /\ timer' = IF over THEN timer ELSE c
     /\ UNCHANGED <<serverVars, screen, followers, whose, redos, watch, open, under,
                    faults>>

\* Mutant: the result of a failed session is refused.
LoseResultFailed(c) ==
  /\ fetch[c] \in {"first", "second", "tick", "redo"}
  /\ \/ status[About(c)] \in {"gone", "failed"} /\ UNCHANGED faults
     \/ MayFault /\ faults' = [faults EXCEPT !.fail = @ + 1]
  /\ fetch' = [fetch EXCEPT ![c] = "over"]
  /\ text' = IF fetch[c] = "first" /\ txt[whose[c]] = open
             THEN [by |-> whose[c], says |-> "lost"] ELSE text
  /\ UNCHANGED <<serverVars, area, list, followers, calls, open, under>>

\* A chain ends where it gets no answer, or is refused (404; 409 for a recognition
\* without a transcript).  finishWhenReady says so, on the screen it remembers, the redo
\* button in an alert, loadResult and tick() not at all.
LoseResult(c) ==
  /\ fetch[c] \in {"first", "second", "tick", "redo"}
  /\ \/ status[About(c)] = "gone" /\ UNCHANGED faults
     \/ fetch[c] = "redo" /\ status[About(c)] # "transcribed" /\ UNCHANGED faults
     \/ MayFault /\ faults' = [faults EXCEPT !.fail = @ + 1]
  /\ fetch' = [fetch EXCEPT ![c] = "over"]
  /\ text' = IF fetch[c] = "first" /\ txt[whose[c]] = open
             THEN [by |-> whose[c], says |-> "lost"] ELSE text
  /\ UNCHANGED <<serverVars, area, list, followers, calls, open, under>>

\* The user asks for a new recognition, from the speakers block of the screen ...
Redo ==
  LET c == MaxOpens + redos + 1
  IN /\ redos < MaxRedos
     /\ list # 0 /\ diar[of[area.by]].row > 0
     /\ redos' = redos + 1
     /\ whose' = [whose EXCEPT ![c] = area.by]
     /\ fetch' = [fetch EXCEPT ![c] = "redo"]
     /\ UNCHANGED <<serverVars, screen, followers, timer, watch, open, under, faults>>

\* ... and rediarize answers with a row that is polled for.
RedoStarts(c) ==
  LET s == About(c)
  IN /\ fetch[c] = "redo"
     /\ status[s] = "transcribed"
     /\ diar' = [diar EXCEPT ![s] = [row |-> @.row + 1, over |-> FALSE]]
     /\ PollDiarization(c)
     /\ UNCHANGED <<status, version, screen, followers, whose, redos, watch, open, under,
                    faults>>

\* The user has a report made or deleted, or opens the editor on one, from the screen
\* there is ...
AskReport(g) ==
  /\ list # 0 /\ area.by = g /\ of[g] \in Reporting
  /\ ~watch[g]
  /\ watch' = [watch EXCEPT ![g] = TRUE]
  /\ UNCHANGED <<serverVars, screen, followers, fetch, whose, timer, redos, open, under,
                 faults>>

\* ... and that call, or a poll of pollReport, is answered: layoutReports writes the
\* list there is, and may leave reports to be polled for.
AnswerReport(g) ==
  /\ watch[g]
  /\ \/ /\ list' = IF list = 0 THEN 0 ELSE g
        /\ \E more \in BOOLEAN : watch' = [watch EXCEPT ![g] = more]
     \/ watch' = [watch EXCEPT ![g] = FALSE] /\ UNCHANGED list
  /\ UNCHANGED <<serverVars, text, area, followers, fetch, whose, timer, redos, open,
                 under, faults>>

-----------------------------------------------------------------------------
FollowStep(g) ==
  \/ Accept(g) \/ Push(g) \/ ReceiveEvent(g) \/ ReceiveGone(g) \/ StreamEnds(g)
  \/ AnswerPoll(g) \/ ReceivePoll(g) \/ PollAgain(g) \/ LosePoll(g)

ChainStep(c) ==
  \/ FindResult(c) \/ FillScreen(c) \/ TimerFires(c) \/ AskSpeakers(c)
  \/ RedoStarts(c) \/ LoseResult(c)

StreamNext ==
  \/ \E s \in Sessions : OpenSession(s) \/ ChangeStatus(s) \/ EndSpeakers(s)
  \/ \E g \in Openings : FollowStep(g) \/ StreamBreaks(g) \/ AskReport(g) \/ AnswerReport(g)
  \/ \E c \in Chains : ChainStep(c)
  \/ Redo

StreamSpec == StreamInit /\ [][StreamNext]_streamVars

\* The server answers, the page's callbacks run; each kind of them in its own time.
StreamFairness ==
  /\ \A g \in Openings :
       /\ WF_streamVars(Accept(g) \/ StreamEnds(g))
       /\ WF_streamVars(Push(g))
       /\ WF_streamVars(ReceiveEvent(g) \/ ReceiveGone(g))
       /\ WF_streamVars(AnswerPoll(g) \/ ReceivePoll(g) \/ PollAgain(g) \/ LosePoll(g))
  /\ \A c \in Chains : WF_streamVars(ChainStep(c))

StreamFairSpec == StreamSpec /\ StreamFairness

-----------------------------------------------------------------------------
(* Properties *)

\* A follower never goes back: what it renders is never older than what it rendered
\* before, also when a broken stream and the poll after it answer out of order.
SeenForward == [][\A g \in Openings : seen'[g] >= seen[g]]_streamVars

\* What the screen shows is about the session whose code is on it, as long as nothing
\* was under way when it was opened: no poll of the status, of the speakers or of a
\* report, and no call for the result, a new recognition or a report.  Streams are no
\* exception to that.
OwnScreen ==
  under = {} => text.by = open /\ area.by \in {0, open} /\ list \in {0, open}

\* "Sessie niet gevonden of verlopen." is true: unless a call has failed or an earlier
\* opening had something under way, the session is gone.
LostMeansGone ==
  under = {} /\ faults.fail = 0 /\ text.says = "lost" => status[of[open]] = "gone"

\* Whoever waits for a session is shown its result in the end, however often the stream
\* breaks, unless a call fails, the session is retried or removed, another one is opened or an
\* earlier opening of another one had something under way.
ResultIsShown ==
  \A g \in Openings :
    open = g /\ status[of[g]] \in Terminal
      ~> \/ area.by # 0 /\ of[area.by] = of[g]
         \/ open # g
         \/ status[of[g]] \notin Terminal
         \/ faults.fail > 0
         \/ \E h \in under : of[h] # of[g]

\* Whoever is looking at a transcript is shown the speakers of the recognition that was
\* asked for last, once it is over, also when two are polled for by turns or the timer
\* of one is cleared by the other; with the exceptions of ResultIsShown.
SpeakersAreShown ==
  \A g \in Openings :
    open = g /\ area.by = g /\ list # 0 /\ diar[of[g]].over
      ~> \/ open # g
         \/ area.speakers = diar[of[g]].row
         \/ status[of[g]] = "gone" \/ ~diar[of[g]].over
         \/ faults.fail > 0
         \/ \E h \in under : of[h] # of[g]
=============================================================================
