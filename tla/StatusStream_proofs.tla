------------------------- MODULE StatusStream_proofs -------------------------
(***************************************************************************)
(* Theorems about StatusStream, for every set of sessions, every number of *)
(* openings and of faults: whose screen is written to, when a session is   *)
(* said to be gone, and that what is rendered only gets newer.             *)
(***************************************************************************)
EXTENDS StatusStream, Integers, TLAPS

-----------------------------------------------------------------------------
(* The invariants *)

\* The steps that are neither of a follower nor of the session's status, nor an opening.
AsideStep ==
  \/ \E s \in Sessions : EndSpeakers(s)
  \/ \E c \in Chains : ChainStep(c)
  \/ \E g \in Openings : AskReport(g) \/ AnswerReport(g)
  \/ Redo

\* The followers: those of openings to come have done nothing, only the last has a
\* stream, and who polls has none.
LinkInv ==
  \A g \in Openings :
    /\ g > open => link[g] = "off" /\ poll[g] = "idle" /\ seen[g] = 0
    /\ g # open => link[g] \in {"poll", "off"}
    /\ g <= open => of[g] \in Sessions
    /\ link[g] # "stream" => pipe[g] = <<>>
    /\ poll[g] # "idle" => link[g] = "poll"

\* The chains: each belongs to an opening there was, and so do the calls about reports
\* and what is on the screen.
ChainInv ==
  /\ \A c \in Chains : /\ fetch[c] # "idle" => whose[c] \in 1..open
                       /\ c \in Openings => whose[c] = c
  /\ \A g \in Openings : watch[g] => g <= open
  /\ list # 0 => area.by # 0
  /\ area.by <= open /\ list <= open

\* Unless an earlier opening had something under way, only the last one has.
AloneInv == under = {} => \A g \in Openings : g # open => ~UnderWay(g)

\* Whoever is told that a session is gone is told the truth, but for calls that failed.
GoneInv ==
  \A g \in Openings :
    /\ \A i \in 1..Len(pipe[g]) : pipe[g][i].status = "gone" => status[of[g]] = "gone"
    /\ poll[g] = "lost" /\ faults.fail = 0 => status[of[g]] = "gone"

\* What is on its way to a follower is not older than what it has seen, and in order.
OrderInv ==
  \A g \in Openings : g <= open =>
    /\ seen[g] <= version[of[g]] /\ last[g] <= version[of[g]]
    /\ \A i \in 1..Len(pipe[g]) :
         /\ seen[g] <= pipe[g][i].version /\ pipe[g][i].version <= last[g]
         /\ \A j \in i..Len(pipe[g]) : pipe[g][i].version <= pipe[g][j].version
    /\ poll[g] = "answered" => seen[g] <= answer[g].version /\ answer[g].version <= version[of[g]]

\* Before the first opening nothing has been written.
BlankInv == open = 0 => text.says = "loading"

\* What the two properties of the screen need.
ScreenInv ==
  /\ StreamTypeOK /\ LinkInv /\ ChainInv /\ AloneInv
  /\ GoneInv /\ BlankInv /\ OwnScreen /\ LostMeansGone

-----------------------------------------------------------------------------
(* Types *)

\* StreamInit is well typed.
LEMMA InitTypeOK == StreamInit => StreamTypeOK
<1>1. /\ <<>> \in Seq(Event) /\ NoReply \in Reply
      /\ 0 \in 0..MaxOpens
  BY StatusStreamAssumption DEF NoReply, Reply, Statuses
<1>2. SUFFICES ASSUME StreamInit PROVE StreamTypeOK
  OBVIOUS
<1>3. /\ status \in [Sessions -> Statuses \cup {"gone"}]
      /\ version \in [Sessions -> Nat]
      /\ diar \in [Sessions -> [row : Nat, over : BOOLEAN]]
      /\ of \in [Openings -> Sessions \cup {NoSession}]
      /\ link \in [Openings -> {"connect", "stream", "poll", "off"}]
      /\ serving \in [Openings -> BOOLEAN]
      /\ last \in [Openings -> Nat]
      /\ pipe \in [Openings -> Seq(Event)]
  BY <1>1, <1>2 DEF StreamInit, Statuses
<1>4. /\ poll \in [Openings -> {"idle", "asked", "answered", "lost", "waiting"}]
      /\ answer \in [Openings -> Reply]
      /\ seen \in [Openings -> Nat]
      /\ fetch \in [Chains -> Phases]
      /\ txt \in [Openings -> 0..MaxOpens] /\ watch \in [Openings -> BOOLEAN]
  BY <1>1, <1>2 DEF StreamInit, Phases
<1>5. whose \in [Chains -> 0..MaxOpens] /\ timer \in {0} \cup Chains /\ redos \in 0..MaxRedos
  BY <1>1, <1>2, StatusStreamAssumption DEF StreamInit, Openings
<1>6. /\ open \in 0..MaxOpens /\ under \subseteq Openings /\ list \in 0..MaxOpens
      /\ area \in [by : 0..MaxOpens, speakers : Nat]
      /\ text \in [by : 0..MaxOpens, says : {"loading", "busy", "lost"}]
      /\ faults \in [break : Nat, fail : Nat, retry : Nat]
  BY <1>1, <1>2 DEF StreamInit, Empty
<1> QED BY <1>3, <1>4, <1>5, <1>6 DEF StreamTypeOK

\* What is put on its way or answered is an event or a reply.
LEMMA MessageTypes ==
  ASSUME StreamTypeOK, NEW s \in Sessions
  PROVE  /\ [status |-> status[s], version |-> version[s]] \in Event
         /\ status[s] # "gone" => [status |-> status[s], version |-> version[s]] \in Reply
         /\ version[s] \in Nat
         /\ status[s] \in Statuses \cup {"gone"}
  BY DEF StreamTypeOK, Event, Reply, Statuses

\* Render shows an event or a reply.
LEMMA RenderTypes ==
  ASSUME StreamTypeOK, NEW g \in Openings, NEW st, st.version \in Nat, Render(g, st)
  PROVE  /\ seen' \in [Openings -> Nat]
         /\ fetch' \in [Chains -> Phases]
         /\ txt' \in [Openings -> 0..MaxOpens]
         /\ text' \in [by : 0..MaxOpens, says : {"loading", "busy", "lost"}]
<1>1. g \in 0..MaxOpens
  BY StatusStreamAssumption DEF Openings
<1>2. seen' \in [Openings -> Nat]
  BY DEF Render, StreamTypeOK
<1>3. CASE st.status \in Terminal
  <2>1. open \in 0..MaxOpens /\ UNCHANGED text
        /\ fetch' = [fetch EXCEPT ![g] = IF @ = "idle" THEN "first" ELSE @]
        /\ txt' = [txt EXCEPT ![g] = IF fetch[g] = "idle" THEN open ELSE @]
    BY <1>3 DEF Render, StreamTypeOK
  <2> QED BY <1>2, <2>1 DEF StreamTypeOK, Phases
<1>4. CASE st.status \notin Terminal
  <2>1. text' = [by |-> g, says |-> "busy"] /\ UNCHANGED <<fetch, txt>>
    BY <1>4 DEF Render
  <2> QED BY <1>1, <1>2, <2>1 DEF StreamTypeOK
<1> QED BY <1>3, <1>4

\* Counting a fault is well typed.
LEMMA FaultTypes ==
  ASSUME StreamTypeOK
  PROVE  /\ [faults EXCEPT !.break = @ + 1] \in [break : Nat, fail : Nat, retry : Nat]
         /\ [faults EXCEPT !.fail = @ + 1] \in [break : Nat, fail : Nat, retry : Nat]
         /\ [faults EXCEPT !.retry = @ + 1] \in [break : Nat, fail : Nat, retry : Nat]
<1>1. faults \in [break : Nat, fail : Nat, retry : Nat]
  BY DEF StreamTypeOK
<1> QED BY <1>1

\* The head of a queue of events, and what is left of it.
LEMMA PipeTypes ==
  ASSUME StreamTypeOK, NEW g \in Openings
  PROVE  /\ pipe[g] \in Seq(Event) /\ Len(pipe[g]) \in Nat
         /\ \A i \in 1..Len(pipe[g]) : pipe[g][i] \in Event /\ pipe[g][i].version \in Nat
         /\ pipe[g] # <<>> =>
              /\ 1 \in 1..Len(pipe[g]) /\ Head(pipe[g]) = pipe[g][1]
              /\ Tail(pipe[g]) \in Seq(Event) /\ Len(Tail(pipe[g])) = Len(pipe[g]) - 1
              /\ \A i \in 1..Len(Tail(pipe[g])) : Tail(pipe[g])[i] = pipe[g][i + 1]
<1>1. pipe[g] \in Seq(Event)
  BY DEF StreamTypeOK
<1>2. Len(pipe[g]) \in Nat /\ \A i \in 1..Len(pipe[g]) : pipe[g][i] \in Event
  BY <1>1
<1>3. \A e \in Event : e.version \in Nat
  BY DEF Event
<1>4. ASSUME pipe[g] # <<>>
      PROVE  /\ 1 \in 1..Len(pipe[g]) /\ Head(pipe[g]) = pipe[g][1]
             /\ Tail(pipe[g]) \in Seq(Event) /\ Len(Tail(pipe[g])) = Len(pipe[g]) - 1
             /\ \A i \in 1..Len(Tail(pipe[g])) : Tail(pipe[g])[i] = pipe[g][i + 1]
  BY <1>1, <1>4
<1> QED BY <1>1, <1>2, <1>3, <1>4

\* Where something goes on, a session was opened.
LEMMA SessionOf ==
  ASSUME StreamTypeOK, LinkInv, NEW g \in Openings,
         link[g] # "off" \/ poll[g] # "idle"
  PROVE  g <= open /\ of[g] \in Sessions
<1>1. g \in Nat /\ open \in Nat
  BY DEF StreamTypeOK, Openings
<1> QED BY <1>1 DEF LinkInv

\* What the server appends to a queue of events, and what the page takes off it.
LEMMA QueueTypes ==
  ASSUME StreamTypeOK, NEW g \in Openings
  PROVE  /\ of[g] \in Sessions =>
              /\ version[of[g]] \in Nat
              /\ Append(pipe[g], [status |-> status[of[g]], version |-> version[of[g]]])
                   \in Seq(Event)
         /\ pipe[g] # <<>> => Head(pipe[g]).version \in Nat /\ Tail(pipe[g]) \in Seq(Event)
<1>1. ASSUME of[g] \in Sessions
      PROVE  /\ version[of[g]] \in Nat
             /\ Append(pipe[g], [status |-> status[of[g]], version |-> version[of[g]]])
                  \in Seq(Event)
  <2>1. PICK e \in Event : e = [status |-> status[of[g]], version |-> version[of[g]]]
    BY <1>1, MessageTypes
  <2>2. Append(pipe[g], e) \in Seq(Event)
    <3>1. pipe[g] \in Seq(Event)
      BY PipeTypes
    <3> QED BY <3>1
  <2>3. version[of[g]] \in Nat
    BY <1>1, MessageTypes
  <2> QED BY <2>1, <2>2, <2>3
<1>2. ASSUME pipe[g] # <<>>
      PROVE  Head(pipe[g]).version \in Nat /\ Tail(pipe[g]) \in Seq(Event)
  <2>1. 1 \in 1..Len(pipe[g]) /\ Head(pipe[g]) = pipe[g][1] /\ Tail(pipe[g]) \in Seq(Event)
    BY <1>2, PipeTypes
  <2>2. pipe[g][1].version \in Nat
    BY <2>1, PipeTypes
  <2> QED BY <2>1, <2>2
<1> QED BY <1>1, <1>2

\* The steps of a follower are well typed.
LEMMA FollowTypeOK ==
  ASSUME StreamTypeOK, LinkInv, NEW g \in Openings, FollowStep(g) \/ StreamBreaks(g)
  PROVE  StreamTypeOK'
<1> USE DEF StreamTypeOK, serverVars, screen, calls
<1>0. g \in 0..MaxOpens
  BY StatusStreamAssumption DEF Openings
<1>1. CASE Accept(g)
  BY <1>1 DEF Accept
<1>2. CASE Push(g)
  <2>1. of[g] \in Sessions
    BY <1>2, SessionOf DEF Push
  <2>2. Append(pipe[g], [status |-> status[of[g]], version |-> version[of[g]]]) \in Seq(Event)
        /\ version[of[g]] \in Nat
    BY <2>1, QueueTypes
  <2>3. pipe' \in [Openings -> Seq(Event)] /\ last' \in [Openings -> Nat]
        /\ serving' \in [Openings -> BOOLEAN]
    BY <1>2, <2>2 DEF Push
  <2> QED BY <1>2, <2>3 DEF Push
<1>3. CASE ReceiveEvent(g)
  <2>1. Head(pipe[g]).version \in Nat /\ Tail(pipe[g]) \in Seq(Event)
    BY <1>3, QueueTypes DEF ReceiveEvent
  <2>2. /\ seen' \in [Openings -> Nat]
        /\ fetch' \in [Chains -> Phases]
        /\ txt' \in [Openings -> 0..MaxOpens]
        /\ text' \in [by : 0..MaxOpens, says : {"loading", "busy", "lost"}]
    BY <1>3, <2>1, RenderTypes DEF ReceiveEvent
  <2>3. pipe' \in [Openings -> Seq(Event)]
    BY <1>3, <2>1 DEF ReceiveEvent
  <2> QED BY <1>3, <2>2, <2>3 DEF ReceiveEvent
<1>4. CASE ReceiveGone(g)
  <2>1. <<>> \in Seq(Event)
    OBVIOUS
  <2> QED BY <1>0, <1>4, <2>1 DEF ReceiveGone
<1>5. CASE StreamEnds(g) \/ StreamBreaks(g)
  <2>1. <<>> \in Seq(Event)
    OBVIOUS
  <2>2. faults' \in [break : Nat, fail : Nat, retry : Nat]
    BY <1>5, FaultTypes DEF StreamEnds, StreamBreaks
  <2>3. FallBack(g) /\ UNCHANGED <<serverVars, screen, open, under, of, seen, fetch, txt, calls,
                                    answer>>
    BY <1>5 DEF StreamEnds, StreamBreaks
  <2> QED BY <2>1, <2>2, <2>3 DEF FallBack
<1>6. CASE AnswerPoll(g)
  <2>1. of[g] \in Sessions
    BY <1>6, SessionOf DEF AnswerPoll
  <2>2. faults' \in [break : Nat, fail : Nat, retry : Nat]
    BY <1>6, FaultTypes DEF AnswerPoll
  <2>3. answer' \in [Openings -> Reply]
    <3>1. \/ answer' = answer
          \/ /\ status[of[g]] # "gone"
             /\ answer' = [answer EXCEPT ![g] = [status |-> status[of[g]],
                                                version |-> version[of[g]]]]
      BY <1>6 DEF AnswerPoll
    <3>2. status[of[g]] # "gone" =>
            [status |-> status[of[g]], version |-> version[of[g]]] \in Reply
      BY <2>1, MessageTypes
    <3> QED BY <3>1, <3>2
  <2>4. poll' \in [Openings -> {"idle", "asked", "answered", "lost", "waiting"}]
    <3>1. poll' = [poll EXCEPT ![g] = "answered"] \/ poll' = [poll EXCEPT ![g] = "lost"]
      BY <1>6 DEF AnswerPoll
    <3> QED BY <3>1
  <2> QED BY <1>6, <2>2, <2>3, <2>4 DEF AnswerPoll
<1>7. CASE ReceivePoll(g)
  <2>1. answer[g].version \in Nat /\ NoReply \in Reply
    BY DEF Reply, NoReply, Statuses
  <2>2. /\ seen' \in [Openings -> Nat]
        /\ fetch' \in [Chains -> Phases]
        /\ txt' \in [Openings -> 0..MaxOpens]
        /\ text' \in [by : 0..MaxOpens, says : {"loading", "busy", "lost"}]
    BY <1>7, <2>1, RenderTypes DEF ReceivePoll
  <2>3. answer' \in [Openings -> Reply]
        /\ poll' \in [Openings -> {"idle", "asked", "answered", "lost", "waiting"}]
    BY <1>7, <2>1 DEF ReceivePoll
  <2> QED BY <1>7, <2>2, <2>3 DEF ReceivePoll
<1>8. CASE PollAgain(g)
  BY <1>8 DEF PollAgain
<1>9. CASE LosePoll(g)
  BY <1>0, <1>9 DEF LosePoll
<1> QED BY <1>1, <1>2, <1>3, <1>4, <1>5, <1>6, <1>7, <1>8, <1>9 DEF FollowStep

\* So is the timer of pollDiarization.
LEMMA PollDiarizationTypes ==
  ASSUME StreamTypeOK, NEW c \in Chains, PollDiarization(c)
  PROVE  fetch' \in [Chains -> Phases] /\ timer' \in {0} \cup Chains
  BY DEF PollDiarization, StreamTypeOK, Phases

\* The session of a chain, and whose it is.
LEMMA ChainOf ==
  ASSUME StreamTypeOK, LinkInv, ChainInv, NEW c \in Chains, fetch[c] # "idle"
  PROVE  whose[c] \in Openings /\ whose[c] \in 1..open /\ About(c) \in Sessions
<1>1. open \in 0..MaxOpens /\ whose[c] \in 1..open
  BY DEF StreamTypeOK, ChainInv
<1>2. whose[c] \in Openings
  BY <1>1, StatusStreamAssumption DEF Openings
<1> QED BY <1>1, <1>2 DEF LinkInv, About

\* The steps of a chain are well typed.
LEMMA ChainTypeOK ==
  ASSUME StreamTypeOK, LinkInv, ChainInv, NEW c \in Chains, ChainStep(c)
  PROVE  StreamTypeOK'
<1> USE DEF StreamTypeOK, serverVars, screen, followers, calls
<1>0. fetch[c] # "idle"
  BY DEF ChainStep, FindResult, FillScreen, TimerFires, AskSpeakers, RedoStarts, LoseResult
<1>1. /\ whose[c] \in Openings /\ whose[c] \in 0..MaxOpens
      /\ About(c) \in Sessions /\ About(c) = of[whose[c]]
  BY <1>0, ChainOf DEF About
<1>2. CASE FindResult(c)
  BY <1>2 DEF FindResult, Phases
<1>3. CASE FillScreen(c)
  <2>1. diar[About(c)].row \in Nat
    BY <1>1
  <2>2. area' \in [by : 0..MaxOpens, speakers : Nat]
    BY <1>1, <1>3, <2>1 DEF FillScreen
  <2>3. list' \in 0..MaxOpens
    BY <1>1, <1>3, StatusStreamAssumption DEF FillScreen
  <2>4. fetch' \in [Chains -> Phases] /\ timer' \in {0} \cup Chains
    <3>1. \/ PollDiarization(c)
          \/ fetch' = [fetch EXCEPT ![c] = "over"] /\ UNCHANGED timer
      BY <1>3 DEF FillScreen
    <3> QED BY <3>1, PollDiarizationTypes DEF Phases
  <2>5. watch' \in [Openings -> BOOLEAN]
    BY <1>1, <1>3 DEF FillScreen
  <2>6. UNCHANGED <<serverVars, text, followers, whose, redos, open, under, faults>>
    BY <1>3 DEF FillScreen
  <2> QED BY <2>2, <2>3, <2>4, <2>5, <2>6
<1>4. CASE TimerFires(c)
  BY <1>4 DEF TimerFires, Phases
<1>5. CASE AskSpeakers(c)
  BY <1>5 DEF AskSpeakers, Phases
<1>6. CASE RedoStarts(c)
  <2>1. [row |-> diar[About(c)].row + 1, over |-> FALSE] \in [row : Nat, over : BOOLEAN]
    BY <1>1
  <2>2. diar' \in [Sessions -> [row : Nat, over : BOOLEAN]]
    BY <1>1, <1>6, <2>1 DEF RedoStarts
  <2>3. fetch' \in [Chains -> Phases] /\ timer' \in {0} \cup Chains
    BY <1>6, PollDiarizationTypes DEF RedoStarts
  <2> QED BY <1>6, <2>2, <2>3 DEF RedoStarts
<1>7. CASE LoseResult(c)
  <2>1. faults' \in [break : Nat, fail : Nat, retry : Nat]
    BY <1>7, FaultTypes DEF LoseResult
  <2>2. text' \in [by : 0..MaxOpens, says : {"loading", "busy", "lost"}]
    BY <1>1, <1>7 DEF LoseResult
  <2>3. fetch' \in [Chains -> Phases]
    BY <1>7 DEF LoseResult, Phases
  <2> QED BY <1>7, <2>1, <2>2, <2>3 DEF LoseResult
<1> QED BY <1>2, <1>3, <1>4, <1>5, <1>6, <1>7 DEF ChainStep

\* So are the other steps that are not a follower's.
LEMMA AsideTypeOK ==
  ASSUME StreamTypeOK, LinkInv, ChainInv, AsideStep
  PROVE  StreamTypeOK'
<1> USE DEF StreamTypeOK, serverVars, screen, followers, calls
<1>1. ASSUME NEW s \in Sessions, EndSpeakers(s) PROVE StreamTypeOK'
  <2>0. diar' = [diar EXCEPT ![s].over = TRUE]
    BY <1>1 DEF EndSpeakers
  <2>1. diar \in [Sessions -> [row : Nat, over : BOOLEAN]]
    OBVIOUS
  <2>2. diar' \in [Sessions -> [row : Nat, over : BOOLEAN]]
    BY <2>0, <2>1
  <2> QED BY <1>1, <2>2 DEF EndSpeakers
<1>2. ASSUME NEW g \in Openings, AskReport(g) PROVE StreamTypeOK'
  BY <1>2 DEF AskReport
<1>3. ASSUME NEW g \in Openings, AnswerReport(g) PROVE StreamTypeOK'
  <2>1. g \in 0..MaxOpens
    BY StatusStreamAssumption DEF Openings
  <2>2. list' \in 0..MaxOpens
    BY <1>3, <2>1 DEF AnswerReport
  <2>3. watch' \in [Openings -> BOOLEAN]
    <3>1. \E more \in BOOLEAN : watch' = [watch EXCEPT ![g] = more]
      BY <1>3 DEF AnswerReport
    <3> QED BY <3>1
  <2> QED BY <1>3, <2>2, <2>3 DEF AnswerReport
<1>4. CASE Redo
  <2>1. redos' \in 0..MaxRedos
    BY <1>4, StatusStreamAssumption DEF Redo
  <2>2. whose' \in [Chains -> 0..MaxOpens] /\ fetch' \in [Chains -> Phases]
    BY <1>4 DEF Redo, Phases
  <2> QED BY <1>4, <2>1, <2>2 DEF Redo
<1> QED BY <1>1, <1>2, <1>3, <1>4, ChainTypeOK DEF AsideStep

\* Every step is well typed.
LEMMA StepTypeOK ==
  ASSUME StreamTypeOK, LinkInv, ChainInv, [StreamNext]_streamVars
  PROVE  StreamTypeOK'
<1>1. CASE UNCHANGED streamVars
  BY <1>1 DEF StreamTypeOK, streamVars, serverVars, screen, followers, calls
<1>2. ASSUME NEW s \in Sessions, OpenSession(s) PROVE StreamTypeOK'
  <2>1. open + 1 \in Openings /\ open + 1 \in 0..MaxOpens
    BY <1>2, StatusStreamAssumption DEF OpenSession, StreamTypeOK, Openings
  <2>2. <<>> \in Seq(Event)
    OBVIOUS
  <2>3. under' \subseteq Openings
    <3>1. 1..open \subseteq Openings
      BY <1>2, StatusStreamAssumption DEF OpenSession, StreamTypeOK, Openings
    <3>2. under' \subseteq under \cup (1..open)
      BY <1>2 DEF OpenSession
    <3> QED BY <3>1, <3>2 DEF StreamTypeOK
  <2>4. /\ link' \in [Openings -> {"connect", "stream", "poll", "off"}]
        /\ pipe' \in [Openings -> Seq(Event)]
        /\ serving' \in [Openings -> BOOLEAN] /\ last' \in [Openings -> Nat]
        /\ of' \in [Openings -> Sessions \cup {NoSession}]
    BY <1>2, <2>1, <2>2 DEF OpenSession, StreamTypeOK
  <2>5. text' \in [by : 0..MaxOpens, says : {"loading", "busy", "lost"}]
        /\ area' \in [by : 0..MaxOpens, speakers : Nat]
        /\ open' \in 0..MaxOpens /\ list' \in 0..MaxOpens
    BY <1>2, <2>1, StatusStreamAssumption DEF OpenSession, Empty
  <2> QED BY <1>2, <2>3, <2>4, <2>5 DEF OpenSession, StreamTypeOK, serverVars, calls
<1>3. ASSUME NEW s \in Sessions, ChangeStatus(s) PROVE StreamTypeOK'
  <2>1. faults' \in [break : Nat, fail : Nat, retry : Nat]
    BY <1>3, FaultTypes DEF ChangeStatus, StreamTypeOK
  <2>2. status' \in [Sessions -> Statuses \cup {"gone"}] /\ version' \in [Sessions -> Nat]
    BY <1>3 DEF ChangeStatus, StreamTypeOK
  <2> QED BY <1>3, <2>1, <2>2 DEF ChangeStatus, StreamTypeOK, screen, followers, calls
<1> QED BY <1>1, <1>2, <1>3, FollowTypeOK, AsideTypeOK DEF StreamNext, AsideStep

-----------------------------------------------------------------------------
(* Who does what *)

\* StreamInit: nobody follows.
LEMMA InitLinkInv == StreamInit => LinkInv /\ ChainInv /\ AloneInv
<1>1. StreamInit => LinkInv
  BY DEF StreamInit, LinkInv, Openings
<1>2. StreamInit => ChainInv
  BY DEF StreamInit, ChainInv, Empty
<1>3. StreamInit => AloneInv
  BY DEF StreamInit, AloneInv, UnderWay
<1> QED BY <1>1, <1>2, <1>3

\* What a follower's steps have in common: they change nothing of another follower or of
\* another chain than its own.
LEMMA FollowOnly ==
  ASSUME StreamTypeOK, NEW g \in Openings, FollowStep(g) \/ StreamBreaks(g)
  PROVE  /\ UNCHANGED <<serverVars, open, of, under, calls, area, list>>
         /\ \A h \in Openings \ {g} :
              UNCHANGED <<link[h], serving[h], last[h], pipe[h], poll[h], answer[h], seen[h]>>
         /\ \A c \in Chains \ {g} : UNCHANGED fetch[c]
<1> USE DEF StreamTypeOK, serverVars, screen, calls
<1>1. UNCHANGED <<serverVars, open, of, under, calls, area, list>>
  BY DEF FollowStep, Accept, Push, ReceiveEvent, ReceiveGone, StreamEnds, AnswerPoll,
         ReceivePoll, PollAgain, LosePoll, StreamBreaks
<1>2. ASSUME NEW h \in Openings, h # g
      PROVE  UNCHANGED <<link[h], serving[h], last[h], pipe[h]>>
  BY <1>2 DEF FollowStep, Accept, Push, ReceiveEvent, ReceiveGone, StreamEnds, AnswerPoll,
         ReceivePoll, PollAgain, LosePoll, StreamBreaks, FallBack
<1>3. ASSUME NEW h \in Openings, h # g
      PROVE  UNCHANGED <<poll[h], answer[h]>>
  BY <1>3 DEF FollowStep, Accept, Push, ReceiveEvent, ReceiveGone, StreamEnds, AnswerPoll,
         ReceivePoll, PollAgain, LosePoll, StreamBreaks, FallBack
<1>4. ASSUME NEW h \in Openings, h # g
      PROVE  UNCHANGED seen[h]
  BY <1>4 DEF FollowStep, Accept, Push, ReceiveEvent, ReceiveGone, StreamEnds, AnswerPoll,
         ReceivePoll, PollAgain, LosePoll, StreamBreaks, Render
<1>5. ASSUME NEW c \in Chains, c # g
      PROVE  UNCHANGED fetch[c]
  BY <1>5 DEF FollowStep, Accept, Push, ReceiveEvent, ReceiveGone, StreamEnds, AnswerPoll,
         ReceivePoll, PollAgain, LosePoll, StreamBreaks, Render
<1> QED BY <1>1, <1>2, <1>3, <1>4, <1>5

\* Only a follower that has a stream or a poll under way does anything.
LEMMA FollowActive ==
  ASSUME StreamTypeOK, NEW g \in Openings, FollowStep(g) \/ StreamBreaks(g)
  PROVE  link[g] \in {"connect", "stream"} \/ poll[g] # "idle"
  BY DEF FollowStep, Accept, Push, ReceiveEvent, ReceiveGone, StreamEnds, AnswerPoll,
         ReceivePoll, PollAgain, LosePoll, StreamBreaks

\* ... so as long as nothing else was under way, that is the last one.
LEMMA FollowIsOpen ==
  ASSUME StreamTypeOK, LinkInv, AloneInv, under = {}, NEW g \in Openings,
         FollowStep(g) \/ StreamBreaks(g)
  PROVE  g = open
  BY FollowActive DEF LinkInv, AloneInv, UnderWay

\* A chain's steps are of one that is under way, and change nothing of a follower; they
\* begin no other chain, and call for the reports only of their own opening.
LEMMA ChainOnly ==
  ASSUME StreamTypeOK, NEW c \in Chains, ChainStep(c)
  PROVE  /\ fetch[c] \notin {"idle", "over"}
         /\ UNCHANGED <<status, version, followers, whose, open, under>>
         /\ \A d \in Chains \ {c} : \/ fetch'[d] = fetch[d]
                                    \/ fetch[d] = "timer" /\ fetch'[d] = "over"
         /\ \A h \in Openings : h # whose[c] => UNCHANGED watch[h]
         /\ faults' = faults \/ faults' = [faults EXCEPT !.fail = @ + 1]
<1> USE DEF serverVars, screen, calls
<1>0. fetch \in [Chains -> Phases] /\ watch \in [Openings -> BOOLEAN]
  BY DEF StreamTypeOK
<1>1. CASE FindResult(c) \/ TimerFires(c) \/ AskSpeakers(c)
  BY <1>0, <1>1 DEF FindResult, TimerFires, AskSpeakers
<1>2. CASE FillScreen(c)
  <2>1. /\ fetch[c] = "second"
        /\ UNCHANGED <<status, version, followers, whose, open, under, faults>>
    BY <1>2 DEF FillScreen
  <2>2. \A d \in Chains \ {c} : \/ fetch'[d] = fetch[d]
                                \/ fetch[d] = "timer" /\ fetch'[d] = "over"
    <3>1. PollDiarization(c) \/ fetch' = [fetch EXCEPT ![c] = "over"]
      BY <1>2 DEF FillScreen
    <3> QED BY <1>0, <3>1 DEF PollDiarization
  <2>3. \A h \in Openings : h # whose[c] => UNCHANGED watch[h]
    <3>1. \E waiting : watch' = [watch EXCEPT ![whose[c]] = @ \/ waiting]
      BY <1>2 DEF FillScreen
    <3> QED BY <1>0, <3>1
  <2> QED BY <2>1, <2>2, <2>3
<1>3. CASE RedoStarts(c)
  BY <1>0, <1>3 DEF RedoStarts, PollDiarization
<1>4. CASE LoseResult(c)
  BY <1>0, <1>4 DEF LoseResult
<1> QED BY <1>1, <1>2, <1>3, <1>4 DEF ChainStep

\* None of the steps aside changes anything of a follower, or of a session's status.
LEMMA AsideOnly ==
  ASSUME StreamTypeOK, AsideStep
  PROVE  /\ UNCHANGED <<status, version, followers, open, under>>
         /\ faults' = faults \/ faults' = [faults EXCEPT !.fail = @ + 1]
  BY ChainOnly DEF AsideStep, EndSpeakers, AskReport, AnswerReport, Redo, serverVars

\* A follower's own link, poll and pipe after its step.
LEMMA FollowLink ==
  ASSUME StreamTypeOK, LinkInv, NEW g \in Openings, FollowStep(g) \/ StreamBreaks(g)
  PROVE  /\ g <= open
         /\ g # open => link'[g] \in {"poll", "off"}
         /\ link'[g] # "stream" => pipe'[g] = <<>>
         /\ poll'[g] # "idle" => link'[g] = "poll"
<1> USE DEF StreamTypeOK, serverVars, screen
<1>0. /\ g # open => link[g] \in {"poll", "off"}
      /\ link[g] # "stream" => pipe[g] = <<>>
      /\ poll[g] # "idle" => link[g] = "poll"
  BY DEF LinkInv
<1>1. g <= open
  BY FollowActive, SessionOf
<1>2. CASE Accept(g) \/ Push(g) \/ ReceiveEvent(g) \/ ReceiveGone(g)
  BY <1>0, <1>1, <1>2 DEF Accept, Push, ReceiveEvent, ReceiveGone
<1>3. CASE StreamEnds(g) \/ StreamBreaks(g)
  BY <1>0, <1>1, <1>3 DEF StreamEnds, StreamBreaks, FallBack
<1>4. CASE AnswerPoll(g) \/ ReceivePoll(g) \/ PollAgain(g) \/ LosePoll(g)
  BY <1>0, <1>1, <1>4 DEF AnswerPoll, ReceivePoll, PollAgain, LosePoll
<1> QED BY <1>2, <1>3, <1>4 DEF FollowStep

\* Only the last opening has a stream, and one that polls has none.
LEMMA StepLinkInv ==
  ASSUME StreamTypeOK, LinkInv, [StreamNext]_streamVars
  PROVE  LinkInv'
<1>0. open \in Nat /\ \A g \in Openings : g \in Nat
  BY DEF StreamTypeOK, Openings
<1>1. CASE UNCHANGED streamVars
  BY <1>1 DEF LinkInv, streamVars, followers
<1>2. ASSUME NEW s \in Sessions, ChangeStatus(s) PROVE LinkInv'
  BY <1>2 DEF ChangeStatus, LinkInv, followers
<1>3. ASSUME NEW s \in Sessions, OpenSession(s) PROVE LinkInv'
  <2>1. /\ open' = open + 1 /\ UNCHANGED <<poll, seen>>
        /\ \A g \in Openings :
             /\ link'[g] = IF g = open + 1 THEN "connect"
                           ELSE IF link[g] = "poll" THEN "poll" ELSE "off"
             /\ pipe'[g] = <<>>
             /\ of'[g] = IF g = open + 1 THEN s ELSE of[g]
    BY <1>3 DEF OpenSession, StreamTypeOK
  <2>2. ASSUME NEW g \in Openings
        PROVE  /\ g > open + 1 => link'[g] = "off" /\ poll[g] = "idle" /\ seen[g] = 0
               /\ g # open + 1 => link'[g] \in {"poll", "off"}
               /\ g <= open + 1 => of'[g] \in Sessions
               /\ poll[g] # "idle" => link'[g] = "poll"
    BY <1>0, <2>1 DEF LinkInv
  <2> QED BY <2>1, <2>2 DEF LinkInv
<1>4. ASSUME NEW g \in Openings, FollowStep(g) \/ StreamBreaks(g) PROVE LinkInv'
  <2>1. /\ UNCHANGED <<open, of>>
        /\ \A h \in Openings \ {g} : UNCHANGED <<link[h], pipe[h], poll[h], seen[h]>>
    BY <1>4, FollowOnly
  <2>2. ASSUME NEW h \in Openings
        PROVE  /\ h > open => link'[h] = "off" /\ poll'[h] = "idle" /\ seen'[h] = 0
               /\ h # open => link'[h] \in {"poll", "off"}
               /\ h <= open => of[h] \in Sessions
               /\ link'[h] # "stream" => pipe'[h] = <<>>
               /\ poll'[h] # "idle" => link'[h] = "poll"
    <3>1. CASE h = g
      BY <1>0, <1>4, <3>1, FollowLink DEF LinkInv
    <3>2. CASE h # g
      BY <2>1, <3>2 DEF LinkInv
    <3> QED BY <3>1, <3>2
  <2> QED BY <2>1, <2>2 DEF LinkInv
<1>5. CASE AsideStep
  BY <1>5, AsideOnly DEF LinkInv, followers
<1> QED BY <1>1, <1>2, <1>3, <1>4, <1>5 DEF StreamNext, AsideStep

\* A chain's step keeps whose the chains are, and writes to the screen for its own opening.
LEMMA ChainStepChainInv ==
  ASSUME StreamTypeOK, LinkInv, ChainInv, NEW c \in Chains, ChainStep(c)
  PROVE  ChainInv'
<1>1. /\ fetch[c] # "idle" /\ UNCHANGED <<whose, open>>
      /\ \A d \in Chains \ {c} : fetch'[d] # "idle" => fetch[d] # "idle"
      /\ \A h \in Openings : h # whose[c] => watch'[h] = watch[h]
  BY ChainOnly
<1>2. whose[c] \in Openings /\ whose[c] \in 1..open /\ open \in Nat
  <2>1. open \in Nat
    BY DEF StreamTypeOK
  <2> QED BY <1>1, <2>1, ChainOf
<1>3. /\ \A d \in Chains : fetch'[d] # "idle" => whose[d] \in 1..open
      /\ \A d \in Chains : d \in Openings => whose[d] = d
  BY <1>1, <1>2 DEF ChainInv
<1>4. \A g \in Openings : watch'[g] => g <= open
  <2>1. \A g \in Openings : watch[g] => g <= open
    BY DEF ChainInv
  <2>2. whose[c] <= open
    BY <1>2
  <2> QED BY <1>1, <2>1, <2>2, Zenon
<1>5. (list' # 0 => area'.by # 0) /\ area'.by <= open /\ list' <= open
  <2>1. CASE FillScreen(c)
    <3>1. area'.by = whose[c] /\ list' \in {0, whose[c]}
      BY <2>1 DEF FillScreen
    <3> QED BY <1>2, <3>1
  <2>2. CASE ~FillScreen(c)
    <3>1. UNCHANGED <<area, list>>
      BY <2>2 DEF ChainStep, FindResult, TimerFires, AskSpeakers, RedoStarts, LoseResult,
           screen
    <3> QED BY <3>1 DEF ChainInv
  <2> QED BY <2>1, <2>2
<1> QED BY <1>1, <1>3, <1>4, <1>5 DEF ChainInv

\* Every chain belongs to an opening there was.
LEMMA StepChainInv ==
  ASSUME StreamTypeOK, LinkInv, ChainInv, [StreamNext]_streamVars
  PROVE  ChainInv'
<1> USE DEF StreamTypeOK, serverVars, screen, followers, calls
<1>0. open \in Nat /\ \A g \in Openings : g \in Nat
  BY DEF Openings
<1>1. CASE UNCHANGED streamVars
  BY <1>1 DEF ChainInv, streamVars
<1>2. ASSUME NEW s \in Sessions, ChangeStatus(s) \/ EndSpeakers(s) PROVE ChainInv'
  BY <1>2 DEF ChangeStatus, EndSpeakers, ChainInv
<1>3. ASSUME NEW s \in Sessions, OpenSession(s) PROVE ChainInv'
  <2>1. /\ open' = open + 1 /\ UNCHANGED <<fetch, whose, watch>>
        /\ list' = 0 /\ area'.by = 0
    BY <1>3 DEF OpenSession, Empty
  <2> QED BY <1>0, <2>1 DEF ChainInv
<1>4. ASSUME NEW g \in Openings, FollowStep(g) \/ StreamBreaks(g) PROVE ChainInv'
  <2>1. /\ UNCHANGED <<open, whose, watch, area, list>>
        /\ \A c \in Chains \ {g} : UNCHANGED fetch[c]
    BY <1>4, FollowOnly
  <2>2. g \in 1..open
    <3>1. g <= open
      BY <1>4, FollowLink
    <3> QED BY <1>0, <3>1 DEF Openings
  <2> QED BY <2>1, <2>2 DEF ChainInv
<1>5. ASSUME NEW g \in Openings, AskReport(g) PROVE ChainInv'
  <2>1. g <= open
    BY <1>5 DEF AskReport, ChainInv
  <2>2. /\ UNCHANGED <<open, whose, fetch, area, list>>
        /\ watch' = [watch EXCEPT ![g] = TRUE]
    BY <1>5 DEF AskReport
  <2> QED BY <2>1, <2>2 DEF ChainInv
<1>6. ASSUME NEW g \in Openings, AnswerReport(g) PROVE ChainInv'
  <2>1. g <= open
    BY <1>6 DEF AnswerReport, ChainInv
  <2>2. /\ UNCHANGED <<open, whose, fetch, area>>
        /\ list' \in {list, g} /\ (list = 0 => list' = 0)
        /\ \E more \in BOOLEAN : watch' = [watch EXCEPT ![g] = more]
    BY <1>6 DEF AnswerReport
  <2>3. \A h \in Openings \ {g} : watch'[h] = watch[h]
    BY <2>2
  <2> QED BY <2>1, <2>2, <2>3 DEF ChainInv
<1>7. CASE Redo
  <2>1. PICK c \in Chains : /\ c = MaxOpens + redos + 1
                            /\ whose' = [whose EXCEPT ![c] = area.by]
                            /\ fetch' = [fetch EXCEPT ![c] = "redo"]
    <3>1. MaxOpens + redos + 1 \in Chains
      BY <1>7, StatusStreamAssumption DEF Redo, Chains
    <3> QED BY <1>7, <3>1 DEF Redo
  <2>2. c \notin Openings
    BY <2>1, StatusStreamAssumption DEF Openings
  <2>3. area.by \in 1..open
    BY <1>7 DEF Redo, ChainInv
  <2>4. UNCHANGED <<open, watch, area, list>>
    BY <1>7 DEF Redo
  <2> QED BY <2>1, <2>2, <2>3, <2>4 DEF ChainInv
<1> QED BY <1>1, <1>2, <1>3, <1>4, <1>5, <1>6, <1>7, ChainStepChainInv DEF StreamNext

\* The parts of the screen that OwnScreen is about are written by openings that had
\* something under way, so that AloneInv keeps it and is kept by it.
LEMMA StepAloneInv ==
  ASSUME StreamTypeOK, LinkInv, ChainInv, AloneInv, OwnScreen, [StreamNext]_streamVars
  PROVE  AloneInv'
<1> USE DEF StreamTypeOK, serverVars, screen, followers, calls
<1>0. open \in Nat /\ \A g \in Openings : g \in Nat
  BY DEF Openings
<1>1. CASE UNCHANGED streamVars
  BY <1>1 DEF AloneInv, UnderWay, streamVars
<1>2. ASSUME NEW s \in Sessions, ChangeStatus(s) \/ EndSpeakers(s) PROVE AloneInv'
  <2>1. UNCHANGED <<under, open, poll, fetch, whose, watch>>
    BY <1>2 DEF ChangeStatus, EndSpeakers
  <2> QED BY <2>1 DEF AloneInv, UnderWay
<1>3. ASSUME NEW s \in Sessions, OpenSession(s) PROVE AloneInv'
  <2>1. /\ open' = open + 1 /\ UNCHANGED <<poll, fetch, whose, watch>>
        /\ under' = under \cup {g \in 1..open : UnderWay(g)}
    BY <1>3 DEF OpenSession
  <2>2. SUFFICES ASSUME under' = {}, NEW g \in Openings, g # open + 1
                 PROVE  ~UnderWay(g)'
    BY <2>1 DEF AloneInv
  <2>3. UnderWay(g)' <=> UnderWay(g)
    BY <2>1 DEF UnderWay
  <2>4. CASE g \in 1..open
    BY <2>1, <2>2, <2>3, <2>4
  <2>5. CASE g > open
    BY <1>0, <2>3, <2>5 DEF LinkInv, ChainInv, UnderWay
  <2> QED BY <1>0, <2>4, <2>5 DEF Openings
<1>4. ASSUME NEW g \in Openings, FollowStep(g) \/ StreamBreaks(g) PROVE AloneInv'
  <2>1. /\ UNCHANGED <<under, open, whose, watch>>
        /\ \A h \in Openings \ {g} : UNCHANGED poll[h]
        /\ \A c \in Chains \ {g} : UNCHANGED fetch[c]
    BY <1>4, FollowOnly
  <2>2. under = {} => g = open
    BY <1>4, FollowIsOpen
  <2>3. \A c \in Chains : whose[c] # g => fetch'[c] = fetch[c]
    BY <2>1 DEF ChainInv
  <2> QED BY <2>1, <2>2, <2>3 DEF AloneInv, UnderWay
<1>5. ASSUME NEW c \in Chains, ChainStep(c) PROVE AloneInv'
  <2>1. /\ fetch[c] \notin {"idle", "over"} /\ whose[c] \in Openings
        /\ UNCHANGED <<under, open, whose, poll>>
        /\ \A d \in Chains \ {c} :
             fetch'[d] \notin {"idle", "over"} => fetch[d] \notin {"idle", "over"}
        /\ \A h \in Openings : h # whose[c] => UNCHANGED watch[h]
    BY <1>5, ChainOnly, ChainOf
  <2>2. under = {} => whose[c] = open
    BY <2>1 DEF AloneInv, UnderWay
  <2> QED BY <2>1, <2>2 DEF AloneInv, UnderWay
<1>6. ASSUME NEW g \in Openings, AskReport(g) \/ AnswerReport(g) PROVE AloneInv'
  <2>1. /\ UNCHANGED <<under, open, whose, fetch, poll>>
        /\ \A h \in Openings \ {g} : UNCHANGED watch[h]
    BY <1>6 DEF AskReport, AnswerReport
  <2>2. under = {} => g = open
    <3>1. CASE AskReport(g)
      BY <1>0, <3>1 DEF AskReport, OwnScreen, ChainInv
    <3>2. CASE AnswerReport(g)
      BY <3>2 DEF AnswerReport, AloneInv, UnderWay
    <3> QED BY <1>6, <3>1, <3>2
  <2> QED BY <2>1, <2>2 DEF AloneInv, UnderWay
<1>7. CASE Redo
  <2>1. /\ UNCHANGED <<under, open, watch, poll>> /\ area.by # 0
        /\ \A d \in Chains : \/ whose'[d] = whose[d] /\ fetch'[d] = fetch[d]
                             \/ whose'[d] = area.by
    BY <1>7 DEF Redo, ChainInv
  <2>2. under = {} => area.by = open
    BY <2>1 DEF OwnScreen
  <2> QED BY <2>1, <2>2 DEF AloneInv, UnderWay
<1> QED BY <1>1, <1>2, <1>3, <1>4, <1>5, <1>6, <1>7 DEF StreamNext

\* Type correctness.
THEOREM TypeCorrect == StreamSpec => []StreamTypeOK
<1>1. StreamInit => StreamTypeOK /\ LinkInv /\ ChainInv
  BY InitTypeOK, InitLinkInv
<1>2. StreamTypeOK /\ LinkInv /\ ChainInv /\ [StreamNext]_streamVars
        => (StreamTypeOK /\ LinkInv /\ ChainInv)'
  BY StepTypeOK, StepLinkInv, StepChainInv
<1> QED BY <1>1, <1>2, PTL DEF StreamSpec

-----------------------------------------------------------------------------
(* What is said to be gone *)

\* Failed calls are counted, and never forgotten.
LEMMA FailsKept ==
  ASSUME StreamTypeOK, [StreamNext]_streamVars, faults'.fail = 0
  PROVE  faults.fail = 0
<1> USE DEF StreamTypeOK
<1>1. CASE UNCHANGED streamVars
  BY <1>1 DEF streamVars
<1>2. ASSUME NEW s \in Sessions, OpenSession(s) \/ ChangeStatus(s) PROVE faults.fail = 0
  BY <1>2 DEF OpenSession, ChangeStatus
<1>4. CASE AsideStep
  <2>1. faults' = faults \/ faults' = [faults EXCEPT !.fail = @ + 1]
    BY <1>4, AsideOnly
  <2> QED BY <2>1
<1>3. ASSUME NEW g \in Openings, FollowStep(g) \/ StreamBreaks(g) PROVE faults.fail = 0
  <2>1. \/ faults' = faults
        \/ faults' = [faults EXCEPT !.fail = @ + 1]
        \/ faults' = [faults EXCEPT !.break = @ + 1]
    BY <1>3 DEF FollowStep, Accept, Push, ReceiveEvent, ReceiveGone, StreamEnds, AnswerPoll,
         ReceivePoll, PollAgain, LosePoll, StreamBreaks
  <2> QED BY <2>1
<1> QED BY <1>1, <1>2, <1>3, <1>4 DEF StreamNext, AsideStep

\* A session that is gone does not come back.
LEMMA GoneStays ==
  ASSUME StreamTypeOK, [StreamNext]_streamVars, NEW s \in Sessions, status[s] = "gone"
  PROVE  status'[s] = "gone"
<1>1. CASE UNCHANGED streamVars
  BY <1>1 DEF streamVars, serverVars
<1>2. ASSUME NEW t \in Sessions, ChangeStatus(t) PROVE status'[s] = "gone"
  BY <1>2 DEF ChangeStatus, StreamTypeOK, Terminal
<1>3. ASSUME NEW t \in Sessions, OpenSession(t) PROVE status'[s] = "gone"
  BY <1>3 DEF OpenSession, serverVars
<1>4. ASSUME NEW g \in Openings, FollowStep(g) \/ StreamBreaks(g) PROVE status'[s] = "gone"
  BY <1>4, FollowOnly DEF serverVars
<1>5. CASE AsideStep
  BY <1>5, AsideOnly
<1> QED BY <1>1, <1>2, <1>3, <1>4, <1>5 DEF StreamNext, AsideStep

\* The pipe of a follower after its own step: some of what was there, and perhaps the
\* status there is.
LEMMA FollowPipe ==
  ASSUME StreamTypeOK, LinkInv, NEW g \in Openings, FollowStep(g) \/ StreamBreaks(g)
  PROVE  \/ pipe'[g] = pipe[g] /\ last'[g] = last[g]
         \/ pipe'[g] = <<>>
         \/ pipe[g] # <<>> /\ pipe'[g] = Tail(pipe[g]) /\ last'[g] = last[g] /\ ReceiveEvent(g)
         \/ /\ link[g] = "stream" /\ last'[g] = version[of[g]] /\ Push(g)
            /\ pipe'[g] = Append(pipe[g], [status |-> status[of[g]], version |-> version[of[g]]])
<1> USE DEF StreamTypeOK
<1>1. CASE Push(g)
  BY <1>1 DEF Push
<1>2. CASE ReceiveEvent(g)
  BY <1>2 DEF ReceiveEvent
<1>3. CASE ReceiveGone(g) \/ StreamEnds(g) \/ StreamBreaks(g)
  BY <1>3 DEF ReceiveGone, StreamEnds, StreamBreaks, FallBack
<1>4. CASE Accept(g) \/ AnswerPoll(g) \/ ReceivePoll(g) \/ PollAgain(g) \/ LosePoll(g)
  BY <1>4 DEF Accept, AnswerPoll, ReceivePoll, PollAgain, LosePoll
<1> QED BY <1>1, <1>2, <1>3, <1>4 DEF FollowStep

\* A poll that is lost has failed, or there is no session.
LEMMA FollowLost ==
  ASSUME StreamTypeOK, NEW g \in Openings, FollowStep(g) \/ StreamBreaks(g),
         poll'[g] = "lost", faults'.fail = 0
  PROVE  poll[g] = "lost" \/ status[of[g]] = "gone"
<1> USE DEF StreamTypeOK
<1>1. CASE AnswerPoll(g)
  BY <1>1 DEF AnswerPoll
<1>2. CASE StreamEnds(g) \/ StreamBreaks(g)
  BY <1>2 DEF StreamEnds, StreamBreaks, FallBack
<1>3. CASE ReceivePoll(g) \/ PollAgain(g) \/ LosePoll(g)
  BY <1>3 DEF ReceivePoll, PollAgain, LosePoll
<1>4. CASE Accept(g) \/ Push(g) \/ ReceiveEvent(g) \/ ReceiveGone(g)
  BY <1>4 DEF Accept, Push, ReceiveEvent, ReceiveGone
<1> QED BY <1>1, <1>2, <1>3, <1>4 DEF FollowStep

\* StreamInit: nobody was told that a session is gone.
LEMMA InitGoneInv == StreamInit => GoneInv
<1>1. Len(<<>>) = 0
  OBVIOUS
<1>2. \A i : ~(i \in 1..0)
  OBVIOUS
<1> QED BY <1>1, <1>2 DEF StreamInit, GoneInv

\* Who is told that a session is gone is told the truth.
LEMMA StepGoneInv ==
  ASSUME StreamTypeOK, LinkInv, GoneInv, [StreamNext]_streamVars
  PROVE  GoneInv'
<1>0. faults'.fail = 0 => faults.fail = 0
  BY FailsKept
<1>1. CASE UNCHANGED streamVars
  BY <1>1 DEF GoneInv, streamVars, serverVars, followers
<1>2. ASSUME NEW s \in Sessions, ChangeStatus(s) PROVE GoneInv'
  <2>1. ASSUME NEW g \in Openings, status[of[g]] = "gone", pipe[g] # <<>> \/ poll[g] # "idle"
        PROVE  status'[of[g]] = "gone"
    <3>1. link[g] # "off"
      BY <2>1 DEF LinkInv
    <3>2. of[g] \in Sessions
      BY <3>1, SessionOf
    <3> QED BY <2>1, <3>2, GoneStays
  <2>2. UNCHANGED <<pipe, poll, of>>
    BY <1>2 DEF ChangeStatus, followers
  <2>3. ASSUME NEW g \in Openings
        PROVE  /\ \A i \in 1..Len(pipe[g]) : pipe[g][i].status = "gone" => status'[of[g]] = "gone"
               /\ poll[g] = "lost" /\ faults'.fail = 0 => status'[of[g]] = "gone"
    <3>1. ASSUME NEW i \in 1..Len(pipe[g]), pipe[g][i].status = "gone"
          PROVE  status'[of[g]] = "gone"
      <4>1. pipe[g] # <<>>
        BY <3>1, PipeTypes
      <4> QED BY <2>1, <3>1, <4>1 DEF GoneInv
    <3>2. ASSUME poll[g] = "lost", faults'.fail = 0 PROVE status'[of[g]] = "gone"
      BY <1>0, <2>1, <3>2 DEF GoneInv
    <3> QED BY <3>1, <3>2
  <2> QED BY <2>2, <2>3 DEF GoneInv
<1>3. ASSUME NEW s \in Sessions, OpenSession(s) PROVE GoneInv'
  <2>1. /\ open' = open + 1 /\ UNCHANGED <<poll, status, faults>>
        /\ \A g \in Openings : pipe'[g] = <<>> /\ (g # open + 1 => of'[g] = of[g])
    BY <1>3 DEF OpenSession, StreamTypeOK, serverVars
  <2>2. \A g \in Openings : poll[g] = "lost" => g # open + 1
    BY DEF LinkInv, StreamTypeOK, Openings
  <2>3. \A g \in Openings : poll[g] = "lost" /\ faults.fail = 0 => status[of'[g]] = "gone"
    BY <2>1, <2>2 DEF GoneInv
  <2>4. Len(<<>>) = 0 /\ \A i : ~(i \in 1..0)
    OBVIOUS
  <2> QED BY <2>1, <2>3, <2>4 DEF GoneInv
<1>4. ASSUME NEW g \in Openings, FollowStep(g) \/ StreamBreaks(g) PROVE GoneInv'
  <2>0. /\ UNCHANGED <<status, of>>
        /\ \A h \in Openings \ {g} : UNCHANGED <<pipe[h], poll[h]>>
    BY <1>4, FollowOnly DEF serverVars
  <2>1. ASSUME NEW i \in 1..Len(pipe'[g]), pipe'[g][i].status = "gone"
        PROVE  status[of[g]] = "gone"
    <3>0. /\ pipe[g] \in Seq(Event) /\ Len(pipe[g]) \in Nat
          /\ \A k \in 1..Len(pipe[g]) : pipe[g][k].status = "gone" => status[of[g]] = "gone"
      BY PipeTypes DEF GoneInv
    <3>1. CASE pipe'[g] = pipe[g]
      BY <2>1, <3>0, <3>1
    <3>2. CASE pipe'[g] = <<>>
      BY <2>1, <3>2
    <3>3. CASE pipe[g] # <<>> /\ pipe'[g] = Tail(pipe[g])
      <4>1. pipe'[g][i] = pipe[g][i + 1] /\ i + 1 \in 1..Len(pipe[g])
        BY <2>1, <3>0, <3>3, PipeTypes
      <4> QED BY <2>1, <3>0, <4>1
    <3>4. CASE /\ link[g] = "stream"
               /\ pipe'[g] = Append(pipe[g], [status |-> status[of[g]], version |-> version[of[g]]])
      <4>1. of[g] \in Sessions
        BY <3>4, SessionOf
      <4>2. [status |-> status[of[g]], version |-> version[of[g]]] \in Event
        BY <4>1, MessageTypes
      <4>3. \/ i \in 1..Len(pipe[g]) /\ pipe'[g][i] = pipe[g][i]
            \/ pipe'[g][i] = [status |-> status[of[g]], version |-> version[of[g]]]
        BY <2>1, <3>0, <3>4, <4>2
      <4> QED BY <2>1, <3>0, <4>3
    <3> QED BY <1>4, <3>1, <3>2, <3>3, <3>4, FollowPipe
  <2>2. ASSUME poll'[g] = "lost", faults'.fail = 0 PROVE status[of[g]] = "gone"
    BY <1>0, <1>4, <2>2, FollowLost DEF GoneInv
  <2> QED BY <1>0, <2>0, <2>1, <2>2 DEF GoneInv
<1>5. CASE AsideStep
  <2>1. UNCHANGED <<status, of, pipe, poll>>
    BY <1>5, AsideOnly DEF followers
  <2> QED BY <1>0, <2>1 DEF GoneInv
<1> QED BY <1>1, <1>2, <1>3, <1>4, <1>5 DEF StreamNext, AsideStep

-----------------------------------------------------------------------------
(* What is rendered only gets newer *)

\* What a follower has seen after its own step: the same, the event it took, or the answer.
LEMMA FollowSeen ==
  ASSUME StreamTypeOK, LinkInv, NEW g \in Openings, FollowStep(g) \/ StreamBreaks(g)
  PROVE  \/ seen'[g] = seen[g] /\ ~ReceiveEvent(g)
         \/ /\ link[g] = "stream" /\ pipe[g] # <<>> /\ poll'[g] = poll[g]
            /\ seen'[g] = pipe[g][1].version /\ pipe'[g] = Tail(pipe[g]) /\ last'[g] = last[g]
         \/ /\ poll[g] = "answered" /\ poll'[g] # "answered" /\ UNCHANGED pipe[g]
            /\ seen'[g] = answer[g].version /\ ~ReceiveEvent(g)
<1> USE DEF StreamTypeOK
<1>1. CASE ReceiveEvent(g)
  <2>1. Head(pipe[g]) = pipe[g][1]
    BY <1>1, PipeTypes DEF ReceiveEvent
  <2> QED BY <1>1, <2>1 DEF ReceiveEvent, Render
<1>2. CASE ReceivePoll(g)
  <2>1. link[g] # "stream"
    BY <1>2 DEF ReceivePoll, LinkInv
  <2> QED BY <1>2, <2>1 DEF ReceivePoll, Render, ReceiveEvent
<1>3. CASE ~ReceiveEvent(g) /\ ~ReceivePoll(g)
  BY <1>3 DEF FollowStep, Accept, Push, ReceiveGone, StreamEnds, AnswerPoll,
         PollAgain, LosePoll, StreamBreaks
<1> QED BY <1>1, <1>2, <1>3

\* What a follower was answered after its own step: the same, or the status there is.
LEMMA FollowAnswer ==
  ASSUME StreamTypeOK, NEW g \in Openings, FollowStep(g) \/ StreamBreaks(g),
         poll'[g] = "answered"
  PROVE  \/ poll[g] = "answered" /\ answer'[g] = answer[g]
         \/ /\ poll[g] = "asked" /\ seen'[g] = seen[g]
            /\ answer'[g].version = version[of[g]]
<1> USE DEF StreamTypeOK
<1>1. CASE AnswerPoll(g)
  BY <1>1 DEF AnswerPoll
<1>2. CASE StreamEnds(g) \/ StreamBreaks(g)
  BY <1>2 DEF StreamEnds, StreamBreaks, FallBack
<1>3. CASE ReceivePoll(g) \/ PollAgain(g) \/ LosePoll(g)
  BY <1>3 DEF ReceivePoll, PollAgain, LosePoll
<1>4. CASE Accept(g) \/ Push(g) \/ ReceiveEvent(g) \/ ReceiveGone(g)
  BY <1>4 DEF Accept, Push, ReceiveEvent, ReceiveGone
<1> QED BY <1>1, <1>2, <1>3, <1>4 DEF FollowStep

\* The version a stream sent last is one the session had.
LEMMA FollowLast ==
  ASSUME StreamTypeOK, NEW g \in Openings, FollowStep(g) \/ StreamBreaks(g)
  PROVE  last'[g] \in {last[g], 0, version[of[g]]}
  BY DEF StreamTypeOK, FollowStep, Accept, Push, ReceiveEvent, ReceiveGone, StreamEnds,
         AnswerPoll, ReceivePoll, PollAgain, LosePoll,
         StreamBreaks, FallBack

\* StreamInit: nothing is on its way.
LEMMA InitOrderInv == StreamInit => OrderInv
<1>1. StreamInit => open = 0 /\ \A g \in Openings : ~(g <= 0)
  BY DEF StreamInit, Openings
<1> QED BY <1>1 DEF OrderInv

\* A follower's step keeps what is on its way to it in order.
LEMMA FollowOrder ==
  ASSUME StreamTypeOK, LinkInv, OrderInv, NEW g \in Openings,
         FollowStep(g) \/ StreamBreaks(g)
  PROVE  /\ seen[g] <= seen'[g]
         /\ seen'[g] <= version[of[g]] /\ last'[g] <= version[of[g]]
         /\ \A i \in 1..Len(pipe'[g]) :
              /\ seen'[g] <= pipe'[g][i].version /\ pipe'[g][i].version <= last'[g]
              /\ \A j \in i..Len(pipe'[g]) : pipe'[g][i].version <= pipe'[g][j].version
         /\ poll'[g] = "answered" => /\ seen'[g] <= answer'[g].version
                                     /\ answer'[g].version <= version[of[g]]
<1>1. g <= open /\ of[g] \in Sessions
  <2>1. g <= open
    BY FollowLink
  <2> QED BY <2>1 DEF LinkInv
<1>2. PICK n \in Nat : n = version[of[g]]
  BY <1>1, MessageTypes
<1>3. PICK e \in Event : e = [status |-> status[of[g]], version |-> version[of[g]]]
  BY <1>1, MessageTypes
<1>4. seen[g] \in Nat /\ last[g] \in Nat /\ answer[g].version \in Nat
  BY DEF StreamTypeOK, Reply
<1>5. /\ seen[g] <= n /\ last[g] <= n
      /\ \A i \in 1..Len(pipe[g]) :
           /\ seen[g] <= pipe[g][i].version /\ pipe[g][i].version <= last[g]
           /\ \A j \in i..Len(pipe[g]) : pipe[g][i].version <= pipe[g][j].version
      /\ poll[g] = "answered" => seen[g] <= answer[g].version /\ answer[g].version <= n
  BY <1>1, <1>2 DEF OrderInv
<1>6. /\ pipe[g] \in Seq(Event) /\ Len(pipe[g]) \in Nat
      /\ \A i \in 1..Len(pipe[g]) : pipe[g][i].version \in Nat
  BY PipeTypes
<1>7. last'[g] \in {last[g], 0, n} /\ last'[g] <= n
  <2>1. last'[g] \in {last[g], 0, n}
    BY <1>2, FollowLast
  <2> QED BY <1>2, <1>4, <1>5, <2>1
<1>8. seen[g] <= seen'[g] /\ seen'[g] <= n /\ seen'[g] \in Nat
  <2>1. pipe[g] # <<>> => 1 \in 1..Len(pipe[g]) /\ pipe[g][1].version \in Nat
    BY PipeTypes
  <2>2. pipe[g] # <<>> => seen[g] <= pipe[g][1].version /\ pipe[g][1].version <= last[g]
    BY <1>5, <2>1
  <2>3. \/ seen'[g] = seen[g]
        \/ pipe[g] # <<>> /\ seen'[g] = pipe[g][1].version
        \/ poll[g] = "answered" /\ seen'[g] = answer[g].version
    BY FollowSeen
  <2> QED BY <1>2, <1>4, <1>5, <2>1, <2>2, <2>3
<1>9. poll'[g] = "answered" => seen'[g] <= answer'[g].version /\ answer'[g].version <= n
  <2>1. SUFFICES ASSUME poll'[g] = "answered"
                 PROVE  seen'[g] <= answer'[g].version /\ answer'[g].version <= n
    OBVIOUS
  <2>2. CASE poll[g] = "answered" /\ answer'[g] = answer[g]
    <3>1. link[g] # "stream"
      BY <2>2 DEF LinkInv
    <3>2. seen'[g] = seen[g]
      BY <2>1, <3>1, FollowSeen
    <3> QED BY <1>5, <2>2, <3>2
  <2>3. CASE seen'[g] = seen[g] /\ answer'[g].version = version[of[g]]
    BY <1>2, <1>5, <2>3
  <2> QED BY <2>1, <2>2, <2>3, FollowAnswer
<1>10. \A i \in 1..Len(pipe'[g]) :
         /\ seen'[g] <= pipe'[g][i].version /\ pipe'[g][i].version <= last'[g]
         /\ \A j \in i..Len(pipe'[g]) : pipe'[g][i].version <= pipe'[g][j].version
  <2>1. CASE pipe'[g] = <<>>
    <3>1. Len(<<>>) = 0 /\ \A i : ~(i \in 1..0)
      OBVIOUS
    <3> QED BY <2>1, <3>1
  <2>2. CASE pipe[g] # <<>> /\ pipe'[g] = Tail(pipe[g]) /\ last'[g] = last[g] /\ ReceiveEvent(g)
    <3>1. seen'[g] = pipe[g][1].version
      BY <2>2, FollowSeen
    <3>2. /\ 1 \in 1..Len(pipe[g]) /\ Len(pipe'[g]) = Len(pipe[g]) - 1
          /\ \A i \in 1..Len(pipe'[g]) : pipe'[g][i] = pipe[g][i + 1]
      BY <2>2, PipeTypes
    <3>3. \A i \in 1..Len(pipe'[g]) : i + 1 \in 1..Len(pipe[g])
      BY <1>6, <3>2
    <3>4. ASSUME NEW i \in 1..Len(pipe'[g])
          PROVE  seen'[g] <= pipe'[g][i].version /\ pipe'[g][i].version <= last'[g]
      <4>1. i + 1 \in 1..Len(pipe[g])
        BY <3>3
      <4>2. pipe[g][1].version <= pipe[g][i + 1].version /\ pipe[g][i + 1].version <= last[g]
        BY <1>5, <3>2, <4>1
      <4> QED BY <2>2, <3>1, <3>2, <4>2
    <3>5. ASSUME NEW i \in 1..Len(pipe'[g]), NEW j \in i..Len(pipe'[g])
          PROVE  pipe'[g][i].version <= pipe'[g][j].version
      <4>1. /\ i + 1 \in 1..Len(pipe[g]) /\ j + 1 \in (i + 1)..Len(pipe[g])
            /\ j \in 1..Len(pipe'[g])
        BY <1>6, <3>2
      <4>2. pipe[g][i + 1].version <= pipe[g][j + 1].version
        BY <1>5, <4>1
      <4> QED BY <3>2, <4>1, <4>2
    <3> QED BY <3>4, <3>5
  <2>3. CASE /\ link[g] = "stream" /\ last'[g] = version[of[g]] /\ Push(g)
             /\ pipe'[g] = Append(pipe[g], [status |-> status[of[g]],
                                            version |-> version[of[g]]])
    <3>1. seen'[g] = seen[g]
      BY <2>3 DEF Push
    <3>2. pipe'[g] = Append(pipe[g], e) /\ e.version = n /\ last'[g] = n
      BY <1>2, <1>3, <2>3
    <3>3. Len(pipe'[g]) = Len(pipe[g]) + 1 /\ pipe'[g][Len(pipe[g]) + 1] = e
          /\ \A i \in 1..Len(pipe[g]) : pipe'[g][i] = pipe[g][i]
      BY <1>6, <3>2
    <3>4. \A i \in 1..Len(pipe[g]) : pipe[g][i].version <= n
      BY <1>2, <1>4, <1>5, <1>6
    <3>5. ASSUME NEW i \in 1..Len(pipe'[g])
          PROVE  seen'[g] <= pipe'[g][i].version /\ pipe'[g][i].version <= last'[g]
      <4>1. i \in 1..Len(pipe[g]) \/ i = Len(pipe[g]) + 1
        BY <1>6, <3>3
      <4> QED BY <1>2, <1>5, <3>1, <3>2, <3>3, <3>4, <4>1
    <3>6. ASSUME NEW i \in 1..Len(pipe'[g]), NEW j \in i..Len(pipe'[g])
          PROVE  pipe'[g][i].version <= pipe'[g][j].version
      <4>1. CASE j = Len(pipe[g]) + 1
        BY <3>2, <3>3, <3>5, <4>1
      <4>2. CASE j # Len(pipe[g]) + 1
        <5>1. i \in 1..Len(pipe[g]) /\ j \in i..Len(pipe[g]) /\ j \in 1..Len(pipe[g])
          BY <1>6, <3>3, <4>2
        <5> QED BY <1>5, <3>3, <5>1
      <4> QED BY <4>1, <4>2
    <3> QED BY <3>5, <3>6
  <2>4. CASE pipe'[g] = pipe[g] /\ last'[g] = last[g] /\ pipe[g] # <<>>
    <3>1. link[g] = "stream"
      BY <2>4 DEF LinkInv
    <3>2. poll[g] # "answered"
      BY <3>1 DEF LinkInv
    <3>3. Len(Tail(pipe[g])) # Len(pipe[g])
      <4>1. PICK n1 \in Nat : n1 = Len(pipe[g])
        BY <1>6
      <4>2. Len(Tail(pipe[g])) = n1 - 1
        BY <2>4, <4>1, PipeTypes
      <4> QED BY <4>1, <4>2
    <3>4. Tail(pipe[g]) # pipe[g]
      BY <3>3, Zenon
    <3>5. seen'[g] = seen[g]
      BY <2>4, <3>2, <3>4, FollowSeen
    <3> QED BY <1>5, <2>4, <3>5
  <2> QED BY <2>1, <2>2, <2>3, <2>4, FollowPipe
<1> QED BY <1>2, <1>7, <1>8, <1>9, <1>10

\* The same of the followers whose turn it is not, and of all of them in the other steps.
LEMMA StepOrderInv ==
  ASSUME StreamTypeOK, LinkInv, OrderInv, [StreamNext]_streamVars
  PROVE  OrderInv' /\ \A g \in Openings : seen[g] <= seen'[g]
<1>0. \A g \in Openings : seen[g] \in Nat /\ last[g] \in Nat /\ answer[g].version \in Nat
  BY DEF StreamTypeOK, Reply
<1>1. CASE UNCHANGED streamVars
  BY <1>0, <1>1 DEF OrderInv, streamVars, serverVars, followers
<1>2. ASSUME NEW s \in Sessions, ChangeStatus(s)
      PROVE  OrderInv' /\ \A g \in Openings : seen[g] <= seen'[g]
  <2>1. UNCHANGED <<open, of, pipe, last, seen, poll, answer>>
    BY <1>2 DEF ChangeStatus, followers
  <2>2. \A t \in Sessions : version[t] \in Nat /\ version'[t] \in Nat /\ version[t] <= version'[t]
    BY <1>2 DEF ChangeStatus, StreamTypeOK
  <2>3. ASSUME NEW g \in Openings, g <= open
        PROVE  /\ seen[g] <= version'[of[g]] /\ last[g] <= version'[of[g]]
               /\ poll[g] = "answered" => answer[g].version <= version'[of[g]]
    <3>1. of[g] \in Sessions
      BY <2>3 DEF LinkInv
    <3>2. /\ seen[g] <= version[of[g]] /\ last[g] <= version[of[g]]
          /\ poll[g] = "answered" => answer[g].version <= version[of[g]]
      BY <2>3 DEF OrderInv
    <3>3. version[of[g]] \in Nat /\ version'[of[g]] \in Nat /\ version[of[g]] <= version'[of[g]]
      BY <2>2, <3>1
    <3> QED BY <1>0, <3>2, <3>3
  <2> QED BY <1>0, <2>1, <2>3 DEF OrderInv
<1>3. ASSUME NEW s \in Sessions, OpenSession(s)
      PROVE  OrderInv' /\ \A g \in Openings : seen[g] <= seen'[g]
  <2>1. /\ open' = open + 1 /\ UNCHANGED <<poll, answer, seen, version>>
        /\ \A g \in Openings : /\ pipe'[g] = <<>> /\ last'[g] = 0
                               /\ of'[g] = IF g = open + 1 THEN s ELSE of[g]
    BY <1>3 DEF OpenSession, StreamTypeOK, serverVars
  <2>2. Len(<<>>) = 0 /\ \A i : ~(i \in 1..0)
    OBVIOUS
  <2>3. open \in Nat /\ \A g \in Openings : g \in Nat
    BY DEF StreamTypeOK, Openings
  <2>4. ASSUME NEW g \in Openings, g <= open + 1
        PROVE  /\ seen[g] <= version[of'[g]] /\ 0 <= version[of'[g]]
               /\ poll[g] = "answered" =>
                    seen[g] <= answer[g].version /\ answer[g].version <= version[of'[g]]
    <3>1. CASE g = open + 1
      <4>1. of'[g] = s /\ version[s] \in Nat /\ seen[g] = 0 /\ poll[g] = "idle"
        BY <2>1, <2>3, <3>1 DEF LinkInv, StreamTypeOK
      <4> QED BY <4>1
    <3>2. CASE g # open + 1
      <4>1. g <= open /\ of'[g] = of[g] /\ of[g] \in Sessions
        BY <2>1, <2>3, <2>4, <3>2 DEF LinkInv
      <4>2. version[of[g]] \in Nat
        BY <4>1 DEF StreamTypeOK
      <4> QED BY <4>1, <4>2 DEF OrderInv
    <3> QED BY <3>1, <3>2
  <2> QED BY <1>0, <2>1, <2>2, <2>4 DEF OrderInv
<1>4. ASSUME NEW g \in Openings, FollowStep(g) \/ StreamBreaks(g)
      PROVE  OrderInv' /\ \A h \in Openings : seen[h] <= seen'[h]
  <2>1. /\ UNCHANGED <<open, of, version>>
        /\ \A h \in Openings \ {g} :
             UNCHANGED <<last[h], pipe[h], poll[h], answer[h], seen[h]>>
    BY <1>4, FollowOnly DEF serverVars
  <2>2. /\ seen[g] <= seen'[g]
        /\ seen'[g] <= version[of[g]] /\ last'[g] <= version[of[g]]
        /\ \A i \in 1..Len(pipe'[g]) :
              /\ seen'[g] <= pipe'[g][i].version /\ pipe'[g][i].version <= last'[g]
              /\ \A j \in i..Len(pipe'[g]) : pipe'[g][i].version <= pipe'[g][j].version
        /\ poll'[g] = "answered" => /\ seen'[g] <= answer'[g].version
                                    /\ answer'[g].version <= version[of[g]]
    BY <1>4, FollowOrder
  <2>3. ASSUME NEW h \in Openings, h <= open
        PROVE  /\ seen'[h] <= version[of[h]] /\ last'[h] <= version[of[h]]
               /\ \A i \in 1..Len(pipe'[h]) :
                    /\ seen'[h] <= pipe'[h][i].version /\ pipe'[h][i].version <= last'[h]
                    /\ \A j \in i..Len(pipe'[h]) : pipe'[h][i].version <= pipe'[h][j].version
               /\ poll'[h] = "answered" => /\ seen'[h] <= answer'[h].version
                                           /\ answer'[h].version <= version[of[h]]
    <3>1. CASE h = g
      BY <2>2, <3>1
    <3>2. CASE h # g
      BY <2>1, <2>3, <3>2 DEF OrderInv
    <3> QED BY <3>1, <3>2
  <2>4. \A h \in Openings : seen[h] <= seen'[h]
    BY <1>0, <2>1, <2>2
  <2> QED BY <2>1, <2>3, <2>4 DEF OrderInv
<1>5. CASE AsideStep
  <2>1. UNCHANGED <<version, open, of, last, pipe, poll, answer, seen>>
    BY <1>5, AsideOnly DEF followers
  <2> QED BY <1>0, <2>1 DEF OrderInv
<1> QED BY <1>1, <1>2, <1>3, <1>4, <1>5 DEF StreamNext, AsideStep

\* What a follower renders is never older than what it rendered before (session_events
\* and pollStatus answer out of order only across a break, and the stream is closed then).
THEOREM SeenOnlyForward == StreamSpec => SeenForward
<1> DEFINE Inv == StreamTypeOK /\ LinkInv /\ ChainInv /\ OrderInv
<1>1. StreamInit => Inv
  BY InitTypeOK, InitLinkInv, InitOrderInv
<1>2. Inv /\ [StreamNext]_streamVars => Inv'
  BY StepTypeOK, StepLinkInv, StepChainInv, StepOrderInv
<1>3. Inv /\ [StreamNext]_streamVars => [\A g \in Openings : seen'[g] >= seen[g]]_streamVars
  <2>1. Inv /\ [StreamNext]_streamVars => \A g \in Openings : seen[g] <= seen'[g]
    BY StepOrderInv
  <2>2. Inv => \A g \in Openings : seen[g] \in Nat
    BY DEF StreamTypeOK
  <2>3. Inv' => \A g \in Openings : seen'[g] \in Nat
    BY DEF StreamTypeOK
  <2> QED BY <1>2, <2>1, <2>2, <2>3
<1> QED BY <1>1, <1>2, <1>3, PTL DEF StreamSpec, SeenForward

-----------------------------------------------------------------------------
(* The screen *)

\* What a follower's step writes: its own name, or nothing; and "lost" only when the
\* session is gone, or a call has failed.
LEMMA FollowWrites ==
  ASSUME StreamTypeOK, LinkInv, GoneInv, NEW g \in Openings,
         FollowStep(g) \/ StreamBreaks(g)
  PROVE  /\ text' = text \/ text'.by = g
         /\ text'.says = "lost" /\ faults'.fail = 0 =>
              text' = text \/ status[of[g]] = "gone"
<1> USE DEF StreamTypeOK
<1>1. CASE ReceiveEvent(g) \/ ReceivePoll(g)
  <2>1. text' = text \/ text' = [by |-> g, says |-> "busy"]
    BY <1>1 DEF ReceiveEvent, ReceivePoll, Render
  <2> QED BY <2>1
<1>2. CASE ReceiveGone(g)
  <2>1. text' = [by |-> g, says |-> "lost"]
    BY <1>2 DEF ReceiveGone
  <2>2. pipe[g] # <<>> /\ Head(pipe[g]).status = "gone"
    BY <1>2 DEF ReceiveGone
  <2>3. 1 \in 1..Len(pipe[g]) /\ Head(pipe[g]) = pipe[g][1]
    BY <2>2, PipeTypes
  <2>4. status[of[g]] = "gone"
    BY <2>2, <2>3 DEF GoneInv
  <2> QED BY <2>1, <2>4
<1>3. CASE LosePoll(g)
  <2>1. /\ UNCHANGED faults /\ text' = [by |-> g, says |-> "lost"]
        /\ poll[g] = "lost"
    BY <1>3 DEF LosePoll
  <2> QED BY <2>1 DEF GoneInv
<1>4. CASE Accept(g) \/ Push(g) \/ StreamEnds(g) \/ StreamBreaks(g) \/ AnswerPoll(g) \/ PollAgain(g)
  BY <1>4 DEF Accept, Push, StreamEnds, StreamBreaks, AnswerPoll, PollAgain, screen
<1> QED BY <1>1, <1>2, <1>3, <1>4 DEF FollowStep

\* What a chain's step writes: the name of its opening, or nothing; and "lost" likewise.
LEMMA ChainWrites ==
  ASSUME StreamTypeOK, NEW c \in Chains, ChainStep(c)
  PROVE  /\ text' = text \/ text'.by = whose[c]
         /\ area' = area \/ area'.by = whose[c]
         /\ list' \in {list, 0, whose[c]}
         /\ text'.says = "lost" /\ faults'.fail = 0 =>
              text' = text \/ status[of[whose[c]]] = "gone"
<1> USE DEF StreamTypeOK
<1>1. CASE LoseResult(c)
  <2>1. /\ UNCHANGED <<area, list>>
        /\ \/ status[of[whose[c]]] = "gone"
           \/ fetch[c] = "redo"
           \/ faults' = [faults EXCEPT !.fail = @ + 1]
        /\ \/ text' = text
           \/ fetch[c] = "first" /\ text' = [by |-> whose[c], says |-> "lost"]
    BY <1>1 DEF LoseResult, About
  <2>2. faults'.fail = 0 => faults' # [faults EXCEPT !.fail = @ + 1]
    OBVIOUS
  <2> QED BY <2>1, <2>2
<1>2. CASE FillScreen(c)
  <2>1. UNCHANGED text /\ area'.by = whose[c] /\ list' \in {0, whose[c]}
    BY <1>2 DEF FillScreen
  <2> QED BY <2>1
<1>3. CASE FindResult(c) \/ TimerFires(c) \/ AskSpeakers(c) \/ RedoStarts(c)
  BY <1>3 DEF FindResult, TimerFires, AskSpeakers, RedoStarts, screen
<1> QED BY <1>1, <1>2, <1>3 DEF ChainStep

\* What the other steps aside write: the name of an opening that had a report under way.
LEMMA AsideWrites ==
  ASSUME StreamTypeOK, ChainInv, AloneInv, under = {}, AsideStep
  PROVE  /\ text' = text \/ text'.by = open
         /\ area' = area \/ area'.by = open
         /\ list' \in {list, 0, open}
         /\ text'.says = "lost" /\ faults'.fail = 0 =>
              text' = text \/ status[of[open]] = "gone"
<1>1. ASSUME NEW s \in Sessions, EndSpeakers(s) PROVE UNCHANGED screen
  BY <1>1 DEF EndSpeakers
<1>2. ASSUME NEW c \in Chains, ChainStep(c) PROVE whose[c] = open
  <2>1. fetch[c] \notin {"idle", "over"}
    BY <1>2, ChainOnly
  <2>2. whose[c] \in Openings
    BY <2>1, StatusStreamAssumption DEF ChainInv, StreamTypeOK, Openings
  <2> QED BY <2>1, <2>2 DEF AloneInv, UnderWay
<1>3. ASSUME NEW g \in Openings, AskReport(g) PROVE UNCHANGED screen
  BY <1>3 DEF AskReport
<1>4. ASSUME NEW g \in Openings, AnswerReport(g)
      PROVE  UNCHANGED <<text, area>> /\ list' \in {list, 0, open}
  <2>1. g = open
    BY <1>4 DEF AnswerReport, AloneInv, UnderWay
  <2> QED BY <1>4, <2>1 DEF AnswerReport
<1>5. CASE Redo
  BY <1>5 DEF Redo, screen
<1> QED BY <1>1, <1>2, <1>3, <1>4, <1>5, ChainWrites DEF AsideStep, screen

\* Before the first opening no step aside writes a text.
LEMMA AsideBlank ==
  ASSUME StreamTypeOK, ChainInv, AsideStep, open = 0
  PROVE  text' = text
<1>1. \A c \in Chains : fetch[c] = "idle"
  BY DEF ChainInv
<1>2. ASSUME NEW c \in Chains, ChainStep(c) PROVE FALSE
  BY <1>1, <1>2, ChainOnly
<1> QED BY <1>2 DEF AsideStep, EndSpeakers, AskReport, AnswerReport, Redo, screen

\* StreamInit: the screen is blank.
LEMMA InitScreenInv == StreamInit => ScreenInv
<1>1. StreamInit => BlankInv /\ OwnScreen /\ LostMeansGone
  BY DEF StreamInit, BlankInv, OwnScreen, LostMeansGone, Empty
<1> QED BY <1>1, InitTypeOK, InitLinkInv, InitGoneInv DEF ScreenInv

\* What a step writes to the screen is of the session on it, and true.
LEMMA StepScreen ==
  ASSUME ScreenInv, [StreamNext]_streamVars
  PROVE  BlankInv' /\ OwnScreen' /\ LostMeansGone'
<1> USE DEF ScreenInv
<1>0. faults'.fail = 0 => faults.fail = 0
  BY FailsKept
<1>1. CASE UNCHANGED streamVars
  BY <1>1 DEF BlankInv, OwnScreen, LostMeansGone, streamVars, serverVars, screen, followers
<1>2. ASSUME NEW s \in Sessions, ChangeStatus(s) PROVE BlankInv' /\ OwnScreen' /\ LostMeansGone'
  <2>1. UNCHANGED <<text, area, list, open, under, of>>
    BY <1>2 DEF ChangeStatus, screen, followers
  <2>2. BlankInv' /\ OwnScreen'
    BY <2>1 DEF BlankInv, OwnScreen
  <2>3. ASSUME under = {}, faults'.fail = 0, text.says = "lost"
        PROVE  status'[of[open]] = "gone"
    <3>1. status[of[open]] = "gone"
      BY <1>0, <2>3 DEF LostMeansGone
    <3>2. CASE open \in Openings
      <4>1. of[open] \in Sessions
        BY <3>2 DEF LinkInv, StreamTypeOK
      <4> QED BY <3>1, <4>1, GoneStays
    <3>3. CASE open \notin Openings
      <4>1. open = 0
        BY <3>3, StatusStreamAssumption DEF StreamTypeOK, Openings
      <4> QED BY <2>3, <4>1 DEF BlankInv
    <3> QED BY <3>2, <3>3
  <2> QED BY <2>1, <2>2, <2>3 DEF LostMeansGone
<1>3. ASSUME NEW s \in Sessions, OpenSession(s) PROVE BlankInv' /\ OwnScreen' /\ LostMeansGone'
  <2>1. text' = [by |-> open', says |-> "loading"] /\ area'.by = 0 /\ list' = 0
    BY <1>3 DEF OpenSession, Empty
  <2>2. open' # 0
    BY <1>3 DEF OpenSession, StreamTypeOK
  <2> QED BY <2>1, <2>2 DEF BlankInv, OwnScreen, LostMeansGone
<1>4. ASSUME NEW g \in Openings, FollowStep(g) \/ StreamBreaks(g)
      PROVE  BlankInv' /\ OwnScreen' /\ LostMeansGone'
  <2>1. UNCHANGED <<status, open, of, under, area, list>>
    BY <1>4, FollowOnly DEF serverVars
  <2>2. BlankInv'
    <3>1. g <= open
      BY <1>4, FollowLink
    <3>2. open # 0
      BY <3>1, StatusStreamAssumption DEF StreamTypeOK, Openings
    <3> QED BY <2>1, <3>2 DEF BlankInv
  <2>3. SUFFICES ASSUME under = {}
                 PROVE  /\ text'.by = open
                        /\ faults'.fail = 0 /\ text'.says = "lost" => status[of[open]] = "gone"
    BY <2>1, <2>2 DEF OwnScreen, LostMeansGone
  <2>4. g = open
    BY <1>4, <2>3, FollowIsOpen
  <2>5. /\ text' = text \/ text'.by = open
        /\ text'.says = "lost" /\ faults'.fail = 0 => text' = text \/ status[of[open]] = "gone"
    BY <1>4, <2>4, FollowWrites
  <2> QED BY <1>0, <2>3, <2>5 DEF OwnScreen, LostMeansGone
<1>5. CASE AsideStep
  <2>1. UNCHANGED <<status, open, of, under>>
    BY <1>5, AsideOnly DEF followers
  <2>3. BlankInv'
    <3>1. open = 0 => text' = text
      BY <1>5, AsideBlank
    <3> QED BY <2>1, <3>1 DEF BlankInv
  <2>4. ASSUME under = {} PROVE OwnScreen' /\ LostMeansGone'
    <3>1. /\ text' = text \/ text'.by = open
          /\ area' = area \/ area'.by = open
          /\ list' \in {list, 0, open}
          /\ text'.says = "lost" /\ faults'.fail = 0 =>
               text' = text \/ status[of[open]] = "gone"
      BY <1>5, <2>4, AsideWrites
    <3> QED BY <1>0, <2>1, <2>4, <3>1 DEF OwnScreen, LostMeansGone
  <2> QED BY <2>1, <2>3, <2>4 DEF OwnScreen, LostMeansGone
<1> QED BY <1>1, <1>2, <1>3, <1>4, <1>5 DEF StreamNext, AsideStep

\* Every step keeps what the screen shows.
LEMMA StepScreenInv ==
  ASSUME ScreenInv, [StreamNext]_streamVars
  PROVE  ScreenInv'
  BY StepTypeOK, StepLinkInv, StepChainInv, StepAloneInv, StepGoneInv, StepScreen
  DEF ScreenInv

\* What the screen shows is about the session on it (openSession closes the stream there
\* was), as long as no poll or fetch of an earlier opening was under way.
THEOREM ScreenIsOwn == StreamSpec => []OwnScreen
  BY InitScreenInv, StepScreenInv, PTL DEF StreamSpec, ScreenInv

\* "Sessie niet gevonden of verlopen." is true, unless a call has failed or an earlier
\* opening had something under way.
THEOREM LostIsTrue == StreamSpec => []LostMeansGone
  BY InitScreenInv, StepScreenInv, PTL DEF StreamSpec, ScreenInv
=============================================================================
