--------------------------- MODULE ClientSession ---------------------------
(***************************************************************************)
(* A session of the web SDK: the store that shows the conversation, the    *)
(* clock of the pending turn, the listeners of the VoiceAgent              *)
(* (web-sdk/src/session.ts, store/core.ts, agent/voice_agent.ts), and the  *)
(* session worker at the other end of its socket, with the events it sends *)
(* for every turn (session_worker/worker.py).                              *)
(*                                                                         *)
(* The worker has this one connection: under the send_now policy a new     *)
(* request cuts the answer before it short, under the enqueue policy the   *)
(* client only speaks and its utterances wait for each other.              *)
(* SessionWorkerProofs shows that it then answers one request at a time.   *)
(* Playback models the audio controller, GenerationGate the events that    *)
(* the client refuses.                                                     *)
(***************************************************************************)
EXTENDS VoiceState, SequencesExt

CONSTANTS
  Conversations,  \* bound: the conversations explored, each a turn queue policy
                  \* with the number of calls of each kind its client makes
  InFlight,       \* events under way before the worker's send waits
  Faults          \* engines that may raise: "stt", "tts"

Policy == {"send_now", "enqueue"}
Conversation ==
  [policy : Policy,
   append : Nat,     \* chunks of microphone audio
   commit : Nat,     \* commit() and commitUserTurn()
   request : Nat,    \* say() and generateReply()
   stop : Nat]       \* interrupt()

ASSUME ClientAssumption ==
  /\ Conversations \subseteq Conversation
  /\ \A c \in Conversations : c.append + c.request <= MaxAsked  \* a number each
  /\ InFlight \in Nat \ {0}
  /\ Faults \subseteq {"stt", "tts"}

VARIABLES
  status,    \* the worker's SessionState.status
  traced,    \* does the worker hold a current_trace?
  heard,     \* the input buffer and the VAD: "silence", "noise" or "speech"
  queued,    \* utterances in queued_utterances
  turn,      \* the last turn begun
  job,       \* the response task, or the agent.say its handler streams
  notices,   \* events the worker's handler has still to send
  up,        \* client messages on their way to the worker
  chain,     \* events on their way to the client or in its EventSequencer
  link,      \* the client's WebSocket: "open", "dropped" or "closed"
  owner,     \* the gate of GenerationOwner
  shown,     \* the state in the store
  clock,     \* does pendingTurnClock run?
  attached,  \* does a VoiceAgent listen (connect and disconnect)?
  owed,      \* an interrupt requested and not yet acknowledged
  disturbed, \* the first turn not begun when an answer was last cut or said
  left       \* the conversation: its policy, the calls not yet made

workerVars == <<status, traced, heard, queued, turn, job, notices>>
storeVars == <<shown, clock>>
vars == <<workerVars, up, chain, link, owner, storeVars, attached, owed,
          disturbed, left>>

\* lead: events another task sends for this one; ahead: is this task behind the
\* others in the queue of send_guard?
NoJob == [kind |-> "none", gen |-> NoGeneration, lead |-> <<>>, script |-> <<>>,
          ahead |-> FALSE]

Init ==
  /\ status = "created" /\ traced = FALSE /\ heard = "silence" /\ queued = 0
  /\ turn = NoGeneration /\ job = NoJob /\ notices = <<>>
  /\ up = <<"start">> /\ chain = <<>> /\ link = "open"
  /\ owner = OpenGate
  /\ shown = createVoiceSessionState /\ clock = FALSE /\ attached = FALSE
  /\ owed = FALSE /\ disturbed = 0
  /\ left \in Conversations

-----------------------------------------------------------------------------
(* The events of a turn, in the order the worker awaits their sends.  A    *)
(* script also holds the worker's own steps, and the stages whose events   *)
(* are only known when they are reached.                                   *)

Becomes(s) == [type |-> "becomes", status |-> s]
Measured == [type |-> "measured"]
Raises == [type |-> "raises"]
Step == {"becomes", "measured", "raises"}
Stage(name) == [type |-> name]
Optional(events, yes) == IF yes THEN events ELSE {}

\* _transition_session from s: the event is sent only if the table allows it.
Transition(s, to, g) ==
  IF CanTransition(s, to) THEN <<SessionStatusEvent(to, g, g)>> ELSE <<>>

\* _conversation_events_from_llm: the event of each LlmEventKind
FromLlm(kind, g) ==
  CASE kind = "phase" -> LlmPhaseEvent(g, g)
    [] kind = "reasoning.delta" -> LlmReasoningDeltaEvent(g, g)
    [] kind = "response.delta" -> LlmResponseDeltaEvent(g, g)
    [] kind = "tool.update" -> LlmToolUpdateEvent(g, g)
    [] kind = "usage" -> LlmUsageEvent(g, g)
    [] kind = "summary" -> LlmSummaryEvent(g, g)
    [] kind = "completed" -> LlmCompletedEvent(g, g)

\* _conversation_event_from_tts_event
FromTts(kind, g) ==
  IF kind = "chunk" THEN TtsChunkEvent(g, g) ELSE TtsCompletedEvent(g, g)

\* OutputStreamer.stream_feedback_text, of a search that is announced
\* (_handle_llm_event_for_feedback)
FeedbackText(g) == <<FromTts("chunk", g), FromTts("completed", g)>>

\* ResponsePipeline.stream_llm: an answer, to be spoken, not to be spoken, or with
\* a search that is announced before its event is sent, or a model that fails.
Answers(g) ==
  {<<FromLlm("phase", g), FromLlm("response.delta", g), FromLlm("summary", g),
     FromLlm("completed", g), Stage("speaks")>>,
   <<FromLlm("phase", g), FromLlm("response.delta", g), FromLlm("summary", g),
     FromLlm("completed", g)>>,
   FeedbackText(g)
     \o <<FromLlm("tool.update", g), FromLlm("usage", g), FromLlm("reasoning.delta", g),
          FromLlm("completed", g), Stage("speaks")>>,
   <<ErrorEvent(g, g)>>,
   <<FromLlm("response.delta", g), ErrorEvent(g, g)>>}

\* OutputStreamer.stream_response: the event says "speaking", the worker does
\* not move.
Spoken(g) ==
  LET spoken == <<SessionStatusEvent("speaking", g, g), FromTts("chunk", g)>> IN
  {spoken \o <<FromTts("completed", g)>>}
    \cup Optional({spoken \o <<Raises>>}, "tts" \in Faults)

\* _process_utterance_turn in the session status s: what the recogniser heard,
\* and the end of the turn.
Blank(g, s) ==
  <<Becomes("listening"), SttStatusEvent("completed", g, g),
    SttStatusEvent("failed", g, g)>> \o Transition(s, "listening", g)
Recognised(g, s) ==
  {Blank(g, s),
   <<SttStatusEvent("completed", g, g), SttFinalEvent(g, g),
     Becomes(Move(s, "thinking")), RouteSelectedEvent(g, g)>>
     \o Transition(s, "thinking", g) \o <<Stage("answers"), Stage("ends")>>}
    \cup Optional({<<Raises>>}, "stt" \in Faults)
Ended(g, s) ==
  <<Becomes("listening"), Measured>> \o Transition(s, "listening", g)
    \o <<TurnMetricsEvent(g, g, FALSE)>>
Utterance(g) ==
  <<SttStatusEvent("running", g, NoGeneration), Stage("recognises")>>

\* _run_text_turn: the turn is measured after the status is sent.
TextTurn(g, s) ==
  <<Stage("answers"), Becomes("listening")>> \o Transition(s, "listening", g)
    \o <<Measured, TurnMetricsEvent(g, g, FALSE)>>

\* _agent_say
Say(g, s) ==
  <<Stage("speaks"), Becomes("listening")>> \o Transition(s, "listening", g)

\* The scripts a script may turn out to be when its first item is due.  After
\* an exception the rest is not run.
Unfolded(script, g, s) ==
  LET Then(begin) ==
        IF Last(begin) = Raises THEN begin ELSE begin \o Tail(script)
  IN CASE Head(script).type = "recognises" -> {Then(b) : b \in Recognised(g, s)}
       [] Head(script).type = "answers" -> {Then(b) : b \in Answers(g)}
       [] Head(script).type = "speaks" -> {Then(b) : b \in Spoken(g)}
       [] Head(script).type = "ends" -> {Then(Ended(g, s))}
       [] OTHER -> {script}

-----------------------------------------------------------------------------
(* The worker's handler, which takes one message after the other.          *)

Responding == job.kind \in {"utterance", "reply"}
HandlerBusy == notices # <<>> \/ job.kind = "say"

\* Faulty variant: a client is not told of an interruption that cut nothing.
Interruption_OnlyActive ==
  IF ~Responding THEN <<>>
  ELSE Transition(status, "interrupted", NoGeneration)
         \o Transition(Move(status, "interrupted"), "listening", NoGeneration)
         \o <<ConversationInterruptedEvent(job.gen, job.gen)>>
         \o (IF traced THEN <<TurnMetricsEvent(job.gen, job.gen, TRUE)>> ELSE <<>>)

\* The events _interrupt returns.
Interruption ==
  LET g == IF Responding THEN job.gen ELSE NoGeneration IN
  Transition(status, "interrupted", NoGeneration)
    \o Transition(Move(status, "interrupted"), "listening", NoGeneration)
    \o <<ConversationInterruptedEvent(g, g)>>
    \o (IF traced THEN <<TurnMetricsEvent(g, g, TRUE)>> ELSE <<>>)

\* The status, and the events to send, when a request has made room for itself.
Cleared == IF Responding THEN Recovered(status) ELSE status
Before == IF Responding THEN Interruption ELSE <<>>
Disturbs(yes, n) == disturbed' = IF yes THEN n ELSE disturbed

Queueing(s) ==
  Transition(s, "transcribing", NoGeneration)
    \o <<SttStatusEvent("queued", turn + 1, NoGeneration)>>

\* _start_utterance_turn from the session status s; its events are sent by the
\* handler or, with a queued utterance, by the task before.
StartUtterance(s, lead) ==
  /\ turn' = turn + 1
  /\ traced' = TRUE
  /\ status' = Move(s, "transcribing")
  /\ job' = [kind |-> "utterance", gen |-> turn + 1, lead |-> lead,
             script |-> Utterance(turn + 1), ahead |-> TRUE]

\* _start_session
HandleStart ==
  /\ Head(up) = "start"
  /\ status' = Started(status)
  /\ notices' = <<SessionCreatedEvent>>
                  \o Transition("created", "loading", NoGeneration)
                  \o Transition("loading", "ready", NoGeneration)
                  \o Transition("ready", "listening", NoGeneration)
                  \o <<SessionReadyEvent>>
  /\ UNCHANGED <<traced, heard, queued, turn, job, disturbed>>

QueuesUtterances == Responding /\ left.policy = "enqueue"

\* _commit_audio of the audio in the input buffer, after the given events.
Commit(events) ==
  /\ heard' = "silence"
  /\ \/ /\ QueuesUtterances
        /\ queued' = queued + 1
        /\ notices' = events \o <<TurnQueuedEvent(queued + 1)>>
        /\ UNCHANGED <<status, traced, turn, job, disturbed>>
     \/ /\ ~QueuesUtterances
        /\ notices' = events \o Before \o Queueing(Cleared)
        /\ StartUtterance(Cleared, <<>>)
        /\ Disturbs(Responding, turn + 1)
        /\ UNCHANGED queued

\* audio.commit and user_turn.commit; without audio nothing happens.
HandleCommit ==
  /\ Head(up) = "commit"
  /\ IF heard = "silence"
       THEN UNCHANGED <<status, traced, heard, queued, turn, job, notices,
                        disturbed>>
       ELSE Commit(<<>>)

\* _append_audio: the VAD hears nothing new, the start of speech, or its end,
\* which commits the audio.
HandleAppend ==
  /\ Head(up) = "append"
  /\ \/ /\ heard' = IF heard = "speech" THEN "speech" ELSE "noise"
        /\ UNCHANGED <<status, traced, queued, turn, job, notices, disturbed>>
     \/ /\ heard # "speech" /\ heard' = "speech"
        /\ notices' = <<VadStateEvent(TRUE, job.gen)>>
        /\ UNCHANGED <<status, traced, queued, turn, job, disturbed>>
     \/ /\ heard = "speech"
        /\ Commit(<<VadStateEvent(FALSE, job.gen)>>)

\* _interrupt
HandleStop ==
  /\ Head(up) = "stop"
  /\ notices' = Interruption
  /\ status' = Recovered(status)
  /\ traced' = FALSE /\ job' = NoJob
  /\ Disturbs(TRUE, turn + 1)
  /\ UNCHANGED <<heard, queued, turn>>

\* _agent_generate_reply up to the creation of its task
HandleReply ==
  /\ Head(up) = "reply"
  /\ turn' = turn + 1 /\ traced' = TRUE
  /\ status' = Move(Cleared, "thinking")
  /\ notices' = WithGeneration(Before, turn + 1)
                  \o <<RouteSelectedEvent(turn + 1, turn + 1)>>
                  \o Transition(Cleared, "thinking", turn + 1)
  /\ job' = [kind |-> "reply", gen |-> turn + 1, lead |-> <<>>,
             script |-> TextTurn(turn + 1, status'), ahead |-> FALSE]
  /\ Disturbs(Responding, turn + 1)
  /\ UNCHANGED <<heard, queued>>

\* _agent_say, streamed by the handler itself
HandleSay ==
  /\ Head(up) = "say"
  /\ turn' = turn + 1 /\ traced' = (traced /\ ~Responding)
  /\ status' = Move(Cleared, "speaking")
  /\ notices' = WithGeneration(Before, turn + 1)
                  \o Transition(Cleared, "speaking", turn + 1)
  /\ job' = [kind |-> "say", gen |-> turn + 1, lead |-> <<>>,
             script |-> Say(turn + 1, status'), ahead |-> FALSE]
  /\ Disturbs(TRUE, turn + 2)
  /\ UNCHANGED <<heard, queued>>

Handle ==
  /\ link = "open"
  /\ up # <<>> /\ ~HandlerBusy
  /\ HandleStart \/ HandleCommit \/ HandleAppend \/ HandleStop \/ HandleReply
       \/ HandleSay
  /\ up' = Tail(up)
  /\ UNCHANGED <<chain, link, owner, storeVars, attached, owed, left>>

-----------------------------------------------------------------------------
(* The worker's events: those of the handler, those of the task.           *)

Sends(events) ==
  /\ link = "open" /\ Len(chain) < InFlight
  /\ chain' = chain \o events

\* One event at a time where the task may act in between; with no task, the
\* handler sends them all before it takes another message.
SendNotice ==
  /\ notices # <<>>
  /\ LET n == IF job = NoJob THEN Len(notices) ELSE 1 IN
     /\ Sends(SubSeq(notices, 1, n))
     /\ notices' = SubSeq(notices, n + 1, Len(notices))
  /\ job' = [job EXCEPT !.ahead = @ /\ job.lead # <<>>]
  /\ UNCHANGED <<status, traced, heard, queued, turn, up, link, owner,
                 storeVars, attached, owed, disturbed, left>>

\* _start_queued_utterance: the ending task sends the new turn's first events.
SendLead ==
  /\ job.lead # <<>>
  /\ Sends(<<Head(job.lead)>>)
  /\ job' = [job EXCEPT !.lead = Tail(@), !.ahead = FALSE]
  /\ UNCHANGED <<status, traced, heard, queued, turn, notices, up, link, owner,
                 storeVars, attached, owed, disturbed, left>>

\* The rest of the script is left, with status s and trace t; a task of an
\* utterance that has nothing left looks for the next utterance.
GoOn(rest, s, t, yields) ==
  IF rest = <<>> /\ job.kind = "utterance" /\ queued > 0 /\ s = "listening"
    THEN StartUtterance(s, Queueing(s)) /\ queued' = queued - 1
    ELSE /\ job' = IF rest = <<>> THEN NoJob
                 ELSE [job EXCEPT !.script = rest, !.ahead = yields]
         /\ status' = s /\ traced' = t
         /\ UNCHANGED <<queued, turn>>

\* The task's next step.  The task of an utterance is created before the
\* handler sends its events, a reply or an announcement after.  The lock of
\* emit lets the senders that wait in, one after the other.
Work ==
  /\ job.script # <<>>
  /\ job.kind = "utterance" \/ notices = <<>>
  /\ \E script \in Unfolded(job.script, job.gen, status) :
       LET item == Head(script) rest == Tail(script) IN
       /\ IF item.type \in Step
            THEN /\ link = "open"
                 /\ GoOn(rest,
                         IF item.type = "becomes" THEN item.status ELSE status,
                         traced /\ item.type # "measured", job.ahead)
                 /\ UNCHANGED chain
            ELSE /\ ~job.ahead
                 /\ Sends(<<item>>)
                 /\ GoOn(rest, status, traced, notices # <<>> \/ job.lead # <<>>)
  /\ UNCHANGED <<heard, notices, up, link, owner, storeVars, attached, owed,
                 disturbed, left>>

-----------------------------------------------------------------------------
(* The store and those who listen to it.                                   *)

\* The signal VoiceAgent.emitSignalsFromEvent gives to onSignal listeners
emitSignalsFromEvent(e) ==
  CASE e.type = "llm.reasoning.delta" -> "assistant.thinking"
    [] e.type = "llm.response.delta" -> "assistant.response.delta"
    [] e.type = "llm.completed" -> "assistant.response.final"
    [] e.type = "llm.tool.update" -> "assistant.tool"
    [] e.type = "llm.phase" -> "assistant.phase"
    [] e.type \in {"tts.chunk", "tts.completed"} -> "assistant.speaking.state"
    [] e.type = "conversation.interrupted" -> "interrupt.lifecycle"
    [] e.type = "error" -> "sdk.error"
    [] e.type \in {"vad.state", "session.status", "stt.final"} -> e.type
    [] OTHER -> "none"

ensurePendingTurnClock(s) == s.pending.phase # "idle"

\* Store.dispatch, with the session as its listener
Dispatch(s) == shown' = s /\ clock' = ensurePendingTurnClock(s)

\* A message that finds no open socket raises an error in its sender.
Requests(messages) == up' = IF link = "open" THEN up \o messages ELSE up

May(call) == left[call] > 0 /\ left' = [left EXCEPT ![call] = @ - 1]

-----------------------------------------------------------------------------
(* The client's calls.                                                     *)

\* VoiceAgent.connect, when connectSession has opened the session and started
\* the microphone
Attach ==
  /\ ~attached /\ link # "closed"
  /\ attached' = TRUE
  /\ UNCHANGED <<workerVars, up, chain, link, owner, storeVars, owed, disturbed,
                 left>>

\* sendAudio, from the microphone
AppendAudio ==
  /\ link = "open"
  /\ May("append")
  /\ Requests(<<"append">>)
  /\ UNCHANGED <<workerVars, chain, link, owner, storeVars, attached, owed,
                 disturbed>>

\* commit and commitUserTurn; the store takes note before the socket does.
\* The clock may be late.
CommitAudio ==
  /\ attached /\ link # "closed"
  /\ May("commit")
  /\ \E late \in BOOLEAN :
       /\ shown.pending.phase = "timeout" => late
       /\ Dispatch(reduceVoiceSessionOutboundMessage(shown, "commit", late))
  /\ Requests(<<"commit">>)
  /\ UNCHANGED <<workerVars, chain, link, owner, attached, owed, disturbed>>

\* interrupt() of the agent, up to its await for the player
Interrupt ==
  /\ attached /\ link # "closed" /\ left.policy = "send_now"
  /\ May("stop")
  /\ owner' = RejectActive(owner)
  /\ Requests(<<"stop">>)
  /\ owed' = (owed \/ link = "open")
  /\ UNCHANGED <<workerVars, chain, link, storeVars, attached, disturbed>>

\* generateReply and say, with interruptCurrent or without
Request ==
  /\ attached /\ link # "closed" /\ left.policy = "send_now"
  /\ May("request")
  /\ \E m \in {"reply", "say"}, interrupts \in BOOLEAN :
       /\ owner' = IF interrupts THEN RejectActive(owner) ELSE owner
       /\ Requests(IF interrupts THEN <<"stop", m>> ELSE <<m>>)
  /\ UNCHANGED <<workerVars, chain, link, storeVars, attached, owed, disturbed>>

\* The interval of ensurePendingTurnClock fires.
Tick ==
  /\ clock
  /\ \E elapsed \in shown.pending.elapsed .. 3 :
       Dispatch(reduceVoiceSessionClockTick(shown, elapsed))
  /\ UNCHANGED <<workerVars, up, chain, link, owner, attached, owed, disturbed,
                 left>>

\* The connection ends: what is on its way is lost, what waits in the sequencer
\* is not, and what the worker does from here on reaches no one.
Ends(how) ==
  /\ link' = how
  /\ up' = <<>>
  /\ \E n \in 0..Len(chain) : chain' = SubSeq(chain, 1, n)
  /\ status' = "closed" /\ traced' = FALSE /\ heard' = "silence" /\ queued' = 0
  /\ job' = NoJob /\ notices' = <<>> /\ owed' = FALSE
  /\ UNCHANGED <<turn, shown, disturbed, left>>

\* The worker's process or the network fails.
Drop ==
  /\ link = "open"
  /\ Ends("dropped")
  /\ UNCHANGED <<owner, clock, attached>>

\* close(), behind the awaits for the microphone and the player.  What waits
\* in the sequencer will still be run.  VoiceAgent.disconnect has unsubscribed.
Close ==
  /\ link # "closed"
  /\ Ends("closed")
  /\ owner' = OpenGate
  /\ attached' = FALSE
  /\ clock' = ensurePendingTurnClock(shown)   \* cleared, and session.close sent

-----------------------------------------------------------------------------
(* The event sequencer.                                                    *)

\* Faulty variant: an event does not wait for the one before.
Next_Any == {i \in 1..2 : i <= Len(chain)}
NextInChain == {i \in {1} : i <= Len(chain)}

\* The next event of the sequencer: decided by the gate, then dispatched.  The
\* agent has heard it before, when it arrived.
Apply ==
  \E i \in NextInChain :
    LET e == chain[i] IN
    /\ chain' = RemoveAt(chain, i)
    /\ owner' = Observe(owner, Gated(e))
    /\ IF ShouldAccept(owner, Gated(e))
         THEN Dispatch(reduceVoiceSessionEvent(shown, e))
         ELSE UNCHANGED storeVars
    /\ owed' = (owed /\ emitSignalsFromEvent(e) # "interrupt.lifecycle")
    /\ UNCHANGED <<workerVars, up, link, attached, disturbed, left>>

Next ==
  \/ Handle \/ SendNotice \/ SendLead \/ Work
  \/ Attach \/ AppendAudio \/ CommitAudio \/ Interrupt \/ Request \/ Tick
  \/ Drop \/ Close \/ Apply

Spec == Init /\ [][Next]_vars

\* The worker and the browser go on, and the clock reaches its limits.
FairSpec ==
  /\ Spec
  /\ WF_vars(Handle) /\ WF_vars(SendNotice) /\ WF_vars(SendLead)
  /\ WF_vars(Work) /\ WF_vars(Apply) /\ WF_vars(Tick)

-----------------------------------------------------------------------------
(* What a client may rely on.                                              *)

\* Each variable has its type.
TypeOK ==
  /\ left \in Conversation /\ status \in Status /\ traced \in BOOLEAN
  /\ heard \in {"silence", "noise", "speech"}
  /\ queued \in 0..MaxAsked /\ turn \in MaybeGeneration
  /\ job.kind \in {"none", "utterance", "reply", "say"}
  /\ link \in {"open", "dropped", "closed"}
  /\ owner \in [active : MaybeGeneration, rejected : Seq(Generation),
                suppress : BOOLEAN]
  /\ shown \in VoiceSessionState
  /\ {clock, attached, owed} \subseteq BOOLEAN

\* Nothing is under way between this client and its worker.
Quiet ==
  /\ link = "open" /\ up = <<>> /\ chain = <<>>
  /\ notices = <<>> /\ job = NoJob

\* When the worker listens and all its events have been applied, the client
\* shows that it listens.  Excepted are an interruption and an announcement
\* until the next transcript: the store keeps "playing" through the one
\* (state.ts:348-358), and the other ends with no status event
\* (worker.py:615-619); and a turn whose transcript the client has shown and
\* whose other events it refuses: the handler's interruption of the turn before
\* may be sent behind that transcript (worker.py:222-228), and the gate then
\* rejects the turn it has just let in (generation_gate.ts:85).
PhaseIsHonest ==
  Quiet /\ status = "listening" /\ (disturbed = 0 \/ shown.final >= disturbed)
    /\ ~Rejects(owner, shown.final)
    => shown.phase = IF shown.vad THEN "user_speaking" ELSE "listening"

\* No utterance waits for its turn unseen: once the worker's notices have been
\* applied the client counts at least as many turns as are queued
\* (state.ts:359-382 against worker.py:206-218 and 309-315).
QueueIsShown ==
  notices = <<>> /\ link = "open"
    /\ (\A i \in DOMAIN chain : chain[i].type # "turn.queued")
    => shown.queue >= queued

\* The transcript tells the turns in their order, each at most once from either
\* side, the answer after what it answers (state.ts:201-234, 286-301).
TranscriptIsInOrder ==
  \A i, j \in DOMAIN shown.transcript : i < j =>
    LET a == shown.transcript[i] b == shown.transcript[j] IN
    \/ a[2] < b[2]
    \/ a[2] = b[2] /\ a[1] = "user" /\ b[1] = "assistant"

\* No word of an answer is shown under the transcript of a later utterance.
AnswersFollowTheirQuestion == \A t \in shown.words : t >= shown.final

\* While the session is open the clock runs exactly when a turn is pending.
ClockWatchesThePendingTurn ==
  link # "closed" => (clock <=> shown.pending.phase # "idle")

\* What the store shows of a conversation fits together.
ShownFitsTogether ==
  /\ TypeOK /\ ClockWatchesThePendingTurn
  /\ QueueIsShown /\ TranscriptIsInOrder /\ AnswersFollowTheirQuestion

\* A committed turn does not stay pending: it is resolved or shown to have
\* timed out, also when the commit was never sent, its audio was empty, the
\* recogniser failed or the connection was lost (session.ts:104-107, 223-234).
PendingTurnsAreSettled ==
  shown.pending.phase # "idle" ~> shown.pending.phase \in {"idle", "timeout"}

\* An interrupt the client has sent is acknowledged, whatever the worker was
\* doing, unless the connection ends (voice_agent.ts:98-107, 463-472).
InterruptsAreAcknowledged == owed ~> ~owed \/ link # "open"

\* What a client asks of its session is answered, or shown not to be.
ClientIsAnswered == PendingTurnsAreSettled /\ InterruptsAreAcknowledged
=============================================================================
