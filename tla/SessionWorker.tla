--------------------------- MODULE SessionWorker ---------------------------
(***************************************************************************)
(* One SessionWorker of the runtime (session_worker/worker.py) with the    *)
(* sessions kept in memory: the coroutines that run inside one asyncio     *)
(* event loop on behalf of one session.                                    *)
(*                                                                         *)
(*   - A handler coroutine per websocket connection takes one client       *)
(*     message at a time (RealtimeConnectionHandler.handle awaits          *)
(*     session.apply before it receives the next one).                     *)
(*   - A response task per accepted turn transcribes, routes, asks the     *)
(*     language model and streams speech, and reports through the same     *)
(*     worker fields as the handlers.                                      *)
(*                                                                         *)
(* A step of the model is the code between two awaits that can suspend.    *)
(* The store's coroutines never suspend when sessions are in memory, so a  *)
(* status transition belongs to the step that makes it.  A turn, the       *)
(* utterance or request it answers, its response task and its generation   *)
(* share one identifier: the code gives each a fresh one, and none is ever *)
(* used for two turns.                                                     *)
(***************************************************************************)
EXTENDS Naturals, Sequences, FiniteSets, SessionStatus

CONSTANTS
  Connection,   \* websocket connections that address this session
  MaxInputs,    \* bound: utterances, replies and announcements per behaviour
  Policies,     \* turn queue policies a client may configure
  Messages,     \* the kinds of client message received
  Opening,      \* the kinds received while the session is still "created"
  Faults        \* the engines that may raise: "stt", "tts"

Message == {"start", "append", "commit", "say", "generate", "interrupt",
            "config", "close", "delete"}

ASSUME ConstantsAssumption ==
  /\ MaxInputs \in Nat \ {0}
  /\ Policies \subseteq {"send_now", "enqueue"}
  /\ Policies # {}
  /\ Messages \subseteq Message
  /\ Opening \subseteq Messages
  /\ Faults \subseteq {"stt", "tts"}

Turn == 1..MaxInputs
NoTurn == 0
MaybeTurn == Turn \cup {NoTurn}

VARIABLES
  status,        \* SessionState.status
  activeTurn,    \* SessionState.active_turn_id
  begun,         \* the turns in SessionState.turns
  completed,     \* those whose completed_at is set
  runtimeTurn,   \* SessionWorkerRuntimeState.active_turn_id
  responseTask,  \* SessionWorkerRuntimeState.response_task
  activeGen,     \* SessionWorkerRuntimeState.active_generation_id
  trace,         \* SessionWorkerRuntimeState.current_trace, by its turn
  queue,         \* SessionWorkerRuntimeState.queued_utterances
  policy,        \* runtime_config.turn_queue.policy of the session
  buffer,        \* the utterance the InputBuffer is recording, if any
  asked,         \* inputs received so far; the source of identifiers
  kind,          \* what a turn answers: "audio", "text" or "say"
  stage,         \* where the work on a turn stands
  cancelling,    \* tasks with a CancelledError not yet delivered
  failed,        \* turns whose work ended with an exception
  handler        \* what each connection's handler is suspended on

sessionVars == <<status, activeTurn, begun, completed>>
runtimeVars == <<runtimeTurn, responseTask, activeGen, trace>>
inputVars   == <<buffer, asked>>
taskVars    == <<kind, stage, cancelling, failed>>
vars == <<sessionVars, runtimeVars, queue, policy, inputVars, taskVars, handler>>

-----------------------------------------------------------------------------
(* Stages of the work on a turn, and what the code asks about them.        *)

\* "inline": done by the handler itself; "created".."handoff": a live task.
WorkingStage == {"created", "transcribing", "routing", "responding"}
LiveStage    == WorkingStage \cup {"reporting", "tail", "handoff"}
Stage        == LiveStage \cup {"none", "inline", "ended"}

Live(t)    == t \in Turn /\ stage[t] \in LiveStage    \* not task.done()
Working(t) == t \in Turn /\ stage[t] \in WorkingStage \* the answer is not out

\* Faulty variant: a task that has not run yet is not seen.
HasActiveResponse_Started == Live(responseTask) /\ stage[responseTask] # "created"

\* SessionWorker._has_active_response
HasActiveResponse == Live(responseTask)

Operation == {"none", "commit", "say", "generate", "interrupt", "close"}
HandlerState ==
  [at    : {"idle", "pushing", "cancelling", "routing", "announcing", "saying"},
   op    : Operation,
   task  : MaybeTurn,     \* the task _interrupt awaits
   turn  : MaybeTurn,     \* interrupted_turn_id
   input : MaybeTurn]     \* the utterance or request the message carries

Idle == [at |-> "idle", op |-> "none", task |-> NoTurn, turn |-> NoTurn,
         input |-> NoTurn]

Become(c, at, input) == handler' = [handler EXCEPT ![c] =
                          [Idle EXCEPT !.at = at, !.input = input]]

\* A client message of kind m can reach the idle handler of connection c.
Receives(c, m) ==
  /\ handler[c].at = "idle"
  /\ m \in Messages
  /\ status = "created" => m \in Opening

\* SessionState.complete_turn, whoever calls it: it completes the turn that
\* is active, and nothing when none is.
CompletedActive == completed \cup ({activeTurn} \ {NoTurn})

Init ==
  /\ status = "created"
  /\ activeTurn = NoTurn
  /\ begun = {}
  /\ completed = {}
  /\ runtimeTurn = NoTurn
  /\ responseTask = NoTurn
  /\ activeGen = NoTurn
  /\ trace = NoTurn
  /\ queue = <<>>
  /\ policy \in Policies
  /\ buffer = NoTurn
  /\ asked = 0
  /\ kind = [t \in Turn |-> "audio"]
  /\ stage = [t \in Turn |-> "none"]
  /\ cancelling = {}
  /\ failed = {}
  /\ handler = [c \in Connection |-> Idle]

-----------------------------------------------------------------------------
(* Beginning a turn.                                                       *)

\* SessionState.begin_turn and the assignments beside it.
BeginTurn(t, done) ==
  /\ begun' = begun \cup {t}
  /\ completed' = done
  /\ activeTurn' = t
  /\ runtimeTurn' = t

\* _start_utterance_turn: begin the turn of utterance t from status s and
\* create its response task.
StartUtterance(t, s, done, stages) ==
  /\ BeginTurn(t, done)
  /\ status' = Move(s, "transcribing")
  /\ trace' = t
  /\ responseTask' = t
  /\ activeGen' = t
  /\ stage' = [stages EXCEPT ![t] = "created"]

\* _agent_generate_reply up to its await of route_text.
BeginReply(c, t, done) ==
  /\ BeginTurn(t, done)
  /\ trace' = t
  /\ kind' = [kind EXCEPT ![t] = "text"]
  /\ stage' = [stage EXCEPT ![t] = "inline"]
  /\ Become(c, "routing", t)

\* _agent_say up to its await of the speech stream.
BeginSay(c, t, s, done) ==
  /\ BeginTurn(t, done)
  /\ status' = Move(s, "speaking")
  /\ kind' = [kind EXCEPT ![t] = "say"]
  /\ stage' = [stage EXCEPT ![t] = "inline"]
  /\ Become(c, "saying", t)

-----------------------------------------------------------------------------
(* _interrupt.  With a live response the handler cancels it and awaits it; *)
(* the rest of the function, and then of its caller, runs when it is done. *)

CancelResponse(c, op, input) ==
  /\ HasActiveResponse
  /\ cancelling' = cancelling \cup {responseTask}
  /\ handler' = [handler EXCEPT ![c] =
                   [at |-> "cancelling", op |-> op, task |-> responseTask,
                    turn |-> activeTurn, input |-> input]]
  /\ UNCHANGED <<sessionVars, runtimeVars, queue, kind, stage, failed>>

\* The fields of the worker after _interrupt, whatever its caller does next.
ForgetResponse == responseTask' = NoTurn /\ activeGen' = NoTurn
\* Faulty variant: the interrupted turn is never completed.
InterruptedTurns_Open(turn) == completed
InterruptedTurns(turn) == IF turn # NoTurn THEN CompletedActive ELSE completed
\* complete_turn and the reset of the two active turn fields.
EndInterrupted(turn) ==
  /\ completed' = InterruptedTurns(turn)
  /\ activeTurn' = IF turn # NoTurn THEN NoTurn ELSE activeTurn
  /\ runtimeTurn' = IF turn # NoTurn THEN NoTurn ELSE runtimeTurn

\* conversation.interrupt while nothing is being answered.
InterruptQuiet(c) ==
  /\ ~HasActiveResponse
  /\ ForgetResponse
  /\ EndInterrupted(activeTurn)
  /\ trace' = NoTurn
  /\ status' = Recovered(status)
  /\ UNCHANGED <<begun, queue, taskVars, handler>>

Interrupt(c) ==
  /\ Receives(c, "interrupt")
  /\ \/ CancelResponse(c, "interrupt", NoTurn)
     \/ InterruptQuiet(c)
  /\ UNCHANGED <<policy, inputVars>>

\* Faulty variant: the cancelled task is not awaited.
ResponseGone_NoAwait(c, op) ==
  handler[c].at = "cancelling" /\ handler[c].op = op

\* The awaited task is done: the callers of _interrupt, one by one.
ResponseGone(c, op) ==
  /\ handler[c].at = "cancelling"
  /\ handler[c].op = op
  /\ ~Live(handler[c].task)

InterruptDone(c) ==
  /\ ResponseGone(c, "interrupt")
  /\ ForgetResponse
  /\ EndInterrupted(handler[c].turn)
  /\ trace' = NoTurn
  /\ status' = Recovered(status)
  /\ handler' = [handler EXCEPT ![c] = Idle]
  /\ UNCHANGED <<begun, queue, policy, inputVars, taskVars>>

CloseDone(c) ==
  /\ ResponseGone(c, "close")
  /\ ForgetResponse
  /\ EndInterrupted(handler[c].turn)
  /\ trace' = NoTurn
  /\ buffer' = NoTurn
  /\ status' = "closed"
  /\ handler' = [handler EXCEPT ![c] = Idle]
  /\ UNCHANGED <<begun, queue, policy, asked, taskVars>>

CommitDone(c) ==
  /\ ResponseGone(c, "commit")
  /\ StartUtterance(handler[c].input, Recovered(status),
                    InterruptedTurns(handler[c].turn), stage)
  /\ handler' = [handler EXCEPT ![c] = Idle]
  /\ UNCHANGED <<queue, policy, inputVars, kind, cancelling, failed>>

GenerateDone(c) ==
  /\ ResponseGone(c, "generate")
  /\ ForgetResponse
  /\ status' = Recovered(status)
  /\ BeginReply(c, handler[c].input, InterruptedTurns(handler[c].turn))
  /\ UNCHANGED <<queue, policy, inputVars, cancelling, failed>>

SayDone(c) ==
  /\ ResponseGone(c, "say")
  /\ ForgetResponse
  /\ trace' = NoTurn
  /\ BeginSay(c, handler[c].input, Recovered(status),
              InterruptedTurns(handler[c].turn))
  /\ UNCHANGED <<queue, policy, inputVars, cancelling, failed>>

-----------------------------------------------------------------------------
(* The client messages.                                                    *)

\* session.start: also sent again by a client that reconnects.  Settings that
\* cannot be read raise an error after they are kept and before the start.
StartSession(c) ==
  /\ Receives(c, "start")
  /\ status' = Started(status) \/ UNCHANGED status
  /\ policy' \in Policies
  /\ UNCHANGED <<activeTurn, begun, completed, runtimeVars, queue, inputVars,
                 taskVars, handler>>

\* config.update
UpdateConfig(c) ==
  /\ Receives(c, "config")
  /\ policy' \in Policies
  /\ UNCHANGED <<sessionVars, runtimeVars, queue, inputVars, taskVars, handler>>

\* audio.append: the chunk is buffered, then the handler awaits the detector,
\* unless there is none.
AppendAudio(c) ==
  /\ Receives(c, "append")
  /\ buffer # NoTurn \/ asked < MaxInputs
  /\ buffer' = IF buffer # NoTurn THEN buffer ELSE asked + 1
  /\ asked'  = IF buffer # NoTurn THEN asked ELSE asked + 1
  /\ Become(c, "pushing", NoTurn) \/ UNCHANGED handler
  /\ UNCHANGED <<sessionVars, runtimeVars, queue, policy, taskVars>>

\* Faulty variants: only the latest utterance is kept, and it goes first.
Enqueued_LatestOnly(q, t) == <<t>>
Enqueued_First(q, t) == <<t>> \o q
Enqueued(q, t) == Append(q, t)

\* _commit_audio: seal the buffer and act on the utterance in it.
SealAndCommit(c) ==
  /\ buffer' = NoTurn
  /\ \/ /\ buffer = NoTurn
        /\ handler' = [handler EXCEPT ![c] = Idle]
        /\ UNCHANGED <<sessionVars, runtimeVars, queue, taskVars>>
     \/ /\ buffer # NoTurn
        /\ HasActiveResponse
        /\ policy = "enqueue"
        /\ queue' = Enqueued(queue, buffer)
        /\ handler' = [handler EXCEPT ![c] = Idle]
        /\ UNCHANGED <<sessionVars, runtimeVars, taskVars>>
     \/ /\ buffer # NoTurn
        /\ policy = "send_now"
        /\ CancelResponse(c, "commit", buffer)
     \/ /\ buffer # NoTurn
        /\ ~HasActiveResponse
        /\ StartUtterance(buffer, status, completed, stage)
        /\ handler' = [handler EXCEPT ![c] = Idle]
        /\ UNCHANGED <<queue, kind, cancelling, failed>>
  /\ UNCHANGED <<asked, policy>>

\* audio.commit and user_turn.commit
CommitAudio(c) == Receives(c, "commit") /\ SealAndCommit(c)

\* The detector has answered: the chunk ended the speech, or it did not.
AudioPushed(c) ==
  /\ handler[c].at = "pushing"
  /\ \/ SealAndCommit(c)
     \/ /\ handler' = [handler EXCEPT ![c] = Idle]
        /\ UNCHANGED <<sessionVars, runtimeVars, queue, policy, inputVars,
                       taskVars>>

\* agent.generate_reply with a text in it.
GenerateReply(c) ==
  /\ Receives(c, "generate")
  /\ asked < MaxInputs
  /\ asked' = asked + 1
  /\ \/ CancelResponse(c, "generate", asked + 1)
     \/ /\ ~HasActiveResponse
        /\ BeginReply(c, asked + 1, completed)
        /\ UNCHANGED <<status, responseTask, activeGen, queue, cancelling,
                       failed>>
  /\ UNCHANGED <<policy, buffer>>

\* route_text has answered, by the router or by the fallback target.
ReplyRouted(c) ==
  /\ handler[c].at = "routing"
  /\ status' = Move(status, "thinking")
  /\ Become(c, "announcing", handler[c].input)
  /\ UNCHANGED <<activeTurn, begun, completed, runtimeVars, queue, policy,
                 inputVars, taskVars>>

\* The first events are sent: the reply gets its response task.
ReplyAnnounced(c) ==
  LET t == handler[c].input IN
  /\ handler[c].at = "announcing"
  /\ activeGen' = t
  /\ responseTask' = t
  /\ stage' = [stage EXCEPT ![t] = "created"]
  /\ handler' = [handler EXCEPT ![c] = Idle]
  /\ UNCHANGED <<sessionVars, runtimeTurn, trace, queue, policy, inputVars,
                 kind, cancelling, failed>>

\* agent.say
Say(c) ==
  /\ Receives(c, "say")
  /\ asked < MaxInputs
  /\ asked' = asked + 1
  /\ \/ CancelResponse(c, "say", asked + 1)
     \/ /\ ~HasActiveResponse
        /\ BeginSay(c, asked + 1, status, completed)
        /\ UNCHANGED <<responseTask, activeGen, trace, queue, cancelling,
                       failed>>
  /\ UNCHANGED <<policy, buffer>>

\* The announcement is out.
SaySpoken(c) ==
  /\ handler[c].at = "saying"
  /\ completed' = CompletedActive
  /\ activeTurn' = NoTurn
  /\ runtimeTurn' = NoTurn
  /\ status' = Move(status, "listening")
  /\ stage' = [stage EXCEPT ![handler[c].input] = "ended"]
  /\ handler' = [handler EXCEPT ![c] = Idle]
  /\ UNCHANGED <<begun, responseTask, activeGen, trace, queue, policy,
                 inputVars, kind, cancelling, failed>>

\* The speech engine raises: the error leaves _agent_say as it stands.
SayFailed(c) ==
  /\ handler[c].at = "saying"
  /\ "tts" \in Faults
  /\ failed' = failed \cup {handler[c].input}
  /\ stage' = [stage EXCEPT ![handler[c].input] = "ended"]
  /\ handler' = [handler EXCEPT ![c] = Idle]
  /\ UNCHANGED <<sessionVars, runtimeVars, queue, policy, inputVars, kind,
                 cancelling>>

\* session.close
CloseSession(c) ==
  /\ Receives(c, "close")
  /\ \/ CancelResponse(c, "close", NoTurn) /\ UNCHANGED buffer
     \/ /\ ~HasActiveResponse
        /\ buffer' = NoTurn
        /\ status' = "closed"
        /\ UNCHANGED <<activeTurn, begun, completed, runtimeVars, queue,
                       taskVars, handler>>
  /\ UNCHANGED <<policy, asked>>

\* DELETE /v1/sessions/{id}: the store closes the shared state, no worker
\* is told.
DeleteSession ==
  /\ "delete" \in Messages
  /\ status' = "closed"
  /\ UNCHANGED <<activeTurn, begun, completed, runtimeVars, queue, policy,
                 inputVars, taskVars, handler>>

-----------------------------------------------------------------------------
(* The response tasks: _run_turn_pipeline with _process_utterance_turn for *)
(* an utterance, _run_text_turn for a generated reply.                     *)

\* The event loop resumes task t, and no cancellation waits to be delivered.
Resumes(t, at) == stage[t] = at /\ t \notin cancelling

\* complete_turn and the move to LISTENING that end the work on a turn.
EndTurn ==
  /\ completed' = CompletedActive
  /\ activeTurn' = NoTurn
  /\ runtimeTurn' = NoTurn
  /\ status' = Move(status, "listening")

TaskStarted(t) ==
  /\ Resumes(t, "created")
  /\ stage' = [stage EXCEPT ![t] = IF kind[t] = "audio" THEN "transcribing"
                                   ELSE "responding"]
  /\ UNCHANGED <<sessionVars, runtimeVars, queue, policy, inputVars, kind,
                 cancelling, failed, handler>>

\* A transcript with words in it: stt.final goes out and the router is asked.
Transcribed(t) ==
  /\ Resumes(t, "transcribing")
  /\ stage' = [stage EXCEPT ![t] = "routing"]
  /\ UNCHANGED <<sessionVars, runtimeVars, queue, policy, inputVars, kind,
                 cancelling, failed, handler>>

\* A blank transcript ends the turn; its trace stays behind.
TranscribedEmpty(t) ==
  /\ Resumes(t, "transcribing")
  /\ EndTurn
  /\ stage' = [stage EXCEPT ![t] = "tail"]
  /\ UNCHANGED <<begun, responseTask, activeGen, trace, queue, policy,
                 inputVars, kind, cancelling, failed, handler>>

Routed(t) ==
  /\ Resumes(t, "routing")
  /\ status' = Move(status, "thinking")
  /\ stage' = [stage EXCEPT ![t] = "responding"]
  /\ UNCHANGED <<activeTurn, begun, completed, runtimeVars, queue, policy,
                 inputVars, kind, cancelling, failed, handler>>

\* Model and speech streams are drained.  An utterance's turn builds its
\* metrics at once, a reply's only after its status event is sent.
Responded(t) ==
  /\ Resumes(t, "responding")
  /\ EndTurn
  /\ IF kind[t] = "audio"
       THEN trace' = NoTurn /\ stage' = [stage EXCEPT ![t] = "tail"]
       ELSE UNCHANGED trace /\ stage' = [stage EXCEPT ![t] = "reporting"]
  /\ UNCHANGED <<begun, responseTask, activeGen, queue, policy, inputVars,
                 kind, cancelling, failed, handler>>

Reported(t) ==
  /\ Resumes(t, "reporting")
  /\ trace' = NoTurn
  /\ stage' = [stage EXCEPT ![t] = "tail"]
  /\ UNCHANGED <<sessionVars, runtimeTurn, responseTask, activeGen, queue,
                 policy, inputVars, kind, cancelling, failed, handler>>

\* The finally block of _run_text_turn.
LeaveReply(t) ==
  /\ kind[t] # "audio"
  /\ ForgetResponse
  /\ stage' = [stage EXCEPT ![t] = "ended"]
  /\ UNCHANGED <<sessionVars, runtimeTurn, trace, queue>>

\* Faulty variants: the last queued utterance is left behind, and the queue is
\* read but not shortened.
CanServeNext_OffByOne == Len(queue) > 1 /\ status = "listening"
CanServeNext == queue # <<>> /\ status = "listening"
PopQueue_Peek == queue' = queue
PopQueue == queue' = Tail(queue)

\* The finally block of _run_turn_pipeline: forget the response, and answer
\* the next queued utterance if the session is listening.
LeaveUtterance(t) ==
  /\ kind[t] = "audio"
  /\ IF CanServeNext
       THEN /\ PopQueue
            /\ StartUtterance(Head(queue), status, completed,
                              [stage EXCEPT ![t] = "handoff"])
       ELSE /\ responseTask' = NoTurn
            /\ activeGen' = IF activeGen = t THEN NoTurn ELSE activeGen
            /\ stage' = [stage EXCEPT ![t] = "ended"]
            /\ UNCHANGED <<sessionVars, runtimeTurn, trace, queue>>

Leave(t) == LeaveReply(t) \/ LeaveUtterance(t)

\* The last event is sent.
TaskFinished(t) ==
  /\ Resumes(t, "tail")
  /\ Leave(t)
  /\ UNCHANGED <<policy, inputVars, kind, cancelling, failed, handler>>

\* The transcriber or the speech engine raises.
TaskFailed(t) ==
  /\ \/ Resumes(t, "transcribing") /\ "stt" \in Faults
     \/ Resumes(t, "responding") /\ "tts" \in Faults
  /\ failed' = failed \cup {t}
  /\ Leave(t)
  /\ UNCHANGED <<policy, inputVars, kind, cancelling, handler>>

\* Faulty variant: a task that has not run yet does not notice.
Cancellable_Started == LiveStage \ {"created", "handoff"}
Cancellable == LiveStage \ {"handoff"}

\* CancelledError is raised at the await the task is suspended on.  A task
\* that never started has no finally block to run.
TaskCancelled(t) ==
  /\ t \in cancelling
  /\ stage[t] \in Cancellable
  /\ cancelling' = cancelling \ {t}
  /\ IF stage[t] = "created"
       THEN /\ stage' = [stage EXCEPT ![t] = "ended"]
            /\ UNCHANGED <<sessionVars, runtimeVars, queue>>
       ELSE Leave(t)
  /\ UNCHANGED <<policy, inputVars, kind, failed, handler>>

\* The first events of the queued turn are sent, or the sending is cancelled.
HandoffDone(t) ==
  /\ stage[t] = "handoff"
  /\ stage' = [stage EXCEPT ![t] = "ended"]
  /\ cancelling' = cancelling \ {t}
  /\ UNCHANGED <<sessionVars, runtimeVars, queue, policy, inputVars, kind,
                 failed, handler>>

-----------------------------------------------------------------------------
HandlerStep(c) ==
  \/ AudioPushed(c) \/ ReplyRouted(c) \/ ReplyAnnounced(c)
  \/ SaySpoken(c) \/ SayFailed(c)
  \/ InterruptDone(c) \/ CloseDone(c) \/ CommitDone(c)
  \/ GenerateDone(c) \/ SayDone(c)

Receive(c) ==
  \/ StartSession(c) \/ UpdateConfig(c) \/ AppendAudio(c) \/ CommitAudio(c)
  \/ GenerateReply(c) \/ Say(c) \/ Interrupt(c) \/ CloseSession(c)

TaskStep(t) ==
  \/ TaskStarted(t) \/ Transcribed(t) \/ TranscribedEmpty(t) \/ Routed(t)
  \/ Responded(t) \/ Reported(t) \/ TaskFinished(t) \/ TaskFailed(t)
  \/ TaskCancelled(t) \/ HandoffDone(t)

Next ==
  \/ \E c \in Connection : Receive(c) \/ HandlerStep(c)
  \/ \E t \in Turn : TaskStep(t)
  \/ DeleteSession

Spec == Init /\ [][Next]_vars

\* The event loop resumes every coroutine that is ready, and the engines a
\* coroutine awaits answer, raise or are cancelled.
FairSpec ==
  /\ Spec
  /\ \A c \in Connection : WF_vars(HandlerStep(c))
  /\ \A t \in Turn : WF_vars(TaskStep(t))

-----------------------------------------------------------------------------
(* Properties.                                                             *)

\* Every field holds what its declaration in session/models.py and
\* session_worker/state.py says, and "interrupted" never outlives a step.
TypeOK ==
  /\ status \in Status \ {"interrupted", "failed"}
  /\ activeTurn \in MaybeTurn /\ runtimeTurn \in MaybeTurn
  /\ begun \subseteq Turn /\ completed \subseteq Turn
  /\ responseTask \in MaybeTurn /\ activeGen \in MaybeTurn
  /\ trace \in MaybeTurn
  /\ queue \in Seq(Turn)
  /\ policy \in Policies
  /\ buffer \in MaybeTurn /\ asked \in 0..MaxInputs
  /\ kind \in [Turn -> {"audio", "text", "say"}]
  /\ stage \in [Turn -> Stage]
  /\ cancelling \subseteq Turn /\ failed \subseteq Turn
  /\ handler \in [Connection -> HandlerState]

\* The input a handler carries across the await in _interrupt.
Carried(c) == IF handler[c].at = "cancelling" THEN handler[c].input ELSE NoTurn
Queued(t) == \E i \in DOMAIN queue : queue[i] = t

\* Until the session is closed no utterance and no request is lost: each one
\* is recorded, carried by a handler, queued, or has its turn.
NoInputIsLost ==
  status # "closed" =>
    \A t \in 1..asked : \/ t \in begun \/ t = buffer \/ Queued(t)
                        \/ \E c \in Connection : Carried(c) = t

\* No input is answered twice: one that still waits has no turn yet and waits
\* in one place only, whichever handler or task takes it from there.
NoInputIsAnsweredTwice ==
  /\ \A t \in begun : /\ t # buffer /\ ~Queued(t)
                     /\ \A c \in Connection : Carried(c) # t
  /\ \A i, j \in DOMAIN queue : queue[i] = queue[j] => i = j
  /\ ~Queued(buffer)
  /\ \A c \in Connection : Carried(c) # NoTurn =>
       /\ Carried(c) # buffer /\ ~Queued(Carried(c))
       /\ \A d \in Connection : Carried(d) = Carried(c) => d = c

\* A response that is still being produced is the one _interrupt would
\* cancel: no answer runs on where neither an interrupt, a new utterance nor
\* session.close can reach it.
EveryResponseIsInterruptible == \A t \in Turn : Working(t) => responseTask = t

\* A task that is still producing the answer of its turn finds the session's
\* active turn, generation and trace to be its own, so complete_turn completes
\* the right turn and turn.metrics reports the right trace.
WorkingTaskOwnsSession ==
  \A t \in Turn : Working(t) =>
    activeTurn = t /\ runtimeTurn = t /\ activeGen = t /\ trace = t

\* Once a turn is recorded as completed, answered or interrupted, nothing
\* produces output for it any more.
CompletedIsOver == \A t \in completed : ~Working(t) /\ stage[t] # "inline"

\* No turn is left open in the session's history: a turn that was begun is
\* completed, or is the active one, or its engine raised.
NoTurnIsAbandoned == begun \subseteq completed \cup {activeTurn} \cup failed

\* A status that tells the client to wait is backed by somebody who will end
\* it: a task or a handler at work on the active turn, or an interrupt under
\* way.  The exception is the code's own: after an engine raised, the status
\* stays until the next message.
BusyIsBacked ==
  status \in Busy =>
    \/ Working(activeTurn)
    \/ \E c \in Connection :
         \/ handler[c].at = "cancelling"
         \/ handler[c].at \in {"routing", "announcing", "saying"}
            /\ handler[c].input = activeTurn
    \/ activeTurn \in failed

\* The turn somebody works on, and the turns whose work is over.
Served(t) == Working(t) \/ stage[t] = "inline"
Serving == IF \E t \in Turn : Served(t) THEN CHOOSE t \in Turn : Served(t)
           ELSE NoTurn
Over == {t \in Turn : stage[t] \in {"reporting", "tail", "handoff", "ended"}}

\* The worker implements taking turns: work on a turn begins when no other
\* turn is worked on, and once it stopped it is never taken up again.
TT == INSTANCE TurnTaking WITH Nobody <- NoTurn, serving <- Serving,
                               over <- Over
TakesTurns == TT!Spec

\* With the "enqueue" policy utterances are answered in the order they were
\* spoken: no later one overtakes a queued one.
SpokenOrder ==
  [][\A t \in begun' \ begun, u \in begun :
       kind'[t] = "audio" /\ kind[u] = "audio" => u < t]_vars

\* Every turn that begins is completed by an answer or an interrupt, or its
\* engine raises.
BegunTurnsEnd == \A t \in Turn : t \in begun ~> t \in completed \cup failed

\* A response task that is created ends, whatever the connections do.
ResponsesEnd == \A t \in Turn : stage[t] = "created" ~> stage[t] = "ended"

\* A handler that cancels a response gets control back.
InterruptReturns ==
  \A c \in Connection : handler[c].at = "cancelling" ~> handler[c].at # "cancelling"

\* An utterance accepted into the queue is answered at some point.
QueuedIsServed == \A t \in Turn : Queued(t) ~> t \in begun

\* Neither a response nor the handler that cancels it waits for ever.
NobodyHangs == ResponsesEnd /\ InterruptReturns
=============================================================================
