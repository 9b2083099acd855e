------------------------ MODULE SessionWorkerProofs ------------------------
(***************************************************************************)
(* Theorems about SessionWorker, for every set of connections, every bound *)
(* on the inputs and every choice of messages and faults; and the order of *)
(* utterances, for clients that speak to a session that queues; and the    *)
(* session of one websocket, which answers one turn at a time.  Theorems   *)
(* about ConfiguredSession, for any engines, lists, settings and number of *)
(* updates: it implements SessionWorker, whatever is configured in         *)
(* between; what was sent last about a setting holds; an answer follows    *)
(* one configuration; and the model is told of no tool it is denied.       *)
(***************************************************************************)
EXTENDS ConfiguredSession, SequenceTheorems, TLAPS

-----------------------------------------------------------------------------
(* The status machine.                                                     *)

\* The statuses a session rests in: nothing leaves it "interrupted", and no
\* code path moves it to "failed".
Steady == Status \ {"interrupted", "failed"}

\* _transition_session never leaves the statuses it is given.
LEMMA MoveType ==
  ASSUME NEW s \in Steady, NEW target \in Steady
  PROVE  Move(s, target) \in Steady
  BY DEF Move

\* session.start leaves the session in a status it can rest in.
LEMMA StartedType ==
  ASSUME NEW s \in Steady
  PROVE  Started(s) \in Steady
<1>1. Move(s, "loading") \in Steady BY DEF Move, Steady, Status
<1>2. Move(Move(s, "loading"), "ready") \in Steady
  BY <1>1 DEF Move, Steady, Status
<1>3. QED BY <1>2 DEF Started, Move, Steady, Status

\* The end of _interrupt always takes the session on from "interrupted".
LEMMA RecoveredType ==
  ASSUME NEW s \in Steady
  PROVE  Recovered(s) \in Steady
<1>1. "listening" \in Allowed["interrupted"] BY DEF Allowed, Status
<1>2. Move("interrupted", "listening") = "listening"
  BY <1>1 DEF Move, CanTransition
<1>3. CASE CanTransition(s, "interrupted")
  BY <1>2, <1>3 DEF Recovered, Move, Steady, Status
<1>4. CASE ~CanTransition(s, "interrupted")
  BY <1>4 DEF Recovered, Move, Steady, Status
<1>5. QED BY <1>3, <1>4

-----------------------------------------------------------------------------
(* Type correctness.                                                       *)

\* A handler that will begin a turn carries the input to begin it with.
CarriesInput ==
  \A c \in Connection :
    \/ handler[c].at = "cancelling" /\ handler[c].op \in {"commit", "generate", "say"}
    \/ handler[c].at \in {"routing", "announcing", "saying"}
    => handler[c].input \in Turn

TypeInv == TypeOK /\ CarriesInput

LEMMA TypeInit == Init => TypeInv
<1> SUFFICES ASSUME Init PROVE TypeInv OBVIOUS
<1> USE ConstantsAssumption
<1>1. TypeOK
  BY DEF Init, TypeOK, Status, MaybeTurn, NoTurn, Turn, Stage, HandlerState,
         Idle, Operation
<1>2. CarriesInput BY DEF Init, CarriesInput, Idle
<1>3. QED BY <1>1, <1>2 DEF TypeInv

\* A new input gets an identifier that is a turn's.
LEMMA NextInput ==
  ASSUME asked \in 0..MaxInputs, asked < MaxInputs
  PROVE  asked + 1 \in Turn /\ asked + 1 \in 0..MaxInputs
  BY ConstantsAssumption DEF Turn

\* What the shared parts of the actions do to the session's fields.
LEMMA StartUtteranceType ==
  ASSUME TypeOK, NEW t \in Turn, NEW s \in Steady,
         NEW done \in SUBSET Turn, NEW stages \in [Turn -> Stage],
         StartUtterance(t, s, done, stages)
  PROVE  /\ status' \in Steady
         /\ activeTurn' \in MaybeTurn /\ runtimeTurn' \in MaybeTurn
         /\ begun' \subseteq Turn /\ completed' \subseteq Turn
         /\ responseTask' \in MaybeTurn /\ activeGen' \in MaybeTurn
         /\ trace' \in MaybeTurn
         /\ stage' \in [Turn -> Stage]
<1>1. status' \in Steady
  BY MoveType, "transcribing" \in Steady DEF StartUtterance, Steady, Status
<1>2. QED
  BY <1>1 DEF TypeOK, StartUtterance, BeginTurn, MaybeTurn, Stage, LiveStage,
              WorkingStage

LEMMA TypeNext == TypeInv /\ [Next]_vars => TypeInv'
<1> SUFFICES ASSUME TypeInv, [Next]_vars PROVE TypeInv'
  OBVIOUS
<1> USE DEF TypeInv, TypeOK, CarriesInput, MaybeTurn
<1>s. status \in Steady
  BY DEF Steady
<1>m. \A x \in Steady : /\ Move(x, "listening") \in Steady
                       /\ Move(x, "thinking") \in Steady
                       /\ Move(x, "speaking") \in Steady
                       /\ Recovered(x) \in Steady
                       /\ Started(x) \in Steady
  BY MoveType, RecoveredType, StartedType DEF Steady, Status
<1>d. CompletedActive \subseteq Turn
  BY DEF CompletedActive
<1>e. \A x : InterruptedTurns(x) \subseteq Turn
  BY <1>d DEF InterruptedTurns
<1>h. Idle \in HandlerState
  BY DEF Idle, HandlerState, Operation, MaybeTurn
<1>t. HasActiveResponse => responseTask \in Turn
  BY DEF HasActiveResponse, Live
<1>1. ASSUME NEW c \in Connection, StartSession(c) PROVE TypeInv'
  BY <1>1, <1>s, <1>m DEF StartSession, Steady, runtimeVars, inputVars, taskVars
<1>2. ASSUME NEW c \in Connection, UpdateConfig(c) PROVE TypeInv'
  BY <1>2 DEF UpdateConfig, sessionVars, runtimeVars, inputVars, taskVars
<1>3. ASSUME NEW c \in Connection, AppendAudio(c) PROVE TypeInv'
  <2>1. handler' \in [Connection -> HandlerState]
    <3>1. [Idle EXCEPT !.at = "pushing", !.input = NoTurn] \in HandlerState
      BY DEF Idle, HandlerState, Operation, NoTurn
    <3>2. CASE Become(c, "pushing", NoTurn)
      BY <3>1, <3>2 DEF Become
    <3>3. CASE handler' = handler
      BY <3>3
    <3>4. QED BY <1>3, <3>2, <3>3 DEF AppendAudio
  <2>2. \A d \in Connection : handler'[d].op # "none" => handler'[d] = handler[d]
    BY <1>3 DEF AppendAudio, Become, Idle
  <2>3. \A d \in Connection : handler'[d] = handler[d] \/ handler'[d].at = "pushing"
    BY <1>3 DEF AppendAudio, Become, Idle
  <2>4. buffer' \in MaybeTurn /\ asked' \in 0..MaxInputs
    BY <1>3, NextInput DEF AppendAudio
  <2>5. UNCHANGED <<status, activeTurn, begun, completed, runtimeTurn,
                    responseTask, activeGen, trace, queue, policy, kind, stage,
                    cancelling, failed>>
    BY <1>3 DEF AppendAudio, sessionVars, runtimeVars, taskVars
  <2>6. QED BY <2>1, <2>2, <2>3, <2>4, <2>5
<1>4. ASSUME NEW c \in Connection, NEW op \in Operation \ {"none"},
             NEW input \in MaybeTurn,
             op \in {"commit", "generate", "say"} => input \in Turn,
             CancelResponse(c, op, input)
      PROVE  /\ handler' \in [Connection -> HandlerState]
             /\ CarriesInput'
             /\ cancelling' \subseteq Turn
  <2>1. handler' \in [Connection -> HandlerState]
    BY <1>4, <1>t DEF CancelResponse, HandlerState
  <2>2. CarriesInput'
    BY <1>4 DEF CancelResponse
  <2>3. QED BY <2>1, <2>2, <1>4, <1>t DEF CancelResponse
<1> USE DEF runtimeVars, sessionVars, inputVars, taskVars
<1>5. ASSUME NEW c \in Connection, Interrupt(c) PROVE TypeInv'
  <2>1. CASE CancelResponse(c, "interrupt", NoTurn)
    <3>1. /\ handler' \in [Connection -> HandlerState] /\ CarriesInput'
          /\ cancelling' \subseteq Turn
      BY <1>4, <2>1 DEF Operation
    <3>2. QED BY <1>5, <2>1, <3>1 DEF Interrupt, CancelResponse
  <2>2. CASE InterruptQuiet(c)
    BY <1>5, <2>2, <1>s, <1>m, <1>e DEF Interrupt, InterruptQuiet,
       ForgetResponse, EndInterrupted, Steady
  <2>3. QED BY <1>5, <2>1, <2>2 DEF Interrupt
<1>6. ASSUME NEW c \in Connection, InterruptDone(c) PROVE TypeInv'
  BY <1>6, <1>s, <1>m, <1>e, <1>h DEF InterruptDone, ForgetResponse,
     EndInterrupted, Steady, Idle
<1>7. ASSUME NEW c \in Connection, CloseDone(c) PROVE TypeInv'
  BY <1>7, <1>e, <1>h DEF CloseDone, ForgetResponse, EndInterrupted, Status, Idle
<1>8. ASSUME NEW c \in Connection, CommitDone(c) PROVE TypeInv'
  <2>1. handler[c].input \in Turn /\ Recovered(status) \in Steady
    BY <1>8, <1>s, <1>m DEF CommitDone, ResponseGone
  <2>2. QED
    BY <1>8, <2>1, <1>e, <1>h, StartUtteranceType DEF CommitDone, Idle, Steady
<1>9. ASSUME NEW c \in Connection, GenerateDone(c) PROVE TypeInv'
  <2>1. handler[c].input \in Turn
    BY <1>9 DEF GenerateDone, ResponseGone
  <2>2. QED
    BY <1>9, <2>1, <1>s, <1>m, <1>e, <1>h DEF GenerateDone, BeginReply,
       BeginTurn, Become, ForgetResponse, Steady, Idle, HandlerState, Stage
<1>10. ASSUME NEW c \in Connection, SayDone(c) PROVE TypeInv'
  <2>1. handler[c].input \in Turn
    BY <1>10 DEF SayDone, ResponseGone
  <2>2. Move(Recovered(status), "speaking") \in Steady
    BY <1>s, <1>m
  <2>3. QED
    BY <1>10, <2>1, <2>2, <1>e, <1>h DEF SayDone, BeginSay, BeginTurn, Become,
       ForgetResponse, Steady, Idle, HandlerState, Stage
<1>11. ASSUME NEW c \in Connection, SealAndCommit(c) PROVE TypeInv'
  <2>1. CASE buffer = NoTurn
    BY <1>11, <2>1, <1>h DEF SealAndCommit, Idle, CancelResponse
  <2>2. CASE buffer # NoTurn /\ policy = "enqueue" /\ HasActiveResponse
    <3>1. buffer \in Turn
      BY <2>2
    <3>2. queue' = Append(queue, buffer) /\ handler' = [handler EXCEPT ![c] = Idle]
      BY <1>11, <2>2 DEF SealAndCommit, Enqueued
    <3>3. UNCHANGED <<sessionVars, runtimeVars, taskVars, asked, policy>>
      BY <1>11, <2>2 DEF SealAndCommit
    <3>4. queue' \in Seq(Turn)
      BY <3>1, <3>2
    <3>5. handler' \in [Connection -> HandlerState] /\ CarriesInput'
      BY <3>2, <1>h DEF Idle
    <3>6. QED BY <1>11, <3>3, <3>4, <3>5 DEF SealAndCommit
  <2>3. CASE buffer # NoTurn /\ CancelResponse(c, "commit", buffer)
    BY <1>11, <2>3, <1>4 DEF SealAndCommit, CancelResponse, Operation
  <2>4. CASE buffer # NoTurn /\ ~HasActiveResponse
    <3>1. StartUtterance(buffer, status, completed, stage)
      BY <1>11, <2>4 DEF SealAndCommit, CancelResponse
    <3>2. buffer \in Turn /\ completed \in SUBSET Turn
      BY <2>4
    <3>3. /\ handler' = [handler EXCEPT ![c] = Idle] /\ buffer' = NoTurn
          /\ UNCHANGED <<queue, kind, cancelling, failed, asked, policy>>
      BY <1>11, <2>4 DEF SealAndCommit, CancelResponse
    <3>4. handler' \in [Connection -> HandlerState] /\ CarriesInput'
      BY <3>3, <1>h DEF Idle
    <3>5. QED
      BY <3>1, <3>2, <3>3, <3>4, <1>s, StartUtteranceType DEF Steady
  <2>5. QED BY <1>11, <2>1, <2>2, <2>3, <2>4 DEF SealAndCommit
<1>12. ASSUME NEW c \in Connection, AudioPushed(c) PROVE TypeInv'
  BY <1>12, <1>11, <1>h DEF AudioPushed, Idle
<1>13. ASSUME NEW c \in Connection, GenerateReply(c) PROVE TypeInv'
  <2>1. asked + 1 \in Turn /\ asked' \in 0..MaxInputs
    BY <1>13, NextInput DEF GenerateReply
  <2>2. CASE CancelResponse(c, "generate", asked + 1)
    <3>1. /\ handler' \in [Connection -> HandlerState] /\ CarriesInput'
          /\ cancelling' \subseteq Turn
      BY <1>4, <2>1, <2>2 DEF Operation
    <3>2. UNCHANGED <<sessionVars, runtimeVars, queue, kind, stage, failed, policy, buffer>>
      BY <1>13, <2>2 DEF GenerateReply, CancelResponse
    <3>3. QED BY <2>1, <3>1, <3>2
  <2>3. CASE BeginReply(c, asked + 1, completed) /\ ~HasActiveResponse
    BY <1>13, <2>1, <2>3, <1>h DEF GenerateReply, CancelResponse, BeginReply,
       BeginTurn, Become, Idle, HandlerState, Stage
  <2>4. QED BY <1>13, <2>2, <2>3 DEF GenerateReply
<1>14. ASSUME NEW c \in Connection, ReplyRouted(c) PROVE TypeInv'
  BY <1>14, <1>s, <1>m, <1>h DEF ReplyRouted, Become, Idle, HandlerState, Steady
<1>15. ASSUME NEW c \in Connection, ReplyAnnounced(c) PROVE TypeInv'
  BY <1>15, <1>h DEF ReplyAnnounced, Idle, Stage, LiveStage, WorkingStage
<1>16. ASSUME NEW c \in Connection, Say(c) PROVE TypeInv'
  <2>1. asked + 1 \in Turn /\ asked' \in 0..MaxInputs
    BY <1>16, NextInput DEF Say
  <2>2. CASE CancelResponse(c, "say", asked + 1)
    <3>1. /\ handler' \in [Connection -> HandlerState] /\ CarriesInput'
          /\ cancelling' \subseteq Turn
      BY <1>4, <2>1, <2>2 DEF Operation
    <3>2. UNCHANGED <<sessionVars, runtimeVars, queue, kind, stage, failed, policy, buffer>>
      BY <1>16, <2>2 DEF Say, CancelResponse
    <3>3. QED BY <2>1, <3>1, <3>2
  <2>3. CASE BeginSay(c, asked + 1, status, completed) /\ ~HasActiveResponse
    BY <1>16, <2>1, <2>3, <1>s, <1>m, <1>h DEF Say, CancelResponse, BeginSay,
       BeginTurn, Become, Idle, HandlerState, Stage, Steady
  <2>4. QED BY <1>16, <2>2, <2>3 DEF Say
<1>17. ASSUME NEW c \in Connection, SaySpoken(c) PROVE TypeInv'
  BY <1>17, <1>s, <1>m, <1>d, <1>h DEF SaySpoken, Idle, Steady, Stage
<1>18. ASSUME NEW c \in Connection, SayFailed(c) PROVE TypeInv'
  BY <1>18, <1>h DEF SayFailed, Idle, Stage
<1>19. ASSUME NEW c \in Connection, CloseSession(c) PROVE TypeInv'
  <2>1. CASE CancelResponse(c, "close", NoTurn) /\ UNCHANGED buffer
    <3>1. /\ handler' \in [Connection -> HandlerState] /\ CarriesInput'
          /\ cancelling' \subseteq Turn
      BY <1>4, <2>1 DEF Operation
    <3>2. QED BY <1>19, <2>1, <3>1 DEF CloseSession, CancelResponse
  <2>2. CASE ~HasActiveResponse
    BY <1>19, <2>2 DEF CloseSession, CancelResponse, Status
  <2>3. QED BY <1>19, <2>1, <2>2 DEF CloseSession
<1>20. CASE DeleteSession
  BY <1>20 DEF DeleteSession, Status
<1>21. ASSUME NEW t \in Turn,
              \/ TaskStarted(t) \/ Transcribed(t) \/ TranscribedEmpty(t)
              \/ Routed(t) \/ Responded(t) \/ Reported(t) \/ HandoffDone(t)
       PROVE  TypeInv'
  <2> USE DEF Stage, LiveStage, WorkingStage, Steady
  <2>1. CASE TaskStarted(t) BY <2>1 DEF TaskStarted
  <2>2. CASE Transcribed(t) BY <2>2 DEF Transcribed
  <2>3. CASE TranscribedEmpty(t)
    BY <2>3, <1>s, <1>m, <1>d DEF TranscribedEmpty, EndTurn
  <2>4. CASE Routed(t) BY <2>4, <1>s, <1>m DEF Routed
  <2>5. CASE Responded(t) BY <2>5, <1>s, <1>m, <1>d DEF Responded, EndTurn
  <2>6. CASE Reported(t) BY <2>6 DEF Reported
  <2>7. CASE HandoffDone(t) BY <2>7 DEF HandoffDone
  <2>8. QED BY <1>21, <2>1, <2>2, <2>3, <2>4, <2>5, <2>6, <2>7
<1>22. ASSUME NEW t \in Turn, Leave(t)
       PROVE  /\ status' \in Steady
              /\ activeTurn' \in MaybeTurn /\ runtimeTurn' \in MaybeTurn
              /\ begun' \subseteq Turn /\ completed' \subseteq Turn
              /\ responseTask' \in MaybeTurn /\ activeGen' \in MaybeTurn
              /\ trace' \in MaybeTurn /\ queue' \in Seq(Turn)
              /\ stage' \in [Turn -> Stage]
  <2>1. CASE LeaveReply(t)
    BY <2>1, <1>s DEF LeaveReply, ForgetResponse, Stage
  <2>2. CASE LeaveUtterance(t) /\ CanServeNext
    <3>1. Head(queue) \in Turn /\ Tail(queue) \in Seq(Turn)
      BY <2>2 DEF CanServeNext
    <3>2. [stage EXCEPT ![t] = "handoff"] \in [Turn -> Stage]
      BY DEF Stage, LiveStage
    <3>3. QED
      BY <2>2, <3>1, <3>2, <1>s, StartUtteranceType DEF LeaveUtterance, PopQueue
  <2>3. CASE LeaveUtterance(t) /\ ~CanServeNext
    BY <2>3, <1>s DEF LeaveUtterance, Stage
  <2>4. QED BY <1>22, <2>1, <2>2, <2>3 DEF Leave
<1>23. ASSUME NEW t \in Turn,
              TaskFinished(t) \/ TaskFailed(t) \/ TaskCancelled(t)
       PROVE  TypeInv'
  <2>1. CASE Leave(t)
    BY <2>1, <1>22, <1>23 DEF TaskFinished, TaskFailed, TaskCancelled, Steady
  <2>2. CASE ~Leave(t)
    BY <2>2, <1>23 DEF TaskFinished, TaskFailed, TaskCancelled, Stage
  <2>3. QED BY <2>1, <2>2
<1>24. CASE UNCHANGED vars
  BY <1>24 DEF vars
<1>25. QED
  BY <1>1, <1>2, <1>3, <1>5, <1>6, <1>7, <1>8, <1>9, <1>10, <1>11, <1>12,
     <1>13, <1>14, <1>15, <1>16, <1>17, <1>18, <1>19, <1>20, <1>21, <1>23,
     <1>24
  DEF Next, Receive, HandlerStep, TaskStep, CommitAudio

\* The worker's fields hold what their declarations say, in every behaviour.
THEOREM TypeCorrect == Spec => []TypeOK
<1>1. Spec => []TypeInv
  BY TypeInit, TypeNext, PTL DEF Spec
<1>2. TypeInv => TypeOK
  BY DEF TypeInv
<1>3. QED BY <1>1, <1>2, PTL

-----------------------------------------------------------------------------
(* What becomes of the inputs, for every number of sockets, both queue     *)
(* policies, any messages and any engine failures: until the session is    *)
(* closed each input is in exactly one place, and it gets one turn.        *)

\* A handler that cancels a response for no input of its own carries none.
OthersCarryNothing ==
  \A c \in Connection :
    handler[c].at = "cancelling" /\ handler[c].op \in {"interrupt", "close", "none"}
      => handler[c].input = NoTurn

\* Only what was received is anywhere.
OnlyReceived ==
  /\ begun \subseteq 1..asked
  /\ buffer \in 0..asked
  /\ \A t \in Turn : Queued(t) => t <= asked
  /\ \A c \in Connection : Carried(c) \in 0..asked

InputInv ==
  /\ TypeInv
  /\ OthersCarryNothing
  /\ OnlyReceived
  /\ NoInputIsLost
  /\ NoInputIsAnsweredTwice

-----------------------------------------------------------------------------
(* The ways of an input.  Passes(c, x): the handler of c carries x in the  *)
(* next state, and the others what they carried.                           *)

Passes(c, x) ==
  \A d \in Connection : Carried(d)' = IF d = c THEN x ELSE Carried(d)

Stays == \A d \in Connection : Carried(d)' = Carried(d)

Begins(t) == begun' = begun \cup {t}

\* A new input goes to the buffer, to a handler that must interrupt first, or
\* gets its turn at once.
InputReceived(t) ==
  /\ asked' = t /\ t = asked + 1 /\ queue' = queue
  /\ \/ buffer = NoTurn /\ buffer' = t /\ begun' = begun /\ Stays
     \/ /\ buffer' = buffer /\ begun' = begun
        /\ \E c \in Connection : Carried(c) = NoTurn /\ Passes(c, t)
     \/ buffer' = buffer /\ Begins(t) /\ Stays

\* The utterance in the buffer goes to a handler, to the queue, or gets its
\* turn.
BufferSealed(t) ==
  /\ asked' = asked /\ buffer = t /\ buffer' = NoTurn
  /\ \/ /\ begun' = begun /\ queue' = queue
        /\ \E c \in Connection : Carried(c) = NoTurn /\ Passes(c, t)
     \/ begun' = begun /\ queue' = Append(queue, t) /\ Stays
     \/ Begins(t) /\ queue' = queue /\ Stays

\* An input that a handler carried, or the first in the queue, gets its turn.
CarriedServed(t) ==
  /\ UNCHANGED <<asked, buffer, queue>> /\ Begins(t)
  /\ \E c \in Connection : Carried(c) = t /\ Passes(c, NoTurn)

QueueServed(t) ==
  /\ UNCHANGED <<asked, buffer>> /\ Begins(t) /\ Stays
  /\ queue # <<>> /\ t = Head(queue) /\ queue' = Tail(queue)

InputMoves ==
  /\ status = "closed" => status' = "closed"
  /\ \/ UNCHANGED <<begun, buffer, queue, asked>> /\ Stays
     \/ /\ status' = "closed" /\ buffer' = NoTurn
        /\ UNCHANGED <<begun, queue, asked>> /\ Stays
     \/ \E t \in Turn : \/ InputReceived(t) \/ BufferSealed(t)
                        \/ CarriedServed(t) \/ QueueServed(t)

-----------------------------------------------------------------------------
(* Proofs.                                                                 *)

LEMMA InputInit == Init => InputInv
<1> SUFFICES ASSUME Init PROVE InputInv
  OBVIOUS
<1>1. TypeInv
  BY TypeInit
<1>2. QED
  BY <1>1 DEF Init, InputInv, OthersCarryNothing, OnlyReceived, NoInputIsLost,
     NoInputIsAnsweredTwice, Carried, Idle, Queued, NoTurn

LEMMA QueueHoldsTurns ==
  ASSUME NEW q \in Seq(Turn), NEW i \in DOMAIN q
  PROVE  q[i] \in Turn
<1>1. q \in [1..Len(q) -> Turn]
  BY LenProperties
<1>2. QED BY <1>1

\* What is in the queue after an utterance joins it, and after one leaves.
LEMMA QueueAppend ==
  ASSUME queue \in Seq(Turn), NEW t \in Turn, queue' = Append(queue, t)
  PROVE  /\ \A u \in Turn : Queued(u)' <=> Queued(u) \/ u = t
         /\ ~Queued(t) /\ (\A i, j \in DOMAIN queue : queue[i] = queue[j] => i = j)
            => (\A i, j \in DOMAIN queue' : queue'[i] = queue'[j] => i = j)
<1>1. /\ DOMAIN queue = 1..Len(queue) /\ Len(queue) \in Nat
      /\ DOMAIN queue' = 1..(Len(queue) + 1)
      /\ \A i \in 1..Len(queue) : queue'[i] = queue[i]
      /\ queue'[Len(queue) + 1] = t
  BY AppendProperties
<1>2. QED BY <1>1 DEF Queued

LEMMA QueueTail ==
  ASSUME queue \in Seq(Turn), queue # <<>>, queue' = Tail(queue)
  PROVE  /\ Head(queue) \in Turn /\ Queued(Head(queue))
         /\ \A u \in Turn : Queued(u) <=> Queued(u)' \/ u = Head(queue)
         /\ (\A i, j \in DOMAIN queue : queue[i] = queue[j] => i = j) =>
              /\ \A i, j \in DOMAIN queue' : queue'[i] = queue'[j] => i = j
              /\ \A u \in Turn : u = Head(queue) => ~Queued(u)'
<1>1. /\ DOMAIN queue = 1..Len(queue) /\ Len(queue) \in Nat /\ Len(queue) > 0
      /\ Head(queue) = queue[1] /\ Head(queue) \in Turn
      /\ DOMAIN queue' = 1..(Len(queue) - 1)
      /\ \A i \in 1..(Len(queue) - 1) : queue'[i] = queue[i + 1]
  BY HeadTailProperties
<1>2. Queued(Head(queue))
  BY <1>1 DEF Queued
<1>3. ASSUME NEW u \in Turn PROVE Queued(u) <=> Queued(u)' \/ u = Head(queue)
  <2>1. ASSUME NEW i \in 1..Len(queue), queue[i] = u, i # 1 PROVE Queued(u)'
    <3>1. i - 1 \in 1..(Len(queue) - 1) /\ queue'[i - 1] = u
      BY <1>1, <2>1
    <3>2. QED BY <1>1, <3>1 DEF Queued
  <2>2. ASSUME NEW i \in 1..(Len(queue) - 1), queue'[i] = u PROVE Queued(u)
    <3>1. i + 1 \in 1..Len(queue) /\ queue[i + 1] = u
      BY <1>1, <2>2
    <3>2. QED BY <1>1, <3>1 DEF Queued
  <2>3. QED BY <1>1, <1>2, <2>1, <2>2 DEF Queued
<1>4. ASSUME \A i, j \in DOMAIN queue : queue[i] = queue[j] => i = j
      PROVE  /\ \A i, j \in DOMAIN queue' : queue'[i] = queue'[j] => i = j
             /\ \A u \in Turn : u = Head(queue) => ~Queued(u)'
  <2>1. \A i \in 1..(Len(queue) - 1) :
          i + 1 \in DOMAIN queue /\ queue'[i] = queue[i + 1] /\ i + 1 # 1
    BY <1>1
  <2>2. ASSUME NEW i \in DOMAIN queue', NEW j \in DOMAIN queue',
               queue'[i] = queue'[j]
        PROVE  i = j
    <3>1. i \in Nat /\ j \in Nat /\ queue[i + 1] = queue[j + 1]
      BY <1>1, <2>1, <2>2
    <3>2. i + 1 = j + 1
      BY <1>1, <1>4, <2>1, <2>2, <3>1
    <3>3. QED BY <3>1, <3>2
  <2>3. ASSUME NEW i \in DOMAIN queue', queue'[i] = Head(queue) PROVE FALSE
    <3>1. 1 \in DOMAIN queue /\ queue[1] = queue[i + 1]
      BY <1>1, <2>1, <2>3
    <3>2. 1 = i + 1
      BY <1>1, <1>4, <2>1, <3>1
    <3>3. QED BY <1>1, <2>1, <3>2
  <2>4. QED BY <2>2, <2>3 DEF Queued
<1>5. QED BY <1>1, <1>2, <1>3, <1>4

\* A closed session stays closed.
LEMMA ClosedStays ==
  /\ \A x \in Status : Move("closed", x) = "closed"
  /\ Recovered("closed") = "closed" /\ Started("closed") = "closed"
<1>1. Allowed["closed"] = {} /\ "closed" \in Status
  BY DEF Allowed, Status
<1>2. \A x \in Status : Move("closed", x) = "closed"
  BY <1>1 DEF Move, CanTransition
<1>3. QED BY <1>2 DEF Recovered, Started, Status

\* Every step of the worker moves the inputs in one of the ways above.
LEMMA StepMovesInputs ==
  ASSUME InputInv, [Next]_vars
  PROVE  InputMoves
<1>ty. TypeInv
  BY DEF InputInv
<1>ha. handler \in [Connection -> HandlerState]
  BY <1>ty DEF TypeInv, TypeOK
<1>bu. buffer \in MaybeTurn /\ asked \in Nat
  BY <1>ty, ConstantsAssumption DEF TypeInv, TypeOK
<1>st. /\ Move(status, "listening") = "closed" \/ status # "closed"
       /\ Move(status, "thinking") = "closed" \/ status # "closed"
       /\ Move(status, "speaking") = "closed" \/ status # "closed"
       /\ Move(status, "transcribing") = "closed" \/ status # "closed"
       /\ Recovered(status) = "closed" \/ status # "closed"
       /\ Started(status) = "closed" \/ status # "closed"
       /\ Move(Recovered(status), "speaking") = "closed" \/ status # "closed"
       /\ Move(Recovered(status), "transcribing") = "closed" \/ status # "closed"
  BY ClosedStays DEF Status
<1>pa. ASSUME NEW c \in Connection, NEW h \in HandlerState,
              handler' = [handler EXCEPT ![c] = h]
       PROVE  Passes(c, IF h.at = "cancelling" THEN h.input ELSE NoTurn)
  BY <1>pa, <1>ha DEF Passes, Carried
<1>sy. ASSUME handler' = handler PROVE Stays
  BY <1>sy DEF Stays, Carried
\* A handler cancels a response, or is done with it.
<1>cr. ASSUME NEW c \in Connection, NEW op \in Operation, NEW x \in MaybeTurn,
              CancelResponse(c, op, x), handler[c].at # "cancelling"
       PROVE  /\ Carried(c) = NoTurn /\ Passes(c, x)
              /\ UNCHANGED <<begun, queue, status>>
  <2> DEFINE h == [at |-> "cancelling", op |-> op, task |-> responseTask,
                   turn |-> activeTurn, input |-> x]
  <2>1. h \in HandlerState /\ h.at = "cancelling" /\ h.input = x
    BY <1>ty DEF HandlerState, TypeInv, TypeOK
  <2>2. handler' = [handler EXCEPT ![c] = h]
    BY <1>cr DEF CancelResponse
  <2> HIDE DEF h
  <2>3. Passes(c, x)
    BY <2>1, <2>2, <1>pa
  <2>4. QED
    BY <2>3, <1>cr DEF Carried, CancelResponse, sessionVars
<1>no. ASSUME NEW c \in Connection, Carried(c) = NoTurn, Passes(c, NoTurn)
       PROVE  Stays
  BY <1>no DEF Passes, Stays
\* A handler goes on to another wait without carrying anything.
<1>be. ASSUME NEW c \in Connection, NEW h \in HandlerState, h.at # "cancelling",
              handler' = [handler EXCEPT ![c] = h]
       PROVE  /\ Passes(c, NoTurn)
              /\ handler[c].at # "cancelling" => Stays
  <2>1. Passes(c, NoTurn)
    BY <1>be, <1>pa
  <2>2. handler[c].at # "cancelling" => Carried(c) = NoTurn
    BY DEF Carried
  <2>3. QED BY <2>1, <2>2, <1>no
<1>id. Idle \in HandlerState /\ Idle.at # "cancelling"
  BY DEF Idle, HandlerState, Operation, MaybeTurn
<1>bc. ASSUME NEW c \in Connection, NEW at \in {"pushing", "routing", "announcing", "saying"},
              NEW t \in MaybeTurn, Become(c, at, t)
       PROVE  /\ Passes(c, NoTurn)
              /\ handler[c].at # "cancelling" => Stays
  <2>1. [Idle EXCEPT !.at = at, !.input = t] \in HandlerState
        /\ [Idle EXCEPT !.at = at, !.input = t].at = at
    BY DEF Idle, HandlerState, Operation, MaybeTurn
  <2>2. QED BY <2>1, <1>bc, <1>be DEF Become
<1>1. ASSUME NEW c \in Connection, StartSession(c) \/ UpdateConfig(c)
      PROVE  InputMoves
  BY <1>1, <1>st, <1>sy DEF StartSession, UpdateConfig, InputMoves,
     sessionVars, inputVars
<1>2. ASSUME NEW c \in Connection, AppendAudio(c) PROVE InputMoves
  <2>1. Stays /\ UNCHANGED <<status, begun, queue>>
    <3>1. CASE Become(c, "pushing", NoTurn)
      BY <1>2, <3>1, <1>bc DEF AppendAudio, Receives, sessionVars, MaybeTurn
    <3>2. CASE handler' = handler
      BY <1>2, <3>2, <1>sy DEF AppendAudio, sessionVars
    <3>3. QED BY <1>2, <3>1, <3>2 DEF AppendAudio
  <2>2. CASE buffer # NoTurn
    BY <1>2, <2>1, <2>2 DEF AppendAudio, InputMoves
  <2>3. CASE buffer = NoTurn
    <3>1. asked + 1 \in Turn /\ asked' = asked + 1 /\ buffer' = asked + 1
      BY <1>2, <2>3, <1>ty, NextInput DEF AppendAudio, TypeInv, TypeOK
    <3>2. InputReceived(asked + 1)
      BY <2>1, <2>3, <3>1 DEF InputReceived
    <3>3. QED BY <2>1, <3>1, <3>2 DEF InputMoves
  <2>4. QED BY <2>2, <2>3
<1>3. ASSUME NEW c \in Connection, Interrupt(c) \/ CloseSession(c)
      PROVE  InputMoves
  <2>1. handler[c].at = "idle"
    BY <1>3 DEF Interrupt, CloseSession, Receives
  <2>2. CASE \E op \in Operation : CancelResponse(c, op, NoTurn)
    <3>1. Stays /\ UNCHANGED <<begun, queue, status>>
      BY <2>1, <2>2, <1>cr, <1>no DEF MaybeTurn
    <3>2. UNCHANGED <<buffer, asked>>
      BY <1>3, <2>2 DEF Interrupt, CloseSession, inputVars, CancelResponse
    <3>3. QED BY <3>1, <3>2 DEF InputMoves
  <2>3. CASE ~HasActiveResponse
    BY <1>3, <2>3, <1>sy, <1>st DEF Interrupt, CloseSession, InterruptQuiet,
       CancelResponse, InputMoves, inputVars, taskVars
  <2>4. QED
    BY <1>3, <2>2, <2>3 DEF Interrupt, CloseSession, CancelResponse,
       InterruptQuiet, Operation
<1>4. ASSUME NEW c \in Connection, InterruptDone(c) \/ CloseDone(c)
      PROVE  InputMoves
  <2>1. Passes(c, NoTurn)
    BY <1>4, <1>be, <1>id DEF InterruptDone, CloseDone
  <2>2. Carried(c) = NoTurn
    BY <1>4 DEF InterruptDone, CloseDone, ResponseGone, InputInv,
       OthersCarryNothing, Carried
  <2>3. Stays
    BY <2>1, <2>2, <1>no
  <2>4. QED
    BY <1>4, <2>3, <1>st DEF InterruptDone, CloseDone, InputMoves, inputVars
<1>5. ASSUME NEW c \in Connection,
             CommitDone(c) \/ GenerateDone(c) \/ SayDone(c)
      PROVE  InputMoves
  <2> DEFINE t == handler[c].input
  <2>1. t \in Turn /\ Carried(c) = t
    BY <1>5, <1>ty DEF CommitDone, GenerateDone, SayDone, ResponseGone,
       TypeInv, CarriesInput, Carried
  <2>2. Passes(c, NoTurn)
    BY <1>5, <2>1, <1>be, <1>id, <1>bc DEF CommitDone, GenerateDone, SayDone,
       BeginReply, BeginSay, MaybeTurn
  <2>3. /\ Begins(t) /\ UNCHANGED <<buffer, asked, queue>>
        /\ status = "closed" => status' = "closed"
    BY <1>5, <1>st DEF CommitDone, GenerateDone, SayDone, StartUtterance,
       BeginReply, BeginSay, BeginTurn, Begins, inputVars
  <2> HIDE DEF t
  <2>4. CarriedServed(t)
    BY <2>1, <2>2, <2>3 DEF CarriedServed
  <2>5. QED BY <2>1, <2>3, <2>4 DEF InputMoves
<1>6. ASSUME NEW c \in Connection, SealAndCommit(c), handler[c].at # "cancelling"
      PROVE  InputMoves
  <2>1. /\ asked' = asked /\ buffer' = NoTurn
        /\ status = "closed" => status' = "closed"
    BY <1>6, <1>st DEF SealAndCommit, StartUtterance, CancelResponse, sessionVars
  <2>2. CASE handler' = [handler EXCEPT ![c] = Idle] /\ UNCHANGED <<begun, queue>>
             /\ buffer = NoTurn
    BY <1>6, <2>1, <2>2, <1>be, <1>id DEF InputMoves
  <2>3. CASE buffer # NoTurn
    <3>1. buffer \in Turn
      BY <2>3, <1>bu DEF MaybeTurn
    <3>2. \/ /\ handler' = [handler EXCEPT ![c] = Idle]
             /\ queue' = Append(queue, buffer) /\ UNCHANGED begun
          \/ CancelResponse(c, "commit", buffer)
          \/ /\ handler' = [handler EXCEPT ![c] = Idle]
             /\ Begins(buffer) /\ queue' = queue
      BY <1>6, <2>3 DEF SealAndCommit, Enqueued, StartUtterance, BeginTurn,
         Begins, sessionVars
    <3>3. \/ Stays /\ queue' = Append(queue, buffer) /\ UNCHANGED begun
          \/ /\ Carried(c) = NoTurn /\ Passes(c, buffer)
             /\ UNCHANGED <<begun, queue>>
          \/ Stays /\ Begins(buffer) /\ queue' = queue
      BY <1>6, <3>2, <1>be, <1>id, <1>cr, <1>bu DEF Operation
    <3>4. BufferSealed(buffer)
      BY <2>1, <3>3 DEF BufferSealed
    <3>5. QED BY <2>1, <3>1, <3>4 DEF InputMoves
  <2>4. QED
    BY <1>6, <2>2, <2>3 DEF SealAndCommit, sessionVars, CancelResponse
<1>7. ASSUME NEW c \in Connection, CommitAudio(c) \/ AudioPushed(c)
      PROVE  InputMoves
  <2>1. CASE SealAndCommit(c)
    BY <1>7, <2>1, <1>6 DEF CommitAudio, AudioPushed, Receives
  <2>2. CASE ~SealAndCommit(c)
    BY <1>7, <2>2, <1>be, <1>id DEF CommitAudio, AudioPushed, InputMoves,
       sessionVars, inputVars
  <2>3. QED BY <2>1, <2>2
<1>8. ASSUME NEW c \in Connection, GenerateReply(c) \/ Say(c)
      PROVE  InputMoves
  <2> DEFINE t == asked + 1
  <2>1. /\ t \in Turn /\ asked' = t /\ buffer' = buffer
        /\ handler[c].at = "idle"
    BY <1>8, <1>ty, NextInput DEF GenerateReply, Say, Receives, TypeInv, TypeOK
  <2>2. CASE \E op \in Operation : CancelResponse(c, op, t)
    <3>1. Carried(c) = NoTurn /\ Passes(c, t) /\ UNCHANGED <<begun, queue, status>>
      BY <2>1, <2>2, <1>cr DEF MaybeTurn
    <3>2. InputReceived(t)
      BY <2>1, <3>1 DEF InputReceived
    <3> HIDE DEF t
    <3>3. QED BY <2>1, <3>1, <3>2 DEF InputMoves
  <2>3. CASE BeginReply(c, t, completed) \/ BeginSay(c, t, status, completed)
    <3>1. Begins(t) /\ Stays
      BY <2>1, <2>3, <1>bc DEF BeginReply, BeginSay, BeginTurn, Begins, MaybeTurn
    <3>2. queue' = queue /\ (status = "closed" => status' = "closed")
      BY <1>8, <2>3, <1>st DEF GenerateReply, Say, CancelResponse, BeginSay,
         sessionVars
    <3>3. InputReceived(t)
      BY <2>1, <3>1, <3>2 DEF InputReceived
    <3> HIDE DEF t
    <3>4. QED BY <2>1, <3>2, <3>3 DEF InputMoves
  <2>4. QED
    BY <1>8, <2>2, <2>3 DEF GenerateReply, Say, Operation
<1>9. ASSUME NEW c \in Connection,
             ReplyRouted(c) \/ ReplyAnnounced(c) \/ SaySpoken(c) \/ SayFailed(c)
      PROVE  InputMoves
  <2>1. handler[c].at # "cancelling" /\ handler[c].input \in MaybeTurn
    BY <1>9, <1>ha DEF ReplyRouted, ReplyAnnounced, SaySpoken, SayFailed,
       HandlerState
  <2>2. Stays
    BY <1>9, <2>1, <1>be, <1>id, <1>bc DEF ReplyRouted, ReplyAnnounced,
       SaySpoken, SayFailed
  <2>3. QED
    BY <1>9, <2>2, <1>st DEF ReplyRouted, ReplyAnnounced, SaySpoken, SayFailed,
       InputMoves, sessionVars, inputVars
<1>10. CASE DeleteSession
  BY <1>10, <1>sy DEF DeleteSession, InputMoves, inputVars
<1>11. ASSUME NEW t \in Turn, Leave(t), UNCHANGED <<inputVars, handler>>
       PROVE  InputMoves
  <2>1. Stays
    BY <1>11, <1>sy
  <2>2. CASE UNCHANGED <<sessionVars, queue>>
    BY <1>11, <2>1, <2>2 DEF InputMoves, sessionVars, inputVars
  <2>3. CASE queue # <<>> /\ queue' = Tail(queue)
             /\ StartUtterance(Head(queue), status, completed,
                               [stage EXCEPT ![t] = "handoff"])
    <3>1. Head(queue) \in Turn
      BY <2>3, <1>ty, HeadTailProperties DEF TypeInv, TypeOK
    <3>2. QueueServed(Head(queue))
      BY <1>11, <2>1, <2>3 DEF QueueServed, StartUtterance, BeginTurn, Begins,
         inputVars
    <3>3. QED
      BY <2>3, <3>1, <3>2, <1>st DEF InputMoves, StartUtterance
  <2>4. QED
    BY <1>11, <2>2, <2>3 DEF Leave, LeaveReply, LeaveUtterance, CanServeNext,
       PopQueue, sessionVars
<1>12. ASSUME NEW t \in Turn, TaskStep(t) PROVE InputMoves
  <2>1. CASE Leave(t)
    BY <1>12, <2>1, <1>11 DEF TaskStep, TaskStarted, Transcribed,
       TranscribedEmpty, Routed, Responded, Reported, TaskFinished, TaskFailed,
       TaskCancelled, HandoffDone, inputVars
  <2>2. CASE ~Leave(t)
    BY <1>12, <2>2, <1>sy, <1>st DEF TaskStep, TaskStarted, Transcribed,
       TranscribedEmpty, Routed, Responded, Reported, TaskFinished, TaskFailed,
       TaskCancelled, HandoffDone, EndTurn, InputMoves, sessionVars, inputVars
  <2>3. QED BY <2>1, <2>2
<1>13. CASE UNCHANGED vars
  BY <1>13, <1>sy DEF vars, InputMoves, sessionVars, inputVars
<1>20. QED
  BY <1>1, <1>2, <1>3, <1>4, <1>5, <1>7, <1>8, <1>9, <1>10, <1>12, <1>13
  DEF Next, Receive, HandlerStep

\* The invariant survives each way an input can move.
LEMMA MovesKeepInputs ==
  ASSUME InputInv, TypeInv', InputMoves
  PROVE  OnlyReceived' /\ NoInputIsLost' /\ NoInputIsAnsweredTwice'
<1>ty. /\ queue \in Seq(Turn) /\ asked \in Nat /\ buffer \in MaybeTurn
       /\ asked' \in Nat /\ begun \subseteq Turn
  BY ConstantsAssumption DEF InputInv, TypeInv, TypeOK
<1>nz. Turn \subseteq Nat /\ \A t \in Turn : t # NoTurn /\ t > 0
  BY DEF Turn, NoTurn
<1>ca. \A c \in Connection : Carried(c) \in MaybeTurn
  BY DEF InputInv, TypeInv, TypeOK, HandlerState, Carried, MaybeTurn
<1>in. OnlyReceived /\ NoInputIsLost /\ NoInputIsAnsweredTwice
  BY DEF InputInv
<1>cl. status' # "closed" => status # "closed"
  BY DEF InputMoves
<1> DEFINE Kept == OnlyReceived /\ NoInputIsLost /\ NoInputIsAnsweredTwice
<1>1. ASSUME begun' = begun, queue' = queue, asked' = asked, Stays,
             buffer' # buffer => buffer' = NoTurn /\ status' = "closed"
      PROVE  Kept'
  <2>1. \A u : Queued(u)' <=> Queued(u)
    BY <1>1 DEF Queued
  <2>2. \A c \in Connection : Carried(c)' = Carried(c)
    BY <1>1 DEF Stays
  <2>3. OnlyReceived'
    <3>1. /\ begun' \subseteq 1..asked' /\ buffer' \in 0..asked'
          /\ \A c \in Connection : Carried(c)' \in 0..asked'
      BY <1>1, <2>2, <1>ty, <1>in DEF OnlyReceived, NoTurn
    <3>2. \A t \in Turn : Queued(t)' => t <= asked'
      BY <1>1, <2>1, <1>in DEF OnlyReceived
    <3>3. QED BY <3>1, <3>2 DEF OnlyReceived
  <2>4. NoInputIsLost'
    BY <1>1, <2>1, <2>2, <1>in, <1>cl DEF NoInputIsLost
  <2>5. ~Queued(NoTurn)
    BY <1>ty, <1>nz, QueueHoldsTurns DEF Queued
  <2>6. NoInputIsAnsweredTwice'
    <3>1. \A t \in begun' : /\ t # buffer' /\ ~Queued(t)'
                            /\ \A c \in Connection : Carried(c)' # t
      BY <1>1, <2>1, <2>2, <1>ty, <1>nz, <1>in DEF NoInputIsAnsweredTwice
    <3>2. \A u : u = buffer' => ~Queued(u)'
      BY <1>1, <2>1, <2>5, <1>in DEF NoInputIsAnsweredTwice
    <3>3. \A c \in Connection : Carried(c)' # NoTurn =>
            /\ Carried(c)' # buffer' /\ \A u : u = Carried(c) => ~Queued(u)'
            /\ \A d \in Connection : Carried(d)' = Carried(c)' => d = c
      BY <1>1, <2>1, <2>2, <1>in DEF NoInputIsAnsweredTwice
    <3>q. QED
      BY <3>1, <3>2, <3>3, <1>1, <2>2, <1>in DEF NoInputIsAnsweredTwice, Queued
  <2>q. QED BY <2>3, <2>4, <2>6
\* One input moves, and every other stays where it is.
<1>mo. ASSUME NEW t \in Turn,
              \A u \in Turn \ {t} : /\ u \in begun' <=> u \in begun
                                    /\ u = buffer' <=> u = buffer
                                    /\ Queued(u)' <=> Queued(u),
              \A u \in Turn \ {t}, c \in Connection :
                 Carried(c)' = u <=> Carried(c) = u,
              \/ /\ t \in begun' /\ t # buffer' /\ ~Queued(t)'
                 /\ \A c \in Connection : Carried(c)' # t
              \/ /\ t \notin begun' /\ t = buffer' /\ ~Queued(t)'
                 /\ \A c \in Connection : Carried(c)' # t
              \/ /\ t \notin begun' /\ t # buffer' /\ Queued(t)'
                 /\ \A c \in Connection : Carried(c)' # t
              \/ /\ t \notin begun' /\ t # buffer' /\ ~Queued(t)'
                 /\ \E c \in Connection : /\ Carried(c)' = t
                                          /\ \A d \in Connection : Carried(d)' = t => d = c,
              \A i, j \in DOMAIN queue' : queue'[i] = queue'[j] => i = j,
              \A u \in Turn : u <= asked' <=> u <= asked \/ u = t
       PROVE  Kept'
  <2>ty. /\ begun' \subseteq Turn /\ buffer' \in MaybeTurn
         /\ queue' \in Seq(Turn) /\ asked' \in 0..MaxInputs
         /\ \A c \in Connection : Carried(c)' \in MaybeTurn
    BY DEF TypeInv, TypeOK, HandlerState, Carried, MaybeTurn
  <2>1. OnlyReceived'
    <3>1. \A u \in Turn : /\ u \in begun' => u <= asked'
                          /\ u = buffer' => u <= asked'
                          /\ Queued(u)' => u <= asked'
      BY <1>mo, <1>in, <1>nz, <1>ty DEF OnlyReceived
    <3>2. \A u \in Turn, c \in Connection : Carried(c)' = u => u <= asked'
      BY <1>mo, <1>in, <1>nz, <1>ty DEF OnlyReceived
    <3>3. QED
      BY <3>1, <3>2, <2>ty, <1>ty DEF OnlyReceived, MaybeTurn, Turn, NoTurn
  <2>2. NoInputIsLost'
    <3>1. \A u \in 1..asked' : u \in Turn /\ (u = t \/ u \in 1..asked)
      <4>1. ASSUME NEW u \in 1..asked' PROVE u \in Turn /\ u <= asked' /\ u \in Nat
        BY <2>ty, ConstantsAssumption DEF Turn
      <4>2. QED BY <4>1, <1>mo, <1>ty, <1>nz
    <3>2. QED
      BY <1>mo, <3>1, <1>in, <1>cl DEF NoInputIsLost
  <2>3. NoInputIsAnsweredTwice'
    <3>1. \A u \in Turn : u \in begun' => /\ u # buffer' /\ ~Queued(u)'
                                          /\ \A c \in Connection : Carried(c)' # u
      BY <1>mo, <1>in DEF NoInputIsAnsweredTwice
    <3>2. \A u \in Turn : u = buffer' => ~Queued(u)'
      BY <1>mo, <1>in DEF NoInputIsAnsweredTwice
    <3>3. \A u : u \notin Turn => ~Queued(u)'
      BY <2>ty, QueueHoldsTurns DEF Queued
    <3>4. \A u \in Turn, c \in Connection : Carried(c)' = u =>
            /\ u # buffer' /\ ~Queued(u)'
            /\ \A d \in Connection : Carried(d)' = u => d = c
      BY <1>mo, <1>in, <1>nz DEF NoInputIsAnsweredTwice
    <3>5. ~Queued(buffer)'
      BY <3>2, <3>3
    <3>6. \A c \in Connection : Carried(c)' # NoTurn => Carried(c)' \in Turn
      BY <2>ty DEF MaybeTurn
    <3>7. \A c \in Connection : Carried(c)' # NoTurn =>
            /\ Carried(c)' # buffer' /\ ~Queued(Carried(c))'
            /\ \A d \in Connection : Carried(d)' = Carried(c)' => d = c
      BY <3>4, <3>6
    <3>8. QED
      BY <3>1, <3>5, <3>7, <1>mo, <2>ty DEF NoInputIsAnsweredTwice
  <2>4. QED BY <2>1, <2>2, <2>3
<1>fr. /\ \A i, j \in DOMAIN queue : queue[i] = queue[j] => i = j
       /\ \A t \in Turn : t > asked =>
            /\ t \notin begun /\ t # buffer /\ ~Queued(t)
            /\ \A c \in Connection : Carried(c) # t
  BY <1>in, <1>ty, <1>nz DEF NoInputIsAnsweredTwice, OnlyReceived
<1>2. ASSUME NEW t \in Turn, InputReceived(t) PROVE Kept'
  <2>1. \A u : Queued(u)' <=> Queued(u)
    BY <1>2 DEF Queued, InputReceived
  <2>2. /\ t > asked /\ \A u \in Turn : u <= asked' <=> u <= asked \/ u = t
        /\ \A i, j \in DOMAIN queue' : queue'[i] = queue'[j] => i = j
    BY <1>2, <1>ty, <1>nz, <1>fr DEF InputReceived
  <2>3. CASE buffer = NoTurn /\ buffer' = t /\ begun' = begun /\ Stays
    BY <2>1, <2>2, <2>3, <1>fr, <1>mo, <1>nz DEF Stays
  <2>4. CASE /\ buffer' = buffer /\ begun' = begun
             /\ \E c \in Connection : Carried(c) = NoTurn /\ Passes(c, t)
    BY <2>1, <2>2, <2>4, <1>fr, <1>mo, <1>nz DEF Passes
  <2>5. CASE buffer' = buffer /\ Begins(t) /\ Stays
    BY <2>1, <2>2, <2>5, <1>fr, <1>mo, <1>nz DEF Stays, Begins
  <2>6. QED
    BY <1>2, <2>3, <2>4, <2>5 DEF InputReceived
<1>3. ASSUME NEW t \in Turn, BufferSealed(t) PROVE Kept'
  <2>1. /\ t = buffer /\ t \notin begun /\ ~Queued(t) /\ t <= asked
        /\ \A c \in Connection : Carried(c) # t
    BY <1>3, <1>in, <1>nz, <1>ty DEF BufferSealed, NoInputIsAnsweredTwice,
       OnlyReceived
  <2>2. /\ asked' = asked /\ buffer' = NoTurn
        /\ \A u \in Turn : u <= asked' <=> u <= asked \/ u = t
    BY <1>3, <2>1 DEF BufferSealed
  <2>3. CASE /\ begun' = begun /\ queue' = queue
             /\ \E c \in Connection : Carried(c) = NoTurn /\ Passes(c, t)
    <3>1. \A u : Queued(u)' <=> Queued(u)
      BY <2>3 DEF Queued
    <3>2. QED BY <2>1, <2>2, <2>3, <3>1, <1>fr, <1>mo, <1>nz DEF Passes
  <2>4. CASE begun' = begun /\ queue' = Append(queue, t) /\ Stays
    <3>1. /\ \A u \in Turn : Queued(u)' <=> Queued(u) \/ u = t
          /\ \A i, j \in DOMAIN queue' : queue'[i] = queue'[j] => i = j
      BY <2>1, <2>4, <1>fr, <1>ty, QueueAppend
    <3>2. QED BY <2>1, <2>2, <2>4, <3>1, <1>mo, <1>nz DEF Stays
  <2>5. CASE Begins(t) /\ queue' = queue /\ Stays
    <3>1. \A u : Queued(u)' <=> Queued(u)
      BY <2>5 DEF Queued
    <3>2. QED BY <2>1, <2>2, <2>5, <3>1, <1>fr, <1>mo, <1>nz DEF Stays, Begins
  <2>6. QED
    BY <1>3, <2>3, <2>4, <2>5 DEF BufferSealed
<1>4. ASSUME NEW t \in Turn, CarriedServed(t) PROVE Kept'
  <2>1. PICK c \in Connection : Carried(c) = t /\ Passes(c, NoTurn)
    BY <1>4 DEF CarriedServed
  <2>2. \A u : Queued(u)' <=> Queued(u)
    BY <1>4 DEF Queued, CarriedServed
  <2>3. /\ t \notin begun /\ t # buffer /\ ~Queued(t) /\ t <= asked
        /\ \A d \in Connection : Carried(d) = t => d = c
    BY <2>1, <1>in, <1>nz, <1>ty DEF NoInputIsAnsweredTwice, OnlyReceived
  <2>4. QED
    BY <1>4, <2>1, <2>2, <2>3, <1>fr, <1>mo, <1>nz DEF CarriedServed, Begins, Passes
<1>5. ASSUME NEW t \in Turn, QueueServed(t) PROVE Kept'
  <2>1. /\ Queued(t) /\ \A u \in Turn \ {t} : Queued(u)' <=> Queued(u)
        /\ ~Queued(t)' /\ \A i, j \in DOMAIN queue' : queue'[i] = queue'[j] => i = j
    BY <1>5, <1>fr, <1>ty, QueueTail DEF QueueServed
  <2>2. /\ t \notin begun /\ t # buffer /\ t <= asked
        /\ \A c \in Connection : Carried(c) # t
    BY <2>1, <1>in, <1>nz DEF NoInputIsAnsweredTwice, OnlyReceived
  <2>3. QED
    BY <1>5, <2>1, <2>2, <1>mo, <1>nz DEF QueueServed, Begins, Stays
<1>6. Kept'
  <2> HIDE DEF Kept
  <2>1. CASE UNCHANGED <<begun, buffer, queue, asked>> /\ Stays
    BY <2>1, <1>1
  <2>2. CASE /\ status' = "closed" /\ buffer' = NoTurn
             /\ UNCHANGED <<begun, queue, asked>> /\ Stays
    BY <2>2, <1>1
  <2>3. CASE \E t \in Turn : \/ InputReceived(t) \/ BufferSealed(t)
                             \/ CarriedServed(t) \/ QueueServed(t)
    BY <2>3, <1>2, <1>3, <1>4, <1>5
  <2>4. QED
    BY <2>1, <2>2, <2>3 DEF InputMoves
<1>7. QED
  BY <1>6

\* Only a commit, a request for a reply and an announcement carry an input.
LEMMA OthersCarryNothingNext ==
  ASSUME InputInv, [Next]_vars
  PROVE  OthersCarryNothing'
<1>ha. handler \in [Connection -> HandlerState] /\ OthersCarryNothing
  BY DEF InputInv, TypeInv, TypeOK
<1>1. ASSUME handler' = handler PROVE OthersCarryNothing'
  BY <1>1, <1>ha DEF OthersCarryNothing
<1>2. ASSUME NEW c \in Connection, NEW h, h.at # "cancelling",
             handler' = [handler EXCEPT ![c] = h]
      PROVE  OthersCarryNothing'
  BY <1>2, <1>ha DEF OthersCarryNothing
<1>3. ASSUME NEW c \in Connection, NEW op, NEW x, CancelResponse(c, op, x),
             op \in {"interrupt", "close", "none"} => x = NoTurn
      PROVE  OthersCarryNothing'
  <2> DEFINE h == [at |-> "cancelling", op |-> op, task |-> responseTask,
                   turn |-> activeTurn, input |-> x]
  <2>1. handler' = [handler EXCEPT ![c] = h] /\ h.op = op /\ h.input = x
    BY <1>3 DEF CancelResponse
  <2> HIDE DEF h
  <2>2. QED BY <2>1, <1>3, <1>ha DEF OthersCarryNothing
<1>id. Idle.at # "cancelling"
  BY DEF Idle
<1>bc. ASSUME NEW c \in Connection, NEW at \in {"pushing", "routing", "announcing", "saying"},
              NEW t, Become(c, at, t)
       PROVE  OthersCarryNothing'
  <2>1. [Idle EXCEPT !.at = at, !.input = t].at = at
    BY DEF Idle
  <2>2. QED BY <2>1, <1>bc, <1>2 DEF Become
<1>4. ASSUME NEW c \in Connection, StartSession(c) \/ UpdateConfig(c)
      PROVE  OthersCarryNothing'
  BY <1>4, <1>1 DEF StartSession, UpdateConfig
<1>5. ASSUME NEW c \in Connection, AppendAudio(c) PROVE OthersCarryNothing'
  BY <1>5, <1>1, <1>bc DEF AppendAudio
<1>6. ASSUME NEW c \in Connection, SealAndCommit(c) PROVE OthersCarryNothing'
  BY <1>6, <1>2, <1>3, <1>id DEF SealAndCommit
<1>7. ASSUME NEW c \in Connection, CommitAudio(c) \/ AudioPushed(c)
      PROVE  OthersCarryNothing'
  BY <1>7, <1>6, <1>2, <1>id DEF CommitAudio, AudioPushed
<1>8. ASSUME NEW c \in Connection, GenerateReply(c) \/ Say(c)
      PROVE  OthersCarryNothing'
  BY <1>8, <1>3, <1>bc DEF GenerateReply, Say, BeginReply, BeginSay
<1>9. ASSUME NEW c \in Connection, Interrupt(c) \/ CloseSession(c)
      PROVE  OthersCarryNothing'
  BY <1>9, <1>3, <1>1 DEF Interrupt, CloseSession, InterruptQuiet
<1>10. ASSUME NEW c \in Connection, HandlerStep(c) PROVE OthersCarryNothing'
  BY <1>10, <1>7, <1>2, <1>bc, <1>id DEF HandlerStep, ReplyRouted,
     ReplyAnnounced, SaySpoken, SayFailed, InterruptDone, CloseDone, CommitDone,
     GenerateDone, SayDone, BeginReply, BeginSay
<1>11. ASSUME NEW t \in Turn, TaskStep(t) PROVE handler' = handler
  BY <1>11 DEF TaskStep, TaskStarted, Transcribed, TranscribedEmpty, Routed,
     Responded, Reported, TaskFinished, TaskFailed, TaskCancelled, HandoffDone
<1>12. CASE DeleteSession \/ UNCHANGED vars
  BY <1>12, <1>1 DEF DeleteSession, vars
<1>13. QED
  BY <1>1, <1>4, <1>5, <1>7, <1>8, <1>9, <1>10, <1>11, <1>12
  DEF Next, Receive

LEMMA InputCorrect == Spec => []InputInv
<1>1. Init => InputInv
  BY InputInit
<1>2. InputInv /\ [Next]_vars => InputInv'
  <2> SUFFICES ASSUME InputInv, [Next]_vars PROVE InputInv'
    OBVIOUS
  <2>1. TypeInv'
    BY TypeNext DEF InputInv
  <2>2. OnlyReceived' /\ NoInputIsLost' /\ NoInputIsAnsweredTwice'
    BY <2>1, StepMovesInputs, MovesKeepInputs
  <2>3. QED
    BY <2>1, <2>2, OthersCarryNothingNext DEF InputInv
<1>3. QED
  BY <1>1, <1>2, PTL DEF Spec

\* Whatever the sockets, policies, messages and engine failures: until the
\* session is closed, each utterance and request is in the buffer, in the
\* queue, in the hands of a handler that interrupts for it, or has its turn.
THEOREM InputsAreKept == Spec => []NoInputIsLost
<1>1. InputInv => NoInputIsLost
  BY DEF InputInv
<1>2. QED
  BY <1>1, InputCorrect, PTL

\* Whatever the sockets, policies, messages and engine failures: an input is in
\* one of these places only, so the handlers and the finishing task, which all
\* take inputs from there, never begin two turns for one.
THEOREM InputsAreServedOnce == Spec => []NoInputIsAnsweredTwice
<1>1. InputInv => NoInputIsAnsweredTwice
  BY DEF InputInv
<1>2. QED
  BY <1>1, InputCorrect, PTL

-----------------------------------------------------------------------------
(* The order of spoken utterances, for clients that start, speak and send  *)
(* settings, while the queue's policy is "enqueue" and no engine raises.   *)

OnlySpeech ==
  /\ Messages \subseteq {"start", "append", "commit", "config"}
  /\ Opening \subseteq {"start"}
  /\ Faults = {}

\* The task holds the session, and has not handed it on.
Tracked(t) == stage[t] \in WorkingStage \cup {"tail"}

\* No handler answers, nothing is cancelled, and every task tracks an utterance.
SpeechOnly ==
  /\ cancelling = {}
  /\ \A c \in Connection : handler[c].at \in {"idle", "pushing"}
  /\ \A t \in Turn : /\ kind[t] = "audio"
                     /\ stage[t] \notin {"inline", "reporting"}
                     /\ stage[t] # "none" => t \in begun
                     /\ Tracked(t) => responseTask = t
                     /\ stage[t] = "handoff" => responseTask # t

\* While an utterance waits a task is there to serve it, and when that comes to
\* its end the session listens.
QueueIsBacked ==
  /\ queue # <<>> => responseTask \in Turn /\ Tracked(responseTask)
  /\ status \in {"created", "listening", "transcribing", "thinking"}
  /\ status = "created" => asked = 0
  /\ \A t \in Turn : stage[t] = "tail" => status = "listening"

\* What waits came after what was begun, in its order, and the buffer last.
InOrder ==
  /\ \A u \in begun : /\ \A i \in DOMAIN queue : u < queue[i]
                      /\ buffer # NoTurn => u < buffer
  /\ \A i, j \in DOMAIN queue : i < j => queue[i] < queue[j]
  /\ buffer # NoTurn => \A i \in DOMAIN queue : queue[i] < buffer

OrderInv == SpeechOnly /\ QueueIsBacked /\ InOrder

LEMMA OrderBegins == Init => OrderInv
BY DEF Init, OrderInv, SpeechOnly, QueueIsBacked, InOrder, Tracked, Idle, NoTurn,
       WorkingStage

LEMMA SpokenStatus ==
  /\ Started("created") = "listening"
  /\ \A s \in {"listening", "transcribing", "thinking"} :
       /\ Started(s) \in {"listening", "transcribing", "thinking"}
       /\ Move(s, "transcribing") \in {"listening", "transcribing", "thinking"}
       /\ Move(s, "thinking") \in {"listening", "transcribing", "thinking"}
       /\ Move(s, "listening") = "listening"
  /\ Started("listening") = "listening"
  /\ Started("created") # "created"
<1> USE DEF Status
<1>1. /\ Allowed["created"] = {"loading", "closed", "failed"}
      /\ Allowed["loading"] = {"ready", "failed", "closed"}
      /\ Allowed["ready"] = {"listening", "transcribing", "thinking", "closed", "failed"}
      /\ Allowed["listening"] = {"transcribing", "thinking", "interrupted", "closed", "failed"}
      /\ Allowed["transcribing"] = {"listening", "thinking", "interrupted", "closed", "failed"}
      /\ Allowed["thinking"] = {"listening", "speaking", "interrupted", "closed", "failed"}
  BY DEF Allowed
<1> QED BY <1>1 DEF Started, Move, CanTransition

\* What a queue holds when its first is taken, or one is added.
LEMMA QueueMoves ==
  ASSUME NEW q \in Seq(Turn)
  PROVE  /\ q # <<>> =>
              /\ Head(q) = q[1] /\ 1 \in DOMAIN q /\ Head(q) \in Turn
              /\ Tail(q) \in Seq(Turn)
              /\ \A i \in DOMAIN Tail(q) : /\ i + 1 \in DOMAIN q
                                           /\ Tail(q)[i] = q[i + 1] /\ 1 < i + 1
         /\ \A t \in Turn :
              /\ Append(q, t) # <<>>
              /\ \A i \in DOMAIN Append(q, t) :
                   \/ i \in DOMAIN q /\ Append(q, t)[i] = q[i] /\ i < Len(q) + 1
                   \/ i = Len(q) + 1 /\ Append(q, t)[i] = t
         /\ \A i \in DOMAIN q : i \in Nat /\ i < Len(q) + 1 /\ q[i] \in Turn
<1>1. \A i \in DOMAIN q : i \in Nat /\ 1 <= i /\ i <= Len(q) /\ q[i] \in Turn
  BY QueueHoldsTurns
<1>2. Len(q) \in Nat OBVIOUS
<1>3. ASSUME q # <<>>
      PROVE  /\ Head(q) = q[1] /\ 1 \in DOMAIN q /\ Head(q) \in Turn
             /\ Tail(q) \in Seq(Turn)
             /\ \A i \in DOMAIN Tail(q) : /\ i + 1 \in DOMAIN q
                                           /\ Tail(q)[i] = q[i + 1] /\ 1 < i + 1
  BY <1>3, <1>1
<1>4. ASSUME NEW t \in Turn
      PROVE  /\ Append(q, t) # <<>>
             /\ \A i \in DOMAIN Append(q, t) :
                   \/ i \in DOMAIN q /\ Append(q, t)[i] = q[i] /\ i < Len(q) + 1
                   \/ i = Len(q) + 1 /\ Append(q, t)[i] = t
  BY <1>2
<1>5. \A i \in DOMAIN q : i \in Nat /\ i < Len(q) + 1 /\ q[i] \in Turn
  BY <1>1, <1>2
<1> QED BY <1>3, <1>4, <1>5

\* A handler seals the buffer: its utterance begins when nobody is answered,
\* and waits behind the others else.
LEMMA SealKeepsOrder ==
  ASSUME InputInv, OrderInv, NEW c \in Connection, SealAndCommit(c),
         policy = "enqueue"
  PROVE  /\ OrderInv'
         /\ \A t \in begun' \ begun, u \in begun : u < t
<1>1. /\ queue \in Seq(Turn) /\ begun \subseteq Turn /\ handler \in [Connection -> HandlerState]
      /\ buffer \in MaybeTurn /\ stage \in [Turn -> Stage] /\ asked \in Nat
      /\ responseTask \in MaybeTurn /\ buffer <= asked /\ begun \subseteq 1..asked
      /\ buffer \notin begun
  BY ConstantsAssumption DEF InputInv, TypeInv, TypeOK, OnlyReceived,
     NoInputIsAnsweredTwice
<1>2. SpeechOnly /\ QueueIsBacked /\ InOrder BY DEF OrderInv
<1>3. \A d \in Connection : handler'[d] = Idle \/ handler'[d] = handler[d]
  <2>1. handler' = [handler EXCEPT ![c] = Idle]
    BY DEF SealAndCommit, CancelResponse
  <2> QED BY <2>1, <1>1
<1>4. \A d \in Connection : handler'[d].at \in {"idle", "pushing"}
  BY <1>2, <1>3 DEF SpeechOnly, Idle
<1>5. HasActiveResponse <=> responseTask \in Turn /\ Tracked(responseTask)
  BY <1>1, <1>2 DEF HasActiveResponse, Live, LiveStage, SpeechOnly, Tracked
<1>6. CASE buffer = NoTurn
  <2>1. UNCHANGED <<sessionVars, runtimeVars, queue, taskVars, asked, policy>>
        /\ buffer' = NoTurn
    BY <1>6 DEF SealAndCommit
  <2> QED BY <2>1, <1>2, <1>4 DEF OrderInv, SpeechOnly, QueueIsBacked, InOrder,
             Tracked, sessionVars, runtimeVars, taskVars
<1>7. CASE buffer # NoTurn /\ HasActiveResponse
  <2>1. /\ UNCHANGED <<sessionVars, runtimeVars, taskVars, asked, policy>>
        /\ buffer' = NoTurn /\ queue' = Append(queue, buffer)
    BY <1>7 DEF SealAndCommit, Enqueued
  <2>2. buffer \in Turn BY <1>1, <1>7 DEF MaybeTurn
  <2>3. SpeechOnly' BY <2>1, <1>2, <1>4 DEF SpeechOnly, Tracked, sessionVars,
                       runtimeVars, taskVars
  <2>4. QueueIsBacked'
    BY <2>1, <1>2, <1>5, <1>7 DEF QueueIsBacked, Tracked, sessionVars, runtimeVars,
       taskVars
  <2>5. \A i \in DOMAIN queue' :
          \/ i \in DOMAIN queue /\ queue'[i] = queue[i] /\ i < Len(queue) + 1
          \/ i = Len(queue) + 1 /\ queue'[i] = buffer
    BY <1>1, <2>1, <2>2, QueueMoves
  <2>6. \A i \in DOMAIN queue : i \in Nat /\ i < Len(queue) + 1
    BY <1>1, QueueMoves
  <2>7. begun' = begun BY <2>1 DEF sessionVars
  <2>8. \A u \in begun : \A i \in DOMAIN queue' : u < queue'[i]
    BY <1>2, <1>7, <2>5 DEF InOrder
  <2>9. \A i, j \in DOMAIN queue' : i < j => queue'[i] < queue'[j]
    <3> TAKE i, j \in DOMAIN queue'
    <3> HAVE i < j
    <3>1. CASE j = Len(queue) + 1 /\ queue'[j] = buffer
      <4>1. i \in DOMAIN queue /\ queue'[i] = queue[i]
        <5>1. i # Len(queue) + 1
          BY <3>1, <1>1
        <5> QED BY <5>1, <2>5
      <4> QED BY <3>1, <4>1, <1>2, <1>7 DEF InOrder
    <3>2. CASE j \in DOMAIN queue /\ queue'[j] = queue[j]
      <4>1. i # Len(queue) + 1
        <5>1. j < Len(queue) + 1 /\ j \in Nat /\ Len(queue) \in Nat
          BY <3>2, <2>6, <1>1
        <5> QED BY <5>1
      <4>2. i \in DOMAIN queue /\ queue'[i] = queue[i] BY <4>1, <2>5
      <4> QED BY <3>2, <4>2, <1>2 DEF InOrder
    <3> QED BY <3>1, <3>2, <2>5
  <2>10. InOrder' BY <2>1, <2>7, <2>8, <2>9 DEF InOrder
  <2> QED BY <2>3, <2>4, <2>7, <2>10 DEF OrderInv
<1>8. CASE buffer # NoTurn /\ ~HasActiveResponse
  <2>1. /\ UNCHANGED <<asked, policy, queue, kind, cancelling, failed>>
        /\ buffer' = NoTurn /\ StartUtterance(buffer, status, completed, stage)
    BY <1>8 DEF SealAndCommit, CancelResponse
  <2>2. buffer \in Turn BY <1>1, <1>8 DEF MaybeTurn
  <2>3. queue = <<>> BY <1>2, <1>5, <1>8 DEF QueueIsBacked
  <2>4. /\ begun' = begun \cup {buffer} /\ responseTask' = buffer
        /\ stage' = [stage EXCEPT ![buffer] = "created"]
        /\ status' = Move(status, "transcribing")
    BY <2>1 DEF StartUtterance, BeginTurn
  <2>5. stage'[buffer] = "created" /\ \A t \in Turn \ {buffer} : stage'[t] = stage[t]
    BY <1>1, <2>2, <2>4
  <2>6. \A t \in Turn : ~Tracked(t)
    <3>1. ASSUME NEW t \in Turn, Tracked(t) PROVE FALSE
      <4>1. responseTask = t BY <1>2, <3>1 DEF SpeechOnly
      <4> QED BY <4>1, <3>1, <1>5, <1>8
    <3> QED BY <3>1
  <2>7. SpeechOnly'
    <3>1. \A t \in Turn \ {buffer} : ~(stage'[t] \in WorkingStage \cup {"tail"})
      BY <2>5, <2>6 DEF Tracked
    <3> QED BY <2>1, <2>4, <2>5, <1>2, <1>4, <3>1 DEF SpeechOnly, Tracked
  <2>8. status # "created"
    BY <1>1, <1>2, <2>2 DEF QueueIsBacked, Turn
  <2>9. QueueIsBacked'
    <3>1. status' \in {"listening", "transcribing", "thinking"}
      BY <2>4, <2>8, <1>2, SpokenStatus DEF QueueIsBacked
    <3>2. \A t \in Turn : stage'[t] # "tail" BY <2>5, <2>6 DEF Tracked
    <3> QED BY <2>1, <2>3, <3>1, <3>2 DEF QueueIsBacked
  <2>10. InOrder'
    <3>1. DOMAIN queue' = {} BY <2>1, <2>3
    <3> QED BY <2>1, <3>1 DEF InOrder
  <2>11. \A t \in begun' \ begun, u \in begun : u < t
    BY <2>4, <1>2, <1>8 DEF InOrder
  <2> QED BY <2>7, <2>9, <2>10, <2>11 DEF OrderInv
<1>9. begun' = begun => \A t \in begun' \ begun, u \in begun : u < t
  OBVIOUS
<1>10. CASE buffer = NoTurn \/ HasActiveResponse
  BY <1>6, <1>7, <1>9, <1>10 DEF SealAndCommit, CancelResponse, sessionVars
<1> QED BY <1>8, <1>10

\* A task that has come to its end serves the first of the queue.
LEMMA FinishKeepsOrder ==
  ASSUME InputInv, OrderInv, NEW t \in Turn, TaskFinished(t)
  PROVE  /\ OrderInv'
         /\ \A n \in begun' \ begun, u \in begun : u < n
<1>1. /\ queue \in Seq(Turn) /\ begun \subseteq Turn /\ stage \in [Turn -> Stage]
      /\ asked \in Nat /\ \A i \in Turn : Queued(i) => i <= asked
      /\ begun \subseteq 1..asked
  BY ConstantsAssumption DEF InputInv, TypeInv, TypeOK, OnlyReceived
<1>2. SpeechOnly /\ QueueIsBacked /\ InOrder BY DEF OrderInv
<1>3. /\ stage[t] = "tail" /\ UNCHANGED <<policy, buffer, asked, kind, cancelling, handler>>
      /\ LeaveUtterance(t)
  BY <1>2 DEF TaskFinished, Resumes, Leave, LeaveReply, inputVars, SpeechOnly
<1>4. responseTask = t /\ status = "listening" /\ t \in begun /\ t <= asked
  BY <1>1, <1>2, <1>3 DEF SpeechOnly, QueueIsBacked, Tracked
<1>5. \A i \in Turn \ {t} : ~Tracked(i)
  BY <1>2, <1>4 DEF SpeechOnly
<1>6. CASE queue = <<>>
  <2>1. /\ responseTask' = NoTurn /\ stage' = [stage EXCEPT ![t] = "ended"]
        /\ UNCHANGED <<status, begun, queue>>
    BY <1>3, <1>6 DEF LeaveUtterance, CanServeNext, sessionVars
  <2>2. stage'[t] = "ended" /\ \A i \in Turn \ {t} : stage'[i] = stage[i]
    BY <1>1, <2>1
  <2>3. \A i \in Turn : ~(stage'[i] \in WorkingStage \cup {"tail"})
    BY <1>5, <2>2 DEF Tracked, WorkingStage
  <2>4. NoTurn \notin Turn BY DEF NoTurn, Turn
  <2>5. SpeechOnly' BY <1>2, <1>3, <1>4, <2>1, <2>2, <2>3, <2>4 DEF SpeechOnly, Tracked
  <2>6. QueueIsBacked' BY <1>2, <1>3, <1>6, <2>1, <2>3 DEF QueueIsBacked
  <2>7. InOrder' BY <1>2, <1>3, <2>1 DEF InOrder
  <2> QED BY <2>1, <2>5, <2>6, <2>7 DEF OrderInv
<1>7. CASE queue # <<>>
  <2> DEFINE n == Head(queue)
  <2>1. /\ queue' = Tail(queue) /\ begun' = begun \cup {n} /\ responseTask' = n
        /\ status' = Move(status, "transcribing")
        /\ stage' = [[stage EXCEPT ![t] = "handoff"] EXCEPT ![n] = "created"]
    BY <1>3, <1>4, <1>7 DEF LeaveUtterance, CanServeNext, PopQueue, StartUtterance,
                            BeginTurn
  <2>2. /\ n = queue[1] /\ 1 \in DOMAIN queue /\ n \in Turn
        /\ \A i \in DOMAIN Tail(queue) : /\ i + 1 \in DOMAIN queue
                                         /\ Tail(queue)[i] = queue[i + 1] /\ 1 < i + 1
    BY <1>1, <1>7, QueueMoves
  <2>3. /\ \A u \in begun : u < n
        /\ \A i \in DOMAIN Tail(queue) : n < Tail(queue)[i]
        /\ buffer # NoTurn => n < buffer
    BY <1>2, <2>2 DEF InOrder
  <2>4. t < n /\ t # n BY <1>1, <1>4, <2>2, <2>3 DEF Turn
  <2>5. n <= asked BY <1>1, <2>2 DEF Queued
  <2> HIDE DEF n
  <2>6. /\ stage'[n] = "created" /\ stage'[t] = "handoff"
        /\ \A i \in Turn \ {t, n} : stage'[i] = stage[i]
    BY <1>1, <2>1, <2>2, <2>4
  <2>7. SpeechOnly'
    <3>1. \A i \in Turn \ {n} : ~(stage'[i] \in WorkingStage \cup {"tail"})
      BY <1>5, <2>6 DEF Tracked, WorkingStage
    <3>2. \A i \in Turn : stage'[i] = "handoff" => n # i BY <2>6
    <3>3. \A i \in Turn : stage'[i] \notin {"inline", "reporting"}
      BY <1>2, <2>6 DEF SpeechOnly
    <3>4. \A i \in Turn : stage'[i] # "none" => i \in begun'
      BY <1>2, <1>4, <2>1, <2>6 DEF SpeechOnly
    <3>5. /\ cancelling' = {} /\ \A i \in Turn : kind'[i] = "audio"
          /\ \A c \in Connection : handler'[c].at \in {"idle", "pushing"}
      BY <1>2, <1>3 DEF SpeechOnly
    <3> QED BY <2>1, <3>1, <3>2, <3>3, <3>4, <3>5 DEF SpeechOnly, Tracked
  <2>8. QueueIsBacked'
    <3>1. status' \in {"listening", "transcribing", "thinking"}
      BY <1>4, <2>1, SpokenStatus
    <3>2. responseTask' \in Turn /\ stage'[responseTask'] \in WorkingStage \cup {"tail"}
      BY <2>1, <2>2, <2>6 DEF WorkingStage
    <3>3. \A i \in Turn : stage'[i] # "tail"
      BY <1>5, <2>6 DEF Tracked
    <3> QED BY <3>1, <3>2, <3>3 DEF QueueIsBacked, Tracked
  <2>9. InOrder'
    <3>1. \A u \in begun' : /\ \A i \in DOMAIN queue' : u < queue'[i]
                            /\ buffer' # NoTurn => u < buffer'
      <4>1. \A u \in begun : /\ \A i \in DOMAIN Tail(queue) : u < Tail(queue)[i]
                             /\ buffer # NoTurn => u < buffer
        BY <1>2, <2>2 DEF InOrder
      <4> QED BY <1>3, <2>1, <2>3, <4>1
    <3>2. \A i, j \in DOMAIN queue' : i < j => queue'[i] < queue'[j]
      <4>1. \A i \in DOMAIN Tail(queue) : i \in Nat
        BY <1>1, <1>7
      <4>2. \A i, j \in DOMAIN Tail(queue) : i < j => Tail(queue)[i] < Tail(queue)[j]
        <5> TAKE i, j \in DOMAIN Tail(queue)
        <5> HAVE i < j
        <5>1. i + 1 < j + 1 BY <4>1
        <5> QED BY <5>1, <1>2, <2>2 DEF InOrder
      <4> QED BY <2>1, <4>2
    <3>3. buffer' # NoTurn => \A i \in DOMAIN queue' : queue'[i] < buffer'
      BY <1>2, <1>3, <2>1, <2>2 DEF InOrder
    <3> QED BY <3>1, <3>2, <3>3 DEF InOrder
  <2>10. \A m \in begun' \ begun, u \in begun : u < m
    BY <2>1, <2>3
  <2> QED BY <2>7, <2>8, <2>9, <2>10 DEF OrderInv
<1> QED BY <1>6, <1>7

\* The other steps of a task leave the queue alone and begin nothing.
LEMMA TaskKeepsOrder ==
  ASSUME InputInv, OrderInv, OnlySpeech, NEW t \in Turn, TaskStep(t), ~TaskFinished(t)
  PROVE  OrderInv' /\ begun' = begun
<1>1. stage \in [Turn -> Stage] /\ asked \in Nat /\ begun \subseteq 1..asked
  BY ConstantsAssumption DEF InputInv, TypeInv, TypeOK, OnlyReceived
<1>2. SpeechOnly /\ QueueIsBacked /\ InOrder BY DEF OrderInv
<1>3. stage[t] # "none" => status # "created"
  BY <1>1, <1>2 DEF SpeechOnly, QueueIsBacked
<1>4. ASSUME UNCHANGED <<begun, responseTask, queue, buffer, asked, kind, cancelling,
                         handler>>,
             NEW x \in Stage, stage' = [stage EXCEPT ![t] = x], stage[t] # "none",
             x \notin {"none", "inline", "reporting", "handoff"},
             Tracked(t),
             x \in WorkingStage \cup {"tail"},
             \/ x # "tail" /\ status' = status
             \/ x # "tail" /\ status' = Move(status, "thinking")
             \/ status' = Move(status, "listening")
      PROVE  OrderInv' /\ begun' = begun
  <2>1. stage'[t] = x /\ \A i \in Turn \ {t} : stage'[i] = stage[i]
    BY <1>1, <1>4
  <2>2. responseTask = t BY <1>2, <1>4 DEF SpeechOnly
  <2>3. SpeechOnly' BY <1>2, <1>4, <2>1, <2>2 DEF SpeechOnly, Tracked
  <2>4. \A i \in Turn \ {t} : stage[i] # "tail"
    BY <1>2, <2>2 DEF SpeechOnly, Tracked
  <2>5. status' \in {"listening", "transcribing", "thinking"}
        /\ (x = "tail" => status' = "listening")
    BY <1>2, <1>3, <1>4, SpokenStatus DEF QueueIsBacked
  <2>6. QueueIsBacked' BY <1>2, <1>4, <2>1, <2>2, <2>4, <2>5 DEF QueueIsBacked, Tracked
  <2>7. InOrder' BY <1>2, <1>4 DEF InOrder
  <2> QED BY <1>4, <2>3, <2>6, <2>7 DEF OrderInv
<1>5. CASE TaskStarted(t)
  <2>1. kind[t] = "audio" BY <1>2 DEF SpeechOnly
  <2> QED BY <1>4, <1>5, <2>1, "transcribing" \in Stage DEF TaskStarted, Resumes, Stage,
          LiveStage, WorkingStage, Tracked, sessionVars, runtimeVars, inputVars
<1>6. CASE Transcribed(t)
  BY <1>4, <1>6 DEF Transcribed, Resumes, Stage, LiveStage, WorkingStage, Tracked,
     sessionVars, runtimeVars, inputVars
<1>7. CASE TranscribedEmpty(t)
  BY <1>4, <1>7 DEF TranscribedEmpty, EndTurn, Resumes, Stage, LiveStage, WorkingStage,
     Tracked, inputVars
<1>8. CASE Routed(t)
  BY <1>4, <1>8 DEF Routed, Resumes, Stage, LiveStage, WorkingStage, Tracked,
     runtimeVars, inputVars
<1>9. CASE Responded(t)
  <2>1. kind[t] = "audio" BY <1>2 DEF SpeechOnly
  <2> QED BY <1>4, <1>9, <2>1 DEF Responded, EndTurn, Resumes, Stage, LiveStage,
          WorkingStage, Tracked, inputVars
<1>10. CASE HandoffDone(t)
  <2>1. /\ stage[t] = "handoff" /\ stage' = [stage EXCEPT ![t] = "ended"]
        /\ cancelling' = cancelling \ {t}
        /\ UNCHANGED <<status, begun, responseTask, queue, buffer, asked, kind, handler>>
    BY <1>10 DEF HandoffDone, sessionVars, runtimeVars, inputVars
  <2>2. stage'[t] = "ended" /\ \A i \in Turn \ {t} : stage'[i] = stage[i]
    BY <1>1, <2>1
  <2>3. SpeechOnly' BY <1>2, <2>1, <2>2 DEF SpeechOnly, Tracked, WorkingStage
  <2>4. QueueIsBacked'
    <3>1. queue # <<>> => responseTask # t BY <1>2, <2>1 DEF SpeechOnly
    <3> QED BY <1>2, <2>1, <2>2, <3>1 DEF QueueIsBacked, Tracked
  <2>5. InOrder' BY <1>2, <2>1 DEF InOrder
  <2> QED BY <2>1, <2>3, <2>4, <2>5 DEF OrderInv
<1>11. ~Reported(t) /\ ~TaskFailed(t) /\ ~TaskCancelled(t)
  BY <1>2 DEF Reported, TaskFailed, TaskCancelled, Resumes, SpeechOnly, OnlySpeech
<1> QED BY <1>5, <1>6, <1>7, <1>8, <1>9, <1>10, <1>11 DEF TaskStep

\* The messages of such a client.
LEMMA MessageKeepsOrder ==
  ASSUME InputInv, OrderInv, OnlySpeech, NEW c \in Connection,
         StartSession(c) \/ UpdateConfig(c) \/ AppendAudio(c)
  PROVE  OrderInv' /\ begun' = begun
<1>1. /\ asked \in Nat /\ begun \subseteq 1..asked /\ begun \subseteq Turn
      /\ queue \in Seq(Turn) /\ handler \in [Connection -> HandlerState]
      /\ \A i \in Turn : Queued(i) => i <= asked
  BY ConstantsAssumption DEF InputInv, TypeInv, TypeOK, OnlyReceived
<1>2. SpeechOnly /\ QueueIsBacked /\ InOrder BY DEF OrderInv
<1>3. CASE StartSession(c) \/ UpdateConfig(c)
  <2>1. /\ UNCHANGED <<begun, runtimeVars, queue, inputVars, taskVars, handler>>
        /\ status' = status \/ status' = Started(status)
    BY <1>3 DEF StartSession, UpdateConfig, sessionVars
  <2>2. /\ status' \in {"created", "listening", "transcribing", "thinking"}
        /\ status' = "created" => status = "created"
        /\ status = "listening" => status' = "listening"
    BY <1>2, <2>1, SpokenStatus DEF QueueIsBacked
  <2>3. SpeechOnly' BY <1>2, <2>1 DEF SpeechOnly, Tracked, runtimeVars, taskVars
  <2>4. QueueIsBacked'
    BY <1>2, <2>1, <2>2 DEF QueueIsBacked, Tracked, runtimeVars, taskVars, inputVars
  <2>5. InOrder' BY <1>2, <2>1 DEF InOrder, inputVars
  <2> QED BY <2>1, <2>3, <2>4, <2>5 DEF OrderInv
<1>4. CASE AppendAudio(c)
  <2>1. /\ UNCHANGED <<sessionVars, runtimeVars, queue, taskVars>>
        /\ buffer' = IF buffer # NoTurn THEN buffer ELSE asked + 1
        /\ asked'  = IF buffer # NoTurn THEN asked ELSE asked + 1
        /\ Become(c, "pushing", NoTurn) \/ handler' = handler
        /\ status # "created"
    BY <1>4 DEF AppendAudio, Receives, OnlySpeech
  <2>2. \A d \in Connection : handler'[d].at \in {"idle", "pushing"}
    <3>1. CASE Become(c, "pushing", NoTurn)
      <4>1. \A d \in Connection : handler'[d] = handler[d]
                                  \/ handler'[d] = [Idle EXCEPT !.at = "pushing", !.input = NoTurn]
        BY <3>1, <1>1 DEF Become
      <4>2. [Idle EXCEPT !.at = "pushing", !.input = NoTurn].at = "pushing"
        BY DEF Idle
      <4> QED BY <1>2, <4>1, <4>2 DEF SpeechOnly
    <3> QED BY <1>2, <2>1, <3>1 DEF SpeechOnly
  <2>3. SpeechOnly'
    BY <1>2, <2>1, <2>2 DEF SpeechOnly, Tracked, sessionVars, runtimeVars, taskVars
  <2>4. QueueIsBacked'
    BY <1>2, <2>1 DEF QueueIsBacked, Tracked, sessionVars, runtimeVars, taskVars
  <2>5. /\ \A u \in begun : u < asked + 1
        /\ \A i \in DOMAIN queue : queue[i] < asked + 1
    <3>1. \A i \in DOMAIN queue : queue[i] \in Turn /\ queue[i] <= asked
      BY <1>1, QueueMoves DEF Queued
    <3>2. \A i \in DOMAIN queue : queue[i] \in Nat BY <3>1 DEF Turn
    <3> QED BY <1>1, <3>1, <3>2
  <2>6. InOrder' BY <1>2, <2>1, <2>5 DEF InOrder, sessionVars
  <2> QED BY <2>1, <2>3, <2>4, <2>6 DEF OrderInv, sessionVars
<1> QED BY <1>3, <1>4

LEMMA StepKeepsOrder ==
  ASSUME InputInv, OrderInv, OnlySpeech, policy = "enqueue", [Next]_vars
  PROVE  /\ OrderInv'
         /\ \A t \in begun' \ begun, u \in begun : u < t
<1> DEFINE Later == \A t \in begun' \ begun, u \in begun : u < t
<1>1. begun' = begun => Later OBVIOUS
<1>2. SpeechOnly /\ QueueIsBacked /\ InOrder BY DEF OrderInv
<1>3. ASSUME NEW c \in Connection, Receive(c) PROVE OrderInv' /\ Later
  <2>1. ~GenerateReply(c) /\ ~Say(c) /\ ~Interrupt(c) /\ ~CloseSession(c)
    BY DEF OnlySpeech, GenerateReply, Say, Interrupt, CloseSession, Receives
  <2>2. CASE CommitAudio(c) BY <2>2, SealKeepsOrder DEF CommitAudio
  <2>3. CASE StartSession(c) \/ UpdateConfig(c) \/ AppendAudio(c)
    BY <2>3, <1>1, MessageKeepsOrder
  <2> QED BY <1>3, <2>1, <2>2, <2>3 DEF Receive
<1>4. ASSUME NEW c \in Connection, HandlerStep(c) PROVE OrderInv' /\ Later
  <2>1. AudioPushed(c)
    BY <1>2, <1>4 DEF HandlerStep, SpeechOnly, ReplyRouted, ReplyAnnounced, SaySpoken,
       SayFailed, InterruptDone, CloseDone, CommitDone, GenerateDone, SayDone,
       ResponseGone
  <2>2. CASE SealAndCommit(c) BY <2>2, SealKeepsOrder
  <2>3. CASE ~SealAndCommit(c)
    <3>1. /\ handler' = [handler EXCEPT ![c] = Idle]
          /\ UNCHANGED <<sessionVars, runtimeVars, queue, policy, inputVars, taskVars>>
      BY <2>1, <2>3 DEF AudioPushed
    <3>2. handler \in [Connection -> HandlerState]
      BY DEF InputInv, TypeInv, TypeOK
    <3>3. \A d \in Connection : handler'[d] = Idle \/ handler'[d] = handler[d]
      BY <3>1, <3>2
    <3>4. \A d \in Connection : handler'[d].at \in {"idle", "pushing"}
      BY <1>2, <3>3 DEF SpeechOnly, Idle
    <3>5. SpeechOnly'
      BY <1>2, <3>1, <3>4 DEF SpeechOnly, Tracked, sessionVars, runtimeVars, taskVars
    <3>6. QueueIsBacked'
      BY <1>2, <3>1 DEF QueueIsBacked, Tracked, sessionVars, runtimeVars, taskVars,
         inputVars
    <3>7. InOrder' BY <1>2, <3>1 DEF InOrder, sessionVars, inputVars
    <3> QED BY <1>1, <3>1, <3>5, <3>6, <3>7 DEF OrderInv, sessionVars
  <2> QED BY <2>2, <2>3
<1>5. ASSUME NEW t \in Turn, TaskStep(t) PROVE OrderInv' /\ Later
  <2>1. CASE TaskFinished(t) BY <2>1, FinishKeepsOrder
  <2>2. CASE ~TaskFinished(t) BY <1>1, <1>5, <2>2, TaskKeepsOrder
  <2> QED BY <2>1, <2>2
<1>6. ~DeleteSession BY DEF DeleteSession, OnlySpeech
<1>7. ASSUME UNCHANGED vars PROVE OrderInv' /\ Later
  <2>1. UNCHANGED <<status, begun, responseTask, queue, buffer, asked, kind, stage,
                    cancelling, handler>>
    BY <1>7 DEF vars, sessionVars, runtimeVars, inputVars, taskVars
  <2>2. SpeechOnly' /\ QueueIsBacked' /\ InOrder'
    BY <1>2, <2>1 DEF SpeechOnly, QueueIsBacked, InOrder, Tracked
  <2> QED BY <1>1, <2>1, <2>2 DEF OrderInv
<1> HIDE DEF Later
<1>8. OrderInv' /\ Later BY <1>3, <1>4, <1>5, <1>6, <1>7 DEF Next
<1> QED BY <1>8 DEF Later

\* Utterances are answered in the order they were spoken (worker.py, the queue
\* of _commit_audio and the finally block of _run_turn_pipeline), from any
\* number of connections, as long as the policy is "enqueue", no engine raises
\* and clients only start, speak and send settings: what an interrupt, a
\* request or an error in between does to the queue is told in the README.
THEOREM UtterancesKeepTheirOrder ==
  ASSUME OnlySpeech
  PROVE  Spec /\ [](policy = "enqueue") => SpokenOrder
<1>1. Init => OrderInv BY OrderBegins
<1>2. InputInv /\ OrderInv /\ policy = "enqueue" /\ [Next]_vars => OrderInv'
  BY StepKeepsOrder
<1>3. InputInv /\ OrderInv /\ policy = "enqueue" /\ [Next]_vars =>
        [\A t \in begun' \ begun, u \in begun :
           kind'[t] = "audio" /\ kind[u] = "audio" => u < t]_vars
  BY StepKeepsOrder
<1> QED BY <1>1, <1>2, <1>3, InputCorrect, PTL DEF Spec, SpokenOrder

-----------------------------------------------------------------------------
(* One websocket and the send_now policy, the configuration the web client *)
(* uses by default: the session answers one turn at a time, whatever the   *)
(* messages, the engine failures and the bound on the inputs.  Both        *)
(* hypotheses are needed: TLC finds the invariant broken without either.   *)

OneSocket   == \A c, d \in Connection : c = d
SendNowOnly == Policies = {"send_now"}

-----------------------------------------------------------------------------
(* The inductive invariant, part by part.                                  *)

InlineStage == {"routing", "announcing", "saying"}

\* Nothing is ever queued, and the tracked task is the only live one.
TaskIsTracked == queue = <<>> /\ \A t \in Turn : Live(t) => responseTask = t

\* A task that owes an answer owns the session's fields.
TaskOwns ==
  \A t \in Turn : Working(t) =>
    /\ activeTurn = t /\ runtimeTurn = t /\ activeGen = t /\ trace = t
    /\ t \notin completed

\* A turn a handler works on itself excludes every live task.
HandlerOwns ==
  /\ \A t \in Turn : stage[t] = "inline" =>
       \E c \in Connection : handler[c].at \in InlineStage /\ handler[c].input = t
  /\ \A c \in Connection : handler[c].at \in InlineStage =>
       /\ stage[handler[c].input] = "inline"
       /\ activeTurn = handler[c].input /\ runtimeTurn = handler[c].input
       /\ handler[c].input \notin completed
       /\ handler[c].at # "saying" =>
            trace = handler[c].input /\ kind[handler[c].input] = "text"
       /\ ~HasActiveResponse

\* While an interrupt waits, its captured task and turn stay current.
InterruptIsExact ==
  /\ \A c \in Connection : handler[c].at = "cancelling" =>
       /\ handler[c].turn = activeTurn
       /\ \A t \in Turn : Live(t) => t = handler[c].task /\ t \in cancelling
  /\ \A t \in cancelling : stage[t] \notin {"none", "inline"}
  /\ \A t \in cancelling : Live(t) =>
       \E c \in Connection : handler[c].at = "cancelling"

\* An input that has no turn yet has left no mark on the session.
InputsAreFresh ==
  /\ \A t \in Turn : (t \in begun) <=> (stage[t] # "none")
  /\ \A t \in Turn : t > asked => stage[t] = "none"
  /\ completed \subseteq begun /\ activeTurn \in begun \cup {NoTurn}
  /\ buffer # NoTurn => stage[buffer] = "none" /\ buffer <= asked
  /\ \A c \in Connection : Carried(c) # NoTurn =>
       stage[Carried(c)] = "none" /\ Carried(c) <= asked /\ Carried(c) # buffer

\* Somebody will end the active turn, unless its engine raised.
ActiveIsBacked ==
  activeTurn # NoTurn =>
    \/ Working(activeTurn)
    \/ stage[activeTurn] = "inline"
    \/ activeTurn \in failed
    \/ \E c \in Connection : handler[c].at = "cancelling"

BusyHasTurn == status \in Busy => activeTurn # NoTurn

SoloInv ==
  /\ TypeInv
  /\ TaskIsTracked
  /\ TaskOwns
  /\ HandlerOwns
  /\ InterruptIsExact
  /\ InputsAreFresh
  /\ ActiveIsBacked
  /\ BusyHasTurn
  /\ NoTurnIsAbandoned

-----------------------------------------------------------------------------
(* Proofs.                                                                 *)

LEMMA SoloInit ==
  ASSUME OneSocket, SendNowOnly
  PROVE  Init => SoloInv
<1> SUFFICES ASSUME Init PROVE SoloInv
  OBVIOUS
<1>1. TypeInv
  BY TypeInit
<1> USE ConstantsAssumption DEF Init
<1>2. \A t \in Turn : ~Live(t) /\ ~Working(t)
  BY DEF Live, Working, LiveStage, WorkingStage
<1>3. TaskIsTracked /\ TaskOwns
  BY <1>2 DEF TaskIsTracked, TaskOwns
<1>4. HandlerOwns /\ InterruptIsExact /\ InputsAreFresh
  BY DEF HandlerOwns, InterruptIsExact, InputsAreFresh, Carried, Idle,
         InlineStage, NoTurn
<1>5. ActiveIsBacked /\ BusyHasTurn /\ NoTurnIsAbandoned
  BY DEF ActiveIsBacked, BusyHasTurn, Busy, NoTurnIsAbandoned
<1>6. QED BY <1>1, <1>3, <1>4, <1>5 DEF SoloInv

\* The moves that end a turn leave no status that tells the client to wait.
LEMMA RestingStatus ==
  ASSUME NEW s \in Steady
  PROVE  /\ Move(s, "listening") \notin Busy
         /\ Recovered(s) \notin Busy
         /\ Started(s) \notin Busy
<1> USE DEF Steady, Status, Busy
<1>1. \A x \in Busy : "listening" \in Allowed[x] /\ "interrupted" \in Allowed[x]
  BY DEF Allowed
<1>2. \A x \in Status : Move(x, "listening") \notin Busy
  BY <1>1 DEF Move, CanTransition
<1>3. \A x \in Status, y \in Status : Move(x, y) \in Status
  BY DEF Move
<1>4. QED
  BY <1>2, <1>3 DEF Recovered, Started

LEMMA SoloNext ==
  ASSUME OneSocket, SendNowOnly
  PROVE  SoloInv /\ [Next]_vars => SoloInv'
<1> SUFFICES ASSUME SoloInv, [Next]_vars PROVE SoloInv'
  OBVIOUS
<1>ty. TypeInv /\ TypeInv'
  BY TypeNext DEF SoloInv
<1>st. status \in Steady
  BY <1>ty DEF TypeInv, TypeOK, Steady
<1>po. policy = "send_now"
  BY <1>ty DEF TypeInv, TypeOK, SendNowOnly
<1>re. /\ Move(status, "listening") \notin Busy
       /\ Recovered(status) \notin Busy
       /\ Started(status) \notin Busy
  BY <1>st, RestingStatus
<1>nz. 0 \notin Turn /\ \A t \in Turn : t \in Nat
  BY DEF Turn
<1>as. asked \in Nat
  BY <1>ty DEF TypeInv, TypeOK
<1> DEFINE Rest == /\ TaskIsTracked /\ TaskOwns /\ HandlerOwns
                   /\ InterruptIsExact /\ InputsAreFresh /\ ActiveIsBacked
                   /\ BusyHasTurn /\ NoTurnIsAbandoned
<1> SUFFICES Rest'
  BY <1>ty DEF SoloInv
<1> USE OneSocket DEF OneSocket, SoloInv, TypeInv, TypeOK, CarriesInput, NoTurn,
        TaskIsTracked, TaskOwns, HandlerOwns, InterruptIsExact,
        InputsAreFresh, ActiveIsBacked, BusyHasTurn, NoTurnIsAbandoned,
        InlineStage, Live, Working, HasActiveResponse, LiveStage, WorkingStage,
        Carried, Idle, sessionVars, runtimeVars, inputVars, taskVars,
        MaybeTurn, HandlerState
<1> HIDE ConstantsAssumption
<1>1. ASSUME NEW c \in Connection, StartSession(c) PROVE Rest'
  BY <1>1, <1>re, <1>ty DEF StartSession, Receives
<1>2. ASSUME NEW c \in Connection, UpdateConfig(c) PROVE Rest'
  BY <1>2, <1>ty DEF UpdateConfig, Receives
<1>3. ASSUME NEW c \in Connection, AppendAudio(c) PROVE Rest'
  <2>1. CASE Become(c, "pushing", NoTurn)
    BY <1>3, <2>1, <1>ty, <1>nz, <1>as, NextInput DEF AppendAudio, Receives,
       Become
  <2>2. CASE handler' = handler
    BY <1>3, <2>2, <1>ty, <1>nz, <1>as, NextInput DEF AppendAudio, Receives
  <2>3. QED BY <1>3, <2>1, <2>2 DEF AppendAudio
\* Facts every handler step starts from.
<1>no. ASSUME NEW c \in Connection, handler[c].at \notin InlineStage
       PROVE  \A t \in Turn : stage[t] # "inline"
  BY <1>no
<1>li. ASSUME ~HasActiveResponse
       PROVE  \A t \in Turn : ~Live(t)
  BY <1>li
<1>ca. ASSUME NEW c \in Connection, handler[c].at = "cancelling",
              ~Live(handler[c].task)
       PROVE  /\ \A t \in Turn : ~Live(t)
              /\ handler[c].turn = activeTurn
  BY <1>ca
<1>in. InterruptedTurns(activeTurn) = CompletedActive
  BY DEF InterruptedTurns, CompletedActive
\* A turn begins: no task is live, no handler works on a turn, and the turn
\* that was active, if any, is completed or its engine raised.
<1>be. ASSUME NEW c \in Connection, NEW t \in Turn, NEW done \in SUBSET Turn,
              NEW x \in {"created", "inline"}, NEW h \in HandlerState,
              \A u \in Turn : ~Live(u) /\ stage[u] # "inline",
              stage[t] = "none", t # buffer', t <= asked',
              asked' \in Nat, asked' >= asked, buffer' \in {buffer, NoTurn},
              completed \subseteq done, done \subseteq begun,
              begun \subseteq done \cup failed,
              BeginTurn(t, done), queue' = <<>>,
              failed' = failed, cancelling' = cancelling,
              stage' = [stage EXCEPT ![t] = x],
              handler' = [handler EXCEPT ![c] = h],
              x = "created" => /\ responseTask' = t /\ activeGen' = t
                               /\ trace' = t /\ h.at = "idle",
              x = "inline" => /\ h.at \in {"routing", "saying"} /\ h.input = t
                              /\ h.at = "routing" => trace' = t /\ kind'[t] = "text"
       PROVE  Rest'
  <2>1. /\ stage'[t] = x /\ \A u \in Turn \ {t} : stage'[u] = stage[u]
        /\ \A u \in Turn \ {t} : ~Live(u)'
        /\ handler'[c] = h /\ \A d \in Connection : d = c
    BY <1>be, <1>ty
  <2>2. /\ begun' = begun \cup {t} /\ completed' = done /\ t \notin done
        /\ activeTurn' = t /\ runtimeTurn' = t
    BY <1>be DEF BeginTurn
  <2>3. TaskIsTracked' BY <1>be, <2>1
  <2>4. TaskOwns' BY <1>be, <2>1, <2>2
  <2>5. HandlerOwns' BY <1>be, <2>1, <2>2
  <2>6. InterruptIsExact' BY <1>be, <2>1, <1>ty
  <2>7. InputsAreFresh'
    <3>1. \A u \in Turn : (u \in begun)' <=> (stage[u] # "none")'
      BY <1>be, <2>1, <2>2
    <3>2. \A u \in Turn : u > asked' => stage'[u] = "none"
      BY <1>be, <2>1, <1>nz, <1>as
    <3>3. buffer' # NoTurn => stage'[buffer'] = "none" /\ buffer' <= asked'
      BY <1>be, <2>1, <1>nz, <1>as, <1>ty
    <3>4. \A d \in Connection : Carried(d)' = NoTurn
      BY <1>be, <2>1
    <3>5. QED BY <3>1, <3>2, <3>3, <3>4, <1>be, <2>2
  <2>8. ActiveIsBacked' BY <1>be, <2>1, <2>2, <1>nz
  <2>9. BusyHasTurn' BY <2>2, <1>nz
  <2>10. NoTurnIsAbandoned' BY <1>be, <2>2
  <2>11. QED BY <2>3, <2>4, <2>5, <2>6, <2>7, <2>8, <2>9, <2>10
\* What a handler that may begin a turn knows of the turns before it.
<1>ol. ASSUME NEW c \in Connection, handler[c].at \in {"idle", "pushing"},
              ~HasActiveResponse
       PROVE  /\ begun \subseteq completed \cup failed
              /\ \A u \in Turn : ~Live(u) /\ stage[u] # "inline"
  <2>1. \A u \in Turn : ~Live(u) /\ stage[u] # "inline"
    <3>1. handler[c].at \notin InlineStage BY <1>ol
    <3>2. QED BY <3>1, <1>ol, <1>no, <1>li
  <2>2. ~\E d \in Connection : handler[d].at = "cancelling"
    BY <1>ol
  <2>3. activeTurn = NoTurn \/ activeTurn \in failed
    BY <2>1, <2>2, <1>ty
  <2>4. begun \subseteq Turn BY <1>ty
  <2>5. begun \subseteq completed \cup failed
    BY <2>3, <2>4, <1>nz
  <2>6. QED BY <2>1, <2>5
<1>oc. ASSUME NEW c \in Connection, handler[c].at = "cancelling",
              ~Live(handler[c].task)
       PROVE  /\ begun \subseteq CompletedActive \cup failed
              /\ CompletedActive \subseteq begun
              /\ completed \subseteq CompletedActive
              /\ InterruptedTurns(handler[c].turn) = CompletedActive
              /\ \A u \in Turn : ~Live(u) /\ stage[u] # "inline"
  <2>1. \A u \in Turn : ~Live(u) /\ stage[u] # "inline"
    <3>1. handler[c].at \notin InlineStage BY <1>oc
    <3>2. QED BY <3>1, <1>oc, <1>no, <1>ca
  <2>2. InterruptedTurns(handler[c].turn) = CompletedActive
    BY <1>oc, <1>ca, <1>in
  <2>3. begun \subseteq Turn BY <1>ty
  <2>4. /\ begun \subseteq CompletedActive \cup failed
        /\ CompletedActive \subseteq begun
        /\ completed \subseteq CompletedActive
    BY <2>3, <1>nz DEF CompletedActive
  <2>5. QED BY <2>1, <2>2, <2>4
<1>4. ASSUME NEW c \in Connection, NEW op \in Operation \ {"none"},
             NEW input \in MaybeTurn, CancelResponse(c, op, input),
             handler[c].at \in {"idle", "pushing"}, UNCHANGED kind,
             asked' \in Nat, asked' >= asked, buffer' \in {buffer, NoTurn},
             input # NoTurn => /\ stage[input] = "none" /\ input <= asked'
                               /\ input # buffer'
      PROVE  Rest'
  BY <1>4, <1>ty, <1>nz, <1>as DEF CancelResponse, Operation
\* An interrupt ends: no task is live, the active turn is completed.
<1>en. ASSUME NEW c \in Connection, NEW h \in HandlerState, h.at \in {"idle", "pushing"},
              handler[c].at \notin InlineStage,
              \A t \in Turn : ~Live(t),
              EndInterrupted(activeTurn), status' \notin Busy,
              handler' = [handler EXCEPT ![c] = h],
              UNCHANGED <<begun, queue, taskVars, asked>>,
              buffer' \in {buffer, NoTurn}
       PROVE  Rest'
  <2>1. /\ handler'[c] = h /\ \A d \in Connection : d = c
        /\ \A t \in Turn : ~Live(t)' /\ stage[t] # "inline"
    BY <1>en, <1>ty, <1>no
  <2>2. completed' = CompletedActive /\ activeTurn' = NoTurn
    BY <1>en, <1>in DEF EndInterrupted
  <2>3. TaskIsTracked' /\ TaskOwns' BY <1>en, <2>1
  <2>4. HandlerOwns' BY <1>en, <2>1
  <2>5. InterruptIsExact' BY <1>en, <2>1
  <2>6. InputsAreFresh' BY <1>en, <2>1, <2>2, <1>ty DEF CompletedActive
  <2>7. ActiveIsBacked' /\ BusyHasTurn' BY <1>en, <2>2
  <2>8. NoTurnIsAbandoned' BY <1>en, <2>2, <1>ty DEF CompletedActive
  <2>9. QED BY <2>3, <2>4, <2>5, <2>6, <2>7, <2>8
<1>5. ASSUME NEW c \in Connection, Interrupt(c) PROVE Rest'
  <2>1. CASE CancelResponse(c, "interrupt", NoTurn)
    BY <1>5, <2>1, <1>4, <1>as DEF Interrupt, Receives, Operation, CancelResponse
  <2>2. CASE InterruptQuiet(c)
    <3>1. handler' = [handler EXCEPT ![c] = handler[c]] /\ handler[c] \in HandlerState
      BY <2>2, <1>ty DEF InterruptQuiet
    <3>2. /\ handler[c].at = "idle" /\ \A t \in Turn : ~Live(t)
          /\ EndInterrupted(activeTurn) /\ status' \notin Busy
          /\ UNCHANGED <<begun, queue, taskVars, asked, buffer>>
      BY <1>5, <2>2, <1>re, <1>li DEF Interrupt, InterruptQuiet, Receives
    <3> HIDE DEF HandlerState
    <3>3. QED
      BY <3>1, <3>2, <1>en
  <2>3. QED BY <1>5, <2>1, <2>2 DEF Interrupt
<1>id. Idle \in HandlerState /\ Idle.at = "idle"
  BY DEF Operation
<1>6. ASSUME NEW c \in Connection, InterruptDone(c) PROVE Rest'
  <2>1. EndInterrupted(activeTurn) /\ \A t \in Turn : ~Live(t)
    BY <1>6, <1>ca DEF InterruptDone, ResponseGone
  <2>2. QED
    BY <1>6, <2>1, <1>re, <1>id, <1>en DEF InterruptDone, ResponseGone
<1>7. ASSUME NEW c \in Connection, CloseDone(c) PROVE Rest'
  <2>1. EndInterrupted(activeTurn) /\ \A t \in Turn : ~Live(t)
    BY <1>7, <1>ca DEF CloseDone, ResponseGone
  <2>2. status' \notin Busy
    BY <1>7 DEF CloseDone, Busy
  <2>3. QED
    BY <1>7, <2>1, <2>2, <1>id, <1>en DEF CloseDone, ResponseGone
<1>8. ASSUME NEW c \in Connection, CommitDone(c) PROVE Rest'
  <2> DEFINE t == handler[c].input
  <2>1. /\ handler[c].at = "cancelling" /\ ~Live(handler[c].task)
        /\ t \in Turn /\ Carried(c) = t
    BY <1>8, <1>ty DEF CommitDone, ResponseGone
  <2>2. stage[t] = "none" /\ t # buffer /\ t <= asked
    BY <2>1, <1>nz
  <2>3. StartUtterance(t, Recovered(status), CompletedActive, stage)
    BY <1>8, <2>1, <1>oc DEF CommitDone
  <2>4. handler' = [handler EXCEPT ![c] = Idle] /\ queue' = <<>>
        /\ UNCHANGED <<inputVars, cancelling, failed>>
    BY <1>8 DEF CommitDone
  <2> HIDE DEF t
  <2>5. /\ t # buffer' /\ t <= asked' /\ asked' \in Nat /\ asked' >= asked
        /\ buffer' \in {buffer, NoTurn}
    BY <2>2, <2>4, <1>as
  <2>6. /\ BeginTurn(t, CompletedActive)
        /\ stage' = [stage EXCEPT ![t] = "created"]
        /\ responseTask' = t /\ activeGen' = t /\ trace' = t
    BY <2>3 DEF StartUtterance
  <2>7. CompletedActive \in SUBSET Turn
    BY <1>ty DEF CompletedActive
  <2> HIDE DEF HandlerState, Idle
  <2>8. QED
    BY <2>1, <2>2, <2>4, <2>5, <2>6, <2>7, <1>oc, <1>id, <1>be
<1>9. ASSUME NEW c \in Connection, GenerateDone(c) PROVE Rest'
  <2> DEFINE t == handler[c].input
             h == [Idle EXCEPT !.at = "routing", !.input = t]
  <2>1. /\ handler[c].at = "cancelling" /\ ~Live(handler[c].task)
        /\ t \in Turn /\ Carried(c) = t
    BY <1>9, <1>ty DEF GenerateDone, ResponseGone
  <2>2. stage[t] = "none" /\ t # buffer /\ t <= asked
    BY <2>1, <1>nz
  <2>3. BeginReply(c, t, CompletedActive)
    BY <1>9, <2>1, <1>oc DEF GenerateDone
  <2>4. queue' = <<>> /\ UNCHANGED <<inputVars, cancelling, failed>>
    BY <1>9 DEF GenerateDone
  <2>5. h \in HandlerState /\ h.at = "routing" /\ h.input = t
    BY <2>1 DEF Operation
  <2>6. /\ BeginTurn(t, CompletedActive) /\ trace' = t /\ kind'[t] = "text"
        /\ stage' = [stage EXCEPT ![t] = "inline"]
        /\ handler' = [handler EXCEPT ![c] = h]
    BY <2>1, <2>3, <1>ty DEF BeginReply, Become
  <2> HIDE DEF t, h
  <2>7. /\ t # buffer' /\ t <= asked' /\ asked' \in Nat /\ asked' >= asked
        /\ buffer' \in {buffer, NoTurn}
    BY <2>2, <2>4, <1>as
  <2>8. CompletedActive \in SUBSET Turn
    BY <1>ty DEF CompletedActive
  <2> HIDE DEF HandlerState
  <2>9. QED
    BY <2>1, <2>2, <2>4, <2>5, <2>6, <2>7, <2>8, <1>oc, <1>be
<1>10. ASSUME NEW c \in Connection, SayDone(c) PROVE Rest'
  <2> DEFINE t == handler[c].input
             h == [Idle EXCEPT !.at = "saying", !.input = t]
  <2>1. /\ handler[c].at = "cancelling" /\ ~Live(handler[c].task)
        /\ t \in Turn /\ Carried(c) = t
    BY <1>10, <1>ty DEF SayDone, ResponseGone
  <2>2. stage[t] = "none" /\ t # buffer /\ t <= asked
    BY <2>1, <1>nz
  <2>3. BeginSay(c, t, Recovered(status), CompletedActive)
    BY <1>10, <2>1, <1>oc DEF SayDone
  <2>4. queue' = <<>> /\ UNCHANGED <<inputVars, cancelling, failed>>
    BY <1>10 DEF SayDone
  <2>5. h \in HandlerState /\ h.at = "saying" /\ h.input = t
    BY <2>1 DEF Operation
  <2>6. /\ BeginTurn(t, CompletedActive)
        /\ stage' = [stage EXCEPT ![t] = "inline"]
        /\ handler' = [handler EXCEPT ![c] = h]
    BY <2>1, <2>3, <1>ty DEF BeginSay, Become
  <2> HIDE DEF t, h
  <2>7. /\ t # buffer' /\ t <= asked' /\ asked' \in Nat /\ asked' >= asked
        /\ buffer' \in {buffer, NoTurn}
    BY <2>2, <2>4, <1>as
  <2>8. CompletedActive \in SUBSET Turn
    BY <1>ty DEF CompletedActive
  <2> HIDE DEF HandlerState
  <2>9. QED
    BY <2>1, <2>2, <2>4, <2>5, <2>6, <2>7, <2>8, <1>oc, <1>be
\* A handler goes back to waiting for a message and changes nothing else.
<1>qu. ASSUME NEW c \in Connection, handler[c].at \in {"idle", "pushing"},
              handler' = [handler EXCEPT ![c] = Idle],
              UNCHANGED <<sessionVars, runtimeVars, queue, policy, inputVars,
                          taskVars>>
       PROVE  Rest'
  BY <1>qu, <1>ty
<1>11. ASSUME NEW c \in Connection, SealAndCommit(c),
              handler[c].at \in {"idle", "pushing"}
       PROVE  Rest'
  <2>1. CASE buffer = NoTurn
    <3>1. /\ handler' = [handler EXCEPT ![c] = Idle] /\ buffer' = buffer
          /\ UNCHANGED <<sessionVars, runtimeVars, queue, taskVars, asked, policy>>
      BY <1>11, <2>1 DEF SealAndCommit, CancelResponse
    <3>2. QED BY <3>1, <1>qu, <1>11
  <2>2. CASE buffer # NoTurn /\ CancelResponse(c, "commit", buffer)
    <3>1. UNCHANGED <<kind, asked>> /\ buffer' = NoTurn
      BY <1>11, <2>2 DEF SealAndCommit, CancelResponse
    <3>2. /\ buffer \in Turn /\ stage[buffer] = "none" /\ buffer <= asked
          /\ buffer # buffer'
      BY <2>2, <3>1, <1>ty, <1>nz
    <3>3. /\ UNCHANGED kind /\ asked' \in Nat /\ asked' >= asked
          /\ buffer <= asked' /\ "commit" \in Operation \ {"none"}
      BY <3>1, <3>2, <1>as DEF Operation
    <3>4. QED BY <1>11, <2>2, <3>1, <3>2, <3>3, <1>4
  <2>3. CASE buffer # NoTurn /\ ~HasActiveResponse
    <3>1. /\ StartUtterance(buffer, status, completed, stage)
          /\ handler' = [handler EXCEPT ![c] = Idle] /\ buffer' = NoTurn
          /\ UNCHANGED <<queue, kind, cancelling, failed, asked, policy>>
      BY <1>11, <2>3 DEF SealAndCommit, CancelResponse
    <3>2. buffer \in Turn /\ buffer <= asked /\ stage[buffer] = "none"
      BY <2>3, <1>ty
    <3>3. /\ BeginTurn(buffer, completed) /\ responseTask' = buffer
          /\ stage' = [stage EXCEPT ![buffer] = "created"]
          /\ activeGen' = buffer /\ trace' = buffer
      BY <3>1 DEF StartUtterance
    <3>4. /\ buffer <= asked' /\ buffer # buffer' /\ asked' >= asked
          /\ asked' \in Nat /\ buffer' \in {buffer, NoTurn}
      BY <3>1, <3>2, <1>as, <1>nz
    <3>5. completed \in SUBSET Turn /\ completed \subseteq begun /\ queue' = <<>>
      BY <3>1, <1>ty
    <3> HIDE DEF HandlerState, Idle
    <3>6. QED
      BY <1>11, <2>3, <3>1, <3>2, <3>3, <3>4, <3>5, <1>ol, <1>id, <1>be
  <2>4. QED BY <1>11, <2>1, <2>2, <2>3, <1>po DEF SealAndCommit
<1>12. ASSUME NEW c \in Connection, AudioPushed(c) PROVE Rest'
  <2>1. CASE SealAndCommit(c)
    BY <1>11, <1>12, <2>1 DEF AudioPushed
  <2>2. CASE ~SealAndCommit(c)
    BY <1>12, <2>2, <1>qu DEF AudioPushed
  <2>3. QED BY <2>1, <2>2
<1>13. ASSUME NEW c \in Connection, CommitAudio(c) PROVE Rest'
  BY <1>11, <1>13 DEF CommitAudio, Receives
<1>14. ASSUME NEW c \in Connection, GenerateReply(c) PROVE Rest'
  <2> DEFINE t == asked + 1
             h == [Idle EXCEPT !.at = "routing", !.input = t]
  <2>1. /\ t \in Turn /\ asked' = t /\ buffer' = buffer /\ t > asked
        /\ stage[t] = "none" /\ t # buffer /\ asked' \in Nat /\ t <= asked'
        /\ handler[c].at = "idle"
    BY <1>14, NextInput, <1>nz, <1>as, <1>ty DEF GenerateReply, Receives
  <2>2. CASE CancelResponse(c, "generate", t)
    <3>1. UNCHANGED kind BY <2>2 DEF CancelResponse
    <3> HIDE DEF t
    <3>2. QED BY <2>1, <2>2, <3>1, <1>4, <1>as DEF Operation
  <2>3. CASE BeginReply(c, t, completed) /\ ~HasActiveResponse
    <3>1. queue' = <<>> /\ UNCHANGED <<cancelling, failed>>
      BY <1>14, <2>3 DEF GenerateReply, CancelResponse
    <3>2. h \in HandlerState /\ h.at = "routing" /\ h.input = t
      BY <2>1 DEF Operation
    <3>3. /\ BeginTurn(t, completed) /\ trace' = t /\ kind'[t] = "text"
          /\ stage' = [stage EXCEPT ![t] = "inline"]
          /\ handler' = [handler EXCEPT ![c] = h]
      BY <2>1, <2>3, <1>ty DEF BeginReply, Become
    <3>4. t <= asked' /\ t # buffer' /\ asked' >= asked
      BY <2>1, <1>as
    <3>5. completed \in SUBSET Turn /\ completed \subseteq begun
      BY <1>ty
    <3> HIDE DEF t, h, HandlerState
    <3>6. QED
      BY <2>1, <2>3, <3>1, <3>2, <3>3, <3>4, <3>5, <1>ol, <1>be
  <2>4. QED BY <1>14, <2>2, <2>3 DEF GenerateReply
<1>15. ASSUME NEW c \in Connection, ReplyRouted(c) PROVE Rest'
  BY <1>15, <1>ty, <1>nz DEF ReplyRouted, Become
<1>16. ASSUME NEW c \in Connection, ReplyAnnounced(c) PROVE Rest'
  <2> DEFINE t == handler[c].input
  <2>1. /\ t \in Turn /\ stage[t] = "inline" /\ activeTurn = t /\ runtimeTurn = t
        /\ trace = t /\ t \notin completed /\ \A d \in Connection : d = c
        /\ \A u \in Turn : ~Live(u)
    BY <1>16, <1>li, <1>ty DEF ReplyAnnounced
  <2>2. /\ handler'[c] = Idle /\ stage'[t] = "created"
        /\ \A u \in Turn \ {t} : stage'[u] = stage[u] /\ stage[u] # "inline"
        /\ activeGen' = t /\ responseTask' = t
        /\ UNCHANGED <<sessionVars, runtimeTurn, trace, queue, inputVars,
                       cancelling, failed>>
    BY <1>16, <2>1, <1>ty DEF ReplyAnnounced
  <2> HIDE DEF t
  <2>3. TaskIsTracked' /\ TaskOwns' BY <2>1, <2>2
  <2>4. HandlerOwns' BY <2>1, <2>2
  <2>5. InterruptIsExact' BY <2>1, <2>2, <1>ty
  <2>6. InputsAreFresh' BY <2>1, <2>2, <1>ty
  <2>7. ActiveIsBacked' /\ BusyHasTurn' /\ NoTurnIsAbandoned'
    BY <2>1, <2>2
  <2>8. QED BY <2>3, <2>4, <2>5, <2>6, <2>7
<1>17. ASSUME NEW c \in Connection, Say(c) PROVE Rest'
  <2> DEFINE t == asked + 1
             h == [Idle EXCEPT !.at = "saying", !.input = t]
  <2>1. /\ t \in Turn /\ asked' = t /\ buffer' = buffer /\ t > asked
        /\ stage[t] = "none" /\ t # buffer /\ asked' \in Nat /\ t <= asked'
        /\ handler[c].at = "idle"
    BY <1>17, NextInput, <1>nz, <1>as, <1>ty DEF Say, Receives
  <2>2. CASE CancelResponse(c, "say", t)
    <3>1. UNCHANGED kind BY <2>2 DEF CancelResponse
    <3> HIDE DEF t
    <3>2. QED BY <2>1, <2>2, <3>1, <1>4, <1>as DEF Operation
  <2>3. CASE BeginSay(c, t, status, completed) /\ ~HasActiveResponse
    <3>1. queue' = <<>> /\ UNCHANGED <<cancelling, failed>>
      BY <1>17, <2>3 DEF Say, CancelResponse
    <3>2. h \in HandlerState /\ h.at = "saying" /\ h.input = t
      BY <2>1 DEF Operation
    <3>3. /\ BeginTurn(t, completed)
          /\ stage' = [stage EXCEPT ![t] = "inline"]
          /\ handler' = [handler EXCEPT ![c] = h]
      BY <2>1, <2>3, <1>ty DEF BeginSay, Become
    <3>4. t <= asked' /\ t # buffer' /\ asked' >= asked
      BY <2>1, <1>as
    <3>5. completed \in SUBSET Turn /\ completed \subseteq begun
      BY <1>ty
    <3> HIDE DEF t, h, HandlerState
    <3>6. QED
      BY <2>1, <2>3, <3>1, <3>2, <3>3, <3>4, <3>5, <1>ol, <1>be
  <2>4. QED BY <1>17, <2>2, <2>3 DEF Say
\* The handler's own turn ends, spoken or failed.
<1>sa. ASSUME NEW c \in Connection, handler[c].at = "saying",
              stage' = [stage EXCEPT ![handler[c].input] = "ended"],
              handler' = [handler EXCEPT ![c] = Idle],
              \/ /\ completed' = CompletedActive /\ activeTurn' = NoTurn
                 /\ status' \notin Busy /\ failed' = failed
              \/ /\ failed' = failed \cup {handler[c].input}
                 /\ UNCHANGED <<completed, activeTurn, status>>,
              UNCHANGED <<begun, responseTask, activeGen, trace, queue,
                          inputVars, kind, cancelling>>
       PROVE  Rest'
  <2> DEFINE t == handler[c].input
  <2>1. /\ t \in Turn /\ stage[t] = "inline" /\ activeTurn = t
        /\ \A d \in Connection : d = c
        /\ \A u \in Turn : ~Live(u)
    BY <1>sa, <1>li, <1>ty
  <2>2. /\ handler'[c] = Idle /\ stage'[t] = "ended"
        /\ \A u \in Turn \ {t} : stage'[u] = stage[u] /\ stage[u] # "inline"
    BY <1>sa, <2>1, <1>ty
  <2> HIDE DEF t
  <2>3. TaskIsTracked' /\ TaskOwns' BY <1>sa, <2>1, <2>2
  <2>4. HandlerOwns' BY <1>sa, <2>1, <2>2
  <2>5. InterruptIsExact' BY <1>sa, <2>1, <2>2, <1>ty
  <2>6. InputsAreFresh' BY <1>sa, <2>1, <2>2, <1>ty DEF CompletedActive
  <2>7. ActiveIsBacked' /\ BusyHasTurn' /\ NoTurnIsAbandoned'
    BY <1>sa, <2>1, <2>2 DEF CompletedActive, t
  <2>8. QED BY <2>3, <2>4, <2>5, <2>6, <2>7
<1>18. ASSUME NEW c \in Connection, SaySpoken(c) PROVE Rest'
  BY <1>18, <1>sa, <1>re DEF SaySpoken
<1>19. ASSUME NEW c \in Connection, SayFailed(c) PROVE Rest'
  BY <1>19, <1>sa DEF SayFailed
<1>20. ASSUME NEW c \in Connection, CloseSession(c) PROVE Rest'
  <2>1. CASE CancelResponse(c, "close", NoTurn) /\ UNCHANGED buffer
    BY <1>20, <2>1, <1>4, <1>as DEF CloseSession, Receives, Operation,
       CancelResponse
  <2>2. CASE ~HasActiveResponse
    BY <1>20, <2>2, <1>ty DEF CloseSession, CancelResponse, Busy, Receives
  <2>3. QED BY <1>20, <2>1, <2>2 DEF CloseSession
<1>21. CASE DeleteSession
  BY <1>21, <1>ty DEF DeleteSession, Busy
<1>31. ASSUME NEW t \in Turn, TaskStarted(t) PROVE Rest'
  BY <1>31, <1>ty DEF TaskStarted, Resumes
<1>34. ASSUME NEW t \in Turn, Routed(t) PROVE Rest'
  BY <1>34, <1>ty, <1>nz DEF Routed, Resumes
\* A task ends its turn and has only events left to send.
<1>et. ASSUME NEW t \in Turn, NEW x \in {"tail", "reporting"},
              Working(t), t \notin cancelling, EndTurn,
              stage' = [stage EXCEPT ![t] = x],
              UNCHANGED <<begun, responseTask, queue, inputVars, cancelling,
                          failed, handler>>
       PROVE  Rest'
  <2>1. /\ activeTurn = t /\ runtimeTurn = t /\ stage[t] # "none"
        /\ HasActiveResponse /\ \A u \in Turn : Live(u) => u = t
    BY <1>et, <1>ty
  <2>2. /\ \A c \in Connection : handler[c].at \notin {"cancelling"} \cup InlineStage
        /\ \A u \in Turn : stage[u] # "inline"
    BY <1>et, <2>1, <1>ty
  <2>3. /\ stage'[t] = x /\ \A u \in Turn \ {t} : stage'[u] = stage[u]
    BY <1>et, <1>ty
  <2>4. /\ completed' = completed \cup {t} /\ activeTurn' = NoTurn
        /\ status' \notin Busy
    BY <1>et, <2>1, <1>re, <1>nz DEF EndTurn, CompletedActive
  <2>5. TaskIsTracked' /\ TaskOwns' BY <1>et, <2>1, <2>3
  <2>6. HandlerOwns'
    <3>1. \A u \in Turn : stage'[u] # "inline" BY <2>2, <2>3
    <3>2. \A c \in Connection : handler'[c].at \notin InlineStage BY <1>et, <2>2
    <3>3. QED BY <3>1, <3>2
  <2>7. InterruptIsExact' BY <1>et, <2>2, <2>3
  <2>8. InputsAreFresh'
    <3>1. \A u \in Turn : stage'[u] = "none" <=> stage[u] = "none"
      BY <2>1, <2>3
    <3>2. \A c \in Connection : Carried(c)' = NoTurn
      BY <1>et, <2>2
    <3>3. t \in begun /\ completed' \subseteq begun'
      BY <1>et, <2>1, <2>4
    <3>4. buffer' # NoTurn => stage'[buffer'] = "none" /\ buffer' <= asked'
      BY <1>et, <2>1, <2>3, <1>ty
    <3>5. QED BY <1>et, <2>4, <3>1, <3>2, <3>3, <3>4
  <2>9. ActiveIsBacked' /\ BusyHasTurn' BY <2>4
  <2>10. NoTurnIsAbandoned' BY <1>et, <2>1, <2>4
  <2>11. QED BY <2>5, <2>6, <2>7, <2>8, <2>9, <2>10
<1>33. ASSUME NEW t \in Turn, TranscribedEmpty(t) PROVE Rest'
  BY <1>33, <1>et DEF TranscribedEmpty, Resumes
<1>32. ASSUME NEW t \in Turn, Transcribed(t) PROVE Rest'
  BY <1>32, <1>ty DEF Transcribed, Resumes
<1>35. ASSUME NEW t \in Turn, Responded(t) PROVE Rest'
  BY <1>35, <1>et DEF Responded, Resumes
<1>36. ASSUME NEW t \in Turn, Reported(t) PROVE Rest'
  BY <1>36, <1>ty DEF Reported, Resumes
<1>37. ASSUME NEW t \in Turn, HandoffDone(t) PROVE Rest'
  BY <1>37, <1>ty DEF HandoffDone
<1>38. ASSUME NEW t \in Turn, Leave(t)
       PROVE  /\ UNCHANGED <<sessionVars, runtimeTurn, trace, queue>>
              /\ responseTask' = NoTurn
              /\ stage' = [stage EXCEPT ![t] = "ended"]
  BY <1>38 DEF Leave, LeaveReply, LeaveUtterance, CanServeNext, ForgetResponse
<1>39. ASSUME NEW t \in Turn, TaskFinished(t) PROVE Rest'
  BY <1>39, <1>38, <1>ty DEF TaskFinished, Resumes
<1>40. ASSUME NEW t \in Turn, TaskFailed(t) PROVE Rest'
  BY <1>40, <1>38, <1>ty DEF TaskFailed, Resumes
<1>41. ASSUME NEW t \in Turn, TaskCancelled(t) PROVE Rest'
  <2>1. CASE Leave(t)
    BY <1>41, <2>1, <1>38, <1>ty DEF TaskCancelled, Cancellable
  <2>2. CASE ~Leave(t)
    <3>1. /\ stage[t] = "created" /\ t \in cancelling
          /\ stage' = [stage EXCEPT ![t] = "ended"]
          /\ cancelling' = cancelling \ {t}
          /\ UNCHANGED <<sessionVars, runtimeVars, queue, inputVars, kind,
                         failed, handler>>
      BY <1>41, <2>2 DEF TaskCancelled
    <3>2. /\ stage'[t] = "ended" /\ \A u \in Turn \ {t} : stage'[u] = stage[u]
          /\ \E d \in Connection : handler[d].at = "cancelling"
      BY <3>1, <1>ty
    <3>3. QED BY <3>1, <3>2, <1>ty
  <2>3. QED BY <2>1, <2>2
<1>42. CASE UNCHANGED vars
  BY <1>42, <1>ty DEF vars
<1>43. QED
  BY <1>1, <1>2, <1>3, <1>5, <1>6, <1>7, <1>8, <1>9, <1>10, <1>12, <1>13,
     <1>14, <1>15, <1>16, <1>17, <1>18, <1>19, <1>20, <1>21, <1>31, <1>32,
     <1>33, <1>34, <1>35, <1>36, <1>37, <1>39, <1>40, <1>41, <1>42
  DEF Next, Receive, HandlerStep, TaskStep

-----------------------------------------------------------------------------
(* What follows from the invariant.                                        *)

LEMMA SoloCorrect == ASSUME OneSocket, SendNowOnly PROVE Spec => []SoloInv
<1>1. Init => SoloInv
  BY SoloInit
<1>2. SoloInv /\ [Next]_vars => SoloInv'
  BY SoloNext
<1>3. QED
  BY <1>1, <1>2, PTL DEF Spec

\* With one socket and send_now, a response that is still being produced is
\* always the one that an interrupt, the next utterance or session.close
\* cancels: worker.response_task never loses a task that works.
THEOREM SoloResponsesAreInterruptible ==
  ASSUME OneSocket, SendNowOnly
  PROVE  Spec => []EveryResponseIsInterruptible
<1>1. SoloInv => EveryResponseIsInterruptible
  BY DEF SoloInv, TaskIsTracked, EveryResponseIsInterruptible, Working, Live,
         LiveStage
<1>2. QED
  BY <1>1, SoloCorrect, PTL

\* With one socket and send_now, complete_turn and turn.metrics, called from a
\* task that works, find the session's turn, generation and trace to be the
\* task's own.
THEOREM SoloTaskOwnsSession ==
  ASSUME OneSocket, SendNowOnly
  PROVE  Spec => []WorkingTaskOwnsSession
<1>1. SoloInv => WorkingTaskOwnsSession
  BY DEF SoloInv, TaskOwns, WorkingTaskOwnsSession
<1>2. QED
  BY <1>1, SoloCorrect, PTL

\* With one socket and send_now, a turn recorded as completed produces nothing
\* more, neither from its task nor from a handler.
THEOREM SoloCompletedIsOver ==
  ASSUME OneSocket, SendNowOnly
  PROVE  Spec => []CompletedIsOver
<1>1. SoloInv => CompletedIsOver
  BY DEF SoloInv, TypeInv, TypeOK, TaskOwns, HandlerOwns, CompletedIsOver
<1>2. QED
  BY <1>1, SoloCorrect, PTL

\* With one socket and send_now, every turn in the session's history is
\* completed, or the active one, or its engine raised.
THEOREM SoloNoTurnIsAbandoned ==
  ASSUME OneSocket, SendNowOnly
  PROVE  Spec => []NoTurnIsAbandoned
<1>1. SoloInv => NoTurnIsAbandoned
  BY DEF SoloInv
<1>2. QED
  BY <1>1, SoloCorrect, PTL

\* With one socket and send_now, a status that tells the client to wait is
\* backed by a task, a handler or an interrupt that will end it, unless the
\* turn's engine raised.
THEOREM SoloBusyIsBacked ==
  ASSUME OneSocket, SendNowOnly
  PROVE  Spec => []BusyIsBacked
<1>1. SoloInv => BusyIsBacked
  <2> SUFFICES ASSUME SoloInv, status \in Busy PROVE BusyIsBacked
    BY DEF BusyIsBacked
  <2>1. activeTurn \in Turn
    BY DEF SoloInv, BusyHasTurn, TypeInv, TypeOK, MaybeTurn
  <2>2. CASE stage[activeTurn] = "inline"
    BY <2>1, <2>2 DEF SoloInv, HandlerOwns, InlineStage, BusyIsBacked
  <2>3. CASE stage[activeTurn] # "inline"
    BY <2>1, <2>3 DEF SoloInv, ActiveIsBacked, BusyHasTurn, BusyIsBacked
  <2>4. QED BY <2>2, <2>3
<1>2. QED
  BY <1>1, SoloCorrect, PTL

-----------------------------------------------------------------------------
(* With one websocket and the send_now policy the worker implements        *)
(* TurnTaking: every step of it either takes up a turn while no turn is    *)
(* worked on, or gives up the one that is, or changes nothing that the     *)
(* person who talks to the session can tell.                               *)

OverStage   == {"reporting", "tail", "handoff", "ended"}
ServedStage == WorkingStage \cup {"inline"}

\* How a step may move the work on the turns.
Moved ==
  \/ stage' = stage
  \/ \E t \in Turn :
       /\ \A u \in Turn \ {t} : stage'[u] = stage[u]
       /\ \/ /\ stage[t] = "none" /\ stage'[t] \in {"created", "inline"}
             /\ \A u \in Turn : ~Served(u)
          \/ stage[t] \in ServedStage /\ stage'[t] \in ServedStage \cup OverStage
          \/ stage[t] \in OverStage /\ stage'[t] \in OverStage

\* At most one turn is worked on, and Serving is it.
ServingIsExact ==
  /\ \A t \in Turn : Served(t) => Serving = t
  /\ Serving # NoTurn => Serving \in Turn /\ Served(Serving)

-----------------------------------------------------------------------------
(* Proofs.                                                                 *)

\* When a handler may begin a turn, none is being worked on.
LEMMA NothingServed ==
  ASSUME OneSocket, SoloInv, NEW c \in Connection,
         \/ handler[c].at \in {"idle", "pushing"} /\ ~HasActiveResponse
         \/ handler[c].at = "cancelling" /\ ~Live(handler[c].task)
  PROVE  \A u \in Turn : ~Served(u)
<1> USE DEF SoloInv
<1>1. \A u \in Turn : ~Live(u)
  BY DEF TaskIsTracked, InterruptIsExact, HasActiveResponse, Live
<1>2. \A u \in Turn : stage[u] # "inline"
  BY DEF OneSocket, HandlerOwns, InlineStage
<1>3. QED
  BY <1>1, <1>2 DEF Served, Working, Live, LiveStage

\* An input that a handler holds, or that has just been received, has no turn.
LEMMA InputIsFresh ==
  ASSUME SoloInv
  PROVE  /\ buffer # NoTurn => buffer \in Turn /\ stage[buffer] = "none"
         /\ asked + 1 \in Turn => stage[asked + 1] = "none"
         /\ \A c \in Connection : Carried(c) # NoTurn =>
              Carried(c) \in Turn /\ stage[Carried(c)] = "none"
<1> USE DEF SoloInv
<1>1. buffer \in MaybeTurn /\ asked \in Nat
  BY ConstantsAssumption DEF TypeInv, TypeOK
<1>2. \A c \in Connection : handler[c] \in HandlerState
  BY DEF TypeInv, TypeOK
<1>3. \A c \in Connection : Carried(c) \in MaybeTurn
  BY <1>2 DEF Carried, HandlerState, MaybeTurn
<1>4. QED
  BY <1>1, <1>3 DEF InputsAreFresh, MaybeTurn

\* A turn begins where none is worked on.
LEMMA BeginMoves ==
  ASSUME SoloInv, NEW t \in Turn, stage[t] = "none",
         \A u \in Turn : ~Served(u),
         NEW x \in {"created", "inline"}, stage' = [stage EXCEPT ![t] = x]
  PROVE  Moved
<1>1. stage'[t] = x /\ \A u \in Turn \ {t} : stage'[u] = stage[u]
  BY DEF SoloInv, TypeInv, TypeOK
<1>2. QED
  BY <1>1 DEF Moved

\* A turn whose work has begun goes on, or is over for good.
LEMMA StageMoves ==
  ASSUME SoloInv, NEW t \in Turn, NEW x \in OverStage \cup ServedStage,
         \/ stage[t] \in ServedStage
         \/ stage[t] \in OverStage /\ x \in OverStage,
         stage' = [stage EXCEPT ![t] = x]
  PROVE  Moved
<1>1. stage'[t] = x /\ \A u \in Turn \ {t} : stage'[u] = stage[u]
  BY DEF SoloInv, TypeInv, TypeOK
<1>2. QED
  BY <1>1 DEF Moved

LEMMA StepMoves ==
  ASSUME OneSocket, SendNowOnly, SoloInv, [Next]_vars
  PROVE  Moved
<1>ty. TypeInv
  BY DEF SoloInv
<1>po. policy = "send_now"
  BY <1>ty DEF TypeInv, TypeOK, SendNowOnly
<1>hs. \A c \in Connection : handler[c] \in HandlerState
  BY <1>ty DEF TypeInv, TypeOK
\* The handlers.
<1>un. ASSUME stage' = stage PROVE Moved
  BY <1>un DEF Moved
<1>1. ASSUME NEW c \in Connection,
             \/ StartSession(c) \/ UpdateConfig(c) \/ AppendAudio(c)
             \/ Interrupt(c) \/ CloseSession(c)
             \/ InterruptDone(c) \/ CloseDone(c) \/ ReplyRouted(c)
      PROVE  Moved
  BY <1>1, <1>un DEF StartSession, UpdateConfig, AppendAudio, Interrupt,
     CloseSession, InterruptDone, CloseDone, ReplyRouted, CancelResponse,
     InterruptQuiet, taskVars
<1>2. ASSUME NEW c \in Connection, NEW op \in Operation, ResponseGone(c, op),
             handler[c].input \in Turn
      PROVE  /\ stage[handler[c].input] = "none"
             /\ \A u \in Turn : ~Served(u)
  <2>1. handler[c].at = "cancelling" /\ ~Live(handler[c].task)
    BY <1>2 DEF ResponseGone
  <2>2. Carried(c) # NoTurn /\ Carried(c) = handler[c].input
    BY <1>2, <2>1 DEF Carried, Turn, NoTurn
  <2>3. QED BY <2>1, <2>2, NothingServed, InputIsFresh
<1>3. ASSUME NEW c \in Connection,
             CommitDone(c) \/ GenerateDone(c) \/ SayDone(c)
      PROVE  Moved
  <2> DEFINE t == handler[c].input
  <2>1. t \in Turn /\ \E op \in Operation : ResponseGone(c, op)
    BY <1>3, <1>ty DEF CommitDone, GenerateDone, SayDone, ResponseGone,
       TypeInv, CarriesInput, Operation
  <2>2. stage[t] = "none" /\ \A u \in Turn : ~Served(u)
    BY <2>1, <1>2
  <2>3. \E x \in {"created", "inline"} : stage' = [stage EXCEPT ![t] = x]
    BY <1>3 DEF CommitDone, GenerateDone, SayDone, StartUtterance, BeginReply,
       BeginSay
  <2> HIDE DEF t
  <2>4. QED BY <2>1, <2>2, <2>3, BeginMoves
<1>4. ASSUME NEW c \in Connection, SealAndCommit(c),
             handler[c].at \in {"idle", "pushing"}
      PROVE  Moved
  <2>1. CASE stage' = stage
    BY <2>1, <1>un
  <2>2. CASE buffer # NoTurn /\ ~HasActiveResponse
             /\ StartUtterance(buffer, status, completed, stage)
    <3>1. stage' = [stage EXCEPT ![buffer] = "created"]
      BY <2>2 DEF StartUtterance
    <3>2. buffer \in Turn /\ stage[buffer] = "none"
      BY <2>2, InputIsFresh
    <3>3. \A u \in Turn : ~Served(u)
      BY <2>2, <1>4, NothingServed
    <3>4. QED BY <3>1, <3>2, <3>3, BeginMoves
  <2>3. QED
    BY <1>4, <2>1, <2>2 DEF SealAndCommit, CancelResponse, taskVars
<1>5. ASSUME NEW c \in Connection, CommitAudio(c) \/ AudioPushed(c)
      PROVE  Moved
  <2>1. CASE stage' = stage
    BY <2>1, <1>un
  <2>2. CASE SealAndCommit(c)
    BY <1>5, <2>2, <1>4 DEF CommitAudio, AudioPushed, Receives
  <2>3. QED
    BY <1>5, <2>1, <2>2 DEF CommitAudio, AudioPushed, taskVars
<1>6. ASSUME NEW c \in Connection, GenerateReply(c) \/ Say(c)
      PROVE  Moved
  <2> DEFINE t == asked + 1
  <2>1. t \in Turn /\ stage[t] = "none" /\ handler[c].at = "idle"
    <3>1. asked + 1 \in Turn /\ handler[c].at = "idle"
      BY <1>6, <1>ty, NextInput DEF GenerateReply, Say, Receives, TypeInv, TypeOK
    <3>2. QED BY <3>1, InputIsFresh
  <2>2. CASE stage' = stage
    BY <2>2, <1>un
  <2>3. CASE ~HasActiveResponse /\ stage' = [stage EXCEPT ![t] = "inline"]
    <3>1. \A u \in Turn : ~Served(u)
      BY <2>1, <2>3, NothingServed
    <3> HIDE DEF t
    <3>2. QED BY <2>1, <2>3, <3>1, BeginMoves
  <2>4. QED
    BY <1>6, <2>2, <2>3 DEF GenerateReply, Say, CancelResponse, BeginReply,
       BeginSay
<1>7. ASSUME NEW c \in Connection,
             ReplyAnnounced(c) \/ SaySpoken(c) \/ SayFailed(c)
      PROVE  Moved
  <2> DEFINE t == handler[c].input
  <2>1. handler[c].at \in InlineStage
    BY <1>7 DEF ReplyAnnounced, SaySpoken, SayFailed, InlineStage
  <2>2. t \in Turn /\ stage[t] = "inline"
    BY <2>1, <1>ty DEF SoloInv, HandlerOwns, TypeInv, CarriesInput, InlineStage
  <2>3. \E x \in {"created", "ended"} : stage' = [stage EXCEPT ![t] = x]
    BY <1>7 DEF ReplyAnnounced, SaySpoken, SayFailed
  <2> HIDE DEF t
  <2>4. QED
    BY <2>2, <2>3, StageMoves DEF OverStage, ServedStage, WorkingStage
<1>8. CASE DeleteSession
  BY <1>8, <1>un DEF DeleteSession, taskVars
\* The response tasks.
<1>10. ASSUME NEW t \in Turn, NEW x \in OverStage \cup ServedStage,
              \/ stage[t] \in WorkingStage
              \/ stage[t] \in OverStage /\ x \in OverStage,
              stage' = [stage EXCEPT ![t] = x]
       PROVE  Moved
  BY <1>10, StageMoves DEF ServedStage
<1>11. ASSUME NEW t \in Turn, Leave(t)
       PROVE  stage' = [stage EXCEPT ![t] = "ended"]
  BY <1>11 DEF Leave, LeaveReply, LeaveUtterance, CanServeNext, SoloInv,
     TaskIsTracked
<1>12. ASSUME NEW t \in Turn, TaskStep(t) PROVE Moved
  <2> USE DEF OverStage, ServedStage, WorkingStage, Resumes
  <2>1. CASE TaskFinished(t) \/ TaskFailed(t) \/ TaskCancelled(t)
    <3>1. stage' = [stage EXCEPT ![t] = "ended"]
      BY <2>1, <1>11 DEF TaskFinished, TaskFailed, TaskCancelled
    <3>2. stage[t] \in LiveStage
      BY <2>1 DEF TaskFinished, TaskFailed, TaskCancelled, LiveStage,
         Cancellable
    <3>3. QED BY <3>1, <3>2, <1>10 DEF LiveStage
  <2>2. CASE TaskStarted(t) \/ Transcribed(t) \/ Routed(t)
    <3>1. \E x \in ServedStage : stage' = [stage EXCEPT ![t] = x]
      BY <2>2 DEF TaskStarted, Transcribed, Routed
    <3>2. stage[t] \in WorkingStage
      BY <2>2 DEF TaskStarted, Transcribed, Routed
    <3>3. QED BY <3>1, <3>2, <1>10
  <2>3. CASE TranscribedEmpty(t) \/ Responded(t)
    <3>1. \E x \in OverStage : stage' = [stage EXCEPT ![t] = x]
      BY <2>3 DEF TranscribedEmpty, Responded
    <3>2. stage[t] \in WorkingStage
      BY <2>3 DEF TranscribedEmpty, Responded
    <3>3. QED BY <3>1, <3>2, <1>10
  <2>4. CASE Reported(t) \/ HandoffDone(t)
    <3>1. \E x \in OverStage : stage' = [stage EXCEPT ![t] = x]
      BY <2>4 DEF Reported, HandoffDone
    <3>2. stage[t] \in OverStage
      BY <2>4 DEF Reported, HandoffDone
    <3>3. QED BY <3>1, <3>2, <1>10
  <2>5. QED BY <1>12, <2>1, <2>2, <2>3, <2>4 DEF TaskStep
<1>20. QED
  BY <1>1, <1>3, <1>5, <1>6, <1>7, <1>8, <1>12, <1>un
  DEF Next, Receive, HandlerStep, vars, taskVars

LEMMA ServingIs == SoloInv => ServingIsExact
<1> SUFFICES ASSUME SoloInv PROVE ServingIsExact
  OBVIOUS
<1> USE DEF ServingIsExact
<1>1. \A t \in Turn : Served(t) => t = activeTurn
  BY DEF SoloInv, TaskOwns, HandlerOwns, Served
<1>2. \A t, u \in Turn : Served(t) /\ Served(u) => t = u
  BY <1>1
<1>3. CASE \E t \in Turn : Served(t)
  <2> DEFINE s == CHOOSE t \in Turn : Served(t)
  <2>1. s \in Turn /\ Served(s)
    BY <1>3
  <2>2. Serving = s
    BY <1>3 DEF Serving
  <2> HIDE DEF s
  <2>3. QED BY <1>2, <2>1, <2>2
<1>4. CASE ~\E t \in Turn : Served(t)
  BY <1>4 DEF Serving
<1>5. QED BY <1>3, <1>4

LEMMA ServingIsNext == SoloInv' => ServingIsExact'
  BY ServingIs, PTL

LEMMA StepTakesTurns ==
  ASSUME SoloInv, SoloInv', Moved
  PROVE  TT!Next \/ UNCHANGED <<Serving, Over>>
<1>1. ServingIsExact /\ ServingIsExact'
  BY ServingIs, ServingIsNext
<1>2. \A t \in Turn : Served(t) <=> stage[t] \in ServedStage
  BY DEF Served, Working, ServedStage
<1>3. \A t \in Turn : Served(t)' <=> stage'[t] \in ServedStage
  BY DEF Served, Working, ServedStage
<1>4. \A t \in Turn : t # NoTurn
  BY DEF Turn, NoTurn
<1>5. Over = {t \in Turn : stage[t] \in OverStage}
      /\ Over' = {t \in Turn : stage'[t] \in OverStage}
  BY DEF Over, OverStage
<1>6. ServedStage \cap OverStage = {} /\ "none" \notin ServedStage \cup OverStage
      /\ {"created", "inline"} \subseteq ServedStage
  BY DEF ServedStage, OverStage, WorkingStage
\* Who is served follows from which turns are served.
<1>7. ASSUME \A t \in Turn : Served(t)' <=> Served(t)
      PROVE  Serving' = Serving
  BY <1>1, <1>4, <1>7 DEF ServingIsExact
<1>8. CASE stage' = stage
  <2>1. \A t \in Turn : Served(t)' <=> Served(t)
    BY <1>2, <1>3, <1>8
  <2>2. Over' = Over
    BY <1>5, <1>8
  <2>3. QED BY <2>1, <2>2, <1>7
<1>9. ASSUME NEW t \in Turn, \A u \in Turn \ {t} : stage'[u] = stage[u],
             stage[t] = "none", stage'[t] \in {"created", "inline"},
             \A u \in Turn : ~Served(u)
      PROVE  TT!Take(t)
  <2>1. Serving = NoTurn
    BY <1>1, <1>9 DEF ServingIsExact
  <2>2. Serving' = t
    BY <1>1, <1>3, <1>6, <1>9 DEF ServingIsExact
  <2>3. Over' = Over /\ t \notin Over
    BY <1>5, <1>6, <1>9
  <2>4. QED BY <2>1, <2>2, <2>3 DEF TT!Take
<1>10. ASSUME NEW t \in Turn, \A u \in Turn \ {t} : stage'[u] = stage[u],
              stage[t] \in ServedStage, stage'[t] \in OverStage
       PROVE  TT!Release
  <2>1. Serving = t
    BY <1>1, <1>2, <1>10 DEF ServingIsExact
  <2>2. \A u \in Turn : ~Served(u)'
    <3>1. ~Served(t)'
      BY <1>3, <1>6, <1>10
    <3>2. ASSUME NEW u \in Turn \ {t}, Served(u)' PROVE FALSE
      <4>1. Served(u)
        BY <3>2, <1>2, <1>3, <1>10
      <4>2. QED BY <4>1, <2>1, <1>1 DEF ServingIsExact
    <3>3. QED BY <3>1, <3>2
  <2>3. Serving' = NoTurn
    BY <2>2, <1>1 DEF ServingIsExact
  <2>4. Over' = Over \cup {t}
    BY <1>5, <1>10
  <2>5. QED BY <2>1, <2>3, <2>4, <1>4 DEF TT!Release
<1>11. ASSUME NEW t \in Turn, \A u \in Turn \ {t} : stage'[u] = stage[u],
              \/ stage[t] \in ServedStage /\ stage'[t] \in ServedStage
              \/ stage[t] \in OverStage /\ stage'[t] \in OverStage
       PROVE  UNCHANGED <<Serving, Over>>
  <2>1. \A u \in Turn : Served(u)' <=> Served(u)
    BY <1>2, <1>3, <1>6, <1>11
  <2>2. Over' = Over
    BY <1>5, <1>6, <1>11
  <2>3. QED BY <2>1, <2>2, <1>7
<1>12. QED
  BY <1>8, <1>9, <1>10, <1>11 DEF Moved, TT!Next

LEMMA InitTakesTurns == Init => TT!Init
<1> SUFFICES ASSUME Init PROVE TT!Init
  OBVIOUS
<1>1. \A t \in Turn : ~Served(t) /\ stage[t] = "none"
  BY DEF Init, Served, Working, WorkingStage
<1>2. Serving = NoTurn /\ Over = {}
  BY <1>1 DEF Serving, Over
<1>3. QED BY <1>2 DEF TT!Init

\* With one socket and send_now, the worker's steps, seen as work that begins
\* and ends, are those of TurnTaking: no turn is taken up before the one being
\* answered is given up, and none that was given up is taken up again.
THEOREM SoloTakesTurns ==
  ASSUME OneSocket, SendNowOnly
  PROVE  Spec => TakesTurns
<1>1. SoloInv /\ SoloInv' /\ [Next]_vars =>
        [TT!Next]_<<Serving, Over>>
  BY StepMoves, StepTakesTurns
<1>2. QED
  BY <1>1, InitTakesTurns, SoloCorrect, PTL DEF Spec, TakesTurns, TT!Spec

-----------------------------------------------------------------------------
(* A configured worker is a worker.                                        *)

\* A step of a session with settings is a step of a session without, or none.
LEMMA StepsAreTheWorkers == ConfiguredNext => [Next]_vars
<1> SUFFICES ASSUME ConfiguredNext PROVE [Next]_vars OBVIOUS
<1>1. ASSUME NEW c \in Connection, ConfiguredReceive(c) PROVE [Next]_vars
  <2>1. CASE ReceiveStart(c) BY <2>1 DEF ReceiveStart, Receive, Next
  <2>2. CASE ReceiveConfig(c) BY <2>2 DEF ReceiveConfig, Receive, Next
  <2>3. CASE SelectEngine(c) BY <2>3 DEF SelectEngine
  <2>4. CASE HearAudio(c) BY <2>4 DEF HearAudio, Receive, Next
  <2>5. CASE ReceiveElsewhere(c) BY <2>5 DEF ReceiveElsewhere, Receive, Next
  <2>6. QED BY <1>1, <2>1, <2>2, <2>3, <2>4, <2>5 DEF ConfiguredReceive
<1>2. ASSUME NEW c \in Connection, ConfiguredHandlerStep(c) PROVE [Next]_vars
  BY <1>2 DEF ConfiguredHandlerStep, HandlerElsewhere, HandlerStep, Next
<1>3. ASSUME NEW t \in Turn, ConfiguredTaskStep(t) PROVE [Next]_vars
  <2>1. CASE AskRouter(t) BY <2>1 DEF AskRouter
  <2>2. CASE RouteDecided(t)
    BY <2>2 DEF RouteDecided, TaskStep, HandlerStep, Next
  <2>3. CASE AskModel(t) BY <2>3 DEF AskModel
  <2>4. CASE PromptModel(t) BY <2>4 DEF PromptModel
  <2>5. CASE SpeakAnswer(t) BY <2>5 DEF SpeakAnswer
  <2>6. CASE AnswerOver(t) BY <2>6 DEF AnswerOver, TaskStep, Next
  <2>7. CASE TaskElsewhere(t) BY <2>7 DEF TaskElsewhere, TaskStep, Next
  <2>8. QED BY <1>3, <2>1, <2>2, <2>3, <2>4, <2>5, <2>6, <2>7
            DEF ConfiguredTaskStep
<1>4. QED BY <1>1, <1>2, <1>3 DEF ConfiguredNext

\* Whatever clients configure, and whenever: the worker goes on as SessionWorker
\* says it does, and what holds of that one holds of this one.
THEOREM ConfiguredIsAWorker == ConfiguredSpec => Spec
<1>1. ConfiguredInit => Init BY DEF ConfiguredInit
<1>2. [ConfiguredNext]_allVars => [Next]_vars
  BY StepsAreTheWorkers DEF allVars
<1>3. QED BY <1>1, <1>2, PTL DEF ConfiguredSpec, Spec

\* No utterance or request is lost while settings are changed, refused or
\* cannot be read.
THEOREM ConfiguredInputsAreKept == ConfiguredSpec => []NoInputIsLost
BY ConfiguredIsAWorker, InputsAreKept

\* Utterances keep their order whatever settings are sent in between, as long as
\* these leave the queue's policy at "enqueue".
THEOREM ConfiguredKeepsOrder ==
  ASSUME OnlySpeech
  PROVE  ConfiguredSpec /\ [](policy = "enqueue") => SpokenOrder
<1>1. Spec /\ [](policy = "enqueue") => SpokenOrder BY UtterancesKeepTheirOrder
<1> QED BY <1>1, ConfiguredIsAWorker

-----------------------------------------------------------------------------
(* What was said last.                                                     *)

\* Mentioning and LastSaid, for any list of updates.
Mentions(list, s, f) ==
  {k \in DOMAIN list : /\ s \in DOMAIN list[k]
                       /\ (f \in DOMAIN list[k][s] \/ ~IsObject(list[k][s]))}
IsLast(list, s, f, k) ==
  k \in Mentions(list, s, f) /\ \A i \in Mentions(list, s, f) : i <= k
SaysLast(list, config, s, f) ==
  \/ Mentions(list, s, f) = {} /\ Field(config, s, f) = Absent
  \/ \E k : IsLast(list, s, f, k) /\ Field(config, s, f) = Field(list[k], s, f)
Says(list, config) == \A s, f : f # "null" => SaysLast(list, config, s, f)

\* What merging an update does to one field: the update has the last word if it
\* mentions the field, and none otherwise.
LEMMA MergedField ==
  ASSUME NEW config, NEW u, NEW s, NEW f, f # "null"
  PROVE  Field(Merged(config, u), s, f) =
           IF s \in DOMAIN u /\ (f \in DOMAIN u[s] \/ ~IsObject(u[s]))
             THEN Field(u, s, f) ELSE Field(config, s, f)
<1> DEFINE m == Merged(config, u)
<1>1. DOMAIN m = DOMAIN config \cup DOMAIN u BY DEF Merged
<1>2. CASE s \notin DOMAIN u
  <2>1. s \in DOMAIN config => m[s] = config[s] BY <1>2 DEF Merged
  <2>2. QED BY <1>1, <1>2, <2>1 DEF Field
<1>3. CASE s \in DOMAIN u /\ s \in DOMAIN config
             /\ IsObject(config[s]) /\ IsObject(u[s])
  <2>1. m[s] = [g \in DOMAIN config[s] \cup DOMAIN u[s] |->
                  IF g \in DOMAIN u[s] THEN u[s][g] ELSE config[s][g]]
    BY <1>3 DEF Merged
  <2>2. DOMAIN m[s] = DOMAIN config[s] \cup DOMAIN u[s] BY <2>1
  <2>3. f \in DOMAIN u[s] => m[s][f] = u[s][f] BY <2>1
  <2>4. f \in DOMAIN config[s] /\ f \notin DOMAIN u[s] => m[s][f] = config[s][f]
    BY <2>1
  <2>5. CASE f \in DOMAIN u[s] BY <1>1, <1>3, <2>2, <2>3, <2>5 DEF Field
  <2>6. CASE f \notin DOMAIN u[s] BY <1>1, <1>3, <2>2, <2>4, <2>6 DEF Field
  <2>7. QED BY <2>5, <2>6
<1>4. CASE s \in DOMAIN u /\ ~(s \in DOMAIN config
             /\ IsObject(config[s]) /\ IsObject(u[s]))
  <2>1. m[s] = u[s] BY <1>4 DEF Merged
  <2>2. Field(m, s, f) = Field(u, s, f) BY <1>1, <1>4, <2>1 DEF Field
  <2>3. CASE f \in DOMAIN u[s] \/ ~IsObject(u[s]) BY <1>4, <2>2, <2>3
  <2>4. CASE f \notin DOMAIN u[s] /\ IsObject(u[s])
    <3>1. Field(u, s, f) = Absent BY <2>4 DEF Field
    <3>2. s \in DOMAIN config => ~IsObject(config[s]) BY <1>4, <2>4
    <3>3. Field(config, s, f) = Absent BY <3>2 DEF Field, IsObject
    <3>4. QED BY <1>4, <2>2, <2>4, <3>1, <3>3
  <2>5. QED BY <2>3, <2>4
<1>5. QED BY <1>2, <1>3, <1>4

\* One update more.
LEMMA AppendedSays ==
  ASSUME NEW S, NEW list \in Seq(S), NEW u \in S, NEW config, Says(list, config)
  PROVE  Says(Append(list, u), Merged(config, u))
<1> DEFINE more == Append(list, u)
           n == Len(list) + 1
           m == Merged(config, u)
<1>1. /\ DOMAIN list = 1..Len(list) /\ Len(list) \in Nat
      /\ DOMAIN more = 1..n /\ more[n] = u
      /\ \A k \in DOMAIN list : more[k] = list[k]
  OBVIOUS
<1> SUFFICES ASSUME NEW s, NEW f, f # "null" PROVE SaysLast(more, m, s, f)
  BY DEF Says
<1> DEFINE old == Mentions(list, s, f)
           new == s \in DOMAIN u /\ (f \in DOMAIN u[s] \/ ~IsObject(u[s]))
<1>2. \A k \in DOMAIN list : k \in Mentions(more, s, f) <=> k \in old
  BY <1>1 DEF Mentions
<1>3. n \in Mentions(more, s, f) <=> new BY <1>1 DEF Mentions
<1>4. \A k \in Mentions(more, s, f) : k \in 1..n BY <1>1 DEF Mentions
<1>5. \A k \in old : k \in DOMAIN list BY DEF Mentions
<1>6. SaysLast(list, config, s, f) BY DEF Says
<1>7. CASE new
  <2>1. IsLast(more, s, f, n) BY <1>1, <1>3, <1>4, <1>7 DEF IsLast
  <2>2. Field(m, s, f) = Field(more[n], s, f) BY <1>1, <1>7, MergedField
  <2>3. QED BY <2>1, <2>2 DEF SaysLast
<1>8. CASE ~new
  <2>1. Field(m, s, f) = Field(config, s, f) BY <1>8, MergedField
  <2>2. Mentions(more, s, f) = old BY <1>1, <1>2, <1>3, <1>4, <1>5, <1>8
  <2>3. CASE old = {}
    BY <1>6, <2>1, <2>2, <2>3 DEF SaysLast, IsLast
  <2>4. CASE old # {}
    <3>1. PICK k : IsLast(list, s, f, k) /\ Field(config, s, f) = Field(list[k], s, f)
      BY <1>6, <2>4 DEF SaysLast
    <3>2. IsLast(more, s, f, k) BY <2>2, <3>1 DEF IsLast
    <3>3. more[k] = list[k] BY <1>1, <1>5, <3>1 DEF IsLast
    <3>4. QED BY <2>1, <3>1, <3>2, <3>3 DEF SaysLast
  <2>5. QED BY <2>3, <2>4
<1>9. QED BY <1>7, <1>8

\* Before the first update the session has what it was created with.
LEMMA FirstSays == ASSUME NEW config PROVE Says(<<config>>, config)
<1> SUFFICES ASSUME NEW s, NEW f, f # "null"
             PROVE SaysLast(<<config>>, config, s, f)
  BY DEF Says
<1>1. Mentions(<<config>>, s, f) \subseteq {1} BY DEF Mentions
<1>2. CASE 1 \in Mentions(<<config>>, s, f)
  <2>1. IsLast(<<config>>, s, f, 1) BY <1>1, <1>2 DEF IsLast
  <2>2. QED BY <2>1 DEF SaysLast
<1>3. CASE 1 \notin Mentions(<<config>>, s, f)
  <2>1. Mentions(<<config>>, s, f) = {} BY <1>1, <1>3
  <2>2. Field(config, s, f) = Absent BY <1>3 DEF Mentions, Field
  <2>3. QED BY <2>1, <2>2 DEF SaysLast
<1>4. QED BY <1>2, <1>3

LEMMA SaidHolds ==
  ASSUME NEW S, told \in Seq(S), Says(told, settings) PROVE LastWordHolds
<1> SUFFICES ASSUME NEW k \in DOMAIN told, NEW s \in DOMAIN told[k],
                    NEW f \in DOMAIN told[k][s], f # "null"
             PROVE Field(settings, s, f) = LastSaid(s, f)
  BY DEF LastWordHolds
<1>1. Mentioning(s, f) = Mentions(told, s, f) BY DEF Mentioning, Mentions
<1>2. k \in Mentions(told, s, f) BY DEF Mentions
<1>3. PICK i : IsLast(told, s, f, i) /\ Field(settings, s, f) = Field(told[i], s, f)
  BY <1>2 DEF Says, SaysLast
<1>4. \A j : IsLast(told, s, f, j) => j = i
  <2>1. Mentions(told, s, f) \subseteq Nat BY DEF Mentions
  <2>2. QED BY <1>3, <2>1 DEF IsLast
<1>5. LastSaid(s, f) = Field(told[i], s, f)
  <2> DEFINE j == CHOOSE j \in Mentioning(s, f) :
                    \A x \in Mentioning(s, f) : x <= j
  <2>1. IsLast(told, s, f, j) BY <1>1, <1>3 DEF IsLast
  <2>2. j = i BY <1>4, <2>1
  <2>3. LastSaid(s, f) = Field(told[j], s, f) BY <1>1, <1>2 DEF LastSaid
  <2>4. QED BY <2>2, <2>3
<1>6. QED BY <1>3, <1>5

-----------------------------------------------------------------------------
(* The work on the turns, and the settings it reads.                       *)

Locals == {"at", "targets", "decision", "request", "prompt", "voice"}
AnswersTyped ==
  DOMAIN answer = Turn /\ \A t \in Turn : DOMAIN answer[t] = Locals

\* Follows, for any state of the settings.
FollowsIn(a, inForce, engine, config, meta) ==
  /\ a.targets = TargetsFor(inForce, engine)
  /\ a.at # "routing" => a.decision \in Decisions(a.targets)
  /\ a.at \in {"asking", "prompted", "speaking"} =>
       a.request = Request(a.decision, inForce)
  /\ a.at = "speaking" => a.voice = Voice(config, meta)

LEMMA FollowsNow ==
  /\ \A a : Follows(a) <=> FollowsIn(a, InForce, selected, settings, metadata)
  /\ \A t \in Turn :
       t \in Reading <=> answer[t].at \notin {"waiting", "silent"}
BY DEF Follows, FollowsIn, Reading

LEMMA BlankFields ==
  /\ DOMAIN Blank = Locals
  /\ Blank.at = "waiting"
  /\ Blank.prompt.text.tools = {}
BY DEF Blank, Locals, NoPrompt

\* One turn moves on to a record, and the others stay.
LEMMA GoesTo ==
  ASSUME AnswersTyped, NEW t \in Turn, NEW from, NEW r, Goes(t, from, r),
         DOMAIN r = Locals
  PROVE  /\ AnswersTyped'
         /\ answer[t].at = from
         /\ answer'[t] = r
         /\ \A u \in Turn \ {t} : answer'[u] = answer[u]
<1>1. answer[t].at = from /\ answer' = [answer EXCEPT ![t] = r] BY DEF Goes
<1>2. DOMAIN answer' = Turn BY <1>1 DEF AnswersTyped
<1>3. answer'[t] = r BY <1>1 DEF AnswersTyped
<1>4. \A u \in Turn \ {t} : answer'[u] = answer[u] BY <1>1 DEF AnswersTyped
<1>5. QED BY <1>1, <1>2, <1>3, <1>4 DEF AnswersTyped

\* The steps in which the settings change, and those in which they are read.
Configures(c) == ReceiveStart(c) \/ ReceiveConfig(c) \/ SelectEngine(c)

\* What the steps have in common.
LEMMA ConfiguringSteps ==
  ASSUME NEW c \in Connection, Configures(c)
  PROVE  /\ UNCHANGED <<runtime, answer, permitted>>
         /\ Remember
         /\ (\E u \in Updates : Tell(u)) \/ UNCHANGED <<settings, told>>
<1>1. CASE ReceiveStart(c) BY <1>1 DEF ReceiveStart
<1>2. CASE ReceiveConfig(c) BY <1>2 DEF ReceiveConfig
<1>3. CASE SelectEngine(c) BY <1>3 DEF SelectEngine
<1>4. QED BY <1>1, <1>2, <1>3 DEF Configures

LEMMA StepsOfTheSession ==
  ASSUME [ConfiguredNext]_allVars
  PROVE  \/ \E c \in Connection : Configures(c) \/ HearAudio(c)
         \/ Beside
         \/ \E t \in Turn : \/ AskRouter(t) \/ RouteDecided(t) \/ AskModel(t)
                            \/ PromptModel(t) \/ SpeakAnswer(t) \/ AnswerOver(t)
         \/ UNCHANGED allVars
BY DEF ConfiguredNext, ConfiguredReceive, ConfiguredHandlerStep,
       ConfiguredTaskStep, Configures

-----------------------------------------------------------------------------
(* What was said last holds.                                               *)

SaidInv == told \in Seq(Created \cup Updates) /\ Says(told, settings)

LEMMA SaidInvStep == SaidInv /\ [ConfiguredNext]_allVars => SaidInv'
<1> SUFFICES ASSUME SaidInv, [ConfiguredNext]_allVars PROVE SaidInv' OBVIOUS
<1>1. CASE \E u \in Updates : Tell(u)
  <2>1. PICK u \in Updates : Tell(u) BY <1>1
  <2>2. told' = Append(told, u) /\ settings' = Merged(settings, u)
    BY <2>1 DEF Tell
  <2>3. u \in Created \cup Updates BY <2>1
  <2>4. Says(Append(told, u), Merged(settings, u))
    BY <2>3, AppendedSays DEF SaidInv
  <2>5. told' \in Seq(Created \cup Updates) BY <2>2, <2>3 DEF SaidInv
  <2>6. QED BY <2>2, <2>4, <2>5 DEF SaidInv
<1>2. CASE UNCHANGED <<settings, told>>
  BY <1>2 DEF SaidInv
<1>3. ASSUME NEW c \in Connection, Configures(c) \/ HearAudio(c)
      PROVE (\E u \in Updates : Tell(u)) \/ UNCHANGED <<settings, told>>
  BY <1>3, ConfiguringSteps DEF HearAudio, historyVars
<1>4. ASSUME NEW t \in Turn,
             \/ AskRouter(t) \/ RouteDecided(t) \/ AskModel(t)
             \/ PromptModel(t) \/ SpeakAnswer(t) \/ AnswerOver(t)
      PROVE UNCHANGED <<settings, told>>
  BY <1>4 DEF AskRouter, RouteDecided, AskModel, PromptModel, SpeakAnswer,
              AnswerOver, configVars, historyVars
<1>5. Beside => UNCHANGED <<settings, told>> BY DEF Beside, configVars
<1>6. UNCHANGED allVars => UNCHANGED <<settings, told>>
  BY DEF allVars, configVars, historyVars
<1>7. QED BY <1>1, <1>2, <1>3, <1>4, <1>5, <1>6, StepsOfTheSession

-----------------------------------------------------------------------------
(* An answer follows one configuration.                                    *)

FollowInv == AnswersTyped /\ AnswersFollow

\* One turn's work goes on, under the settings there are.
LEMMA OneFollows ==
  ASSUME FollowInv, NEW t \in Turn, NEW from, NEW r, Goes(t, from, r),
         DOMAIN r = Locals, overtaken' \subseteq overtaken,
         overtaken \subseteq overtaken' \cup {t},
         UNCHANGED <<runtime, settings, selected, metadata>>,
         \/ r.at \in {"waiting", "silent"}
         \/ t \in overtaken'
         \/ FollowsIn(r, InForce, selected, settings, metadata)
  PROVE  FollowInv'
<1>1. /\ AnswersTyped'
      /\ answer'[t] = r
      /\ \A u \in Turn \ {t} : answer'[u] = answer[u]
  BY GoesTo DEF FollowInv
<1>2. ASSUME NEW u \in (Reading \ overtaken)' PROVE Follows(answer[u])'
  <2>1. u \in Turn /\ answer'[u].at \notin {"waiting", "silent"}
        /\ u \notin overtaken'
    BY <1>2 DEF Reading
  <2>2. CASE u = t
    <3>1. FollowsIn(answer'[u], InForce, selected, settings, metadata)
      BY <1>1, <2>1, <2>2
    <3>2. QED BY <3>1 DEF FollowsIn, Follows, InForce
  <2>3. CASE u # t
    <3>1. answer'[u] = answer[u] BY <1>1, <2>1, <2>3
    <3>2. u \in Reading \ overtaken BY <2>1, <2>3, <3>1 DEF Reading
    <3>3. Follows(answer[u]) BY <3>2 DEF FollowInv, AnswersFollow
    <3>4. QED BY <3>1, <3>3 DEF Follows, InForce
  <2>4. QED BY <2>2, <2>3
<1>3. QED BY <1>1, <1>2 DEF FollowInv, AnswersFollow

\* A change of the settings overtakes whoever is reading them.
LEMMA ConfigureFollows ==
  ASSUME FollowInv, Remember, UNCHANGED <<runtime, answer>>
  PROVE  FollowInv'
<1>1. AnswersTyped' BY DEF FollowInv, AnswersTyped
<1>2. Reading' = Reading BY DEF Reading
<1>3. CASE <<settings, selected, metadata>>' # <<settings, selected, metadata>>
  <2>1. Reading \subseteq overtaken' BY <1>3 DEF Remember
  <2>2. QED BY <1>1, <1>2, <2>1 DEF FollowInv, AnswersFollow
<1>4. CASE <<settings, selected, metadata>>' = <<settings, selected, metadata>>
  <2>1. /\ settings' = settings /\ selected' = selected
        /\ metadata' = metadata
    BY <1>4
  <2>2. overtaken' = overtaken BY <1>4 DEF Remember
  <2>3. ASSUME NEW u \in (Reading \ overtaken)' PROVE Follows(answer[u])'
    <3>1. Follows(answer[u]) BY <1>2, <2>2, <2>3 DEF FollowInv, AnswersFollow
    <3>2. QED BY <2>1, <3>1 DEF Follows, InForce
  <2>4. QED BY <1>1, <2>3 DEF FollowInv, AnswersFollow
<1>5. QED BY <1>3, <1>4

LEMMA BesideFollows == ASSUME FollowInv, Beside PROVE FollowInv'
<1> DEFINE Left(t) == stage'[t] \in {"tail", "handoff", "ended"}
<1>1. /\ answer' = [t \in Turn |-> IF Left(t) THEN Blank ELSE answer[t]]
      /\ overtaken' = {t \in overtaken : ~Left(t)}
      /\ settings' = settings /\ selected' = selected
      /\ metadata' = metadata /\ runtime' = runtime
  BY DEF Beside, configVars
<1> HIDE DEF Left
<1>2. AnswersTyped' BY <1>1, BlankFields DEF FollowInv, AnswersTyped
<1>3. ASSUME NEW u \in (Reading \ overtaken)' PROVE Follows(answer[u])'
  <2>1. u \in Turn /\ answer'[u].at \notin {"waiting", "silent"}
        /\ u \notin overtaken'
    BY <1>3 DEF Reading
  <2>2. ~Left(u) BY <1>1, <2>1, BlankFields
  <2>3. answer'[u] = answer[u] BY <1>1, <2>1, <2>2
  <2>4. u \in Reading \ overtaken BY <1>1, <2>1, <2>2, <2>3 DEF Reading
  <2>5. Follows(answer[u]) BY <2>4 DEF FollowInv, AnswersFollow
  <2>6. QED BY <1>1, <2>3, <2>5 DEF Follows, InForce
<1>4. QED BY <1>2, <1>3 DEF FollowInv, AnswersFollow

\* Whoever has read part of the settings and was not overtaken has followed.
LEMMA HasFollowed ==
  ASSUME FollowInv, NEW t \in Turn, t \notin overtaken,
         answer[t].at \notin {"waiting", "silent"}
  PROVE  FollowsIn(answer[t], InForce, selected, settings, metadata)
BY DEF FollowInv, AnswersFollow, Reading, Follows, FollowsIn

LEMMA TurnFollows ==
  ASSUME FollowInv, NEW t \in Turn,
         \/ AskRouter(t) \/ RouteDecided(t) \/ AskModel(t)
         \/ PromptModel(t) \/ SpeakAnswer(t) \/ AnswerOver(t)
  PROVE  FollowInv'
<1> DEFINE a == answer[t]
           F(r) == FollowsIn(r, InForce, selected, settings, metadata)
<1>1. DOMAIN a = Locals BY DEF FollowInv, AnswersTyped
<1>2. t \notin overtaken /\ a.at \notin {"waiting", "silent"} => F(a)
  BY HasFollowed
<1>3. ASSUME NEW from, NEW r, Goes(t, from, r), DOMAIN r = Locals,
             UNCHANGED <<configVars, overtaken>>,
             r.at = "silent" \/ t \in overtaken \/ F(r)
      PROVE FollowInv'
  BY <1>3, OneFollows DEF configVars
<1>4. CASE AskRouter(t)
  <2> DEFINE r == [a EXCEPT !.at = "routing",
                            !.targets = TargetsFor(InForce, selected)]
  <2>1. Goes(t, "waiting", r) /\ UNCHANGED <<configVars, overtaken>>
    BY <1>4 DEF AskRouter, historyVars
  <2>2. /\ DOMAIN r = Locals /\ r.at = "routing"
        /\ r.targets = TargetsFor(InForce, selected)
    BY <1>1 DEF Locals
  <2>3. F(r) BY <2>2 DEF FollowsIn
  <2> HIDE DEF r, F
  <2>4. QED BY <1>3, <2>1, <2>2, <2>3
<1>5. CASE RouteDecided(t)
  <2>1. PICK d \in Decisions(a.targets) :
          Goes(t, "routing", [a EXCEPT !.at = "routed", !.decision = d])
    BY <1>5 DEF RouteDecided
  <2> DEFINE r == [a EXCEPT !.at = "routed", !.decision = d]
  <2>2. UNCHANGED <<configVars, overtaken>>
    BY <1>5 DEF RouteDecided, historyVars
  <2>3. /\ DOMAIN r = Locals /\ r.at = "routed" /\ r.decision = d
        /\ r.targets = a.targets
    BY <1>1 DEF Locals
  <2>4. a.at = "routing" BY <2>1 DEF Goes
  <2>5. F(a) => F(r) BY <2>1, <2>3 DEF FollowsIn
  <2>6. Goes(t, "routing", r) BY <2>1
  <2> HIDE DEF r, F
  <2>7. QED BY <1>2, <1>3, <2>2, <2>3, <2>4, <2>5, <2>6
<1>6. CASE AskModel(t)
  <2>1. UNCHANGED <<configVars, overtaken>> BY <1>6 DEF AskModel, historyVars
  <2>2. CASE Reachable(a.decision, selected)
    <3> DEFINE r == [a EXCEPT !.at = "asking",
                              !.request = Request(a.decision, InForce)]
    <3>1. Goes(t, "routed", r) BY <1>6, <2>2 DEF AskModel
    <3>2. /\ DOMAIN r = Locals /\ r.at = "asking"
          /\ r.request = Request(a.decision, InForce)
          /\ r.targets = a.targets /\ r.decision = a.decision
      BY <1>1 DEF Locals
    <3>3. a.at = "routed" BY <3>1 DEF Goes
    <3>4. F(a) => F(r) BY <3>2, <3>3 DEF FollowsIn
    <3> HIDE DEF r, F
    <3>5. QED BY <1>2, <1>3, <2>1, <3>1, <3>2, <3>3, <3>4
  <2>3. CASE ~Reachable(a.decision, selected)
    <3> DEFINE r == [a EXCEPT !.at = "silent"]
    <3>1. Goes(t, "routed", r) BY <1>6, <2>3 DEF AskModel
    <3>2. DOMAIN r = Locals /\ r.at = "silent" BY <1>1 DEF Locals
    <3> HIDE DEF r, F
    <3>3. QED BY <1>3, <2>1, <3>1, <3>2
  <2>4. QED BY <2>2, <2>3
<1>7. CASE PromptModel(t)
  <2>1. UNCHANGED <<configVars, overtaken>>
    BY <1>7 DEF PromptModel, historyVars
  <2>2. CASE Goes(t, "asking", [a EXCEPT !.at = "silent"])
    <3> DEFINE r == [a EXCEPT !.at = "silent"]
    <3>1. Goes(t, "asking", r) BY <2>2
    <3>2. DOMAIN r = Locals /\ r.at = "silent" BY <1>1 DEF Locals
    <3> HIDE DEF r, F
    <3>3. QED BY <1>3, <2>1, <3>1, <3>2
  <2>3. CASE Goes(t, "asking", [a EXCEPT !.at = "prompted",
                                         !.prompt = Prompt(a.request.llm)])
    <3> DEFINE r == [a EXCEPT !.at = "prompted",
                              !.prompt = Prompt(a.request.llm)]
    <3>1. Goes(t, "asking", r) BY <2>3
    <3>2. /\ DOMAIN r = Locals /\ r.at = "prompted"
          /\ r.targets = a.targets /\ r.decision = a.decision
          /\ r.request = a.request
      BY <1>1 DEF Locals
    <3>3. a.at = "asking" BY <3>1 DEF Goes
    <3>4. F(a) => F(r) BY <3>2, <3>3 DEF FollowsIn
    <3> HIDE DEF r, F
    <3>5. QED BY <1>2, <1>3, <2>1, <3>1, <3>2, <3>3, <3>4
  <2>4. QED BY <1>7, <2>2, <2>3 DEF PromptModel
<1>8. CASE SpeakAnswer(t)
  <2> DEFINE r == [a EXCEPT !.at = "speaking",
                            !.voice = Voice(settings, metadata)]
  <2>1. Goes(t, "prompted", r) /\ UNCHANGED <<configVars, overtaken>>
    BY <1>8 DEF SpeakAnswer, historyVars
  <2>2. /\ DOMAIN r = Locals /\ r.at = "speaking"
        /\ r.voice = Voice(settings, metadata)
        /\ r.targets = a.targets /\ r.decision = a.decision
        /\ r.request = a.request
    BY <1>1 DEF Locals
  <2>3. a.at = "prompted" BY <2>1 DEF Goes
  <2>4. F(a) => F(r) BY <2>2, <2>3 DEF FollowsIn
  <2> HIDE DEF r, F
  <2>5. QED BY <1>2, <1>3, <2>1, <2>2, <2>3, <2>4
<1>9. CASE AnswerOver(t)
  <2>1. /\ Goes(t, a.at, Blank) /\ UNCHANGED configVars
        /\ overtaken' = overtaken \ {t}
    BY <1>9 DEF AnswerOver
  <2>2. overtaken' \subseteq overtaken /\ overtaken \subseteq overtaken' \cup {t}
    BY <2>1
  <2>3. UNCHANGED <<runtime, settings, selected, metadata>>
    BY <2>1 DEF configVars
  <2>4. QED BY <2>1, <2>2, <2>3, BlankFields, OneFollows
<1>10. QED BY <1>4, <1>5, <1>6, <1>7, <1>8, <1>9

LEMMA FollowInvStep == FollowInv /\ [ConfiguredNext]_allVars => FollowInv'
<1> SUFFICES ASSUME FollowInv, [ConfiguredNext]_allVars PROVE FollowInv'
  OBVIOUS
<1>1. ASSUME NEW c \in Connection, Configures(c) PROVE FollowInv'
  BY <1>1, ConfiguringSteps, ConfigureFollows
<1>2. ASSUME UNCHANGED <<runtime, settings, selected, metadata, answer,
                         overtaken>>
      PROVE FollowInv'
  <2>1. /\ settings' = settings /\ selected' = selected /\ answer' = answer
        /\ metadata' = metadata /\ runtime' = runtime /\ overtaken' = overtaken
    BY <1>2
  <2>2. QED
    BY <2>1 DEF FollowInv, AnswersTyped, AnswersFollow, Reading, Follows, InForce
<1>3. ASSUME NEW c \in Connection, HearAudio(c) PROVE FollowInv'
  BY <1>2, <1>3 DEF HearAudio, historyVars
<1>4. CASE UNCHANGED allVars
  BY <1>2, <1>4 DEF allVars, configVars, historyVars
<1>5. QED BY <1>1, <1>3, <1>4, StepsOfTheSession, BesideFollows, TurnFollows

\* What a client sent last is what its session does, from one answer to the
\* next and never half: each setting has the value it was last given, and an
\* answer during which nothing was sent is routed, asked for and spoken as one
\* configuration says.
THEOREM SettingsAlwaysFollowed == ConfiguredSpec => []SettingsAreFollowed
<1>1. ConfiguredInit => SaidInv
  <2> SUFFICES ASSUME ConfiguredInit PROVE SaidInv OBVIOUS
  <2>1. settings \in Created /\ told = <<settings>> BY DEF ConfiguredInit
  <2>2. QED BY <2>1, FirstSays DEF SaidInv
<1>2. ConfiguredInit => FollowInv
  BY BlankFields
     DEF ConfiguredInit, FollowInv, AnswersTyped, AnswersFollow, Reading
<1>3. SaidInv /\ FollowInv => SettingsAreFollowed
  BY SaidHolds DEF SaidInv, FollowInv, SettingsAreFollowed
<1>4. QED BY <1>1, <1>2, <1>3, SaidInvStep, FollowInvStep, PTL
          DEF ConfiguredSpec

-----------------------------------------------------------------------------
(* The tools the model is told of are those it is allowed.                 *)

\* The tools in force, and what an OpenCode session is allowed for them.
ToolsNow    == InForce.llm.tools
AllowedFor(tools) == Permissions(OfferedTools(tools))

\* The session's tools; those of a request under way; those in a prompt.
SessionHonest == permitted # NoSession => permitted = AllowedFor(ToolsNow)
RequestHonest(a) == a.at = "asking" => a.request.llm.tools = ToolsNow
PromptHonest(a) ==
  \/ a.prompt.text.tools = {}
  \/ permitted # NoSession /\ a.prompt.text.tools \subseteq permitted

HonestInv ==
  /\ AnswersTyped
  /\ retooled \in BOOLEAN
  /\ ~retooled =>
       /\ SessionHonest
       /\ \A t \in Turn : RequestHonest(answer[t]) /\ PromptHonest(answer[t])

LEMMA AllowedIsASession == ASSUME NEW tools PROVE AllowedFor(tools) # NoSession
<1>1. "websearch" \in AllowedFor(tools)
  BY DEF AllowedFor, Permissions, OfferedTools, DefaultTools
<1>2. "websearch" \notin NoSession BY DEF NoSession
<1>3. QED BY <1>1, <1>2

\* A prompt names the tools that are allowed for its request, or none.
LEMMA PromptNames ==
  ASSUME NEW llm
  PROVE  Prompt(llm).text.tools \in {{}, AllowedFor(llm.tools)}
<1>1. PromptText(llm).tools \in {{}, OfferedTools(llm.tools)}
  BY DEF PromptText, SystemPrompt
<1>2. QED BY <1>1 DEF Prompt, AllowedFor, Permissions

LEMMA ConfigureHonest ==
  ASSUME HonestInv, Remember, UNCHANGED <<runtime, answer, permitted>>
  PROVE  HonestInv'
<1>1. retooled' = (retooled \/ (Requested /\ InForce'.llm.tools # InForce.llm.tools))
  BY DEF Remember
<1>2. retooled' \in BOOLEAN BY <1>1 DEF HonestInv
<1>3. AnswersTyped' BY DEF HonestInv, AnswersTyped
<1>4. ASSUME ~retooled'
      PROVE  /\ SessionHonest'
             /\ \A t \in Turn : RequestHonest(answer[t])' /\ PromptHonest(answer[t])'
  <2>1. /\ ~retooled /\ (~Requested \/ InForce'.llm.tools = InForce.llm.tools)
        /\ answer' = answer /\ permitted' = permitted
    BY <1>1, <1>4
  <2>2. /\ SessionHonest
        /\ \A t \in Turn : RequestHonest(answer[t]) /\ PromptHonest(answer[t])
    BY <2>1 DEF HonestInv
  <2>3. \A t \in Turn : PromptHonest(answer[t])'
    BY <2>1, <2>2 DEF PromptHonest
  <2>4. CASE ~Requested
    BY <2>1, <2>3, <2>4 DEF Requested, SessionHonest, RequestHonest
  <2>5. CASE InForce'.llm.tools = InForce.llm.tools
    BY <2>1, <2>2, <2>3, <2>5 DEF SessionHonest, RequestHonest, ToolsNow
  <2>6. QED BY <2>1, <2>4, <2>5
<1>5. QED BY <1>2, <1>3, <1>4 DEF HonestInv

\* Work goes on under settings that stay, by one turn or by many at once.
LEMMA KeptHonest ==
  ASSUME HonestInv, AnswersTyped',
         UNCHANGED <<runtime, settings, retooled>>,
         \/ permitted' = permitted
         \/ permitted = NoSession /\ permitted' = AllowedFor(ToolsNow),
         ~retooled => \A t \in Turn : \/ answer'[t] = answer[t]
                                      \/ /\ RequestHonest(answer'[t])
                                         /\ PromptHonest(answer[t])'
  PROVE  HonestInv'
<1>1. /\ retooled' = retooled /\ ToolsNow' = ToolsNow
  BY DEF ToolsNow, InForce
<1>2. ASSUME ~retooled'
      PROVE  /\ SessionHonest'
             /\ \A t \in Turn : RequestHonest(answer[t])' /\ PromptHonest(answer[t])'
  <2>1. /\ SessionHonest
        /\ \A t \in Turn : RequestHonest(answer[t]) /\ PromptHonest(answer[t])
    BY <1>1, <1>2 DEF HonestInv
  <2>2. SessionHonest' BY <1>1, <2>1 DEF SessionHonest
  <2>3. ASSUME NEW t \in Turn PROVE RequestHonest(answer[t])'
    BY <1>1, <1>2, <2>1 DEF RequestHonest
  <2>4. ASSUME NEW t \in Turn PROVE PromptHonest(answer[t])'
    BY <1>1, <1>2, <2>1 DEF PromptHonest
  <2>5. QED BY <2>2, <2>3, <2>4
<1>3. QED BY <1>1, <1>2 DEF HonestInv

LEMMA BesideHonest == ASSUME HonestInv, Beside PROVE HonestInv'
<1> DEFINE Left(t) == stage'[t] \in {"tail", "handoff", "ended"}
<1>1. /\ answer' = [t \in Turn |-> IF Left(t) THEN Blank ELSE answer[t]]
      /\ permitted' = permitted /\ retooled' = retooled
      /\ settings' = settings /\ runtime' = runtime
  BY DEF Beside, configVars
<1> HIDE DEF Left
<1>2. AnswersTyped' BY <1>1, BlankFields DEF HonestInv, AnswersTyped
<1>3. \A t \in Turn : answer'[t] = answer[t] \/ answer'[t] = Blank BY <1>1
<1>4. \A t \in Turn : \/ answer'[t] = answer[t]
                      \/ RequestHonest(answer'[t]) /\ PromptHonest(answer[t])'
  BY <1>3, BlankFields DEF RequestHonest, PromptHonest
<1>5. QED BY <1>1, <1>2, <1>4, KeptHonest

LEMMA TurnHonest ==
  ASSUME HonestInv, NEW t \in Turn,
         \/ AskRouter(t) \/ RouteDecided(t) \/ AskModel(t)
         \/ PromptModel(t) \/ SpeakAnswer(t) \/ AnswerOver(t)
  PROVE  HonestInv'
<1> DEFINE a == answer[t]
<1>1. DOMAIN a = Locals BY DEF HonestInv, AnswersTyped
<1>2. ~retooled => RequestHonest(a) /\ PromptHonest(a) /\ SessionHonest
  BY DEF HonestInv
\* A step that leaves the prompt and the session, and requests nothing.
<1>3. ASSUME NEW from, NEW r, Goes(t, from, r), DOMAIN r = Locals,
             UNCHANGED <<configVars, permitted, retooled>>,
             RequestHonest(r),
             r.prompt = a.prompt \/ r.prompt.text.tools = {}
      PROVE  HonestInv'
  <2>1. /\ runtime' = runtime /\ settings' = settings /\ retooled' = retooled
        /\ permitted' = permitted
    BY <1>3 DEF configVars
  <2>2. /\ AnswersTyped' /\ answer'[t] = r
        /\ \A u \in Turn \ {t} : answer'[u] = answer[u]
    BY <1>3, GoesTo DEF HonestInv
  <2>3. ~retooled => PromptHonest(answer[t])'
    BY <1>2, <1>3, <2>1, <2>2 DEF PromptHonest
  <2>4. RequestHonest(answer'[t]) BY <1>3, <2>2
  <2>5. QED BY <2>1, <2>2, <2>3, <2>4, KeptHonest
<1>4. CASE AskRouter(t)
  <2> DEFINE r == [a EXCEPT !.at = "routing",
                            !.targets = TargetsFor(InForce, selected)]
  <2>1. /\ Goes(t, "waiting", r)
        /\ UNCHANGED <<configVars, permitted, retooled>>
    BY <1>4 DEF AskRouter, historyVars
  <2>2. DOMAIN r = Locals /\ r.at = "routing" /\ r.prompt = a.prompt
    BY <1>1 DEF Locals
  <2> HIDE DEF r
  <2>3. QED BY <1>3, <2>1, <2>2 DEF RequestHonest
<1>5. CASE RouteDecided(t)
  <2>1. PICK d : Goes(t, "routing", [a EXCEPT !.at = "routed", !.decision = d])
    BY <1>5 DEF RouteDecided
  <2> DEFINE r == [a EXCEPT !.at = "routed", !.decision = d]
  <2>2. /\ Goes(t, "routing", r)
        /\ UNCHANGED <<configVars, permitted, retooled>>
    BY <1>5, <2>1 DEF RouteDecided, historyVars
  <2>3. DOMAIN r = Locals /\ r.at = "routed" /\ r.prompt = a.prompt
    BY <1>1 DEF Locals
  <2> HIDE DEF r
  <2>4. QED BY <1>3, <2>2, <2>3 DEF RequestHonest
<1>6. CASE AskModel(t)
  <2>1. UNCHANGED <<configVars, permitted, retooled>>
    BY <1>6 DEF AskModel, historyVars
  <2>2. CASE Reachable(a.decision, selected)
    <3> DEFINE r == [a EXCEPT !.at = "asking",
                              !.request = Request(a.decision, InForce)]
    <3>1. Goes(t, "routed", r) BY <1>6, <2>2 DEF AskModel
    <3>2. DOMAIN r = Locals /\ r.prompt = a.prompt
          /\ r.request = Request(a.decision, InForce)
      BY <1>1 DEF Locals
    <3>3. r.request.llm.tools = ToolsNow BY <3>2 DEF Request, ToolsNow
    <3> HIDE DEF r
    <3>4. QED BY <1>3, <2>1, <3>1, <3>2, <3>3 DEF RequestHonest
  <2>3. CASE ~Reachable(a.decision, selected)
    <3> DEFINE r == [a EXCEPT !.at = "silent"]
    <3>1. Goes(t, "routed", r) BY <1>6, <2>3 DEF AskModel
    <3>2. DOMAIN r = Locals /\ r.at = "silent" /\ r.prompt = a.prompt
      BY <1>1 DEF Locals
    <3> HIDE DEF r
    <3>3. QED BY <1>3, <2>1, <3>1, <3>2 DEF RequestHonest
  <2>4. QED BY <2>2, <2>3
<1>7. CASE PromptModel(t)
  <2>1. UNCHANGED <<configVars, retooled>>
    BY <1>7 DEF PromptModel, historyVars
  <2>2. CASE /\ Goes(t, "asking", [a EXCEPT !.at = "silent"])
             /\ UNCHANGED permitted
    <3> DEFINE r == [a EXCEPT !.at = "silent"]
    <3>1. Goes(t, "asking", r) BY <2>2
    <3>2. DOMAIN r = Locals /\ r.at = "silent" /\ r.prompt = a.prompt
      BY <1>1 DEF Locals
    <3> HIDE DEF r
    <3>3. QED BY <1>3, <2>1, <2>2, <3>1, <3>2 DEF RequestHonest
  <2>3. CASE /\ permitted' = SessionFor(a.request.llm.tools)
             /\ Goes(t, "asking", [a EXCEPT !.at = "prompted",
                                      !.prompt = Prompt(a.request.llm)])
    <3> DEFINE r == [a EXCEPT !.at = "prompted",
                              !.prompt = Prompt(a.request.llm)]
               tools == a.request.llm.tools
    <3>1. Goes(t, "asking", r) BY <2>3
    <3>2. DOMAIN r = Locals /\ r.at = "prompted"
          /\ r.prompt = Prompt(a.request.llm)
      BY <1>1 DEF Locals
    <3> HIDE DEF r
    <3>3. /\ AnswersTyped' /\ answer'[t] = r
          /\ \A u \in Turn \ {t} : answer'[u] = answer[u]
      BY <3>1, <3>2, GoesTo DEF HonestInv
    <3>4. a.at = "asking" BY <3>1 DEF Goes
    <3>5. /\ runtime' = runtime /\ settings' = settings /\ retooled' = retooled
      BY <2>1 DEF configVars
    <3>6. permitted' = IF permitted # NoSession THEN permitted
                       ELSE AllowedFor(tools)
      BY <2>3 DEF SessionFor, AllowedFor
    <3>7. CASE retooled
      BY <3>3, <3>5, <3>7 DEF HonestInv
    <3>8. CASE ~retooled
      <4>1. tools = ToolsNow BY <1>2, <3>4, <3>8 DEF RequestHonest
      <4>2. /\ \/ permitted' = permitted
               \/ permitted = NoSession /\ permitted' = AllowedFor(ToolsNow)
            /\ permitted' = AllowedFor(ToolsNow)
        BY <1>2, <3>6, <3>8, <4>1 DEF SessionHonest
      <4>3. permitted' # NoSession BY <4>2, AllowedIsASession
      <4>4. r.prompt.text.tools \in {{}, AllowedFor(ToolsNow)}
        BY <3>2, <4>1, PromptNames
      <4>5. PromptHonest(answer[t])'
        BY <3>3, <4>2, <4>3, <4>4 DEF PromptHonest
      <4>6. RequestHonest(answer'[t]) BY <3>2, <3>3 DEF RequestHonest
      <4>7. QED BY <3>3, <3>5, <4>2, <4>5, <4>6, KeptHonest
    <3>9. QED BY <3>7, <3>8
  <2>4. QED BY <1>7, <2>2, <2>3 DEF PromptModel
<1>8. CASE SpeakAnswer(t)
  <2> DEFINE r == [a EXCEPT !.at = "speaking",
                            !.voice = Voice(settings, metadata)]
  <2>1. /\ Goes(t, "prompted", r)
        /\ UNCHANGED <<configVars, permitted, retooled>>
    BY <1>8 DEF SpeakAnswer, historyVars
  <2>2. DOMAIN r = Locals /\ r.at = "speaking" /\ r.prompt = a.prompt
    BY <1>1 DEF Locals
  <2> HIDE DEF r
  <2>3. QED BY <1>3, <2>1, <2>2 DEF RequestHonest
<1>9. CASE AnswerOver(t)
  <2>1. /\ Goes(t, a.at, Blank)
        /\ UNCHANGED <<configVars, permitted, retooled>>
    BY <1>9 DEF AnswerOver
  <2>2. QED BY <1>3, <2>1, BlankFields DEF RequestHonest
<1>10. QED BY <1>4, <1>5, <1>6, <1>7, <1>8, <1>9

LEMMA HonestInvStep == HonestInv /\ [ConfiguredNext]_allVars => HonestInv'
<1> SUFFICES ASSUME HonestInv, [ConfiguredNext]_allVars PROVE HonestInv'
  OBVIOUS
<1>1. ASSUME NEW c \in Connection, Configures(c) PROVE HonestInv'
  BY <1>1, ConfiguringSteps, ConfigureHonest
<1>2. ASSUME UNCHANGED <<runtime, settings, answer, permitted, retooled>>
      PROVE HonestInv'
  <2>1. AnswersTyped' BY <1>2 DEF HonestInv, AnswersTyped
  <2>2. QED BY <1>2, <2>1, KeptHonest
<1>3. ASSUME NEW c \in Connection, HearAudio(c) PROVE HonestInv'
  BY <1>2, <1>3 DEF HearAudio, historyVars
<1>4. CASE UNCHANGED allVars
  BY <1>2, <1>4 DEF allVars, configVars, historyVars
<1>5. QED BY <1>1, <1>3, <1>4, StepsOfTheSession, BesideHonest, TurnHonest

\* The model is told of no tool that its OpenCode session is denied, as long as
\* the session's tools stay what they were at its first request.
THEOREM ToolsAlwaysHonest == ConfiguredSpec => []ToolsAreHonest
<1>1. ConfiguredInit => HonestInv
  BY BlankFields
     DEF ConfiguredInit, HonestInv, AnswersTyped, SessionHonest, RequestHonest,
         PromptHonest
<1>2. HonestInv => ToolsAreHonest
  BY DEF HonestInv, ToolsAreHonest, PromptHonest
<1>3. QED BY <1>1, <1>2, HonestInvStep, PTL DEF ConfiguredSpec
=============================================================================
