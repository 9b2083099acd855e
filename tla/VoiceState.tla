----------------------------- MODULE VoiceState -----------------------------
(***************************************************************************)
(* What the web SDK shows of a session: the VoiceSessionState, the reducer *)
(* of the events that arrive and of the messages that leave                *)
(* (web-sdk/src/state.ts), and the clock of the pending turn               *)
(* (web-sdk/src/store/session_store.ts).                                   *)
(*                                                                         *)
(* The text of an answer is the set of turns its words come from, a        *)
(* transcript entry is a role and a turn, and the time a commit has been   *)
(* pending is the last of the limits of 2, 8 and 25 seconds it has passed. *)
(***************************************************************************)
EXTENDS ConversationEvents, SessionStatus

CONSTANT TranscriptLimit   \* entries the transcript keeps (100 in the code)

ASSUME TranscriptAssumption == TranscriptLimit \in Nat \ {0, 1}

TurnPhase == {"idle", "listening", "user_speaking", "processing",
              "agent_speaking"}
Overdue == <<"slow", "degraded", "timeout">>
PendingPhase == {"idle", "commit_sent", "awaiting_backend"}
                  \cup {Overdue[i] : i \in 1..3}
NoPending == [phase |-> "idle", elapsed |-> 0]

VoiceSessionState ==
  [status : Status \cup {"disconnected"}, phase : TurnPhase, vad : BOOLEAN,
   final : MaybeGeneration,       \* stt.lastFinalTurnId
   words : SUBSET Generation,     \* llm.responseText
   tts : {"idle", "playing", "complete"},
   segment : MaybeGeneration,     \* tts.currentSpokenGenerationId
   queue : Nat,                   \* queue.pendingTurns
   pending : [phase : PendingPhase, elapsed : 0..3],
   cancelled : BOOLEAN,           \* metrics.cancelled
   transcript : Seq({"user", "assistant"} \X Generation)]

createVoiceSessionState ==
  [status |-> "disconnected", phase |-> "idle", vad |-> FALSE,
   final |-> NoGeneration, words |-> {}, tts |-> "idle",
   segment |-> NoGeneration, queue |-> 0, pending |-> NoPending,
   cancelled |-> FALSE, transcript |-> <<>>]

deriveTurnPhase(s) ==
  IF s.status = "speaking" \/ s.tts = "playing" THEN "agent_speaking"
  ELSE IF s.status \in {"thinking", "transcribing"} THEN "processing"
  ELSE IF s.vad THEN "user_speaking"
  ELSE IF s.status \in {"listening", "ready"} THEN "listening"
  ELSE "idle"

Derived(s) == [s EXCEPT !.phase = deriveTurnPhase(s)]
Resolved(s) == [s EXCEPT !.pending = NoPending]

\* The transcript with one more entry, the oldest dropped beyond the limit.
Entered(s, role, turn) ==
  LET all == Append(s.transcript, <<role, turn>>) IN
  [s EXCEPT !.transcript =
     IF Len(all) > TranscriptLimit THEN Tail(all) ELSE all]

\* Each status but "created" and "loading" tells that the runtime is past the
\* commit, or with it.
OnStatus(s, e) ==
  LET t == [s EXCEPT !.status = e.status] IN
  CASE s.pending.phase # "idle" /\ e.status = "transcribing" ->
         [t EXCEPT !.pending.phase = "awaiting_backend"]
    [] e.status \in {"thinking", "speaking", "listening", "ready",
                     "interrupted", "closed", "failed"} -> Resolved(t)
    [] OTHER -> t

\* A transcript makes room for its answer, unless it is a repetition.
OnFinal(s, e) ==
  Entered(Resolved([s EXCEPT !.final = e.turn, !.words = {}, !.tts = "idle",
                             !.cancelled = FALSE]), "user", e.turn)

OnRoute(s) == Resolved(s)
OnDelta(s, e) == Resolved([s EXCEPT !.words = @ \cup {e.turn}])

\* The completed text takes the place of the deltas.
OnCompleted(s, e) ==
  Entered(Resolved([s EXCEPT !.words = {e.turn}]), "assistant", e.turn)

OnChunk(s, e) == Resolved([s EXCEPT !.tts = "playing", !.segment = e.gen])

OnInterrupted(s) ==
  [Resolved(s) EXCEPT !.queue = 0, !.segment = NoGeneration, !.phase = "idle"]

\* Faulty variant: the end of the speech is not noted.
OnSpoken_StillPlaying(s) == Resolved([s EXCEPT !.segment = NoGeneration])
OnSpoken(s) ==
  Resolved([s EXCEPT !.tts = "complete", !.segment = NoGeneration])

OnMetrics(s, e) ==
  [Resolved(s) EXCEPT !.cancelled = e.cancelled,
     !.queue = IF ~e.cancelled /\ @ > 0 THEN @ - 1 ELSE @]

OnError(s) ==
  [Resolved(s) EXCEPT !.words = {}, !.tts = "idle", !.segment = NoGeneration,
                      !.status = "failed", !.phase = "idle"]

reduceVoiceSessionEvent(s, e) ==
  CASE e.type = "session.ready" ->
         [s EXCEPT !.status = "ready", !.phase = "listening"]
    [] e.type = "session.status" -> Derived(OnStatus(s, e))
    [] e.type = "vad.state" -> Derived([s EXCEPT !.vad = e.speaking])
    [] e.type = "stt.status" -> Derived(s)
    [] e.type = "stt.final" ->
         IF s.final = e.turn THEN s ELSE Derived(OnFinal(s, e))
    [] e.type \in {"route.selected", "llm.phase", "llm.tool.update",
                   "llm.reasoning.delta"} -> Derived(OnRoute(s))
    [] e.type = "llm.response.delta" -> Derived(OnDelta(s, e))
    [] e.type = "llm.completed" -> Derived(OnCompleted(s, e))
    [] e.type = "tts.chunk" -> Derived(OnChunk(s, e))
    [] e.type = "tts.completed" -> Derived(OnSpoken(s))
    [] e.type = "conversation.interrupted" -> OnInterrupted(s)
    [] e.type = "turn.queued" -> [s EXCEPT !.queue = e.queue_size]
    [] e.type = "turn.metrics" -> OnMetrics(s, e)
    [] e.type = "error" -> OnError(s)
    [] OTHER -> s

\* reduceVoiceSessionOutboundMessage: a commit is not noted while an earlier
\* one has been pending for less than 25 seconds; "late" tells that it has not.
reduceVoiceSessionOutboundMessage(s, message, late) ==
  IF message # "commit" \/ (s.pending.phase # "idle" /\ ~late) THEN s
  ELSE [s EXCEPT !.pending = [phase |-> "commit_sent", elapsed |-> 0]]

\* reduceVoiceSessionClockTick
reduceVoiceSessionClockTick(s, elapsed) ==
  IF s.pending.phase = "idle" THEN s
  ELSE [s EXCEPT !.pending =
          [phase |-> IF elapsed = 0 THEN @.phase ELSE Overdue[elapsed],
           elapsed |-> elapsed]]
=============================================================================
