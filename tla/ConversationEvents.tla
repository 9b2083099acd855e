------------------------- MODULE ConversationEvents -------------------------
(***************************************************************************)
(* The events a session worker sends to its client                         *)
(* (conversation/events.py, web-sdk/src/protocol.ts), one operator per     *)
(* event class.  A turn and the generation that answers it share a number; *)
(* an event that names no turn or no generation carries NoGeneration.  Of  *)
(* the other fields an event keeps those its receiver acts on.  The worker *)
(* sends no llm.error or turn.accepted to the clients modelled, and its    *)
(* session.closed meets a socket the client has closed.                    *)
(***************************************************************************)
EXTENDS GenerationGate

\* BaseConversationEvent; set_generation_for_events gives the generation.
BaseEvent(type, turn, gen) == [type |-> type, turn |-> turn, gen |-> gen]

SessionCreatedEvent == BaseEvent("session.created", NoGeneration, NoGeneration)
SessionReadyEvent == BaseEvent("session.ready", NoGeneration, NoGeneration)
SessionStatusEvent(status, turn, gen) ==
  [type |-> "session.status", turn |-> turn, gen |-> gen, status |-> status]
VadStateEvent(speaking, turn) ==
  [type |-> "vad.state", turn |-> turn, gen |-> NoGeneration,
   speaking |-> speaking]

SttStatusEvent(status, turn, gen) ==
  [type |-> "stt.status", turn |-> turn, gen |-> gen, progress |-> status]
SttFinalEvent(turn, gen) == BaseEvent("stt.final", turn, gen)
RouteSelectedEvent(turn, gen) == BaseEvent("route.selected", turn, gen)

LlmPhaseEvent(turn, gen) == BaseEvent("llm.phase", turn, gen)
LlmReasoningDeltaEvent(turn, gen) == BaseEvent("llm.reasoning.delta", turn, gen)
LlmResponseDeltaEvent(turn, gen) == BaseEvent("llm.response.delta", turn, gen)
LlmToolUpdateEvent(turn, gen) == BaseEvent("llm.tool.update", turn, gen)
LlmUsageEvent(turn, gen) == BaseEvent("llm.usage", turn, gen)
LlmSummaryEvent(turn, gen) == BaseEvent("llm.summary", turn, gen)
LlmCompletedEvent(turn, gen) == BaseEvent("llm.completed", turn, gen)

TtsChunkEvent(turn, gen) == BaseEvent("tts.chunk", turn, gen)
TtsCompletedEvent(turn, gen) == BaseEvent("tts.completed", turn, gen)

ConversationInterruptedEvent(turn, gen) ==
  BaseEvent("conversation.interrupted", turn, gen)
TurnQueuedEvent(size) ==
  [type |-> "turn.queued", turn |-> NoGeneration, gen |-> NoGeneration,
   queue_size |-> size]
TurnMetricsEvent(turn, gen, cancelled) ==
  [type |-> "turn.metrics", turn |-> turn, gen |-> gen,
   cancelled |-> cancelled]
ErrorEvent(turn, gen) == BaseEvent("error", turn, gen)

\* The event as the generation gate sees it.
GateType(type) ==
  CASE type = "stt.final" -> "final"
    [] type \in {"llm.phase", "llm.reasoning.delta", "llm.response.delta",
                 "llm.tool.update"} -> "phase"
    [] type \in {"llm.usage", "llm.summary", "llm.completed"} -> "answered"
    [] type = "tts.chunk" -> "chunk"
    [] type = "tts.completed" -> "spoken"
    [] type = "conversation.interrupted" -> "interrupted"
    [] OTHER -> "status"
Gated(e) == [type |-> GateType(e.type), gen |-> e.gen]

\* set_generation_for_events
WithGeneration(events, g) == [i \in DOMAIN events |-> [events[i] EXCEPT !.gen = g]]
=============================================================================
