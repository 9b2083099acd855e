--------------------------- MODULE GenerationGate ---------------------------
(***************************************************************************)
(* The generation gate of the web SDK (interruption/generation_gate.ts):   *)
(* which of the events that arrive on one socket belong to the answer the  *)
(* person still wants.  The session keeps two such gates, one that decides *)
(* what reaches the shown state (orchestration/generation_owner.ts), one   *)
(* inside the audio controller (interruption/audio_output.ts).             *)
(*                                                                         *)
(* Events are told apart only where the gate tells them apart:             *)
(*   "final"     stt.final                                                 *)
(*   "phase"     llm.phase, llm.tool.update and the llm deltas             *)
(*   "answered"  llm.completed, llm.usage, llm.summary                     *)
(*   "chunk"     tts.chunk                                                 *)
(*   "spoken"    tts.completed                                             *)
(*   "interrupted"  conversation.interrupted                               *)
(*   "status"    every other event that carries a generation id            *)
(***************************************************************************)
EXTENDS Naturals, Sequences

CONSTANTS
  MaxAsked,     \* bound: answers asked for, hence generations
  MaxRejected   \* the rejected generations a gate remembers (32 in the code)

ASSUME GateAssumption == MaxAsked \in Nat \ {0} /\ MaxRejected \in Nat \ {0}

Generation == 1..MaxAsked
NoGeneration == 0
MaybeGeneration == Generation \cup {NoGeneration}

EventType == {"final", "phase", "answered", "chunk", "spoken", "interrupted",
              "status"}
Event == [type : EventType, gen : MaybeGeneration]

\* GENERATION_SCOPED_EVENT_TYPES, GENERATION_START_EVENT_TYPES,
\* RESUME_FROM_TTS_SUPPRESSION_EVENT_TYPES and the two tests for "tts." events.
Scoped == {"phase", "answered", "chunk", "spoken"}
Start  == {"final", "phase", "chunk"}
Resume == {"final", "phase"}
Speech == {"chunk", "spoken"}

\* The fields of a GenerationEventGate; "rejected" in order of insertion.
Gate == [active : MaybeGeneration, rejected : Seq(Generation),
         suppress : BOOLEAN]
OpenGate == [active |-> NoGeneration, rejected |-> <<>>, suppress |-> FALSE]

Rejects(gate, g) == \E i \in DOMAIN gate.rejected : gate.rejected[i] = g

\* GenerationEventGate.shouldAccept: an event without a generation always; one
\* of a generation unless it is suppressed speech, or rejected, or of another
\* generation than the active one, which only an event that starts a
\* generation may be, and only when the active one is absent or rejected.
ShouldAccept(gate, e) ==
  \/ e.gen = NoGeneration
  \/ /\ ~(gate.suppress /\ e.type \in Speech)
     /\ ~Rejects(gate, e.gen)
     /\ \/ e.gen = gate.active
        \/ e.type \notin Scoped
        \/ /\ e.type \in Start
           /\ gate.active = NoGeneration \/ Rejects(gate, gate.active)

\* rememberRejected: insert, and forget the oldest beyond the limit.
Remember(rejected, g) ==
  IF \E i \in DOMAIN rejected : rejected[i] = g THEN rejected
  ELSE IF Len(rejected) < MaxRejected THEN Append(rejected, g)
  ELSE Append(Tail(rejected), g)

\* rejectActiveGeneration
RejectActive(gate) ==
  [gate EXCEPT !.suppress = TRUE,
               !.rejected = IF gate.active = NoGeneration THEN @
                            ELSE Remember(@, gate.active)]

\* The suppression of speech after an accepted event.
Suppression(gate, e) ==
  gate.suppress /\ e.type \notin Resume
                /\ ~(e.type \in Speech /\ e.gen = NoGeneration)

\* A new utterance's transcript takes over from any generation, an event that
\* starts a generation takes over from a rejected one, and every generation
\* from none.
Follow(gate, e) ==
  IF e.gen = NoGeneration \/ e.gen = gate.active THEN gate
  ELSE IF gate.active # NoGeneration /\ e.type = "final"
    THEN [RejectActive(gate) EXCEPT !.active = e.gen]
  ELSE IF gate.active = NoGeneration \/ e.type \in Start
    THEN [gate EXCEPT !.active = e.gen]
  ELSE gate

\* Faulty variant: a new transcript takes over without rejecting the answer
\* before it.
Observe_NoReject(gate, e) ==
  IF ~ShouldAccept(gate, e) THEN gate
  ELSE IF e.type = "interrupted" THEN RejectActive(gate)
  ELSE IF e.gen # NoGeneration /\ e.type \in Start
    THEN [gate EXCEPT !.active = e.gen, !.suppress = Suppression(gate, e)]
  ELSE Follow([gate EXCEPT !.suppress = Suppression(gate, e)], e)

\* GenerationEventGate.observe
Observe(gate, e) ==
  IF ~ShouldAccept(gate, e) THEN gate
  ELSE IF e.type = "interrupted" THEN RejectActive(gate)
  ELSE Follow([gate EXCEPT !.suppress = Suppression(gate, e)], e)
=============================================================================
