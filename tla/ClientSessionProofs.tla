------------------------ MODULE ClientSessionProofs ------------------------
(***************************************************************************)
(* Theorems about ClientSession, for every set of conversations, every     *)
(* bound on them and every choice of faults: what the store shows fits     *)
(* together.  First the types of what is under way and what a reducer or a *)
(* gate makes of it; then the order in which turns are told; then how many *)
(* of them wait; last the clock, and the theorems.                         *)
(***************************************************************************)
EXTENDS ClientSession, FiniteSetTheorems, SequenceTheorems, TLAPS

-----------------------------------------------------------------------------
(* The events, by what they carry.                                         *)

StatusEvents ==
  [type : {"session.status"}, turn : MaybeGeneration, gen : MaybeGeneration,
   status : Status]
VadEvents ==
  [type : {"vad.state"}, turn : MaybeGeneration, gen : MaybeGeneration,
   speaking : BOOLEAN]
SttEvents ==
  [type : {"stt.status"}, turn : MaybeGeneration, gen : MaybeGeneration,
   progress : {"queued", "running", "completed", "failed"}]
QueueEvents ==
  [type : {"turn.queued"}, turn : {NoGeneration}, gen : {NoGeneration},
   queue_size : Nat]
MetricsEvents ==
  [type : {"turn.metrics"}, turn : MaybeGeneration, gen : MaybeGeneration,
   cancelled : BOOLEAN]
PlainEvents(types) ==
  [type : types, turn : MaybeGeneration, gen : MaybeGeneration]

\* The events the transcript and the words are made of.
ToldTypes == {"stt.final", "llm.response.delta", "llm.completed"}
ToldEvents == [type : ToldTypes, turn : Generation, gen : Generation]

\* What the handler sends, what a task sends, and what is under way.
NoticePlain == {"session.created", "session.ready", "route.selected",
                "conversation.interrupted"}
Notices ==
  StatusEvents \cup VadEvents \cup SttEvents \cup QueueEvents
    \cup MetricsEvents \cup PlainEvents(NoticePlain)
ScriptPlain == {"route.selected", "llm.phase", "llm.tool.update", "llm.usage",
                "llm.reasoning.delta", "llm.summary", "tts.chunk",
                "tts.completed", "error"}
TaskEvents ==
  StatusEvents \cup SttEvents \cup MetricsEvents \cup PlainEvents(ScriptPlain)
    \cup ToldEvents
Under == Notices \cup TaskEvents

Stages == {"recognises", "answers", "speaks", "ends"}
StepItems == [type : {"becomes"}, status : Status]
               \cup [type : {"measured", "raises"}]
Items == TaskEvents \cup StepItems \cup [type : Stages]

LEMMA StatusEventIs ==
  ASSUME NEW s \in Status, NEW t \in MaybeGeneration, NEW g \in MaybeGeneration
  PROVE  SessionStatusEvent(s, t, g) \in StatusEvents
  BY DEF SessionStatusEvent, StatusEvents

\* _transition_session gives status events or none.
LEMMA TransitionIs ==
  ASSUME NEW s \in Status, NEW to \in Status, NEW g \in MaybeGeneration
  PROVE  Transition(s, to, g) \in Seq(StatusEvents)
<1>1. SessionStatusEvent(to, g, g) \in StatusEvents BY StatusEventIs
<1>2. QED BY <1>1 DEF Transition

\* _transition_session leaves a status.
LEMMA MoveIs ==
  ASSUME NEW s \in Status, NEW to \in Status
  PROVE  Move(s, to) \in Status
  BY DEF Move
LEMMA RecoveredIs ==
  ASSUME NEW s \in Status
  PROVE  Recovered(s) \in Status
<1>1. {"interrupted", "listening"} \subseteq Status BY DEF Status
<1>2. QED BY <1>1, MoveIs DEF Recovered
LEMMA StartedIs ==
  ASSUME NEW s \in Status
  PROVE  Started(s) \in Status
<1>1. {"loading", "ready", "listening"} \subseteq Status BY DEF Status
<1>2. QED BY <1>1, MoveIs DEF Started

-----------------------------------------------------------------------------
(* The gate and the reducer keep their types.                              *)

\* What an event carries, by its type.
LEMMA UnderIs ==
  ASSUME NEW e \in Under
  PROVE  /\ e.turn \in MaybeGeneration /\ e.gen \in MaybeGeneration
         /\ e.type = "session.status" => e.status \in Status
         /\ e.type = "vad.state" => e.speaking \in BOOLEAN
         /\ e.type = "turn.queued" => e.queue_size \in Nat
         /\ e.type = "turn.metrics" => e.cancelled \in BOOLEAN
         /\ e.type \in ToldTypes => e.turn \in Generation
         /\ e.type \notin Step \cup Stages
<1>1. Generation \subseteq MaybeGeneration BY DEF MaybeGeneration
<1>2. CASE e \in StatusEvents
  BY <1>2 DEF StatusEvents, ToldTypes, Step, Stages
<1>3. CASE e \in VadEvents
  BY <1>3 DEF VadEvents, ToldTypes, Step, Stages, MaybeGeneration
<1>4. CASE e \in SttEvents
  BY <1>4 DEF SttEvents, ToldTypes, Step, Stages
<1>5. CASE e \in QueueEvents
  BY <1>5 DEF QueueEvents, ToldTypes, Step, Stages, MaybeGeneration
<1>6. CASE e \in MetricsEvents
  BY <1>6 DEF MetricsEvents, ToldTypes, Step, Stages
<1>7. CASE e \in PlainEvents(NoticePlain)
  BY <1>7 DEF PlainEvents, NoticePlain, ToldTypes, Step, Stages
<1>8. CASE e \in PlainEvents(ScriptPlain)
  BY <1>8 DEF PlainEvents, ScriptPlain, ToldTypes, Step, Stages
<1>9. CASE e \in ToldEvents
  BY <1>1, <1>9 DEF ToldEvents, ToldTypes, Step, Stages
<1>10. QED
  BY <1>2, <1>3, <1>4, <1>5, <1>6, <1>7, <1>8, <1>9 DEF Under, Notices, TaskEvents

LEMMA RememberType ==
  ASSUME NEW s \in Seq(Generation), NEW g \in Generation
  PROVE  Remember(s, g) \in Seq(Generation)
<1>1. CASE \E i \in DOMAIN s : s[i] = g
  BY <1>1 DEF Remember
<1>2. CASE ~(\E i \in DOMAIN s : s[i] = g) /\ Len(s) < MaxRejected
  BY <1>2 DEF Remember
<1>3. CASE ~(\E i \in DOMAIN s : s[i] = g) /\ ~(Len(s) < MaxRejected)
  <2>1. Len(s) # 0 BY <1>3, GateAssumption
  <2>2. Tail(s) \in Seq(Generation) BY <2>1
  <2>3. Remember(s, g) = Append(Tail(s), g) BY <1>3 DEF Remember
  <2>4. QED BY <2>2, <2>3
<1>4. QED BY <1>1, <1>2, <1>3

LEMMA RejectActiveType ==
  ASSUME NEW gate \in Gate
  PROVE  RejectActive(gate) \in Gate /\ RejectActive(gate).active = gate.active
<1>1. CASE gate.active = NoGeneration
  BY <1>1 DEF RejectActive, Gate
<1>2. CASE gate.active # NoGeneration
  <2>1. gate.active \in Generation /\ gate.rejected \in Seq(Generation)
    BY <1>2 DEF Gate, MaybeGeneration, NoGeneration
  <2>2. Remember(gate.rejected, gate.active) \in Seq(Generation)
    BY <2>1, RememberType
  <2>3. QED BY <1>2, <2>2 DEF RejectActive, Gate
<1>3. QED BY <1>1, <1>2

LEMMA ObserveType ==
  ASSUME NEW gate \in Gate, NEW e, e.gen \in MaybeGeneration
  PROVE  Observe(gate, e) \in Gate
<1> DEFINE next == [gate EXCEPT !.suppress = Suppression(gate, e)]
<1>1. Suppression(gate, e) \in BOOLEAN BY DEF Suppression, Gate
<1>2. next \in Gate BY <1>1 DEF Gate
<1>3. RejectActive(next) \in Gate /\ RejectActive(gate) \in Gate
  BY <1>2, RejectActiveType
<1>4. Follow(next, e) \in Gate
  <2> HIDE DEF next
  <2>1. [RejectActive(next) EXCEPT !.active = e.gen] \in Gate
    BY <1>3 DEF Gate
  <2>2. [next EXCEPT !.active = e.gen] \in Gate
    BY <1>2 DEF Gate
  <2>3. QED BY <1>2, <2>1, <2>2 DEF Follow
<1>5. QED BY <1>3, <1>4 DEF Observe

\* An event dispatched keeps the type of what is shown.
LEMMA EnteredType ==
  ASSUME NEW s \in VoiceSessionState, NEW role \in {"user", "assistant"},
         NEW turn_ \in Generation
  PROVE  Entered(s, role, turn_) \in VoiceSessionState
<1> DEFINE all == Append(s.transcript, <<role, turn_>>)
<1> DEFINE T == {"user", "assistant"} \X Generation
<1>1. s.transcript \in Seq(T) BY DEF VoiceSessionState
<1>2. <<role, turn_>> \in T OBVIOUS
<1>3. all \in Seq(T) /\ all # <<>>
  <2> HIDE DEF T
  <2>1. QED BY <1>1, <1>2, AppendProperties
<1>4. Tail(all) \in Seq(T)
  <2> HIDE DEF T, all
  <2>1. QED BY <1>3
<1>5. [s EXCEPT !.transcript = all] \in VoiceSessionState
  <2> HIDE DEF all
  <2>1. QED BY <1>3 DEF VoiceSessionState
<1>6. [s EXCEPT !.transcript = Tail(all)] \in VoiceSessionState
  <2> HIDE DEF all
  <2>1. QED BY <1>4 DEF VoiceSessionState
<1>7. QED BY <1>5, <1>6 DEF Entered

LEMMA ResolvedType ==
  ASSUME NEW s \in VoiceSessionState
  PROVE  Resolved(s) \in VoiceSessionState
<1>1. NoPending \in [phase : PendingPhase, elapsed : 0..3]
  BY DEF NoPending, PendingPhase
<1>2. QED BY <1>1 DEF Resolved, VoiceSessionState

LEMMA DerivedType ==
  ASSUME NEW s \in VoiceSessionState
  PROVE  Derived(s) \in VoiceSessionState
<1>1. deriveTurnPhase(s) \in TurnPhase BY DEF deriveTurnPhase, TurnPhase
<1>2. QED BY <1>1 DEF Derived, VoiceSessionState

LEMMA ReduceType ==
  ASSUME NEW s \in VoiceSessionState, NEW e \in Under
  PROVE  reduceVoiceSessionEvent(s, e) \in VoiceSessionState
<1> USE DEF VoiceSessionState
<1>1. CASE e.type = "session.ready"
  BY <1>1 DEF reduceVoiceSessionEvent, Status, TurnPhase
<1>2. CASE e.type = "session.status"
  <2>1. e.status \in Status BY <1>2, UnderIs
  <2>2. [s EXCEPT !.status = e.status] \in VoiceSessionState BY <2>1
  <2>3. Resolved([s EXCEPT !.status = e.status]) \in VoiceSessionState
    <3> HIDE DEF VoiceSessionState
    <3>1. QED BY <2>2, ResolvedType
  <2>4. [[s EXCEPT !.status = e.status] EXCEPT !.pending.phase = "awaiting_backend"]
          \in VoiceSessionState
    BY <2>1 DEF PendingPhase
  <2>5. OnStatus(s, e) \in VoiceSessionState
    <3> HIDE DEF VoiceSessionState
    <3>1. QED BY <2>2, <2>3, <2>4 DEF OnStatus
  <2>6. QED BY <1>2, <2>5, DerivedType DEF reduceVoiceSessionEvent
<1>3. CASE e.type = "vad.state"
  <2>1. [s EXCEPT !.vad = e.speaking] \in VoiceSessionState BY <1>3, UnderIs
  <2>2. QED BY <1>3, <2>1, DerivedType DEF reduceVoiceSessionEvent
<1>4. CASE e.type = "stt.status"
  BY <1>4, DerivedType DEF reduceVoiceSessionEvent
<1>5. CASE e.type = "stt.final"
  <2>1. e.turn \in Generation BY <1>5, UnderIs DEF ToldTypes
  <2> DEFINE t == [s EXCEPT !.final = e.turn, !.words = {}, !.tts = "idle",
                            !.cancelled = FALSE]
  <2>2. t \in VoiceSessionState BY <2>1 DEF MaybeGeneration
  <2>3. OnFinal(s, e) \in VoiceSessionState
    <3> HIDE DEF VoiceSessionState
    <3>1. Resolved(t) \in VoiceSessionState BY <2>2, ResolvedType
    <3>2. QED BY <2>1, <3>1, EnteredType DEF OnFinal
  <2>4. QED BY <1>5, <2>3, DerivedType DEF reduceVoiceSessionEvent
<1>6. CASE e.type \in {"route.selected", "llm.phase", "llm.tool.update",
                       "llm.reasoning.delta"}
  BY <1>6, ResolvedType, DerivedType DEF reduceVoiceSessionEvent, OnRoute
<1>7. CASE e.type = "llm.response.delta"
  <2>1. e.turn \in Generation BY <1>7, UnderIs DEF ToldTypes
  <2>2. [s EXCEPT !.words = @ \cup {e.turn}] \in VoiceSessionState BY <2>1
  <2>3. QED
    BY <1>7, <2>2, ResolvedType, DerivedType DEF reduceVoiceSessionEvent, OnDelta
<1>8. CASE e.type = "llm.completed"
  <2>1. e.turn \in Generation BY <1>8, UnderIs DEF ToldTypes
  <2>2. [s EXCEPT !.words = {e.turn}] \in VoiceSessionState BY <2>1
  <2>3. OnCompleted(s, e) \in VoiceSessionState
    <3> HIDE DEF VoiceSessionState
    <3>1. Resolved([s EXCEPT !.words = {e.turn}]) \in VoiceSessionState
      BY <2>2, ResolvedType
    <3>2. QED BY <2>1, <3>1, EnteredType DEF OnCompleted
  <2>4. QED BY <1>8, <2>3, DerivedType DEF reduceVoiceSessionEvent
<1>9. CASE e.type = "tts.chunk"
  <2>1. [s EXCEPT !.tts = "playing", !.segment = e.gen] \in VoiceSessionState
    BY UnderIs
  <2>2. QED
    BY <1>9, <2>1, ResolvedType, DerivedType DEF reduceVoiceSessionEvent, OnChunk
<1>10. CASE e.type = "tts.completed"
  <2>1. [s EXCEPT !.tts = "complete", !.segment = NoGeneration] \in VoiceSessionState
    BY DEF MaybeGeneration
  <2>2. QED
    BY <1>10, <2>1, ResolvedType, DerivedType DEF reduceVoiceSessionEvent, OnSpoken
<1>11. CASE e.type = "conversation.interrupted"
  <2>1. Resolved(s) \in VoiceSessionState BY ResolvedType
  <2>2. QED
    BY <1>11, <2>1
    DEF reduceVoiceSessionEvent, OnInterrupted, MaybeGeneration, TurnPhase
<1>12. CASE e.type = "turn.queued"
  BY <1>12, UnderIs DEF reduceVoiceSessionEvent
<1>13. CASE e.type = "turn.metrics"
  <2>1. Resolved(s) \in VoiceSessionState BY ResolvedType
  <2>2. e.cancelled \in BOOLEAN BY <1>13, UnderIs
  <2> DEFINE q == Resolved(s).queue
  <2> DEFINE n == IF ~e.cancelled /\ q > 0 THEN q - 1 ELSE q
  <2>3. q \in Nat BY <2>1
  <2>4. n \in Nat BY <2>3
  <2>5. OnMetrics(s, e) = [Resolved(s) EXCEPT !.cancelled = e.cancelled, !.queue = n]
    BY DEF OnMetrics
  <2>6. OnMetrics(s, e) \in VoiceSessionState
    <3> DEFINE r == Resolved(s)
    <3> DEFINE b == e.cancelled
    <3> DEFINE t == [r EXCEPT !.cancelled = b, !.queue = n]
    <3>1. r \in VoiceSessionState /\ b \in BOOLEAN /\ n \in Nat BY <2>1, <2>2, <2>4
    <3>2. t \in VoiceSessionState
      <4> HIDE DEF n, r, b
      <4>1. QED BY <3>1
    <3>3. OnMetrics(s, e) = t BY <2>5
    <3>4. QED BY <3>2, <3>3
  <2>7. QED BY <1>13, <2>6 DEF reduceVoiceSessionEvent
<1>14. CASE e.type = "error"
  <2>1. Resolved(s) \in VoiceSessionState BY ResolvedType
  <2>2. OnError(s) \in VoiceSessionState
    <3> DEFINE r == Resolved(s)
    <3> DEFINE t == [r EXCEPT !.words = {}, !.tts = "idle", !.segment = NoGeneration,
                              !.status = "failed", !.phase = "idle"]
    <3>1. NoGeneration \in MaybeGeneration /\ "failed" \in Status /\ "idle" \in TurnPhase
      BY DEF MaybeGeneration, TurnPhase, Status
    <3>2. r \in VoiceSessionState BY <2>1
    <3>3. t \in VoiceSessionState
      <4> HIDE DEF r
      <4>1. QED BY <3>1, <3>2
    <3>4. OnError(s) = t BY DEF OnError
    <3>5. QED BY <3>3, <3>4
  <2>3. QED BY <1>14, <2>2 DEF reduceVoiceSessionEvent
<1>15. CASE e.type \notin
              {"session.ready", "session.status", "vad.state", "stt.status",
               "stt.final", "route.selected", "llm.phase", "llm.tool.update",
               "llm.reasoning.delta", "llm.response.delta", "llm.completed",
               "tts.chunk", "tts.completed", "conversation.interrupted",
               "turn.queued", "turn.metrics", "error"}
  BY <1>15 DEF reduceVoiceSessionEvent
<1>16. QED
  BY <1>1, <1>2, <1>3, <1>4, <1>5, <1>6, <1>7, <1>8, <1>9, <1>10, <1>11, <1>12,
     <1>13, <1>14, <1>15

-----------------------------------------------------------------------------
(* The scripts of the tasks.                                               *)

\* The place of an item in what is told of a turn: its transcript, the words
\* of its answer, the answer as a whole.  A stage has the first place it may
\* unfold to, and 0 means that it tells nothing.
Place(e) ==
  CASE e.type \in {"recognises", "stt.final"} -> 1
    [] e.type \in {"answers", "llm.response.delta"} -> 2
    [] e.type = "llm.completed" -> 3
    [] OTHER -> 0
Told(e) == Place(e) > 0

\* A script tells a turn in its order, and after a stage nothing any more.
InOrder(s) ==
  \A i, j \in DOMAIN s : i < j /\ Told(s[j]) =>
    Place(s[i]) < Place(s[j]) /\ s[i].type \notin Stages
OfTurn(s, g) == \A i \in DOMAIN s : s[i].type \in ToldTypes => s[i].turn = g

\* What a stage unfolds to, of the places from p on.
BeginOK(b, g, p) ==
  /\ b \in Seq(Items) /\ b # <<>> /\ b[1].type \notin Stages
  /\ InOrder(b) /\ OfTurn(b, g)
  /\ \A i \in DOMAIN b : Told(b[i]) => Place(b[i]) >= p

LEMMA PlaceIs ==
  ASSUME NEW e
  PROVE  /\ Place(e) \in 0..3
         /\ e.type \in ToldTypes => Told(e)
         /\ e.type \in {"speaks", "ends"} => ~Told(e)
  BY DEF Place, Told, ToldTypes

\* The events of both streams.
LEMMA LlmIs ==
  ASSUME NEW g \in Generation
  PROVE  /\ \A k \in {"phase", "reasoning.delta", "tool.update", "usage", "summary"} :
              /\ FromLlm(k, g) \in Items /\ ~Told(FromLlm(k, g))
              /\ FromLlm(k, g).type \in ScriptPlain
         /\ FromLlm("response.delta", g) \in Items
         /\ FromLlm("response.delta", g).type = "llm.response.delta"
         /\ FromLlm("response.delta", g).turn = g
         /\ FromLlm("completed", g) \in Items
         /\ FromLlm("completed", g).type = "llm.completed"
         /\ FromLlm("completed", g).turn = g
<1> USE DEF MaybeGeneration, Items, TaskEvents, PlainEvents, ScriptPlain,
            ToldEvents, ToldTypes, BaseEvent, Told, Place
<1>1. FromLlm("phase", g) = BaseEvent("llm.phase", g, g)
  BY DEF FromLlm, LlmPhaseEvent
<1>2. FromLlm("reasoning.delta", g) = BaseEvent("llm.reasoning.delta", g, g)
  BY DEF FromLlm, LlmReasoningDeltaEvent
<1>3. FromLlm("tool.update", g) = BaseEvent("llm.tool.update", g, g)
  BY DEF FromLlm, LlmToolUpdateEvent
<1>4. FromLlm("usage", g) = BaseEvent("llm.usage", g, g)
  BY DEF FromLlm, LlmUsageEvent
<1>5. FromLlm("summary", g) = BaseEvent("llm.summary", g, g)
  BY DEF FromLlm, LlmSummaryEvent
<1>6. FromLlm("response.delta", g) = BaseEvent("llm.response.delta", g, g)
  BY DEF FromLlm, LlmResponseDeltaEvent
<1>7. FromLlm("completed", g) = BaseEvent("llm.completed", g, g)
  BY DEF FromLlm, LlmCompletedEvent
<1>8. \A k \in {"phase", "reasoning.delta", "tool.update", "usage", "summary"} :
        /\ FromLlm(k, g) \in Items /\ ~Told(FromLlm(k, g))
        /\ FromLlm(k, g).type \in ScriptPlain
  BY <1>1, <1>2, <1>3, <1>4, <1>5
<1>9. QED BY <1>6, <1>7, <1>8

LEMMA OtherItemsAre ==
  ASSUME NEW g \in Generation, NEW s \in Status
  PROVE  /\ \A e \in {FromTts("chunk", g), FromTts("completed", g),
                      ErrorEvent(g, g), SessionStatusEvent(s, g, g),
                      RouteSelectedEvent(g, g), TurnMetricsEvent(g, g, FALSE),
                      Becomes(s), Measured, Raises} :
              e \in Items /\ ~Told(e) /\ e.type \notin Stages
         /\ \A p \in {"running", "completed", "failed"}, t \in {NoGeneration, g} :
              /\ SttStatusEvent(p, g, t) \in Items /\ ~Told(SttStatusEvent(p, g, t))
              /\ SttStatusEvent(p, g, t).type \notin Stages
         /\ SttFinalEvent(g, g) \in Items /\ SttFinalEvent(g, g).type = "stt.final"
         /\ SttFinalEvent(g, g).turn = g
         /\ \A n \in Stages : Stage(n) \in Items /\ Stage(n).type = n
<1> USE DEF MaybeGeneration, Items, TaskEvents, BaseEvent, Told, Place, Stages
<1>1. \A e \in {FromTts("chunk", g), FromTts("completed", g), ErrorEvent(g, g),
                RouteSelectedEvent(g, g)} :
        e \in Items /\ ~Told(e) /\ e.type \notin Stages
  BY DEF FromTts, TtsChunkEvent, TtsCompletedEvent, ErrorEvent,
         RouteSelectedEvent, PlainEvents, ScriptPlain
<1>2. \A e \in {SessionStatusEvent(s, g, g), TurnMetricsEvent(g, g, FALSE)} :
        e \in Items /\ ~Told(e) /\ e.type \notin Stages
  <2>1. SessionStatusEvent(s, g, g) \in StatusEvents BY StatusEventIs
  <2>2. TurnMetricsEvent(g, g, FALSE) \in MetricsEvents
    BY DEF TurnMetricsEvent, MetricsEvents
  <2>3. \A e \in StatusEvents \cup MetricsEvents :
          e \in Items /\ ~Told(e) /\ e.type \notin Stages
    BY DEF StatusEvents, MetricsEvents
  <2>4. QED BY <2>1, <2>2, <2>3
<1>3. \A e \in {Becomes(s), Measured, Raises} :
        e \in Items /\ ~Told(e) /\ e.type \notin Stages
  BY DEF Becomes, Measured, Raises, StepItems
<1>4. \A p \in {"running", "completed", "failed"}, t \in {NoGeneration, g} :
        /\ SttStatusEvent(p, g, t) \in Items /\ ~Told(SttStatusEvent(p, g, t))
        /\ SttStatusEvent(p, g, t).type \notin Stages
  BY DEF SttStatusEvent, SttEvents
<1>5. /\ SttFinalEvent(g, g) \in Items /\ SttFinalEvent(g, g).type = "stt.final"
      /\ SttFinalEvent(g, g).turn = g
  BY DEF SttFinalEvent, ToldEvents, ToldTypes
<1>6. \A n \in Stages : Stage(n) \in Items /\ Stage(n).type = n
  BY DEF Stage
<1>7. QED BY <1>1, <1>2, <1>3, <1>4, <1>5, <1>6

\* What tells nothing is in order.
LEMMA SilentIsOK ==
  ASSUME NEW b \in Seq(Items), b # <<>>, NEW g, NEW p,
         \A i \in DOMAIN b : ~Told(b[i]), b[1].type \notin Stages
  PROVE  BeginOK(b, g, p)
<1>1. \A i \in DOMAIN b : b[i].type \notin ToldTypes BY PlaceIs
<1>2. QED BY <1>1 DEF BeginOK, InOrder, OfTurn

\* A plain answer is in order.
LEMMA AnswerOrder ==
  ASSUME NEW b \in Seq(Items), NEW g, Len(b) \in {4, 5},
         ~Told(b[1]), b[1].type \notin Stages,
         Place(b[2]) = 2, b[2].turn = g, b[2].type \notin Stages,
         ~Told(b[3]), b[3].type \notin Stages,
         Place(b[4]) = 3, b[4].turn = g, b[4].type \notin Stages,
         Len(b) = 5 => ~Told(b[5])
  PROVE  BeginOK(b, g, 2)
<1> DEFINE D == 1..Len(b)
<1>1. \A i \in D : i = 1 \/ i = 2 \/ i = 3 \/ i = 4 \/ (i = 5 /\ Len(b) = 5)
  <2>1. CASE Len(b) = 4 BY <2>1
  <2>2. CASE Len(b) = 5 BY <2>2
  <2>3. QED BY <2>1, <2>2
<1>2. \A i \in D : Told(b[i]) <=> i \in {2, 4} BY <1>1 DEF Told
<1>3. \A i \in D : b[i].type \in ToldTypes => i \in {2, 4} BY <1>2, PlaceIs
<1>4. \A i \in D : i \notin {2, 4} => Place(b[i]) = 0
  BY <1>2, PlaceIs DEF Told
<1>5. ASSUME NEW i \in D, NEW j \in D, i < j, Told(b[j])
      PROVE  Place(b[i]) < Place(b[j]) /\ b[i].type \notin Stages
  <2>1. i \in {1, 2, 3} /\ j \in {2, 4} BY <1>1, <1>2, <1>5
  <2>2. CASE j = 2 BY <1>4, <2>1, <2>2, <1>5
  <2>3. CASE j = 4 BY <1>4, <2>1, <2>3, <1>5
  <2>4. QED BY <2>1, <2>2, <2>3
<1>6. InOrder(b) BY <1>5 DEF InOrder
<1>7. QED BY <1>2, <1>3, <1>6 DEF BeginOK, OfTurn

LEMMA AnswersAre ==
  ASSUME NEW g \in Generation, NEW b \in Answers(g)
  PROVE  BeginOK(b, g, 2)
<1> DEFINE ph == FromLlm("phase", g)
<1> DEFINE de == FromLlm("response.delta", g)
<1> DEFINE su == FromLlm("summary", g)
<1> DEFINE co == FromLlm("completed", g)
<1> DEFINE to == FromLlm("tool.update", g)
<1> DEFINE us == FromLlm("usage", g)
<1> DEFINE re == FromLlm("reasoning.delta", g)
<1> DEFINE er == ErrorEvent(g, g)
<1> DEFINE fe == FeedbackText(g)
<1> DEFINE sp == Stage("speaks")
<1>1. \A e \in {ph, su, to, us, re} : e \in Items /\ ~Told(e) /\ e.type \in ScriptPlain
  BY LlmIs
<1>2. \A e \in {ph, su, to, us, re} : e.type \notin Stages
  BY <1>1 DEF ScriptPlain, Stages
<1>3. /\ de \in Items /\ Place(de) = 2 /\ de.turn = g /\ de.type \notin Stages
      /\ co \in Items /\ Place(co) = 3 /\ co.turn = g /\ co.type \notin Stages
  BY LlmIs DEF Place, Stages
<1>4. er \in Items /\ ~Told(er) /\ er.type \notin Stages
  BY OtherItemsAre DEF Status
<1>5. sp \in Items /\ ~Told(sp)
  <2>1. "speaks" \in Stages BY DEF Stages
  <2>2. Stage("speaks") \in Items /\ Stage("speaks").type = "speaks"
    BY <2>1, OtherItemsAre DEF Status
  <2>3. QED BY <2>2, PlaceIs
<1>6. /\ fe \in Seq(Items) /\ Len(fe) = 2
      /\ \A i \in 1..2 : ~Told(fe[i]) /\ fe[i].type \notin Stages
  <2>1. \A e \in {FromTts("chunk", g), FromTts("completed", g)} :
          e \in Items /\ ~Told(e) /\ e.type \notin Stages
    BY OtherItemsAre DEF Status
  <2> HIDE DEF fe
  <2>2. fe = <<FromTts("chunk", g), FromTts("completed", g)>>
    BY DEF FeedbackText, fe
  <2>3. QED BY <2>1, <2>2
<1>7. Answers(g) = {<<ph, de, su, co, sp>>, <<ph, de, su, co>>,
                    fe \o <<to, us, re, co, sp>>, <<er>>, <<de, er>>}
  BY DEF Answers
<1> HIDE DEF ph, de, su, co, to, us, re, er, fe, sp
<1>8. CASE b = <<ph, de, su, co, sp>>
  <2>1. b \in Seq(Items) /\ Len(b) = 5 BY <1>1, <1>3, <1>5, <1>8
  <2>2. b[1] = ph /\ b[2] = de /\ b[3] = su /\ b[4] = co /\ b[5] = sp BY <1>8
  <2>3. \A i \in 1..5 : i \in {1, 2, 3, 4, 5} OBVIOUS
  <2>4. QED BY <1>1, <1>2, <1>3, <1>5, <2>1, <2>2, <2>3, AnswerOrder
<1>9. CASE b = fe \o <<to, us, re, co, sp>>
  <2> DEFINE tail == <<to, us, re, co, sp>>
  <2>1. /\ tail \in Seq(Items) /\ Len(tail) = 5
        /\ tail[1] = to /\ tail[2] = us /\ tail[3] = re /\ tail[4] = co /\ tail[5] = sp
    BY <1>1, <1>3, <1>5
  <2> HIDE DEF tail
  <2>2. b = fe \o tail BY <1>9 DEF tail
  <2>3. /\ fe \o tail \in Seq(Items) /\ Len(fe \o tail) = Len(fe) + Len(tail)
        /\ \A i \in 1..Len(fe) + Len(tail) :
             (fe \o tail)[i] = IF i <= Len(fe) THEN fe[i] ELSE tail[i - Len(fe)]
    BY <1>6, <2>1, ConcatProperties
  <2>4. /\ b \in Seq(Items) /\ Len(b) = 7
        /\ \A i \in 1..7 : b[i] = IF i <= 2 THEN fe[i] ELSE tail[i - 2]
    BY <1>6, <2>1, <2>2, <2>3
  <2>5. b[1] = fe[1] /\ b[2] = fe[2] /\ b[3] = to /\ b[4] = us /\ b[5] = re
          /\ b[6] = co /\ b[7] = sp
    BY <2>1, <2>4
  <2>6. /\ \A i \in {1, 2, 3, 4, 5} : ~Told(b[i]) /\ b[i].type \notin Stages
        /\ Place(b[6]) = 3 /\ b[6].turn = g /\ b[6].type \notin Stages /\ ~Told(b[7])
    BY <1>1, <1>2, <1>3, <1>5, <1>6, <2>5
  <2>7. \A i \in 1..7 : i \in {1, 2, 3, 4, 5} \/ i = 6 \/ i = 7 OBVIOUS
  <2>8. \A i \in 1..7 : Told(b[i]) <=> i = 6 BY <2>6, <2>7 DEF Told
  <2>9. \A i \in 1..7 : b[i].type \in ToldTypes => i = 6 BY <2>8, PlaceIs
  <2>10. InOrder(b)
    BY <2>4, <2>6, <2>7, <2>8, PlaceIs DEF InOrder, Told
  <2>11. OfTurn(b, g) BY <2>4, <2>6, <2>9 DEF OfTurn
  <2>12. \A i \in DOMAIN b : Told(b[i]) => Place(b[i]) >= 2 BY <2>4, <2>6, <2>8
  <2>13. b # <<>> /\ b[1].type \notin Stages
    <3>1. b # <<>>
      <4>1. b \in Seq(Items) /\ Len(b) = 7 BY <2>4
      <4>2. b \in Seq(Items) /\ Len(b) # 0 BY <4>1
      <4>3. QED BY <4>2, EmptySeq
    <3>2. QED BY <2>6, <3>1
  <2>14. QED BY <2>4, <2>10, <2>11, <2>12, <2>13 DEF BeginOK
<1>10. CASE b = <<ph, de, su, co>>
  <2>1. b \in Seq(Items) /\ Len(b) = 4 BY <1>1, <1>3, <1>10
  <2>2. b[1] = ph /\ b[2] = de /\ b[3] = su /\ b[4] = co BY <1>10
  <2>3. QED BY <1>1, <1>2, <1>3, <2>1, <2>2, AnswerOrder
<1>11. CASE b = <<er>>
  BY <1>4, <1>11, SilentIsOK
<1>12. CASE b = <<de, er>>
  <2>1. b \in Seq(Items) /\ Len(b) = 2 /\ b[1] = de /\ b[2] = er
    BY <1>3, <1>4, <1>12
  <2>2. \A i \in 1..2 : Told(b[i]) <=> i = 1 BY <1>3, <1>4, <2>1 DEF Told
  <2>3. \A i \in 1..2 : b[i].type \in ToldTypes => i = 1 BY <2>2, PlaceIs
  <2>4. InOrder(b) BY <2>1, <2>2 DEF InOrder
  <2>5. QED BY <1>3, <2>1, <2>2, <2>3, <2>4 DEF BeginOK, OfTurn
<1>13. QED BY <1>7, <1>8, <1>9, <1>10, <1>11, <1>12

\* Items that neither tell anything nor stand for others.
Silent == {x \in Items : ~Told(x) /\ x.type \notin Stages}

LEMMA SilentAre ==
  ASSUME NEW b \in Seq(Silent), b # <<>>, NEW g, NEW p
  PROVE  BeginOK(b, g, p)
<1>1. b \in Seq(Items) BY SeqMonotonic DEF Silent
<1>2. \A i \in DOMAIN b : ~Told(b[i]) /\ b[i].type \notin Stages BY DEF Silent
<1>3. 1 \in DOMAIN b BY <1>1
<1>4. QED BY <1>1, <1>2, <1>3, SilentIsOK

LEMMA TransitionSilent ==
  ASSUME NEW s \in Status, NEW to \in Status, NEW g \in Generation
  PROVE  Transition(s, to, g) \in Seq(Silent)
<1>1. SessionStatusEvent(to, g, g) \in Silent BY OtherItemsAre DEF Silent
<1>2. QED BY <1>1 DEF Transition

\* Two scripts one behind the other.
LEMMA JoinInOrder ==
  ASSUME NEW a \in Seq(Items), NEW b \in Seq(Items), InOrder(a), InOrder(b),
         \A i \in DOMAIN a, j \in DOMAIN b : Told(b[j]) =>
           Place(a[i]) < Place(b[j]) /\ a[i].type \notin Stages
  PROVE  InOrder(a \o b)
<1> DEFINE c == a \o b
<1>1. /\ c \in Seq(Items) /\ Len(c) = Len(a) + Len(b)
      /\ \A i \in 1..Len(a) + Len(b) : c[i] = IF i <= Len(a) THEN a[i] ELSE b[i - Len(a)]
  BY ConcatProperties
<1> HIDE DEF c
<1>2. ASSUME NEW i \in DOMAIN c, NEW j \in DOMAIN c, i < j, Told(c[j])
      PROVE  Place(c[i]) < Place(c[j]) /\ c[i].type \notin Stages
  <2>1. i \in 1..Len(c) /\ j \in 1..Len(c) BY <1>1
  <2>2. CASE j <= Len(a)
    <3>1. i \in DOMAIN a /\ j \in DOMAIN a /\ c[i] = a[i] /\ c[j] = a[j]
      BY <1>1, <1>2, <2>1, <2>2
    <3>2. QED BY <1>2, <3>1 DEF InOrder
  <2>3. CASE j > Len(a) /\ i <= Len(a)
    <3>1. i \in DOMAIN a /\ j - Len(a) \in DOMAIN b /\ c[i] = a[i]
            /\ c[j] = b[j - Len(a)]
      BY <1>1, <1>2, <2>1, <2>3
    <3>2. QED BY <1>2, <3>1
  <2>4. CASE j > Len(a) /\ i > Len(a)
    <3>1. /\ i - Len(a) \in DOMAIN b /\ j - Len(a) \in DOMAIN b
          /\ i - Len(a) < j - Len(a)
          /\ c[i] = b[i - Len(a)] /\ c[j] = b[j - Len(a)]
      BY <1>1, <1>2, <2>1, <2>4
    <3>2. QED BY <1>2, <3>1 DEF InOrder
  <2>5. Len(a) \in Nat OBVIOUS
  <2>6. QED BY <2>1, <2>2, <2>3, <2>4, <2>5
<1>3. QED BY <1>2 DEF InOrder, c

\* The parts of a script whose items are known.
LEMMA JoinIs ==
  ASSUME NEW a \in Seq(Items), NEW b \in Seq(Items), NEW i \in DOMAIN (a \o b)
  PROVE  \/ i \in DOMAIN a /\ (a \o b)[i] = a[i]
         \/ /\ i - Len(a) \in DOMAIN b /\ i - Len(a) \in Nat
            /\ i > Len(a) /\ (a \o b)[i] = b[i - Len(a)]
<1> DEFINE c == a \o b
<1>1. /\ c \in Seq(Items) /\ Len(c) = Len(a) + Len(b)
      /\ \A k \in 1..Len(a) + Len(b) : c[k] = IF k <= Len(a) THEN a[k] ELSE b[k - Len(a)]
  BY ConcatProperties
<1>2. i \in DOMAIN c OBVIOUS
<1> HIDE DEF c
<1>3. i \in 1..Len(c) BY <1>1, <1>2
<1>4. CASE i <= Len(a)
  BY <1>1, <1>3, <1>4 DEF c
<1>5. CASE i > Len(a)
  BY <1>1, <1>3, <1>5 DEF c
<1>6. Len(a) \in Nat OBVIOUS
<1>7. QED BY <1>3, <1>4, <1>5, <1>6

LEMMA SpokenAre ==
  ASSUME NEW g \in Generation, NEW b \in Spoken(g)
  PROVE  b \in Seq(Silent) /\ b # <<>>
<1> DEFINE st == SessionStatusEvent("speaking", g, g)
<1> DEFINE ch == FromTts("chunk", g)
<1> DEFINE en == FromTts("completed", g)
<1>1. "speaking" \in Status BY DEF Status
<1>2. st \in Silent /\ ch \in Silent /\ en \in Silent /\ Raises \in Silent
  BY <1>1, OtherItemsAre DEF Silent
<1>3. b = <<st, ch>> \o <<en>> \/ b = <<st, ch>> \o <<Raises>>
  BY DEF Spoken, Optional
<1> HIDE DEF st, ch, en
<1>4. \A x \in Silent : <<st, ch>> \o <<x>> \in Seq(Silent)
                          /\ <<st, ch>> \o <<x>> # <<>>
  <2> SUFFICES ASSUME NEW x \in Silent
               PROVE  <<st, ch>> \o <<x>> \in Seq(Silent)
                        /\ <<st, ch>> \o <<x>> # <<>>
    OBVIOUS
  <2>1. <<st, ch>> \in Seq(Silent) /\ <<x>> \in Seq(Silent) BY <1>2
  <2>2. <<x>> # <<>> OBVIOUS
  <2>3. QED BY <2>1, <2>2, ConcatEqualIffEmpty
<1>5. QED BY <1>2, <1>3, <1>4

LEMMA EndedIs ==
  ASSUME NEW g \in Generation, NEW s \in Status
  PROVE  /\ Ended(g, s) \in Seq(Silent) /\ Ended(g, s) # <<>>
         /\ Head(Ended(g, s)) = Becomes("listening")
<1> DEFINE be == Becomes("listening")
<1> DEFINE me == TurnMetricsEvent(g, g, FALSE)
<1> DEFINE tr == Transition(s, "listening", g)
<1>1. "listening" \in Status BY DEF Status
<1>2. be \in Silent /\ Measured \in Silent /\ me \in Silent
  BY <1>1, OtherItemsAre DEF Silent
<1>3. tr \in Seq(Silent) BY <1>1, TransitionSilent
<1>4. Ended(g, s) = <<be, Measured>> \o tr \o <<me>> BY DEF Ended
<1> HIDE DEF be, me, tr
<1>5. <<be, Measured>> \in Seq(Silent) /\ <<me>> \in Seq(Silent) BY <1>2
<1>6. <<be, Measured>> \o tr \in Seq(Silent) BY <1>3, <1>5
<1> DEFINE u == <<be, Measured>> \o tr
<1>7. /\ u \in Seq(Silent) /\ Len(u) = Len(<<be, Measured>>) + Len(tr)
      /\ \A i \in 1..Len(<<be, Measured>>) + Len(tr) :
           u[i] = IF i <= Len(<<be, Measured>>) THEN <<be, Measured>>[i]
                  ELSE tr[i - Len(<<be, Measured>>)]
  BY <1>3, <1>5, ConcatProperties
<1>8. Len(<<be, Measured>>) = 2 /\ <<be, Measured>>[1] = be OBVIOUS
<1>9. u[1] = be /\ Len(u) >= 2 BY <1>3, <1>7, <1>8
<1> HIDE DEF u
<1>10. /\ u \o <<me>> \in Seq(Silent) /\ Len(u \o <<me>>) = Len(u) + Len(<<me>>)
       /\ \A i \in 1..Len(u) + Len(<<me>>) :
            (u \o <<me>>)[i] = IF i <= Len(u) THEN u[i] ELSE <<me>>[i - Len(u)]
  BY <1>5, <1>7, ConcatProperties
<1>11. Len(<<me>>) = 1 OBVIOUS
<1> DEFINE w == u \o <<me>>
<1> HIDE DEF w
<1>12. w \in Seq(Silent) /\ Len(w) >= 3 /\ w[1] = be
  BY <1>7, <1>9, <1>10, <1>11 DEF w
<1>13. w # <<>> BY <1>12
<1>14. QED BY <1>4, <1>12, <1>13 DEF w, u, be

\* _process_utterance_turn
LEMMA RecognisedAre ==
  ASSUME NEW g \in Generation, NEW s \in Status, NEW b \in Recognised(g, s)
  PROVE  BeginOK(b, g, 1)
<1> DEFINE st == SttStatusEvent("completed", g, g)
<1> DEFINE sf == SttStatusEvent("failed", g, g)
<1> DEFINE fi == SttFinalEvent(g, g)
<1> DEFINE be == Becomes(Move(s, "thinking"))
<1> DEFINE bl == Becomes("listening")
<1> DEFINE ro == RouteSelectedEvent(g, g)
<1> DEFINE tt == Transition(s, "thinking", g)
<1> DEFINE tl == Transition(s, "listening", g)
<1> DEFINE an == Stage("answers")
<1> DEFINE en == Stage("ends")
<1>1. {"thinking", "listening"} \subseteq Status BY DEF Status
<1>2. Move(s, "thinking") \in Status BY <1>1, MoveIs
<1>3. /\ be \in Silent /\ bl \in Silent /\ ro \in Silent /\ Raises \in Silent
      /\ st \in Silent /\ sf \in Silent
  BY <1>1, <1>2, OtherItemsAre DEF Silent
<1>4. fi \in Items /\ fi.type = "stt.final" /\ fi.turn = g
  BY <1>1, OtherItemsAre
<1>5. Place(fi) = 1 /\ fi.type \notin Stages BY <1>4 DEF Place, Stages
<1>6. /\ an \in Items /\ Place(an) = 2 /\ an.type = "answers"
      /\ en \in Items /\ ~Told(en) /\ en.type = "ends"
  <2>1. "answers" \in Stages /\ "ends" \in Stages BY DEF Stages
  <2>2. an \in Items /\ an.type = "answers" /\ en \in Items /\ en.type = "ends"
    BY <1>1, <2>1, OtherItemsAre
  <2>3. QED BY <2>2 DEF Place, Told
<1>7. tt \in Seq(Silent) /\ tl \in Seq(Silent) BY <1>1, TransitionSilent
<1>8. \/ b = <<bl, st, sf>> \o tl
      \/ b = <<st, fi, be, ro>> \o tt \o <<an, en>>
      \/ b = <<Raises>>
  BY DEF Recognised, Optional, Blank
<1> HIDE DEF st, sf, fi, be, bl, ro, tt, tl, an, en
<1>9. CASE b = <<bl, st, sf>> \o tl
  <2>1. <<bl, st, sf>> \in Seq(Silent) /\ <<bl, st, sf>> # <<>> BY <1>3
  <2>2. b \in Seq(Silent) /\ b # <<>>
    BY <1>7, <1>9, <2>1, ConcatEqualIffEmpty
  <2>3. QED BY <2>2, SilentAre
<1>10. CASE b = <<st, fi, be, ro>> \o tt \o <<an, en>>
  <2> DEFINE h == <<st, fi, be, ro>>
  <2> DEFINE u == h \o tt
  <2> DEFINE w == <<an, en>>
  <2>1. Silent \subseteq Items BY DEF Silent
  <2>2. /\ h \in Seq(Items) /\ Len(h) = 4
        /\ h[1] = st /\ h[2] = fi /\ h[3] = be /\ h[4] = ro
    BY <1>3, <1>4, <2>1
  <2>3. tt \in Seq(Items) BY <1>7, <2>1, SeqMonotonic
  <2>4. w \in Seq(Items) /\ Len(w) = 2 /\ w[1] = an /\ w[2] = en BY <1>6
  <2> HIDE DEF h, w
  <2>5. \A i \in 1..4 : i = 1 \/ i = 2 \/ i = 3 \/ i = 4 OBVIOUS
  <2>6. \A i \in DOMAIN h : /\ h[i].type \notin Stages /\ Place(h[i]) \in {0, 1}
                            /\ Told(h[i]) => i = 2
    <3>1. \A x \in Silent : Place(x) = 0 /\ x.type \notin Stages
      BY PlaceIs DEF Silent, Told
    <3>2. QED BY <1>3, <1>5, <2>2, <2>5, <3>1 DEF Told
  <2>7. InOrder(h)
    <3>1. Place(h[1]) = 0 BY <1>3, <2>2, PlaceIs DEF Silent, Told
    <3>2. Place(h[2]) = 1 BY <1>5, <2>2
    <3>3. \A i \in DOMAIN h : i < 2 => i = 1 BY <2>2, <2>5
    <3>4. QED BY <2>6, <3>1, <3>2, <3>3 DEF InOrder
  <2>8. \A i \in DOMAIN tt : ~Told(tt[i]) /\ tt[i].type \notin Stages
    BY <1>7 DEF Silent
  <2>9. InOrder(tt) BY <2>8 DEF InOrder
  <2>10. u \in Seq(Items) /\ InOrder(u)
    BY <2>2, <2>3, <2>7, <2>8, <2>9, JoinInOrder
  <2>11. \A i \in DOMAIN u : \/ \E k \in DOMAIN h : u[i] = h[k]
                             \/ \E k \in DOMAIN tt : u[i] = tt[k]
    BY <2>2, <2>3, JoinIs
  <2>12. \A i \in DOMAIN u : u[i].type \notin Stages /\ Place(u[i]) \in {0, 1}
    BY <2>6, <2>8, <2>11, PlaceIs DEF Told
  <2>13. \A i \in DOMAIN w : i = 1 \/ i = 2 BY <2>4
  <2>14. InOrder(w) BY <1>6, <2>4, <2>13 DEF InOrder
  <2>15. u[1] = st /\ u # <<>>
    <3>1. /\ Len(h \o tt) = Len(h) + Len(tt)
          /\ \A i \in 1..Len(h) + Len(tt) :
               (h \o tt)[i] = IF i <= Len(h) THEN h[i] ELSE tt[i - Len(h)]
      BY <2>2, <2>3, ConcatProperties
    <3>2. Len(u) >= 4 /\ u[1] = st BY <2>2, <2>3, <3>1
    <3> HIDE DEF u
    <3>3. u # <<>> BY <2>10, <3>2, EmptySeq
    <3>4. QED BY <3>2, <3>3
  <2>16. OfTurn(u, g)
    <3>1. \A k \in DOMAIN h : h[k].type \in ToldTypes => h[k] = fi
      BY <2>2, <2>6, PlaceIs
    <3>2. \A k \in DOMAIN tt : tt[k].type \notin ToldTypes BY <2>8, PlaceIs
    <3>3. QED BY <1>4, <2>11, <3>1, <3>2 DEF OfTurn
  <2> DEFINE c == u \o w
  <2> HIDE DEF u
  <2>17. b = c BY <1>10 DEF u, h, w
  <2>18. \A j \in DOMAIN w : Told(w[j]) => w[j] = an BY <1>6, <2>4, <2>13
  <2>19. c \in Seq(Items) /\ InOrder(c)
    <3>1. \A i \in DOMAIN u, j \in DOMAIN w : Told(w[j]) =>
            Place(u[i]) < Place(w[j]) /\ u[i].type \notin Stages
      BY <1>6, <2>12, <2>18
    <3>2. QED BY <2>4, <2>10, <2>14, <3>1, JoinInOrder
  <2>20. c # <<>> /\ c[1] = st
    <3>1. /\ Len(u \o w) = Len(u) + Len(w)
          /\ \A i \in 1..Len(u) + Len(w) :
               (u \o w)[i] = IF i <= Len(u) THEN u[i] ELSE w[i - Len(u)]
      BY <2>4, <2>10, ConcatProperties
    <3>2. Len(u) \in Nat /\ Len(u) # 0 BY <2>10, <2>15, EmptySeq
    <3>3. Len(c) >= 1 /\ c[1] = u[1] BY <2>4, <3>1, <3>2
    <3> HIDE DEF c
    <3>4. c # <<>> BY <2>19, <3>3, EmptySeq
    <3>5. QED BY <2>15, <3>3, <3>4
  <2>21. OfTurn(c, g)
    <3>1. w[1].type \notin ToldTypes /\ w[2].type \notin ToldTypes
      BY <1>6, <2>4 DEF ToldTypes
    <3>2. \A i \in DOMAIN c : \/ \E k \in DOMAIN u : c[i] = u[k]
                              \/ \E k \in DOMAIN w : c[i] = w[k]
      BY <2>4, <2>10, JoinIs
    <3>3. QED BY <2>13, <2>16, <3>1, <3>2 DEF OfTurn
  <2> HIDE DEF c
  <2>22. \A i \in DOMAIN c : Told(c[i]) => Place(c[i]) >= 1
    BY PlaceIs DEF Told
  <2>23. st.type \notin Stages BY <1>3 DEF Silent
  <2>24. QED BY <2>17, <2>19, <2>20, <2>21, <2>22, <2>23 DEF BeginOK
<1>11. CASE b = <<Raises>>
  <2>1. b \in Seq(Silent) /\ b # <<>> BY <1>3, <1>11
  <2>2. QED BY <2>1, SilentAre
<1>12. QED BY <1>8, <1>9, <1>10, <1>11

\* What is left of a script.
LEMMA TailIs ==
  ASSUME NEW S, NEW s \in Seq(S), s # <<>>
  PROVE  /\ Head(s) = s[1] /\ 1 \in DOMAIN s /\ Tail(s) \in Seq(S)
         /\ \A i \in DOMAIN Tail(s) :
              /\ i \in Nat /\ i + 1 \in DOMAIN s /\ Tail(s)[i] = s[i + 1]
         /\ Len(Tail(s)) = Len(s) - 1
<1>1. /\ Head(s) \in S /\ Tail(s) \in Seq(S) /\ Len(Tail(s)) = Len(s) - 1
      /\ \A i \in 1..Len(Tail(s)) : Tail(s)[i] = s[i + 1]
  BY HeadTailProperties
<1>2. Len(s) \in Nat /\ Len(s) # 0 BY EmptySeq
<1>3. DOMAIN Tail(s) = 1..Len(s) - 1 /\ DOMAIN s = 1..Len(s) BY <1>1, <1>2
<1>4. Head(s) = s[1] OBVIOUS
<1>5. QED BY <1>1, <1>2, <1>3, <1>4

\* The scripts Unfolded gives tell what the stage stood for, and no more.
UnfoldOK(x, s, g) ==
  /\ x \in Seq(Items) /\ x # <<>> /\ x[1].type \notin Stages
  /\ InOrder(x) /\ OfTurn(x, g)
  /\ \A i \in DOMAIN x : Told(x[i]) =>
       \E k \in DOMAIN s : Told(s[k]) /\ Place(s[k]) <= Place(x[i])

LEMMA StageUnfolds ==
  ASSUME NEW s \in Seq(Items), s # <<>>, NEW g, InOrder(s), OfTurn(s, g),
         s[1].type \in Stages, NEW b,
         BeginOK(b, g, IF Told(s[1]) THEN Place(s[1]) ELSE 4)
  PROVE  UnfoldOK(b, s, g) /\ UnfoldOK(b \o Tail(s), s, g)
<1> DEFINE p == IF Told(s[1]) THEN Place(s[1]) ELSE 4
<1> DEFINE r == Tail(s)
<1>1. /\ b \in Seq(Items) /\ b # <<>> /\ b[1].type \notin Stages
      /\ InOrder(b) /\ OfTurn(b, g)
      /\ \A i \in DOMAIN b : Told(b[i]) => Place(b[i]) >= p
  BY DEF BeginOK
<1>2. /\ 1 \in DOMAIN s /\ r \in Seq(Items)
      /\ \A i \in DOMAIN r : i \in Nat /\ i + 1 \in DOMAIN s /\ r[i] = s[i + 1]
  BY TailIs
<1> HIDE DEF r
<1>3. \A i \in DOMAIN r : ~Told(r[i]) /\ i \in Nat /\ i + 1 \in DOMAIN s /\ r[i] = s[i + 1]
  <2> SUFFICES ASSUME NEW i \in DOMAIN r PROVE ~Told(r[i]) BY <1>2
  <2>1. i \in Nat /\ i + 1 \in DOMAIN s /\ r[i] = s[i + 1] BY <1>2
  <2>2. 1 < i + 1
    <3>1. i \in 1..Len(r) /\ Len(r) \in Nat BY <1>2
    <3>2. QED BY <3>1
  <2>3. QED BY <1>2, <2>1, <2>2 DEF InOrder
<1>4. \A i \in DOMAIN b : Told(b[i]) => Told(s[1]) /\ Place(s[1]) <= Place(b[i])
  <2> SUFFICES ASSUME NEW i \in DOMAIN b, Told(b[i])
               PROVE  Told(s[1]) /\ Place(s[1]) <= Place(b[i])
    OBVIOUS
  <2>1. Place(b[i]) \in 0..3 /\ Place(b[i]) >= p BY <1>1, PlaceIs
  <2>2. Told(s[1]) BY <2>1
  <2>3. QED BY <2>1, <2>2, PlaceIs
<1>5. UnfoldOK(b, s, g) BY <1>1, <1>2, <1>4 DEF UnfoldOK
<1> DEFINE c == b \o r
<1>6. \A i \in DOMAIN c : \/ i \in DOMAIN b /\ c[i] = b[i]
                          \/ \E k \in DOMAIN r : c[i] = r[k]
  BY <1>1, <1>2, JoinIs
<1>7. c \in Seq(Items) /\ c # <<>> BY <1>1, <1>2, ConcatEqualIffEmpty
<1>8. c[1] = b[1]
  <2>1. /\ Len(b \o r) = Len(b) + Len(r)
        /\ \A i \in 1..Len(b) + Len(r) :
             (b \o r)[i] = IF i <= Len(b) THEN b[i] ELSE r[i - Len(b)]
    BY <1>1, <1>2, ConcatProperties
  <2>2. Len(b) \in Nat /\ Len(b) # 0 /\ Len(r) \in Nat BY <1>1, <1>2, EmptySeq
  <2>3. QED BY <2>1, <2>2
<1>9. InOrder(r) BY <1>3 DEF InOrder
<1>10. InOrder(c) BY <1>1, <1>2, <1>3, <1>9, JoinInOrder
<1> HIDE DEF c
<1>11. OfTurn(c, g) BY <1>1, <1>3, <1>6, PlaceIs DEF OfTurn
<1>12. \A i \in DOMAIN c : Told(c[i]) => Told(s[1]) /\ Place(s[1]) <= Place(c[i])
  <2> SUFFICES ASSUME NEW i \in DOMAIN c, Told(c[i])
               PROVE  Told(s[1]) /\ Place(s[1]) <= Place(c[i])
    OBVIOUS
  <2>1. i \in DOMAIN b /\ c[i] = b[i] BY <1>3, <1>6
  <2>2. QED BY <1>4, <2>1
<1>13. UnfoldOK(c, s, g)
  BY <1>1, <1>2, <1>7, <1>8, <1>10, <1>11, <1>12 DEF UnfoldOK
<1>14. QED BY <1>5, <1>13 DEF c, r

LEMMA UnfoldedAre ==
  ASSUME NEW s \in Seq(Items), s # <<>>, NEW g \in Generation, NEW st \in Status,
         InOrder(s), OfTurn(s, g), NEW x \in Unfolded(s, g, st)
  PROVE  UnfoldOK(x, s, g)
<1>1. Head(s) = s[1] /\ 1 \in DOMAIN s BY TailIs
<1> DEFINE p == IF Told(s[1]) THEN Place(s[1]) ELSE 4
<1>2. ASSUME s[1].type \in Stages,
             NEW B, \A b \in B : BeginOK(b, g, p),
             \E b \in B : x = b \/ x = b \o Tail(s)
      PROVE  UnfoldOK(x, s, g)
  <2>1. PICK b \in B : x = b \/ x = b \o Tail(s) BY <1>2
  <2>2. BeginOK(b, g, p) BY <1>2
  <2>3. UnfoldOK(b, s, g) /\ UnfoldOK(b \o Tail(s), s, g)
    BY <1>2, <2>2, StageUnfolds
  <2>4. QED BY <2>1, <2>3
<1>3. CASE s[1].type = "recognises"
  <2>1. \E b \in Recognised(g, st) : x = b \/ x = b \o Tail(s)
    BY <1>1, <1>3 DEF Unfolded
  <2>2. p = 1 BY <1>3 DEF Told, Place
  <2>3. s[1].type \in Stages BY <1>3 DEF Stages
  <2>4. \A b \in Recognised(g, st) : BeginOK(b, g, p) BY <2>2, RecognisedAre
  <2> HIDE DEF p
  <2>5. QED BY <1>2, <2>1, <2>3, <2>4
<1>4. CASE s[1].type = "answers"
  <2>1. \E b \in Answers(g) : x = b \/ x = b \o Tail(s)
    BY <1>1, <1>4 DEF Unfolded
  <2>2. p = 2 BY <1>4 DEF Told, Place
  <2>3. s[1].type \in Stages BY <1>4 DEF Stages
  <2>4. \A b \in Answers(g) : BeginOK(b, g, p) BY <2>2, AnswersAre
  <2> HIDE DEF p
  <2>5. QED BY <1>2, <2>1, <2>3, <2>4
<1>5. CASE s[1].type = "speaks"
  <2>1. \E b \in Spoken(g) : x = b \/ x = b \o Tail(s)
    BY <1>1, <1>5 DEF Unfolded
  <2>3. s[1].type \in Stages BY <1>5 DEF Stages
  <2> HIDE DEF p
  <2>4. \A b \in Spoken(g) : BeginOK(b, g, p) BY SpokenAre, SilentAre
  <2>5. QED BY <1>2, <2>1, <2>3, <2>4
<1>6. CASE s[1].type = "ends"
  <2>1. \E b \in {Ended(g, st)} : x = b \/ x = b \o Tail(s)
    BY <1>1, <1>6 DEF Unfolded
  <2>3. s[1].type \in Stages BY <1>6 DEF Stages
  <2> HIDE DEF p
  <2>4. \A b \in {Ended(g, st)} : BeginOK(b, g, p) BY EndedIs, SilentAre
  <2>5. QED BY <1>2, <2>1, <2>3, <2>4
<1>7. CASE s[1].type \notin Stages
  <2>1. x = s BY <1>1, <1>7 DEF Unfolded, Stages
  <2>2. QED BY <1>7, <2>1, PlaceIs DEF UnfoldOK
<1>8. QED BY <1>3, <1>4, <1>5, <1>6, <1>7 DEF Stages

\* The scripts of the three kinds of task.
ScriptOK(s, g) ==
  s \in Seq(Items) /\ s # <<>> /\ InOrder(s) /\ OfTurn(s, g)

\* A script whose first item alone may tell something, and is a stage.
LEMMA StagedIsOK ==
  ASSUME NEW s \in Seq(Items), s # <<>>, NEW g,
         s[1].type \notin ToldTypes,
         \A i \in DOMAIN s : i # 1 => ~Told(s[i])
  PROVE  ScriptOK(s, g)
<1>1. \A i \in DOMAIN s : s[i].type \notin ToldTypes BY PlaceIs
<1>2. \A i \in DOMAIN s : i \in Nat /\ i >= 1
  <2>1. DOMAIN s = 1..Len(s) /\ Len(s) \in Nat OBVIOUS
  <2>2. QED BY <2>1
<1>3. InOrder(s) BY <1>2 DEF InOrder
<1>4. QED BY <1>1, <1>3 DEF ScriptOK, OfTurn

LEMMA UtteranceIs ==
  ASSUME NEW g \in Generation
  PROVE  ScriptOK(Utterance(g), g)
<1> DEFINE ru == SttStatusEvent("running", g, NoGeneration)
<1> DEFINE re == Stage("recognises")
<1>1. ru \in Items /\ ~Told(ru) /\ ru.type \notin Stages
  BY OtherItemsAre DEF Status
<1>2. "recognises" \in Stages BY DEF Stages
<1>3. re \in Items /\ re.type = "recognises" BY <1>2, OtherItemsAre DEF Status
<1>4. re.type \notin ToldTypes BY <1>3 DEF ToldTypes
<1>5. Utterance(g) = <<ru, re>> BY DEF Utterance
<1> HIDE DEF ru, re
<1> DEFINE s == <<ru, re>>
<1>6. s \in Seq(Items) /\ s # <<>> /\ DOMAIN s = {1, 2} /\ s[1] = ru /\ s[2] = re
  BY <1>1, <1>3
<1> HIDE DEF s
<1>7. InOrder(s)
  <2> SUFFICES ASSUME NEW i \in DOMAIN s, NEW j \in DOMAIN s, i < j, Told(s[j])
               PROVE  Place(s[i]) < Place(s[j]) /\ s[i].type \notin Stages
    BY DEF InOrder
  <2>1. i = 1 /\ j = 2 BY <1>6
  <2>2. Place(s[i]) = 0 BY <1>1, <1>6, <2>1, PlaceIs DEF Told
  <2>3. QED BY <1>1, <1>6, <2>1, <2>2 DEF Told
<1>8. OfTurn(s, g) BY <1>1, <1>4, <1>6, PlaceIs DEF OfTurn
<1>9. QED BY <1>5, <1>6, <1>7, <1>8 DEF ScriptOK, s

\* A stage followed by what is silent.
LEMMA StageFirst ==
  ASSUME NEW n \in Stages, NEW t \in Seq(Silent), NEW g
  PROVE  ScriptOK(<<Stage(n)>> \o t, g)
<1> DEFINE a == <<Stage(n)>>
<1>1. Stage(n) \in Items /\ Stage(n).type = n BY DEF Stage, Items
<1>2. /\ a \in Seq(Items) /\ a # <<>> /\ Len(a) = 1 /\ a[1] = Stage(n)
  BY <1>1
<1>3. t \in Seq(Items) BY SeqMonotonic DEF Silent
<1> HIDE DEF a
<1> DEFINE c == a \o t
<1>4. c \in Seq(Items) /\ c # <<>> BY <1>2, <1>3, ConcatEqualIffEmpty
<1>5. /\ Len(c) = Len(a) + Len(t)
      /\ \A i \in 1..Len(a) + Len(t) : c[i] = IF i <= Len(a) THEN a[i] ELSE t[i - Len(a)]
  BY <1>2, <1>3, ConcatProperties
<1>6. c[1] = Stage(n) BY <1>2, <1>3, <1>5
<1>7. Stage(n).type \notin ToldTypes BY <1>1 DEF Stages, ToldTypes
<1>8. \A i \in DOMAIN c : i # 1 => ~Told(c[i])
  <2> SUFFICES ASSUME NEW i \in DOMAIN c, i # 1 PROVE ~Told(c[i]) OBVIOUS
  <2>1. \/ i \in DOMAIN a
        \/ i - Len(a) \in DOMAIN t /\ c[i] = t[i - Len(a)]
    BY <1>2, <1>3, JoinIs
  <2>2. i \notin DOMAIN a BY <1>2
  <2>3. QED BY <2>1, <2>2 DEF Silent
<1> HIDE DEF c
<1>9. ScriptOK(c, g) BY <1>4, <1>6, <1>7, <1>8, StagedIsOK
<1>10. QED BY <1>9 DEF c, a

LEMMA PairIs ==
  ASSUME NEW S, NEW a \in S, NEW b \in S
  PROVE  <<a>> \o <<b>> = <<a, b>>
<1> DEFINE u == <<a>>
<1> DEFINE v == <<b>>
<1> DEFINE w == <<a, b>>
<1>1. /\ u \in Seq(S) /\ Len(u) = 1 /\ u[1] = a
      /\ v \in Seq(S) /\ Len(v) = 1 /\ v[1] = b
      /\ w \in Seq(S) /\ Len(w) = 2 /\ w[1] = a /\ w[2] = b
  OBVIOUS
<1> HIDE DEF u, v, w
<1>2. /\ u \o v \in Seq(S) /\ Len(u \o v) = Len(u) + Len(v)
      /\ \A i \in 1..Len(u) + Len(v) :
           (u \o v)[i] = IF i <= Len(u) THEN u[i] ELSE v[i - Len(u)]
  BY <1>1, ConcatProperties
<1>3. Len(u \o v) = 2 /\ (u \o v)[1] = a /\ (u \o v)[2] = b BY <1>1, <1>2
<1>4. \A i \in 1..2 : i = 1 \/ i = 2 OBVIOUS
<1>5. \A i \in 1..Len(u \o v) : (u \o v)[i] = w[i] BY <1>1, <1>3, <1>4
<1>6. u \o v = w BY <1>1, <1>2, <1>3, <1>5, SeqEqual
<1>7. QED BY <1>6 DEF u, v, w

LEMMA TextTurnIs ==
  ASSUME NEW g \in Generation, NEW s \in Status
  PROVE  ScriptOK(TextTurn(g, s), g)
<1> DEFINE an == Stage("answers")
<1> DEFINE be == Becomes("listening")
<1> DEFINE tr == Transition(s, "listening", g)
<1> DEFINE me == TurnMetricsEvent(g, g, FALSE)
<1>1. "listening" \in Status /\ "answers" \in Stages BY DEF Status, Stages
<1>2. be \in Silent /\ Measured \in Silent /\ me \in Silent
  BY <1>1, OtherItemsAre DEF Silent
<1>3. tr \in Seq(Silent) BY <1>1, TransitionSilent
<1>4. an \in Items BY <1>1 DEF Stage, Items
<1>5. TextTurn(g, s) = <<an, be>> \o tr \o <<Measured, me>> BY DEF TextTurn
<1> DEFINE t == <<be>> \o tr \o <<Measured, me>>
<1>6. t \in Seq(Silent)
  <2> HIDE DEF be, tr, me
  <2>1. <<be>> \in Seq(Silent) /\ <<Measured, me>> \in Seq(Silent) BY <1>2
  <2>2. <<be>> \o tr \in Seq(Silent) BY <1>3, <2>1
  <2>3. QED BY <2>1, <2>2
<1>7. ScriptOK(<<an>> \o t, g) BY <1>1, <1>6, StageFirst
<1>8. <<an>> \o t = TextTurn(g, s)
  <2>1. Silent \subseteq Items BY DEF Silent
  <2>2. tr \in Seq(Items) BY <1>3, <2>1, SeqMonotonic
  <2> HIDE DEF an, be, tr, me
  <2>3. /\ <<an>> \in Seq(Items) /\ <<be>> \in Seq(Items)
        /\ <<Measured, me>> \in Seq(Items) /\ <<an, be>> \in Seq(Items)
    BY <1>2, <1>4, <2>1
  <2>4. <<an>> \o <<be>> = <<an, be>>
    BY <1>2, <1>4, <2>1, PairIs
  <2>5. <<be>> \o tr \in Seq(Items) BY <2>2, <2>3
  <2>6. <<an>> \o ((<<be>> \o tr) \o <<Measured, me>>)
          = (<<an>> \o (<<be>> \o tr)) \o <<Measured, me>>
    BY <2>3, <2>5, ConcatAssociative
  <2>7. <<an>> \o (<<be>> \o tr) = (<<an>> \o <<be>>) \o tr
    BY <2>2, <2>3, ConcatAssociative
  <2>8. QED BY <1>5, <2>4, <2>6, <2>7
<1>9. QED BY <1>7, <1>8

LEMMA SayIs ==
  ASSUME NEW g \in Generation, NEW s \in Status
  PROVE  ScriptOK(Say(g, s), g)
<1> DEFINE sp == Stage("speaks")
<1> DEFINE be == Becomes("listening")
<1> DEFINE tr == Transition(s, "listening", g)
<1>1. "listening" \in Status /\ "speaks" \in Stages BY DEF Status, Stages
<1>2. be \in Silent BY <1>1, OtherItemsAre DEF Silent
<1>3. tr \in Seq(Silent) BY <1>1, TransitionSilent
<1>4. sp \in Items BY <1>1 DEF Stage, Items
<1>5. Say(g, s) = <<sp, be>> \o tr BY DEF Say
<1> DEFINE t == <<be>> \o tr
<1>6. t \in Seq(Silent)
  <2> HIDE DEF be, tr
  <2>1. <<be>> \in Seq(Silent) BY <1>2
  <2>2. QED BY <1>3, <2>1
<1>7. ScriptOK(<<sp>> \o t, g) BY <1>1, <1>6, StageFirst
<1>8. <<sp>> \o t = Say(g, s)
  <2>1. Silent \subseteq Items BY DEF Silent
  <2>2. tr \in Seq(Items) BY <1>3, <2>1, SeqMonotonic
  <2> HIDE DEF sp, be, tr
  <2>3. <<sp>> \in Seq(Items) /\ <<be>> \in Seq(Items) BY <1>2, <1>4, <2>1
  <2>4. <<sp>> \o <<be>> = <<sp, be>>
    BY <1>2, <1>4, <2>1, PairIs
  <2>5. <<sp>> \o (<<be>> \o tr) = (<<sp>> \o <<be>>) \o tr
    BY <2>2, <2>3, ConcatAssociative
  <2>6. QED BY <1>5, <2>4, <2>5
<1>9. QED BY <1>7, <1>8

-----------------------------------------------------------------------------
(* What the handler sends, and the messages it takes.                      *)

\* The events of a handler that neither interrupts nor queues; the events of
\* one that does not queue.
Calm ==
  StatusEvents \cup VadEvents \cup SttEvents
    \cup PlainEvents({"session.created", "session.ready"})
Unqueued == Calm \cup MetricsEvents \cup PlainEvents(NoticePlain)

LEMMA CalmIs ==
  /\ Calm \subseteq Unqueued /\ Unqueued \subseteq Notices
  /\ Notices \subseteq Under /\ TaskEvents \subseteq Under
  /\ \A e \in Notices : ~Told(e)
<1>1. Calm \subseteq Unqueued BY DEF Unqueued
<1>2. Unqueued \subseteq Notices
  <2>1. PlainEvents({"session.created", "session.ready"}) \subseteq PlainEvents(NoticePlain)
    BY DEF PlainEvents, NoticePlain
  <2>2. QED BY <2>1 DEF Unqueued, Calm, Notices
<1>3. Notices \subseteq Under /\ TaskEvents \subseteq Under BY DEF Under
<1>4. \A e \in Notices : e.type \in
        NoticePlain \cup {"session.status", "vad.state", "stt.status",
                          "turn.queued", "turn.metrics"}
  BY DEF Notices, StatusEvents, VadEvents, SttEvents, QueueEvents,
         MetricsEvents, PlainEvents
<1>5. \A e \in Notices : ~Told(e)
  BY <1>4 DEF NoticePlain, Told, Place
<1>6. QED BY <1>1, <1>2, <1>3, <1>5

LEMMA QueueingIs ==
  ASSUME NEW s \in Status, turn + 1 \in Generation
  PROVE  Queueing(s) \in Seq(Calm)
<1>1. "transcribing" \in Status /\ NoGeneration \in MaybeGeneration
      /\ turn + 1 \in MaybeGeneration
  BY DEF Status, MaybeGeneration
<1>2. Transition(s, "transcribing", NoGeneration) \in Seq(StatusEvents)
  BY <1>1, TransitionIs
<1>3. Transition(s, "transcribing", NoGeneration) \in Seq(Calm)
  BY <1>2, SeqMonotonic DEF Calm
<1>4. SttStatusEvent("queued", turn + 1, NoGeneration) \in SttEvents
  BY <1>1 DEF SttStatusEvent, SttEvents
<1>5. <<SttStatusEvent("queued", turn + 1, NoGeneration)>> \in Seq(Calm)
  BY <1>4 DEF Calm
<1>6. QED BY <1>3, <1>5 DEF Queueing

LEMMA InterruptionIs ==
  ASSUME status \in Status, job.gen \in MaybeGeneration
  PROVE  Interruption \in Seq(Unqueued) /\ Before \in Seq(Unqueued)
<1> DEFINE g == IF Responding THEN job.gen ELSE NoGeneration
<1> DEFINE t1 == Transition(status, "interrupted", NoGeneration)
<1> DEFINE t2 == Transition(Move(status, "interrupted"), "listening", NoGeneration)
<1> DEFINE m == IF traced THEN <<TurnMetricsEvent(g, g, TRUE)>> ELSE <<>>
<1>1. {"interrupted", "listening"} \subseteq Status BY DEF Status
<1>2. g \in MaybeGeneration /\ NoGeneration \in MaybeGeneration
  BY DEF MaybeGeneration
<1>3. t1 \in Seq(StatusEvents) /\ t2 \in Seq(StatusEvents)
  BY <1>1, <1>2, MoveIs, TransitionIs
<1>4. t1 \in Seq(Unqueued) /\ t2 \in Seq(Unqueued)
  BY <1>3, SeqMonotonic DEF Unqueued, Calm
<1>5. ConversationInterruptedEvent(g, g) \in PlainEvents(NoticePlain)
  BY <1>2 DEF ConversationInterruptedEvent, BaseEvent, PlainEvents, NoticePlain
<1>6. TurnMetricsEvent(g, g, TRUE) \in MetricsEvents
  BY <1>2 DEF TurnMetricsEvent, MetricsEvents
<1>7. <<ConversationInterruptedEvent(g, g)>> \in Seq(Unqueued)
  BY <1>5 DEF Unqueued
<1>8. m \in Seq(Unqueued)
  <2>1. TurnMetricsEvent(g, g, TRUE) \in Unqueued BY <1>6 DEF Unqueued
  <2>2. <<>> \in Seq(Unqueued) BY EmptySeq
  <2>3. \A x \in Unqueued : <<x>> \in Seq(Unqueued) OBVIOUS
  <2>4. <<TurnMetricsEvent(g, g, TRUE)>> \in Seq(Unqueued) BY <2>1, <2>3, Zenon
  <2>5. QED BY <2>2, <2>4
<1>9. Interruption = t1 \o t2 \o <<ConversationInterruptedEvent(g, g)>> \o m
  BY DEF Interruption
<1> HIDE DEF t1, t2, g, m
<1>10. t1 \o t2 \o <<ConversationInterruptedEvent(g, g)>> \in Seq(Unqueued)
  BY <1>4, <1>7
<1>11. Interruption \in Seq(Unqueued) BY <1>8, <1>9, <1>10
<1>12. QED BY <1>11 DEF Before

LEMMA WithGenerationIs ==
  ASSUME NEW n \in Seq(Unqueued), NEW g \in MaybeGeneration
  PROVE  WithGeneration(n, g) \in Seq(Unqueued)
<1>1. \A e \in Unqueued : [e EXCEPT !.gen = g] \in Unqueued
  <2>1. \A e \in StatusEvents : [e EXCEPT !.gen = g] \in StatusEvents
    BY DEF StatusEvents
  <2>2. \A e \in VadEvents : [e EXCEPT !.gen = g] \in VadEvents
    BY DEF VadEvents
  <2>3. \A e \in SttEvents : [e EXCEPT !.gen = g] \in SttEvents
    BY DEF SttEvents
  <2>4. \A e \in MetricsEvents : [e EXCEPT !.gen = g] \in MetricsEvents
    BY DEF MetricsEvents
  <2>5. \A e \in PlainEvents({"session.created", "session.ready"}) :
          [e EXCEPT !.gen = g] \in PlainEvents({"session.created", "session.ready"})
    BY DEF PlainEvents
  <2>6. \A e \in PlainEvents(NoticePlain) :
          [e EXCEPT !.gen = g] \in PlainEvents(NoticePlain)
    BY DEF PlainEvents
  <2>7. QED BY <2>1, <2>2, <2>3, <2>4, <2>5, <2>6 DEF Unqueued, Calm
<1>2. DOMAIN n = 1..Len(n) /\ Len(n) \in Nat /\ \A i \in 1..Len(n) : n[i] \in Unqueued
  OBVIOUS
<1>3. WithGeneration(n, g) \in [1..Len(n) -> Unqueued]
  BY <1>1, <1>2 DEF WithGeneration
<1>4. QED BY <1>2, <1>3, SeqDef

\* The messages, and those among them that may begin a turn.
Message == {"start", "append", "commit", "stop", "reply", "say"}
Asks == {"append", "reply", "say"}
AsksIn(messages) == {i \in DOMAIN messages : messages[i] \in Asks}

LEMMA AsksAreFinite ==
  ASSUME NEW m \in Seq(Message)
  PROVE  IsFiniteSet(AsksIn(m)) /\ Cardinality(AsksIn(m)) \in Nat
<1>1. IsFiniteSet(1..Len(m)) BY FS_Interval
<1>2. AsksIn(m) \in SUBSET (1..Len(m)) BY DEF AsksIn
<1>3. IsFiniteSet(AsksIn(m)) BY <1>1, <1>2, FS_Subset
<1>4. QED BY <1>3, FS_CardinalityType

\* More messages, of which one at most asks.
LEMMA AsksMore ==
  ASSUME NEW m \in Seq(Message), NEW t \in Seq(Message), NEW k,
         \A i \in DOMAIN t : t[i] \in Asks => i = k
  PROVE  Cardinality(AsksIn(m \o t)) <= Cardinality(AsksIn(m)) + 1
<1> DEFINE c == m \o t
<1>1. c \in Seq(Message) OBVIOUS
<1>2. \A i \in DOMAIN c : \/ i \in DOMAIN m /\ c[i] = m[i]
                          \/ /\ i - Len(m) \in DOMAIN t /\ c[i] = t[i - Len(m)]
                             /\ i \in Int /\ Len(m) \in Int
  <2>1. /\ Len(c) = Len(m) + Len(t)
        /\ \A i \in 1..Len(m) + Len(t) : c[i] = IF i <= Len(m) THEN m[i] ELSE t[i - Len(m)]
    BY ConcatProperties
  <2>2. Len(m) \in Nat /\ Len(t) \in Nat OBVIOUS
  <2> HIDE DEF c
  <2>3. DOMAIN c = 1..Len(c) /\ DOMAIN m = 1..Len(m) /\ DOMAIN t = 1..Len(t)
    BY <1>1
  <2>4. QED BY <2>1, <2>2, <2>3
<1> HIDE DEF c
<1>3. AsksIn(c) \subseteq AsksIn(m) \cup {Len(m) + k}
  <2> SUFFICES ASSUME NEW i \in AsksIn(c), i \notin AsksIn(m) PROVE i = Len(m) + k
    OBVIOUS
  <2>1. i \in DOMAIN c /\ c[i] \in Asks BY DEF AsksIn
  <2>2. /\ i - Len(m) \in DOMAIN t /\ t[i - Len(m)] \in Asks
        /\ i \in Int /\ Len(m) \in Int
    BY <1>2, <2>1 DEF AsksIn
  <2>3. i - Len(m) = k BY <2>2
  <2>4. QED BY <2>2, <2>3
<1>4. IsFiniteSet(AsksIn(m)) /\ Cardinality(AsksIn(m)) \in Nat BY AsksAreFinite
<1>5. /\ IsFiniteSet(AsksIn(m) \cup {Len(m) + k})
      /\ Cardinality(AsksIn(m) \cup {Len(m) + k}) <= Cardinality(AsksIn(m)) + 1
  <2>1. /\ IsFiniteSet(AsksIn(m) \cup {Len(m) + k})
        /\ Cardinality(AsksIn(m) \cup {Len(m) + k}) =
             IF Len(m) + k \in AsksIn(m) THEN Cardinality(AsksIn(m))
             ELSE Cardinality(AsksIn(m)) + 1
    BY <1>4, FS_AddElement
  <2>2. QED BY <1>4, <2>1
<1>6. Cardinality(AsksIn(c)) <= Cardinality(AsksIn(m) \cup {Len(m) + k})
  BY <1>3, <1>5, FS_Subset
<1>7. Cardinality(AsksIn(c)) \in Nat BY <1>1, AsksAreFinite
<1>8. Cardinality(AsksIn(m) \cup {Len(m) + k}) \in Nat BY <1>5, FS_CardinalityType
<1>9. QED BY <1>4, <1>5, <1>6, <1>7, <1>8 DEF c

\* More messages that ask nothing.
LEMMA AsksSame ==
  ASSUME NEW m \in Seq(Message), NEW t \in Seq(Message),
         \A i \in DOMAIN t : t[i] \notin Asks
  PROVE  Cardinality(AsksIn(m \o t)) <= Cardinality(AsksIn(m))
<1> DEFINE c == m \o t
<1>1. AsksIn(c) \subseteq AsksIn(m)
  <2>1. /\ Len(c) = Len(m) + Len(t) /\ c \in Seq(Message)
        /\ \A i \in 1..Len(m) + Len(t) : c[i] = IF i <= Len(m) THEN m[i] ELSE t[i - Len(m)]
    BY ConcatProperties
  <2>2. Len(m) \in Nat /\ Len(t) \in Nat OBVIOUS
  <2> HIDE DEF c
  <2>3. DOMAIN c = 1..Len(c) /\ DOMAIN m = 1..Len(m) /\ DOMAIN t = 1..Len(t)
    BY <2>1
  <2>4. \A i \in DOMAIN c : \/ i \in DOMAIN m /\ c[i] = m[i]
                            \/ i - Len(m) \in DOMAIN t /\ c[i] = t[i - Len(m)]
    BY <2>1, <2>2, <2>3
  <2>5. QED BY <2>4 DEF AsksIn
<1>2. IsFiniteSet(AsksIn(m)) BY AsksAreFinite
<1> HIDE DEF c
<1>3. QED BY <1>1, <1>2, FS_Subset DEF c

\* One message fewer.
LEMMA AsksFewer ==
  ASSUME NEW m \in Seq(Message), m # <<>>
  PROVE  /\ Cardinality(AsksIn(Tail(m))) <= Cardinality(AsksIn(m))
         /\ Head(m) \in Asks =>
              Cardinality(AsksIn(Tail(m))) + 1 <= Cardinality(AsksIn(m))
<1> DEFINE t == Tail(m)
<1>1. /\ Head(m) = m[1] /\ 1 \in DOMAIN m /\ t \in Seq(Message)
      /\ \A i \in DOMAIN t : i \in Nat /\ i + 1 \in DOMAIN m /\ t[i] = m[i + 1]
  BY TailIs
<1>2. \A i \in DOMAIN t : i >= 1
  <2>1. DOMAIN t = 1..Len(t) /\ Len(t) \in Nat BY <1>1
  <2>2. QED BY <2>1
<1> HIDE DEF t
<1>3. IsFiniteSet(AsksIn(m)) /\ Cardinality(AsksIn(m)) \in Nat
      /\ IsFiniteSet(AsksIn(t)) /\ Cardinality(AsksIn(t)) \in Nat
  BY <1>1, AsksAreFinite
<1> DEFINE f == [i \in AsksIn(t) |-> i + 1]
<1> DEFINE R == AsksIn(m) \ {1}
<1>4. f \in Injection(AsksIn(t), R)
  <2>1. \A i \in AsksIn(t) : i \in Nat /\ i + 1 \in R
    BY <1>1, <1>2 DEF AsksIn
  <2>2. QED BY <2>1 DEF Injection, IsInjective
<1>5. /\ IsFiniteSet(R)
      /\ Cardinality(R) = IF 1 \in AsksIn(m) THEN Cardinality(AsksIn(m)) - 1
                          ELSE Cardinality(AsksIn(m))
  BY <1>3, FS_RemoveElement
<1> HIDE DEF f, R
<1>6. Cardinality(AsksIn(t)) <= Cardinality(R) BY <1>4, <1>5, FS_Injection
<1>7. Head(m) \in Asks => 1 \in AsksIn(m) BY <1>1 DEF AsksIn
<1>8. QED BY <1>3, <1>5, <1>6, <1>7 DEF t

-----------------------------------------------------------------------------
(* Each variable keeps its type, and no more is asked than there are       *)
(* generations.                                                            *)

\* The job is none, or the answer of the last turn begun.
JobIs ==
  /\ job \in [kind : {"none", "utterance", "reply", "say"}, gen : MaybeGeneration,
              lead : Seq(Calm), script : Seq(Items), ahead : BOOLEAN]
  /\ job.kind = "none" => job = NoJob
  /\ job.kind # "none" =>
       turn \in Generation /\ job.gen = turn /\ ScriptOK(job.script, turn)

\* What the handler may have to send, and the tasks, under each policy.
NoticesOf(policy) ==
  IF policy = "enqueue" THEN Calm \cup QueueEvents ELSE Unqueued
TasksOf(policy) ==
  {"none", "utterance"} \cup (IF policy = "enqueue" THEN {} ELSE {"reply", "say"})
MessagesOf(policy) ==
  {"start", "append", "commit"}
    \cup (IF policy = "enqueue" THEN {} ELSE {"stop", "reply", "say"})

\* Every turn begun, queued, heard or still to be asked for has a number.
Holding == IF heard = "silence" THEN 0 ELSE 1
WithinBound ==
  turn + queued + Holding + Cardinality(AsksIn(up)) + left.append + left.request
    <= MaxAsked

TypeInv ==
  /\ TypeOK /\ JobIs /\ WithinBound
  /\ up \in Seq(MessagesOf(left.policy)) /\ chain \in Seq(Under)
  /\ notices \in Seq(NoticesOf(left.policy))
  /\ job.kind \in TasksOf(left.policy)
  /\ left.policy = "send_now" => queued = 0

LEMMA MessagesAre ==
  ASSUME NEW p, NEW m \in Seq(MessagesOf(p))
  PROVE  m \in Seq(Message)
<1>1. MessagesOf(p) \subseteq Message BY DEF MessagesOf, Message
<1>2. QED BY <1>1, SeqMonotonic

\* The numbers of the bound.
LEMMA BoundIs ==
  ASSUME TypeInv
  PROVE  /\ turn \in Nat /\ queued \in Nat /\ Holding \in {0, 1}
         /\ left.append \in Nat /\ left.request \in Nat /\ MaxAsked \in Nat
         /\ Cardinality(AsksIn(up)) \in Nat /\ up \in Seq(Message)
<1>1. MaxAsked \in Nat BY GateAssumption
<1>2. turn \in Nat BY <1>1 DEF TypeInv, TypeOK, MaybeGeneration, Generation, NoGeneration
<1>3. queued \in Nat BY <1>1 DEF TypeInv, TypeOK
<1>4. left.append \in Nat /\ left.request \in Nat BY DEF TypeInv, TypeOK, Conversation
<1>5. up \in Seq(Message) BY MessagesAre DEF TypeInv
<1>6. Cardinality(AsksIn(up)) \in Nat BY <1>5, AsksAreFinite
<1>7. QED BY <1>1, <1>2, <1>3, <1>4, <1>5, <1>6 DEF Holding

LEMMA InitTypeInv == Init => TypeInv
<1> SUFFICES ASSUME Init PROVE TypeInv OBVIOUS
<1> USE DEF Init
<1>1. MaxAsked \in Nat BY GateAssumption
<1>2. left \in Conversation /\ left.append + left.request <= MaxAsked
  BY ClientAssumption
<1>3. AsksIn(up) = {} BY DEF AsksIn, Asks
<1>4. Cardinality(AsksIn(up)) = 0 BY <1>3, FS_EmptySet
<1>5. WithinBound
  BY <1>1, <1>2, <1>4 DEF WithinBound, Holding, Conversation, NoGeneration
<1>6. createVoiceSessionState \in VoiceSessionState
  BY DEF createVoiceSessionState, VoiceSessionState, NoPending, PendingPhase,
         MaybeGeneration, TurnPhase
<1>7. TypeOK
  <2>1. {clock, attached, owed} \subseteq BOOLEAN OBVIOUS
  <2>2. traced \in BOOLEAN OBVIOUS
  <2>3. status \in Status /\ turn \in MaybeGeneration BY DEF Status, MaybeGeneration
  <2>4. owner \in [active : MaybeGeneration, rejected : Seq(Generation),
                   suppress : BOOLEAN]
    BY DEF OpenGate, MaybeGeneration
  <2>5. queued \in 0..MaxAsked BY <1>1
  <2>6. job.kind = "none" BY DEF NoJob
  <2>7. QED BY <1>2, <1>6, <2>1, <2>2, <2>3, <2>4, <2>5, <2>6 DEF TypeOK
<1>8. JobIs BY DEF JobIs, NoJob, MaybeGeneration
<1>9. up \in Seq(MessagesOf(left.policy)) BY DEF MessagesOf
<1>10. job.kind \in TasksOf(left.policy) BY DEF NoJob, TasksOf
<1>11. QED BY <1>5, <1>7, <1>8, <1>9, <1>10 DEF TypeInv

\* What an action of the handler leaves behind.
Handled ==
  /\ status' \in Status /\ traced' \in BOOLEAN
  /\ heard' \in {"silence", "noise", "speech"}
  /\ queued' \in Nat /\ turn' \in Nat
  /\ turn' + queued' + Holding' <=
       turn + queued + Holding + (IF Head(up) \in Asks THEN 1 ELSE 0)
  /\ notices' \in Seq(NoticesOf(left.policy))
  /\ job'.kind \in TasksOf(left.policy)
  /\ left.policy = "send_now" => queued' = 0
  /\ turn' \in MaybeGeneration => JobIs'

LEMMA SumIs ==
  ASSUME NEW M \in Nat, NEW l \in Nat, NEW r \in Nat,
         NEW t \in Nat, NEW q \in Nat, NEW h \in Nat, NEW c \in Nat,
         NEW t2 \in Nat, NEW q2 \in Nat, NEW h2 \in Nat, NEW c2 \in Nat,
         NEW k \in {0, 1},
         t + q + h + c + l + r <= M, t2 + q2 + h2 <= t + q + h + k, c2 + k <= c
  PROVE  t2 + q2 + h2 + c2 + l + r <= M /\ t2 <= M /\ q2 <= M
  OBVIOUS

LEMMA HandledKeepsType ==
  ASSUME TypeInv, up # <<>>, Handled, up' = Tail(up),
         UNCHANGED <<chain, link, owner, storeVars, attached, owed, left>>
  PROVE  TypeInv'
<1> USE DEF storeVars
<1>1. /\ Tail(up) \in Seq(MessagesOf(left.policy)) /\ Head(up) \in MessagesOf(left.policy)
  BY DEF TypeInv
<1>2. /\ Cardinality(AsksIn(Tail(up))) <= Cardinality(AsksIn(up))
      /\ Head(up) \in Asks =>
           Cardinality(AsksIn(Tail(up))) + 1 <= Cardinality(AsksIn(up))
  BY BoundIs, AsksFewer
<1>3. Tail(up) \in Seq(Message) BY <1>1, MessagesAre
<1>4. Cardinality(AsksIn(Tail(up))) \in Nat BY <1>3, AsksAreFinite
<1>5. /\ turn' + queued' + Holding' + Cardinality(AsksIn(Tail(up))) + left.append
           + left.request <= MaxAsked
      /\ turn' <= MaxAsked /\ queued' <= MaxAsked
  <2>1. Holding' \in {0, 1} BY DEF Holding
  <2>2. turn' \in Nat /\ queued' \in Nat /\ turn' + queued' + Holding' <=
          turn + queued + Holding + (IF Head(up) \in Asks THEN 1 ELSE 0)
    BY DEF Handled
  <2>3. turn + queued + Holding + Cardinality(AsksIn(up)) + left.append
          + left.request <= MaxAsked
    BY DEF TypeInv, WithinBound
  <2> DEFINE k == IF Head(up) \in Asks THEN 1 ELSE 0
  <2> DEFINE c == Cardinality(AsksIn(up))
  <2> DEFINE c2 == Cardinality(AsksIn(Tail(up)))
  <2> DEFINE h == Holding
  <2> DEFINE h2 == Holding'
  <2>4. k \in {0, 1} /\ c \in Nat /\ c2 \in Nat /\ c2 + k <= c
    BY <1>2, <1>4, BoundIs
  <2>5. h \in Nat /\ h2 \in Nat BY <2>1, BoundIs
  <2>6. turn' + queued' + h2 <= turn + queued + h + k BY <2>2
  <2>7. turn + queued + h + c + left.append + left.request <= MaxAsked BY <2>3
  <2>10. /\ turn \in Nat /\ queued \in Nat /\ left.append \in Nat
         /\ left.request \in Nat /\ MaxAsked \in Nat
    BY BoundIs
  <2> DEFINE t2 == turn'
  <2> DEFINE q2 == queued'
  <2>11. t2 \in Nat /\ q2 \in Nat /\ t2 + q2 + h2 <= turn + queued + h + k
    BY <2>2, <2>6
  <2> HIDE DEF k, c, c2, h, h2, t2, q2
  <2>8. t2 + q2 + h2 + c2 + left.append + left.request <= MaxAsked
          /\ t2 <= MaxAsked /\ q2 <= MaxAsked
    BY <2>4, <2>5, <2>7, <2>10, <2>11, SumIs
  <2>9. QED BY <2>8 DEF c2, h2, t2, q2
<1>6. WithinBound' BY <1>5 DEF WithinBound
<1>7. turn' \in MaybeGeneration /\ queued' \in 0..MaxAsked
  <2>1. turn' \in Nat /\ queued' \in Nat BY DEF Handled
  <2>2. QED BY <1>5, <2>1, BoundIs DEF MaybeGeneration, Generation, NoGeneration
<1>8. JobIs' BY <1>7 DEF Handled
<1>9. TypeOK' BY <1>7, <1>8 DEF TypeInv, TypeOK, Handled, JobIs
<1>10. QED BY <1>1, <1>6, <1>8, <1>9 DEF TypeInv, Handled

\* A turn begun by an utterance.
LEMMA BegunIs ==
  ASSUME TypeInv, NEW s \in Status, NEW lead \in Seq(Calm), StartUtterance(s, lead)
  PROVE  /\ status' \in Status /\ traced' = TRUE /\ turn' = turn + 1
         /\ job'.kind = "utterance" /\ job'.script = Utterance(turn')
         /\ job'.lead = lead /\ job'.gen = turn'
         /\ turn' \in MaybeGeneration => JobIs'
<1>1. "transcribing" \in Status BY DEF Status
<1>2. status' \in Status BY <1>1, MoveIs DEF StartUtterance
<1>3. turn' \in MaybeGeneration => turn' \in Generation
  BY BoundIs DEF StartUtterance, MaybeGeneration, NoGeneration
<1>4. ASSUME turn' \in Generation PROVE JobIs'
  <2>1. ScriptOK(Utterance(turn'), turn') BY <1>4, UtteranceIs
  <2>2. Utterance(turn') \in Seq(Items) BY <2>1 DEF ScriptOK
  <2>3. job' = [kind |-> "utterance", gen |-> turn', lead |-> lead,
                script |-> Utterance(turn'), ahead |-> TRUE]
    BY DEF StartUtterance
  <2>4. turn' \in MaybeGeneration BY <1>4 DEF MaybeGeneration
  <2>5. QED BY <1>4, <2>1, <2>2, <2>3, <2>4 DEF JobIs
<1>5. /\ traced' = TRUE /\ turn' = turn + 1
      /\ job'.kind = "utterance" /\ job'.script = Utterance(turn')
      /\ job'.lead = lead /\ job'.gen = turn'
  BY DEF StartUtterance
<1>6. QED BY <1>2, <1>3, <1>4, <1>5

\* The policy of the conversation, and what it excludes.
LEMMA PolicyIs ==
  ASSUME TypeInv
  PROVE  /\ left.policy = "send_now" \/ left.policy = "enqueue"
         /\ left.policy = "enqueue" => NoticesOf(left.policy) = Calm \cup QueueEvents
         /\ left.policy = "send_now" => NoticesOf(left.policy) = Unqueued
         /\ Calm \subseteq NoticesOf(left.policy)
         /\ "utterance" \in TasksOf(left.policy)
<1>1. left.policy = "send_now" \/ left.policy = "enqueue"
  BY DEF TypeInv, TypeOK, Conversation, Policy
<1>2. QED BY <1>1, CalmIs DEF NoticesOf, TasksOf

LEMMA ClearedIs ==
  ASSUME TypeInv
  PROVE  /\ Cleared \in Status /\ status \in Status /\ job.gen \in MaybeGeneration
         /\ Before \in Seq(Unqueued)
<1>1. status \in Status /\ job.gen \in MaybeGeneration
  BY DEF TypeInv, TypeOK, JobIs
<1>2. Cleared \in Status BY <1>1, RecoveredIs DEF Cleared
<1>3. QED BY <1>1, <1>2, InterruptionIs

LEMMA CommitIsHandled ==
  ASSUME TypeInv, NEW events \in Seq(Calm), heard # "silence", Commit(events)
  PROVE  Handled
<1>1. heard' = "silence" /\ Holding = 1 /\ Holding' = 0 BY DEF Commit, Holding
<1>2. turn + 1 \in Generation
  <2>1. turn + queued + Holding + Cardinality(AsksIn(up)) + left.append + left.request
          <= MaxAsked
    BY DEF TypeInv, WithinBound
  <2> DEFINE c == Cardinality(AsksIn(up))
  <2>2. /\ turn \in Nat /\ queued \in Nat /\ left.append \in Nat
        /\ left.request \in Nat /\ MaxAsked \in Nat /\ c \in Nat
    BY BoundIs
  <2>3. turn + queued + 1 + c + left.append + left.request <= MaxAsked BY <1>1, <2>1
  <2>4. turn + 1 \in 1..MaxAsked
    <3> HIDE DEF c
    <3>1. QED BY <2>2, <2>3
  <2>5. QED BY <2>4 DEF Generation
<1>3. (IF Head(up) \in Asks THEN 1 ELSE 0) \in {0, 1} OBVIOUS
<1>4. CASE /\ QueuesUtterances /\ queued' = queued + 1
           /\ notices' = events \o <<TurnQueuedEvent(queued + 1)>>
           /\ UNCHANGED <<status, traced, turn, job, disturbed>>
  <2>1. left.policy = "enqueue" BY <1>4 DEF QueuesUtterances
  <2>2. TurnQueuedEvent(queued + 1) \in QueueEvents
    BY BoundIs DEF TurnQueuedEvent, QueueEvents, MaybeGeneration
  <2>3. events \in Seq(Calm \cup QueueEvents) BY SeqMonotonic
  <2>4. <<TurnQueuedEvent(queued + 1)>> \in Seq(Calm \cup QueueEvents) BY <2>2
  <2>5. notices' \in Seq(Calm \cup QueueEvents)
    <3> DEFINE q == <<TurnQueuedEvent(queued + 1)>>
    <3> HIDE DEF q
    <3>1. q \in Seq(Calm \cup QueueEvents) BY <2>4 DEF q
    <3>2. notices' = events \o q BY <1>4 DEF q
    <3>3. QED BY <2>3, <3>1, <3>2
  <2>6. JobIs' BY <1>4 DEF TypeInv, JobIs
  <2>7. turn' + queued' + Holding' <=
          turn + queued + Holding + (IF Head(up) \in Asks THEN 1 ELSE 0)
    BY <1>1, <1>3, <1>4, BoundIs
  <2>8. queued' \in Nat /\ turn' \in Nat BY <1>4, BoundIs
  <2>9. /\ status' \in Status /\ traced' \in BOOLEAN
        /\ job'.kind \in TasksOf(left.policy)
    BY <1>4 DEF TypeInv, TypeOK, JobIs
  <2>10. notices' \in Seq(NoticesOf(left.policy)) BY <2>1, <2>5, PolicyIs
  <2>11. QED
    BY <1>1, <2>1, <2>6, <2>7, <2>8, <2>9, <2>10 DEF Handled
<1>5. CASE /\ ~QueuesUtterances
           /\ notices' = events \o Before \o Queueing(Cleared)
           /\ StartUtterance(Cleared, <<>>)
           /\ Disturbs(Responding, turn + 1)
           /\ UNCHANGED queued
  <2>1. Cleared \in Status /\ Before \in Seq(Unqueued) BY ClearedIs
  <2>2. Queueing(Cleared) \in Seq(Calm) BY <1>2, <2>1, QueueingIs
  <2>3. notices' \in Seq(NoticesOf(left.policy))
    <3>1. CASE left.policy = "enqueue"
      <4>1. Before = <<>> BY <1>5, <3>1 DEF QueuesUtterances, Before
      <4>2. events \o Before \in Seq(Calm) BY <4>1
      <4>3. notices' \in Seq(Calm) BY <1>5, <2>2, <4>2
      <4>4. QED BY <4>3, PolicyIs, SeqMonotonic
    <3>2. CASE left.policy # "enqueue"
      <4>1. events \in Seq(Unqueued) /\ Queueing(Cleared) \in Seq(Unqueued)
        BY <2>2, CalmIs, SeqMonotonic
      <4>2. events \o Before \in Seq(Unqueued) BY <2>1, <4>1
      <4>3. notices' \in Seq(Unqueued) BY <1>5, <4>1, <4>2
      <4>4. QED BY <3>2, <4>3, PolicyIs
    <3>3. QED BY <3>1, <3>2
  <2>4. <<>> \in Seq(Calm) BY EmptySeq
  <2>5. /\ status' \in Status /\ traced' = TRUE /\ turn' = turn + 1
        /\ job'.kind = "utterance"
        /\ turn' \in MaybeGeneration => JobIs'
    BY <1>5, <2>1, <2>4, BegunIs
  <2>6. turn' + queued' + Holding' <=
          turn + queued + Holding + (IF Head(up) \in Asks THEN 1 ELSE 0)
    BY <1>1, <1>3, <1>5, <2>5, BoundIs
  <2>7. turn' \in Nat /\ queued' = queued BY <1>5, <2>5, BoundIs
  <2>8. QED
    BY <1>1, <2>3, <2>5, <2>6, <2>7, BoundIs, PolicyIs DEF Handled, TypeInv
<1>6. QED BY <1>4, <1>5 DEF Commit

LEMMA StartIsHandled ==
  ASSUME TypeInv, up # <<>>, HandleStart
  PROVE  Handled
<1>1. status \in Status BY DEF TypeInv, TypeOK
<1>2. status' \in Status BY <1>1, StartedIs DEF HandleStart
<1>3. {"created", "loading", "ready", "listening"} \subseteq Status
        /\ NoGeneration \in MaybeGeneration
  BY DEF Status, MaybeGeneration
<1> DEFINE t1 == Transition("created", "loading", NoGeneration)
<1> DEFINE t2 == Transition("loading", "ready", NoGeneration)
<1> DEFINE t3 == Transition("ready", "listening", NoGeneration)
<1> DEFINE c == <<SessionCreatedEvent>>
<1> DEFINE r == <<SessionReadyEvent>>
<1>4. t1 \in Seq(Calm) /\ t2 \in Seq(Calm) /\ t3 \in Seq(Calm)
  <2>1. t1 \in Seq(StatusEvents) /\ t2 \in Seq(StatusEvents) /\ t3 \in Seq(StatusEvents)
    BY <1>3, TransitionIs
  <2> HIDE DEF t1, t2, t3
  <2>2. QED BY <2>1, SeqMonotonic DEF Calm
<1>5. c \in Seq(Calm) /\ r \in Seq(Calm)
  <2>1. SessionCreatedEvent \in Calm /\ SessionReadyEvent \in Calm
    BY DEF Calm, PlainEvents, SessionCreatedEvent, SessionReadyEvent, BaseEvent,
           MaybeGeneration
  <2>2. QED BY <2>1
<1>6. notices' = c \o t1 \o t2 \o t3 \o r BY DEF HandleStart
<1> HIDE DEF t1, t2, t3, c, r
<1>7. c \o t1 \in Seq(Calm) BY <1>4, <1>5
<1>8. c \o t1 \o t2 \in Seq(Calm) BY <1>4, <1>7
<1>9. c \o t1 \o t2 \o t3 \in Seq(Calm) BY <1>4, <1>8
<1>10. notices' \in Seq(Calm) BY <1>5, <1>6, <1>9
<1>11. notices' \in Seq(NoticesOf(left.policy)) BY <1>10, PolicyIs, SeqMonotonic
<1>12. JobIs' BY DEF TypeInv, JobIs, HandleStart
<1>13. Holding' = Holding BY DEF Holding, HandleStart
<1>14. turn' + queued' + Holding' <=
         turn + queued + Holding + (IF Head(up) \in Asks THEN 1 ELSE 0)
  BY <1>13, BoundIs DEF HandleStart
<1>15. QED
  BY <1>2, <1>11, <1>12, <1>14, BoundIs
  DEF Handled, TypeInv, TypeOK, HandleStart

LEMMA NothingIsHandled ==
  ASSUME TypeInv, up # <<>>, ~HandlerBusy,
         UNCHANGED <<status, traced, heard, queued, turn, job, notices>>
  PROVE  Handled
<1>1. JobIs' BY DEF TypeInv, JobIs
<1>2. Holding' = Holding BY DEF Holding
<1>3. turn' + queued' + Holding' <=
        turn + queued + Holding + (IF Head(up) \in Asks THEN 1 ELSE 0)
  BY <1>2, BoundIs
<1>4. QED BY <1>1, <1>3, BoundIs DEF Handled, TypeInv, TypeOK

LEMMA CommitMessageIsHandled ==
  ASSUME TypeInv, up # <<>>, ~HandlerBusy, HandleCommit
  PROVE  Handled
<1>1. CASE heard = "silence" BY <1>1, NothingIsHandled DEF HandleCommit
<1>2. CASE heard # "silence"
  <2>1. <<>> \in Seq(Calm) BY EmptySeq
  <2>2. Commit(<<>>) BY <1>2 DEF HandleCommit
  <2>3. QED BY <1>2, <2>1, <2>2, CommitIsHandled
<1>3. QED BY <1>1, <1>2

LEMMA VadIsCalm ==
  ASSUME TypeInv, NEW b \in BOOLEAN
  PROVE  <<VadStateEvent(b, job.gen)>> \in Seq(Calm)
<1>1. job.gen \in MaybeGeneration BY ClearedIs
<1>2. VadStateEvent(b, job.gen) \in VadEvents
  BY <1>1 DEF VadStateEvent, VadEvents, MaybeGeneration
<1>3. VadStateEvent(b, job.gen) \in Calm BY <1>2 DEF Calm
<1>4. \A x \in Calm : <<x>> \in Seq(Calm) OBVIOUS
<1>5. QED BY <1>3, <1>4, Zenon

LEMMA AppendIsHandled ==
  ASSUME TypeInv, up # <<>>, ~HandlerBusy, HandleAppend
  PROVE  Handled
<1>1. Head(up) \in Asks BY DEF HandleAppend, Asks
<1>2. CASE /\ heard' = (IF heard = "speech" THEN "speech" ELSE "noise")
           /\ UNCHANGED <<status, traced, queued, turn, job, notices, disturbed>>
  <2>1. JobIs' BY <1>2 DEF TypeInv, JobIs
  <2>2. Holding' \in {0, 1} BY DEF Holding
  <2>3. turn' + queued' + Holding' <=
          turn + queued + Holding + (IF Head(up) \in Asks THEN 1 ELSE 0)
    BY <1>1, <1>2, <2>2, BoundIs
  <2>4. QED BY <1>2, <2>1, <2>3, BoundIs DEF Handled, TypeInv, TypeOK
<1>3. CASE /\ heard # "speech" /\ heard' = "speech"
           /\ notices' = <<VadStateEvent(TRUE, job.gen)>>
           /\ UNCHANGED <<status, traced, queued, turn, job, disturbed>>
  <2>1. JobIs' BY <1>3 DEF TypeInv, JobIs
  <2>2. Holding' \in {0, 1} BY DEF Holding
  <2>3. turn' + queued' + Holding' <=
          turn + queued + Holding + (IF Head(up) \in Asks THEN 1 ELSE 0)
    BY <1>1, <1>3, <2>2, BoundIs
  <2>4. notices' \in Seq(Calm) BY <1>3, VadIsCalm, Zenon
  <2>5. notices' \in Seq(NoticesOf(left.policy)) BY <2>4, PolicyIs, SeqMonotonic
  <2>6. QED BY <1>3, <2>1, <2>3, <2>5, BoundIs DEF Handled, TypeInv, TypeOK
<1>4. CASE heard = "speech" /\ Commit(<<VadStateEvent(FALSE, job.gen)>>)
  <2>1. <<VadStateEvent(FALSE, job.gen)>> \in Seq(Calm) BY VadIsCalm
  <2>2. heard # "silence" BY <1>4
  <2> DEFINE v == <<VadStateEvent(FALSE, job.gen)>>
  <2> HIDE DEF v
  <2>3. v \in Seq(Calm) /\ Commit(v) BY <1>4, <2>1 DEF v
  <2>4. QED BY <2>2, <2>3, CommitIsHandled
<1>5. QED BY <1>2, <1>3, <1>4 DEF HandleAppend

\* A client that speaks only.
LEMMA SpeaksOnly ==
  ASSUME TypeInv, up # <<>>, Head(up) \in {"stop", "reply", "say"}
  PROVE  /\ left.policy = "send_now" /\ NoticesOf(left.policy) = Unqueued
         /\ {"reply", "say"} \subseteq TasksOf(left.policy) /\ queued = 0
<1>1. Head(up) \in MessagesOf(left.policy)
  <2>1. up \in Seq(MessagesOf(left.policy)) BY DEF TypeInv
  <2>2. QED BY <2>1
<1>2. left.policy # "enqueue" BY <1>1 DEF MessagesOf
<1>3. left.policy = "send_now" BY <1>2, PolicyIs
<1>4. QED BY <1>2, <1>3, PolicyIs DEF TasksOf, TypeInv

LEMMA StopIsHandled ==
  ASSUME TypeInv, up # <<>>, HandleStop
  PROVE  Handled
<1> USE DEF HandleStop
<1>1. /\ left.policy = "send_now" /\ NoticesOf(left.policy) = Unqueued /\ queued = 0
  BY SpeaksOnly
<1>2. status \in Status /\ job.gen \in MaybeGeneration BY ClearedIs
<1>3. notices' \in Seq(Unqueued) /\ status' \in Status
  BY <1>2, InterruptionIs, RecoveredIs
<1>4. Holding' = Holding BY DEF Holding
<1>5. turn' + queued' + Holding' <=
        turn + queued + Holding + (IF Head(up) \in Asks THEN 1 ELSE 0)
  BY <1>4, BoundIs
<1>6. JobIs' /\ job'.kind = "none" BY DEF JobIs, NoJob, MaybeGeneration
<1>7. QED
  BY <1>1, <1>3, <1>5, <1>6, BoundIs DEF Handled, TypeInv, TypeOK, TasksOf

\* A request begins a turn and asks for one.
LEMMA RequestBound ==
  ASSUME TypeInv, up # <<>>, Head(up) \in Asks
  PROVE  turn + 1 \in Generation
<1>1. /\ Head(up) \in Asks =>
           Cardinality(AsksIn(Tail(up))) + 1 <= Cardinality(AsksIn(up))
      /\ Cardinality(AsksIn(Tail(up))) \in Nat
  <2>1. Tail(up) \in Seq(Message) BY BoundIs
  <2>2. QED BY <2>1, BoundIs, AsksFewer, AsksAreFinite
<1>2. turn + queued + Holding + Cardinality(AsksIn(up)) + left.append + left.request
        <= MaxAsked
  BY DEF TypeInv, WithinBound
<1> DEFINE c == Cardinality(AsksIn(up))
<1> DEFINE d == Cardinality(AsksIn(Tail(up)))
<1>3. c \in Nat /\ d \in Nat /\ d + 1 <= c BY <1>1, BoundIs
<1>4. turn + queued + Holding + c + left.append + left.request <= MaxAsked BY <1>2
<1>5. turn \in Nat /\ queued \in Nat /\ Holding \in Nat /\ left.append \in Nat
        /\ left.request \in Nat /\ MaxAsked \in Nat
  BY BoundIs
<1> HIDE DEF c, d
<1>6. QED BY <1>3, <1>4, <1>5 DEF Generation

LEMMA BeforeIs ==
  ASSUME TypeInv, NEW g \in MaybeGeneration
  PROVE  WithGeneration(Before, g) \in Seq(Unqueued)
  BY ClearedIs, WithGenerationIs

LEMMA ReplyIsHandled ==
  ASSUME TypeInv, up # <<>>, HandleReply
  PROVE  Handled
<1>1. Head(up) = "reply" BY DEF HandleReply
<1>2. /\ left.policy = "send_now" /\ NoticesOf(left.policy) = Unqueued /\ queued = 0
      /\ {"reply", "say"} \subseteq TasksOf(left.policy)
  BY <1>1, SpeaksOnly
<1>3. turn + 1 \in Generation BY <1>1, RequestBound DEF Asks
<1>4. turn + 1 \in MaybeGeneration BY <1>3 DEF MaybeGeneration
<1>5. "thinking" \in Status /\ Cleared \in Status BY ClearedIs DEF Status
<1>6. status' \in Status BY <1>5, MoveIs DEF HandleReply
<1> DEFINE w == WithGeneration(Before, turn + 1)
<1> DEFINE r == <<RouteSelectedEvent(turn + 1, turn + 1)>>
<1> DEFINE t == Transition(Cleared, "thinking", turn + 1)
<1>7. notices' = w \o r \o t BY DEF HandleReply
<1>8. w \in Seq(Unqueued) BY <1>4, BeforeIs
<1>9. r \in Seq(Unqueued)
  <2>1. RouteSelectedEvent(turn + 1, turn + 1) \in PlainEvents(NoticePlain)
    BY <1>4 DEF RouteSelectedEvent, BaseEvent, PlainEvents, NoticePlain
  <2>2. QED BY <2>1 DEF Unqueued
<1>10. t \in Seq(Unqueued)
  <2>1. t \in Seq(StatusEvents) BY <1>4, <1>5, TransitionIs
  <2> HIDE DEF t
  <2>2. QED BY <2>1, SeqMonotonic DEF Unqueued, Calm
<1> HIDE DEF w, r, t
<1>11. w \o r \in Seq(Unqueued) BY <1>8, <1>9
<1>12. notices' \in Seq(Unqueued) BY <1>7, <1>10, <1>11
<1>13. /\ turn' = turn + 1 /\ traced' = TRUE /\ heard' = heard /\ queued' = queued
       /\ job' = [kind |-> "reply", gen |-> turn + 1, lead |-> <<>>,
                  script |-> TextTurn(turn + 1, status'), ahead |-> FALSE]
  BY DEF HandleReply
<1>14. JobIs' /\ job'.kind = "reply"
  <2>1. ScriptOK(TextTurn(turn + 1, status'), turn + 1)
    BY <1>3, <1>6, TextTurnIs
  <2>2. TextTurn(turn + 1, status') \in Seq(Items) BY <2>1 DEF ScriptOK
  <2>3. QED BY <1>3, <1>4, <1>13, <2>1, <2>2 DEF JobIs
<1>15. turn' + queued' + Holding' <=
         turn + queued + Holding + (IF Head(up) \in Asks THEN 1 ELSE 0)
  <2>1. Holding' = Holding /\ Head(up) \in Asks BY <1>1, <1>13 DEF Holding, Asks
  <2>2. QED BY <1>13, <2>1, BoundIs
<1>16. heard' \in {"silence", "noise", "speech"} /\ queued' = 0 /\ turn' \in Nat
  BY <1>2, <1>13, BoundIs DEF TypeInv, TypeOK
<1>17. QED
  BY <1>2, <1>6, <1>12, <1>13, <1>14, <1>15, <1>16 DEF Handled

LEMMA SayIsHandled ==
  ASSUME TypeInv, up # <<>>, HandleSay
  PROVE  Handled
<1>1. Head(up) = "say" BY DEF HandleSay
<1>2. /\ left.policy = "send_now" /\ NoticesOf(left.policy) = Unqueued /\ queued = 0
      /\ {"reply", "say"} \subseteq TasksOf(left.policy)
  BY <1>1, SpeaksOnly
<1>3. turn + 1 \in Generation BY <1>1, RequestBound DEF Asks
<1>4. turn + 1 \in MaybeGeneration BY <1>3 DEF MaybeGeneration
<1>5. "speaking" \in Status /\ Cleared \in Status BY ClearedIs DEF Status
<1>6. status' \in Status BY <1>5, MoveIs DEF HandleSay
<1> DEFINE w == WithGeneration(Before, turn + 1)
<1> DEFINE t == Transition(Cleared, "speaking", turn + 1)
<1>7. notices' = w \o t BY DEF HandleSay
<1>8. w \in Seq(Unqueued) BY <1>4, BeforeIs
<1>9. t \in Seq(Unqueued)
  <2>1. t \in Seq(StatusEvents) BY <1>4, <1>5, TransitionIs
  <2> HIDE DEF t
  <2>2. QED BY <2>1, SeqMonotonic DEF Unqueued, Calm
<1> HIDE DEF w, t
<1>10. notices' \in Seq(Unqueued) BY <1>7, <1>8, <1>9
<1>11. /\ turn' = turn + 1 /\ heard' = heard /\ queued' = queued
       /\ job' = [kind |-> "say", gen |-> turn + 1, lead |-> <<>>,
                  script |-> Say(turn + 1, status'), ahead |-> FALSE]
  BY DEF HandleSay
<1>12. traced' \in BOOLEAN
  <2>1. traced' = (traced /\ ~Responding) BY DEF HandleSay
  <2>2. QED BY <2>1
<1>13. JobIs' /\ job'.kind = "say"
  <2>1. ScriptOK(Say(turn + 1, status'), turn + 1)
    BY <1>3, <1>6, SayIs
  <2>2. Say(turn + 1, status') \in Seq(Items) BY <2>1 DEF ScriptOK
  <2>3. QED BY <1>3, <1>4, <1>11, <2>1, <2>2 DEF JobIs
<1>14. turn' + queued' + Holding' <=
         turn + queued + Holding + (IF Head(up) \in Asks THEN 1 ELSE 0)
  <2>1. Holding' = Holding /\ Head(up) \in Asks BY <1>1, <1>11 DEF Holding, Asks
  <2>2. QED BY <1>11, <2>1, BoundIs
<1>15. heard' \in {"silence", "noise", "speech"} /\ queued' = 0 /\ turn' \in Nat
  BY <1>2, <1>11, BoundIs DEF TypeInv, TypeOK
<1>16. QED
  BY <1>2, <1>6, <1>10, <1>12, <1>13, <1>14, <1>15 DEF Handled

LEMMA HandleType ==
  ASSUME TypeInv, Handle
  PROVE  TypeInv'
<1>1. up # <<>> /\ ~HandlerBusy /\ up' = Tail(up)
      /\ UNCHANGED <<chain, link, owner, storeVars, attached, owed, left>>
  BY DEF Handle
<1>2. Handled
  BY <1>1, StartIsHandled, CommitMessageIsHandled, AppendIsHandled,
     StopIsHandled, ReplyIsHandled, SayIsHandled
  DEF Handle
<1>3. QED BY <1>1, <1>2, HandledKeepsType

\* An action that neither begins a turn nor takes a message.
LEMMA BoundKept ==
  ASSUME TypeInv,
         UNCHANGED <<heard, queued, turn, up>>,
         left'.append = left.append, left'.request = left.request
  PROVE  WithinBound'
<1>1. WithinBound BY DEF TypeInv
<1>2. QED BY <1>1 DEF WithinBound, Holding, AsksIn

LEMMA SendNoticeType ==
  ASSUME TypeInv, SendNotice
  PROVE  TypeInv'
<1> DEFINE n == IF job = NoJob THEN Len(notices) ELSE 1
<1> DEFINE S == NoticesOf(left.policy)
<1>1. /\ chain' = chain \o SubSeq(notices, 1, n)
      /\ notices' = SubSeq(notices, n + 1, Len(notices))
      /\ job' = [job EXCEPT !.ahead = @ /\ job.lead # <<>>]
      /\ UNCHANGED <<status, traced, heard, queued, turn, up, link, owner,
                     storeVars, attached, owed, disturbed, left>>
  BY DEF SendNotice, Sends
<1>2. notices \in Seq(S) /\ notices # <<>> BY DEF TypeInv, SendNotice
<1>3. S \subseteq Under
  BY CalmIs, PolicyIs DEF Notices, Under
<1>4. Len(notices) \in Nat /\ Len(notices) # 0 BY <1>2, EmptySeq
<1>5. n \in 1..Len(notices) BY <1>4
<1> HIDE DEF n, S
<1>6. SubSeq(notices, 1, n) \in Seq(S)
  <2>1. 1 \in Nat /\ n \in Nat /\ \A i \in 1..n : i \in 1..Len(notices)
    BY <1>4, <1>5
  <2>2. QED BY <1>2, <1>4, <1>5, <2>1, SubSeqProperties
<1>7. SubSeq(notices, n + 1, Len(notices)) \in Seq(S)
  BY <1>2, <1>4, <1>5, SubSeqProperties
<1>8. chain' \in Seq(Under)
  <2>1. SubSeq(notices, 1, n) \in Seq(Under) BY <1>3, <1>6, SeqMonotonic
  <2> DEFINE x == SubSeq(notices, 1, n)
  <2> HIDE DEF x
  <2>2. chain \in Seq(Under) /\ x \in Seq(Under) /\ chain' = chain \o x
    BY <1>1, <2>1 DEF x, TypeInv
  <2>3. QED BY <2>2
<1>9. JobIs' /\ job'.kind = job.kind
  <2>1. JobIs BY DEF TypeInv
  <2>2. (job.ahead /\ job.lead # <<>>) \in BOOLEAN OBVIOUS
  <2>3. /\ job'.kind = job.kind /\ job'.gen = job.gen /\ job'.lead = job.lead
        /\ job'.script = job.script
        /\ job' \in [kind : {"none", "utterance", "reply", "say"}, gen : MaybeGeneration,
                     lead : Seq(Calm), script : Seq(Items), ahead : BOOLEAN]
    BY <1>1, <2>1, <2>2 DEF JobIs
  <2>4. ASSUME job = NoJob PROVE job' = NoJob
    <3>1. (job.ahead /\ job.lead # <<>>) = FALSE BY <2>4 DEF NoJob
    <3>2. job' = [job EXCEPT !.ahead = FALSE] BY <1>1, <3>1
    <3>3. QED BY <2>4, <3>2 DEF NoJob
  <2>5. QED BY <1>1, <2>1, <2>3, <2>4 DEF JobIs
<1>10. WithinBound' BY <1>1, BoundKept
<1>11. TypeOK' BY <1>1, <1>9 DEF TypeInv, TypeOK, storeVars
<1>12. notices' \in Seq(NoticesOf(left'.policy)) BY <1>1, <1>7 DEF S
<1>13. QED BY <1>1, <1>8, <1>9, <1>10, <1>11, <1>12 DEF TypeInv

LEMMA SendLeadType ==
  ASSUME TypeInv, SendLead
  PROVE  TypeInv'
<1>1. /\ job.lead # <<>> /\ chain' = chain \o <<Head(job.lead)>>
      /\ job' = [job EXCEPT !.lead = Tail(@), !.ahead = FALSE]
      /\ UNCHANGED <<status, traced, heard, queued, turn, notices, up, link, owner,
                     storeVars, attached, owed, disturbed, left>>
  BY DEF SendLead, Sends
<1>2. JobIs BY DEF TypeInv
<1>3. job.lead \in Seq(Calm) BY <1>2 DEF JobIs
<1>4. Tail(job.lead) \in Seq(Calm) /\ Head(job.lead) \in Calm BY <1>1, <1>3
<1>5. chain' \in Seq(Under)
  <2>1. Head(job.lead) \in Under BY <1>4, CalmIs
  <2>2. chain \in Seq(Under) BY DEF TypeInv
  <2> DEFINE x == Head(job.lead)
  <2> HIDE DEF x
  <2>3. x \in Under /\ chain' = chain \o <<x>> BY <1>1, <2>1 DEF x
  <2>4. QED BY <2>2, <2>3
<1>6. JobIs' /\ job'.kind = job.kind
  <2>1. /\ job'.kind = job.kind /\ job'.gen = job.gen /\ job'.lead = Tail(job.lead)
        /\ job'.script = job.script
        /\ job' \in [kind : {"none", "utterance", "reply", "say"}, gen : MaybeGeneration,
                     lead : Seq(Calm), script : Seq(Items), ahead : BOOLEAN]
    BY <1>1, <1>2, <1>4 DEF JobIs
  <2>2. job # NoJob BY <1>1 DEF NoJob
  <2>3. QED BY <1>1, <1>2, <2>1, <2>2 DEF JobIs
<1>7. WithinBound' BY <1>1, BoundKept
<1>8. TypeOK' BY <1>1, <1>6 DEF TypeInv, TypeOK, storeVars
<1>9. notices' \in Seq(NoticesOf(left'.policy)) BY <1>1 DEF TypeInv
<1>10. QED BY <1>1, <1>5, <1>6, <1>7, <1>8, <1>9 DEF TypeInv

\* A step of the task: what its script unfolds to, the event it sends if any,
\* and how it goes on.
WorkStep(x, s, t, y) ==
  /\ x \in Unfolded(job.script, job.gen, status)
  /\ UnfoldOK(x, job.script, turn)
  /\ x[1] = Head(x) /\ Tail(x) \in Seq(Items)
  /\ Tail(x) # <<>> => ScriptOK(Tail(x), turn)
  /\ GoOn(Tail(x), s, t, y)
  /\ \/ /\ x[1] \in StepItems /\ UNCHANGED chain
        /\ s = IF x[1].type = "becomes" THEN x[1].status ELSE status
     \/ /\ x[1] \in TaskEvents /\ link = "open" /\ s = status
        /\ chain' = chain \o <<x[1]>>

LEMMA WorkIs ==
  ASSUME TypeInv, Work
  PROVE  /\ job.kind # "none" /\ job.gen = turn /\ turn \in Generation
         /\ ScriptOK(job.script, turn)
         /\ \E x : \E s \in Status, t \in BOOLEAN, y \in BOOLEAN : WorkStep(x, s, t, y)
<1>1. /\ job.kind # "none" /\ job.gen = turn /\ turn \in Generation
      /\ ScriptOK(job.script, turn)
  BY DEF TypeInv, JobIs, Work, NoJob
<1>2. PICK x \in Unfolded(job.script, job.gen, status) :
        LET item == Head(x) rest == Tail(x) IN
        IF item.type \in Step
          THEN /\ link = "open"
               /\ GoOn(rest,
                       IF item.type = "becomes" THEN item.status ELSE status,
                       traced /\ item.type # "measured", job.ahead)
               /\ UNCHANGED chain
          ELSE /\ ~job.ahead
               /\ Sends(<<item>>)
               /\ GoOn(rest, status, traced, notices # <<>> \/ job.lead # <<>>)
  BY DEF Work
<1>3. status \in Status /\ traced \in BOOLEAN /\ job.ahead \in BOOLEAN
  BY DEF TypeInv, TypeOK, JobIs
<1>4. UnfoldOK(x, job.script, turn)
  BY <1>1, <1>2, <1>3, UnfoldedAre DEF ScriptOK
<1>5. x \in Seq(Items) /\ x # <<>> /\ x[1].type \notin Stages /\ InOrder(x) /\ OfTurn(x, turn)
  BY <1>4 DEF UnfoldOK
<1>6. /\ Head(x) = x[1] /\ 1 \in DOMAIN x /\ Tail(x) \in Seq(Items)
      /\ \A i \in DOMAIN Tail(x) :
           /\ i \in Nat /\ i + 1 \in DOMAIN x /\ Tail(x)[i] = x[i + 1]
  BY <1>5, TailIs
<1>7. Tail(x) # <<>> => ScriptOK(Tail(x), turn)
  <2>1. InOrder(Tail(x))
    <3> SUFFICES ASSUME NEW i \in DOMAIN Tail(x), NEW j \in DOMAIN Tail(x), i < j,
                        Told(Tail(x)[j])
                 PROVE  /\ Place(Tail(x)[i]) < Place(Tail(x)[j])
                        /\ Tail(x)[i].type \notin Stages
      BY DEF InOrder
    <3>1. i \in Nat /\ j \in Nat /\ i + 1 < j + 1 BY <1>6
    <3>2. QED BY <1>5, <1>6, <3>1 DEF InOrder
  <2>2. OfTurn(Tail(x), turn) BY <1>5, <1>6 DEF OfTurn
  <2>3. QED BY <1>6, <2>1, <2>2 DEF ScriptOK
<1>8. x[1] \in Items BY <1>5, <1>6
<1>9. CASE x[1].type \in Step
  <2>1. x[1] \in StepItems
    <3>1. x[1] \notin TaskEvents BY <1>9, UnderIs DEF Under
    <3>2. x[1] \notin [type : Stages] BY <1>5
    <3>3. QED BY <1>8, <3>1, <3>2 DEF Items
  <2> DEFINE s == IF x[1].type = "becomes" THEN x[1].status ELSE status
  <2> DEFINE t == traced /\ x[1].type # "measured"
  <2>2. s \in Status BY <1>3, <2>1 DEF StepItems
  <2>3. t \in BOOLEAN BY <1>3
  <2>4. GoOn(Tail(x), s, t, job.ahead) /\ UNCHANGED chain BY <1>2, <1>6, <1>9
  <2> HIDE DEF t
  <2>5. WorkStep(x, s, t, job.ahead)
    BY <1>2, <1>4, <1>6, <1>7, <2>1, <2>4 DEF WorkStep
  <2> HIDE DEF s
  <2>6. QED BY <1>1, <1>3, <2>2, <2>3, <2>5
<1>10. CASE x[1].type \notin Step
  <2>1. x[1] \in TaskEvents
    <3>1. x[1] \notin StepItems BY <1>10 DEF StepItems, Step
    <3>2. x[1] \notin [type : Stages] BY <1>5
    <3>3. QED BY <1>8, <3>1, <3>2 DEF Items
  <2> DEFINE y == notices # <<>> \/ job.lead # <<>>
  <2>2. y \in BOOLEAN OBVIOUS
  <2>3. /\ GoOn(Tail(x), status, traced, y) /\ link = "open"
        /\ chain' = chain \o <<x[1]>>
    BY <1>2, <1>6, <1>10 DEF Sends
  <2> HIDE DEF y
  <2>4. WorkStep(x, status, traced, y)
    BY <1>2, <1>4, <1>6, <1>7, <2>1, <2>3 DEF WorkStep
  <2>5. QED BY <1>1, <1>3, <2>2, <2>4
<1>11. QED BY <1>9, <1>10

\* How a task goes on: with the next utterance, not at all, or with the rest.
LEMMA GoOnIs ==
  ASSUME TypeInv, job.kind # "none", job.gen = turn, turn \in Generation,
         NEW rest \in Seq(Items), rest # <<>> => ScriptOK(rest, turn),
         NEW s \in Status, NEW t \in BOOLEAN, NEW y \in BOOLEAN,
         GoOn(rest, s, t, y), UNCHANGED <<heard, up, left>>
  PROVE  /\ status' \in Status /\ traced' \in BOOLEAN /\ turn' \in MaybeGeneration
         /\ queued' \in 0..MaxAsked /\ JobIs' /\ job'.kind \in TasksOf(left.policy)
         /\ WithinBound' /\ queued' <= queued
         /\ \/ turn' = turn + 1 /\ queued' = queued - 1 /\ job'.script = Utterance(turn')
            \/ turn' = turn /\ queued' = queued /\ job' = NoJob /\ status' = s
            \/ turn' = turn /\ queued' = queued /\ job'.script = rest /\ rest # <<>>
                 /\ status' = s /\ job'.kind = job.kind
<1>1. WithinBound /\ JobIs /\ job.kind \in TasksOf(left.policy) /\ queued \in 0..MaxAsked
        /\ turn \in MaybeGeneration
  BY DEF TypeInv, TypeOK
<1>2. CASE rest = <<>> /\ job.kind = "utterance" /\ queued > 0 /\ s = "listening"
  <2>1. StartUtterance(s, Queueing(s)) /\ queued' = queued - 1 BY <1>2 DEF GoOn
  <2>2. turn + 1 \in Generation
    <3>1. turn + queued + Holding + Cardinality(AsksIn(up)) + left.append
            + left.request <= MaxAsked
      BY <1>1 DEF WithinBound
    <3> DEFINE c == Cardinality(AsksIn(up))
    <3>2. c \in Nat /\ turn + queued + Holding + c + left.append + left.request <= MaxAsked
      BY <3>1, BoundIs
    <3>3. turn \in Nat /\ queued \in Nat /\ Holding \in Nat /\ left.append \in Nat
            /\ left.request \in Nat /\ MaxAsked \in Nat
      BY BoundIs
    <3> HIDE DEF c
    <3>4. QED BY <1>2, <3>2, <3>3 DEF Generation
  <2>3. Queueing(s) \in Seq(Calm) BY <2>2, QueueingIs
  <2>4. /\ status' \in Status /\ traced' = TRUE /\ turn' = turn + 1
        /\ job'.kind = "utterance" /\ job'.script = Utterance(turn')
        /\ turn' \in MaybeGeneration => JobIs'
    BY <2>1, <2>3, BegunIs
  <2>5. turn' \in MaybeGeneration BY <2>2, <2>4 DEF MaybeGeneration
  <2>6. WithinBound'
    <3>1. turn + queued + Holding + Cardinality(AsksIn(up)) + left.append
            + left.request <= MaxAsked
      BY <1>1 DEF WithinBound
    <3>2. turn' + queued' = turn + queued BY <2>1, <2>4, BoundIs
    <3>3. Holding' = Holding /\ AsksIn(up)' = AsksIn(up)
      BY DEF Holding, AsksIn
    <3> DEFINE c == Cardinality(AsksIn(up))
    <3> DEFINE q == queued'
    <3> DEFINE h == Holding
    <3>4. c \in Nat /\ turn + queued + h + c + left.append + left.request <= MaxAsked
      BY <3>1, BoundIs
    <3>5. turn \in Nat /\ queued \in Nat /\ h \in Nat /\ left.append \in Nat
            /\ left.request \in Nat /\ MaxAsked \in Nat
      BY BoundIs
    <3>6. q = queued - 1 BY <2>1
    <3> HIDE DEF c, q, h
    <3>7. turn + 1 + q + h + c + left.append + left.request <= MaxAsked
      BY <3>4, <3>5, <3>6
    <3>8. turn' + queued' + Holding' + Cardinality(AsksIn(up)) + left.append
            + left.request <= MaxAsked
      BY <2>4, <3>3, <3>7 DEF c, q, h
    <3>9. QED BY <3>3, <3>8 DEF WithinBound
  <2>7. queued' \in 0..MaxAsked /\ queued' <= queued BY <1>1, <1>2, <2>1, BoundIs
  <2>8. "utterance" \in TasksOf(left.policy) BY PolicyIs
  <2>9. QED BY <2>1, <2>4, <2>5, <2>6, <2>7, <2>8
<1>3. CASE ~(rest = <<>> /\ job.kind = "utterance" /\ queued > 0 /\ s = "listening")
  <2>1. /\ job' = IF rest = <<>> THEN NoJob
                  ELSE [job EXCEPT !.script = rest, !.ahead = y]
        /\ status' = s /\ traced' = t /\ UNCHANGED <<queued, turn>>
    BY <1>3 DEF GoOn
  <2>2. WithinBound' BY <1>1, <2>1 DEF WithinBound, Holding, AsksIn
  <2>3. CASE rest = <<>>
    <3>1. job' = NoJob BY <2>1, <2>3
    <3>2. JobIs' BY <3>1 DEF JobIs, NoJob, MaybeGeneration
    <3>3. job'.kind \in TasksOf(left.policy) BY <3>1 DEF NoJob, TasksOf
    <3>4. QED BY <1>1, <2>1, <2>2, <3>1, <3>2, <3>3, BoundIs
  <2>4. CASE rest # <<>>
    <3>1. job' = [job EXCEPT !.script = rest, !.ahead = y] BY <2>1, <2>4
    <3>2. /\ job'.kind = job.kind /\ job'.gen = job.gen /\ job'.script = rest
          /\ job' \in [kind : {"none", "utterance", "reply", "say"}, gen : MaybeGeneration,
                       lead : Seq(Calm), script : Seq(Items), ahead : BOOLEAN]
      BY <1>1, <3>1 DEF JobIs
    <3>3. JobIs' BY <2>1, <2>4, <3>2 DEF JobIs
    <3>4. QED BY <1>1, <2>1, <2>2, <2>4, <3>2, <3>3, BoundIs
  <2>5. QED BY <2>3, <2>4
<1>4. QED BY <1>2, <1>3

LEMMA WorkType ==
  ASSUME TypeInv, Work
  PROVE  TypeInv'
<1>1. PICK x : \E s \in Status, t \in BOOLEAN, y \in BOOLEAN : WorkStep(x, s, t, y)
  BY WorkIs
<1>2. PICK s \in Status, t \in BOOLEAN, y \in BOOLEAN : WorkStep(x, s, t, y) BY <1>1
<1>3. UNCHANGED <<heard, notices, up, link, owner, storeVars, attached, owed,
                  disturbed, left>>
  BY DEF Work
<1>4. /\ Tail(x) \in Seq(Items)
      /\ Tail(x) # <<>> => ScriptOK(Tail(x), turn)
      /\ GoOn(Tail(x), s, t, y)
  BY <1>2 DEF WorkStep
<1>5. /\ status' \in Status /\ traced' \in BOOLEAN /\ turn' \in MaybeGeneration
      /\ queued' \in 0..MaxAsked /\ JobIs' /\ job'.kind \in TasksOf(left.policy)
      /\ WithinBound' /\ queued' <= queued
  BY <1>3, <1>4, WorkIs, GoOnIs
<1>6. chain' \in Seq(Under)
  <2>1. chain \in Seq(Under) BY DEF TypeInv
  <2>2. CASE UNCHANGED chain BY <2>1, <2>2
  <2>3. CASE x[1] \in TaskEvents /\ chain' = chain \o <<x[1]>>
    <3> DEFINE e == x[1]
    <3>1. e \in Under /\ chain' = chain \o <<e>> BY <2>3, CalmIs
    <3> HIDE DEF e
    <3>2. QED BY <2>1, <3>1
  <2>4. QED BY <1>2, <2>2, <2>3 DEF WorkStep
<1>7. TypeOK' BY <1>3, <1>5 DEF TypeInv, TypeOK, storeVars, JobIs
<1>8. left.policy = "send_now" => queued' = 0
  BY <1>5, BoundIs DEF TypeInv
<1>9. QED BY <1>3, <1>5, <1>6, <1>7, <1>8 DEF TypeInv

\* The client's calls, and the end of the connection.
LEMMA CallSum ==
  ASSUME NEW M \in Nat, NEW t \in Nat, NEW q \in Nat, NEW h \in Nat, NEW c \in Nat,
         NEW a \in Nat, NEW r \in Nat, NEW e \in Nat, NEW a2 \in Nat, NEW r2 \in Nat,
         e <= c + 1, a2 + r2 = a + r - 1, t + q + h + c + a + r <= M
  PROVE  t + q + h + e + a2 + r2 <= M
  OBVIOUS

LEMMA CallType ==
  ASSUME TypeInv, NEW call \in {"append", "commit", "request", "stop"}, May(call),
         NEW m \in Seq(Message), Requests(m), m \in Seq(MessagesOf(left.policy)),
         \A i \in DOMAIN m : m[i] \in Asks => i = Len(m),
         call \notin {"append", "request"} => \A i \in DOMAIN m : m[i] \notin Asks,
         UNCHANGED <<heard, queued, turn>>
  PROVE  WithinBound' /\ left' \in Conversation /\ left'.policy = left.policy
         /\ up' \in Seq(MessagesOf(left.policy))
<1>1. /\ left \in Conversation /\ left[call] > 0 /\ left' = [left EXCEPT ![call] = @ - 1]
      /\ up \in Seq(MessagesOf(left.policy))
  BY DEF TypeInv, TypeOK, May
<1>2. left[call] \in Nat /\ left[call] - 1 \in Nat BY <1>1 DEF Conversation
<1>3. left' \in Conversation /\ left'.policy = left.policy
  BY <1>1, <1>2 DEF Conversation
<1>4. up' = up \/ up' = up \o m BY DEF Requests
<1>5. up' \in Seq(MessagesOf(left.policy))
  <2> DEFINE M == MessagesOf(left.policy)
  <2>1. up \in Seq(M) /\ m \in Seq(M) BY <1>1
  <2> HIDE DEF M
  <2>2. up \o m \in Seq(M)
    <3>1. \A a \in Seq(M), b \in Seq(M) : a \o b \in Seq(M) BY ConcatProperties
    <3>2. QED BY <2>1, <3>1, Zenon
  <2>3. QED BY <1>4, <2>1, <2>2, Zenon DEF M
<1>6. up \in Seq(Message) BY BoundIs
<1>7. /\ Cardinality(AsksIn(up \o m)) <= Cardinality(AsksIn(up)) + 1
      /\ Cardinality(AsksIn(up \o m)) \in Nat
  <2>1. up \o m \in Seq(Message) BY <1>6
  <2>2. QED BY <1>6, <2>1, AsksMore, AsksAreFinite
<1>8. call \notin {"append", "request"} =>
        Cardinality(AsksIn(up \o m)) <= Cardinality(AsksIn(up))
  BY <1>6, AsksSame
<1>9. turn + queued + Holding + Cardinality(AsksIn(up)) + left.append + left.request
        <= MaxAsked
  BY DEF TypeInv, WithinBound
<1> DEFINE c == Cardinality(AsksIn(up))
<1> DEFINE d == Cardinality(AsksIn(up \o m))
<1> DEFINE e == Cardinality(AsksIn(up'))
<1>10. c \in Nat /\ d \in Nat /\ d <= c + 1 /\ (e = c \/ e = d)
         /\ e \in Nat /\ e <= c + 1
  <2>1. e = c \/ e = d
    <3>1. CASE up' = up BY <3>1
    <3>2. CASE up' = up \o m BY <3>2
    <3>3. QED BY <1>4, <3>1, <3>2
  <2>2. c \in Nat /\ d \in Nat /\ d <= c + 1 BY <1>7, BoundIs
  <2> HIDE DEF c, d, e
  <2>3. QED BY <2>1, <2>2
<1>11. turn + queued + Holding + c + left.append + left.request <= MaxAsked BY <1>9
<1>12. turn \in Nat /\ queued \in Nat /\ Holding \in Nat /\ left.append \in Nat
         /\ left.request \in Nat /\ MaxAsked \in Nat
  BY BoundIs
<1>13. call \notin {"append", "request"} => d <= c BY <1>8
<1> HIDE DEF c, d, e
<1>14. turn + queued + Holding + e + left'.append + left'.request <= MaxAsked
  <2>1. CASE call \in {"append", "request"}
    <3>1. left'.append + left'.request = left.append + left.request - 1
      BY <1>1, <1>12, <2>1 DEF Conversation
    <3>2. left'.append \in Nat /\ left'.request \in Nat BY <1>3 DEF Conversation
    <3> DEFINE a == left'.append
    <3> DEFINE r == left'.request
    <3>3. a \in Nat /\ r \in Nat /\ a + r = left.append + left.request - 1
      BY <3>1, <3>2
    <3> HIDE DEF a, r
    <3>4. turn + queued + Holding + e + a + r <= MaxAsked
      BY <1>10, <1>11, <1>12, <3>3, CallSum
    <3>5. QED BY <3>4 DEF a, r
  <2>2. CASE call \notin {"append", "request"}
    <3>1. left'.append = left.append /\ left'.request = left.request
      BY <1>1, <2>2 DEF Conversation
    <3>2. QED BY <1>10, <1>11, <1>12, <1>13, <2>2, <3>1
  <2>3. QED BY <2>1, <2>2
<1>15. WithinBound'
  <2>1. Holding' = Holding /\ turn' = turn /\ queued' = queued /\ Cardinality(AsksIn(up)') = e
    BY DEF Holding, AsksIn, e
  <2>2. QED BY <1>14, <2>1 DEF WithinBound
<1>16. QED BY <1>3, <1>5, <1>15

LEMMA MessageSeqs ==
  ASSUME NEW p
  PROVE  /\ <<"append">> \in Seq(MessagesOf(p)) /\ <<"commit">> \in Seq(MessagesOf(p))
         /\ p # "enqueue" =>
              /\ <<"stop">> \in Seq(MessagesOf(p))
              /\ \A m \in {"reply", "say"} :
                   <<m>> \in Seq(MessagesOf(p)) /\ <<"stop", m>> \in Seq(MessagesOf(p))
<1>1. "append" \in MessagesOf(p) /\ "commit" \in MessagesOf(p) BY DEF MessagesOf
<1>2. p # "enqueue" => {"stop", "reply", "say"} \subseteq MessagesOf(p)
  BY DEF MessagesOf
<1> DEFINE M == MessagesOf(p)
<1>3. \A a \in M : <<a>> \in Seq(M)
  <2> HIDE DEF M
  <2>1. QED OBVIOUS
<1>4. \A a \in M, b \in M : <<a, b>> \in Seq(M)
  <2> HIDE DEF M
  <2>1. QED OBVIOUS
<1>5. <<"append">> \in Seq(M) /\ <<"commit">> \in Seq(M) BY <1>1, <1>3
<1>6. ASSUME p # "enqueue"
      PROVE  /\ <<"stop">> \in Seq(M)
             /\ \A m \in {"reply", "say"} : <<m>> \in Seq(M) /\ <<"stop", m>> \in Seq(M)
  BY <1>2, <1>3, <1>4, <1>6
<1>7. QED BY <1>5, <1>6

\* What the client's calls do not touch.
LEMMA WorkerKept ==
  ASSUME TypeInv, UNCHANGED workerVars, UNCHANGED chain, left'.policy = left.policy,
         left' \in Conversation, WithinBound', up' \in Seq(MessagesOf(left.policy)),
         link' \in {"open", "dropped", "closed"}, owner' \in Gate,
         shown' \in VoiceSessionState, clock' \in BOOLEAN, attached' \in BOOLEAN,
         owed' \in BOOLEAN
  PROVE  TypeInv'
<1> USE DEF workerVars
<1>1. JobIs' BY DEF TypeInv, JobIs
<1>2. {clock', attached', owed'} \subseteq BOOLEAN OBVIOUS
<1>3. TypeOK' BY <1>2 DEF TypeInv, TypeOK, Gate
<1>4. QED BY <1>1, <1>3 DEF TypeInv

LEMMA FlagsAre ==
  ASSUME TypeInv
  PROVE  /\ clock \in BOOLEAN /\ attached \in BOOLEAN /\ owed \in BOOLEAN
         /\ owner \in Gate /\ shown \in VoiceSessionState
         /\ link \in {"open", "dropped", "closed"} /\ left \in Conversation
         /\ up \in Seq(MessagesOf(left.policy)) /\ WithinBound
  BY DEF TypeInv, TypeOK, Gate

LEMMA AttachType ==
  ASSUME TypeInv, Attach
  PROVE  TypeInv'
<1>1. /\ attached' = TRUE
      /\ UNCHANGED <<workerVars, up, chain, link, owner, storeVars, owed, disturbed,
                     left>>
  BY DEF Attach
<1>2. WithinBound' BY <1>1, BoundKept DEF workerVars
<1>3. attached' \in BOOLEAN BY <1>1
<1>4. QED BY <1>1, <1>2, <1>3, FlagsAre, WorkerKept DEF storeVars

LEMMA AppendAudioType ==
  ASSUME TypeInv, AppendAudio
  PROVE  TypeInv'
<1>1. /\ May("append") /\ Requests(<<"append">>)
      /\ UNCHANGED <<workerVars, chain, link, owner, storeVars, attached, owed,
                     disturbed>>
  BY DEF AppendAudio
<1>2. <<"append">> \in Seq(MessagesOf(left.policy)) BY MessageSeqs
<1>3. <<"append">> \in Seq(Message) BY <1>2, MessagesAre
<1>4. WithinBound' /\ left' \in Conversation /\ left'.policy = left.policy
         /\ up' \in Seq(MessagesOf(left.policy))
  <2> DEFINE m == <<"append">>
  <2>1. \A i \in DOMAIN m : m[i] \in Asks => i = Len(m) OBVIOUS
  <2>2. m \in Seq(Message) /\ m \in Seq(MessagesOf(left.policy)) /\ Requests(m)
    BY <1>1, <1>2, <1>3
  <2> HIDE DEF m
  <2>3. QED BY <1>1, <2>1, <2>2, CallType DEF workerVars
<1>5. QED BY <1>1, <1>4, FlagsAre, WorkerKept DEF storeVars

LEMMA OutboundType ==
  ASSUME NEW s \in VoiceSessionState, NEW late \in BOOLEAN
  PROVE  /\ reduceVoiceSessionOutboundMessage(s, "commit", late) \in VoiceSessionState
         /\ reduceVoiceSessionOutboundMessage(s, "commit", late).final = s.final
         /\ reduceVoiceSessionOutboundMessage(s, "commit", late).words = s.words
         /\ reduceVoiceSessionOutboundMessage(s, "commit", late).queue = s.queue
         /\ reduceVoiceSessionOutboundMessage(s, "commit", late).transcript = s.transcript
<1>1. [phase |-> "commit_sent", elapsed |-> 0] \in [phase : PendingPhase, elapsed : 0..3]
  BY DEF PendingPhase
<1>2. QED BY <1>1 DEF reduceVoiceSessionOutboundMessage, VoiceSessionState

LEMMA CommitAudioType ==
  ASSUME TypeInv, CommitAudio
  PROVE  TypeInv'
<1>1. /\ May("commit") /\ Requests(<<"commit">>)
      /\ UNCHANGED <<workerVars, chain, link, owner, attached, owed, disturbed>>
  BY DEF CommitAudio
<1>2. <<"commit">> \in Seq(MessagesOf(left.policy)) BY MessageSeqs
<1>3. <<"commit">> \in Seq(Message) BY <1>2, MessagesAre
<1>4. WithinBound' /\ left' \in Conversation /\ left'.policy = left.policy
         /\ up' \in Seq(MessagesOf(left.policy))
  <2> DEFINE m == <<"commit">>
  <2>1. \A i \in DOMAIN m : m[i] \notin Asks BY DEF Asks
  <2>2. m \in Seq(Message) /\ m \in Seq(MessagesOf(left.policy)) /\ Requests(m)
    BY <1>1, <1>2, <1>3
  <2> HIDE DEF m
  <2>3. QED BY <1>1, <2>1, <2>2, CallType DEF workerVars
<1>5. PICK late \in BOOLEAN :
        Dispatch(reduceVoiceSessionOutboundMessage(shown, "commit", late))
  BY DEF CommitAudio
<1>6. shown' \in VoiceSessionState /\ clock' \in BOOLEAN
  <2> DEFINE r == reduceVoiceSessionOutboundMessage(shown, "commit", late)
  <2>1. r \in VoiceSessionState BY FlagsAre, OutboundType
  <2> HIDE DEF r
  <2>2. shown' = r /\ clock' = (r.pending.phase # "idle")
    BY <1>5 DEF Dispatch, ensurePendingTurnClock, r
  <2>3. QED BY <2>1, <2>2
<1>7. QED BY <1>1, <1>4, <1>6, FlagsAre, WorkerKept

LEMMA InterruptType ==
  ASSUME TypeInv, Interrupt
  PROVE  TypeInv'
<1>1. /\ May("stop") /\ Requests(<<"stop">>) /\ left.policy = "send_now"
      /\ owner' = RejectActive(owner) /\ owed' = (owed \/ link = "open")
      /\ UNCHANGED <<workerVars, chain, link, storeVars, attached, disturbed>>
  BY DEF Interrupt
<1>2. <<"stop">> \in Seq(MessagesOf(left.policy)) BY <1>1, MessageSeqs
<1>3. <<"stop">> \in Seq(Message) BY <1>2, MessagesAre
<1>4. WithinBound' /\ left' \in Conversation /\ left'.policy = left.policy
         /\ up' \in Seq(MessagesOf(left.policy))
  <2> DEFINE m == <<"stop">>
  <2>1. \A i \in DOMAIN m : m[i] \notin Asks BY DEF Asks
  <2>2. m \in Seq(Message) /\ m \in Seq(MessagesOf(left.policy)) /\ Requests(m)
    BY <1>1, <1>2, <1>3
  <2> HIDE DEF m
  <2>3. QED BY <1>1, <2>1, <2>2, CallType DEF workerVars
<1>5. owner' \in Gate BY <1>1, FlagsAre, RejectActiveType
<1>6. owed' \in BOOLEAN BY <1>1
<1>7. QED BY <1>1, <1>4, <1>5, <1>6, FlagsAre, WorkerKept DEF storeVars

LEMMA RequestType ==
  ASSUME TypeInv, Request
  PROVE  TypeInv'
<1>1. /\ May("request") /\ left.policy = "send_now"
      /\ UNCHANGED <<workerVars, chain, link, storeVars, attached, owed, disturbed>>
  BY DEF Request
<1>2. PICK m \in {"reply", "say"}, interrupts \in BOOLEAN :
       /\ owner' = IF interrupts THEN RejectActive(owner) ELSE owner
       /\ Requests(IF interrupts THEN <<"stop", m>> ELSE <<m>>)
  BY DEF Request
<1> DEFINE r == IF interrupts THEN <<"stop", m>> ELSE <<m>>
<1>3. r \in Seq(MessagesOf(left.policy)) BY <1>1, MessageSeqs
<1>4. \A i \in DOMAIN r : r[i] \in Asks => i = Len(r)
  <2>1. CASE interrupts
    <3>1. r = <<"stop", m>> BY <2>1
    <3>2. QED BY <3>1 DEF Asks
  <2>2. CASE ~interrupts
    <3>1. r = <<m>> BY <2>2
    <3>2. QED BY <3>1
  <2>3. QED BY <2>1, <2>2
<1>5. Requests(r) BY <1>2
<1> HIDE DEF r
<1>6. WithinBound' /\ left' \in Conversation /\ left'.policy = left.policy
         /\ up' \in Seq(MessagesOf(left.policy))
  BY <1>1, <1>3, <1>4, <1>5, MessagesAre, CallType DEF workerVars
<1>7. owner' \in Gate BY <1>2, FlagsAre, RejectActiveType
<1>8. QED BY <1>1, <1>6, <1>7, FlagsAre, WorkerKept DEF storeVars

LEMMA TickIs ==
  ASSUME NEW s \in VoiceSessionState, NEW n \in 0..3
  PROVE  /\ reduceVoiceSessionClockTick(s, n) \in VoiceSessionState
         /\ reduceVoiceSessionClockTick(s, n).final = s.final
         /\ reduceVoiceSessionClockTick(s, n).words = s.words
         /\ reduceVoiceSessionClockTick(s, n).queue = s.queue
         /\ reduceVoiceSessionClockTick(s, n).transcript = s.transcript
<1> DEFINE p == IF n = 0 THEN s.pending.phase ELSE Overdue[n]
<1>1. Overdue[1] \in PendingPhase /\ Overdue[2] \in PendingPhase
        /\ Overdue[3] \in PendingPhase
  BY DEF PendingPhase
<1>2. n = 0 \/ n = 1 \/ n = 2 \/ n = 3 OBVIOUS
<1>3. p \in PendingPhase BY <1>1, <1>2 DEF VoiceSessionState
<1>4. [phase |-> p, elapsed |-> n] \in [phase : PendingPhase, elapsed : 0..3]
  <2> HIDE DEF p
  <2>1. QED BY <1>3
<1>5. reduceVoiceSessionClockTick(s, n) =
        IF s.pending.phase = "idle" THEN s
        ELSE [s EXCEPT !.pending = [phase |-> p, elapsed |-> n]]
  BY DEF reduceVoiceSessionClockTick
<1> DEFINE b == [phase |-> p, elapsed |-> n]
<1> DEFINE t == [s EXCEPT !.pending = b]
<1>6. b \in [phase : PendingPhase, elapsed : 0..3] BY <1>4
<1> HIDE DEF b
<1>7. /\ t \in VoiceSessionState
      /\ t.final = s.final /\ t.words = s.words /\ t.queue = s.queue
      /\ t.transcript = s.transcript
  BY <1>6 DEF VoiceSessionState
<1>8. reduceVoiceSessionClockTick(s, n) = s \/ reduceVoiceSessionClockTick(s, n) = t
  <2> HIDE DEF t
  <2>1. reduceVoiceSessionClockTick(s, n) =
          IF s.pending.phase = "idle" THEN s ELSE t
    BY <1>5 DEF t, b
  <2>2. QED BY <2>1
<1> HIDE DEF t
<1>9. QED BY <1>7, <1>8

LEMMA TickType ==
  ASSUME TypeInv, Tick
  PROVE  TypeInv'
<1>1. UNCHANGED <<workerVars, up, chain, link, owner, attached, owed, disturbed, left>>
  BY DEF Tick
<1>2. PICK n \in shown.pending.elapsed .. 3 : Dispatch(reduceVoiceSessionClockTick(shown, n))
  BY DEF Tick
<1>3. n \in 0..3 BY FlagsAre DEF VoiceSessionState
<1>4. shown' \in VoiceSessionState /\ clock' \in BOOLEAN
  <2> DEFINE r == reduceVoiceSessionClockTick(shown, n)
  <2>1. r \in VoiceSessionState BY <1>3, FlagsAre, TickIs
  <2> HIDE DEF r
  <2>2. shown' = r /\ clock' = (r.pending.phase # "idle")
    BY <1>2 DEF Dispatch, ensurePendingTurnClock, r
  <2>3. QED BY <2>1, <2>2
<1>5. WithinBound' BY <1>1, BoundKept DEF workerVars
<1>6. QED BY <1>1, <1>4, <1>5, FlagsAre, WorkerKept

\* The first event of a sequence, removed.
LEMMA FirstRemoved ==
  ASSUME NEW S, NEW s \in Seq(S), s # <<>>
  PROVE  /\ 1 \in DOMAIN s /\ RemoveAt(s, 1) \in Seq(S)
         /\ Len(RemoveAt(s, 1)) = Len(s) - 1
         /\ \A i \in DOMAIN RemoveAt(s, 1) :
              i \in Nat /\ i + 1 \in DOMAIN s /\ RemoveAt(s, 1)[i] = s[i + 1]
<1> DEFINE n == Len(s)
<1> DEFINE b == SubSeq(s, 2, n)
<1> DEFINE r == RemoveAt(s, 1)
<1>1. n \in Nat /\ n >= 1 /\ DOMAIN s = 1..n BY EmptySeq
<1>2. SubSeq(s, 1, 0) = <<>> BY SubSeqEmpty
<1>3. /\ b \in Seq(S) /\ Len(b) = (IF 2 <= n THEN n - 2 + 1 ELSE 0)
      /\ \A i \in 1..n - 2 + 1 : b[i] = s[2 + i - 1]
  <2>1. \A i \in 2..n : s[i] \in S BY <1>1
  <2>2. 2 \in Int /\ n \in Int BY <1>1
  <2> HIDE DEF n
  <2>3. QED BY <2>1, <2>2, SubSeqProperties
<1>4. r = SubSeq(s, 1, 0) \o b
  <2>1. r = SubSeq(s, 1, 1 - 1) \o SubSeq(s, 1 + 1, n) BY DEF RemoveAt
  <2>2. 1 - 1 = 0 /\ 1 + 1 = 2 OBVIOUS
  <2>3. QED BY <2>1, <2>2
<1>5. r = b
  <2> HIDE DEF b, r
  <2>1. <<>> \o b = b BY <1>3, ConcatEmptySeq
  <2>2. QED BY <1>2, <1>4, <2>1
<1>6. Len(r) = n - 1 /\ r \in Seq(S)
  <2> HIDE DEF b, r, n
  <2>1. QED BY <1>1, <1>3, <1>5
<1>7. \A i \in DOMAIN r : i \in Nat /\ i + 1 \in DOMAIN s /\ r[i] = s[i + 1]
  <2> HIDE DEF b, r, n
  <2>1. DOMAIN r = 1..n - 1 BY <1>1, <1>6
  <2>2. \A i \in 1..n - 1 : b[i] = s[i + 1] BY <1>1, <1>3
  <2>3. QED BY <1>1, <1>5, <2>1, <2>2
<1>8. 1 \in DOMAIN s BY <1>1
<1> HIDE DEF b
<1>9. QED BY <1>6, <1>7, <1>8

\* The next event of the sequencer, and what the gate lets through of it.
Applied(e) ==
  shown' = IF ShouldAccept(owner, Gated(e)) THEN reduceVoiceSessionEvent(shown, e)
           ELSE shown

LEMMA ApplyIs ==
  ASSUME TypeInv, Apply
  PROVE  /\ chain[1] \in Under /\ 1 \in DOMAIN chain /\ Applied(chain[1])
         /\ chain' \in Seq(Under) /\ Len(chain') = Len(chain) - 1
         /\ \A i \in DOMAIN chain' :
              i \in Nat /\ i + 1 \in DOMAIN chain /\ chain'[i] = chain[i + 1]
         /\ owner' = Observe(owner, Gated(chain[1]))
         /\ owed' \in BOOLEAN /\ clock' \in BOOLEAN
         /\ UNCHANGED <<workerVars, up, link, attached, disturbed, left>>
<1>1. PICK i \in NextInChain :
        LET e == chain[i] IN
        /\ chain' = RemoveAt(chain, i)
        /\ owner' = Observe(owner, Gated(e))
        /\ IF ShouldAccept(owner, Gated(e))
             THEN Dispatch(reduceVoiceSessionEvent(shown, e))
             ELSE UNCHANGED storeVars
        /\ owed' = (owed /\ emitSignalsFromEvent(e) # "interrupt.lifecycle")
        /\ UNCHANGED <<workerVars, up, link, attached, disturbed, left>>
  BY DEF Apply
<1>2. i = 1 /\ 1 <= Len(chain) BY DEF NextInChain
<1>3. chain \in Seq(Under) BY DEF TypeInv
<1>4. chain # <<>> BY <1>2, <1>3, EmptySeq
<1>5. /\ 1 \in DOMAIN chain /\ RemoveAt(chain, 1) \in Seq(Under)
      /\ Len(RemoveAt(chain, 1)) = Len(chain) - 1
      /\ \A k \in DOMAIN RemoveAt(chain, 1) :
           k \in Nat /\ k + 1 \in DOMAIN chain /\ RemoveAt(chain, 1)[k] = chain[k + 1]
  BY <1>3, <1>4, FirstRemoved
<1>6. chain[1] \in Under BY <1>3, <1>5
<1> DEFINE e == chain[1]
<1> DEFINE r == reduceVoiceSessionEvent(shown, e)
<1>7. shown' = (IF ShouldAccept(owner, Gated(e)) THEN r ELSE shown)
        /\ clock' = IF ShouldAccept(owner, Gated(e)) THEN r.pending.phase # "idle" ELSE clock
  <2> HIDE DEF r
  <2>1. IF ShouldAccept(owner, Gated(e)) THEN Dispatch(r) ELSE UNCHANGED storeVars
    BY <1>1, <1>2 DEF r
  <2>2. CASE ShouldAccept(owner, Gated(e))
    BY <2>1, <2>2 DEF Dispatch, ensurePendingTurnClock
  <2>3. CASE ~ShouldAccept(owner, Gated(e))
    BY <2>1, <2>3 DEF storeVars
  <2>4. QED BY <2>2, <2>3
<1>8. clock' \in BOOLEAN
  <2> HIDE DEF r
  <2>1. clock \in BOOLEAN BY FlagsAre
  <2>2. QED BY <1>7, <2>1
<1>9. Applied(chain[1]) BY <1>7 DEF Applied
<1>10. owed' \in BOOLEAN BY <1>1
<1>11. QED BY <1>1, <1>2, <1>5, <1>6, <1>8, <1>9, <1>10

LEMMA ApplyType ==
  ASSUME TypeInv, Apply
  PROVE  TypeInv'
<1> DEFINE e == chain[1]
<1>1. e \in Under /\ Applied(e) /\ chain' \in Seq(Under)
        /\ owner' = Observe(owner, Gated(e))
        /\ owed' \in BOOLEAN /\ clock' \in BOOLEAN
        /\ UNCHANGED <<workerVars, up, link, attached, disturbed, left>>
  BY ApplyIs
<1> HIDE DEF e
<1>2. shown' \in VoiceSessionState
  BY <1>1, FlagsAre, ReduceType DEF Applied
<1>3. owner' \in Gate
  <2>1. Gated(e).gen = e.gen BY DEF Gated
  <2>2. Gated(e).gen \in MaybeGeneration BY <1>1, <2>1, UnderIs
  <2>3. QED BY <1>1, <2>2, FlagsAre, ObserveType
<1>4. WithinBound' BY <1>1, BoundKept DEF workerVars
<1>5. JobIs' BY <1>1 DEF TypeInv, JobIs, workerVars
<1>6. {clock', attached', owed'} \subseteq BOOLEAN BY <1>1, FlagsAre
<1>7. TypeOK' BY <1>1, <1>2, <1>3, <1>6 DEF TypeInv, TypeOK, Gate, workerVars
<1>8. QED BY <1>1, <1>4, <1>5, <1>7 DEF TypeInv, workerVars

LEMMA EndsType ==
  ASSUME TypeInv, NEW how \in {"dropped", "closed"}, Ends(how),
         owner' \in Gate, clock' \in BOOLEAN, attached' \in BOOLEAN
  PROVE  TypeInv'
<1>1. /\ link' = how /\ up' = <<>> /\ status' = "closed" /\ traced' = FALSE
      /\ heard' = "silence" /\ queued' = 0 /\ job' = NoJob /\ notices' = <<>>
      /\ owed' = FALSE /\ UNCHANGED <<turn, shown, disturbed, left>>
  BY DEF Ends
<1>2. PICK n \in 0..Len(chain) : chain' = SubSeq(chain, 1, n) BY DEF Ends
<1>3. chain' \in Seq(Under)
  <2>1. chain \in Seq(Under) BY DEF TypeInv
  <2>2. n \in Int /\ 1 \in Int /\ \A i \in 1..n : chain[i] \in Under BY <2>1
  <2>3. QED BY <1>2, <2>2, SubSeqProperties
<1>4. JobIs' BY <1>1 DEF JobIs, NoJob, MaybeGeneration
<1>5. WithinBound'
  <2>1. AsksIn(up)' = {} BY <1>1 DEF AsksIn
  <2>2. Cardinality(AsksIn(up)') = 0 /\ Holding' = 0
    BY <1>1, <2>1, FS_EmptySet DEF Holding
  <2>3. turn + queued + Holding + Cardinality(AsksIn(up)) + left.append + left.request
          <= MaxAsked
    BY DEF TypeInv, WithinBound
  <2>4. turn' + queued' + Holding' + Cardinality(AsksIn(up)') + left'.append
          + left'.request <= MaxAsked
    <3> DEFINE c == Cardinality(AsksIn(up))
    <3> DEFINE c2 == Cardinality(AsksIn(up)')
    <3> DEFINE h == Holding
    <3> DEFINE h2 == Holding'
    <3>1. c2 = 0 /\ h2 = 0 BY <2>2
    <3>2. c \in Nat /\ h \in Nat BY BoundIs
    <3>3. turn + queued + h + c + left.append + left.request <= MaxAsked BY <2>3
    <3>4. turn' = turn /\ queued' = 0 /\ left' = left BY <1>1
    <3>5. /\ turn \in Nat /\ queued \in Nat /\ left.append \in Nat
          /\ left.request \in Nat /\ MaxAsked \in Nat
      BY BoundIs
    <3>6. turn + 0 + 0 + 0 + left.append + left.request <= MaxAsked
      <4> HIDE DEF c, c2, h, h2
      <4>1. QED BY <3>2, <3>3, <3>5
    <3>7. QED BY <3>1, <3>4, <3>6
  <2>5. QED BY <2>4 DEF WithinBound
<1>6. {clock', attached', owed'} \subseteq BOOLEAN BY <1>1
<1>7. "closed" \in Status BY DEF Status
<1>8. TypeOK'
  <2>1. queued' \in 0..MaxAsked BY <1>1, BoundIs
  <2>2. traced' \in BOOLEAN BY <1>1
  <2>3. turn \in MaybeGeneration BY DEF TypeInv, TypeOK
  <2>4. shown' \in VoiceSessionState /\ left' \in Conversation BY <1>1, FlagsAre
  <2>5. job'.kind = "none" BY <1>1 DEF NoJob
  <2>6. QED BY <1>1, <1>6, <1>7, <2>1, <2>2, <2>3, <2>4, <2>5 DEF TypeOK, Gate
<1>9. up' \in Seq(MessagesOf(left'.policy)) /\ notices' \in Seq(NoticesOf(left'.policy))
        /\ job'.kind \in TasksOf(left'.policy)
  BY <1>1 DEF NoJob, TasksOf
<1>10. QED BY <1>1, <1>3, <1>4, <1>5, <1>8, <1>9 DEF TypeInv

LEMMA NextType == TypeInv /\ [Next]_vars => TypeInv'
<1> SUFFICES ASSUME TypeInv, [Next]_vars PROVE TypeInv' OBVIOUS
<1>1. CASE Drop
  <2>1. Ends("dropped") /\ UNCHANGED <<owner, clock, attached>> BY <1>1 DEF Drop
  <2>2. QED BY <2>1, FlagsAre, EndsType
<1>2. CASE Close
  <2>1. Ends("closed") /\ owner' = OpenGate /\ attached' = FALSE
          /\ clock' = ensurePendingTurnClock(shown)
    BY <1>2 DEF Close
  <2>2. owner' \in Gate BY <2>1 DEF OpenGate, Gate, MaybeGeneration
  <2>3. clock' \in BOOLEAN /\ attached' \in BOOLEAN
    BY <2>1 DEF ensurePendingTurnClock
  <2>4. QED BY <2>1, <2>2, <2>3, EndsType
<1>3. CASE UNCHANGED vars
  <2>1. WithinBound'
    BY <1>3, BoundKept DEF vars, workerVars
  <2>2. JobIs' BY <1>3 DEF vars, workerVars, TypeInv, JobIs
  <2>3. TypeOK' BY <1>3 DEF vars, workerVars, storeVars, TypeInv, TypeOK
  <2>4. QED BY <1>3, <2>1, <2>2, <2>3 DEF vars, workerVars, TypeInv
<1>4. QED
  BY <1>1, <1>2, <1>3, HandleType, SendNoticeType, SendLeadType, WorkType,
     AttachType, AppendAudioType, CommitAudioType, InterruptType, RequestType,
     TickType, ApplyType
  DEF Next

\* Every variable of the session keeps its type, and no turn goes without a
\* number: what is begun, queued, heard or asked for is within the calls of the
\* conversation (worker.py:291-330, 407-419).
THEOREM SessionIsTyped == Spec => []TypeOK
<1>1. TypeInv => TypeOK BY DEF TypeInv
<1>2. QED BY <1>1, InitTypeInv, NextType, PTL DEF Spec

-----------------------------------------------------------------------------
(* What is told of the turns, in their order.                              *)

EntryPlace(x) == IF x[1] = "user" THEN 1 ELSE 3

\* The store s has come to no place of turn g from p on.
ToldBefore(s, g, p) ==
  /\ s.final < g \/ (s.final = g /\ p > 1)
  /\ \A k \in DOMAIN s.transcript :
       \/ s.transcript[k][2] < g
       \/ s.transcript[k][2] = g /\ EntryPlace(s.transcript[k]) < p
Earlier(e, g, p) == e.turn < g \/ (e.turn = g /\ Place(e) < p)

\* The transcript u is t with one more entry, perhaps without its first.
Grown(t, u, x) ==
  \E d \in {0, 1} : \A i \in DOMAIN u :
    /\ i + d \in 1..Len(t) + 1
    /\ u[i] = IF i + d <= Len(t) THEN t[i + d] ELSE x

LEMMA EnteredIs ==
  ASSUME NEW s \in VoiceSessionState, NEW role \in {"user", "assistant"},
         NEW g \in Generation
  PROVE  /\ Grown(s.transcript, Entered(s, role, g).transcript, <<role, g>>)
         /\ Entered(s, role, g).final = s.final /\ Entered(s, role, g).words = s.words
         /\ Entered(s, role, g).queue = s.queue
<1> DEFINE T == {"user", "assistant"} \X Generation
<1> DEFINE t == s.transcript
<1> DEFINE x == <<role, g>>
<1> DEFINE all == Append(t, x)
<1>1. t \in Seq(T) /\ x \in T BY DEF VoiceSessionState
<1> HIDE DEF T, t, x
<1>2. /\ all \in Seq(T) /\ all # <<>> /\ Len(all) = Len(t) + 1 /\ Len(t) \in Nat
      /\ DOMAIN all = 1..Len(t) + 1
      /\ \A i \in 1..Len(t) + 1 : all[i] = IF i <= Len(t) THEN t[i] ELSE x
  BY <1>1, AppendProperties
<1> HIDE DEF all
<1>3. Grown(t, all, x)
  <2>1. \A i \in DOMAIN all : i + 0 \in 1..Len(t) + 1
            /\ all[i] = IF i + 0 <= Len(t) THEN t[i + 0] ELSE x
    BY <1>2
  <2>2. QED BY <2>1 DEF Grown
<1>4. Grown(t, Tail(all), x)
  <2>1. \A i \in DOMAIN Tail(all) :
          /\ i \in Nat /\ i + 1 \in DOMAIN all /\ Tail(all)[i] = all[i + 1]
    BY <1>2, TailIs
  <2>2. \A i \in DOMAIN Tail(all) :
          /\ i + 1 \in 1..Len(t) + 1
          /\ Tail(all)[i] = IF i + 1 <= Len(t) THEN t[i + 1] ELSE x
    BY <1>2, <2>1
  <2>3. QED BY <2>2 DEF Grown
<1>5. Entered(s, role, g) = [s EXCEPT !.transcript =
        IF Len(all) > TranscriptLimit THEN Tail(all) ELSE all]
  BY DEF Entered, all, t, x
<1> DEFINE u == IF Len(all) > TranscriptLimit THEN Tail(all) ELSE all
<1>6. Grown(t, u, x) BY <1>3, <1>4
<1> HIDE DEF u
<1>7. Entered(s, role, g) = [s EXCEPT !.transcript = u] BY <1>5 DEF u
<1>8. /\ Entered(s, role, g).transcript = u /\ Entered(s, role, g).final = s.final
      /\ Entered(s, role, g).words = s.words /\ Entered(s, role, g).queue = s.queue
  BY <1>7 DEF VoiceSessionState
<1>9. QED BY <1>6, <1>8 DEF t, x

\* What an event changes in what is told, and in the number of turns queued.
FieldsOf(r, s) == r.final = s.final /\ r.words = s.words /\ r.transcript = s.transcript
QueueAfter(q, e) ==
  CASE e.type = "turn.queued" -> e.queue_size
    [] e.type = "turn.metrics" -> IF ~e.cancelled /\ q > 0 THEN q - 1 ELSE q
    [] e.type = "conversation.interrupted" -> 0
    [] OTHER -> q

LEMMA DerivedKeeps ==
  ASSUME NEW s \in VoiceSessionState
  PROVE  /\ FieldsOf(Derived(s), s) /\ Derived(s).queue = s.queue
         /\ FieldsOf(Resolved(s), s) /\ Resolved(s).queue = s.queue
<1>1. FieldsOf(Derived(s), s) /\ Derived(s).queue = s.queue
  BY DEF Derived, FieldsOf, VoiceSessionState
<1>2. FieldsOf(Resolved(s), s) /\ Resolved(s).queue = s.queue
  BY DEF Resolved, FieldsOf, VoiceSessionState
<1>3. QED BY <1>1, <1>2

LEMMA StatusKeeps ==
  ASSUME NEW s \in VoiceSessionState, NEW e, e.status \in Status
  PROVE  /\ OnStatus(s, e) \in VoiceSessionState
         /\ FieldsOf(OnStatus(s, e), s) /\ OnStatus(s, e).queue = s.queue
<1> DEFINE t == [s EXCEPT !.status = e.status]
<1>1. t \in VoiceSessionState /\ FieldsOf(t, s) /\ t.queue = s.queue
  BY DEF VoiceSessionState, FieldsOf
<1> HIDE DEF t
<1>2. /\ Resolved(t) \in VoiceSessionState /\ FieldsOf(Resolved(t), t)
      /\ Resolved(t).queue = t.queue
  BY <1>1, ResolvedType, DerivedKeeps
<1> DEFINE w == [t EXCEPT !.pending.phase = "awaiting_backend"]
<1>3. w \in VoiceSessionState /\ FieldsOf(w, t) /\ w.queue = t.queue
  BY <1>1 DEF VoiceSessionState, FieldsOf, PendingPhase
<1> HIDE DEF w
<1>4. OnStatus(s, e) \in {t, Resolved(t), w}
  BY DEF OnStatus, t, w
<1>5. QED BY <1>1, <1>2, <1>3, <1>4 DEF FieldsOf

\* The effect of an event on what the store tells.
ReducedOK(s, e, r) ==
  /\ e.type = "stt.final" =>
       \/ s.final = e.turn /\ r = s
       \/ /\ r.final = e.turn /\ r.words = {}
          /\ Grown(s.transcript, r.transcript, <<"user", e.turn>>)
  /\ e.type = "llm.response.delta" =>
       /\ r.final = s.final /\ r.transcript = s.transcript
       /\ r.words = s.words \cup {e.turn}
  /\ e.type = "llm.completed" =>
       /\ r.final = s.final /\ r.words = {e.turn}
       /\ Grown(s.transcript, r.transcript, <<"assistant", e.turn>>)
  /\ e.type \notin ToldTypes =>
       r.final = s.final /\ r.transcript = s.transcript /\ r.words \subseteq s.words
  /\ r.queue = QueueAfter(s.queue, e)

\* An event that tells nothing and queues nothing.
LEMMA KeptIsOK ==
  ASSUME NEW s, NEW e, NEW r, FieldsOf(r, s), r.queue = s.queue,
         e.type \notin ToldTypes,
         e.type \notin {"turn.queued", "turn.metrics", "conversation.interrupted"}
  PROVE  ReducedOK(s, e, r)
<1>1. QueueAfter(s.queue, e) = s.queue BY DEF QueueAfter
<1>2. QED BY <1>1 DEF ReducedOK, FieldsOf, ToldTypes

LEMMA ReduceTells ==
  ASSUME NEW s \in VoiceSessionState, NEW e \in Under
  PROVE  ReducedOK(s, e, reduceVoiceSessionEvent(s, e))
<1> DEFINE r == reduceVoiceSessionEvent(s, e)
<1>1. CASE e.type = "session.ready"
  <2>1. r = [s EXCEPT !.status = "ready", !.phase = "listening"]
    BY <1>1 DEF reduceVoiceSessionEvent
  <2>2. FieldsOf(r, s) /\ r.queue = s.queue
    BY <2>1 DEF FieldsOf, VoiceSessionState
  <2> HIDE DEF r
  <2>3. ReducedOK(s, e, r) BY <1>1, <2>2, KeptIsOK DEF ToldTypes
  <2>4. QED BY <2>3 DEF r
<1>2. CASE e.type = "session.status"
  <2>1. e.status \in Status BY <1>2, UnderIs
  <2>2. r = Derived(OnStatus(s, e)) BY <1>2 DEF reduceVoiceSessionEvent
  <2>3. FieldsOf(r, s) /\ r.queue = s.queue
    BY <2>1, <2>2, StatusKeeps, DerivedKeeps DEF FieldsOf
  <2> HIDE DEF r
  <2>4. ReducedOK(s, e, r) BY <1>2, <2>3, KeptIsOK DEF ToldTypes
  <2>5. QED BY <2>4 DEF r
<1>3. CASE e.type = "vad.state"
  <2> DEFINE t == [s EXCEPT !.vad = e.speaking]
  <2>1. t \in VoiceSessionState /\ FieldsOf(t, s) /\ t.queue = s.queue
    BY <1>3, UnderIs DEF VoiceSessionState, FieldsOf
  <2>2. r = Derived(t) BY <1>3 DEF reduceVoiceSessionEvent
  <2> HIDE DEF t, r
  <2>3. FieldsOf(r, s) /\ r.queue = s.queue
    BY <2>1, <2>2, DerivedKeeps DEF FieldsOf
  <2>4. ReducedOK(s, e, r) BY <1>3, <2>3, KeptIsOK DEF ToldTypes
  <2>5. QED BY <2>4 DEF r
<1>4. CASE e.type = "stt.status"
  <2>1. r = Derived(s) BY <1>4 DEF reduceVoiceSessionEvent
  <2> HIDE DEF r
  <2>2. FieldsOf(r, s) /\ r.queue = s.queue BY <2>1, DerivedKeeps
  <2>3. ReducedOK(s, e, r) BY <1>4, <2>2, KeptIsOK DEF ToldTypes
  <2>4. QED BY <2>3 DEF r
<1>5. CASE e.type = "stt.final"
  <2>1. CASE s.final = e.turn
    <3>1. r = s BY <1>5, <2>1 DEF reduceVoiceSessionEvent
    <3>2. QueueAfter(s.queue, e) = s.queue BY <1>5 DEF QueueAfter
    <3>3. QED BY <1>5, <2>1, <3>1, <3>2 DEF ReducedOK, ToldTypes
  <2>2. CASE s.final # e.turn
    <3> DEFINE t == [s EXCEPT !.final = e.turn, !.words = {}, !.tts = "idle",
                              !.cancelled = FALSE]
    <3>1. e.turn \in Generation BY <1>5, UnderIs DEF ToldTypes
    <3>2. /\ t \in VoiceSessionState /\ t.final = e.turn /\ t.words = {}
          /\ t.transcript = s.transcript /\ t.queue = s.queue
      BY <3>1 DEF VoiceSessionState, MaybeGeneration
    <3> DEFINE u == Resolved(t)
    <3> HIDE DEF t
    <3>3. u \in VoiceSessionState /\ FieldsOf(u, t) /\ u.queue = t.queue
      BY <3>2, ResolvedType, DerivedKeeps
    <3> HIDE DEF u
    <3> DEFINE w == Entered(u, "user", e.turn)
    <3>4. /\ Grown(u.transcript, w.transcript, <<"user", e.turn>>)
          /\ w.final = u.final /\ w.words = u.words /\ w.queue = u.queue
          /\ w \in VoiceSessionState
      BY <3>1, <3>3, EnteredIs, EnteredType
    <3>5. r = Derived(w)
      BY <1>5, <2>2 DEF reduceVoiceSessionEvent, OnFinal, u, t
    <3> HIDE DEF w, r
    <3>6. FieldsOf(r, w) /\ r.queue = w.queue BY <3>4, <3>5, DerivedKeeps
    <3>7. QueueAfter(s.queue, e) = s.queue BY <1>5 DEF QueueAfter
    <3>8. ReducedOK(s, e, r)
      BY <1>5, <3>2, <3>3, <3>4, <3>6, <3>7 DEF ReducedOK, FieldsOf, ToldTypes
    <3>9. QED BY <3>8 DEF r
  <2>3. QED BY <2>1, <2>2
<1>6. CASE e.type \in {"route.selected", "llm.phase", "llm.tool.update",
                       "llm.reasoning.delta"}
  <2>1. r = Derived(Resolved(s)) BY <1>6 DEF reduceVoiceSessionEvent, OnRoute
  <2> HIDE DEF r
  <2>2. FieldsOf(r, s) /\ r.queue = s.queue
    BY <2>1, ResolvedType, DerivedKeeps DEF FieldsOf
  <2>3. ReducedOK(s, e, r) BY <1>6, <2>2, KeptIsOK DEF ToldTypes
  <2>4. QED BY <2>3 DEF r
<1>7. CASE e.type = "llm.response.delta"
  <2> DEFINE t == [s EXCEPT !.words = @ \cup {e.turn}]
  <2>1. e.turn \in Generation BY <1>7, UnderIs DEF ToldTypes
  <2>2. /\ t \in VoiceSessionState /\ t.final = s.final
        /\ t.words = s.words \cup {e.turn}
        /\ t.transcript = s.transcript /\ t.queue = s.queue
    BY <2>1 DEF VoiceSessionState
  <2>3. r = Derived(Resolved(t)) BY <1>7 DEF reduceVoiceSessionEvent, OnDelta
  <2> HIDE DEF t, r
  <2>4. FieldsOf(r, t) /\ r.queue = t.queue
    BY <2>2, <2>3, ResolvedType, DerivedKeeps DEF FieldsOf
  <2>5. QueueAfter(s.queue, e) = s.queue BY <1>7 DEF QueueAfter
  <2>6. ReducedOK(s, e, r)
    BY <1>7, <2>2, <2>4, <2>5 DEF ReducedOK, FieldsOf, ToldTypes
  <2>7. QED BY <2>6 DEF r
<1>8. CASE e.type = "llm.completed"
  <2> DEFINE t == [s EXCEPT !.words = {e.turn}]
  <2>1. e.turn \in Generation BY <1>8, UnderIs DEF ToldTypes
  <2>2. /\ t \in VoiceSessionState /\ t.final = s.final /\ t.words = {e.turn}
        /\ t.transcript = s.transcript /\ t.queue = s.queue
    BY <2>1 DEF VoiceSessionState
  <2> DEFINE u == Resolved(t)
  <2> HIDE DEF t
  <2>3. u \in VoiceSessionState /\ FieldsOf(u, t) /\ u.queue = t.queue
    BY <2>2, ResolvedType, DerivedKeeps
  <2> HIDE DEF u
  <2> DEFINE w == Entered(u, "assistant", e.turn)
  <2>4. /\ Grown(u.transcript, w.transcript, <<"assistant", e.turn>>)
        /\ w.final = u.final /\ w.words = u.words /\ w.queue = u.queue
        /\ w \in VoiceSessionState
    BY <2>1, <2>3, EnteredIs, EnteredType
  <2>5. r = Derived(w)
    BY <1>8 DEF reduceVoiceSessionEvent, OnCompleted, u, t
  <2> HIDE DEF w, r
  <2>6. FieldsOf(r, w) /\ r.queue = w.queue BY <2>4, <2>5, DerivedKeeps
  <2>7. QueueAfter(s.queue, e) = s.queue BY <1>8 DEF QueueAfter
  <2>8. ReducedOK(s, e, r)
    BY <1>8, <2>2, <2>3, <2>4, <2>6, <2>7 DEF ReducedOK, FieldsOf, ToldTypes
  <2>9. QED BY <2>8 DEF r
<1>9. CASE e.type = "tts.chunk"
  <2> DEFINE t == [s EXCEPT !.tts = "playing", !.segment = e.gen]
  <2>1. t \in VoiceSessionState /\ FieldsOf(t, s) /\ t.queue = s.queue
    BY UnderIs DEF VoiceSessionState, FieldsOf
  <2>2. r = Derived(Resolved(t)) BY <1>9 DEF reduceVoiceSessionEvent, OnChunk
  <2> HIDE DEF t, r
  <2>3. FieldsOf(r, s) /\ r.queue = s.queue
    BY <2>1, <2>2, ResolvedType, DerivedKeeps DEF FieldsOf
  <2>4. ReducedOK(s, e, r) BY <1>9, <2>3, KeptIsOK DEF ToldTypes
  <2>5. QED BY <2>4 DEF r
<1>10. CASE e.type = "tts.completed"
  <2> DEFINE t == [s EXCEPT !.tts = "complete", !.segment = NoGeneration]
  <2>1. t \in VoiceSessionState /\ FieldsOf(t, s) /\ t.queue = s.queue
    BY DEF VoiceSessionState, FieldsOf, MaybeGeneration
  <2>2. r = Derived(Resolved(t)) BY <1>10 DEF reduceVoiceSessionEvent, OnSpoken
  <2> HIDE DEF t, r
  <2>3. FieldsOf(r, s) /\ r.queue = s.queue
    BY <2>1, <2>2, ResolvedType, DerivedKeeps DEF FieldsOf
  <2>4. ReducedOK(s, e, r) BY <1>10, <2>3, KeptIsOK DEF ToldTypes
  <2>5. QED BY <2>4 DEF r
<1>11. CASE e.type = "conversation.interrupted"
  <2> DEFINE t == Resolved(s)
  <2>1. t \in VoiceSessionState /\ FieldsOf(t, s) BY ResolvedType, DerivedKeeps
  <2>2. r = [t EXCEPT !.queue = 0, !.segment = NoGeneration, !.phase = "idle"]
    BY <1>11 DEF reduceVoiceSessionEvent, OnInterrupted
  <2> HIDE DEF t, r
  <2>3. FieldsOf(r, s) /\ r.queue = 0 BY <2>1, <2>2 DEF FieldsOf, VoiceSessionState
  <2>4. QueueAfter(s.queue, e) = 0 BY <1>11 DEF QueueAfter
  <2>5. ReducedOK(s, e, r) BY <1>11, <2>3, <2>4 DEF ReducedOK, FieldsOf, ToldTypes
  <2>6. QED BY <2>5 DEF r
<1>12. CASE e.type = "turn.queued"
  <2>1. r = [s EXCEPT !.queue = e.queue_size] BY <1>12 DEF reduceVoiceSessionEvent
  <2> HIDE DEF r
  <2>2. FieldsOf(r, s) /\ r.queue = e.queue_size BY <2>1 DEF FieldsOf, VoiceSessionState
  <2>3. QueueAfter(s.queue, e) = e.queue_size BY <1>12 DEF QueueAfter
  <2>4. ReducedOK(s, e, r) BY <1>12, <2>2, <2>3 DEF ReducedOK, FieldsOf, ToldTypes
  <2>5. QED BY <2>4 DEF r
<1>13. CASE e.type = "turn.metrics"
  <2> DEFINE t == Resolved(s)
  <2>1. t \in VoiceSessionState /\ FieldsOf(t, s) /\ t.queue = s.queue
    BY ResolvedType, DerivedKeeps
  <2> DEFINE q == IF ~e.cancelled /\ t.queue > 0 THEN t.queue - 1 ELSE t.queue
  <2>2. r = [t EXCEPT !.cancelled = e.cancelled, !.queue = q]
    BY <1>13 DEF reduceVoiceSessionEvent, OnMetrics
  <2>3. QueueAfter(s.queue, e) = q BY <1>13, <2>1 DEF QueueAfter
  <2> HIDE DEF t, r, q
  <2>4. FieldsOf(r, s) /\ r.queue = q BY <2>1, <2>2 DEF FieldsOf, VoiceSessionState
  <2>5. ReducedOK(s, e, r) BY <1>13, <2>3, <2>4 DEF ReducedOK, FieldsOf, ToldTypes
  <2>6. QED BY <2>5 DEF r
<1>14. CASE e.type = "error"
  <2> DEFINE t == Resolved(s)
  <2>1. t \in VoiceSessionState /\ FieldsOf(t, s) /\ t.queue = s.queue
    BY ResolvedType, DerivedKeeps
  <2>2. r = [t EXCEPT !.words = {}, !.tts = "idle", !.segment = NoGeneration,
                      !.status = "failed", !.phase = "idle"]
    BY <1>14 DEF reduceVoiceSessionEvent, OnError
  <2> HIDE DEF t, r
  <2>3. r.final = s.final /\ r.transcript = s.transcript /\ r.words = {}
          /\ r.queue = s.queue
    BY <2>1, <2>2 DEF FieldsOf, VoiceSessionState
  <2>4. QueueAfter(s.queue, e) = s.queue BY <1>14 DEF QueueAfter
  <2>5. ReducedOK(s, e, r) BY <1>14, <2>3, <2>4 DEF ReducedOK, ToldTypes
  <2>6. QED BY <2>5 DEF r
<1>15. CASE e.type \notin
              {"session.ready", "session.status", "vad.state", "stt.status",
               "stt.final", "route.selected", "llm.phase", "llm.tool.update",
               "llm.reasoning.delta", "llm.response.delta", "llm.completed",
               "tts.chunk", "tts.completed", "conversation.interrupted",
               "turn.queued", "turn.metrics", "error"}
  <2>1. r = s BY <1>15 DEF reduceVoiceSessionEvent
  <2> HIDE DEF r
  <2>2. ReducedOK(s, e, r) BY <1>15, <2>1, KeptIsOK DEF ToldTypes, FieldsOf
  <2>3. QED BY <2>2 DEF r
<1>16. QED
  BY <1>1, <1>2, <1>3, <1>4, <1>5, <1>6, <1>7, <1>8, <1>9, <1>10, <1>11, <1>12,
     <1>13, <1>14, <1>15


\* What is under way is told once the store has come to it, in its order; what
\* the task will tell comes after.
Due(p) ==
  /\ ToldBefore(shown, turn, p)
  /\ \A i \in DOMAIN chain : Told(chain[i]) => Earlier(chain[i], turn, p)
OrderInv ==
  /\ \A i \in DOMAIN chain : Told(chain[i]) =>
       /\ chain[i].turn <= turn
       /\ ToldBefore(shown, chain[i].turn, Place(chain[i]))
  /\ \A i, j \in DOMAIN chain : i < j /\ Told(chain[i]) /\ Told(chain[j]) =>
       Earlier(chain[i], chain[j].turn, Place(chain[j]))
  /\ \A k \in DOMAIN job.script :
       Told(job.script[k]) => Due(Place(job.script[k]))
  /\ shown.final <= turn
  /\ \A k \in DOMAIN shown.transcript : shown.transcript[k][2] <= turn
  /\ TranscriptIsInOrder /\ AnswersFollowTheirQuestion

LEMMA InitOrderInv == Init => OrderInv
<1> SUFFICES ASSUME Init PROVE OrderInv OBVIOUS
<1>1. chain = <<>> /\ job.script = <<>> /\ turn = 0 /\ shown.final = 0
        /\ shown.transcript = <<>> /\ shown.words = {}
  BY DEF Init, NoJob, createVoiceSessionState, NoGeneration
<1>2. QED
  BY <1>1 DEF OrderInv, TranscriptIsInOrder, AnswersFollowTheirQuestion

\* The numbers of what is shown.
LEMMA ShownNumbers ==
  ASSUME NEW s \in VoiceSessionState
  PROVE  /\ s.final \in Nat
         /\ \A k \in DOMAIN s.transcript :
              /\ s.transcript[k][2] \in Nat /\ s.transcript[k][1] \in {"user", "assistant"}
              /\ EntryPlace(s.transcript[k]) \in {1, 3}
         /\ \A t \in s.words : t \in Nat
<1> DEFINE T == {"user", "assistant"} \X Generation
<1>1. MaxAsked \in Nat BY GateAssumption
<1>2. /\ s.final \in MaybeGeneration /\ s.transcript \in Seq(T)
      /\ s.words \subseteq Generation
  BY DEF VoiceSessionState
<1>3. MaybeGeneration \subseteq Nat /\ Generation \subseteq Nat
  BY <1>1 DEF MaybeGeneration, Generation, NoGeneration
<1>4. \A x \in T : x[2] \in Nat /\ x[1] \in {"user", "assistant"} BY <1>3
<1>5. \A k \in DOMAIN s.transcript : s.transcript[k] \in T
  <2> HIDE DEF T
  <2>1. QED BY <1>2
<1> HIDE DEF T
<1>6. QED BY <1>2, <1>3, <1>4, <1>5 DEF EntryPlace

\* An event under way tells something exactly by its type.
LEMMA ToldIs ==
  ASSUME NEW e \in Under
  PROVE  /\ e.turn \in Nat
         /\ Told(e) <=> e.type \in ToldTypes
         /\ e.type = "stt.final" => Place(e) = 1
         /\ e.type = "llm.response.delta" => Place(e) = 2
         /\ e.type = "llm.completed" => Place(e) = 3
<1>1. MaxAsked \in Nat BY GateAssumption
<1>2. e.turn \in Nat BY <1>1, UnderIs DEF MaybeGeneration, Generation, NoGeneration
<1>3. e.type \notin Stages BY UnderIs
<1>4. QED BY <1>2, <1>3 DEF Told, Place, ToldTypes, Stages

\* An earlier event leaves room for a later one.
LEMMA ToldBeforeKept ==
  ASSUME NEW s \in VoiceSessionState, NEW e \in Under, NEW r, ReducedOK(s, e, r),
         NEW g \in Nat, NEW p \in 0..3, ToldBefore(s, g, p),
         Told(e) => Earlier(e, g, p)
  PROVE  ToldBefore(r, g, p)
<1>1. CASE e.type \notin ToldTypes
  BY <1>1 DEF ReducedOK, ToldBefore
<1>2. CASE e.type = "llm.response.delta"
  BY <1>2 DEF ReducedOK, ToldBefore
<1>3. ASSUME NEW role \in {"user", "assistant"},
             Grown(s.transcript, r.transcript, <<role, e.turn>>),
             EntryPlace(<<role, e.turn>>) = Place(e), Told(e)
      PROVE  \A k \in DOMAIN r.transcript :
               \/ r.transcript[k][2] < g
               \/ r.transcript[k][2] = g /\ EntryPlace(r.transcript[k]) < p
  <2>1. PICK d \in {0, 1} : \A i \in DOMAIN r.transcript :
          /\ i + d \in 1..Len(s.transcript) + 1
          /\ r.transcript[i] = IF i + d <= Len(s.transcript) THEN s.transcript[i + d]
                               ELSE <<role, e.turn>>
    BY <1>3 DEF Grown
  <2>2. s.transcript \in Seq({"user", "assistant"} \X Generation)
    BY DEF VoiceSessionState
  <2>3. DOMAIN s.transcript = 1..Len(s.transcript) /\ Len(s.transcript) \in Nat
    BY <2>2
  <2> SUFFICES ASSUME NEW k \in DOMAIN r.transcript
               PROVE  \/ r.transcript[k][2] < g
                      \/ r.transcript[k][2] = g /\ EntryPlace(r.transcript[k]) < p
    OBVIOUS
  <2>4. CASE k + d <= Len(s.transcript)
    <3>1. k + d \in DOMAIN s.transcript /\ r.transcript[k] = s.transcript[k + d]
      BY <2>1, <2>3, <2>4
    <3>2. QED BY <3>1 DEF ToldBefore
  <2>5. CASE ~(k + d <= Len(s.transcript))
    <3>1. r.transcript[k] = <<role, e.turn>> BY <2>1, <2>5
    <3>2. r.transcript[k][2] = e.turn /\ EntryPlace(r.transcript[k]) = Place(e)
      BY <1>3, <3>1
    <3>3. QED BY <1>3, <3>2 DEF Earlier
  <2>6. QED BY <2>4, <2>5
<1>4. CASE e.type = "stt.final"
  <2>1. Told(e) /\ Place(e) = 1 BY <1>4, ToldIs DEF ToldTypes
  <2>2. \/ s.final = e.turn /\ r = s
        \/ r.final = e.turn /\ Grown(s.transcript, r.transcript, <<"user", e.turn>>)
    BY <1>4 DEF ReducedOK
  <2>3. CASE s.final = e.turn /\ r = s BY <2>3
  <2>4. CASE r.final = e.turn /\ Grown(s.transcript, r.transcript, <<"user", e.turn>>)
    <3>1. EntryPlace(<<"user", e.turn>>) = 1 BY DEF EntryPlace
    <3>2. \A k \in DOMAIN r.transcript :
               \/ r.transcript[k][2] < g
               \/ r.transcript[k][2] = g /\ EntryPlace(r.transcript[k]) < p
      BY <1>3, <2>1, <2>4, <3>1
    <3>3. r.final < g \/ (r.final = g /\ p > 1) BY <2>1, <2>4 DEF Earlier
    <3>4. QED BY <3>2, <3>3 DEF ToldBefore
  <2>5. QED BY <2>2, <2>3, <2>4
<1>5. CASE e.type = "llm.completed"
  <2>1. Told(e) /\ Place(e) = 3 BY <1>5, ToldIs DEF ToldTypes
  <2>2. r.final = s.final /\ Grown(s.transcript, r.transcript, <<"assistant", e.turn>>)
    BY <1>5 DEF ReducedOK
  <2>3. EntryPlace(<<"assistant", e.turn>>) = 3 BY DEF EntryPlace
  <2>4. \A k \in DOMAIN r.transcript :
               \/ r.transcript[k][2] < g
               \/ r.transcript[k][2] = g /\ EntryPlace(r.transcript[k]) < p
    BY <1>3, <2>1, <2>2, <2>3
  <2>5. QED BY <2>2, <2>4 DEF ToldBefore
<1>6. QED BY <1>1, <1>2, <1>4, <1>5 DEF ToldTypes

\* What a store shows in order.
InOrderShown(s) ==
  /\ \A i, j \in DOMAIN s.transcript : i < j =>
       \/ s.transcript[i][2] < s.transcript[j][2]
       \/ /\ s.transcript[i][2] = s.transcript[j][2]
          /\ s.transcript[i][1] = "user" /\ s.transcript[j][1] = "assistant"
  /\ \A t \in s.words : t >= s.final

LEMMA ShownInOrder ==
  InOrderShown(shown) <=> TranscriptIsInOrder /\ AnswersFollowTheirQuestion
BY DEF InOrderShown, TranscriptIsInOrder, AnswersFollowTheirQuestion

LEMMA OrderKept ==
  ASSUME NEW s \in VoiceSessionState, NEW e \in Under, NEW r, ReducedOK(s, e, r),
         r \in VoiceSessionState, NEW n \in Nat,
         Told(e) => e.turn <= n /\ ToldBefore(s, e.turn, Place(e)),
         InOrderShown(s), s.final <= n,
         \A k \in DOMAIN s.transcript : s.transcript[k][2] <= n
  PROVE  /\ InOrderShown(r) /\ r.final <= n
         /\ \A k \in DOMAIN r.transcript : r.transcript[k][2] <= n
<1>1. ASSUME NEW role \in {"user", "assistant"},
             Grown(s.transcript, r.transcript, <<role, e.turn>>),
             EntryPlace(<<role, e.turn>>) = Place(e), Told(e),
             Place(e) = 3 => role = "assistant", Place(e) = 1 \/ Place(e) = 3
      PROVE  /\ \A i, j \in DOMAIN r.transcript : i < j =>
                  \/ r.transcript[i][2] < r.transcript[j][2]
                  \/ /\ r.transcript[i][2] = r.transcript[j][2]
                     /\ r.transcript[i][1] = "user" /\ r.transcript[j][1] = "assistant"
             /\ \A k \in DOMAIN r.transcript : r.transcript[k][2] <= n
  <2> DEFINE t == s.transcript
  <2> DEFINE u == r.transcript
  <2> DEFINE x == <<role, e.turn>>
  <2>1. x[1] = role /\ x[2] = e.turn OBVIOUS
  <2>2. t \in Seq({"user", "assistant"} \X Generation)
          /\ u \in Seq({"user", "assistant"} \X Generation)
    BY DEF VoiceSessionState
  <2>3. /\ DOMAIN t = 1..Len(t) /\ Len(t) \in Nat
        /\ DOMAIN u = 1..Len(u) /\ Len(u) \in Nat
    BY <2>2
  <2>4. \A k \in DOMAIN t :
          /\ t[k][1] \in {"user", "assistant"} /\ t[k][2] \in Nat
          /\ t[k][2] < e.turn \/ (t[k][2] = e.turn /\ EntryPlace(t[k]) < Place(e))
    BY <1>1, ShownNumbers DEF ToldBefore
  <2>5. \A k \in DOMAIN t :
          t[k][2] < x[2] \/ (t[k][2] = x[2] /\ t[k][1] = "user" /\ x[1] = "assistant")
    BY <1>1, <2>1, <2>4 DEF EntryPlace
  <2>6. \A i, j \in DOMAIN t : i < j =>
          t[i][2] < t[j][2]
            \/ (t[i][2] = t[j][2] /\ t[i][1] = "user" /\ t[j][1] = "assistant")
    BY DEF InOrderShown
  <2>7. \A k \in DOMAIN t : t[k][2] <= n OBVIOUS
  <2>8. x[2] <= n BY <1>1, <2>1
  <2>9. PICK d \in {0, 1} : \A i \in DOMAIN u :
          i + d \in 1..Len(t) + 1 /\ u[i] = IF i + d <= Len(t) THEN t[i + d] ELSE x
    BY <1>1 DEF Grown
  <2> HIDE DEF t, u, x
  <2>10. \A k \in DOMAIN u : u[k][2] <= n
    <3> SUFFICES ASSUME NEW k \in DOMAIN u PROVE u[k][2] <= n OBVIOUS
    <3>1. CASE k + d <= Len(t)
      <4>1. k + d \in DOMAIN t /\ u[k] = t[k + d] BY <2>3, <2>9, <3>1
      <4>2. QED BY <2>7, <4>1
    <3>2. CASE ~(k + d <= Len(t)) BY <2>8, <2>9, <3>2
    <3>3. QED BY <3>1, <3>2
  <2>11. ASSUME NEW i \in DOMAIN u, NEW j \in DOMAIN u, i < j
         PROVE  u[i][2] < u[j][2]
                  \/ (u[i][2] = u[j][2] /\ u[i][1] = "user" /\ u[j][1] = "assistant")
    <3>1. i \in Nat /\ j \in Nat /\ i + d \in Nat /\ j + d \in Nat /\ i + d < j + d
            /\ j + d <= Len(t) + 1
      BY <2>3, <2>9, <2>11
    <3>2. i + d \in DOMAIN t /\ u[i] = t[i + d]
      <4>1. i + d \in 1..Len(t) + 1 BY <2>9
      <4>2. i + d <= Len(t) BY <2>3, <3>1
      <4>3. QED BY <2>3, <2>9, <4>1, <4>2
    <3>3. CASE j + d <= Len(t)
      <4>1. j + d \in DOMAIN t /\ u[j] = t[j + d] BY <2>3, <2>9, <3>3
      <4>2. QED BY <2>6, <3>1, <3>2, <4>1
    <3>4. CASE ~(j + d <= Len(t))
      <4>1. u[j] = x BY <2>9, <3>4
      <4>2. QED BY <2>5, <3>2, <4>1
    <3>5. QED BY <3>3, <3>4
  <2>12. QED BY <2>10, <2>11 DEF u
<1>2. CASE e.type \notin ToldTypes
  BY <1>2 DEF ReducedOK, InOrderShown
<1>3. CASE e.type = "llm.response.delta"
  <2>1. Told(e) BY <1>3, ToldIs DEF ToldTypes
  <2>2. r.final = s.final /\ r.transcript = s.transcript /\ r.words = s.words \cup {e.turn}
    BY <1>3 DEF ReducedOK
  <2>3. e.turn >= s.final BY <2>1, ToldIs, ShownNumbers DEF ToldBefore
  <2>4. QED BY <2>2, <2>3 DEF InOrderShown
<1>4. CASE e.type = "stt.final"
  <2>1. Told(e) /\ Place(e) = 1 BY <1>4, ToldIs DEF ToldTypes
  <2>2. \/ s.final = e.turn /\ r = s
        \/ /\ r.final = e.turn /\ Grown(s.transcript, r.transcript, <<"user", e.turn>>)
           /\ r.words = {}
    BY <1>4 DEF ReducedOK
  <2>3. CASE s.final = e.turn /\ r = s BY <2>3
  <2>4. CASE /\ r.final = e.turn /\ Grown(s.transcript, r.transcript, <<"user", e.turn>>)
             /\ r.words = {}
    <3>1. EntryPlace(<<"user", e.turn>>) = 1 BY DEF EntryPlace
    <3>2. QED BY <1>1, <2>1, <2>4, <3>1 DEF InOrderShown
  <2>5. QED BY <2>2, <2>3, <2>4
<1>5. CASE e.type = "llm.completed"
  <2>1. Told(e) /\ Place(e) = 3 BY <1>5, ToldIs DEF ToldTypes
  <2>2. /\ r.final = s.final /\ r.words = {e.turn}
        /\ Grown(s.transcript, r.transcript, <<"assistant", e.turn>>)
    BY <1>5 DEF ReducedOK
  <2>3. EntryPlace(<<"assistant", e.turn>>) = 3 BY DEF EntryPlace
  <2>4. e.turn >= s.final BY <2>1, ToldIs, ShownNumbers DEF ToldBefore
  <2>5. QED BY <1>1, <2>1, <2>2, <2>3, <2>4 DEF InOrderShown
<1>6. QED BY <1>2, <1>3, <1>4, <1>5 DEF ToldTypes


\* Everything told so far leaves room for a later turn.
LEMMA LaterIsDue ==
  ASSUME TypeInv, OrderInv, NEW p \in 0..3
  PROVE  /\ ToldBefore(shown, turn + 1, p)
         /\ \A i \in DOMAIN chain : Told(chain[i]) => Earlier(chain[i], turn + 1, p)
<1>1. turn \in Nat /\ shown \in VoiceSessionState BY BoundIs, FlagsAre
<1>2. ToldBefore(shown, turn + 1, p)
  BY <1>1, ShownNumbers DEF OrderInv, ToldBefore
<1>3. \A i \in DOMAIN chain : chain[i] \in Under BY DEF TypeInv
<1>4. \A i \in DOMAIN chain : Told(chain[i]) => Earlier(chain[i], turn + 1, p)
  BY <1>1, <1>3, ToldIs DEF OrderInv, Earlier
<1>5. QED BY <1>2, <1>4

\* An action of the worker, or of a client that shows no more than before: the
\* events m are on their way, of which one that tells something is due, and the
\* task will tell what comes after, or a later turn.
LEMMA OrderGrows ==
  ASSUME TypeInv, OrderInv, NEW m \in Seq(Under), chain' = chain \o m,
         FieldsOf(shown', shown),
         \A j \in DOMAIN m : Told(m[j]) =>
           j = 1 /\ m[j].turn = turn /\ Due(Place(m[j])),
         \/ /\ turn' = turn
            /\ \A k \in DOMAIN job'.script : Told(job'.script[k]) =>
                 /\ Due(Place(job'.script[k]))
                 /\ \A j \in DOMAIN m : Told(m[j]) => Place(m[j]) < Place(job'.script[k])
         \/ turn' = turn + 1
  PROVE  OrderInv'
<1>1. chain \in Seq(Under) /\ turn \in Nat /\ turn' \in Nat /\ turn <= turn'
  BY BoundIs DEF TypeInv
<1>2. \A i \in DOMAIN chain' :
        \/ i \in DOMAIN chain /\ chain'[i] = chain[i]
        \/ /\ i - Len(chain) \in DOMAIN m /\ i > Len(chain)
           /\ chain'[i] = m[i - Len(chain)]
  <2>1. /\ Len(chain') = Len(chain) + Len(m) /\ chain' \in Seq(Under)
        /\ \A i \in 1..Len(chain) + Len(m) :
             chain'[i] = IF i <= Len(chain) THEN chain[i] ELSE m[i - Len(chain)]
    BY <1>1, ConcatProperties
  <2>2. /\ DOMAIN chain = 1..Len(chain) /\ DOMAIN m = 1..Len(m)
        /\ DOMAIN chain' = 1..Len(chain') /\ Len(chain) \in Nat /\ Len(m) \in Nat
    BY <1>1, <2>1
  <2>3. QED BY <2>1, <2>2
<1>3. /\ shown'.final = shown.final /\ shown'.words = shown.words
      /\ shown'.transcript = shown.transcript
  BY DEF FieldsOf
<1>4. \A g, p : ToldBefore(shown, g, p) => ToldBefore(shown', g, p)
  BY <1>3 DEF ToldBefore
<1>5. DOMAIN chain = 1..Len(chain) /\ Len(chain) \in Nat BY <1>1
<1>6. ASSUME NEW i \in DOMAIN chain', Told(chain'[i])
      PROVE  /\ chain'[i].turn <= turn
             /\ ToldBefore(shown', chain'[i].turn, Place(chain'[i]))
  <2>1. CASE i \in DOMAIN chain /\ chain'[i] = chain[i]
    BY <1>4, <1>6, <2>1 DEF OrderInv
  <2>2. CASE i - Len(chain) \in DOMAIN m /\ chain'[i] = m[i - Len(chain)]
    BY <1>1, <1>4, <1>6, <2>2 DEF Due
  <2>3. QED BY <1>2, <2>1, <2>2
<1>7. ASSUME NEW i \in DOMAIN chain', NEW j \in DOMAIN chain', i < j,
             Told(chain'[i]), Told(chain'[j])
      PROVE  Earlier(chain'[i], chain'[j].turn, Place(chain'[j]))
  <2>1. i \in DOMAIN chain /\ chain'[i] = chain[i]
    <3>1. CASE i - Len(chain) \in DOMAIN m /\ i > Len(chain) /\ chain'[i] = m[i - Len(chain)]
      <4>1. i - Len(chain) = 1 BY <1>7, <3>1
      <4>2. j \notin DOMAIN chain BY <1>5, <1>7, <3>1
      <4>3. j - Len(chain) \in DOMAIN m /\ chain'[j] = m[j - Len(chain)] BY <1>2, <4>2
      <4>4. j - Len(chain) = 1 BY <1>7, <4>3
      <4>5. j - Len(chain) \in Nat /\ i - Len(chain) \in Nat
        <5>1. DOMAIN m = 1..Len(m) /\ Len(m) \in Nat OBVIOUS
        <5>2. QED BY <3>1, <4>3, <5>1
      <4>6. i \in Int /\ j \in Int
        <5>1. DOMAIN chain' = 1..Len(chain') BY <1>1
        <5>2. QED BY <5>1
      <4>7. QED BY <1>5, <1>7, <4>1, <4>4, <4>6
    <3>2. QED BY <1>2, <3>1
  <2>2. CASE j \in DOMAIN chain /\ chain'[j] = chain[j]
    BY <1>7, <2>1, <2>2 DEF OrderInv
  <2>3. CASE j - Len(chain) \in DOMAIN m /\ chain'[j] = m[j - Len(chain)]
    <3>1. chain'[j].turn = turn /\ Due(Place(chain'[j])) BY <1>7, <2>3
    <3>2. QED BY <1>7, <2>1, <3>1 DEF Due
  <2>4. QED BY <1>2, <2>2, <2>3
<1>8. ASSUME NEW k \in DOMAIN job'.script, Told(job'.script[k])
      PROVE  /\ ToldBefore(shown', turn', Place(job'.script[k]))
             /\ \A i \in DOMAIN chain' : Told(chain'[i]) =>
                  Earlier(chain'[i], turn', Place(job'.script[k]))
  <2> DEFINE p == Place(job'.script[k])
  <2>1. p \in 0..3 BY PlaceIs
  <2>2. CASE turn' = turn + 1
    <3>1. ToldBefore(shown', turn', p) BY <1>4, <2>1, <2>2, LaterIsDue
    <3>2. \A i \in DOMAIN chain : Told(chain[i]) => Earlier(chain[i], turn', p)
      BY <2>1, <2>2, LaterIsDue
    <3>3. \A j \in DOMAIN m : Told(m[j]) => Earlier(m[j], turn', p)
      BY <1>1, <2>2 DEF Earlier
    <3> HIDE DEF p
    <3>4. \A i \in DOMAIN chain' : Told(chain'[i]) => Earlier(chain'[i], turn', p)
      BY <1>2, <3>2, <3>3
    <3>5. QED BY <3>1, <3>4 DEF p
  <2>3. CASE turn' # turn + 1
    <3>1. /\ turn' = turn /\ Due(p)
          /\ \A j \in DOMAIN m : Told(m[j]) => Place(m[j]) < p
      BY <1>8, <2>3
    <3>2. ToldBefore(shown', turn', p) BY <1>4, <3>1 DEF Due
    <3>3. \A j \in DOMAIN m : Told(m[j]) => Earlier(m[j], turn', p)
      BY <3>1 DEF Earlier
    <3>4. \A i \in DOMAIN chain : Told(chain[i]) => Earlier(chain[i], turn', p)
      BY <3>1 DEF Due
    <3> HIDE DEF p
    <3>5. \A i \in DOMAIN chain' : Told(chain'[i]) => Earlier(chain'[i], turn', p)
      BY <1>2, <3>3, <3>4
    <3>6. QED BY <3>2, <3>5 DEF p
  <2>4. QED BY <2>2, <2>3
<1>9. shown'.final <= turn' /\ \A k \in DOMAIN shown'.transcript : shown'.transcript[k][2] <= turn'
  <2>1. shown \in VoiceSessionState BY FlagsAre
  <2>2. QED BY <1>1, <1>3, <2>1, ShownNumbers DEF OrderInv
<1>10. TranscriptIsInOrder' /\ AnswersFollowTheirQuestion'
  BY <1>3 DEF OrderInv, TranscriptIsInOrder, AnswersFollowTheirQuestion
<1>11. \A i \in DOMAIN chain' : Told(chain'[i]) => chain'[i].turn <= turn'
  <2>1. \A i \in DOMAIN chain' : chain'[i] \in Under
    <3>1. chain' \in Seq(Under) BY <1>1
    <3>2. QED BY <3>1
  <2>2. QED BY <1>1, <1>6, <2>1, ToldIs
<1>12. QED BY <1>6, <1>7, <1>8, <1>9, <1>10, <1>11 DEF OrderInv, Due

\* An action that sends nothing and keeps the task, ends it or begins another.
LEMMA OrderStays ==
  ASSUME TypeInv, OrderInv, UNCHANGED chain, FieldsOf(shown', shown),
         \/ turn' = turn /\ (job'.script = job.script \/ job' = NoJob)
         \/ turn' = turn + 1
  PROVE  OrderInv'
<1>1. <<>> \in Seq(Under) BY EmptySeq
<1>2. chain \in Seq(Under) BY DEF TypeInv
<1>3. chain' = chain \o <<>> BY <1>2, ConcatEmptySeq
<1>4. DOMAIN <<>> = {} OBVIOUS
<1>5. CASE turn' = turn + 1
  <2> DEFINE m == <<>>
  <2>1. \A j \in DOMAIN m : FALSE BY <1>4
  <2>2. m \in Seq(Under) /\ chain' = chain \o m BY <1>1, <1>3
  <2> HIDE DEF m
  <2>3. QED BY <1>5, <2>1, <2>2, OrderGrows
<1>6. CASE turn' = turn /\ (job'.script = job.script \/ job' = NoJob)
  <2> DEFINE m == <<>>
  <2>1. \A j \in DOMAIN m : FALSE BY <1>4
  <2>2. m \in Seq(Under) /\ chain' = chain \o m BY <1>1, <1>3
  <2> HIDE DEF m
  <2>3. \A k \in DOMAIN job'.script : Told(job'.script[k]) => Due(Place(job'.script[k]))
    <3>1. CASE job'.script = job.script BY <3>1 DEF OrderInv
    <3>2. CASE job' = NoJob BY <3>2 DEF NoJob
    <3>3. QED BY <1>6, <3>1, <3>2
  <2>4. QED BY <1>6, <2>1, <2>2, <2>3, OrderGrows
<1>7. QED BY <1>5, <1>6

LEMMA EndsOrder ==
  ASSUME TypeInv, OrderInv, NEW how, Ends(how)
  PROVE  OrderInv'
<1>1. job' = NoJob /\ UNCHANGED <<turn, shown>> BY DEF Ends
<1>2. PICK n \in 0..Len(chain) : chain' = SubSeq(chain, 1, n) BY DEF Ends
<1>3. \A i \in DOMAIN chain' : i \in DOMAIN chain /\ chain'[i] = chain[i]
  <2>1. chain \in Seq(Under) BY DEF TypeInv
  <2>2. n \in Int /\ 1 \in Int /\ \A i \in 1..n : chain[i] \in Under BY <2>1
  <2>3. /\ chain' \in Seq(Under) /\ Len(chain') = (IF 1 <= n THEN n - 1 + 1 ELSE 0)
        /\ \A i \in 1..n - 1 + 1 : chain'[i] = chain[1 + i - 1]
    BY <1>2, <2>2, SubSeqProperties
  <2>4. DOMAIN chain' = 1..n /\ DOMAIN chain = 1..Len(chain) /\ Len(chain) \in Nat
    BY <2>1, <2>3
  <2>5. QED BY <2>3, <2>4
<1>4. job'.script = <<>> BY <1>1 DEF NoJob
<1>5. TranscriptIsInOrder' /\ AnswersFollowTheirQuestion'
  BY <1>1 DEF OrderInv, TranscriptIsInOrder, AnswersFollowTheirQuestion
<1>6. QED BY <1>1, <1>3, <1>4, <1>5 DEF OrderInv

LEMMA ApplyOrder ==
  ASSUME TypeInv, OrderInv, Apply
  PROVE  OrderInv'
<1> DEFINE e == chain[1]
<1>1. /\ e \in Under /\ 1 \in DOMAIN chain /\ Applied(e)
      /\ \A i \in DOMAIN chain' :
           i \in Nat /\ i + 1 \in DOMAIN chain /\ chain'[i] = chain[i + 1]
      /\ chain' \in Seq(Under) /\ UNCHANGED <<turn, job>>
  BY ApplyIs DEF workerVars
<1>2. shown \in VoiceSessionState /\ turn \in Nat BY FlagsAre, BoundIs
<1>3. \A i \in DOMAIN chain' : i >= 1
  <2>1. DOMAIN chain' = 1..Len(chain') /\ Len(chain') \in Nat BY <1>1
  <2>2. QED BY <2>1
<1>4. Told(e) => e.turn <= turn /\ ToldBefore(shown, e.turn, Place(e))
  BY <1>1 DEF OrderInv
<1>5. \A i \in DOMAIN chain' : Told(chain'[i]) /\ Told(e) =>
        Earlier(e, chain'[i].turn, Place(chain'[i]))
  BY <1>1, <1>3 DEF OrderInv
<1>6. \A k \in DOMAIN job.script : Told(job.script[k]) =>
        /\ ToldBefore(shown, turn, Place(job.script[k]))
        /\ Told(e) => Earlier(e, turn, Place(job.script[k]))
        /\ \A i \in DOMAIN chain' : Told(chain'[i]) =>
             Earlier(chain'[i], turn, Place(job.script[k]))
  BY <1>1 DEF OrderInv, Due
<1>7. \A i \in DOMAIN chain' : Told(chain'[i]) =>
        /\ chain'[i].turn <= turn
        /\ ToldBefore(shown, chain'[i].turn, Place(chain'[i]))
  BY <1>1 DEF OrderInv
<1>8. \A i, j \in DOMAIN chain' : i < j /\ Told(chain'[i]) /\ Told(chain'[j]) =>
        Earlier(chain'[i], chain'[j].turn, Place(chain'[j]))
  <2> SUFFICES ASSUME NEW i \in DOMAIN chain', NEW j \in DOMAIN chain', i < j,
                      Told(chain'[i]), Told(chain'[j])
               PROVE  Earlier(chain'[i], chain'[j].turn, Place(chain'[j]))
    OBVIOUS
  <2>1. i + 1 \in DOMAIN chain /\ j + 1 \in DOMAIN chain /\ i + 1 < j + 1
    BY <1>1
  <2>2. QED BY <1>1, <2>1 DEF OrderInv
<1>9. InOrderShown(shown) BY ShownInOrder DEF OrderInv
<1>10. shown.final <= turn /\ \A k \in DOMAIN shown.transcript : shown.transcript[k][2] <= turn
  BY DEF OrderInv
<1>11. \A i \in DOMAIN chain' : chain'[i].turn \in Nat /\ Place(chain'[i]) \in 0..3
  <2>1. \A i \in DOMAIN chain' : chain'[i] \in Under BY <1>1
  <2>2. QED BY <2>1, ToldIs, PlaceIs
<1> HIDE DEF e
<1> DEFINE r == reduceVoiceSessionEvent(shown, e)
<1>12. /\ ReducedOK(shown, e, r) /\ r \in VoiceSessionState
  BY <1>1, <1>2, ReduceTells, ReduceType
<1>13. shown' = r \/ shown' = shown BY <1>1 DEF Applied
<1> HIDE DEF r
<1>14. \A g \in Nat, p \in 0..3 :
         ToldBefore(shown, g, p) /\ (Told(e) => Earlier(e, g, p)) => ToldBefore(shown', g, p)
  <2> SUFFICES ASSUME NEW g \in Nat, NEW p \in 0..3, ToldBefore(shown, g, p),
                      Told(e) => Earlier(e, g, p)
               PROVE  ToldBefore(shown', g, p)
    OBVIOUS
  <2>1. ToldBefore(r, g, p) BY <1>1, <1>2, <1>12, ToldBeforeKept
  <2>2. QED BY <1>13, <2>1
<1>15. /\ InOrderShown(shown') /\ shown'.final <= turn
       /\ \A k \in DOMAIN shown'.transcript : shown'.transcript[k][2] <= turn
  <2>1. /\ InOrderShown(r) /\ r.final <= turn
        /\ \A k \in DOMAIN r.transcript : r.transcript[k][2] <= turn
    BY <1>1, <1>2, <1>4, <1>9, <1>10, <1>12, OrderKept
  <2>2. QED BY <1>9, <1>10, <1>13, <2>1
<1>16. TranscriptIsInOrder' /\ AnswersFollowTheirQuestion'
  BY <1>15 DEF InOrderShown, TranscriptIsInOrder, AnswersFollowTheirQuestion
<1>17. \A i \in DOMAIN chain' : Told(chain'[i]) =>
         ToldBefore(shown', chain'[i].turn, Place(chain'[i]))
  BY <1>5, <1>7, <1>11, <1>14
<1>18. \A k \in DOMAIN job.script : Told(job.script[k]) =>
         ToldBefore(shown', turn, Place(job.script[k]))
  BY <1>2, <1>6, <1>14, PlaceIs
<1>19. \A k \in DOMAIN job'.script : Told(job'.script[k]) =>
         /\ ToldBefore(shown', turn', Place(job'.script[k]))
         /\ \A i \in DOMAIN chain' : Told(chain'[i]) =>
              Earlier(chain'[i], turn', Place(job'.script[k]))
  BY <1>1, <1>6, <1>18
<1>20. QED BY <1>1, <1>7, <1>8, <1>15, <1>16, <1>17, <1>19 DEF OrderInv, Due

LEMMA HandleOrder ==
  ASSUME TypeInv, OrderInv, Handle
  PROVE  OrderInv'
<1>1. UNCHANGED <<chain, shown>> BY DEF Handle, storeVars
<1>2. FieldsOf(shown', shown) BY <1>1 DEF FieldsOf
<1>3. ASSUME NEW events, Commit(events)
      PROVE  (turn' = turn /\ job' = job) \/ turn' = turn + 1
  BY <1>3 DEF Commit, StartUtterance
<1>4. CASE HandleStart BY <1>1, <1>2, <1>4, OrderStays DEF HandleStart
<1>5. CASE HandleCommit
  <2>1. (turn' = turn /\ job' = job) \/ turn' = turn + 1
    BY <1>3, <1>5 DEF HandleCommit
  <2>2. QED BY <1>1, <1>2, <2>1, OrderStays
<1>6. CASE HandleAppend
  <2>1. (turn' = turn /\ job' = job) \/ turn' = turn + 1
    BY <1>3, <1>6 DEF HandleAppend
  <2>2. QED BY <1>1, <1>2, <2>1, OrderStays
<1>7. CASE HandleStop BY <1>1, <1>2, <1>7, OrderStays DEF HandleStop
<1>8. CASE HandleReply BY <1>1, <1>2, <1>8, OrderStays DEF HandleReply
<1>9. CASE HandleSay BY <1>1, <1>2, <1>9, OrderStays DEF HandleSay
<1>10. QED BY <1>4, <1>5, <1>6, <1>7, <1>8, <1>9 DEF Handle

\* The events m of the handler tell nothing of a turn.
LEMMA NoticesOrder ==
  ASSUME TypeInv, OrderInv, NEW m \in Seq(Notices), chain' = chain \o m,
         UNCHANGED <<turn, shown>>, job'.script = job.script
  PROVE  OrderInv'
<1>1. m \in Seq(Under) BY CalmIs, SeqMonotonic
<1>2. \A j \in DOMAIN m : ~Told(m[j])
  <2>1. \A j \in DOMAIN m : m[j] \in Notices OBVIOUS
  <2>2. QED BY <2>1, CalmIs
<1>3. FieldsOf(shown', shown) BY DEF FieldsOf
<1>4. \A k \in DOMAIN job'.script : Told(job'.script[k]) => Due(Place(job'.script[k]))
  BY DEF OrderInv
<1>5. QED BY <1>1, <1>2, <1>3, <1>4, OrderGrows

LEMMA SendNoticeOrder ==
  ASSUME TypeInv, OrderInv, SendNotice
  PROVE  OrderInv'
<1> DEFINE n == IF job = NoJob THEN Len(notices) ELSE 1
<1> DEFINE S == NoticesOf(left.policy)
<1> DEFINE m == SubSeq(notices, 1, n)
<1>1. chain' = chain \o m /\ UNCHANGED <<turn, shown>> /\ job'.script = job.script
  <2>1. /\ chain' = chain \o m /\ UNCHANGED <<turn, shown>>
        /\ job' = [job EXCEPT !.ahead = @ /\ job.lead # <<>>]
    BY DEF SendNotice, Sends, storeVars
  <2> HIDE DEF m
  <2>2. job'.script = job.script BY <2>1 DEF TypeInv, JobIs
  <2>3. QED BY <2>1, <2>2
<1>2. notices \in Seq(S) /\ notices # <<>> BY DEF TypeInv, SendNotice
<1>3. S \subseteq Notices BY CalmIs, PolicyIs DEF Notices
<1>4. Len(notices) \in Nat /\ Len(notices) # 0 BY <1>2, EmptySeq
<1>5. n \in 1..Len(notices) BY <1>4
<1> HIDE DEF n, S
<1>6. m \in Seq(S)
  <2>1. 1 \in Nat /\ n \in Nat /\ \A i \in 1..n : i \in 1..Len(notices)
    BY <1>4, <1>5
  <2>2. QED BY <1>2, <1>4, <1>5, <2>1, SubSeqProperties
<1> HIDE DEF m
<1>7. m \in Seq(Notices) BY <1>3, <1>6, SeqMonotonic
<1>8. QED BY <1>1, <1>7, NoticesOrder

LEMMA SendLeadOrder ==
  ASSUME TypeInv, OrderInv, SendLead
  PROVE  OrderInv'
<1> DEFINE m == <<Head(job.lead)>>
<1>1. /\ job.lead # <<>> /\ chain' = chain \o m /\ UNCHANGED <<turn, shown>>
      /\ job' = [job EXCEPT !.lead = Tail(@), !.ahead = FALSE]
  BY DEF SendLead, Sends, storeVars
<1>2. job'.script = job.script /\ job.lead \in Seq(Calm)
  <2> HIDE DEF m
  <2>1. QED BY <1>1 DEF TypeInv, JobIs
<1>3. Head(job.lead) \in Calm BY <1>1, <1>2
<1>4. Head(job.lead) \in Notices BY <1>3, CalmIs
<1>5. m \in Seq(Notices) BY <1>4
<1> HIDE DEF m
<1>6. QED BY <1>1, <1>2, <1>5, NoticesOrder

\* What the script of a task unfolds to is due.
LEMMA UnfoldedIsDue ==
  ASSUME TypeInv, OrderInv, NEW x \in Seq(Items), UnfoldOK(x, job.script, turn),
         NEW i \in DOMAIN x, Told(x[i])
  PROVE  Due(Place(x[i]))
<1>1. PICK k \in DOMAIN job.script : Told(job.script[k]) /\ Place(job.script[k]) <= Place(x[i])
  BY DEF UnfoldOK
<1>2. Due(Place(job.script[k])) BY <1>1 DEF OrderInv
<1>3. Place(job.script[k]) \in 0..3 /\ Place(x[i]) \in 0..3 BY PlaceIs
<1>4. turn \in Nat /\ shown \in VoiceSessionState BY BoundIs, FlagsAre
<1>5. ToldBefore(shown, turn, Place(x[i]))
  <2>1. \A k2 \in DOMAIN shown.transcript : EntryPlace(shown.transcript[k2]) \in {1, 3}
    BY <1>4, ShownNumbers
  <2>2. QED BY <1>1, <1>2, <1>3, <2>1 DEF Due, ToldBefore
<1>6. \A j \in DOMAIN chain : Told(chain[j]) => Earlier(chain[j], turn, Place(x[i]))
  <2>1. \A j \in DOMAIN chain : Place(chain[j]) \in 0..3 BY PlaceIs
  <2>2. QED BY <1>1, <1>2, <1>3, <2>1 DEF Due, Earlier
<1>7. QED BY <1>5, <1>6 DEF Due

LEMMA WorkOrder ==
  ASSUME TypeInv, OrderInv, Work
  PROVE  OrderInv'
<1>1. PICK x : \E s \in Status, t \in BOOLEAN, y \in BOOLEAN : WorkStep(x, s, t, y)
  BY WorkIs
<1>2. PICK s \in Status, t \in BOOLEAN, y \in BOOLEAN : WorkStep(x, s, t, y) BY <1>1
<1>3. UNCHANGED <<heard, up, left, shown>> BY DEF Work, storeVars
<1>4. /\ Tail(x) \in Seq(Items)
      /\ Tail(x) # <<>> => ScriptOK(Tail(x), turn)
      /\ GoOn(Tail(x), s, t, y)
      /\ UnfoldOK(x, job.script, turn)
  BY <1>2 DEF WorkStep
<1>5. \/ turn' = turn + 1
      \/ turn' = turn /\ (job' = NoJob \/ job'.script = Tail(x))
  BY <1>3, <1>4, WorkIs, GoOnIs
<1>6. x \in Seq(Items) /\ x # <<>> /\ InOrder(x) /\ OfTurn(x, turn)
  BY <1>4 DEF UnfoldOK
<1>7. \A i \in DOMAIN x : Told(x[i]) => Due(Place(x[i])) BY <1>4, <1>6, UnfoldedIsDue
<1>8. /\ 1 \in DOMAIN x
      /\ \A i \in DOMAIN Tail(x) :
           i \in Nat /\ i >= 1 /\ i + 1 \in DOMAIN x /\ Tail(x)[i] = x[i + 1]
  <2>1. DOMAIN Tail(x) = 1..Len(Tail(x)) /\ Len(Tail(x)) \in Nat BY <1>4
  <2>2. QED BY <1>6, <2>1, TailIs
<1>9. turn' = turn => \A k \in DOMAIN job'.script : Told(job'.script[k]) =>
         /\ Due(Place(job'.script[k]))
         /\ Told(x[1]) => Place(x[1]) < Place(job'.script[k])
  <2> SUFFICES ASSUME turn' = turn, NEW k \in DOMAIN job'.script, Told(job'.script[k])
               PROVE  /\ Due(Place(job'.script[k]))
                      /\ Told(x[1]) => Place(x[1]) < Place(job'.script[k])
    OBVIOUS
  <2>1. job'.script = Tail(x) BY <1>5, BoundIs DEF NoJob
  <2>2. k + 1 \in DOMAIN x /\ job'.script[k] = x[k + 1] /\ 1 < k + 1 BY <1>8, <2>1
  <2>3. QED BY <1>6, <1>7, <1>8, <2>2 DEF InOrder
<1>10. FieldsOf(shown', shown) BY <1>3 DEF FieldsOf
<1>11. CASE x[1] \in TaskEvents /\ chain' = chain \o <<x[1]>>
  <2> DEFINE m == <<x[1]>>
  <2>1. x[1] \in Under BY <1>11, CalmIs
  <2>2. m \in Seq(Under) BY <2>1
  <2>3. Told(x[1]) => x[1].turn = turn
    BY <1>6, <1>8, <2>1, ToldIs DEF OfTurn
  <2>4. DOMAIN m = {1} /\ m[1] = x[1] OBVIOUS
  <2>5. chain' = chain \o m BY <1>11
  <2> HIDE DEF m
  <2>6. \A j \in DOMAIN m : Told(m[j]) => j = 1 /\ m[j].turn = turn /\ Due(Place(m[j]))
    BY <1>7, <1>8, <2>3, <2>4
  <2>7. turn' = turn => \A k \in DOMAIN job'.script : Told(job'.script[k]) =>
                 /\ Due(Place(job'.script[k]))
                 /\ \A j \in DOMAIN m : Told(m[j]) => Place(m[j]) < Place(job'.script[k])
    BY <1>9, <2>4
  <2>8. QED BY <1>5, <1>10, <2>2, <2>5, <2>6, <2>7, OrderGrows
<1>12. CASE UNCHANGED chain
  <2> DEFINE m == <<>>
  <2>1. DOMAIN m = {} /\ m \in Seq(Under) BY EmptySeq
  <2>2. chain' = chain \o m
    <3>1. chain \in Seq(Under) BY DEF TypeInv
    <3>2. QED BY <1>12, <3>1, ConcatEmptySeq
  <2> HIDE DEF m
  <2>3. turn' = turn => \A k \in DOMAIN job'.script : Told(job'.script[k]) =>
                 /\ Due(Place(job'.script[k]))
                 /\ \A j \in DOMAIN m : Told(m[j]) => Place(m[j]) < Place(job'.script[k])
    BY <1>9, <2>1
  <2>4. QED BY <1>5, <1>10, <2>1, <2>2, <2>3, OrderGrows
<1>13. QED BY <1>2, <1>11, <1>12 DEF WorkStep

LEMMA NextOrder == TypeInv /\ OrderInv /\ [Next]_vars => OrderInv'
<1> SUFFICES ASSUME TypeInv, OrderInv, [Next]_vars PROVE OrderInv' OBVIOUS
<1>1. ASSUME UNCHANGED <<workerVars, chain>>, FieldsOf(shown', shown)
      PROVE  OrderInv'
  BY <1>1, OrderStays DEF workerVars
<1>2. ASSUME UNCHANGED shown PROVE FieldsOf(shown', shown)
  BY <1>2 DEF FieldsOf
<1>3. CASE Attach BY <1>1, <1>2, <1>3 DEF Attach, storeVars
<1>4. CASE AppendAudio BY <1>1, <1>2, <1>4 DEF AppendAudio, storeVars
<1>5. CASE CommitAudio
  <2>1. PICK late \in BOOLEAN :
          Dispatch(reduceVoiceSessionOutboundMessage(shown, "commit", late))
    BY <1>5 DEF CommitAudio
  <2>2. FieldsOf(shown', shown)
    BY <2>1, FlagsAre, OutboundType DEF Dispatch, FieldsOf
  <2>3. QED BY <1>1, <1>5, <2>2 DEF CommitAudio
<1>6. CASE Interrupt BY <1>1, <1>2, <1>6 DEF Interrupt, storeVars
<1>7. CASE Request BY <1>1, <1>2, <1>7 DEF Request, storeVars
<1>8. CASE Tick
  <2>1. PICK n \in shown.pending.elapsed .. 3 :
          Dispatch(reduceVoiceSessionClockTick(shown, n))
    BY <1>8 DEF Tick
  <2>2. n \in 0..3 BY FlagsAre DEF VoiceSessionState
  <2>3. FieldsOf(shown', shown)
    BY <2>1, <2>2, FlagsAre, TickIs DEF Dispatch, FieldsOf
  <2>4. QED BY <1>1, <1>8, <2>3 DEF Tick
<1>9. CASE Drop BY <1>9, EndsOrder DEF Drop
<1>10. CASE Close BY <1>10, EndsOrder DEF Close
<1>11. CASE UNCHANGED vars BY <1>1, <1>2, <1>11 DEF vars, storeVars
<1>12. QED
  BY <1>3, <1>4, <1>5, <1>6, <1>7, <1>8, <1>9, <1>10, <1>11, HandleOrder,
     SendNoticeOrder, SendLeadOrder, WorkOrder, ApplyOrder
  DEF Next

-----------------------------------------------------------------------------
(* How a turn ends: an utterance is measured last, while the session       *)
(* listens.                                                                *)

\* The items that end a script, and the events about its end.
Closing == {"recognises", "ends", "turn.metrics"}
Wrapping == {"measured", "session.status", "turn.metrics"}
ClosedLast(s) == \A i \in DOMAIN s : s[i].type \in Closing => i = Len(s)
Measures(s) == \E i \in DOMAIN s : s[i].type = "turn.metrics"
MeasuredWhile(s, status_) ==
  Measures(s) => status_ = "listening" /\ \A i \in DOMAIN s : s[i].type \in Wrapping

Inner == {x \in Items : x.type \notin Closing}

LEMMA InnerIs ==
  ASSUME NEW b \in Seq(Inner)
  PROVE  b \in Seq(Items) /\ ClosedLast(b) /\ ~Measures(b)
<1>1. b \in Seq(Items) BY SeqMonotonic DEF Inner
<1>2. \A i \in DOMAIN b : b[i].type \notin Closing BY DEF Inner
<1>3. QED BY <1>1, <1>2 DEF ClosedLast, Measures, Closing

LEMMA ClosedJoin ==
  ASSUME NEW a \in Seq(Inner), NEW b \in Seq(Items), ClosedLast(b)
  PROVE  ClosedLast(a \o b) /\ a \o b \in Seq(Items) /\ (Measures(a \o b) => Measures(b))
<1> DEFINE c == a \o b
<1>1. a \in Seq(Items) BY InnerIs
<1>2. c \in Seq(Items) /\ Len(c) = Len(a) + Len(b) BY <1>1, ConcatProperties
<1>3. \A i \in DOMAIN c :
        \/ i \in DOMAIN a /\ c[i] = a[i]
        \/ /\ i - Len(a) \in DOMAIN b /\ i - Len(a) \in Nat
           /\ i > Len(a) /\ c[i] = b[i - Len(a)]
  BY <1>1, JoinIs
<1> HIDE DEF c
<1>4. \A i \in DOMAIN a : a[i].type \notin Closing BY DEF Inner
<1>5. Len(a) \in Nat /\ Len(b) \in Nat /\ \A i \in DOMAIN c : i \in Nat
  <2>1. DOMAIN c = 1..Len(c) /\ Len(c) \in Nat BY <1>2
  <2>2. QED BY <2>1
<1>6. ClosedLast(c)
  <2> SUFFICES ASSUME NEW i \in DOMAIN c, c[i].type \in Closing PROVE i = Len(c)
    BY DEF ClosedLast
  <2>1. i - Len(a) \in DOMAIN b /\ c[i] = b[i - Len(a)] BY <1>3, <1>4
  <2>2. i - Len(a) = Len(b) BY <2>1 DEF ClosedLast
  <2>3. QED BY <1>2, <1>5, <2>2
<1>7. Measures(c) => Measures(b) BY <1>3, <1>4 DEF Measures, Closing
<1>8. QED BY <1>2, <1>6, <1>7 DEF c

LEMMA InnerItems ==
  ASSUME NEW g \in Generation, NEW s \in Status
  PROVE  /\ \A k \in {"phase", "reasoning.delta", "tool.update", "usage", "summary",
                      "response.delta", "completed"} : FromLlm(k, g) \in Inner
         /\ \A e \in {FromTts("chunk", g), FromTts("completed", g),
                      ErrorEvent(g, g), SessionStatusEvent(s, g, g),
                      RouteSelectedEvent(g, g), Becomes(s), Measured, Raises,
                      SttFinalEvent(g, g)} : e \in Inner
         /\ \A p \in {"running", "completed", "failed"}, t \in {NoGeneration, g} :
              SttStatusEvent(p, g, t) \in Inner
         /\ \A n \in {"answers", "speaks"} : Stage(n) \in Inner
<1>1. \A k \in {"phase", "reasoning.delta", "tool.update", "usage", "summary"} :
        FromLlm(k, g) \in Inner
  <2>1. \A x \in ScriptPlain : x \notin Closing BY DEF ScriptPlain, Closing
  <2>2. QED BY <2>1, LlmIs DEF Inner
<1>2. FromLlm("response.delta", g) \in Inner /\ FromLlm("completed", g) \in Inner
  BY LlmIs DEF Inner, Closing
<1>3. \A e \in {FromTts("chunk", g), FromTts("completed", g), ErrorEvent(g, g),
                RouteSelectedEvent(g, g)} : e \in Inner
  <2>1. \A e \in {FromTts("chunk", g), FromTts("completed", g), ErrorEvent(g, g),
                RouteSelectedEvent(g, g)} : e.type \notin Closing
    BY DEF FromTts, TtsChunkEvent, TtsCompletedEvent, ErrorEvent,
           RouteSelectedEvent, BaseEvent, Closing
  <2>2. QED BY <2>1, OtherItemsAre DEF Inner
<1>4. \A e \in {SessionStatusEvent(s, g, g), Becomes(s), Measured, Raises,
                SttFinalEvent(g, g)} : e \in Inner
  <2>1. \A e \in {SessionStatusEvent(s, g, g), Becomes(s), Measured, Raises,
                SttFinalEvent(g, g)} : e.type \notin Closing
    BY DEF SessionStatusEvent, Becomes, Measured, Raises, SttFinalEvent,
           BaseEvent, Closing
  <2>2. QED BY <2>1, OtherItemsAre DEF Inner
<1>5. \A p \in {"running", "completed", "failed"}, t \in {NoGeneration, g} :
        SttStatusEvent(p, g, t) \in Inner
  <2>1. \A p \in {"running", "completed", "failed"}, t \in {NoGeneration, g} :
          SttStatusEvent(p, g, t).type \notin Closing
    BY DEF SttStatusEvent, Closing
  <2>2. QED BY <2>1, OtherItemsAre DEF Inner
<1>6. \A n \in {"answers", "speaks"} : Stage(n) \in Inner
  BY DEF Stage, Items, Stages, Inner, Closing
<1>7. QED BY <1>1, <1>2, <1>3, <1>4, <1>5, <1>6

LEMMA TransitionInner ==
  ASSUME NEW s \in Status, NEW to \in Status, NEW g \in Generation
  PROVE  Transition(s, to, g) \in Seq(Inner)
<1>1. SessionStatusEvent(to, g, g) \in Inner BY InnerItems
<1>2. QED BY <1>1 DEF Transition

LEMMA AnswersInner ==
  ASSUME NEW g \in Generation, NEW b \in Answers(g)
  PROVE  b \in Seq(Inner)
<1> DEFINE ph == FromLlm("phase", g)
<1> DEFINE de == FromLlm("response.delta", g)
<1> DEFINE su == FromLlm("summary", g)
<1> DEFINE co == FromLlm("completed", g)
<1> DEFINE to == FromLlm("tool.update", g)
<1> DEFINE us == FromLlm("usage", g)
<1> DEFINE re == FromLlm("reasoning.delta", g)
<1> DEFINE er == ErrorEvent(g, g)
<1> DEFINE ch == FromTts("chunk", g)
<1> DEFINE tc == FromTts("completed", g)
<1> DEFINE sp == Stage("speaks")
<1>1. \A e \in {ph, de, su, co, to, us, re, er, ch, tc, sp} : e \in Inner
  <2>1. "listening" \in Status BY DEF Status
  <2>2. QED BY <2>1, InnerItems
<1>2. b \in {<<ph, de, su, co, sp>>, <<ph, de, su, co>>,
             <<ch, tc>> \o <<to, us, re, co, sp>>, <<er>>, <<de, er>>}
  BY DEF Answers, FeedbackText
<1> HIDE DEF ph, de, su, co, to, us, re, er, ch, tc, sp
<1>3. /\ <<ph, de, su, co, sp>> \in Seq(Inner) /\ <<ph, de, su, co>> \in Seq(Inner)
      /\ <<er>> \in Seq(Inner) /\ <<de, er>> \in Seq(Inner)
  BY <1>1
<1>4. <<ch, tc>> \o <<to, us, re, co, sp>> \in Seq(Inner)
  <2> DEFINE c == <<ch, tc>>
  <2> DEFINE d == <<to, us, re, co, sp>>
  <2>1. c \in Seq(Inner) /\ d \in Seq(Inner) BY <1>1
  <2> HIDE DEF c, d
  <2>2. c \o d \in Seq(Inner) BY <2>1
  <2>3. QED BY <2>2 DEF c, d
<1>5. QED BY <1>2, <1>3, <1>4

LEMMA SpokenInner ==
  ASSUME NEW g \in Generation, NEW b \in Spoken(g)
  PROVE  b \in Seq(Inner)
<1> DEFINE st == SessionStatusEvent("speaking", g, g)
<1> DEFINE ch == FromTts("chunk", g)
<1> DEFINE en == FromTts("completed", g)
<1>1. "speaking" \in Status BY DEF Status
<1>2. st \in Inner /\ ch \in Inner /\ en \in Inner /\ Raises \in Inner
  BY <1>1, InnerItems
<1>3. b = <<st, ch>> \o <<en>> \/ b = <<st, ch>> \o <<Raises>>
  BY DEF Spoken, Optional
<1> HIDE DEF st, ch, en
<1>4. \A x \in Inner : <<st, ch>> \o <<x>> \in Seq(Inner)
  <2> SUFFICES ASSUME NEW x \in Inner PROVE <<st, ch>> \o <<x>> \in Seq(Inner)
    OBVIOUS
  <2>1. <<st, ch>> \in Seq(Inner) /\ <<x>> \in Seq(Inner) BY <1>2
  <2>2. QED BY <2>1
<1>5. QED BY <1>2, <1>3, <1>4

LEMMA RecognisedCloses ==
  ASSUME NEW g \in Generation, NEW s \in Status, NEW b \in Recognised(g, s)
  PROVE  b \in Seq(Items) /\ ClosedLast(b) /\ ~Measures(b)
<1> DEFINE st == SttStatusEvent("completed", g, g)
<1> DEFINE sf == SttStatusEvent("failed", g, g)
<1> DEFINE fi == SttFinalEvent(g, g)
<1> DEFINE be == Becomes(Move(s, "thinking"))
<1> DEFINE bl == Becomes("listening")
<1> DEFINE ro == RouteSelectedEvent(g, g)
<1> DEFINE tt == Transition(s, "thinking", g)
<1> DEFINE tl == Transition(s, "listening", g)
<1> DEFINE an == Stage("answers")
<1> DEFINE en == Stage("ends")
<1>1. {"thinking", "listening"} \subseteq Status BY DEF Status
<1>2. Move(s, "thinking") \in Status BY <1>1, MoveIs
<1>3. /\ be \in Inner /\ bl \in Inner /\ ro \in Inner /\ Raises \in Inner
      /\ st \in Inner /\ sf \in Inner /\ fi \in Inner /\ an \in Inner
  BY <1>1, <1>2, InnerItems
<1>4. tt \in Seq(Inner) /\ tl \in Seq(Inner) BY <1>1, TransitionInner
<1>5. en \in Items /\ en.type = "ends" BY DEF Stage, Items, Stages
<1>6. \/ b = <<bl, st, sf>> \o tl
      \/ b = <<st, fi, be, ro>> \o tt \o <<an, en>>
      \/ b = <<Raises>>
  BY DEF Recognised, Optional, Blank
<1>7. an.type # "turn.metrics" BY DEF Stage
<1> HIDE DEF st, sf, fi, be, bl, ro, tt, tl, an, en
<1>8. CASE b = <<bl, st, sf>> \o tl
  <2>1. <<bl, st, sf>> \in Seq(Inner) BY <1>3
  <2>2. b \in Seq(Inner) BY <1>4, <1>8, <2>1
  <2>3. QED BY <2>2, InnerIs
<1>9. CASE b = <<st, fi, be, ro>> \o tt \o <<an, en>>
  <2> DEFINE h == <<st, fi, be, ro>>
  <2> DEFINE w == <<an, en>>
  <2>1. h \in Seq(Inner) BY <1>3
  <2>2. an \in Items BY <1>3 DEF Inner
  <2>3. w \in Seq(Items) /\ Len(w) = 2 /\ w[1] = an /\ w[2] = en /\ DOMAIN w = {1, 2}
    BY <1>5, <2>2
  <2> HIDE DEF h, w
  <2>4. ClosedLast(w) BY <1>3, <2>3 DEF ClosedLast, Inner
  <2>5. ~Measures(w) BY <1>5, <1>7, <2>3 DEF Measures
  <2> DEFINE u == h \o tt
  <2>6. u \in Seq(Inner) BY <1>4, <2>1
  <2>7. b = u \o w BY <1>9 DEF h, w
  <2> HIDE DEF u
  <2>8. QED BY <2>3, <2>4, <2>5, <2>6, <2>7, ClosedJoin
<1>10. CASE b = <<Raises>>
  <2>1. b \in Seq(Inner) BY <1>3, <1>10
  <2>2. QED BY <2>1, InnerIs
<1>11. QED BY <1>6, <1>8, <1>9, <1>10

LEMMA EndedCloses ==
  ASSUME NEW g \in Generation, NEW s \in Status
  PROVE  /\ Ended(g, s) \in Seq(Items) /\ ClosedLast(Ended(g, s))
         /\ Ended(g, s)[1] = Becomes("listening")
         /\ \A i \in DOMAIN Ended(g, s) : i # 1 => Ended(g, s)[i].type \in Wrapping
<1> DEFINE be == Becomes("listening")
<1> DEFINE me == TurnMetricsEvent(g, g, FALSE)
<1> DEFINE tr == Transition(s, "listening", g)
<1>1. "listening" \in Status BY DEF Status
<1>2. be \in Inner /\ Measured \in Inner BY <1>1, InnerItems
<1>3. tr \in Seq(Inner) BY <1>1, TransitionInner
<1>4. me \in Items /\ me.type = "turn.metrics"
  BY <1>1, OtherItemsAre DEF TurnMetricsEvent
<1>5. \A i \in DOMAIN tr : tr[i].type = "session.status"
  <2>1. CASE CanTransition(s, "listening")
    <3>1. tr = <<SessionStatusEvent("listening", g, g)>> BY <2>1 DEF Transition
    <3>2. SessionStatusEvent("listening", g, g).type = "session.status"
      BY DEF SessionStatusEvent
    <3> DEFINE e == SessionStatusEvent("listening", g, g)
    <3> HIDE DEF e, tr
    <3>3. tr = <<e>> /\ e.type = "session.status" BY <3>1, <3>2 DEF e
    <3>4. QED BY <3>3
  <2>2. CASE ~CanTransition(s, "listening")
    <3>1. tr = <<>> BY <2>2 DEF Transition
    <3>2. QED BY <3>1
  <2>3. QED BY <2>1, <2>2
<1>6. Ended(g, s) = <<be, Measured>> \o tr \o <<me>> BY DEF Ended
<1>7. Head(Ended(g, s)) = be /\ Ended(g, s) # <<>> BY EndedIs
<1>8. Measured.type = "measured" BY DEF Measured
<1> HIDE DEF be, me, tr
<1> DEFINE h == <<be, Measured>>
<1> DEFINE w == <<me>>
<1> DEFINE u == h \o tr
<1>9. h \in Seq(Inner) /\ DOMAIN h = {1, 2} /\ h[1] = be /\ h[2] = Measured BY <1>2
<1>10. w \in Seq(Items) /\ DOMAIN w = {1} /\ Len(w) = 1 /\ w[1] = me BY <1>4
<1>11. Ended(g, s) = u \o w BY <1>6
<1> HIDE DEF h, w
<1>12. ClosedLast(w) BY <1>10 DEF ClosedLast
<1>13. u \in Seq(Inner) BY <1>3, <1>9
<1>14. h \in Seq(Items) /\ tr \in Seq(Items) BY <1>3, <1>9, InnerIs
<1>15. \A i \in DOMAIN u : i # 1 => u[i].type \in Wrapping
  <2>1. \A i \in DOMAIN u : \/ i \in DOMAIN h /\ u[i] = h[i]
                            \/ \E k \in DOMAIN tr : u[i] = tr[k]
    BY <1>14, JoinIs
  <2>2. QED BY <1>5, <1>8, <1>9, <2>1 DEF Wrapping
<1> HIDE DEF u
<1>16. u \in Seq(Items) BY <1>13, InnerIs
<1>17. ClosedLast(u \o w) /\ u \o w \in Seq(Items) BY <1>10, <1>12, <1>13, ClosedJoin
<1>18. \A i \in DOMAIN (u \o w) : i # 1 => (u \o w)[i].type \in Wrapping
  <2>1. \A i \in DOMAIN (u \o w) : \/ i \in DOMAIN u /\ (u \o w)[i] = u[i]
                                   \/ \E k \in DOMAIN w : (u \o w)[i] = w[k]
    BY <1>10, <1>16, JoinIs
  <2>2. QED BY <1>4, <1>10, <1>15, <2>1 DEF Wrapping
<1>19. Ended(g, s)[1] = be
  <2> DEFINE z == Ended(g, s)
  <2>1. z \in Seq(Items) /\ z # <<>> /\ Head(z) = be BY <1>7, <1>11, <1>17
  <2> HIDE DEF z
  <2>2. z[1] = be BY <2>1
  <2>3. QED BY <2>2 DEF z
<1>20. QED BY <1>11, <1>17, <1>18, <1>19 DEF be

LEMMA TailCloses ==
  ASSUME NEW s \in Seq(Items), s # <<>>, ClosedLast(s)
  PROVE  ClosedLast(Tail(s)) /\ (Measures(Tail(s)) => Measures(s))
<1>1. /\ 1 \in DOMAIN s /\ Tail(s) \in Seq(Items) /\ Len(Tail(s)) = Len(s) - 1
      /\ \A i \in DOMAIN Tail(s) :
           /\ i \in Nat /\ i + 1 \in DOMAIN s /\ Tail(s)[i] = s[i + 1]
  BY TailIs
<1>2. Len(s) \in Nat OBVIOUS
<1>3. ClosedLast(Tail(s)) BY <1>1, <1>2 DEF ClosedLast
<1>4. Measures(Tail(s)) => Measures(s) BY <1>1 DEF Measures
<1>5. QED BY <1>3, <1>4

\* What a stage of an utterance unfolds to: nothing is measured yet, or the
\* script stays, or the turn ends.
LEMMA StageCloses ==
  ASSUME NEW s \in Seq(Items), s # <<>>, NEW g \in Generation, NEW st \in Status,
         ClosedLast(s), MeasuredWhile(s, st), NEW x \in Unfolded(s, g, st)
  PROVE  /\ ClosedLast(x)
         /\ \/ ~Measures(x)
            \/ MeasuredWhile(x, st)
            \/ /\ x[1] = Becomes("listening")
               /\ \A i \in DOMAIN x : i # 1 => x[i].type \in Wrapping
<1>1. Head(s) = s[1] /\ 1 \in DOMAIN s /\ Tail(s) \in Seq(Items)
        /\ Len(Tail(s)) = Len(s) - 1 /\ Len(s) \in Nat
  BY TailIs
<1>2. s[1].type \in {"recognises", "ends"} => Tail(s) = <<>>
  <2> SUFFICES ASSUME s[1].type \in {"recognises", "ends"} PROVE Tail(s) = <<>>
    OBVIOUS
  <2>1. 1 = Len(s) BY <1>1 DEF ClosedLast, Closing
  <2>2. Len(Tail(s)) = 0
    <3> DEFINE n == Len(s)
    <3> DEFINE k == Len(Tail(s))
    <3>1. k = n - 1 /\ 1 = n BY <1>1, <2>1
    <3> HIDE DEF n, k
    <3>2. k = 0 BY <3>1
    <3>3. QED BY <3>2 DEF k
  <2>3. QED BY <1>1, <2>2, EmptySeq
<1>3. ASSUME NEW b, b \in Seq(Items), Tail(s) = <<>> PROVE b \o Tail(s) = b
  BY <1>3, ConcatEmptySeq
<1>4. ASSUME s[1].type \in {"answers", "speaks"}, NEW b, b \in Seq(Inner),
             x = b \/ x = b \o Tail(s)
      PROVE  ClosedLast(x) /\ ~Measures(x)
  <2>1. ~Measures(s) BY <1>1, <1>4 DEF MeasuredWhile, Wrapping
  <2>2. ClosedLast(Tail(s)) /\ ~Measures(Tail(s)) BY <2>1, TailCloses
  <2>3. CASE x = b BY <1>4, <2>3, InnerIs
  <2>4. CASE x = b \o Tail(s) BY <1>1, <1>4, <2>2, <2>4, ClosedJoin
  <2>5. QED BY <1>4, <2>3, <2>4
<1>5. CASE s[1].type = "recognises"
  <2>1. \E b \in Recognised(g, st) : x = b \/ x = b \o Tail(s)
    BY <1>1, <1>5 DEF Unfolded
  <2>2. PICK b \in Recognised(g, st) : x = b \/ x = b \o Tail(s) BY <2>1
  <2>3. b \in Seq(Items) /\ ClosedLast(b) /\ ~Measures(b) BY RecognisedCloses
  <2>4. x = b BY <1>2, <1>3, <1>5, <2>2, <2>3
  <2>5. QED BY <2>3, <2>4
<1>6. CASE s[1].type = "answers"
  <2>1. \E b \in Answers(g) : x = b \/ x = b \o Tail(s)
    BY <1>1, <1>6 DEF Unfolded
  <2>2. QED BY <1>4, <1>6, <2>1, AnswersInner
<1>7. CASE s[1].type = "speaks"
  <2>1. \E b \in Spoken(g) : x = b \/ x = b \o Tail(s)
    BY <1>1, <1>7 DEF Unfolded
  <2>2. QED BY <1>4, <1>7, <2>1, SpokenInner
<1>8. CASE s[1].type = "ends"
  <2> DEFINE b == Ended(g, st)
  <2>1. x = b \/ x = b \o Tail(s)
    BY <1>1, <1>8 DEF Unfolded
  <2>2. /\ b \in Seq(Items) /\ ClosedLast(b) /\ b[1] = Becomes("listening")
        /\ \A i \in DOMAIN b : i # 1 => b[i].type \in Wrapping
    BY EndedCloses
  <2> HIDE DEF b
  <2>3. x = b BY <1>2, <1>3, <1>8, <2>1, <2>2
  <2>4. QED BY <2>2, <2>3
<1>9. CASE s[1].type \notin Stages
  <2>1. x = s BY <1>1, <1>9 DEF Unfolded, Stages
  <2>2. QED BY <2>1
<1>10. QED BY <1>5, <1>6, <1>7, <1>8, <1>9 DEF Stages

LEMMA UnfoldedCloses ==
  ASSUME NEW s \in Seq(Items), s # <<>>, NEW g \in Generation, NEW st \in Status,
         ClosedLast(s), MeasuredWhile(s, st), NEW x \in Unfolded(s, g, st),
         x \in Seq(Items), x # <<>>
  PROVE  /\ x[1].type = "turn.metrics" => st = "listening" /\ Tail(x) = <<>>
         /\ ClosedLast(Tail(x))
         /\ MeasuredWhile(Tail(x), IF x[1].type = "becomes" THEN x[1].status ELSE st)
<1>1. /\ 1 \in DOMAIN x /\ Tail(x) \in Seq(Items) /\ Len(Tail(x)) = Len(x) - 1
      /\ \A i \in DOMAIN Tail(x) :
           /\ i \in Nat /\ i + 1 \in DOMAIN x /\ Tail(x)[i] = x[i + 1]
      /\ Len(x) \in Nat
  BY TailIs
<1>2. \A i \in DOMAIN Tail(x) : i + 1 # 1
  <2>1. DOMAIN Tail(x) = 1..Len(Tail(x)) /\ Len(Tail(x)) \in Nat BY <1>1
  <2>2. QED BY <2>1
<1>3. /\ ClosedLast(x)
      /\ \/ ~Measures(x)
         \/ MeasuredWhile(x, st)
         \/ /\ x[1] = Becomes("listening")
            /\ \A i \in DOMAIN x : i # 1 => x[i].type \in Wrapping
  BY StageCloses
<1>4. ClosedLast(Tail(x)) /\ (Measures(Tail(x)) => Measures(x)) BY <1>3, TailCloses
<1>5. Becomes("listening").type = "becomes" /\ Becomes("listening").status = "listening"
  BY DEF Becomes
<1>6. x[1].type = "turn.metrics" => st = "listening" /\ Tail(x) = <<>>
  <2> SUFFICES ASSUME x[1].type = "turn.metrics" PROVE st = "listening" /\ Tail(x) = <<>>
    OBVIOUS
  <2>1. 1 = Len(x) BY <1>1, <1>3 DEF ClosedLast, Closing
  <2>2. Len(Tail(x)) = 0
    <3> DEFINE n == Len(x)
    <3> DEFINE k == Len(Tail(x))
    <3>1. k = n - 1 /\ 1 = n BY <1>1, <2>1
    <3> HIDE DEF n, k
    <3>2. k = 0 BY <3>1
    <3>3. QED BY <3>2 DEF k
  <2>3. Tail(x) = <<>> BY <1>1, <2>2, EmptySeq
  <2>4. Measures(x) BY <1>1 DEF Measures
  <2>5. MeasuredWhile(x, st) BY <1>3, <1>5, <2>4
  <2>6. QED BY <2>3, <2>4, <2>5 DEF MeasuredWhile
<1> DEFINE t == IF x[1].type = "becomes" THEN x[1].status ELSE st
<1>7. MeasuredWhile(Tail(x), t)
  <2> SUFFICES ASSUME Measures(Tail(x))
               PROVE  t = "listening" /\ \A i \in DOMAIN Tail(x) : Tail(x)[i].type \in Wrapping
    BY DEF MeasuredWhile
  <2>1. Measures(x) BY <1>4
  <2>2. CASE MeasuredWhile(x, st)
    <3>1. st = "listening" /\ \A i \in DOMAIN x : x[i].type \in Wrapping
      BY <2>1, <2>2 DEF MeasuredWhile
    <3>2. x[1].type # "becomes" BY <1>1, <3>1 DEF Wrapping
    <3>3. QED BY <1>1, <3>1, <3>2
  <2>3. CASE /\ x[1] = Becomes("listening")
             /\ \A i \in DOMAIN x : i # 1 => x[i].type \in Wrapping
    <3>1. t = "listening" BY <1>5, <2>3
    <3>2. QED BY <1>1, <1>2, <2>3, <3>1
  <2>4. QED BY <1>3, <2>1, <2>2, <2>3
<1>8. QED BY <1>4, <1>6, <1>7

-----------------------------------------------------------------------------
(* The utterances that wait, and how many of them the client will count.   *)

\* What the store will count at the least, f[i] when i events have come from
\* the chain c to the count n: no less than q after the last announcement.
Foretold(f, c, n, q) ==
  /\ f \in [0..Len(c) -> Nat]
  /\ f[0] <= n
  /\ \A i \in 1..Len(c) : f[i] <= QueueAfter(f[i - 1], c[i])
  /\ \A i \in 0..Len(c) :
       (\A k \in i + 1..Len(c) : c[k].type # "turn.queued") => f[i] >= q

\* An announcement the handler has still to send is its last event, and counts
\* every utterance that waits.
Announced == \E i \in DOMAIN notices : notices[i].type = "turn.queued"
QueueInv ==
  /\ \A i \in DOMAIN notices : notices[i].type = "turn.queued" =>
       i = Len(notices) /\ notices[i].queue_size >= queued
  /\ job.kind = "utterance" =>
       ClosedLast(job.script) /\ MeasuredWhile(job.script, status)
  /\ queued > 0 => Announced \/ \E f : Foretold(f, chain, shown.queue, queued)

LEMMA InitQueueInv == Init => QueueInv
<1> SUFFICES ASSUME Init PROVE QueueInv OBVIOUS
<1>1. notices = <<>> /\ queued = 0 /\ job.kind = "none" BY DEF Init, NoJob
<1>2. QED BY <1>1 DEF QueueInv

\* What is counted is what waits, or is yet to be announced.
LEMMA QueueIsCounted ==
  ASSUME TypeInv, QueueInv
  PROVE  QueueIsShown
<1> SUFFICES ASSUME notices = <<>>,
                    \A i \in DOMAIN chain : chain[i].type # "turn.queued"
             PROVE  shown.queue >= queued
  BY DEF QueueIsShown
<1>1. shown.queue \in Nat /\ queued \in Nat /\ chain \in Seq(Under)
  BY BoundIs, FlagsAre DEF VoiceSessionState, TypeInv
<1>2. CASE queued = 0 BY <1>1, <1>2
<1>3. CASE queued > 0
  <2>1. ~Announced BY DEF Announced
  <2>2. PICK f : Foretold(f, chain, shown.queue, queued) BY <1>3, <2>1 DEF QueueInv
  <2>3. 0 \in 0..Len(chain) /\ Len(chain) \in Nat /\ DOMAIN chain = 1..Len(chain)
    BY <1>1
  <2>4. f[0] \in Nat /\ f[0] <= shown.queue /\ f[0] >= queued
    BY <2>2, <2>3 DEF Foretold
  <2>5. QED BY <1>1, <2>4
<1>4. QED BY <1>1, <1>2, <1>3

\* Events that announce nothing and change no count, and those of a handler.
Neutral(e) == e.type \notin {"turn.queued", "turn.metrics", "conversation.interrupted"}

LEMMA CountsAre ==
  ASSUME NEW q \in Nat, NEW e \in Under
  PROVE  /\ QueueAfter(q, e) \in Nat
         /\ Neutral(e) => QueueAfter(q, e) = q
         /\ e.type = "turn.metrics" => QueueAfter(q, e) >= q - 1
         /\ e.type # "turn.queued" => QueueAfter(q, e) <= q
         /\ \A p \in Nat : p <= q => QueueAfter(p, e) <= QueueAfter(q, e)
<1>1. e.type = "turn.queued" => e.queue_size \in Nat BY UnderIs
<1>2. CASE e.type = "turn.queued"
  <2>1. \A p \in Nat : QueueAfter(p, e) = e.queue_size BY <1>2 DEF QueueAfter
  <2>2. QED BY <1>1, <1>2, <2>1 DEF Neutral
<1>3. CASE e.type = "turn.metrics"
  <2>1. \A p \in Nat : QueueAfter(p, e) = IF ~e.cancelled /\ p > 0 THEN p - 1 ELSE p
    BY <1>3 DEF QueueAfter
  <2>2. e.cancelled = TRUE \/ e.cancelled = FALSE BY <1>3, UnderIs
  <2>3. QED BY <1>3, <2>1, <2>2 DEF Neutral
<1>4. CASE e.type = "conversation.interrupted"
  <2>1. \A p \in Nat : QueueAfter(p, e) = 0 BY <1>4 DEF QueueAfter
  <2>2. QED BY <1>4, <2>1 DEF Neutral
<1>5. CASE Neutral(e)
  <2>1. \A p \in Nat : QueueAfter(p, e) = p BY <1>5 DEF QueueAfter, Neutral
  <2>2. QED BY <1>5, <2>1 DEF Neutral
<1>6. QED BY <1>2, <1>3, <1>4, <1>5 DEF Neutral

\* Fewer wait than before.
LEMMA ForetoldLess ==
  ASSUME NEW c \in Seq(Under), NEW n \in Nat, NEW q \in Nat, NEW f,
         Foretold(f, c, n, q), NEW p \in Nat, p <= q
  PROVE  Foretold(f, c, n, p)
<1>1. \A i \in 0..Len(c) : f[i] \in Nat BY DEF Foretold
<1>2. QED BY <1>1 DEF Foretold

\* The chain c, behind which come the events m.
LEMMA ChainGrows ==
  ASSUME NEW c \in Seq(Under), NEW m \in Seq(Under)
  PROVE  /\ c \o m \in Seq(Under) /\ Len(c) \in Nat /\ Len(m) \in Nat
         /\ Len(c \o m) = Len(c) + Len(m)
         /\ \A i \in 1..Len(c) : (c \o m)[i] = c[i]
         /\ \A i \in Len(c) + 1 .. Len(c) + Len(m) :
              i - Len(c) \in DOMAIN m /\ (c \o m)[i] = m[i - Len(c)]
         /\ \A i \in 1..Len(m) : (c \o m)[i + Len(c)] = m[i]
<1> DEFINE d == c \o m
<1>1. /\ d \in Seq(Under) /\ Len(d) = Len(c) + Len(m)
      /\ \A i \in 1..Len(c) + Len(m) : d[i] = IF i <= Len(c) THEN c[i] ELSE m[i - Len(c)]
  BY ConcatProperties
<1> HIDE DEF d
<1>2. Len(c) \in Nat /\ Len(m) \in Nat /\ DOMAIN m = 1..Len(m) OBVIOUS
<1>3. \A i \in 1..Len(c) : d[i] = c[i] BY <1>1, <1>2
<1>4. \A i \in Len(c) + 1 .. Len(c) + Len(m) :
              i - Len(c) \in DOMAIN m /\ d[i] = m[i - Len(c)]
  BY <1>1, <1>2
<1>5. \A i \in 1..Len(m) : d[i + Len(c)] = m[i] BY <1>1, <1>2
<1>6. QED BY <1>1, <1>2, <1>3, <1>4, <1>5 DEF d

LEMMA ForetoldMore ==
  ASSUME NEW c \in Seq(Under), NEW n \in Nat, NEW q \in Nat, NEW f,
         Foretold(f, c, n, q), NEW m \in Seq(Under), \A i \in DOMAIN m : Neutral(m[i])
  PROVE  \E g : Foretold(g, c \o m, n, q)
<1> DEFINE L == Len(c)
<1> DEFINE M == Len(m)
<1> DEFINE d == c \o m
<1> DEFINE g == [i \in 0..L + M |-> IF i <= L THEN f[i] ELSE f[L]]
<1>1. /\ L \in Nat /\ M \in Nat /\ Len(d) = L + M
      /\ \A i \in 1..L : d[i] = c[i]
      /\ \A i \in L + 1 .. L + M : i - L \in DOMAIN m /\ d[i] = m[i - L]
  BY ChainGrows
<1>2. /\ f \in [0..L -> Nat] /\ f[0] <= n
      /\ \A i \in 1..L : f[i] <= QueueAfter(f[i - 1], c[i])
      /\ \A i \in 0..L : (\A k \in i + 1..L : c[k].type # "turn.queued") => f[i] >= q
  BY DEF Foretold
<1>3. \A i \in DOMAIN m : m[i] \in Under OBVIOUS
<1> HIDE DEF d, L, M
<1>4. f[L] \in Nat /\ f[L] >= q BY <1>1, <1>2
<1>5. /\ g \in [0..Len(d) -> Nat] /\ g[0] <= n
      /\ \A i \in 0..L : g[i] = f[i]
      /\ \A i \in L..L + M : g[i] = f[L]
  BY <1>1, <1>2, <1>4
<1> HIDE DEF g
<1>6. ASSUME NEW i \in 1..Len(d) PROVE g[i] <= QueueAfter(g[i - 1], d[i])
  <2>1. CASE i <= L
    <3>1. i \in 1..L /\ i \in 0..L /\ i - 1 \in 0..L BY <1>1, <2>1
    <3>2. QED BY <1>1, <1>2, <1>5, <3>1
  <2>2. CASE i > L
    <3>1. i \in L + 1 .. L + M /\ i \in L..L + M /\ i - 1 \in L..L + M BY <1>1, <2>2
    <3>2. g[i] = f[L] /\ g[i - 1] = f[L] BY <1>5, <3>1
    <3>3. d[i] \in Under /\ Neutral(d[i]) BY <1>1, <1>3, <3>1
    <3>4. QueueAfter(f[L], d[i]) = f[L] BY <1>4, <3>3, CountsAre
    <3>5. QED BY <1>4, <3>2, <3>4
  <2>3. QED BY <1>1, <2>1, <2>2
<1>7. ASSUME NEW i \in 0..Len(d), \A k \in i + 1..Len(d) : d[k].type # "turn.queued"
      PROVE  g[i] >= q
  <2>1. CASE i <= L
    <3>1. \A k \in i + 1..L : c[k].type # "turn.queued"
      <4> SUFFICES ASSUME NEW k \in i + 1..L PROVE c[k].type # "turn.queued" OBVIOUS
      <4>1. k \in 1..L /\ k \in i + 1..Len(d) BY <1>1, <2>1
      <4>2. QED BY <1>1, <1>7, <4>1
    <3>2. i \in 0..L BY <1>1, <2>1
    <3>3. QED BY <1>2, <1>5, <3>1, <3>2
  <2>2. CASE i > L
    <3>1. i \in L..L + M BY <1>1, <2>2
    <3>2. QED BY <1>4, <1>5, <3>1
  <2>3. QED BY <1>1, <2>1, <2>2
<1>8. Foretold(g, d, n, q) BY <1>5, <1>6, <1>7 DEF Foretold
<1>9. QED BY <1>8 DEF d

\* The end of a turn is told, and one utterance less waits.
LEMMA ForetoldMeasured ==
  ASSUME NEW c \in Seq(Under), NEW n \in Nat, NEW q \in Nat, q > 0, NEW f,
         Foretold(f, c, n, q), NEW e \in Under, e.type = "turn.metrics"
  PROVE  \E g : Foretold(g, c \o <<e>>, n, q - 1)
<1> DEFINE m == <<e>>
<1> DEFINE L == Len(c)
<1> DEFINE d == c \o m
<1>1. m \in Seq(Under) /\ Len(m) = 1 /\ m[1] = e OBVIOUS
<1> HIDE DEF m
<1>2. /\ L \in Nat /\ Len(d) = L + 1
      /\ \A i \in 1..L : d[i] = c[i]
      /\ d[L + 1] = e
  <2>1. L \in Nat /\ Len(d) = L + 1 /\ \A i \in 1..L : d[i] = c[i]
    <3>1. m \in Seq(Under) /\ Len(m) = 1 BY <1>1
    <3>2. L \in Nat /\ Len(d) = L + Len(m) /\ \A i \in 1..L : d[i] = c[i]
      BY <3>1, ChainGrows
    <3> HIDE DEF d, L
    <3>3. QED BY <3>1, <3>2
  <2>2. \A i \in 1..Len(m) : d[i + Len(c)] = m[i] BY <1>1, ChainGrows
  <2>3. d[1 + L] = m[1]
    <3>1. 1 \in 1..Len(m) BY <1>1
    <3> HIDE DEF d, m
    <3>2. QED BY <2>2, <3>1
  <2> HIDE DEF d, L
  <2>4. 1 + L = L + 1 BY <2>1
  <2>5. QED BY <1>1, <2>1, <2>3, <2>4
<1>3. /\ f \in [0..L -> Nat] /\ f[0] <= n
      /\ \A i \in 1..L : f[i] <= QueueAfter(f[i - 1], c[i])
      /\ \A i \in 0..L : (\A k \in i + 1..L : c[k].type # "turn.queued") => f[i] >= q
  BY DEF Foretold
<1> HIDE DEF d, L
<1>4. f[L] \in Nat /\ f[L] >= q BY <1>2, <1>3
<1> DEFINE g == [i \in 0..L + 1 |-> IF i <= L THEN f[i] ELSE f[L] - 1]
<1>5. /\ g \in [0..Len(d) -> Nat] /\ g[0] <= n
      /\ \A i \in 0..L : g[i] = f[i]
      /\ g[L + 1] = f[L] - 1
  BY <1>2, <1>3, <1>4
<1> HIDE DEF g
<1>6. ASSUME NEW i \in 1..Len(d) PROVE g[i] <= QueueAfter(g[i - 1], d[i])
  <2>1. CASE i <= L
    <3>1. i \in 1..L /\ i \in 0..L /\ i - 1 \in 0..L BY <1>2, <2>1
    <3>2. QED BY <1>2, <1>3, <1>5, <3>1
  <2>2. CASE i = L + 1
    <3>1. i - 1 = L /\ L \in 0..L BY <1>2, <2>2
    <3>2. g[i - 1] = f[L] /\ g[i] = f[L] - 1 /\ d[i] = e BY <1>2, <1>5, <2>2, <3>1
    <3>3. QueueAfter(f[L], e) >= f[L] - 1 BY <1>4, CountsAre
    <3>4. QED BY <3>2, <3>3
  <2>3. QED BY <1>2, <2>1, <2>2
<1>7. ASSUME NEW i \in 0..Len(d), \A k \in i + 1..Len(d) : d[k].type # "turn.queued"
      PROVE  g[i] >= q - 1
  <2>1. CASE i <= L
    <3>1. \A k \in i + 1..L : c[k].type # "turn.queued"
      <4> SUFFICES ASSUME NEW k \in i + 1..L PROVE c[k].type # "turn.queued" OBVIOUS
      <4>1. k \in 1..L /\ k \in i + 1..Len(d) BY <1>2, <2>1
      <4>2. QED BY <1>2, <1>7, <4>1
    <3>2. i \in 0..L BY <1>2, <2>1
    <3>3. f[i] >= q /\ g[i] = f[i] /\ f[i] \in Nat BY <1>3, <1>5, <3>1, <3>2
    <3>4. QED BY <3>3
  <2>2. CASE i = L + 1 BY <1>4, <1>5, <2>2
  <2>3. QED BY <1>2, <2>1, <2>2
<1>8. Foretold(g, d, n, q - 1) BY <1>5, <1>6, <1>7 DEF Foretold
<1>9. QED BY <1>8 DEF d, m

\* The utterances that wait are told.
LEMMA ForetoldQueued ==
  ASSUME NEW c \in Seq(Under), NEW n \in Nat, NEW q \in Nat, NEW m \in Seq(Under),
         m # <<>>, m[Len(m)].type = "turn.queued", m[Len(m)].queue_size >= q
  PROVE  \E g : Foretold(g, c \o m, n, q)
<1> DEFINE d == c \o m
<1> DEFINE T == Len(d)
<1> DEFINE e == m[Len(m)]
<1>1. Len(m) \in 1..Len(m) /\ Len(m) \in Nat
  <2>1. Len(m) \in Nat /\ Len(m) # 0 BY EmptySeq
  <2>2. QED BY <2>1
<1>2. /\ T \in Nat /\ T > 0 /\ d[T] = e /\ \A i \in 1..T : d[i] \in Under
  <2>1. /\ d \in Seq(Under) /\ Len(c) \in Nat /\ Len(d) = Len(c) + Len(m)
    BY ChainGrows
  <2>2. \A i \in 1..Len(m) : d[i + Len(c)] = m[i] BY ChainGrows
  <2>3. d[Len(m) + Len(c)] = e BY <1>1, <2>2
  <2> HIDE DEF d, e
  <2>4. Len(m) + Len(c) = T BY <1>1, <2>1
  <2>5. QED BY <1>1, <2>1, <2>3, <2>4
<1>3. e \in Under BY <1>1
<1>4. e.type = "turn.queued" /\ e.queue_size >= q OBVIOUS
<1>5. e.queue_size \in Nat BY <1>3, <1>4, UnderIs
<1> HIDE DEF d, T, e
<1> DEFINE g == [i \in 0..T |-> IF i = T THEN e.queue_size ELSE 0]
<1>6. /\ g \in [0..T -> Nat] /\ g[0] <= n /\ g[T] = e.queue_size
      /\ \A i \in 0..T : i # T => g[i] = 0
  BY <1>2, <1>5
<1> HIDE DEF g
<1>7. ASSUME NEW i \in 1..T PROVE g[i] <= QueueAfter(g[i - 1], d[i])
  <2>1. i - 1 \in 0..T /\ i \in 0..T /\ d[i] \in Under BY <1>2
  <2>2. g[i - 1] \in Nat BY <1>6, <2>1
  <2>3. QueueAfter(g[i - 1], d[i]) \in Nat BY <2>1, <2>2, CountsAre
  <2>4. CASE i = T
    <3>1. QueueAfter(g[i - 1], d[i]) = e.queue_size
      BY <1>2, <1>4, <2>4 DEF QueueAfter
    <3>2. QED BY <1>5, <1>6, <2>4, <3>1
  <2>5. CASE i # T BY <1>6, <2>1, <2>3, <2>5
  <2>6. QED BY <2>4, <2>5
<1>8. ASSUME NEW i \in 0..T, \A k \in i + 1..T : d[k].type # "turn.queued"
      PROVE  g[i] >= q
  <2>1. i = T
    <3>1. CASE i # T
      <4>1. T \in i + 1..T BY <1>2, <3>1
      <4>2. d[T].type # "turn.queued" BY <1>8, <4>1
      <4>3. QED BY <1>2, <1>4, <4>2
    <3>2. QED BY <3>1
  <2>2. QED BY <1>4, <1>6, <2>1
<1>9. Foretold(g, d, n, q) BY <1>6, <1>7, <1>8 DEF Foretold, T
<1>10. QED BY <1>9 DEF d

\* The first event of the chain c is applied.
LEMMA ForetoldNext ==
  ASSUME NEW c \in Seq(Under), NEW n \in Nat, NEW q \in Nat, NEW f,
         Foretold(f, c, n, q), 1 \in DOMAIN c, NEW b \in Seq(Under),
         Len(b) = Len(c) - 1,
         \A i \in DOMAIN b : i \in Nat /\ i + 1 \in DOMAIN c /\ b[i] = c[i + 1],
         NEW r \in Nat, r >= QueueAfter(n, c[1]) \/ (r = n /\ c[1].type # "turn.queued")
  PROVE  \E g : Foretold(g, b, r, q)
<1> DEFINE L == Len(c)
<1> DEFINE B == Len(b)
<1>1. /\ L \in Nat /\ B \in Nat /\ L = B + 1 /\ c[1] \in Under
      /\ DOMAIN c = 1..L /\ DOMAIN b = 1..B
  OBVIOUS
<1>2. /\ f \in [0..L -> Nat] /\ f[0] <= n
      /\ \A i \in 1..L : f[i] <= QueueAfter(f[i - 1], c[i])
      /\ \A i \in 0..L : (\A k \in i + 1..L : c[k].type # "turn.queued") => f[i] >= q
  BY DEF Foretold
<1> HIDE DEF L, B
<1>3. f[0] \in Nat /\ f[1] \in Nat /\ f[1] <= QueueAfter(f[0], c[1])
  <2>1. 1 - 1 = 0 /\ 0 \in 0..L /\ 1 \in 0..L /\ 1 \in 1..L BY <1>1
  <2>2. QED BY <1>2, <2>1
<1>4. f[1] <= r
  <2>1. QueueAfter(f[0], c[1]) <= QueueAfter(n, c[1]) BY <1>1, <1>2, <1>3, CountsAre
  <2>2. c[1].type # "turn.queued" => QueueAfter(f[0], c[1]) <= f[0]
    BY <1>1, <1>3, CountsAre
  <2>3. QueueAfter(n, c[1]) \in Nat /\ QueueAfter(f[0], c[1]) \in Nat
    BY <1>1, <1>3, CountsAre
  <2>4. QED BY <1>2, <1>3, <2>1, <2>2, <2>3
<1> DEFINE g == [i \in 0..B |-> f[i + 1]]
<1>5. /\ g \in [0..B -> Nat] /\ \A i \in 0..B : g[i] = f[i + 1]
  BY <1>1, <1>2
<1> HIDE DEF g
<1>6. g[0] <= r
  <2>1. 0 \in 0..B /\ 0 + 1 = 1 BY <1>1
  <2>2. QED BY <1>4, <1>5, <2>1
<1>7. ASSUME NEW i \in 1..B PROVE g[i] <= QueueAfter(g[i - 1], b[i])
  <2>1. i \in 0..B /\ i - 1 \in 0..B /\ i - 1 + 1 = i /\ i + 1 \in 1..L /\ i + 1 - 1 = i
    BY <1>1
  <2>2. g[i] = f[i + 1] /\ g[i - 1] = f[i] /\ b[i] = c[i + 1] BY <1>1, <1>5, <2>1
  <2>3. f[i + 1] <= QueueAfter(f[i], c[i + 1]) BY <1>2, <2>1
  <2>4. QED BY <2>2, <2>3
<1>8. ASSUME NEW i \in 0..B, \A k \in i + 1..B : b[k].type # "turn.queued"
      PROVE  g[i] >= q
  <2>1. i + 1 \in 0..L BY <1>1
  <2>2. \A k \in i + 1 + 1..L : c[k].type # "turn.queued"
    <3> SUFFICES ASSUME NEW k \in i + 1 + 1..L PROVE c[k].type # "turn.queued" OBVIOUS
    <3>1. k - 1 \in i + 1..B /\ k - 1 \in 1..B /\ k - 1 + 1 = k BY <1>1
    <3>2. b[k - 1] = c[k] BY <1>1, <3>1
    <3>3. QED BY <1>8, <3>1, <3>2
  <2>3. QED BY <1>2, <1>5, <2>1, <2>2
<1>9. Foretold(g, b, r, q) BY <1>5, <1>6, <1>7, <1>8 DEF Foretold, B
<1>10. QED BY <1>9

\* What neither queues nor measures an uncancelled turn announces nothing.
LEMMA UnqueuedIs ==
  /\ \A e \in Unqueued : e.type # "turn.queued"
  /\ \A e \in Calm : Neutral(e)
  /\ \A e \in QueueEvents : e.type = "turn.queued"
  /\ \A e \in TaskEvents : e.type # "turn.metrics" => Neutral(e)
<1>1. \A e \in Calm : e.type \in {"session.status", "vad.state", "stt.status",
                                  "session.created", "session.ready"}
  BY DEF Calm, StatusEvents, VadEvents, SttEvents, PlainEvents
<1>2. \A e \in MetricsEvents \cup PlainEvents(NoticePlain) : e.type # "turn.queued"
  BY DEF MetricsEvents, PlainEvents, NoticePlain
<1>3. \A e \in QueueEvents : e.type = "turn.queued" BY DEF QueueEvents
<1>4. \A e \in TaskEvents : e.type \in {"session.status", "stt.status", "turn.metrics"}
                                         \cup ScriptPlain \cup ToldTypes
  BY DEF TaskEvents, StatusEvents, SttEvents, MetricsEvents, PlainEvents, ToldEvents
<1>5. \A e \in TaskEvents : e.type # "turn.metrics" => Neutral(e)
  BY <1>4 DEF Neutral, ScriptPlain, ToldTypes
<1>6. \A e \in Calm : Neutral(e) BY <1>1 DEF Neutral
<1>7. QED BY <1>1, <1>2, <1>3, <1>5, <1>6 DEF Unqueued

\* The task of an utterance, when it is begun.
LEMMA UtteranceCloses ==
  ASSUME NEW g, NEW s
  PROVE  ClosedLast(Utterance(g)) /\ MeasuredWhile(Utterance(g), s)
<1> DEFINE ru == SttStatusEvent("running", g, NoGeneration)
<1> DEFINE re == Stage("recognises")
<1>1. ru.type = "stt.status" /\ re.type = "recognises" BY DEF SttStatusEvent, Stage
<1>2. Utterance(g) = <<ru, re>> BY DEF Utterance
<1> HIDE DEF ru, re
<1> DEFINE u == <<ru, re>>
<1>3. DOMAIN u = {1, 2} /\ Len(u) = 2 /\ u[1] = ru /\ u[2] = re OBVIOUS
<1> HIDE DEF u
<1>4. ClosedLast(u) BY <1>1, <1>3 DEF ClosedLast, Closing
<1>5. ~Measures(u) BY <1>1, <1>3 DEF Measures
<1>6. QED BY <1>2, <1>4, <1>5 DEF MeasuredWhile, u

\* _start_session leaves a session that listens alone.
LEMMA StartedListens == Started("listening") = "listening"
<1>1. "listening" \in Status BY DEF Status
<1>2. Allowed["listening"] = {"transcribing", "thinking", "interrupted", "closed",
                              "failed"}
  BY <1>1 DEF Allowed
<1>3. Move("listening", "loading") = "listening"
        /\ Move("listening", "ready") = "listening"
        /\ Move("listening", "listening") = "listening"
  BY <1>2 DEF Move, CanTransition
<1>4. QED BY <1>3 DEF Started

\* What an action of the handler announces.
Quietly == queued' = queued /\ notices' \in Seq(Unqueued)
Aloud ==
  /\ queued' = queued + 1
  /\ \E events \in Seq(Calm) : notices' = events \o <<TurnQueuedEvent(queued + 1)>>
ScriptStays ==
  job'.kind = "utterance" =>
    \/ job' = job /\ status' \in {status, Started(status)}
    \/ job'.script = Utterance(turn + 1) /\ turn + 1 \in Generation

LEMMA StartIsCalm ==
  ASSUME HandleStart
  PROVE  notices' \in Seq(Calm)
<1>1. {"created", "loading", "ready", "listening"} \subseteq Status
        /\ NoGeneration \in MaybeGeneration
  BY DEF Status, MaybeGeneration
<1> DEFINE t1 == Transition("created", "loading", NoGeneration)
<1> DEFINE t2 == Transition("loading", "ready", NoGeneration)
<1> DEFINE t3 == Transition("ready", "listening", NoGeneration)
<1> DEFINE c == <<SessionCreatedEvent>>
<1> DEFINE r == <<SessionReadyEvent>>
<1>2. t1 \in Seq(Calm) /\ t2 \in Seq(Calm) /\ t3 \in Seq(Calm)
  <2>1. t1 \in Seq(StatusEvents) /\ t2 \in Seq(StatusEvents) /\ t3 \in Seq(StatusEvents)
    BY <1>1, TransitionIs
  <2> HIDE DEF t1, t2, t3
  <2>2. QED BY <2>1, SeqMonotonic DEF Calm
<1>3. c \in Seq(Calm) /\ r \in Seq(Calm)
  <2>1. SessionCreatedEvent \in Calm /\ SessionReadyEvent \in Calm
    BY DEF Calm, PlainEvents, SessionCreatedEvent, SessionReadyEvent, BaseEvent,
           MaybeGeneration
  <2>2. QED BY <2>1
<1>4. notices' = c \o t1 \o t2 \o t3 \o r BY DEF HandleStart
<1> HIDE DEF t1, t2, t3, c, r
<1>5. c \o t1 \in Seq(Calm) BY <1>2, <1>3
<1>6. c \o t1 \o t2 \in Seq(Calm) BY <1>2, <1>5
<1>7. c \o t1 \o t2 \o t3 \in Seq(Calm) BY <1>2, <1>6
<1>8. QED BY <1>3, <1>4, <1>7

LEMMA CalmUnqueued == ASSUME NEW b \in Seq(Calm) PROVE b \in Seq(Unqueued)
  BY CalmIs, SeqMonotonic

\* Audio in the buffer has a number.
LEMMA HeardHasNumber ==
  ASSUME TypeInv, heard # "silence"
  PROVE  turn + 1 \in Generation
<1>1. turn + queued + Holding + Cardinality(AsksIn(up)) + left.append + left.request
        <= MaxAsked
  BY DEF TypeInv, WithinBound
<1>2. Holding = 1 BY DEF Holding
<1>3. QED BY <1>1, <1>2, BoundIs DEF Generation

LEMMA CommitAnnounces ==
  ASSUME TypeInv, NEW events \in Seq(Calm), heard # "silence", Commit(events)
  PROVE  (Quietly \/ Aloud) /\ ScriptStays
<1>1. CASE /\ QueuesUtterances /\ queued' = queued + 1
           /\ notices' = events \o <<TurnQueuedEvent(queued + 1)>>
           /\ UNCHANGED <<status, traced, turn, job, disturbed>>
  BY <1>1 DEF Aloud, ScriptStays
<1>2. CASE /\ ~QueuesUtterances
           /\ notices' = events \o Before \o Queueing(Cleared)
           /\ StartUtterance(Cleared, <<>>)
           /\ Disturbs(Responding, turn + 1)
           /\ UNCHANGED queued
  <2>1. Cleared \in Status /\ Before \in Seq(Unqueued) BY ClearedIs
  <2>2. turn + 1 \in Generation BY HeardHasNumber
  <2>3. Queueing(Cleared) \in Seq(Calm) BY <2>1, <2>2, QueueingIs
  <2>4. events \in Seq(Unqueued) /\ Queueing(Cleared) \in Seq(Unqueued)
    BY <2>3, CalmUnqueued
  <2>5. events \o Before \in Seq(Unqueued) BY <2>1, <2>4
  <2>6. notices' \in Seq(Unqueued) BY <1>2, <2>4, <2>5
  <2>7. job'.script = Utterance(turn + 1) BY <1>2 DEF StartUtterance
  <2>8. QED BY <1>2, <2>2, <2>6, <2>7 DEF Quietly, ScriptStays
<1>3. QED BY <1>1, <1>2 DEF Commit

LEMMA HandleAnnounces ==
  ASSUME TypeInv, Handle
  PROVE  (Quietly \/ Aloud) /\ ScriptStays
<1>1. up # <<>> /\ ~HandlerBusy BY DEF Handle
<1>2. notices = <<>> BY <1>1 DEF HandlerBusy
<1>3. <<>> \in Seq(Unqueued) /\ <<>> \in Seq(Calm) BY EmptySeq
<1>4. CASE HandleStart
  <2>1. notices' \in Seq(Unqueued) BY <1>4, StartIsCalm, CalmUnqueued
  <2>2. QED BY <1>4, <2>1 DEF Quietly, ScriptStays, HandleStart
<1>5. CASE HandleCommit
  <2>1. CASE heard = "silence"
    BY <1>2, <1>3, <1>5, <2>1 DEF HandleCommit, Quietly, ScriptStays
  <2>2. CASE heard # "silence"
    <3>1. Commit(<<>>) BY <1>5, <2>2 DEF HandleCommit
    <3>2. QED BY <1>3, <2>2, <3>1, CommitAnnounces
  <2>3. QED BY <2>1, <2>2
<1>6. CASE HandleAppend
  <2>1. CASE /\ heard' = (IF heard = "speech" THEN "speech" ELSE "noise")
             /\ UNCHANGED <<status, traced, queued, turn, job, notices, disturbed>>
    BY <1>2, <1>3, <2>1 DEF Quietly, ScriptStays
  <2>2. CASE /\ heard # "speech" /\ heard' = "speech"
             /\ notices' = <<VadStateEvent(TRUE, job.gen)>>
             /\ UNCHANGED <<status, traced, queued, turn, job, disturbed>>
    <3>1. notices' \in Seq(Calm) BY <2>2, VadIsCalm, Zenon
    <3>2. notices' \in Seq(Unqueued) BY <3>1, CalmUnqueued
    <3>3. QED BY <2>2, <3>2 DEF Quietly, ScriptStays
  <2>3. CASE heard = "speech" /\ Commit(<<VadStateEvent(FALSE, job.gen)>>)
    <3>1. <<VadStateEvent(FALSE, job.gen)>> \in Seq(Calm) BY VadIsCalm
    <3>2. heard # "silence" BY <2>3
    <3> DEFINE v == <<VadStateEvent(FALSE, job.gen)>>
    <3> HIDE DEF v
    <3>3. v \in Seq(Calm) /\ Commit(v) BY <2>3, <3>1 DEF v
    <3>4. QED BY <3>2, <3>3, CommitAnnounces
  <2>4. QED BY <1>6, <2>1, <2>2, <2>3 DEF HandleAppend
<1>7. CASE HandleStop
  <2>1. notices' \in Seq(Unqueued)
    BY <1>7, ClearedIs, InterruptionIs DEF HandleStop
  <2>2. job'.kind # "utterance" BY <1>7 DEF HandleStop, NoJob
  <2>3. QED BY <1>7, <2>1, <2>2 DEF Quietly, ScriptStays, HandleStop
<1>8. CASE HandleReply
  <2>1. Handled BY <1>1, <1>8, ReplyIsHandled
  <2>2. Head(up) \in {"stop", "reply", "say"} BY <1>8 DEF HandleReply
  <2>3. notices' \in Seq(Unqueued) BY <1>1, <2>1, <2>2, SpeaksOnly DEF Handled
  <2>4. job'.kind # "utterance" BY <1>8 DEF HandleReply
  <2>5. QED BY <1>8, <2>3, <2>4 DEF Quietly, ScriptStays, HandleReply
<1>9. CASE HandleSay
  <2>1. Handled BY <1>1, <1>9, SayIsHandled
  <2>2. Head(up) \in {"stop", "reply", "say"} BY <1>9 DEF HandleSay
  <2>3. notices' \in Seq(Unqueued) BY <1>1, <2>1, <2>2, SpeaksOnly DEF Handled
  <2>4. job'.kind # "utterance" BY <1>9 DEF HandleSay
  <2>5. QED BY <1>9, <2>3, <2>4 DEF Quietly, ScriptStays, HandleSay
<1>10. QED BY <1>4, <1>5, <1>6, <1>7, <1>8, <1>9 DEF Handle

LEMMA HandleQueue ==
  ASSUME TypeInv, QueueInv, Handle
  PROVE  QueueInv'
<1>1. notices = <<>> /\ UNCHANGED <<chain, shown>>
  BY DEF Handle, HandlerBusy, storeVars
<1>2. (Quietly \/ Aloud) /\ ScriptStays BY HandleAnnounces
<1>3. queued > 0 => \E f : Foretold(f, chain, shown.queue, queued)
  BY <1>1 DEF QueueInv, Announced
<1>4. job'.kind = "utterance" =>
        ClosedLast(job'.script) /\ MeasuredWhile(job'.script, status')
  <2> SUFFICES ASSUME job'.kind = "utterance"
               PROVE  ClosedLast(job'.script) /\ MeasuredWhile(job'.script, status')
    OBVIOUS
  <2>1. CASE job'.script = Utterance(turn + 1) /\ turn + 1 \in Generation
    BY <2>1, UtteranceCloses
  <2>2. CASE job' = job /\ status' \in {status, Started(status)}
    <3>1. ClosedLast(job.script) /\ MeasuredWhile(job.script, status)
      BY <2>2 DEF QueueInv
    <3>2. status = "listening" => status' = "listening" BY <2>2, StartedListens
    <3>3. QED BY <2>2, <3>1, <3>2 DEF MeasuredWhile
  <2>3. QED BY <1>2, <2>1, <2>2 DEF ScriptStays
<1>5. CASE Quietly
  <2>1. \A i \in DOMAIN notices' : notices'[i].type # "turn.queued"
    <3>1. \A i \in DOMAIN notices' : notices'[i] \in Unqueued BY <1>5 DEF Quietly
    <3>2. QED BY <3>1, UnqueuedIs
  <2>2. queued' > 0 => \E f : Foretold(f, chain', shown'.queue, queued')
    BY <1>1, <1>3, <1>5 DEF Quietly
  <2>3. QED BY <1>4, <2>1, <2>2 DEF QueueInv
<1>6. CASE Aloud
  <2>1. PICK events \in Seq(Calm) : notices' = events \o <<TurnQueuedEvent(queued + 1)>>
    BY <1>6 DEF Aloud
  <2> DEFINE e == TurnQueuedEvent(queued + 1)
  <2> DEFINE m == <<e>>
  <2>2. /\ e \in QueueEvents /\ e.type = "turn.queued" /\ e.queue_size = queued + 1
    BY BoundIs DEF TurnQueuedEvent, QueueEvents
  <2>3. e \in Under
    BY <2>2 DEF Under, Notices
  <2>4. m \in Seq(Under) /\ Len(m) = 1 /\ m[1] = e BY <2>3
  <2>5. events \in Seq(Under) /\ \A i \in DOMAIN events : events[i].type # "turn.queued"
    <3>1. events \in Seq(Unqueued) BY CalmUnqueued
    <3>2. \A i \in DOMAIN events : events[i] \in Unqueued BY <3>1
    <3>3. Unqueued \subseteq Under BY CalmIs
    <3>4. events \in Seq(Under) BY <3>1, <3>3, SeqMonotonic
    <3>5. QED BY <3>2, <3>4, UnqueuedIs
  <2>6. notices' = events \o m BY <2>1
  <2> HIDE DEF e, m
  <2>7. /\ Len(events) \in Nat /\ Len(notices') = Len(events) + 1
        /\ \A i \in 1..Len(events) : notices'[i] = events[i]
        /\ notices' \in Seq(Under)
    <3>1. /\ events \o m \in Seq(Under) /\ Len(events) \in Nat /\ Len(m) \in Nat
          /\ Len(events \o m) = Len(events) + Len(m)
          /\ \A i \in 1..Len(events) : (events \o m)[i] = events[i]
      BY <2>4, <2>5, ChainGrows
    <3>2. Len(events \o m) = Len(events) + 1 BY <2>4, <3>1
    <3>3. QED BY <2>6, <3>1, <3>2
  <2>8. notices'[Len(notices')] = e
    <3>1. \A i \in 1..Len(m) : (events \o m)[i + Len(events)] = m[i]
      BY <2>4, <2>5, ChainGrows
    <3>2. 1 \in 1..Len(m) BY <2>4
    <3>3. (events \o m)[1 + Len(events)] = m[1] BY <3>1, <3>2
    <3> DEFINE L == Len(events)
    <3>4. L \in Nat /\ Len(notices') = L + 1 /\ notices'[1 + L] = m[1]
      BY <2>6, <2>7, <3>3
    <3> HIDE DEF L
    <3>5. Len(notices') = 1 + L BY <3>4
    <3>6. QED BY <2>4, <3>4, <3>5
  <2>9. \A i \in DOMAIN notices' : notices'[i].type = "turn.queued" =>
          i = Len(notices') /\ notices'[i].queue_size >= queued'
    <3> SUFFICES ASSUME NEW i \in DOMAIN notices', notices'[i].type = "turn.queued"
                 PROVE  i = Len(notices') /\ notices'[i].queue_size >= queued'
      OBVIOUS
    <3>1. DOMAIN notices' = 1..Len(notices') /\ DOMAIN events = 1..Len(events)
      BY <2>5, <2>7
    <3>2. i = Len(notices')
      <4>1. CASE i <= Len(events)
        <5>1. i \in 1..Len(events) BY <2>7, <3>1, <4>1
        <5>2. notices'[i] = events[i] /\ i \in DOMAIN events BY <2>7, <3>1, <5>1
        <5>3. QED BY <2>5, <5>2
      <4>2. CASE ~(i <= Len(events)) BY <2>7, <3>1, <4>2
      <4>3. QED BY <4>1, <4>2
    <3>3. QED BY <1>6, <2>2, <2>8, <3>2, BoundIs DEF Aloud
  <2>10. Announced'
    <3>1. Len(notices') \in DOMAIN notices'
      <4>1. DOMAIN notices' = 1..Len(notices') BY <2>7
      <4>2. QED BY <2>7, <4>1
    <3>2. QED BY <2>2, <2>8, <3>1 DEF Announced
  <2>11. QED BY <1>4, <2>9, <2>10 DEF QueueInv
<1>7. QED BY <1>2, <1>5, <1>6

\* What waits under the enqueue policy, and what the counts are.
LEMMA WaitingIs ==
  ASSUME TypeInv
  PROVE  /\ shown.queue \in Nat /\ queued \in Nat /\ chain \in Seq(Under)
         /\ queued > 0 => /\ notices \in Seq(Calm \cup QueueEvents)
                          /\ job.kind # "none" => job.kind = "utterance"
<1>1. shown.queue \in Nat /\ queued \in Nat /\ chain \in Seq(Under)
  BY BoundIs, FlagsAre DEF VoiceSessionState, TypeInv
<1>2. queued > 0 => left.policy = "enqueue"
  BY <1>1, PolicyIs DEF TypeInv
<1>3. left.policy = "enqueue" =>
        notices \in Seq(Calm \cup QueueEvents) /\ (job.kind # "none" => job.kind = "utterance")
  BY PolicyIs DEF TypeInv, TasksOf
<1>4. QED BY <1>1, <1>2, <1>3

\* Nothing that is counted changes.
LEMMA QueueStays ==
  ASSUME QueueInv, UNCHANGED <<notices, queued, job, status, chain>>,
         shown'.queue = shown.queue
  PROVE  QueueInv'
  BY DEF QueueInv, Announced

\* A handler's events, cut in two: those sent and those left.
LEMMA NoticesCut ==
  ASSUME NEW S, notices \in Seq(S), NEW n \in 1..Len(notices)
  PROVE  /\ SubSeq(notices, 1, n) \in Seq(S) /\ Len(SubSeq(notices, 1, n)) = n
         /\ \A i \in 1..n : SubSeq(notices, 1, n)[i] = notices[i]
         /\ SubSeq(notices, n + 1, Len(notices)) \in Seq(S)
         /\ Len(SubSeq(notices, n + 1, Len(notices))) = Len(notices) - n
         /\ \A i \in 1..Len(notices) - n :
              SubSeq(notices, n + 1, Len(notices))[i] = notices[i + n]
<1> DEFINE L == Len(notices)
<1>1. L \in Nat /\ \A i \in 1..L : notices[i] \in S OBVIOUS
<1> DEFINE a == SubSeq(notices, 1, n)
<1> DEFINE b == SubSeq(notices, n + 1, L)
<1>2. /\ a \in Seq(S) /\ Len(a) = (IF 1 <= n THEN n - 1 + 1 ELSE 0)
      /\ \A i \in 1..n - 1 + 1 : a[i] = notices[1 + i - 1]
  <2>1. 1 \in Int /\ n \in Int /\ \A i \in 1..n : notices[i] \in S BY <1>1
  <2>2. QED BY <2>1, SubSeqProperties
<1>3. /\ b \in Seq(S) /\ Len(b) = (IF n + 1 <= L THEN L - (n + 1) + 1 ELSE 0)
      /\ \A i \in 1..L - (n + 1) + 1 : b[i] = notices[n + 1 + i - 1]
  <2>1. n + 1 \in Int /\ L \in Int /\ \A i \in n + 1..L : notices[i] \in S BY <1>1
  <2> HIDE DEF L
  <2>2. QED BY <2>1, SubSeqProperties
<1>4. n \in 1..L OBVIOUS
<1> HIDE DEF a, b, L
<1>5. Len(a) = n /\ \A i \in 1..n : a[i] = notices[i] BY <1>1, <1>2, <1>4
<1>6. Len(b) = L - n BY <1>1, <1>3, <1>4
<1>7. \A i \in 1..L - n : b[i] = notices[i + n]
  <2> SUFFICES ASSUME NEW i \in 1..L - n PROVE b[i] = notices[i + n] OBVIOUS
  <2>1. i \in 1..L - (n + 1) + 1 /\ n + 1 + i - 1 = i + n BY <1>1, <1>4
  <2>2. QED BY <1>3, <2>1
<1>8. QED BY <1>2, <1>3, <1>5, <1>6, <1>7 DEF a, b, L

LEMMA SendNoticeQueue ==
  ASSUME TypeInv, QueueInv, SendNotice
  PROVE  QueueInv'
<1> DEFINE n == IF job = NoJob THEN Len(notices) ELSE 1
<1> DEFINE m == SubSeq(notices, 1, n)
<1> DEFINE b == SubSeq(notices, n + 1, Len(notices))
<1> DEFINE L == Len(notices)
<1>1. /\ chain' = chain \o m /\ notices' = b
      /\ job'.script = job.script /\ job'.kind = job.kind
      /\ status' = status /\ queued' = queued /\ shown' = shown
  <2>1. /\ chain' = chain \o m /\ notices' = b
        /\ job' = [job EXCEPT !.ahead = @ /\ job.lead # <<>>]
        /\ status' = status /\ queued' = queued /\ shown' = shown
    BY DEF SendNotice, Sends, storeVars
  <2> HIDE DEF m, b
  <2>2. job'.script = job.script /\ job'.kind = job.kind BY <2>1 DEF TypeInv, JobIs
  <2>3. QED BY <2>1, <2>2
<1>2. /\ notices \in Seq(Under) /\ notices # <<>>
      /\ queued > 0 => notices \in Seq(Calm \cup QueueEvents)
  <2>1. NoticesOf(left.policy) \subseteq Under BY CalmIs, PolicyIs DEF Notices, Under
  <2>2. notices \in Seq(NoticesOf(left.policy)) BY DEF TypeInv
  <2>3. notices \in Seq(Under) BY <2>1, <2>2, SeqMonotonic
  <2>4. QED BY <2>3, WaitingIs DEF SendNotice
<1>3. L \in Nat /\ L # 0 BY <1>2, EmptySeq
<1>4. n \in 1..L BY <1>3
<1> HIDE DEF n
<1>5. /\ m \in Seq(Under) /\ Len(m) = n /\ \A i \in 1..n : m[i] = notices[i]
      /\ b \in Seq(Under) /\ Len(b) = L - n
      /\ \A i \in 1..L - n : b[i] = notices[i + n]
  BY <1>2, <1>4, NoticesCut
<1>6. DOMAIN notices = 1..L /\ DOMAIN m = 1..n /\ DOMAIN b = 1..L - n
  <2>1. DOMAIN notices = 1..L BY <1>2
  <2> HIDE DEF m, b, L
  <2>2. DOMAIN m = 1..n /\ DOMAIN b = 1..L - n BY <1>5
  <2>3. QED BY <2>1, <2>2
<1>7. \A i \in 1..L : notices[i].type = "turn.queued" =>
        i = L /\ notices[i].queue_size >= queued
  BY <1>6 DEF QueueInv
<1>8. \A i \in 1..L : queued > 0 /\ notices[i].type # "turn.queued" => Neutral(notices[i])
  <2> SUFFICES ASSUME NEW i \in 1..L, queued > 0, notices[i].type # "turn.queued"
               PROVE  Neutral(notices[i])
    OBVIOUS
  <2>1. notices[i] \in Calm \cup QueueEvents BY <1>2, <1>6
  <2>2. QED BY <2>1, UnqueuedIs
<1> HIDE DEF m, b
<1>9. \A i \in DOMAIN notices' : notices'[i].type = "turn.queued" =>
        i = Len(notices') /\ notices'[i].queue_size >= queued'
  <2> SUFFICES ASSUME NEW i \in DOMAIN b, b[i].type = "turn.queued"
               PROVE  i = Len(b) /\ b[i].queue_size >= queued
    BY <1>1
  <2>1. i \in 1..L - n /\ i + n \in 1..L BY <1>3, <1>4, <1>6
  <2>2. b[i] = notices[i + n] BY <1>5, <2>1
  <2>3. i + n = L /\ notices[i + n].queue_size >= queued BY <1>7, <2>1, <2>2
  <2>4. i = L - n BY <1>3, <1>4, <2>1, <2>3
  <2>5. QED BY <1>5, <2>2, <2>3, <2>4
<1> HIDE DEF L
<1>10. ASSUME queued > 0 PROVE Announced' \/ \E f : Foretold(f, chain', shown.queue, queued)
  <2>1. CASE ~Announced
    <3>1. \A i \in DOMAIN m : Neutral(m[i])
      <4> SUFFICES ASSUME NEW i \in DOMAIN m PROVE Neutral(m[i]) OBVIOUS
      <4>1. i \in 1..n /\ i \in 1..L BY <1>3, <1>4, <1>6
      <4>2. m[i] = notices[i] BY <1>5, <4>1
      <4>3. notices[i].type # "turn.queued" BY <1>6, <2>1, <4>1 DEF Announced
      <4>4. QED BY <1>8, <1>10, <4>1, <4>2, <4>3
    <3>2. PICK f : Foretold(f, chain, shown.queue, queued) BY <1>10, <2>1 DEF QueueInv
    <3>3. \E g : Foretold(g, chain \o m, shown.queue, queued)
      BY <1>5, <3>1, <3>2, WaitingIs, ForetoldMore
    <3>4. QED BY <1>1, <3>3
  <2>2. CASE Announced /\ n < L
    <3>1. PICK i \in 1..L : notices[i].type = "turn.queued" BY <1>6, <2>2 DEF Announced
    <3>2. i = L BY <1>7, <3>1
    <3>3. L - n \in 1..L - n /\ L - n + n = L BY <1>3, <1>4, <2>2
    <3>4. b[L - n] = notices[L] BY <1>5, <3>3
    <3>5. L - n \in DOMAIN notices' /\ notices'[L - n].type = "turn.queued"
      BY <1>1, <1>6, <3>1, <3>2, <3>3, <3>4
    <3>6. QED BY <3>5 DEF Announced
  <2>3. CASE Announced /\ n = L
    <3>1. PICK i \in 1..L : notices[i].type = "turn.queued" BY <1>6, <2>3 DEF Announced
    <3>2. i = L /\ notices[i].queue_size >= queued BY <1>7, <3>1
    <3>3. n \in 1..n BY <1>3, <1>4
    <3>4. m[Len(m)] = notices[L] BY <1>5, <2>3, <3>3
    <3>5. m # <<>>
      <4>1. Len(m) # 0 BY <1>3, <1>5, <2>3
      <4>2. QED BY <4>1
    <3>6. m[Len(m)].type = "turn.queued" /\ m[Len(m)].queue_size >= queued
      BY <3>1, <3>2, <3>4
    <3>7. \E g : Foretold(g, chain \o m, shown.queue, queued)
      BY <1>5, <3>5, <3>6, WaitingIs, ForetoldQueued
    <3>8. QED BY <1>1, <3>7
  <2>4. n < L \/ n = L BY <1>3, <1>4
  <2>5. QED BY <2>1, <2>2, <2>3, <2>4
<1>11. job'.kind = "utterance" =>
         ClosedLast(job'.script) /\ MeasuredWhile(job'.script, status')
  BY <1>1 DEF QueueInv
<1>12. queued' > 0 => Announced' \/ \E f : Foretold(f, chain', shown'.queue, queued')
  BY <1>1, <1>10
<1>13. QED BY <1>9, <1>11, <1>12 DEF QueueInv

LEMMA SendLeadQueue ==
  ASSUME TypeInv, QueueInv, SendLead
  PROVE  QueueInv'
<1> DEFINE m == <<Head(job.lead)>>
<1>1. /\ job.lead # <<>> /\ chain' = chain \o m
      /\ job' = [job EXCEPT !.lead = Tail(@), !.ahead = FALSE]
      /\ status' = status /\ queued' = queued /\ shown' = shown /\ notices' = notices
  BY DEF SendLead, Sends, storeVars
<1> HIDE DEF m
<1>2. job'.script = job.script /\ job'.kind = job.kind /\ job.lead \in Seq(Calm)
  BY <1>1 DEF TypeInv, JobIs
<1>3. m \in Seq(Under) /\ \A i \in DOMAIN m : Neutral(m[i])
  <2> DEFINE e == Head(job.lead)
  <2>1. e \in Calm BY <1>1, <1>2
  <2>2. e \in Under /\ Neutral(e) BY <2>1, CalmIs, UnqueuedIs
  <2>3. m = <<e>> BY DEF m
  <2> HIDE DEF e
  <2>4. QED BY <2>2, <2>3
<1>4. queued > 0 => Announced \/ \E f : Foretold(f, chain', shown.queue, queued)
  <2> SUFFICES ASSUME queued > 0, ~Announced
               PROVE  \E f : Foretold(f, chain', shown.queue, queued)
    OBVIOUS
  <2>1. PICK f : Foretold(f, chain, shown.queue, queued) BY DEF QueueInv
  <2>2. \E g : Foretold(g, chain \o m, shown.queue, queued)
    BY <1>3, <2>1, WaitingIs, ForetoldMore
  <2>3. QED BY <1>1, <2>2
<1>5. Announced' = Announced BY <1>1 DEF Announced
<1>6. \A i \in DOMAIN notices' : notices'[i].type = "turn.queued" =>
        i = Len(notices') /\ notices'[i].queue_size >= queued'
  BY <1>1 DEF QueueInv
<1>7. job'.kind = "utterance" =>
         ClosedLast(job'.script) /\ MeasuredWhile(job'.script, status')
  BY <1>1, <1>2 DEF QueueInv
<1>8. queued' > 0 => Announced' \/ \E f : Foretold(f, chain', shown'.queue, queued')
  BY <1>1, <1>4, <1>5
<1>9. QED BY <1>6, <1>7, <1>8 DEF QueueInv

\* An announcement belongs to no generation.
LEMMA QueuedIs ==
  ASSUME NEW e \in Under, e.type = "turn.queued"
  PROVE  e.gen = NoGeneration
<1>1. e \in QueueEvents => e.gen = NoGeneration BY DEF QueueEvents
<1>2. e \notin StatusEvents \cup VadEvents \cup SttEvents \cup MetricsEvents
  BY DEF StatusEvents, VadEvents, SttEvents, MetricsEvents
<1>3. e \notin PlainEvents(NoticePlain) \cup PlainEvents(ScriptPlain) \cup ToldEvents
  BY DEF PlainEvents, NoticePlain, ScriptPlain, ToldEvents, ToldTypes
<1>4. QED BY <1>1, <1>2, <1>3 DEF Under, Notices, TaskEvents

\* How many wait, and what is left to do, when a task has gone on.
LEMMA GoOnQueue ==
  ASSUME TypeInv, NEW rest \in Seq(Items), NEW s, NEW t, NEW y, GoOn(rest, s, t, y)
  PROVE  /\ \/ queued' = queued
            \/ queued' = queued - 1 /\ queued > 0
         /\ rest = <<>> /\ job.kind = "utterance" /\ queued > 0 /\ s = "listening" =>
              queued' = queued - 1
         /\ \/ job' = NoJob
            \/ job'.script = rest /\ job'.kind = job.kind /\ status' = s
            \/ job'.script = Utterance(turn + 1)
<1>1. CASE rest = <<>> /\ job.kind = "utterance" /\ queued > 0 /\ s = "listening"
  <2>1. StartUtterance(s, Queueing(s)) /\ queued' = queued - 1 BY <1>1 DEF GoOn
  <2>2. job'.script = Utterance(turn + 1) BY <2>1 DEF StartUtterance
  <2>3. QED BY <1>1, <2>1, <2>2
<1>2. CASE ~(rest = <<>> /\ job.kind = "utterance" /\ queued > 0 /\ s = "listening")
  <2>1. /\ job' = IF rest = <<>> THEN NoJob
                  ELSE [job EXCEPT !.script = rest, !.ahead = y]
        /\ status' = s /\ queued' = queued
    BY <1>2 DEF GoOn
  <2>2. CASE rest = <<>> BY <1>2, <2>1, <2>2
  <2>3. CASE rest # <<>>
    <3>1. job'.script = rest /\ job'.kind = job.kind
      BY <2>1, <2>3 DEF TypeInv, JobIs
    <3>2. QED BY <1>2, <2>1, <3>1
  <2>4. QED BY <2>2, <2>3
<1>3. QED BY <1>1, <1>2

LEMMA WorkQueue ==
  ASSUME TypeInv, QueueInv, Work
  PROVE  QueueInv'
<1>1. PICK x : \E s \in Status, t \in BOOLEAN, y \in BOOLEAN : WorkStep(x, s, t, y)
  BY WorkIs
<1>2. PICK s \in Status, t \in BOOLEAN, y \in BOOLEAN : WorkStep(x, s, t, y) BY <1>1
<1>3. notices' = notices /\ shown' = shown /\ UNCHANGED <<heard, up, left>>
  BY DEF Work, storeVars
<1>4. /\ job.kind # "none" /\ turn \in Generation /\ job.gen = turn
      /\ ScriptOK(job.script, turn)
  BY WorkIs
<1>5. /\ x \in Unfolded(job.script, job.gen, status) /\ Tail(x) \in Seq(Items)
      /\ UnfoldOK(x, job.script, turn) /\ Tail(x) # <<>> => ScriptOK(Tail(x), turn)
      /\ GoOn(Tail(x), s, t, y)
      /\ \/ /\ x[1] \in StepItems /\ UNCHANGED chain
            /\ s = IF x[1].type = "becomes" THEN x[1].status ELSE status
         \/ /\ x[1] \in TaskEvents /\ s = status /\ chain' = chain \o <<x[1]>>
  BY <1>2 DEF WorkStep
<1>6. x \in Seq(Items) /\ x # <<>> BY <1>5 DEF UnfoldOK
<1>7. s = IF x[1].type = "becomes" THEN x[1].status ELSE status
  <2>1. x[1] \in TaskEvents => x[1].type # "becomes" BY UnderIs DEF Under, Step
  <2>2. QED BY <1>5, <2>1
<1>8. job.script \in Seq(Items) /\ job.script # <<>> /\ status \in Status
  BY DEF TypeInv, TypeOK, JobIs, Work
<1>9. job.kind = "utterance" =>
        /\ x[1].type = "turn.metrics" => status = "listening" /\ Tail(x) = <<>>
        /\ ClosedLast(Tail(x)) /\ MeasuredWhile(Tail(x), s)
  <2> SUFFICES ASSUME job.kind = "utterance"
               PROVE  /\ x[1].type = "turn.metrics" => status = "listening" /\ Tail(x) = <<>>
                      /\ ClosedLast(Tail(x)) /\ MeasuredWhile(Tail(x), s)
    OBVIOUS
  <2>1. ClosedLast(job.script) /\ MeasuredWhile(job.script, status) BY DEF QueueInv
  <2>2. QED BY <1>4, <1>5, <1>6, <1>7, <1>8, <2>1, UnfoldedCloses
<1>10. /\ \/ queued' = queued
          \/ queued' = queued - 1 /\ queued > 0
       /\ Tail(x) = <<>> /\ job.kind = "utterance" /\ queued > 0 /\ s = "listening" =>
            queued' = queued - 1
       /\ \/ job' = NoJob
          \/ job'.script = Tail(x) /\ job'.kind = job.kind /\ status' = s
          \/ job'.script = Utterance(turn + 1)
  BY <1>5, GoOnQueue
<1>11. shown.queue \in Nat /\ queued \in Nat /\ chain \in Seq(Under)
         /\ (queued > 0 => job.kind = "utterance")
  BY <1>4, WaitingIs
<1>12. queued' \in Nat /\ queued' <= queued BY <1>10, <1>11
<1>13. job'.kind = "utterance" =>
         ClosedLast(job'.script) /\ MeasuredWhile(job'.script, status')
  <2>1. CASE job' = NoJob BY <2>1 DEF NoJob
  <2>2. CASE job'.script = Tail(x) /\ job'.kind = job.kind /\ status' = s
    BY <1>9, <2>2
  <2>3. CASE job'.script = Utterance(turn + 1)
    BY <2>3, UtteranceCloses
  <2>4. QED BY <1>10, <2>1, <2>2, <2>3
<1>14. ASSUME queued' > 0, ~Announced
       PROVE  \E f : Foretold(f, chain', shown.queue, queued')
  <2>1. queued > 0 BY <1>11, <1>12, <1>14
  <2>2. PICK f : Foretold(f, chain, shown.queue, queued) BY <1>14, <2>1 DEF QueueInv
  <2>3. CASE UNCHANGED chain
    <3>1. Foretold(f, chain, shown.queue, queued') BY <1>11, <1>12, <2>2, ForetoldLess
    <3>2. QED BY <2>3, <3>1
  <2>4. CASE x[1] \in TaskEvents /\ s = status /\ chain' = chain \o <<x[1]>>
    <3> DEFINE e == x[1]
    <3>1. e \in Under BY <2>4, CalmIs
    <3>2. CASE e.type = "turn.metrics"
      <4>1. queued' = queued - 1 BY <1>9, <1>10, <1>11, <2>1, <2>4, <3>2
      <4>2. \E g : Foretold(g, chain \o <<e>>, shown.queue, queued - 1)
        <5> HIDE DEF e
        <5>1. QED BY <1>11, <2>1, <2>2, <3>1, <3>2, ForetoldMeasured
      <4>3. QED BY <2>4, <4>1, <4>2
    <3>3. CASE e.type # "turn.metrics"
      <4>1. Neutral(e) BY <2>4, <3>3, UnqueuedIs
      <4> DEFINE m == <<e>>
      <4>2. m \in Seq(Under) /\ \A i \in DOMAIN m : Neutral(m[i])
        <5> HIDE DEF e
        <5>1. QED BY <3>1, <4>1
      <4> HIDE DEF m
      <4>3. PICK g : Foretold(g, chain \o m, shown.queue, queued)
        BY <1>11, <2>2, <4>2, ForetoldMore
      <4>4. chain' = chain \o m BY <2>4 DEF m
      <4>5. Foretold(g, chain', shown.queue, queued) /\ chain' \in Seq(Under)
        <5>1. chain \o m \in Seq(Under) BY <1>11, <4>2
        <5>2. QED BY <4>3, <4>4, <5>1
      <4>6. Foretold(g, chain', shown.queue, queued') BY <1>11, <1>12, <4>5, ForetoldLess
      <4>7. QED BY <4>6
    <3>4. QED BY <3>2, <3>3
  <2>5. QED BY <1>5, <2>3, <2>4
<1>15. \A i \in DOMAIN notices' : notices'[i].type = "turn.queued" =>
         i = Len(notices') /\ notices'[i].queue_size >= queued'
  <2> SUFFICES ASSUME NEW i \in DOMAIN notices, notices[i].type = "turn.queued"
               PROVE  i = Len(notices) /\ notices[i].queue_size >= queued'
    BY <1>3
  <2>1. i = Len(notices) /\ notices[i].queue_size >= queued BY DEF QueueInv
  <2>2. notices[i].queue_size \in Nat
    <3>1. NoticesOf(left.policy) \subseteq Under BY CalmIs, PolicyIs DEF Notices, Under
    <3>2. notices[i] \in Under BY <3>1 DEF TypeInv
    <3>3. QED BY <3>2, UnderIs
  <2>3. QED BY <1>11, <1>12, <2>1, <2>2
<1>16. Announced' = Announced BY <1>3 DEF Announced
<1>17. QED BY <1>3, <1>13, <1>14, <1>15, <1>16 DEF QueueInv

\* The next event of the sequencer, counted or refused; the gate refuses none
\* that announces.
LEMMA ApplyQueue ==
  ASSUME TypeInv, QueueInv, Apply
  PROVE  QueueInv'
<1> DEFINE e == chain[1]
<1>1. /\ e \in Under /\ 1 \in DOMAIN chain /\ Applied(e)
      /\ Len(chain') = Len(chain) - 1 /\ chain' \in Seq(Under)
      /\ \A i \in DOMAIN chain' :
           i \in Nat /\ i + 1 \in DOMAIN chain /\ chain'[i] = chain[i + 1]
      /\ UNCHANGED <<status, queued, job, notices>>
  BY ApplyIs DEF workerVars
<1>2. /\ shown.queue \in Nat /\ queued \in Nat /\ chain \in Seq(Under)
      /\ shown \in VoiceSessionState
  BY WaitingIs, FlagsAre
<1>3. ShouldAccept(owner, Gated(e)) => shown'.queue = QueueAfter(shown.queue, e)
  <2> SUFFICES ASSUME ShouldAccept(owner, Gated(e))
               PROVE  shown'.queue = QueueAfter(shown.queue, e)
    OBVIOUS
  <2> HIDE DEF e
  <2>1. shown' = reduceVoiceSessionEvent(shown, e) BY <1>1 DEF Applied
  <2>2. ReducedOK(shown, e, reduceVoiceSessionEvent(shown, e))
    BY <1>1, <1>2, ReduceTells
  <2>3. QED BY <2>1, <2>2 DEF ReducedOK
<1>4. ~ShouldAccept(owner, Gated(e)) => shown' = shown /\ e.type # "turn.queued"
  <2>1. e.type = "turn.queued" => e.gen = NoGeneration BY <1>1, QueuedIs
  <2>2. Gated(e).gen = e.gen BY DEF Gated
  <2>3. e.type = "turn.queued" => ShouldAccept(owner, Gated(e))
    BY <2>1, <2>2 DEF ShouldAccept
  <2>4. QED BY <1>1, <2>3 DEF Applied
<1> HIDE DEF e
<1>5. shown'.queue \in Nat /\ (\/ shown'.queue >= QueueAfter(shown.queue, e)
                               \/ shown'.queue = shown.queue /\ e.type # "turn.queued")
  <2>1. QueueAfter(shown.queue, e) \in Nat BY <1>1, <1>2, CountsAre
  <2>2. QED BY <1>2, <1>3, <1>4, <2>1
<1>6. ASSUME queued > 0, ~Announced PROVE \E g : Foretold(g, chain', shown'.queue, queued)
  <2>1. PICK f : Foretold(f, chain, shown.queue, queued) BY <1>6 DEF QueueInv
  <2> DEFINE c == chain
  <2> DEFINE b == chain'
  <2> DEFINE r == shown'.queue
  <2>2. /\ c \in Seq(Under) /\ b \in Seq(Under) /\ 1 \in DOMAIN c /\ Len(b) = Len(c) - 1
        /\ \A i \in DOMAIN b : i \in Nat /\ i + 1 \in DOMAIN c /\ b[i] = c[i + 1]
        /\ r \in Nat
        /\ r >= QueueAfter(shown.queue, c[1]) \/ (r = shown.queue /\ c[1].type # "turn.queued")
        /\ Foretold(f, c, shown.queue, queued)
    BY <1>1, <1>2, <1>5, <2>1 DEF e
  <2> HIDE DEF b, c, r
  <2>3. \E g : Foretold(g, b, r, queued) BY <1>2, <2>2, ForetoldNext
  <2>4. QED BY <2>3 DEF b, r
<1>7. Announced' = Announced BY <1>1 DEF Announced
<1>8. /\ \A i \in DOMAIN notices' : notices'[i].type = "turn.queued" =>
           i = Len(notices') /\ notices'[i].queue_size >= queued'
      /\ job'.kind = "utterance" =>
           ClosedLast(job'.script) /\ MeasuredWhile(job'.script, status')
  BY <1>1 DEF QueueInv
<1>9. queued' > 0 => Announced' \/ \E f : Foretold(f, chain', shown'.queue, queued')
  BY <1>1, <1>6, <1>7
<1>10. QED BY <1>8, <1>9 DEF QueueInv

LEMMA NextQueue == TypeInv /\ QueueInv /\ [Next]_vars => QueueInv'
<1> SUFFICES ASSUME TypeInv, QueueInv, [Next]_vars PROVE QueueInv' OBVIOUS
<1>1. ASSUME UNCHANGED <<workerVars, chain>>, shown'.queue = shown.queue
      PROVE  QueueInv'
  BY <1>1, QueueStays DEF workerVars
<1>2. ASSUME NEW how, Ends(how) PROVE QueueInv'
  <2>1. queued' = 0 /\ notices' = <<>> /\ job'.kind = "none" BY <1>2 DEF Ends, NoJob
  <2>2. QED BY <2>1 DEF QueueInv
<1>3. CASE Attach BY <1>1, <1>3 DEF Attach, storeVars
<1>4. CASE AppendAudio BY <1>1, <1>4 DEF AppendAudio, storeVars
<1>5. CASE CommitAudio
  <2>1. PICK late \in BOOLEAN :
          Dispatch(reduceVoiceSessionOutboundMessage(shown, "commit", late))
    BY <1>5 DEF CommitAudio
  <2>2. shown'.queue = shown.queue BY <2>1, FlagsAre, OutboundType DEF Dispatch
  <2>3. QED BY <1>1, <1>5, <2>2 DEF CommitAudio
<1>6. CASE Interrupt BY <1>1, <1>6 DEF Interrupt, storeVars
<1>7. CASE Request BY <1>1, <1>7 DEF Request, storeVars
<1>8. CASE Tick
  <2>1. PICK n \in shown.pending.elapsed .. 3 :
          Dispatch(reduceVoiceSessionClockTick(shown, n))
    BY <1>8 DEF Tick
  <2>2. n \in 0..3 BY FlagsAre DEF VoiceSessionState
  <2>3. shown'.queue = shown.queue BY <2>1, <2>2, FlagsAre, TickIs DEF Dispatch
  <2>4. QED BY <1>1, <1>8, <2>3 DEF Tick
<1>9. CASE Drop BY <1>2, <1>9 DEF Drop
<1>10. CASE Close BY <1>2, <1>10 DEF Close
<1>11. CASE UNCHANGED vars BY <1>1, <1>11 DEF vars, storeVars
<1>12. QED
  BY <1>3, <1>4, <1>5, <1>6, <1>7, <1>8, <1>9, <1>10, <1>11, HandleQueue,
     SendNoticeQueue, SendLeadQueue, WorkQueue, ApplyQueue
  DEF Next

-----------------------------------------------------------------------------
(* The clock of the pending turn, and the theorems.                        *)

\* The clock runs when a turn is pending; also beyond the end of the session,
\* for what is still in the sequencer.
ClockInv == clock = (shown.pending.phase # "idle")

LEMMA InitClockInv == Init => ClockInv
<1> SUFFICES ASSUME Init PROVE ClockInv OBVIOUS
<1>1. clock = FALSE /\ shown.pending.phase = "idle"
  BY DEF Init, createVoiceSessionState, NoPending
<1>2. QED BY <1>1 DEF ClockInv

LEMMA NextClock == TypeInv /\ ClockInv /\ [Next]_vars => ClockInv'
<1> SUFFICES ASSUME TypeInv, ClockInv, [Next]_vars PROVE ClockInv' OBVIOUS
<1>1. ASSUME UNCHANGED storeVars PROVE ClockInv'
  BY <1>1 DEF storeVars, ClockInv
<1>2. ASSUME NEW s, Dispatch(s) PROVE ClockInv'
  BY <1>2 DEF Dispatch, ensurePendingTurnClock, ClockInv
<1>3. CASE Handle BY <1>1, <1>3 DEF Handle
<1>4. CASE SendNotice BY <1>1, <1>4 DEF SendNotice
<1>5. CASE SendLead BY <1>1, <1>5 DEF SendLead
<1>6. CASE Work BY <1>1, <1>6 DEF Work
<1>7. CASE Attach BY <1>1, <1>7 DEF Attach
<1>8. CASE AppendAudio BY <1>1, <1>8 DEF AppendAudio
<1>9. CASE CommitAudio
  <2>1. PICK late \in BOOLEAN :
          Dispatch(reduceVoiceSessionOutboundMessage(shown, "commit", late))
    BY <1>9 DEF CommitAudio
  <2>2. QED BY <1>2, <2>1
<1>10. CASE Interrupt BY <1>1, <1>10 DEF Interrupt
<1>11. CASE Request BY <1>1, <1>11 DEF Request
<1>12. CASE Tick
  <2>1. PICK n \in shown.pending.elapsed .. 3 :
          Dispatch(reduceVoiceSessionClockTick(shown, n))
    BY <1>12 DEF Tick
  <2>2. QED BY <1>2, <2>1
<1>13. CASE Drop
  BY <1>13 DEF Drop, Ends, ClockInv
<1>14. CASE Close
  <2>1. clock' = (shown.pending.phase # "idle") /\ shown' = shown
    BY <1>14 DEF Close, Ends, ensurePendingTurnClock
  <2>2. QED BY <2>1 DEF ClockInv
<1>15. CASE Apply
  <2>1. PICK i \in NextInChain :
          IF ShouldAccept(owner, Gated(chain[i]))
            THEN Dispatch(reduceVoiceSessionEvent(shown, chain[i]))
            ELSE UNCHANGED storeVars
    BY <1>15 DEF Apply
  <2> DEFINE r == reduceVoiceSessionEvent(shown, chain[i])
  <2>2. Dispatch(r) \/ UNCHANGED storeVars BY <2>1
  <2> HIDE DEF r
  <2>3. QED BY <1>1, <1>2, <2>2
<1>16. CASE UNCHANGED vars BY <1>1, <1>16 DEF vars
<1>17. QED
  BY <1>3, <1>4, <1>5, <1>6, <1>7, <1>8, <1>9, <1>10, <1>11, <1>12, <1>13,
     <1>14, <1>15, <1>16
  DEF Next

\* The transcript tells the turns in the order they were begun, each at most
\* once from either side and the question before its answer, and no word of an
\* answer is shown under a later question, whatever is interrupted, refused by
\* the gate or lost with the connection (state.ts:201-234, 286-301 against
\* worker.py:206-330, 1023-1110).
THEOREM ConversationIsTold ==
  Spec => [](TranscriptIsInOrder /\ AnswersFollowTheirQuestion)
<1>1. OrderInv => TranscriptIsInOrder /\ AnswersFollowTheirQuestion
  BY DEF OrderInv
<1>2. QED BY <1>1, InitTypeInv, NextType, InitOrderInv, NextOrder, PTL DEF Spec

\* No utterance waits unseen: once what the worker has announced is applied,
\* the client counts at least the turns that are queued, also while the ends of
\* turns are told and the next ones are begun (worker.py:206-218, 309-315
\* against state.ts:359-382).
THEOREM QueueIsNeverUnseen == Spec => []QueueIsShown
<1>1. TypeInv /\ QueueInv => QueueIsShown BY QueueIsCounted
<1>2. QED BY <1>1, InitTypeInv, NextType, InitQueueInv, NextQueue, PTL DEF Spec

\* What the store shows of a conversation fits together, for every set of
\* conversations, whatever is lost with the connection: its type, its clock,
\* its queue, its transcript and its words (session.ts:104-107, 223-234).
THEOREM StoreFitsTogether == Spec => []ShownFitsTogether
<1>1. ClockInv => ClockWatchesThePendingTurn
  BY DEF ClockInv, ClockWatchesThePendingTurn
<1>2. TypeInv /\ QueueInv => QueueIsShown BY QueueIsCounted
<1>3. TypeInv /\ OrderInv /\ QueueInv /\ ClockInv => ShownFitsTogether
  BY <1>1, <1>2 DEF TypeInv, OrderInv, ShownFitsTogether
<1>4. QED
  BY <1>3, InitTypeInv, NextType, InitOrderInv, NextOrder, InitQueueInv, NextQueue,
     InitClockInv, NextClock, PTL
  DEF Spec
=============================================================================
