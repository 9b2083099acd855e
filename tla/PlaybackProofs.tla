--------------------------- MODULE PlaybackProofs ---------------------------
(***************************************************************************)
(* Proofs about Playback, for any number of requests, stops and chunks and *)
(* any socket: type correctness; that a gate lets go of a generation only  *)
(* by rejecting it; that a stop that leaves nothing under way has stopped  *)
(* everything; that what was interrupted is silent, and what is wanted is  *)
(* heard.                                                                  *)
(***************************************************************************)
EXTENDS Playback, TLAPS

\* A rejected generation is remembered, also when an older one is forgotten
\* to make room for it.
LEMMA RememberKeeps ==
  ASSUME NEW s \in Seq(Generation), NEW g \in Generation
  PROVE  /\ Remember(s, g) \in Seq(Generation)
         /\ \E i \in DOMAIN Remember(s, g) : Remember(s, g)[i] = g
<1>1. CASE \E i \in DOMAIN s : s[i] = g
  BY <1>1 DEF Remember
<1>2. CASE ~(\E i \in DOMAIN s : s[i] = g) /\ Len(s) < MaxRejected
  <2>1. Remember(s, g) = Append(s, g)
    BY <1>2 DEF Remember
  <2>2. Append(s, g) \in Seq(Generation) /\ Append(s, g)[Len(s) + 1] = g
        /\ Len(s) + 1 \in DOMAIN Append(s, g)
    OBVIOUS
  <2> QED BY <2>1, <2>2
<1>3. CASE ~(\E i \in DOMAIN s : s[i] = g) /\ ~(Len(s) < MaxRejected)
  <2>1. Len(s) \in Nat /\ MaxRejected \in Nat \ {0}
    BY GateAssumption
  <2>2. s # <<>>
    BY <1>3, <2>1
  <2>3. Tail(s) \in Seq(Generation)
    BY <2>2
  <2>4. Remember(s, g) = Append(Tail(s), g)
    BY <1>3 DEF Remember
  <2>5. Append(Tail(s), g) \in Seq(Generation)
        /\ Append(Tail(s), g)[Len(Tail(s)) + 1] = g
        /\ Len(Tail(s)) + 1 \in DOMAIN Append(Tail(s), g)
    BY <2>3
  <2> QED BY <2>4, <2>5
<1> QED BY <1>1, <1>2, <1>3

\* Rejecting keeps the active generation and records it as rejected.
LEMMA RejectActiveRecords ==
  ASSUME NEW gate \in Gate
  PROVE  /\ RejectActive(gate) \in Gate
         /\ RejectActive(gate).active = gate.active
         /\ gate.active # NoGeneration => Rejects(RejectActive(gate), gate.active)
<1>1. gate.active \in MaybeGeneration /\ gate.rejected \in Seq(Generation)
  BY DEF Gate
<1>2. CASE gate.active = NoGeneration
  BY <1>1, <1>2 DEF RejectActive, Gate
<1>3. CASE gate.active # NoGeneration
  <2>1. gate.active \in Generation
    BY <1>1, <1>3 DEF MaybeGeneration
  <2>2. /\ Remember(gate.rejected, gate.active) \in Seq(Generation)
        /\ \E i \in DOMAIN Remember(gate.rejected, gate.active) :
             Remember(gate.rejected, gate.active)[i] = gate.active
    BY <1>1, <2>1, RememberKeeps
  <2>3. /\ RejectActive(gate).rejected = Remember(gate.rejected, gate.active)
        /\ RejectActive(gate).active = gate.active
        /\ RejectActive(gate) \in Gate
    BY <1>3, <2>2 DEF RejectActive, Gate
  <2> QED BY <2>2, <2>3 DEF Rejects
<1> QED BY <1>2, <1>3

\* Observing an event keeps the gate's type, and whichever generation was
\* active before and is not after is rejected.
LEMMA ObserveRecords ==
  ASSUME NEW gate \in Gate, NEW e \in Event
  PROVE  /\ Observe(gate, e) \in Gate
         /\ gate.active # NoGeneration /\ Observe(gate, e).active # gate.active
              => Rejects(Observe(gate, e), gate.active)
<1> DEFINE next == [gate EXCEPT !.suppress = Suppression(gate, e)]
<1>1. /\ next \in Gate
      /\ next.active = gate.active /\ next.rejected = gate.rejected
  BY DEF Gate, Suppression
<1>2. e.gen \in MaybeGeneration /\ e.type \in EventType
  BY DEF Event
<1>3. CASE ~ShouldAccept(gate, e)
  BY <1>3 DEF Observe
<1>4. CASE ShouldAccept(gate, e) /\ e.type = "interrupted"
  BY <1>4, RejectActiveRecords DEF Observe
<1>5. CASE ShouldAccept(gate, e) /\ e.type # "interrupted"
  <2>1. Observe(gate, e) = Follow(next, e)
    BY <1>5 DEF Observe
  <2> HIDE DEF next
  <2>2. CASE e.gen = NoGeneration \/ e.gen = gate.active
    BY <1>1, <2>1, <2>2 DEF Follow
  <2>3. CASE /\ e.gen # NoGeneration /\ e.gen # gate.active
             /\ gate.active # NoGeneration /\ e.type = "final"
    <3>1. Follow(next, e) = [RejectActive(next) EXCEPT !.active = e.gen]
      BY <1>1, <2>3 DEF Follow
    <3>2. RejectActive(next) \in Gate /\ Rejects(RejectActive(next), gate.active)
      BY <1>1, <2>3, RejectActiveRecords
    <3>3. Follow(next, e) \in Gate /\ Rejects(Follow(next, e), gate.active)
      BY <1>2, <3>1, <3>2 DEF Gate, Rejects
    <3> QED BY <2>1, <3>3
  <2>4. CASE /\ e.gen # NoGeneration /\ e.gen # gate.active
             /\ ~(gate.active # NoGeneration /\ e.type = "final")
             /\ gate.active = NoGeneration \/ e.type \in Start
    <3>1. Follow(next, e) = [next EXCEPT !.active = e.gen]
      BY <1>1, <2>4 DEF Follow
    <3>2. Follow(next, e) \in Gate /\ Follow(next, e).rejected = gate.rejected
      BY <1>1, <1>2, <3>1 DEF Gate
    <3>3. gate.active # NoGeneration => Rejects(gate, gate.active)
      BY <1>5, <2>4 DEF ShouldAccept, Start, Scoped
    <3> QED BY <2>1, <3>2, <3>3 DEF Rejects
  <2>5. CASE /\ e.gen # NoGeneration /\ e.gen # gate.active
             /\ gate.active # NoGeneration /\ e.type \notin Start
    <3>1. Follow(next, e) = next
      BY <1>1, <2>5 DEF Follow, Start
    <3> QED BY <1>1, <2>1, <3>1
  <2> QED BY <2>2, <2>3, <2>4, <2>5
<1> QED BY <1>3, <1>4, <1>5

-----------------------------------------------------------------------------
(* Type correctness.  An inductive invariant has to know besides TypeOK    *)
(* that all but an interruption carries a generation.                      *)

WireEvent == {e \in Event : e.type # "interrupted" => e.gen # NoGeneration}
Message == {m \in ServerMessage : m.kind # "interrupt" => m.gen # NoGeneration}
TypeInv ==
  /\ TypeOK
  /\ up \in Seq(Message)
  /\ response.left \in Seq(WireEvent)
  /\ response.left # <<>> => response.gen # NoGeneration
  /\ notices \in Seq(WireEvent)
  /\ down \in Seq(WireEvent)

LEMMA WireEventIsEvent == WireEvent \subseteq Event /\ Message \subseteq ServerMessage
  BY DEF WireEvent, Message

LEMMA WidenSeq ==
  ASSUME NEW S, NEW T, S \subseteq T, NEW s \in Seq(S)
  PROVE  s \in Seq(T)
  OBVIOUS

LEMMA EventsAreWired ==
  ASSUME NEW g \in MaybeGeneration, NEW t \in EventType,
         t # "interrupted" => g # NoGeneration
  PROVE  E(t, g) \in WireEvent
  BY DEF E, WireEvent, Event

LEMMA SpokenIsWired ==
  ASSUME NEW g \in Generation, NEW n \in Nat
  PROVE  Spoken(g, n) \in Seq(WireEvent)
<1>1. g \in MaybeGeneration /\ g # NoGeneration
  BY GateAssumption DEF Generation, MaybeGeneration, NoGeneration
<1>2. E("chunk", g) \in WireEvent /\ E("spoken", g) \in WireEvent
  BY <1>1, EventsAreWired DEF EventType
<1>3. [i \in 1..n |-> E("chunk", g)] \in Seq(WireEvent)
  BY <1>2
<1>4. <<E("spoken", g)>> \in Seq(WireEvent)
  BY <1>2
<1> QED BY <1>3, <1>4 DEF Spoken

LEMMA RepliesAreWired ==
  ASSUME NEW g \in Generation
  PROVE  Replies(g) \subseteq Seq(WireEvent)
<1>1. g \in MaybeGeneration /\ g # NoGeneration
  BY GateAssumption DEF Generation, MaybeGeneration, NoGeneration
<1>2. /\ E("status", g) \in WireEvent
      /\ E("phase", g) \in WireEvent
      /\ E("answered", g) \in WireEvent
  BY <1>1, EventsAreWired DEF EventType
<1>3. /\ <<E("status", g)>> \in Seq(WireEvent)
      /\ <<E("phase", g), E("answered", g)>> \in Seq(WireEvent)
  BY <1>2
<1>4. ASSUME NEW speech \in {<<>>} \cup {Spoken(g, n) : n \in 1..MaxChunks}
      PROVE  <<E("phase", g), E("answered", g)>> \o speech \in Seq(WireEvent)
  <2>1. \A n \in 1..MaxChunks : Spoken(g, n) \in Seq(WireEvent)
    BY SpokenIsWired, PlaybackAssumption
  <2>2. <<>> \in Seq(WireEvent)
    OBVIOUS
  <2>3. speech \in Seq(WireEvent)
    BY <2>1, <2>2
  <2> QED BY <1>3, <2>3
<1> QED BY <1>3, <1>4 DEF Replies

LEMMA ScriptsAreWired ==
  ASSUME NEW g \in Generation, NEW kind \in {"utterance", "reply", "say"}
  PROVE  Script(kind, g) \subseteq Seq(WireEvent)
<1>1. g \in MaybeGeneration /\ g # NoGeneration
  BY GateAssumption DEF Generation, MaybeGeneration, NoGeneration
<1>2. E("status", g) \in WireEvent /\ E("final", g) \in WireEvent
  BY <1>1, EventsAreWired DEF EventType
<1>3. /\ <<E("status", g)>> \in Seq(WireEvent)
      /\ <<E("status", g), E("final", g)>> \in Seq(WireEvent)
  BY <1>2
<1>4. CASE kind = "utterance"
  <2>1. \A reply \in Replies(g) :
          <<E("status", g), E("final", g)>> \o reply \in Seq(WireEvent)
    BY <1>3, RepliesAreWired
  <2> QED BY <1>3, <1>4, <2>1 DEF Script
<1>5. CASE kind = "reply"
  BY <1>5, RepliesAreWired DEF Script
<1>6. CASE kind = "say"
  <2>1. \A n \in 1..MaxChunks :
          <<E("status", g)>> \o Spoken(g, n) \in Seq(WireEvent)
    BY <1>3, SpokenIsWired, PlaybackAssumption
  <2> QED BY <1>6, <2>1 DEF Script
<1> QED BY <1>4, <1>5, <1>6

LEMMA InterruptedIsWired ==
  ASSUME NEW g \in MaybeGeneration
  PROVE  /\ <<E("interrupted", g)>> \in Seq(WireEvent)
         /\ g # NoGeneration => /\ Interrupted(g) \in Seq(WireEvent)
                               /\ <<E("status", g)>> \in Seq(WireEvent)
<1>1. E("interrupted", g) \in WireEvent
  BY EventsAreWired DEF EventType
<1>2. g # NoGeneration => E("status", g) \in WireEvent
  BY EventsAreWired DEF EventType
<1> QED BY <1>1, <1>2 DEF Interrupted

-----------------------------------------------------------------------------
(* The steps.                                                              *)

LEMMA FlushTypes ==
  ASSUME NEW f \in Flusher, flush \in [Flusher -> FlushState],
         context \in ContextState, closer \in Flusher, audio \in Gate
  PROVE  /\ NotFlushing \in FlushState
         /\ Flushed(f) \in FlushState
         /\ CallFlush(f) => context' \in ContextState /\ closer' \in Flusher
         /\ BeginPreempt(f) => /\ flush' \in [Flusher -> FlushState]
                               /\ context' \in ContextState /\ closer' \in Flusher
<1>1. NotFlushing \in FlushState /\ Flushed(f) \in FlushState
  BY DEF NotFlushing, Flushed, FlushState, MaybeGeneration
<1>2. CallFlush(f) => context' \in ContextState /\ closer' \in Flusher
  BY DEF CallFlush, ContextState
<1>3. audio.active \in MaybeGeneration
  BY DEF Gate
<1>4. [at |-> IF Open THEN "closing" ELSE "waiting",
       gen |-> audio.active, pending |-> append # NoGeneration] \in FlushState
  BY <1>3 DEF FlushState
<1>5. BeginPreempt(f) => flush' \in [Flusher -> FlushState]
  BY <1>4 DEF BeginPreempt
<1>6. BeginPreempt(f) => CallFlush(f)
  BY DEF BeginPreempt
<1> QED BY <1>1, <1>2, <1>5, <1>6

LEMMA InitTypes == Init => TypeInv
<1> SUFFICES ASSUME Init PROVE TypeInv
  OBVIOUS
<1>1. OpenGate \in Gate
  BY DEF OpenGate, Gate, MaybeGeneration
<1>2. NotFlushing \in FlushState
  BY DEF NotFlushing, FlushState, MaybeGeneration
<1>3. Sequencer \in Flusher
  BY DEF Flusher
<1>4. response \in [kind : {"none", "utterance", "reply", "say"},
                    gen : MaybeGeneration, left : Seq(Event)]
  BY DEF Init, Nothing, MaybeGeneration
<1>5. TypeOK
  <2>1. owner \in Gate /\ audio \in Gate /\ flush \in [Flusher -> FlushState]
    BY <1>1, <1>2 DEF Init
  <2>2. /\ append \in MaybeGeneration /\ wanted \in MaybeGeneration
        /\ context \in ContextState /\ closer \in Flusher
        /\ asked \in 0..MaxAsked
        /\ missed \subseteq Generation /\ cut \subseteq Generation
    BY <1>3, GateAssumption DEF Init, MaybeGeneration, ContextState
  <2>3. /\ up \in Seq(ServerMessage) /\ notices \in Seq(Event)
        /\ down \in Seq(Event) /\ playing \in Seq(Generation)
    BY DEF Init
  <2> QED BY <1>4, <2>1, <2>2, <2>3 DEF TypeOK
<1> QED BY <1>5 DEF TypeInv, Init, Nothing

\* The worker's steps.
LEMMA ReceiveTypes == TypeInv /\ ServerReceives => TypeInv'
<1> SUFFICES ASSUME TypeInv, ServerReceives PROVE TypeInv'
  OBVIOUS
<1>1. /\ up \in Seq(Message) /\ up # <<>> /\ up' = Tail(up)
      /\ UNCHANGED <<down, owner, audio, append, flush, context, closer,
                     playing, asked, wanted, missed>>
  BY DEF TypeInv, ServerReceives, clientVars, playerVars, personVars
<1>2. Head(up) \in Message /\ up' \in Seq(Message)
  BY <1>1
<1>3. up' \in Seq(ServerMessage)
  BY <1>2, WireEventIsEvent, WidenSeq
<1>4. cut' \subseteq Generation
  <2>1. cut' = CutShort
    BY DEF ServerReceives, ServerStops, ServerAnswers
  <2>2. Responding => response.gen \in Generation
    BY DEF TypeInv, TypeOK, Responding, MaybeGeneration
  <2> QED BY <2>1, <2>2 DEF CutShort, TypeInv, TypeOK
<1>5. response.gen \in MaybeGeneration
  BY DEF TypeInv, TypeOK
<1>6. CASE ServerStops
  <2>1. notices' \in Seq(WireEvent)
    <3>1. NoGeneration \in MaybeGeneration
      BY DEF MaybeGeneration
    <3>2. Responding => response.gen # NoGeneration
      BY DEF Responding, TypeInv
    <3> QED BY <1>5, <1>6, <3>1, <3>2, InterruptedIsWired DEF ServerStops
  <2>2. response' = Nothing
    BY <1>6 DEF ServerStops
  <2> QED BY <1>1, <1>2, <1>3, <1>4, <2>1, <2>2, WireEventIsEvent, WidenSeq
          DEF TypeInv, TypeOK, Nothing, MaybeGeneration
<1>7. CASE ServerAnswers
  <2> DEFINE m == Head(up)
  <2>1. m.kind \in {"utterance", "reply", "say"} /\ m.gen \in Generation
    BY <1>2, <1>7 DEF ServerAnswers, Message, ServerMessage, MaybeGeneration
  <2>2. m.gen \in MaybeGeneration /\ m.gen # NoGeneration
    BY <2>1, GateAssumption DEF Generation, MaybeGeneration, NoGeneration
  <2>3. PICK script \in Script(m.kind, m.gen) :
          response' = [kind |-> m.kind, gen |-> m.gen, left |-> script]
    BY <1>7 DEF ServerAnswers
  <2>4. script \in Seq(WireEvent)
    BY <2>1, <2>3, ScriptsAreWired
  <2>5. Interruption(m) \in Seq(WireEvent)
    <3>1. Responding => response.gen # NoGeneration
      BY DEF Responding, TypeInv
    <3>2. Interrupted(m.gen) \in Seq(WireEvent) /\ <<E("status", m.gen)>> \in Seq(WireEvent)
      BY <2>2, InterruptedIsWired
    <3>3. Responding => Interrupted(response.gen) \in Seq(WireEvent)
      BY <1>5, <3>1, InterruptedIsWired
    <3> QED BY <3>2, <3>3 DEF Interruption
  <2>6. notices' \in Seq(WireEvent)
    <3>1. <<E("status", m.gen)>> \in Seq(WireEvent)
      BY <2>2, InterruptedIsWired
    <3> QED BY <1>7, <2>5, <3>1 DEF ServerAnswers
  <2>7. script \in Seq(Event)
    BY <2>4, WireEventIsEvent, WidenSeq
  <2>8. /\ response' \in [kind : {"none", "utterance", "reply", "say"},
                          gen : MaybeGeneration, left : Seq(Event)]
        /\ response'.left \in Seq(WireEvent) /\ response'.gen # NoGeneration
    BY <2>1, <2>2, <2>3, <2>4, <2>7
  <2>9. notices' \in Seq(Event)
    BY <2>6, WireEventIsEvent, WidenSeq
  <2> QED BY <1>1, <1>2, <1>3, <1>4, <2>6, <2>8, <2>9 DEF TypeInv, TypeOK
<1> QED BY <1>6, <1>7 DEF ServerReceives

LEMMA SendTypes == TypeInv /\ (SendNotice \/ SendAnswer) => TypeInv'
<1>1. ASSUME TypeInv, SendNotice PROVE TypeInv'
  <2>1. Head(notices) \in WireEvent /\ Tail(notices) \in Seq(WireEvent)
    BY <1>1 DEF TypeInv, SendNotice
  <2>2. down' \in Seq(WireEvent) /\ notices' \in Seq(WireEvent)
    BY <1>1, <2>1 DEF TypeInv, SendNotice
  <2>3. down' \in Seq(Event) /\ notices' \in Seq(Event)
    BY <2>2, WireEventIsEvent, WidenSeq
  <2> QED BY <1>1, <2>2, <2>3
          DEF TypeInv, TypeOK, SendNotice, clientVars, playerVars, personVars
<1>2. ASSUME TypeInv, SendAnswer PROVE TypeInv'
  <2> DEFINE rest == Tail(response.left)
  <2>1. Head(response.left) \in WireEvent /\ rest \in Seq(WireEvent)
    BY <1>2 DEF TypeInv, SendAnswer
  <2>2. down' \in Seq(WireEvent)
    BY <1>2, <2>1 DEF TypeInv, SendAnswer
  <2>3. down' \in Seq(Event) /\ rest \in Seq(Event)
    BY <2>1, <2>2, WireEventIsEvent, WidenSeq
  <2>4. response' = [response EXCEPT !.left = rest]
        /\ response.gen # NoGeneration
    BY <1>2 DEF TypeInv, SendAnswer
  <2> HIDE DEF rest
  <2>5. /\ response' \in [kind : {"none", "utterance", "reply", "say"},
                          gen : MaybeGeneration, left : Seq(Event)]
        /\ response'.left = rest /\ response'.gen = response.gen
    BY <1>2, <2>3, <2>4 DEF TypeInv, TypeOK
  <2> QED BY <1>2, <2>1, <2>2, <2>3, <2>4, <2>5
          DEF TypeInv, TypeOK, SendAnswer, clientVars, playerVars, personVars
<1> QED BY <1>1, <1>2

\* The player's steps.
LEMMA SettleTypes ==
  ASSUME TypeInv, NEW f \in Flusher, Settle(f)
  PROVE  TypeInv'
<1>1. flush' \in [Flusher -> FlushState]
      /\ context' \in ContextState /\ closer' \in Flusher
  <2>1. CASE Changed(f) \/ ~Open
    BY <2>1, FlushTypes DEF TypeInv, TypeOK, Settle
  <2>2. CASE ~(Changed(f) \/ ~Open)
    <3>1. CallFlush(f) /\ flush' = [flush EXCEPT ![f].at = "settling"]
      BY <2>2 DEF Settle
    <3>2. flush' \in [Flusher -> FlushState]
      BY <3>1 DEF TypeInv, TypeOK, FlushState
    <3> QED BY <3>1, <3>2, FlushTypes DEF TypeInv, TypeOK
  <2> QED BY <2>1, <2>2
<1> QED BY <1>1 DEF TypeInv, TypeOK, Settle, serverVars, personVars

LEMMA ContextTypes == TypeInv /\ (ContextClosed \/ ChunkPlayed) => TypeInv'
<1>1. ASSUME TypeInv, ContextClosed PROVE TypeInv'
  <2>1. flush[closer] \in FlushState /\ closer \in Flusher
    BY <1>1 DEF TypeInv, TypeOK
  <2>2. /\ [flush[closer] EXCEPT !.at = "waiting"] \in FlushState
        /\ Flushed(closer) \in FlushState
    BY <1>1, <2>1, FlushTypes DEF FlushState, TypeInv, TypeOK
  <2>3. flush' \in [Flusher -> FlushState]
    BY <1>1, <2>2 DEF ContextClosed, TypeInv, TypeOK
  <2>4. missed' \subseteq Generation /\ playing' \in Seq(Generation)
    BY <1>1 DEF ContextClosed, TypeInv, TypeOK
  <2> QED BY <1>1, <2>3, <2>4
          DEF ContextClosed, ContextState, TypeInv, TypeOK, serverVars, personVars
<1>2. ASSUME TypeInv, ChunkPlayed PROVE TypeInv'
  <2>1. playing' \in Seq(Generation)
    BY <1>2 DEF ChunkPlayed, TypeInv, TypeOK
  <2> QED BY <1>2, <2>1 DEF ChunkPlayed, TypeInv, TypeOK, serverVars, personVars
<1> QED BY <1>1, <1>2

LEMMA AppendTypes == TypeInv /\ AppendEnds => TypeInv'
<1> SUFFICES ASSUME TypeInv, AppendEnds PROVE TypeInv'
  OBVIOUS
<1>1. append \in Generation /\ append' \in MaybeGeneration
  BY DEF AppendEnds, TypeInv, TypeOK, MaybeGeneration
<1>2. RejectActive(audio) \in Gate
  BY RejectActiveRecords DEF TypeInv, TypeOK
<1>3. flush' \in [Flusher -> FlushState]
  <2>1. \A f \in Flusher : [flush[f] EXCEPT !.pending = FALSE] \in FlushState
    BY DEF TypeInv, TypeOK, FlushState
  <2> QED BY <2>1 DEF AppendEnds, ChainEmptied
<1>4. /\ context' \in ContextState /\ playing' \in Seq(Generation)
      /\ audio' \in Gate /\ missed' \subseteq Generation
  <2>1. Append(playing, append) \in Seq(Generation)
    BY <1>1 DEF TypeInv, TypeOK
  <2> QED BY <1>1, <1>2, <2>1 DEF AppendEnds, ContextState, TypeInv, TypeOK
<1> QED BY <1>1, <1>3, <1>4 DEF AppendEnds, TypeInv, TypeOK, serverVars, personVars

LEMMA EventTypes == TypeInv /\ ReceiveEvent => TypeInv'
<1> SUFFICES ASSUME TypeInv, ReceiveEvent PROVE TypeInv'
  OBVIOUS
<1> DEFINE e == Head(down)
<1>1. e \in WireEvent /\ e \in Event /\ down' \in Seq(WireEvent)
  BY DEF ReceiveEvent, TypeInv, WireEvent
<1>2. down' \in Seq(Event)
  BY <1>1, WireEventIsEvent, WidenSeq
<1>3. e.type = "chunk" => e.gen \in Generation
  BY <1>1 DEF WireEvent, Event, MaybeGeneration
<1>4. e.gen \in MaybeGeneration
  BY <1>1 DEF Event
<1>5. owner \in Gate /\ audio \in Gate /\ Sequencer \in Flusher
  BY DEF TypeInv, TypeOK, Flusher
<1>6. owner' \in Gate
  BY <1>1, <1>5, ObserveRecords DEF ReceiveEvent
<1>7. Observe(audio, e) \in Gate /\ RejectActive(Observe(audio, e)) \in Gate
  BY <1>1, <1>5, ObserveRecords, RejectActiveRecords
<1>8. UNCHANGED <<up, response, notices, asked, wanted, cut>>
  BY DEF ReceiveEvent, serverVars, personVars
<1> DEFINE PlayerTyped ==
      /\ audio' \in Gate /\ append' \in MaybeGeneration
      /\ flush' \in [Flusher -> FlushState]
      /\ context' \in ContextState /\ closer' \in Flusher
      /\ playing' \in Seq(Generation) /\ missed' \subseteq Generation
<1>9. ASSUME NotPlayed(e), audio' \in Gate PROVE PlayerTyped
  BY <1>3, <1>9 DEF NotPlayed, TypeInv, TypeOK, playerVars
<1>10. PlayerTyped
  <2>1. CASE ~ShouldAccept(owner, e)
    BY <1>5, <1>9, <2>1 DEF ReceiveEvent
  <2>2. CASE ShouldAccept(owner, e) /\ e.type = "interrupted"
    <3>1. /\ BeginPreempt(Sequencer) /\ UNCHANGED <<append, playing, missed>>
          /\ audio' = RejectActive(Observe(audio, e))
      BY <2>2 DEF ReceiveEvent
    <3> QED BY <1>5, <1>7, <3>1, FlushTypes DEF TypeInv, TypeOK
  <2>3. CASE ShouldAccept(owner, e) /\ e.type # "interrupted"
    <3>1. audio' = Observe(audio, e)
      BY <2>3 DEF ReceiveEvent
    <3>2. CASE ShouldAccept(audio, e) /\ e.type = "chunk"
      <4>1. AppendChunk(e.gen) /\ UNCHANGED <<flush, closer>>
        BY <2>3, <3>2 DEF ReceiveEvent
      <4>2. /\ append' \in MaybeGeneration /\ context' \in ContextState
            /\ playing' \in Seq(Generation) /\ missed' \subseteq Generation
        <5>1. e.gen \in Generation /\ Append(playing, e.gen) \in Seq(Generation)
          BY <1>3, <3>2 DEF TypeInv, TypeOK
        <5> HIDE DEF e
        <5> QED BY <1>4, <4>1, <5>1 DEF AppendChunk, ContextState, TypeInv, TypeOK
      <4> QED BY <1>7, <3>1, <4>1, <4>2 DEF TypeInv, TypeOK
    <3>3. CASE ~(ShouldAccept(audio, e) /\ e.type = "chunk")
      BY <1>7, <1>9, <2>3, <3>1, <3>3 DEF ReceiveEvent
    <3> QED BY <3>2, <3>3
  <2> QED BY <2>1, <2>2, <2>3
<1> QED BY <1>1, <1>2, <1>6, <1>8, <1>10 DEF TypeInv, TypeOK

\* The application's steps.
LEMMA InterruptingTypes ==
  ASSUME TypeInv, NEW f \in Stop, Interrupting(f)
  PROVE  /\ owner' \in Gate /\ audio' \in Gate
         /\ flush' \in [Flusher -> FlushState]
         /\ context' \in ContextState /\ closer' \in Flusher
         /\ UNCHANGED <<append, playing>>
<1>1. f \in Flusher /\ BeginPreempt(f)
  BY DEF Flusher, Interrupting
<1>2. owner' \in Gate /\ audio' \in Gate
  BY RejectActiveRecords DEF Interrupting, TypeInv, TypeOK
<1>3. UNCHANGED <<append, playing>>
  BY DEF Interrupting
<1> QED BY <1>1, <1>2, <1>3, FlushTypes DEF TypeInv, TypeOK

LEMMA PersonTypes == TypeInv /\ PersonStep => TypeInv'
<1> SUFFICES ASSUME TypeInv, PersonStep PROVE TypeInv'
  OBVIOUS
<1> DEFINE stop == [kind |-> "interrupt", gen |-> NoGeneration]
           ask(kind) == [kind |-> kind, gen |-> asked + 1]
<1>1. stop \in Message
  BY DEF Message, ServerMessage, MaybeGeneration
<1>2. ASSUME asked < MaxAsked, NEW kind \in {"utterance", "reply", "say"}
      PROVE  /\ ask(kind) \in Message
             /\ asked + 1 \in 0..MaxAsked /\ asked + 1 \in MaybeGeneration
  <2>1. asked \in Nat /\ asked + 1 \in Generation /\ asked + 1 # NoGeneration
    BY <1>2, GateAssumption DEF TypeInv, TypeOK, Generation, NoGeneration
  <2> QED BY <1>2, <2>1, GateAssumption
          DEF Message, ServerMessage, MaybeGeneration, Generation
<1> HIDE DEF stop, ask
<1>3. ASSUME up' \in Seq(Message), asked' \in 0..MaxAsked,
             wanted' \in MaybeGeneration,
             UNCHANGED <<serverVars, down, append, playing, missed, cut>>,
             \/ UNCHANGED clientVars
             \/ \E f \in Stop : Interrupting(f)
      PROVE  TypeInv'
  <2>1. up' \in Seq(ServerMessage)
    BY <1>3, WireEventIsEvent, WidenSeq
  <2>2. /\ owner' \in Gate /\ audio' \in Gate
        /\ flush' \in [Flusher -> FlushState]
        /\ context' \in ContextState /\ closer' \in Flusher
    BY <1>3, InterruptingTypes DEF clientVars, playerVars, TypeInv, TypeOK
  <2> QED BY <1>3, <2>1, <2>2 DEF serverVars, TypeInv, TypeOK
<1>4. ASSUME NEW f \in Stop, PressStop(f) PROVE TypeInv'
  <2>1. up' \in Seq(Message) /\ UNCHANGED <<append, playing>>
    BY <1>1, <1>4 DEF PressStop, Interrupting, TypeInv, stop
  <2> QED BY <1>3, <1>4, <2>1 DEF PressStop, TypeInv, TypeOK, MaybeGeneration
<1>5. ASSUME NEW kind \in {"utterance", "reply", "say"}, Ask(kind) PROVE TypeInv'
  <2>1. ask(kind) \in Message /\ up' = Append(up, ask(kind))
    BY <1>2, <1>5 DEF Ask, ask
  <2>2. up' \in Seq(Message)
    BY <2>1 DEF TypeInv
  <2> QED BY <1>2, <1>3, <1>5, <2>2 DEF Ask, clientVars, playerVars
<1>6. ASSUME NEW kind \in {"reply", "say"}, NEW f \in Stop, AskOver(kind, f)
      PROVE  TypeInv'
  <2>1. ask(kind) \in Message /\ up' = up \o <<stop, ask(kind)>>
    BY <1>2, <1>6 DEF AskOver, ask, stop
  <2>2. up' \in Seq(Message) /\ UNCHANGED <<append, playing>>
    BY <1>1, <1>6, <2>1 DEF AskOver, Interrupting, TypeInv
  <2> QED BY <1>2, <1>3, <1>6, <2>2 DEF AskOver
<1> QED BY <1>4, <1>5, <1>6 DEF PersonStep

LEMMA TypesArePreserved == TypeInv /\ [Next]_vars => TypeInv'
<1>1. TypeInv /\ UNCHANGED vars => TypeInv'
  BY DEF TypeInv, TypeOK, vars, serverVars, clientVars, playerVars, personVars
<1>2. TypeInv /\ ServerStep => TypeInv'
  BY ReceiveTypes, SendTypes DEF ServerStep
<1>3. TypeInv /\ ClientStep => TypeInv'
  BY SettleTypes, ContextTypes, AppendTypes, EventTypes DEF ClientStep
<1> QED BY <1>1, <1>2, <1>3, PersonTypes DEF Next

\* TypeInv holds in every reachable state.
THEOREM Typed == Spec => []TypeInv
<1> QED BY InitTypes, TypesArePreserved, PTL DEF Spec

\* The gates, the wires, the player and the calls of interrupt() keep their
\* types, whatever the application asks for and whenever it stops.
THEOREM PlaybackTypeCorrect == Spec => []TypeOK
<1>1. TypeInv => TypeOK
  BY DEF TypeInv
<1> QED BY Typed, <1>1, PTL

-----------------------------------------------------------------------------
\* The audio controller's gate (generation_gate.ts) lets go of a generation
\* only by rejecting it, for any number of answers and stops and any limit of
\* the rejected generations it remembers.
THEOREM SupersededAlwaysRejected == Spec => SupersededIsRejected
<1>1. ASSUME TypeInv, [Next]_vars, NEW g \in Generation,
             audio.active = g, audio'.active # g
      PROVE  Rejects(audio', g)
  <2>1. audio \in Gate /\ g # NoGeneration
    BY <1>1, GateAssumption DEF TypeInv, TypeOK, Generation, NoGeneration
  <2>2. audio' # audio
    BY <1>1
  <2>3. audio' # RejectActive(audio)
    BY <1>1, <2>1, RejectActiveRecords
  <2>4. ~PersonStep
    BY <2>2, <2>3 DEF PersonStep, PressStop, Ask, AskOver, Interrupting,
                      clientVars
  <2>5. ReceiveEvent
    BY <1>1, <2>2, <2>3, <2>4
       DEF Next, vars, ServerStep, ClientStep, ServerReceives, SendNotice,
           SendAnswer, AppendEnds, ContextClosed, ChunkPlayed, Settle, clientVars
  <2> DEFINE e == Head(down)
  <2>6. e \in Event
    BY <1>1, <2>5 DEF TypeInv, TypeOK, ReceiveEvent
  <2>7. /\ Observe(audio, e) \in Gate
        /\ Observe(audio, e).active # g => Rejects(Observe(audio, e), g)
    BY <1>1, <2>1, <2>6, ObserveRecords
  <2>8. audio' = Observe(audio, e) \/ audio' = RejectActive(Observe(audio, e))
    BY <2>2, <2>5 DEF ReceiveEvent
  <2>9. e.type = "interrupted" => Observe(audio, e) = audio
                                  \/ Observe(audio, e) = RejectActive(audio)
    BY DEF Observe
  <2>10. CASE audio' = Observe(audio, e)
    BY <1>1, <2>7, <2>10
  <2>11. CASE audio' = RejectActive(Observe(audio, e))
    <3>1. e.type = "interrupted" \/ audio' = Observe(audio, e)
      BY <2>2, <2>5 DEF ReceiveEvent
    <3>2. CASE e.type = "interrupted"
      <4>1. Observe(audio, e).active = g
        BY <1>1, <2>1, <2>9, <3>2, RejectActiveRecords
      <4> QED BY <1>1, <2>7, <2>11, <4>1, RejectActiveRecords
    <3> QED BY <2>10, <3>1, <3>2
  <2> QED BY <2>8, <2>10, <2>11
<1>2. TypeInv /\ [Next]_vars =>
        [\A g \in Generation :
           audio.active = g /\ audio'.active # g => Rejects(audio', g)]_vars
  BY <1>1
<1> QED BY Typed, <1>2, PTL DEF Spec, SupersededIsRejected
-----------------------------------------------------------------------------
(* What gates do with what arrives.                                        *)

\* rejectActiveGeneration would change nothing.
Rejected(gate) ==
  /\ gate.suppress = TRUE
  /\ gate.active = NoGeneration \/ Rejects(gate, gate.active)

\* Nothing is remembered but what was and the one that is added.
LEMMA RememberAdds ==
  ASSUME NEW s \in Seq(Generation), NEW g \in Generation,
         NEW i \in DOMAIN Remember(s, g)
  PROVE  Remember(s, g)[i] = g \/ \E j \in DOMAIN s : s[j] = Remember(s, g)[i]
<1>1. CASE \E j \in DOMAIN s : s[j] = g
  BY <1>1 DEF Remember
<1>2. CASE ~(\E j \in DOMAIN s : s[j] = g) /\ Len(s) < MaxRejected
  <2>1. Remember(s, g) = Append(s, g) BY <1>2 DEF Remember
  <2> QED BY <2>1
<1>3. CASE ~(\E j \in DOMAIN s : s[j] = g) /\ ~(Len(s) < MaxRejected)
  <2>1. Len(s) \in Nat /\ MaxRejected \in Nat \ {0} BY GateAssumption
  <2>2. s # <<>> BY <1>3, <2>1
  <2>3. Tail(s) \in Seq(Generation) /\ Len(Tail(s)) = Len(s) - 1
        /\ \A j \in 1..Len(Tail(s)) : Tail(s)[j] = s[j + 1]
    BY <2>2
  <2>4. Remember(s, g) = Append(Tail(s), g) BY <1>3 DEF Remember
  <2>5. i \in 1..Len(Tail(s)) => Remember(s, g)[i] = Tail(s)[i]
    BY <2>3, <2>4
  <2>6. i \in 1..Len(Tail(s)) \/ Remember(s, g)[i] = g BY <2>3, <2>4
  <2>7. i \in 1..Len(Tail(s)) => i + 1 \in DOMAIN s BY <2>1, <2>3
  <2> QED BY <2>3, <2>5, <2>6, <2>7
<1> QED BY <1>1, <1>2, <1>3

LEMMA RejectActiveRejects ==
  ASSUME NEW gate \in Gate
  PROVE  /\ Rejected(RejectActive(gate))
         /\ Rejected(gate) => RejectActive(gate) = gate
         /\ \A g : Rejects(RejectActive(gate), g) =>
                     Rejects(gate, g) \/ g = gate.active
<1>1. /\ gate = [active |-> gate.active, rejected |-> gate.rejected,
                 suppress |-> gate.suppress]
      /\ gate.active \in MaybeGeneration /\ gate.rejected \in Seq(Generation)
  BY DEF Gate
<1> DEFINE rest == IF gate.active = NoGeneration THEN gate.rejected
                   ELSE Remember(gate.rejected, gate.active)
<1>2. /\ RejectActive(gate).active = gate.active
      /\ RejectActive(gate).suppress = TRUE
      /\ RejectActive(gate).rejected = rest
      /\ RejectActive(gate) = [active |-> gate.active, rejected |-> rest,
                               suppress |-> TRUE]
  <2> DEFINE loud == [gate EXCEPT !.suppress = TRUE]
  <2>1. loud \in Gate /\ loud.active = gate.active
        /\ loud.rejected = gate.rejected /\ loud.suppress = TRUE
    BY DEF Gate
  <2>2. RejectActive(gate) = [loud EXCEPT !.rejected = rest]
    BY <1>1, <2>1 DEF RejectActive
  <2> HIDE DEF loud, rest
  <2>3. loud = [active |-> gate.active, rejected |-> gate.rejected, suppress |-> TRUE]
    BY <2>1 DEF Gate
  <2> QED BY <2>2, <2>3
<1>3. Rejected(RejectActive(gate))
  <2>1. gate.active # NoGeneration => Rejects(RejectActive(gate), gate.active)
    BY RejectActiveRecords
  <2> QED BY <1>2, <2>1 DEF Rejected
<1>4. ASSUME Rejected(gate) PROVE RejectActive(gate) = gate
  <2>1. gate.active # NoGeneration =>
          Remember(gate.rejected, gate.active) = gate.rejected
    BY <1>4 DEF Rejected, Rejects, Remember
  <2> QED BY <1>1, <1>2, <1>4, <2>1 DEF Rejected
<1>5. ASSUME NEW g, Rejects(RejectActive(gate), g)
      PROVE  Rejects(gate, g) \/ g = gate.active
  <2>1. CASE gate.active = NoGeneration
    BY <1>2, <1>5, <2>1 DEF Rejects
  <2>2. CASE gate.active # NoGeneration
    <3>1. gate.active \in Generation BY <1>1, <2>2 DEF MaybeGeneration
    <3>2. PICK i \in DOMAIN Remember(gate.rejected, gate.active) :
            Remember(gate.rejected, gate.active)[i] = g
      BY <1>2, <1>5, <2>2 DEF Rejects
    <3> QED BY <1>1, <3>1, <3>2, RememberAdds DEF Rejects
  <2> QED BY <2>1, <2>2
<1> QED BY <1>3, <1>4, <1>5

\* The event takes over from the active generation.
TakesOver(gate, e) ==
  /\ e.gen # NoGeneration /\ e.gen # gate.active
  /\ gate.active = NoGeneration \/ e.type \in Start

\* What becomes of a gate, case by case.
LEMMA ObserveCases ==
  ASSUME NEW gate \in Gate, NEW e \in WireEvent
  PROVE  \/ ~ShouldAccept(gate, e) /\ Observe(gate, e) = gate
         \/ /\ ShouldAccept(gate, e) /\ e.type = "interrupted"
            /\ Observe(gate, e) = RejectActive(gate)
         \/ /\ ShouldAccept(gate, e) /\ e.type # "interrupted"
            /\ ~TakesOver(gate, e)
            /\ Observe(gate, e) = [gate EXCEPT !.suppress = Suppression(gate, e)]
         \/ /\ ShouldAccept(gate, e) /\ e.type # "interrupted"
            /\ TakesOver(gate, e)
            /\ \/ /\ gate.active # NoGeneration /\ e.type = "final"
                  /\ Observe(gate, e) =
                       [RejectActive([gate EXCEPT !.suppress = Suppression(gate, e)])
                          EXCEPT !.active = e.gen]
               \/ /\ ~(gate.active # NoGeneration /\ e.type = "final")
                  /\ Observe(gate, e) =
                       [gate EXCEPT !.suppress = Suppression(gate, e), !.active = e.gen]
<1> DEFINE next == [gate EXCEPT !.suppress = Suppression(gate, e)]
<1>1. next \in Gate /\ next.active = gate.active
  BY DEF Gate, Suppression
<1>2. CASE ~ShouldAccept(gate, e) BY <1>2 DEF Observe
<1>3. CASE ShouldAccept(gate, e) /\ e.type = "interrupted"
  BY <1>3 DEF Observe
<1>4. CASE ShouldAccept(gate, e) /\ e.type # "interrupted"
  <2>1. Observe(gate, e) = Follow(next, e) BY <1>4 DEF Observe
  <2> HIDE DEF next
  <2>2. CASE ~TakesOver(gate, e)
    <3>1. Follow(next, e) = next
      BY <1>1, <2>2 DEF Follow, TakesOver, Start
    <3> QED BY <1>4, <2>1, <2>2, <3>1 DEF next
  <2>3. CASE TakesOver(gate, e) /\ gate.active # NoGeneration /\ e.type = "final"
    <3>1. Follow(next, e) = [RejectActive(next) EXCEPT !.active = e.gen]
      BY <1>1, <2>3 DEF Follow, TakesOver
    <3> QED BY <1>4, <2>1, <2>3, <3>1 DEF next
  <2>4. CASE TakesOver(gate, e) /\ ~(gate.active # NoGeneration /\ e.type = "final")
    <3>1. Follow(next, e) = [next EXCEPT !.active = e.gen]
      BY <1>1, <2>4 DEF Follow, TakesOver
    <3>2. [next EXCEPT !.active = e.gen] =
            [gate EXCEPT !.suppress = Suppression(gate, e), !.active = e.gen]
      BY DEF next, Gate
    <3> QED BY <1>4, <2>1, <2>4, <3>1, <3>2
  <2> QED BY <2>2, <2>3, <2>4
<1> QED BY <1>2, <1>3, <1>4

\* Where the gate stands afterwards: with the active generation it had, or with
\* that of an event which takes over and was not rejected.
LEMMA ObserveMoves ==
  ASSUME NEW gate \in Gate, NEW e \in WireEvent
  PROVE  /\ Observe(gate, e) \in Gate
         /\ \/ Observe(gate, e).active = gate.active
            \/ /\ Observe(gate, e).active = e.gen /\ TakesOver(gate, e)
               /\ ShouldAccept(gate, e) /\ e.type # "interrupted"
         /\ \A g : Rejects(Observe(gate, e), g) =>
                     Rejects(gate, g) \/ g = gate.active
         /\ Observe(gate, e).active # gate.active =>
              ~Rejects(Observe(gate, e), Observe(gate, e).active)
         /\ Observe(gate, e).active = gate.active /\ e.type # "interrupted" =>
              Observe(gate, e).rejected = gate.rejected
<1> DEFINE next == [gate EXCEPT !.suppress = Suppression(gate, e)]
<1>1. next \in Gate /\ next.active = gate.active /\ next.rejected = gate.rejected
  BY DEF Gate, Suppression
<1>2. e \in Event /\ e.gen \in MaybeGeneration BY DEF WireEvent, Event
<1>3. Observe(gate, e) \in Gate BY <1>2, ObserveRecords
<1>4. gate.active \in MaybeGeneration BY DEF Gate
<1>5. ShouldAccept(gate, e) /\ e.gen # NoGeneration => ~Rejects(gate, e.gen)
  BY DEF ShouldAccept
<1>6. CASE Observe(gate, e) = gate
  BY <1>3, <1>6
<1>7. CASE e.type = "interrupted" /\ Observe(gate, e) = RejectActive(gate)
  BY <1>3, <1>7, RejectActiveRecords, RejectActiveRejects
<1>8. CASE Observe(gate, e) = next
  BY <1>1, <1>3, <1>8 DEF Rejects
<1>9. CASE /\ ShouldAccept(gate, e) /\ e.type # "interrupted" /\ TakesOver(gate, e)
           /\ Observe(gate, e) = [RejectActive(next) EXCEPT !.active = e.gen]
  <2>1. RejectActive(next) \in Gate BY <1>1, RejectActiveRecords
  <2>2. /\ Observe(gate, e).active = e.gen
        /\ Observe(gate, e).rejected = RejectActive(next).rejected
    BY <1>9, <2>1 DEF Gate
  <2>3. ASSUME NEW g, Rejects(Observe(gate, e), g)
        PROVE  Rejects(gate, g) \/ g = gate.active
    <3>1. Rejects(RejectActive(next), g) BY <2>2, <2>3 DEF Rejects
    <3> HIDE DEF next
    <3>2. Rejects(next, g) \/ g = next.active BY <1>1, <3>1, RejectActiveRejects
    <3> QED BY <1>1, <3>2 DEF Rejects
  <2> QED BY <1>3, <1>5, <1>9, <2>2, <2>3 DEF TakesOver
<1>10. CASE /\ ShouldAccept(gate, e) /\ e.type # "interrupted" /\ TakesOver(gate, e)
            /\ Observe(gate, e) =
                 [gate EXCEPT !.suppress = Suppression(gate, e), !.active = e.gen]
  <2>1. /\ Observe(gate, e).active = e.gen
        /\ Observe(gate, e).rejected = gate.rejected
    BY <1>10 DEF Gate
  <2>2. \A g : Rejects(Observe(gate, e), g) => Rejects(gate, g)
    BY <2>1 DEF Rejects
  <2> QED BY <1>3, <1>5, <1>10, <2>1, <2>2 DEF TakesOver
<1> QED BY <1>6, <1>7, <1>8, <1>9, <1>10, ObserveCases

\* A generation that was rejected stays so while it is the active one.
LEMMA ObserveKeepsRejected ==
  ASSUME NEW gate \in Gate, NEW e \in WireEvent, Rejected(gate),
         Observe(gate, e).active = gate.active
  PROVE  Rejected(Observe(gate, e))
<1>1. e.gen \in MaybeGeneration BY DEF WireEvent, Event
<1>2. CASE Observe(gate, e) = gate BY <1>2
<1>3. CASE Observe(gate, e) = RejectActive(gate)
  BY <1>3, RejectActiveRejects
<1>4. CASE /\ ShouldAccept(gate, e) /\ e.type # "interrupted" /\ ~TakesOver(gate, e)
           /\ Observe(gate, e) = [gate EXCEPT !.suppress = Suppression(gate, e)]
  <2>1. e.gen # NoGeneration BY <1>4 DEF WireEvent
  <2>2. e.gen # gate.active
    BY <1>4, <2>1 DEF Rejected, ShouldAccept
  <2>3. gate.active # NoGeneration /\ e.type \notin Start
    BY <1>4, <2>1, <2>2 DEF TakesOver
  <2>4. Suppression(gate, e) = TRUE
    BY <2>1, <2>3 DEF Rejected, Suppression, Resume, Start
  <2>5. /\ Observe(gate, e).suppress = TRUE
        /\ Observe(gate, e).rejected = gate.rejected
    BY <1>4, <2>4 DEF Gate
  <2> QED BY <2>5 DEF Rejected, Rejects
<1>5. CASE TakesOver(gate, e) /\ Observe(gate, e).active = e.gen
  BY <1>5 DEF TakesOver
<1>6. TakesOver(gate, e) /\ ShouldAccept(gate, e) /\ e.type # "interrupted"
        => Observe(gate, e).active = e.gen
  <2> DEFINE next == [gate EXCEPT !.suppress = Suppression(gate, e)]
  <2>1. next \in Gate BY DEF Gate, Suppression
  <2>2. RejectActive(next) \in Gate BY <2>1, RejectActiveRecords
  <2>3. [RejectActive(next) EXCEPT !.active = e.gen].active = e.gen
    BY <2>2 DEF Gate
  <2>4. [gate EXCEPT !.suppress = Suppression(gate, e), !.active = e.gen].active = e.gen
    BY DEF Gate
  <2> HIDE DEF next
  <2>5. ASSUME TakesOver(gate, e), ShouldAccept(gate, e), e.type # "interrupted"
        PROVE  \/ Observe(gate, e) = [RejectActive(next) EXCEPT !.active = e.gen]
               \/ Observe(gate, e) = [gate EXCEPT !.suppress = Suppression(gate, e),
                                                  !.active = e.gen]
    BY <2>5, ObserveCases DEF next
  <2> QED BY <2>3, <2>4, <2>5
<1> QED BY <1>2, <1>3, <1>4, <1>5, <1>6, ObserveCases

\* An accepted chunk is of the generation that is active from then on.
LEMMA ChunkActive ==
  ASSUME NEW gate \in Gate, NEW e \in WireEvent, e.type = "chunk",
         ShouldAccept(gate, e)
  PROVE  /\ Observe(gate, e).active = e.gen /\ ~Rejects(Observe(gate, e), e.gen)
         /\ Observe(gate, e).rejected = gate.rejected
<1>1. e.gen # NoGeneration BY DEF WireEvent
<1>2. ~Rejects(gate, e.gen) BY <1>1 DEF ShouldAccept
<1>3. TakesOver(gate, e) \/ e.gen = gate.active
  BY <1>1 DEF TakesOver, Start
<1>4. CASE TakesOver(gate, e)
  <2>1. Observe(gate, e) =
          [gate EXCEPT !.suppress = Suppression(gate, e), !.active = e.gen]
    BY <1>4, ObserveCases
  <2> QED BY <1>2, <2>1 DEF Gate, Rejects
<1>5. CASE ~TakesOver(gate, e)
  <2>1. Observe(gate, e) = [gate EXCEPT !.suppress = Suppression(gate, e)]
    BY <1>5, ObserveCases
  <2> QED BY <1>2, <1>3, <1>5, <2>1 DEF Gate, Rejects
<1> QED BY <1>4, <1>5


-----------------------------------------------------------------------------
(* The order of the events.                                                *)

\* No event of q that may start a generation belongs to one before g; none of
\* q belongs to a generation after g.
StartsFrom(q, g) == \A i \in DOMAIN q : q[i].type \in Start => g <= q[i].gen
UpTo(q, g) == \A i \in DOMAIN q : q[i].gen <= g

\* On the wire nothing comes before the start of an older generation.
Sorted(q) ==
  \A i, j \in DOMAIN q : i < j /\ q[j].type \in Start => q[i].gen <= q[j].gen

\* Whatever there is of answers, with the gate at generation g, the wire d, the
\* notices n and the response r, is of generations up to limit.
Within(g, d, n, r, limit) ==
  /\ g <= limit /\ UpTo(d, limit) /\ UpTo(n, limit)
  /\ r.left # <<>> => r.gen <= limit
SoFar(limit) == Within(audio.active, down, notices, response, limit)

\* The requests under way are newer than what there is of answers, each newer
\* than the one before.
RequestsAreNew ==
  /\ SoFar(asked)
  /\ \A i \in DOMAIN up : up[i].kind # "interrupt" =>
       /\ up[i].gen <= asked /\ SoFar(up[i].gen - 1)
       /\ \A j \in DOMAIN up : i < j /\ up[j].kind # "interrupt" =>
            up[i].gen < up[j].gen

OrderInv ==
  /\ StartsFrom(down, audio.active) /\ Sorted(down)
  /\ \A i \in DOMAIN notices : notices[i].type \notin Start
  /\ \A i \in DOMAIN response.left : response.left[i].gen = response.gen
  /\ response.left # <<>> => SoFar(response.gen)
  /\ RequestsAreNew

\* What a sequence holds after an element was added or the first was taken.
LEMMA AppendHolds ==
  ASSUME NEW S, NEW q \in Seq(S), NEW e \in S
  PROVE  /\ Append(q, e) \in Seq(S)
         /\ DOMAIN q \subseteq DOMAIN Append(q, e)
         /\ Len(q) + 1 \in DOMAIN Append(q, e)
         /\ Append(q, e)[Len(q) + 1] = e
         /\ \A i \in DOMAIN q : Append(q, e)[i] = q[i] /\ i < Len(q) + 1
         /\ \A i \in DOMAIN Append(q, e) :
              i \in Nat /\ (i \in DOMAIN q \/ i = Len(q) + 1)
  OBVIOUS

LEMMA TailHolds ==
  ASSUME NEW S, NEW q \in Seq(S), q # <<>>
  PROVE  /\ Tail(q) \in Seq(S) /\ Len(Tail(q)) = Len(q) - 1 /\ Len(q) \in Nat
         /\ 1 \in DOMAIN q /\ q[1] = Head(q) /\ Head(q) \in S
         /\ \A i \in DOMAIN Tail(q) :
              /\ i \in Nat /\ 0 < i /\ i + 1 \in DOMAIN q
              /\ Tail(q)[i] = q[i + 1]
         /\ \A i \in DOMAIN q : i \in Nat /\ 0 < i
         /\ \A i \in DOMAIN q : i # 1 => i - 1 \in DOMAIN Tail(q)
                                         /\ Tail(q)[i - 1] = q[i]
  OBVIOUS

LEMMA Numbers ==
  ASSUME TypeInv
  PROVE  /\ audio \in Gate /\ audio.active \in Nat
         /\ asked \in Nat /\ response.gen \in Nat /\ wanted \in Nat
         /\ MaxAsked \in Nat
         /\ \A i \in DOMAIN down : down[i] \in WireEvent /\ down[i].gen \in Nat
         /\ \A i \in DOMAIN notices : notices[i] \in WireEvent /\ notices[i].gen \in Nat
         /\ \A i \in DOMAIN response.left :
              response.left[i] \in WireEvent /\ response.left[i].gen \in Nat
         /\ \A i \in DOMAIN up :
              /\ up[i] \in Message /\ up[i].gen \in Nat
              /\ up[i].kind # "interrupt" => up[i].gen # NoGeneration
<1>1. MaxAsked \in Nat /\ MaybeGeneration \subseteq Nat
  BY GateAssumption DEF MaybeGeneration, Generation, NoGeneration
<1>2. \A e \in WireEvent : e.gen \in Nat
  BY <1>1 DEF WireEvent, Event
<1>3. /\ audio \in Gate /\ audio.active \in Nat /\ asked \in Nat
      /\ response.gen \in Nat /\ wanted \in Nat
  <2>1. /\ audio \in Gate /\ asked \in 0..MaxAsked
        /\ response.gen \in MaybeGeneration /\ wanted \in MaybeGeneration
    BY DEF TypeInv, TypeOK
  <2>2. audio.active \in MaybeGeneration
    BY <2>1 DEF Gate
  <2>3. asked \in Nat BY <1>1, <2>1
  <2> QED BY <1>1, <2>1, <2>2, <2>3
<1>4. /\ \A i \in DOMAIN down : down[i] \in WireEvent
      /\ \A i \in DOMAIN notices : notices[i] \in WireEvent
      /\ \A i \in DOMAIN response.left : response.left[i] \in WireEvent
      /\ \A i \in DOMAIN up : up[i] \in Message
  BY DEF TypeInv
<1>5. \A m \in Message : m.gen \in Nat
                         /\ (m.kind # "interrupt" => m.gen # NoGeneration)
  BY <1>1 DEF Message, ServerMessage
<1> QED BY <1>1, <1>2, <1>3, <1>4, <1>5

\* The events of an answer carry its generation.
LEMMA SpokenGens ==
  ASSUME NEW g \in Generation, NEW n \in Nat, NEW i \in DOMAIN Spoken(g, n)
  PROVE  Spoken(g, n)[i].gen = g /\ Spoken(g, n)[i].type \in Speech
<1> DEFINE chunks == [k \in 1..n |-> E("chunk", g)]
<1>1. chunks \in Seq({E("chunk", g)}) /\ Len(chunks) = n
  OBVIOUS
<1>2. \A k \in 1..n : chunks[k] = E("chunk", g)
  OBVIOUS
<1>3. E("chunk", g).gen = g /\ E("spoken", g).gen = g
      /\ E("chunk", g).type = "chunk" /\ E("spoken", g).type = "spoken"
  BY DEF E
<1> HIDE DEF chunks
<1>4. Spoken(g, n) = chunks \o <<E("spoken", g)>>
  BY DEF Spoken, chunks
<1>5. Spoken(g, n)[i] = E("chunk", g) \/ Spoken(g, n)[i] = E("spoken", g)
  BY <1>1, <1>2, <1>4
<1> QED BY <1>3, <1>5 DEF Speech

LEMMA JoinHolds ==
  ASSUME NEW S, NEW q \in Seq(S), NEW s \in Seq(S), q # <<>>
  PROVE  /\ q \o s \in Seq(S) /\ q \o s # <<>>
         /\ \A i \in 1..Len(q) : i \in DOMAIN (q \o s) /\ (q \o s)[i] = q[i]
         /\ \A i \in DOMAIN (q \o s) :
              \/ i \in 1..Len(q)
              \/ /\ i \in Nat /\ Len(q) < i /\ i - Len(q) \in DOMAIN s
                 /\ (q \o s)[i] = s[i - Len(q)]
         /\ \A i \in DOMAIN s :
              i \in Nat /\ i + Len(q) \in DOMAIN (q \o s) /\ (q \o s)[i + Len(q)] = s[i]
  OBVIOUS

LEMMA AfterOne ==
  ASSUME NEW a \in WireEvent, NEW rest \in Seq(WireEvent), NEW s,
         s = <<a>> \o rest
  PROVE  /\ s \in Seq(WireEvent) /\ s # <<>>
         /\ 1 \in DOMAIN s /\ s[1] = a
         /\ \A i \in DOMAIN s :
              \/ i = 1
              \/ /\ i \in Nat /\ 1 < i /\ i - 1 \in DOMAIN rest
                 /\ s[i] = rest[i - 1]
         /\ \A i \in DOMAIN rest :
              i \in Nat /\ i + 1 \in DOMAIN s /\ s[i + 1] = rest[i]
<1> DEFINE q == <<a>>
<1>1. q \in Seq(WireEvent) /\ q # <<>>
  OBVIOUS
<1>2. Len(q) = 1 /\ q[1] = a
  OBVIOUS
<1> HIDE DEF q
<1>3. /\ q \o rest \in Seq(WireEvent) /\ q \o rest # <<>>
      /\ \A i \in 1..Len(q) : i \in DOMAIN (q \o rest) /\ (q \o rest)[i] = q[i]
      /\ \A i \in DOMAIN (q \o rest) :
           \/ i \in 1..Len(q)
           \/ /\ i \in Nat /\ Len(q) < i /\ i - Len(q) \in DOMAIN rest
              /\ (q \o rest)[i] = rest[i - Len(q)]
      /\ \A i \in DOMAIN rest :
           /\ i \in Nat /\ i + Len(q) \in DOMAIN (q \o rest)
           /\ (q \o rest)[i + Len(q)] = rest[i]
  BY <1>1, JoinHolds
<1>4. s = q \o rest BY DEF q
<1> QED BY <1>2, <1>3, <1>4

LEMMA AfterTwo ==
  ASSUME NEW a \in WireEvent, NEW b \in WireEvent, NEW rest \in Seq(WireEvent), NEW s,
         s = <<a, b>> \o rest
  PROVE  /\ s \in Seq(WireEvent) /\ s # <<>>
         /\ 1 \in DOMAIN s /\ s[1] = a /\ 2 \in DOMAIN s /\ s[2] = b
         /\ \A i \in DOMAIN s :
              \/ i \in {1, 2}
              \/ /\ i \in Nat /\ 2 < i /\ i - 2 \in DOMAIN rest
                 /\ s[i] = rest[i - 2]
         /\ \A i \in DOMAIN rest :
              i \in Nat /\ i + 2 \in DOMAIN s /\ s[i + 2] = rest[i]
<1> DEFINE q == <<a, b>>
<1>1. q \in Seq(WireEvent) /\ q # <<>>
  OBVIOUS
<1>2. Len(q) = 2 /\ q[1] = a /\ q[2] = b
  OBVIOUS
<1> HIDE DEF q
<1>3. /\ q \o rest \in Seq(WireEvent) /\ q \o rest # <<>>
      /\ \A i \in 1..Len(q) : i \in DOMAIN (q \o rest) /\ (q \o rest)[i] = q[i]
      /\ \A i \in DOMAIN (q \o rest) :
           \/ i \in 1..Len(q)
           \/ /\ i \in Nat /\ Len(q) < i /\ i - Len(q) \in DOMAIN rest
              /\ (q \o rest)[i] = rest[i - Len(q)]
      /\ \A i \in DOMAIN rest :
           /\ i \in Nat /\ i + Len(q) \in DOMAIN (q \o rest)
           /\ (q \o rest)[i + Len(q)] = rest[i]
  BY <1>1, JoinHolds
<1>4. s = q \o rest BY DEF q
<1> QED BY <1>2, <1>3, <1>4

\* What a reply consists of: a phase comes before its chunks.
LEMMA RepliesHold ==
  ASSUME NEW g \in Generation, NEW s \in Replies(g)
  PROVE  /\ s # <<>> /\ s \in Seq(WireEvent)
         /\ \A i \in DOMAIN s :
              /\ s[i].gen = g /\ s[i].type \in {"status", "phase", "answered"} \cup Speech
              /\ s[i].type = "chunk" =>
                   \E j \in DOMAIN s : j < i /\ s[j].type = "phase"
<1>1. s \in Seq(WireEvent) BY RepliesAreWired
<1>2. /\ E("phase", g).gen = g /\ E("phase", g).type = "phase"
      /\ E("answered", g).gen = g /\ E("answered", g).type = "answered"
      /\ E("status", g).gen = g /\ E("status", g).type = "status"
  BY DEF E
<1>3. g \in MaybeGeneration /\ g # NoGeneration
  BY GateAssumption DEF Generation, MaybeGeneration, NoGeneration
<1>4. E("phase", g) \in WireEvent /\ E("answered", g) \in WireEvent
  BY <1>3, EventsAreWired DEF EventType
<1>5. CASE s = <<E("status", g)>>
  BY <1>1, <1>2, <1>5
<1>6. CASE s = <<E("phase", g), E("answered", g)>> \o <<>>
  <2>1. s = <<E("phase", g), E("answered", g)>> BY <1>6
  <2> QED BY <1>1, <1>2, <2>1
<1>7. ASSUME NEW n \in 1..MaxChunks, s = <<E("phase", g), E("answered", g)>> \o Spoken(g, n)
      PROVE  /\ s # <<>>
             /\ \A i \in DOMAIN s :
                  /\ s[i].gen = g
                  /\ s[i].type \in {"status", "phase", "answered"} \cup Speech
                  /\ s[i].type = "chunk" =>
                       \E j \in DOMAIN s : j < i /\ s[j].type = "phase"
  <2>1. n \in Nat BY PlaybackAssumption
  <2>2. Spoken(g, n) \in Seq(WireEvent) BY <2>1, SpokenIsWired
  <2> DEFINE rest == Spoken(g, n)
  <2>3. s = <<E("phase", g), E("answered", g)>> \o rest BY <1>7
  <2> HIDE DEF rest
  <2>4. /\ s # <<>>
        /\ 1 \in DOMAIN s /\ s[1] = E("phase", g) /\ s[2] = E("answered", g)
        /\ \A i \in DOMAIN s :
             \/ i \in {1, 2}
             \/ /\ i \in Nat /\ 2 < i /\ i - 2 \in DOMAIN rest
                /\ s[i] = rest[i - 2]
    <3>1. rest \in Seq(WireEvent) BY <2>2 DEF rest
    <3> QED BY <1>4, <2>3, <3>1, AfterTwo
  <2>5. \A i \in DOMAIN rest : rest[i].gen = g /\ rest[i].type \in Speech
    BY <2>1, SpokenGens DEF rest
  <2> QED BY <1>2, <2>4, <2>5
<1> QED BY <1>1, <1>5, <1>6, <1>7 DEF Replies

\* What an answer consists of; that of an utterance has its transcript before
\* the first phase and a phase before the first chunk.
LEMMA ScriptsHold ==
  ASSUME NEW g \in Generation, NEW kind \in {"utterance", "reply", "say"},
         NEW s \in Script(kind, g)
  PROVE  /\ s # <<>> /\ s \in Seq(WireEvent)
         /\ \A i \in DOMAIN s :
              /\ s[i].gen = g /\ s[i].type # "interrupted"
              /\ kind = "utterance" /\ s[i].type = "chunk" =>
                   \E j \in DOMAIN s : j < i /\ s[j].type = "phase"
              /\ kind = "utterance" /\ s[i].type = "phase" =>
                   \E j \in DOMAIN s : j < i /\ s[j].type = "final"
<1>1. s \in Seq(WireEvent) BY ScriptsAreWired
<1>2. /\ E("final", g).gen = g /\ E("final", g).type = "final"
      /\ E("status", g).gen = g /\ E("status", g).type = "status"
  BY DEF E
<1>3. g \in MaybeGeneration /\ g # NoGeneration
  BY GateAssumption DEF Generation, MaybeGeneration, NoGeneration
<1>4. E("status", g) \in WireEvent /\ E("final", g) \in WireEvent
  BY <1>3, EventsAreWired DEF EventType
<1>5. CASE s = <<E("status", g)>>
  BY <1>1, <1>2, <1>5
<1>6. ASSUME NEW reply \in Replies(g), kind = "utterance",
             s = <<E("status", g), E("final", g)>> \o reply
      PROVE  /\ s # <<>>
             /\ \A i \in DOMAIN s :
                  /\ s[i].gen = g /\ s[i].type # "interrupted"
                  /\ s[i].type = "chunk" =>
                       \E j \in DOMAIN s : j < i /\ s[j].type = "phase"
                  /\ s[i].type = "phase" =>
                       \E j \in DOMAIN s : j < i /\ s[j].type = "final"
  <2>1. /\ reply \in Seq(WireEvent)
        /\ \A i \in DOMAIN reply :
              /\ reply[i].gen = g
              /\ reply[i].type \in {"status", "phase", "answered"} \cup Speech
              /\ reply[i].type = "chunk" =>
                   \E j \in DOMAIN reply : j < i /\ reply[j].type = "phase"
    BY RepliesHold
  <2>4. /\ s # <<>>
        /\ 1 \in DOMAIN s /\ s[1] = E("status", g)
        /\ 2 \in DOMAIN s /\ s[2] = E("final", g)
        /\ \A i \in DOMAIN s :
             \/ i \in {1, 2}
             \/ /\ i \in Nat /\ 2 < i /\ i - 2 \in DOMAIN reply
                /\ s[i] = reply[i - 2]
        /\ \A i \in DOMAIN reply :
             i \in Nat /\ i + 2 \in DOMAIN s /\ s[i + 2] = reply[i]
    BY <1>4, <1>6, <2>1, AfterTwo
  <2>5. ASSUME NEW i \in DOMAIN s
        PROVE  /\ s[i].gen = g /\ s[i].type # "interrupted"
               /\ s[i].type = "phase" =>
                    \E j \in DOMAIN s : j < i /\ s[j].type = "final"
    <3>1. CASE i = 1 BY <1>2, <2>4, <3>1
    <3>2. CASE i = 2 BY <1>2, <2>4, <3>2
    <3>3. CASE i \notin {1, 2}
      <4>1. i \in Nat /\ 2 < i /\ i - 2 \in DOMAIN reply /\ s[i] = reply[i - 2]
        BY <2>4, <3>3
      <4>2. s[i].gen = g /\ s[i].type # "interrupted"
        BY <2>1, <4>1 DEF Speech
      <4>3. 2 \in DOMAIN s /\ 2 < i /\ s[2].type = "final" BY <1>2, <2>4, <4>1
      <4> QED BY <4>2, <4>3
    <3> QED BY <3>1, <3>2, <3>3
  <2>6. ASSUME NEW i \in DOMAIN s, s[i].type = "chunk"
        PROVE  \E j \in DOMAIN s : j < i /\ s[j].type = "phase"
    <3>1. i \in Nat /\ i - 2 \in DOMAIN reply /\ s[i] = reply[i - 2]
      BY <1>2, <2>4, <2>6
    <3>2. PICK j \in DOMAIN reply : j < i - 2 /\ reply[j].type = "phase"
      BY <2>1, <2>6, <3>1
    <3> QED BY <2>4, <3>1, <3>2
  <2>7. s # <<>> BY <2>4
  <2> QED BY <2>5, <2>6, <2>7
<1>7. CASE kind = "utterance"
  BY <1>1, <1>5, <1>6, <1>7 DEF Script
<1>8. CASE kind = "reply"
  <2>1. s \in Replies(g) BY <1>8 DEF Script
  <2> QED BY <1>8, <2>1, RepliesHold DEF Speech
<1>9. CASE kind = "say"
  <2>1. PICK n \in 1..MaxChunks : s = <<E("status", g)>> \o Spoken(g, n)
    BY <1>9 DEF Script
  <2>2. n \in Nat BY PlaybackAssumption
  <2>3. Spoken(g, n) \in Seq(WireEvent) BY <2>2, SpokenIsWired
  <2> DEFINE rest == Spoken(g, n)
  <2>4. s = <<E("status", g)>> \o rest BY <2>1
  <2>5. \A i \in DOMAIN rest : rest[i].gen = g /\ rest[i].type \in Speech
    BY <2>2, SpokenGens
  <2> HIDE DEF rest
  <2>6. rest \in Seq(WireEvent) BY <2>3 DEF rest
  <2>7. /\ s # <<>> /\ 1 \in DOMAIN s /\ s[1] = E("status", g)
        /\ \A i \in DOMAIN s :
             \/ i = 1
             \/ /\ i \in Nat /\ 1 < i /\ i - 1 \in DOMAIN rest
                /\ s[i] = rest[i - 1]
    BY <1>4, <2>4, <2>6, AfterOne
  <2> QED BY <1>1, <1>2, <1>9, <2>5, <2>7 DEF Speech
<1> QED BY <1>7, <1>8, <1>9

-----------------------------------------------------------------------------
(* The order is kept.                                                      *)

\* What the handling of the next event does to the gate.
LEMMA EventMoves ==
  ASSUME TypeInv, ReceiveEvent
  PROVE  /\ down # <<>> /\ Head(down) \in WireEvent /\ down' = Tail(down)
         /\ UNCHANGED <<up, response, notices, asked, wanted, cut>>
         /\ \/ audio'.active = audio.active
            \/ /\ audio'.active = Head(down).gen /\ TakesOver(audio, Head(down))
               /\ Head(down).type # "interrupted"
<1> DEFINE e == Head(down)
<1>1. /\ down # <<>> /\ down' = Tail(down)
      /\ UNCHANGED <<up, response, notices, asked, wanted, cut>>
  BY DEF ReceiveEvent, serverVars, personVars
<1>2. e \in WireEvent /\ audio \in Gate BY <1>1 DEF TypeInv, TypeOK
<1>3. /\ Observe(audio, e) \in Gate
      /\ \/ Observe(audio, e).active = audio.active
         \/ /\ Observe(audio, e).active = e.gen /\ TakesOver(audio, e)
            /\ e.type # "interrupted"
  BY <1>2, ObserveMoves
<1>4. \/ audio' = audio \/ audio' = Observe(audio, e)
      \/ audio' = RejectActive(Observe(audio, e))
  BY DEF ReceiveEvent
<1>5. RejectActive(Observe(audio, e)).active = Observe(audio, e).active
  BY <1>3, RejectActiveRecords
<1> HIDE DEF e
<1>6. \/ audio'.active = audio.active
      \/ /\ audio'.active = e.gen /\ TakesOver(audio, e) /\ e.type # "interrupted"
  BY <1>3, <1>4, <1>5
<1> QED BY <1>1, <1>2, <1>6 DEF e

\* The steps that leave what there is of answers where it was, or bring it on.
LEMMA RequestsKept ==
  ASSUME TypeInv, RequestsAreNew, UNCHANGED <<up, asked>>,
         \A g \in Nat : Within(audio.active, down, notices, response, g) =>
                          Within(audio'.active, down', notices', response', g)
  PROVE  RequestsAreNew'
<1>1. /\ asked \in Nat
      /\ \A i \in DOMAIN up : /\ up[i].gen \in Nat
                              /\ up[i].kind # "interrupt" => up[i].gen # NoGeneration
  BY Numbers
<1>2. \A i \in DOMAIN up : up[i].kind # "interrupt" => up[i].gen - 1 \in Nat
  BY <1>1 DEF NoGeneration
<1>3. up' = up /\ asked' = asked OBVIOUS
<1>4. Within(audio'.active, down', notices', response', asked)
  BY <1>1 DEF RequestsAreNew, SoFar
<1>5. \A i \in DOMAIN up : up[i].kind # "interrupt" =>
        Within(audio'.active, down', notices', response', up[i].gen - 1)
  BY <1>2 DEF RequestsAreNew, SoFar
<1> QED BY <1>3, <1>4, <1>5 DEF RequestsAreNew, SoFar

\* A notice is sent, or the answer's next event.
LEMMA NoticeOrder ==
  ASSUME TypeInv, OrderInv, SendNotice
  PROVE  OrderInv'
<1> DEFINE e == Head(notices)
<1>1. /\ notices # <<>> /\ down' = Append(down, e) /\ notices' = Tail(notices)
      /\ UNCHANGED <<up, response, audio, asked>>
  BY DEF SendNotice, clientVars, personVars
<1>2. notices \in Seq(WireEvent) /\ down \in Seq(WireEvent) BY DEF TypeInv
<1>3. e = notices[1] /\ 1 \in DOMAIN notices /\ e \in WireEvent
  BY <1>1, <1>2, TailHolds
<1> HIDE DEF e
<1>4. e.type \notin Start BY <1>3 DEF OrderInv
<1>5. /\ \A i \in DOMAIN down' : (i \in DOMAIN down /\ down'[i] = down[i])
                                 \/ (i = Len(down) + 1 /\ down'[i] = e)
      /\ \A i \in DOMAIN notices' : i + 1 \in DOMAIN notices
                                    /\ notices'[i] = notices[i + 1]
  BY <1>1, <1>2, <1>3, AppendHolds, TailHolds
<1>6. StartsFrom(down', audio'.active) /\ Sorted(down')
  BY <1>1, <1>4, <1>5 DEF OrderInv, StartsFrom, Sorted
<1>7. \A i \in DOMAIN notices' : notices'[i].type \notin Start
  BY <1>5 DEF OrderInv
<1>8. ASSUME NEW g, Within(audio.active, down, notices, response, g)
      PROVE  Within(audio'.active, down', notices', response', g)
  BY <1>1, <1>3, <1>5, <1>8 DEF Within, UpTo
<1>9. RequestsAreNew' BY <1>1, <1>8, RequestsKept DEF OrderInv
<1>10. response'.left # <<>> =>
         Within(audio'.active, down', notices', response', response'.gen)
  BY <1>1, <1>8 DEF OrderInv, SoFar
<1> QED BY <1>1, <1>6, <1>7, <1>9, <1>10 DEF OrderInv, SoFar

LEMMA AnswerOrder ==
  ASSUME TypeInv, OrderInv, SendAnswer
  PROVE  OrderInv'
<1> DEFINE e == Head(response.left)
           r == [response EXCEPT !.left = Tail(@)]
<1>1. /\ response.left # <<>> /\ down' = Append(down, e) /\ response' = r
      /\ UNCHANGED <<up, notices, audio, asked>>
  BY DEF SendAnswer, clientVars, personVars
<1>2. response.left \in Seq(WireEvent) /\ down \in Seq(WireEvent) BY DEF TypeInv
<1>3. e = response.left[1] /\ 1 \in DOMAIN response.left /\ e \in WireEvent
  BY <1>1, <1>2, TailHolds
<1>4. r.gen = response.gen /\ r.left = Tail(response.left)
  BY DEF TypeInv, TypeOK
<1> HIDE DEF e, r
<1>5. /\ \A i \in DOMAIN down' : (i \in DOMAIN down /\ down'[i] = down[i])
                                 \/ (i = Len(down) + 1 /\ down'[i] = e)
      /\ Len(down) + 1 \in DOMAIN down' /\ DOMAIN down \subseteq Nat
      /\ \A i \in DOMAIN down : i < Len(down) + 1
      /\ \A i \in DOMAIN Tail(response.left) :
           i + 1 \in DOMAIN response.left
           /\ Tail(response.left)[i] = response.left[i + 1]
  BY <1>1, <1>2, <1>3, AppendHolds, TailHolds
<1>6. e.gen = response.gen BY <1>3 DEF OrderInv
<1>7. audio.active <= e.gen /\ UpTo(down, e.gen) /\ UpTo(notices, e.gen)
  BY <1>1, <1>6 DEF OrderInv, SoFar, Within
<1>8. StartsFrom(down', audio'.active) BY <1>1, <1>5, <1>7 DEF OrderInv, StartsFrom
<1>9. Sorted(down')
  <2>1. ASSUME NEW i \in DOMAIN down', NEW j \in DOMAIN down', i < j,
               down'[j].type \in Start
        PROVE  down'[i].gen <= down'[j].gen
    <3>1. i \in Nat /\ j \in Nat /\ Len(down) \in Nat BY <1>2, <1>5
    <3>2. CASE j \in DOMAIN down
      <4>1. i \in DOMAIN down BY <1>5, <2>1, <3>1, <3>2
      <4> QED BY <1>5, <2>1, <3>1, <3>2, <4>1 DEF OrderInv, Sorted
    <3>3. CASE j = Len(down) + 1 /\ down'[j] = e
      <4>1. i \in DOMAIN down /\ down'[i] = down[i] BY <1>5, <2>1, <3>1, <3>3
      <4> QED BY <1>7, <3>3, <4>1 DEF UpTo
    <3> QED BY <1>5, <3>2, <3>3
  <2> QED BY <2>1 DEF Sorted
<1>10. ASSUME NEW g, Within(audio.active, down, notices, response, g)
       PROVE  Within(audio'.active, down', notices', response', g)
  BY <1>1, <1>4, <1>5, <1>6, <1>10 DEF Within, UpTo
<1>11. RequestsAreNew' BY <1>1, <1>10, RequestsKept DEF OrderInv
<1>12. Within(audio'.active, down', notices', response', response'.gen)
  BY <1>1, <1>4, <1>10 DEF OrderInv, SoFar
<1>13. \A i \in DOMAIN response'.left : response'.left[i].gen = response'.gen
  BY <1>1, <1>4, <1>5 DEF OrderInv
<1> QED BY <1>1, <1>8, <1>9, <1>11, <1>12, <1>13 DEF OrderInv, SoFar

\* An event is handled.
LEMMA EventOrder ==
  ASSUME TypeInv, OrderInv, ReceiveEvent
  PROVE  OrderInv'
<1> DEFINE e == Head(down)
<1>1. /\ down # <<>> /\ e \in WireEvent /\ down' = Tail(down)
      /\ UNCHANGED <<up, response, notices, asked>>
      /\ \/ audio'.active = audio.active
         \/ audio'.active = e.gen /\ TakesOver(audio, e)
  BY EventMoves
<1>2. down \in Seq(WireEvent) BY DEF TypeInv
<1>3. /\ e = down[1] /\ 1 \in DOMAIN down
      /\ \A i \in DOMAIN down' : /\ i \in Nat /\ 0 < i /\ i + 1 \in DOMAIN down
                                 /\ down'[i] = down[i + 1]
  BY <1>1, <1>2, TailHolds
<1> HIDE DEF e
<1>4. /\ audio.active \in Nat /\ audio.active \in Nat /\ e.gen \in Nat
      /\ \A i \in DOMAIN down : down[i].gen \in Nat
  BY <1>3, Numbers
<1>5. audio'.active \in Nat /\ audio.active <= audio'.active
  BY <1>1, <1>3, <1>4 DEF TakesOver, OrderInv, StartsFrom, NoGeneration
<1>6. StartsFrom(down', audio'.active)
  <2>1. CASE audio'.active = audio.active
    BY <1>3, <2>1 DEF OrderInv, StartsFrom
  <2>2. CASE audio'.active = e.gen
    <3>1. ASSUME NEW i \in DOMAIN down', down'[i].type \in Start
          PROVE  e.gen <= down'[i].gen
      <4>1. 1 < i + 1 /\ i + 1 \in DOMAIN down /\ down'[i] = down[i + 1]
        BY <1>3
      <4> QED BY <1>3, <3>1, <4>1 DEF OrderInv, Sorted
    <3> QED BY <2>2, <3>1 DEF StartsFrom
  <2> QED BY <1>1, <2>1, <2>2
<1>7. Sorted(down')
  <2>1. ASSUME NEW i \in DOMAIN down', NEW j \in DOMAIN down', i < j,
               down'[j].type \in Start
        PROVE  down'[i].gen <= down'[j].gen
    <3>1. /\ i + 1 < j + 1 /\ i + 1 \in DOMAIN down /\ j + 1 \in DOMAIN down
          /\ down'[i] = down[i + 1] /\ down'[j] = down[j + 1]
      BY <1>3, <2>1
    <3> QED BY <2>1, <3>1 DEF OrderInv, Sorted
  <2> QED BY <2>1 DEF Sorted
<1>8. ASSUME NEW g \in Nat, Within(audio.active, down, notices, response, g)
      PROVE  Within(audio'.active, down', notices', response', g)
  BY <1>1, <1>3, <1>8 DEF Within, UpTo
<1>9. RequestsAreNew' BY <1>1, <1>8, RequestsKept DEF OrderInv
<1>10. response'.left # <<>> =>
         Within(audio'.active, down', notices', response', response'.gen)
  BY <1>1, <1>8, Numbers DEF OrderInv, SoFar
<1> QED BY <1>1, <1>6, <1>7, <1>9, <1>10 DEF OrderInv, SoFar

\* A message is received: a stop, or a request that is answered.
LEMMA StopOrder ==
  ASSUME TypeInv, OrderInv, ServerReceives, ServerStops
  PROVE  OrderInv'
<1>1. /\ up # <<>> /\ up' = Tail(up) /\ UNCHANGED <<down, audio, asked>>
      /\ response' = Nothing
      /\ notices' = IF Responding THEN Interrupted(response.gen)
                    ELSE <<E("interrupted", NoGeneration)>>
  BY DEF ServerReceives, ServerStops, clientVars, personVars
<1>2. up \in Seq(Message) BY DEF TypeInv
<1>3. \A i \in DOMAIN up' : /\ i \in Nat /\ i + 1 \in DOMAIN up
                            /\ up'[i] = up[i + 1]
  BY <1>1, <1>2, TailHolds
<1>4. response'.left = <<>> BY <1>1 DEF Nothing
<1>5. \A i \in DOMAIN notices' :
        /\ notices'[i].type \notin Start
        /\ \/ notices'[i].gen = NoGeneration
           \/ response.left # <<>> /\ notices'[i].gen = response.gen
  BY <1>1 DEF Interrupted, E, Start, Responding
<1>6. /\ \A i \in DOMAIN up : up[i].gen \in Nat
                              /\ (up[i].kind # "interrupt" => up[i].gen # NoGeneration)
      /\ asked \in Nat
  BY Numbers
<1>7. ASSUME NEW g \in Nat, Within(audio.active, down, notices, response, g)
      PROVE  Within(audio'.active, down', notices', response', g)
  BY <1>1, <1>4, <1>5, <1>7 DEF Within, UpTo, NoGeneration
<1>8. Within(audio'.active, down', notices', response', asked')
  BY <1>1, <1>6, <1>7 DEF OrderInv, RequestsAreNew, SoFar
<1>9. ASSUME NEW i \in DOMAIN up', up'[i].kind # "interrupt"
      PROVE  /\ up'[i].gen <= asked'
             /\ Within(audio'.active, down', notices', response', up'[i].gen - 1)
             /\ \A j \in DOMAIN up' : i < j /\ up'[j].kind # "interrupt" =>
                  up'[i].gen < up'[j].gen
  <2>1. i \in Nat /\ i + 1 \in DOMAIN up /\ up'[i] = up[i + 1] BY <1>3
  <2>2. /\ up[i + 1].gen <= asked
        /\ Within(audio.active, down, notices, response, up[i + 1].gen - 1)
        /\ \A j \in DOMAIN up : i + 1 < j /\ up[j].kind # "interrupt" =>
             up[i + 1].gen < up[j].gen
    BY <1>9, <2>1 DEF OrderInv, RequestsAreNew, SoFar
  <2>3. up[i + 1].gen - 1 \in Nat BY <1>6, <1>9, <2>1 DEF NoGeneration
  <2>4. Within(audio'.active, down', notices', response', up[i + 1].gen - 1)
    BY <1>7, <2>2, <2>3
  <2>5. \A j \in DOMAIN up' : i < j => i + 1 < j + 1
    BY <1>3, <2>1
  <2> QED BY <1>1, <1>3, <2>1, <2>2, <2>4, <2>5
<1>10. StartsFrom(down', audio'.active) /\ Sorted(down')
  BY <1>1 DEF OrderInv
<1> QED BY <1>4, <1>5, <1>8, <1>9, <1>10 DEF OrderInv, RequestsAreNew, SoFar

LEMMA RequestOrder ==
  ASSUME TypeInv, OrderInv, ServerReceives, ServerAnswers
  PROVE  OrderInv'
<1> DEFINE m == Head(up)
<1>1. /\ up # <<>> /\ up' = Tail(up) /\ UNCHANGED <<down, audio, asked>>
      /\ m.kind # "interrupt"
      /\ notices' = IF m.kind = "reply" THEN Interruption(m) \o <<E("status", m.gen)>>
                    ELSE Interruption(m)
  BY DEF ServerReceives, ServerAnswers, clientVars, personVars
<1>2. up \in Seq(Message) BY DEF TypeInv
<1>3. /\ \A i \in DOMAIN up' : /\ i \in Nat /\ 0 < i /\ i + 1 \in DOMAIN up
                               /\ up'[i] = up[i + 1]
      /\ 1 \in DOMAIN up /\ up[1] = m /\ m \in Message
  BY <1>1, <1>2, TailHolds
<1>4. /\ \A i \in DOMAIN up : up[i].gen \in Nat
                              /\ (up[i].kind # "interrupt" => up[i].gen # NoGeneration)
      /\ asked \in Nat /\ response.gen \in Nat
  BY Numbers
<1>5. m.kind \in {"utterance", "reply", "say"} /\ m.gen \in Generation /\ m.gen \in Nat
  BY <1>1, <1>3, <1>4 DEF Message, ServerMessage, MaybeGeneration
<1>6. PICK script \in Script(m.kind, m.gen) :
        response' = [kind |-> m.kind, gen |-> m.gen, left |-> script]
  BY DEF ServerAnswers
<1>7. \A i \in DOMAIN script : script[i].gen = m.gen
  BY <1>5, ScriptsHold
<1>8. response'.gen = m.gen /\ response'.left = script BY <1>6
<1>9. \A i \in DOMAIN notices' :
        /\ notices'[i].type \notin Start
        /\ \/ notices'[i].gen = m.gen
           \/ response.left # <<>> /\ notices'[i].gen = response.gen
  BY <1>1 DEF Interruption, Interrupted, E, Start, Responding
<1> HIDE DEF m
<1>10. /\ m.gen <= asked
       /\ Within(audio.active, down, notices, response, m.gen - 1)
  BY <1>1, <1>3 DEF OrderInv, RequestsAreNew, SoFar
<1>11. audio.active \in Nat /\ (\A i \in DOMAIN down : down[i].gen \in Nat)
  BY Numbers
<1>12. ASSUME NEW g \in Nat, m.gen <= g
       PROVE  Within(audio'.active, down', notices', response', g)
  <2>1. audio'.active = audio.active /\ down' = down BY <1>1
  <2>2. /\ audio.active <= m.gen - 1
        /\ \A i \in DOMAIN down : down[i].gen <= m.gen - 1
        /\ response.left # <<>> => response.gen <= m.gen - 1
    BY <1>10 DEF Within, UpTo
  <2>3. audio.active <= g /\ \A i \in DOMAIN down : down[i].gen <= g
    BY <2>2, <1>5, <1>11, <1>12
  <2>4. response.left # <<>> => response.gen <= g
    BY <2>2, <1>4, <1>5, <1>12
  <2>5. \A i \in DOMAIN notices' : notices'[i].gen <= g
    BY <2>4, <1>9, <1>12
  <2>6. response'.gen <= g BY <1>8, <1>12
  <2> QED BY <2>1, <2>3, <2>5, <2>6 DEF Within, UpTo
<1>13. ASSUME NEW i \in DOMAIN up', up'[i].kind # "interrupt"
       PROVE  /\ up'[i].gen <= asked'
              /\ Within(audio'.active, down', notices', response', up'[i].gen - 1)
              /\ \A j \in DOMAIN up' : i < j /\ up'[j].kind # "interrupt" =>
                   up'[i].gen < up'[j].gen
  <2>1. /\ i \in Nat /\ 1 < i + 1 /\ i + 1 \in DOMAIN up /\ up'[i] = up[i + 1]
    BY <1>3
  <2>2. /\ up[i + 1].gen <= asked
        /\ \A j \in DOMAIN up : i + 1 < j /\ up[j].kind # "interrupt" =>
             up[i + 1].gen < up[j].gen
    BY <1>13, <2>1 DEF OrderInv, RequestsAreNew
  <2>3. m.gen < up[i + 1].gen
    BY <1>1, <1>3, <1>13, <2>1 DEF OrderInv, RequestsAreNew
  <2>4. up[i + 1].gen - 1 \in Nat /\ m.gen <= up[i + 1].gen - 1
    BY <1>4, <1>5, <2>1, <2>3
  <2>5. Within(audio'.active, down', notices', response', up[i + 1].gen - 1)
    BY <1>12, <2>4
  <2>6. \A j \in DOMAIN up' : i < j => i + 1 < j + 1
    BY <1>3, <2>1
  <2> QED BY <1>1, <1>3, <2>1, <2>2, <2>5, <2>6
<1>14. StartsFrom(down', audio'.active) /\ Sorted(down')
  BY <1>1 DEF OrderInv
<1>15. /\ Within(audio'.active, down', notices', response', asked')
       /\ Within(audio'.active, down', notices', response', response'.gen)
  BY <1>1, <1>4, <1>5, <1>8, <1>10, <1>12
<1> QED BY <1>7, <1>8, <1>9, <1>13, <1>14, <1>15
        DEF OrderInv, RequestsAreNew, SoFar

\* The application asks or stops.  What is sent is at the end of up.
LEMMA PersonSends ==
  ASSUME TypeInv, PersonStep
  PROVE  /\ UNCHANGED <<response, notices, down, missed, cut>>
         /\ audio' = audio \/ audio' = RejectActive(audio)
         /\ \/ /\ up' = Append(up, [kind |-> "interrupt", gen |-> NoGeneration])
               /\ asked' = asked /\ wanted' = NoGeneration
            \/ \E kind \in {"utterance", "reply", "say"} :
                 /\ \/ up' = Append(up, [kind |-> kind, gen |-> asked + 1])
                    \/ up' = Append(Append(up, [kind |-> "interrupt", gen |-> NoGeneration]),
                                    [kind |-> kind, gen |-> asked + 1])
                 /\ asked < MaxAsked /\ asked' = asked + 1 /\ wanted' = asked + 1
<1>1. ASSUME NEW f \in Stop, PressStop(f)
      PROVE  /\ UNCHANGED <<response, notices, down, missed, cut, asked>>
             /\ audio' = RejectActive(audio) /\ wanted' = NoGeneration
             /\ up' = Append(up, [kind |-> "interrupt", gen |-> NoGeneration])
  BY <1>1 DEF PressStop, Interrupting, serverVars
<1>2. ASSUME NEW kind \in {"utterance", "reply", "say"}, Ask(kind)
      PROVE  /\ UNCHANGED <<response, notices, down, missed, cut, audio>>
             /\ up' = Append(up, [kind |-> kind, gen |-> asked + 1])
             /\ asked < MaxAsked /\ asked' = asked + 1 /\ wanted' = asked + 1
  BY <1>2 DEF Ask, serverVars, clientVars
<1>3. ASSUME NEW kind \in {"reply", "say"}, NEW f \in Stop, AskOver(kind, f)
      PROVE  /\ UNCHANGED <<response, notices, down, missed, cut>>
             /\ audio' = RejectActive(audio)
             /\ up' = Append(Append(up, [kind |-> "interrupt", gen |-> NoGeneration]),
                             [kind |-> kind, gen |-> asked + 1])
             /\ asked < MaxAsked /\ asked' = asked + 1 /\ wanted' = asked + 1
  <2>1. up \in Seq(Message) BY DEF TypeInv
  <2>2. up' = up \o <<[kind |-> "interrupt", gen |-> NoGeneration],
                      [kind |-> kind, gen |-> asked + 1]>>
    BY <1>3 DEF AskOver
  <2> DEFINE stop == [kind |-> "interrupt", gen |-> NoGeneration]
             ask == [kind |-> kind, gen |-> asked + 1]
  <2>3. up' = Append(Append(up, stop), ask)
    <3>1. up' = up \o <<stop, ask>> BY <2>2
    <3> HIDE DEF stop, ask
    <3> QED BY <2>1, <3>1
  <2> QED BY <1>3, <2>3 DEF AskOver, Interrupting, serverVars
<1> QED BY <1>1, <1>2, <1>3 DEF PersonStep

LEMMA PersonOrder ==
  ASSUME TypeInv, OrderInv, PersonStep
  PROVE  OrderInv'
<1> DEFINE stop == [kind |-> "interrupt", gen |-> NoGeneration]
<1>1. /\ UNCHANGED <<response, notices, down>> /\ audio'.active = audio.active
  BY PersonSends, RejectActiveRecords DEF TypeInv, TypeOK
<1>2. up \in Seq(Message) /\ DOMAIN up \subseteq Nat BY DEF TypeInv
<1>3. /\ \A i \in DOMAIN up : up[i].gen \in Nat
                              /\ (up[i].kind # "interrupt" => up[i].gen # NoGeneration)
      /\ asked \in Nat /\ audio.active \in Nat /\ response.gen \in Nat
      /\ (\A i \in DOMAIN down : down[i].gen \in Nat)
      /\ (\A i \in DOMAIN notices : notices[i].gen \in Nat)
  BY Numbers
<1>4. asked' \in Nat /\ asked <= asked' BY <1>3, PersonSends
<1>5. \A i \in DOMAIN up' :
        \/ i \in DOMAIN up /\ up'[i] = up[i]
        \/ /\ up'[i].kind # "interrupt" =>
                asked' = asked + 1 /\ up'[i].gen = asked + 1
           /\ \A j \in DOMAIN up' : i < j => up'[i].kind = "interrupt"
           /\ \A j \in DOMAIN up : j < i
  <2>1. stop \in Message
    BY DEF Message, ServerMessage, MaybeGeneration
  <2>2. CASE up' = Append(up, stop)
    <3>1. stop.kind = "interrupt" OBVIOUS
    <3> HIDE DEF stop
    <3> QED BY <1>2, <2>1, <2>2, <3>1, AppendHolds
  <2>3. ASSUME NEW kind \in {"utterance", "reply", "say"},
               asked < MaxAsked, asked' = asked + 1,
               \/ up' = Append(up, [kind |-> kind, gen |-> asked + 1])
               \/ up' = Append(Append(up, stop), [kind |-> kind, gen |-> asked + 1])
        PROVE  \A i \in DOMAIN up' :
                 \/ i \in DOMAIN up /\ up'[i] = up[i]
                 \/ /\ up'[i].kind # "interrupt" =>
                         asked' = asked + 1 /\ up'[i].gen = asked + 1
                    /\ \A j \in DOMAIN up' : i < j => up'[i].kind = "interrupt"
                    /\ \A j \in DOMAIN up : j < i
    <3> DEFINE ask == [kind |-> kind, gen |-> asked + 1]
    <3>1. stop.kind = "interrupt" /\ ask.gen = asked + 1 OBVIOUS
    <3>2. ask \in Message
      BY <1>3, <2>3, GateAssumption
         DEF Message, ServerMessage, MaybeGeneration, Generation, NoGeneration
    <3>3. CASE up' = Append(up, ask)
      <4> HIDE DEF ask
      <4> QED BY <1>2, <2>3, <3>1, <3>2, <3>3, AppendHolds
    <3>4. CASE up' = Append(Append(up, stop), ask)
      <4> HIDE DEF ask, stop
      <4>1. Append(up, stop) \in Seq(Message) /\ Len(Append(up, stop)) = Len(up) + 1
        BY <1>2, <2>1
      <4>2. \A i \in DOMAIN up' :
              \/ i \in DOMAIN up /\ up'[i] = up[i]
              \/ i = Len(up) + 1 /\ up'[i] = stop
              \/ i = Len(up) + 2 /\ up'[i] = ask
        BY <1>2, <2>1, <3>2, <3>4
      <4>3. \A i \in DOMAIN up' : i <= Len(up) + 2 /\ i \in Nat
        BY <1>2, <2>1, <3>2, <3>4
      <4>4. \A j \in DOMAIN up : j < Len(up) + 1 /\ j \in Nat
        BY <1>2
      <4>5. Len(up) \in Nat BY <1>2
      <4> QED BY <2>3, <3>1, <4>2, <4>3, <4>4, <4>5
    <3> QED BY <2>3, <3>3, <3>4
  <2> QED BY <2>2, <2>3, PersonSends
<1>6. Within(audio.active, down, notices, response, asked)
  BY DEF OrderInv, RequestsAreNew, SoFar
<1>7. Within(audio'.active, down', notices', response', asked')
  BY <1>1, <1>3, <1>4, <1>6 DEF Within, UpTo
<1>8. ASSUME NEW i \in DOMAIN up', up'[i].kind # "interrupt"
      PROVE  /\ up'[i].gen <= asked'
             /\ Within(audio'.active, down', notices', response', up'[i].gen - 1)
             /\ \A j \in DOMAIN up' : i < j /\ up'[j].kind # "interrupt" =>
                  up'[i].gen < up'[j].gen
  <2>1. CASE i \in DOMAIN up /\ up'[i] = up[i]
    <3>1. /\ up[i].gen <= asked
          /\ Within(audio.active, down, notices, response, up[i].gen - 1)
      BY <1>8, <2>1 DEF OrderInv, RequestsAreNew, SoFar
    <3>2. ASSUME NEW j \in DOMAIN up', i < j, up'[j].kind # "interrupt"
          PROVE  up[i].gen < up'[j].gen
      <4>1. CASE j \in DOMAIN up /\ up'[j] = up[j]
        BY <1>8, <2>1, <3>2, <4>1 DEF OrderInv, RequestsAreNew
      <4>2. CASE up'[j].gen = asked + 1
        BY <1>3, <2>1, <3>1, <4>2
      <4> QED BY <1>5, <3>2, <4>1, <4>2
    <3> QED BY <1>1, <1>3, <1>4, <2>1, <3>1, <3>2
  <2>2. CASE /\ asked' = asked + 1 /\ up'[i].gen = asked + 1
             /\ \A j \in DOMAIN up' : i < j => up'[i].kind = "interrupt"
    <3>1. up'[i].gen - 1 = asked BY <1>3, <2>2
    <3> QED BY <1>1, <1>3, <1>6, <1>8, <2>2, <3>1
  <2> QED BY <1>5, <1>8, <2>1, <2>2
<1> HIDE DEF stop
<1>9. /\ StartsFrom(down', audio'.active) /\ Sorted(down')
      /\ response'.left # <<>> =>
           Within(audio'.active, down', notices', response', response'.gen)
      /\ \A i \in DOMAIN notices' : notices'[i].type \notin Start
      /\ \A i \in DOMAIN response'.left : response'.left[i].gen = response'.gen
  BY <1>1 DEF OrderInv, SoFar
<1> QED BY <1>7, <1>8, <1>9 DEF OrderInv, RequestsAreNew, SoFar

LEMMA QuietOrder ==
  ASSUME TypeInv, OrderInv,
         \/ AppendEnds \/ ContextClosed \/ ChunkPlayed \/ UNCHANGED vars
         \/ \E f \in Flusher : Settle(f)
  PROVE  OrderInv'
<1>1. UNCHANGED <<up, response, notices, down, asked>>
  BY DEF AppendEnds, ContextClosed, ChunkPlayed, Settle, vars, serverVars, personVars
<1>2. audio' = audio \/ audio' = RejectActive(audio)
  BY DEF AppendEnds, ContextClosed, ChunkPlayed, Settle, vars, clientVars
<1>3. audio'.active = audio.active
  BY <1>2, RejectActiveRecords DEF TypeInv, TypeOK
<1> QED BY <1>1, <1>3 DEF OrderInv, RequestsAreNew, SoFar

LEMMA OrderIsKept == TypeInv /\ OrderInv /\ [Next]_vars => OrderInv'
<1>1. ASSUME TypeInv, OrderInv, ServerStep PROVE OrderInv'
  BY <1>1, StopOrder, RequestOrder, NoticeOrder, AnswerOrder
     DEF ServerStep, ServerReceives
<1> QED BY <1>1, EventOrder, QuietOrder, PersonOrder DEF Next, ClientStep

LEMMA OrderBegins == Init => OrderInv
  BY DEF Init, OrderInv, RequestsAreNew, SoFar, Within, UpTo, StartsFrom, Sorted,
         Nothing, OpenGate, NoGeneration

-----------------------------------------------------------------------------
(* The gates and the player.                                               *)

GateInv ==
  /\ owner = audio
  \* A chunk that awaits resume() is of the active generation, and unless it
  \* is to be scheduled the generation has been rejected.
  /\ append # NoGeneration => /\ audio.active = append
                              /\ context = "suspended" \/ Rejected(audio)
  \* A flush began by rejecting the active generation, and none that is older
  \* becomes active again.
  /\ \A f \in Flusher : flush[f].at \in {"closing", "waiting"} =>
       /\ flush[f].gen <= audio.active
       /\ audio.active = flush[f].gen => Rejected(audio)
  \* While the active generation is rejected there is no context to play in.
  /\ audio.active # NoGeneration /\ Rejects(audio, audio.active) => ~Open
  /\ \A i \in DOMAIN audio.rejected : audio.rejected[i] <= audio.active
  \* A context plays nothing before it runs, and nothing of what is to come.
  /\ context \in {"none", "suspended"} => playing = <<>>
  /\ \A i \in DOMAIN playing : playing[i] <= audio.active

\* The two gates and the player at the next event: it is an interruption that
\* is let through, a chunk that is, or something that does not reach the player.
LEMMA EventCases ==
  ASSUME TypeInv, GateInv, OrderInv, ReceiveEvent
  PROVE  /\ audio' = Observe(audio, Head(down)) /\ owner' = audio'
         /\ append = NoGeneration /\ audio.active <= audio'.active
         /\ \/ /\ Head(down).type = "interrupted" /\ ShouldAccept(audio, Head(down))
               /\ audio' = RejectActive(audio) /\ BeginPreempt(Sequencer)
               /\ UNCHANGED <<append, playing, missed>>
            \/ /\ Head(down).type = "chunk" /\ ShouldAccept(audio, Head(down))
               /\ audio'.active = Head(down).gen /\ ~Rejects(audio', Head(down).gen)
               /\ audio'.rejected = audio.rejected
               /\ AppendChunk(Head(down).gen) /\ UNCHANGED <<flush, closer>>
            \/ /\ Head(down).type \in {"interrupted", "chunk"} =>
                    ~ShouldAccept(audio, Head(down)) /\ audio' = audio
               /\ NotPlayed(Head(down))
<1> DEFINE e == Head(down)
<1>1. e \in WireEvent /\ audio \in Gate BY EventMoves DEF TypeInv, TypeOK
<1>2. owner = audio BY DEF GateInv
<1>3. append = NoGeneration BY DEF ReceiveEvent
<1>4. audio.active <= Observe(audio, e).active
  <2>1. down \in Seq(WireEvent) /\ down # <<>> BY EventMoves DEF TypeInv
  <2>2. e = down[1] /\ 1 \in DOMAIN down BY <2>1, TailHolds
  <2>3. audio.active \in Nat /\ e.gen \in Nat BY <2>2, Numbers
  <2>4. e.type \in Start => audio.active <= e.gen
    BY <2>2 DEF OrderInv, StartsFrom
  <2>5. \/ Observe(audio, e).active = audio.active
        \/ Observe(audio, e).active = e.gen /\ TakesOver(audio, e)
    BY <1>1, ObserveMoves
  <2> HIDE DEF e
  <2> QED BY <2>3, <2>4, <2>5 DEF TakesOver, NoGeneration
<1>5. owner' = Observe(audio, e) BY <1>2 DEF ReceiveEvent
<1>6. CASE ~ShouldAccept(audio, e)
  <2>1. NotPlayed(e) /\ audio' = audio BY <1>2, <1>6 DEF ReceiveEvent
  <2>2. Observe(audio, e) = audio BY <1>6 DEF Observe
  <2> HIDE DEF e
  <2> QED BY <1>3, <1>4, <1>5, <1>6, <2>1, <2>2 DEF e
<1>7. CASE ShouldAccept(audio, e) /\ e.type = "interrupted"
  <2>1. /\ audio' = RejectActive(Observe(audio, e)) /\ BeginPreempt(Sequencer)
        /\ UNCHANGED <<append, playing, missed>>
    BY <1>2, <1>7 DEF ReceiveEvent
  <2>2. Observe(audio, e) = RejectActive(audio) BY <1>7 DEF Observe
  <2>3. RejectActive(RejectActive(audio)) = RejectActive(audio)
    BY <1>1, RejectActiveRecords, RejectActiveRejects
  <2> QED BY <1>3, <1>4, <1>5, <1>7, <2>1, <2>2, <2>3
<1>8. CASE ShouldAccept(audio, e) /\ e.type = "chunk"
  <2>1. /\ audio' = Observe(audio, e) /\ AppendChunk(e.gen)
        /\ UNCHANGED <<flush, closer>>
    BY <1>2, <1>8 DEF ReceiveEvent
  <2>2. /\ Observe(audio, e).active = e.gen /\ ~Rejects(Observe(audio, e), e.gen)
        /\ Observe(audio, e).rejected = audio.rejected
    BY <1>1, <1>8, ChunkActive
  <2> QED BY <1>3, <1>4, <1>5, <1>8, <2>1, <2>2
<1>9. CASE ShouldAccept(audio, e) /\ e.type \notin {"interrupted", "chunk"}
  <2>1. audio' = Observe(audio, e) /\ NotPlayed(e)
    BY <1>2, <1>9 DEF ReceiveEvent
  <2> QED BY <1>3, <1>4, <1>5, <1>9, <2>1
<1> QED BY <1>6, <1>7, <1>8, <1>9

\* Calling preemptAndFlush after rejecting the active generation.
LEMMA PreemptGate ==
  ASSUME TypeInv, GateInv, NEW f \in Flusher, BeginPreempt(f),
         audio' = RejectActive(audio), owner' = audio', UNCHANGED <<append, playing>>
  PROVE  GateInv' /\ ~Open'
<1>1. /\ audio \in Gate /\ flush \in [Flusher -> FlushState] /\ append' = append
      /\ playing' = playing /\ context \in ContextState
  BY DEF TypeInv, TypeOK
<1>2. /\ audio'.active = audio.active /\ Rejected(audio')
      /\ \A g : Rejects(audio', g) => Rejects(audio, g) \/ g = audio.active
  BY <1>1, RejectActiveRecords, RejectActiveRejects
<1>3. ~Open' /\ (context' = "closing" \/ context' = context)
      /\ (context' \in {"none", "suspended"} => context' = context)
  BY DEF BeginPreempt, CallFlush, Open
<1>4. audio.active \in Nat /\ audio.active <= audio.active BY Numbers
<1>5. /\ flush'[f].gen = audio.active
      /\ \A h \in Flusher : h # f => flush'[h] = flush[h]
  BY <1>1 DEF BeginPreempt
<1>6. \A h \in Flusher : flush'[h].at \in {"closing", "waiting"} =>
        /\ flush'[h].gen <= audio'.active
        /\ audio'.active = flush'[h].gen => Rejected(audio')
  <2>1. ASSUME NEW h \in Flusher, flush'[h].at \in {"closing", "waiting"}
        PROVE  flush'[h].gen <= audio.active
    BY <1>4, <1>5, <2>1 DEF GateInv
  <2> QED BY <1>2, <2>1
<1>7. \A i \in DOMAIN audio'.rejected : audio'.rejected[i] <= audio'.active
  BY <1>2, <1>4 DEF GateInv, Rejects
<1>8. append' # NoGeneration => audio'.active = append' /\ Rejected(audio')
  BY <1>1, <1>2 DEF GateInv
<1>9. context' \in {"none", "suspended"} => playing' = <<>>
  BY <1>1, <1>3 DEF GateInv
<1>10. \A i \in DOMAIN playing' : playing'[i] <= audio'.active
  BY <1>1, <1>2 DEF GateInv
<1> QED BY <1>3, <1>6, <1>7, <1>8, <1>9, <1>10 DEF GateInv

LEMMA EventGate ==
  ASSUME TypeInv, GateInv, OrderInv, ReceiveEvent
  PROVE  GateInv'
<1> DEFINE e == Head(down)
<1>1. /\ audio' = Observe(audio, e) /\ owner' = audio' /\ append = NoGeneration
      /\ audio.active <= audio'.active
  BY EventCases
<1>2. e \in WireEvent /\ audio \in Gate BY EventMoves DEF TypeInv, TypeOK
<1>3. audio' \in Gate /\ audio'.active \in Nat /\ audio.active \in Nat
      /\ audio.rejected \in Seq(Generation)
  <2>1. audio' \in Gate BY <1>1, <1>2, ObserveMoves
  <2>2. MaybeGeneration \subseteq Nat
    BY GateAssumption DEF MaybeGeneration, Generation, NoGeneration
  <2> QED BY <1>2, <2>1, <2>2 DEF Gate
<1>4. CASE /\ e.type = "interrupted" /\ audio' = RejectActive(audio)
           /\ BeginPreempt(Sequencer) /\ UNCHANGED <<append, playing>>
  <2>1. Sequencer \in Flusher BY DEF Flusher
  <2> QED BY <1>1, <1>4, <2>1, PreemptGate
<1>5. ASSUME e.type # "interrupted" \/ audio' = audio, UNCHANGED flush
      PROVE  /\ \A f \in Flusher : flush'[f].at \in {"closing", "waiting"} =>
                   /\ flush'[f].gen <= audio'.active
                   /\ audio'.active = flush'[f].gen => Rejected(audio')
             /\ audio'.active # NoGeneration /\ Rejects(audio', audio'.active) =>
                  audio'.active = audio.active /\ ~Open
             /\ \A i \in DOMAIN audio'.rejected : audio'.rejected[i] <= audio'.active
             /\ \A i \in DOMAIN playing : playing[i] <= audio'.active
  <2>1. ASSUME NEW f \in Flusher, flush'[f].at \in {"closing", "waiting"}
        PROVE  /\ flush'[f].gen <= audio'.active
               /\ audio'.active = flush'[f].gen => Rejected(audio')
    <3>1. /\ flush'[f] = flush[f] /\ flush[f].gen <= audio.active
          /\ audio.active = flush[f].gen => Rejected(audio)
      BY <1>5, <2>1 DEF GateInv
    <3>2. flush[f].gen \in Nat
      <4>1. flush[f] \in FlushState BY DEF TypeInv, TypeOK
      <4> QED BY <4>1, GateAssumption
              DEF FlushState, MaybeGeneration, Generation, NoGeneration
    <3>3. flush'[f].gen <= audio'.active BY <1>1, <1>3, <3>1, <3>2
    <3>4. ASSUME audio'.active = flush'[f].gen PROVE Rejected(audio')
      <4>1. audio'.active = audio.active /\ audio.active = flush[f].gen
        BY <1>1, <1>3, <3>1, <3>2, <3>4
      <4> QED BY <1>1, <1>2, <3>1, <4>1, ObserveKeepsRejected
    <3> QED BY <3>3, <3>4
  <2>2. ASSUME audio'.active # NoGeneration, Rejects(audio', audio'.active)
        PROVE  audio'.active = audio.active /\ ~Open
    <3>1. audio'.active = audio.active BY <1>1, <1>2, <2>2, ObserveMoves
    <3>2. audio'.rejected = audio.rejected BY <1>1, <1>2, <1>5, <3>1, ObserveMoves
    <3>3. Rejects(audio, audio.active) BY <2>2, <3>1, <3>2 DEF Rejects
    <3> QED BY <2>2, <3>1, <3>3 DEF GateInv
  <2>3. ASSUME NEW i \in DOMAIN audio'.rejected
        PROVE  audio'.rejected[i] <= audio'.active
    <3>1. Rejects(audio', audio'.rejected[i]) BY DEF Rejects
    <3>2. Rejects(audio, audio'.rejected[i]) \/ audio'.rejected[i] = audio.active
      BY <1>1, <1>2, <3>1, ObserveMoves
    <3>3. \A j \in DOMAIN audio.rejected :
            audio.rejected[j] \in Nat /\ audio.rejected[j] <= audio.active
      <4>1. \A j \in DOMAIN audio.rejected : audio.rejected[j] \in Generation
        BY <1>3
      <4>2. \A j \in DOMAIN audio.rejected : audio.rejected[j] <= audio.active
        BY DEF GateInv
      <4> QED BY <4>1, <4>2 DEF Generation
    <3> QED BY <1>1, <1>3, <3>2, <3>3 DEF Rejects
  <2>4. ASSUME NEW i \in DOMAIN playing PROVE playing[i] <= audio'.active
    <3>1. playing[i] \in Nat /\ playing[i] <= audio.active
      <4>1. playing[i] \in Generation BY DEF TypeInv, TypeOK
      <4>2. playing[i] <= audio.active BY DEF GateInv
      <4> QED BY <4>1, <4>2 DEF Generation
    <3> QED BY <1>1, <1>3, <3>1
  <2> QED BY <2>1, <2>2, <2>3, <2>4
<1>6. CASE /\ e.type = "chunk" /\ audio'.active = e.gen /\ ~Rejects(audio', e.gen)
           /\ AppendChunk(e.gen) /\ UNCHANGED <<flush, closer>>
  <2>1. append' # NoGeneration => append' = audio'.active /\ context' = "suspended"
    BY <1>1, <1>6 DEF AppendChunk
  <2>2. context' \in {"none", "suspended"} => playing' = <<>>
    BY <1>6 DEF AppendChunk, GateInv
  <2>3. ASSUME NEW i \in DOMAIN playing' PROVE playing'[i] <= audio'.active
    <3>1. playing' = playing \/ playing' = Append(playing, e.gen)
      BY <1>6 DEF AppendChunk
    <3>2. playing \in Seq(Generation) BY DEF TypeInv, TypeOK
    <3>3. audio'.active <= audio'.active BY <1>3
    <3> HIDE DEF e
    <3>4. playing'[i] = e.gen \/ (i \in DOMAIN playing /\ playing'[i] = playing[i])
      BY <3>1, <3>2
    <3>5. \A j \in DOMAIN playing : playing[j] <= audio'.active
      BY <1>5, <1>6
    <3> QED BY <1>6, <3>3, <3>4, <3>5
  <2>4. ~(audio'.active # NoGeneration /\ Rejects(audio', audio'.active))
    BY <1>6
  <2> HIDE DEF e
  <2>5. e.type # "interrupted" /\ flush' = flush BY <1>6
  <2> QED BY <1>1, <1>5, <2>1, <2>2, <2>3, <2>4, <2>5 DEF GateInv
<1>7. CASE /\ e.type \in {"interrupted", "chunk"} => audio' = audio
           /\ NotPlayed(e)
  <2>1. UNCHANGED <<append, flush, context, playing>>
    BY <1>7 DEF NotPlayed, playerVars
  <2>2. Open' = Open BY <2>1 DEF Open
  <2>3. append' = NoGeneration BY <1>1, <2>1
  <2> HIDE DEF e
  <2>4. e.type # "interrupted" \/ audio' = audio BY <1>7
  <2>5. context' \in {"none", "suspended"} => playing' = <<>>
    BY <2>1 DEF GateInv
  <2>6. \A i \in DOMAIN playing' : playing'[i] <= audio'.active
    BY <1>5, <2>1, <2>4
  <2> QED BY <1>1, <1>5, <2>1, <2>2, <2>3, <2>4, <2>5, <2>6 DEF GateInv
<1> QED BY <1>4, <1>6, <1>7, EventCases

LEMMA AppendGate ==
  ASSUME TypeInv, GateInv, AppendEnds
  PROVE  /\ GateInv' /\ UNCHANGED <<audio, owner>>
         /\ append # NoGeneration /\ append' = NoGeneration
         /\ \/ /\ context = "suspended" /\ context' = "running"
               /\ playing' = <<append>> /\ append = audio.active /\ missed' = missed
            \/ /\ context \in {"none", "closing"} /\ UNCHANGED <<context, playing>>
               /\ Rejected(audio) /\ missed' = missed \cup {append}
<1>1. /\ append # NoGeneration /\ append' = NoGeneration /\ owner' = owner
      /\ audio.active = append
  BY DEF AppendEnds, GateInv
<1>2. audio \in Gate /\ flush \in [Flusher -> FlushState]
  BY DEF TypeInv, TypeOK
<1>3. audio' = audio
  <2>1. CASE context = "suspended" BY <2>1 DEF AppendEnds
  <2>2. CASE context # "suspended"
    <3>1. Rejected(audio) BY <1>1, <2>2 DEF GateInv
    <3>2. RejectActive(audio) = audio BY <1>2, <3>1, RejectActiveRejects
    <3> QED BY <2>2, <3>2 DEF AppendEnds
  <2> QED BY <2>1, <2>2
<1>4. \A f \in Flusher : flush'[f].at = flush[f].at /\ flush'[f].gen = flush[f].gen
  <2>1. ASSUME NEW f \in Flusher
        PROVE  flush'[f].at = flush[f].at /\ flush'[f].gen = flush[f].gen
    <3>1. flush[f] \in FlushState BY <1>2
    <3>2. flush'[f] = [flush[f] EXCEPT !.pending = FALSE]
      BY DEF AppendEnds, ChainEmptied
    <3> QED BY <3>1, <3>2 DEF FlushState
  <2> QED BY <2>1
<1>5. \A f \in Flusher : flush'[f].at \in {"closing", "waiting"} =>
        /\ flush'[f].gen <= audio'.active
        /\ audio'.active = flush'[f].gen => Rejected(audio')
  BY <1>3, <1>4 DEF GateInv
<1>6. CASE /\ context = "suspended" /\ context' = "running"
           /\ playing' = Append(playing, append) /\ missed' = missed
  <2>1. playing = <<>> BY <1>6 DEF GateInv
  <2>2. playing' = <<append>> BY <1>6, <2>1
  <2>3. /\ playing'[1] = audio'.active /\ DOMAIN playing' = {1}
        /\ audio'.active <= audio'.active
    BY <1>1, <1>3, <2>2, Numbers
  <2>4. ~(audio'.active # NoGeneration /\ Rejects(audio', audio'.active))
    BY <1>3, <1>6 DEF GateInv, Open
  <2>5. GateInv'
    BY <1>1, <1>3, <1>5, <1>6, <2>3, <2>4 DEF GateInv
  <2> QED BY <1>1, <1>3, <1>6, <2>2, <2>5
<1>7. CASE /\ context \in {"none", "closing"} /\ UNCHANGED <<context, playing>>
           /\ missed' = missed \cup {append}
  <2>1. Rejected(audio) BY <1>1, <1>7 DEF GateInv
  <2>2. GateInv' BY <1>1, <1>3, <1>5, <1>7 DEF GateInv, Open
  <2> QED BY <1>1, <1>3, <1>7, <2>1, <2>2
<1>8. \/ /\ context = "suspended" /\ context' = "running"
         /\ playing' = Append(playing, append) /\ missed' = missed
      \/ /\ context \in {"none", "closing"} /\ UNCHANGED <<context, playing>>
         /\ missed' = missed \cup {append}
  BY DEF AppendEnds
<1> QED BY <1>6, <1>7, <1>8

\* A context that may still play is closed by Settle only when the active
\* generation has been rejected.
LEMMA SettleGate ==
  ASSUME TypeInv, GateInv, NEW f \in Flusher, Settle(f)
  PROVE  /\ GateInv' /\ UNCHANGED <<audio, append, playing, missed>>
         /\ \/ context' = context
            \/ Open /\ context' = "closing" /\ Rejected(audio)
<1>1. /\ UNCHANGED <<audio, owner, append, playing, missed>>
      /\ flush[f].at = "waiting" /\ flush \in [Flusher -> FlushState]
  BY DEF Settle, TypeInv, TypeOK
<1>2. /\ flush'[f].at \notin {"closing", "waiting"}
      /\ \A h \in Flusher : h # f => flush'[h] = flush[h]
  <2>1. Flushed(f).at \in {"off", "done"} BY DEF Flushed, NotFlushing
  <2>2. flush[f] \in FlushState BY <1>1
  <2>3. flush' = [flush EXCEPT ![f] = Flushed(f)]
        \/ flush' = [flush EXCEPT ![f].at = "settling"]
    BY DEF Settle
  <2>4. CASE flush' = [flush EXCEPT ![f] = Flushed(f)] BY <1>1, <2>1, <2>4
  <2>5. CASE flush' = [flush EXCEPT ![f].at = "settling"]
    BY <1>1, <2>2, <2>5 DEF FlushState
  <2> QED BY <2>3, <2>4, <2>5
<1>3. \/ context' = context
      \/ Open /\ context' = "closing" /\ ~Changed(f)
  BY DEF Settle, CallFlush
<1>4. ~Changed(f) => Rejected(audio)
  BY <1>1 DEF Changed, GateInv
<1>5. \A h \in Flusher : flush'[h].at \in {"closing", "waiting"} =>
        /\ flush'[h].gen <= audio'.active
        /\ audio'.active = flush'[h].gen => Rejected(audio')
  BY <1>1, <1>2 DEF GateInv
<1>6. CASE context' = context
  BY <1>1, <1>5, <1>6 DEF GateInv, Open
<1>7. CASE Open /\ context' = "closing" /\ Rejected(audio)
  BY <1>1, <1>5, <1>7 DEF GateInv, Open
<1> QED BY <1>1, <1>3, <1>4, <1>6, <1>7

LEMMA ClosedGate ==
  ASSUME TypeInv, GateInv, ContextClosed
  PROVE  GateInv'
<1>1. /\ UNCHANGED <<audio, owner, append>> /\ context = "closing"
      /\ context' = "none" /\ playing' = <<>>
      /\ flush \in [Flusher -> FlushState] /\ closer \in Flusher
  BY DEF ContextClosed, TypeInv, TypeOK
<1>2. \A f \in Flusher : flush'[f].at \in {"closing", "waiting"} =>
        flush[f].at \in {"closing", "waiting"} /\ flush'[f].gen = flush[f].gen
  <2>1. flush[closer] \in FlushState BY <1>1
  <2>2. Flushed(closer).at \in {"off", "done"} BY DEF Flushed, NotFlushing
  <2>3. flush' = [flush EXCEPT ![closer] =
                    IF flush[closer].at = "closing"
                      THEN [flush[closer] EXCEPT !.at = "waiting"]
                    ELSE Flushed(closer)]
    BY DEF ContextClosed
  <2>4. \A f \in Flusher : f # closer => flush'[f] = flush[f] BY <1>1, <2>3
  <2>5. flush[closer].at = "closing" => flush'[closer].gen = flush[closer].gen
    BY <1>1, <2>1, <2>3 DEF FlushState
  <2>6. flush[closer].at # "closing" => flush'[closer].at \in {"off", "done"}
    BY <1>1, <2>2, <2>3
  <2> QED BY <2>4, <2>5, <2>6
<1>3. \A f \in Flusher : flush'[f].at \in {"closing", "waiting"} =>
        /\ flush'[f].gen <= audio'.active
        /\ audio'.active = flush'[f].gen => Rejected(audio')
  BY <1>1, <1>2 DEF GateInv
<1>4. append' # NoGeneration => audio'.active = append' /\ Rejected(audio')
  BY <1>1 DEF GateInv
<1> QED BY <1>1, <1>3, <1>4 DEF GateInv, Open

LEMMA GateIsKept == TypeInv /\ OrderInv /\ GateInv /\ [Next]_vars => GateInv'
<1> SUFFICES ASSUME TypeInv, OrderInv, GateInv, [Next]_vars PROVE GateInv'
  OBVIOUS
<1>1. CASE UNCHANGED clientVars
  BY <1>1 DEF GateInv, clientVars, playerVars, Open
<1>2. CASE ChunkPlayed
  <2>1. /\ UNCHANGED <<audio, owner, append, flush, context>>
        /\ context = "running" /\ playing # <<>> /\ playing' = Tail(playing)
    BY <1>2 DEF ChunkPlayed
  <2>2. playing \in Seq(Generation) BY DEF TypeInv, TypeOK
  <2>3. \A i \in DOMAIN playing' : playing'[i] <= audio'.active
    BY <2>1, <2>2, TailHolds DEF GateInv
  <2> QED BY <2>1, <2>3 DEF GateInv, Open
<1>3. ASSUME NEW f \in Stop, Interrupting(f) PROVE GateInv'
  <2>1. /\ BeginPreempt(f) /\ audio' = RejectActive(audio) /\ owner' = audio'
        /\ UNCHANGED <<append, playing>> /\ f \in Flusher
    BY <1>3 DEF Interrupting, GateInv, Flusher
  <2> QED BY <2>1, PreemptGate
<1>4. CASE PersonStep
  BY <1>1, <1>3, <1>4 DEF PersonStep, PressStop, Ask, AskOver
<1>5. CASE ServerStep \/ UNCHANGED vars
  BY <1>1, <1>5 DEF ServerStep, ServerReceives, SendNotice, SendAnswer, vars
<1> QED BY <1>2, <1>4, <1>5, EventGate, AppendGate, SettleGate, ClosedGate
        DEF Next, ClientStep

LEMMA GateBegins == Init => GateInv
  BY DEF Init, GateInv, OpenGate, NotFlushing, Rejects, Open

-----------------------------------------------------------------------------
(* Interruptions on their way.                                             *)

\* An interruption that will be accepted, or has no audio to stop.
Stops(e) ==
  e.type = "interrupted" /\ (e.gen = NoGeneration \/ audio.active <= e.gen)
NoticedAt(k) ==
  /\ Stops(notices[k])
  /\ notices[k].gen # NoGeneration =>
       /\ UpTo(down, notices[k].gen)
       /\ \A i \in DOMAIN notices : i < k => notices[i].gen <= notices[k].gen
SentAt(k) ==
  /\ Stops(down[k])
  /\ down[k].gen # NoGeneration =>
       \A i \in DOMAIN down : i < k => down[i].gen <= down[k].gen

\* The handler of a stop, or of a request that cuts an answer short, has the
\* interruption among its notices.
LEMMA InterruptionIsNoticed ==
  ASSUME TypeInv, OrderInv, ServerReceives, Head(up).kind = "interrupt" \/ Responding
  PROVE  \E k \in DOMAIN notices' : NoticedAt(k)'
<1>1. UNCHANGED <<down, audio>> /\ up # <<>> /\ up \in Seq(Message)
  BY DEF ServerReceives, clientVars, TypeInv
<1>2. \A g : E("interrupted", g) = [type |-> "interrupted", gen |-> g]
  BY DEF E
<1>3. CASE ~Responding
  <2>1. notices' = <<E("interrupted", NoGeneration)>>
    BY <1>3 DEF ServerReceives, ServerStops, ServerAnswers
  <2>2. 1 \in DOMAIN notices' /\ notices'[1] = E("interrupted", NoGeneration)
    BY <2>1
  <2> QED BY <1>2, <2>2 DEF NoticedAt, Stops
<1>4. ASSUME NEW g \in Nat, audio.active <= g, UpTo(down, g), NEW k \in DOMAIN notices',
             notices'[k] = E("interrupted", g),
             \A i \in DOMAIN notices' : i < k => notices'[i].gen <= g
      PROVE  NoticedAt(k)'
  BY <1>1, <1>2, <1>4 DEF NoticedAt, Stops
<1>5. CASE Responding
  <2>1. /\ audio.active <= response.gen /\ UpTo(down, response.gen)
        /\ response.gen \in Nat
    BY <1>5, Numbers DEF Responding, OrderInv, SoFar, Within
  <2>2. CASE ServerStops
    <3>1. notices' = <<E("interrupted", response.gen), E("status", response.gen)>>
      BY <1>5, <2>2 DEF ServerStops, Interrupted
    <3>2. /\ 1 \in DOMAIN notices' /\ notices'[1] = E("interrupted", response.gen)
          /\ \A i \in DOMAIN notices' : ~(i < 1)
      BY <3>1
    <3> QED BY <1>4, <2>1, <3>2
  <2>3. CASE ServerAnswers
    <3> DEFINE m == Head(up)
    <3>1. m = up[1] /\ 1 \in DOMAIN up BY <1>1, TailHolds
    <3>2. m.kind # "interrupt" /\ m.gen \in Nat /\ m.gen # NoGeneration
      BY <2>3, <3>1, Numbers DEF ServerAnswers
    <3>3. /\ audio.active <= m.gen - 1 /\ UpTo(down, m.gen - 1)
      BY <3>1, <3>2 DEF OrderInv, RequestsAreNew, SoFar, Within
    <3>4. audio.active <= m.gen /\ UpTo(down, m.gen)
      <4>1. audio.active \in Nat /\ \A i \in DOMAIN down : down[i].gen \in Nat
        BY Numbers
      <4> HIDE DEF m
      <4> QED BY <3>2, <3>3, <4>1 DEF UpTo
    <3>5. notices' = IF m.kind = "reply"
                       THEN Interruption(m) \o <<E("status", m.gen)>>
                     ELSE Interruption(m)
      BY <2>3 DEF ServerAnswers
    <3> HIDE DEF m
    <3>6. E("status", m.gen).gen = m.gen BY DEF E
    <3>7. CASE m.kind = "utterance"
      <4>1. notices' = <<E("interrupted", response.gen), E("status", response.gen)>>
        BY <1>5, <3>5, <3>7 DEF Interruption, Interrupted
      <4>2. /\ 1 \in DOMAIN notices' /\ notices'[1] = E("interrupted", response.gen)
            /\ \A i \in DOMAIN notices' : ~(i < 1)
        BY <4>1
      <4> QED BY <1>4, <2>1, <4>2
    <3>8. CASE m.kind # "utterance"
      <4> DEFINE rest == Interrupted(m.gen)
                 s == Interruption(m)
                 last == <<E("status", m.gen)>>
      <4>1. /\ rest = <<E("interrupted", m.gen), E("status", m.gen)>>
            /\ s = <<E("status", m.gen)>> \o rest
        BY <1>5, <3>8 DEF Interruption, Interrupted
      <4>2. /\ rest \in Seq(WireEvent) /\ last \in Seq(WireEvent)
            /\ E("status", m.gen) \in WireEvent
        <5>1. m.gen \in MaybeGeneration /\ m.gen # NoGeneration
          <6>1. up[1] \in Message BY <3>1, Numbers
          <6>2. m \in Message BY <3>1, <6>1
          <6> QED BY <3>2, <6>2 DEF Message, ServerMessage
        <5> QED BY <5>1, InterruptedIsWired, EventsAreWired DEF EventType
      <4>3. 1 \in DOMAIN rest /\ rest[1] = E("interrupted", m.gen)
        BY <4>1
      <4>5. notices' = s \/ notices' = s \o last BY <3>5
      <4> HIDE DEF rest, s, last
      <4>6. /\ s \in Seq(WireEvent) /\ s # <<>>
            /\ 1 \in DOMAIN s /\ s[1] = E("status", m.gen)
            /\ \A i \in DOMAIN rest :
                 i \in Nat /\ i + 1 \in DOMAIN s /\ s[i + 1] = rest[i]
        BY <4>1, <4>2, AfterOne
      <4>7. 2 \in 1..Len(s) /\ s[2] = E("interrupted", m.gen)
        <5>1. 1 + 1 \in DOMAIN s /\ s[1 + 1] = E("interrupted", m.gen) BY <4>3, <4>6
        <5> QED BY <4>6, <5>1
      <4>8. \A i \in 1..Len(s) : i \in DOMAIN (s \o last) /\ (s \o last)[i] = s[i]
        BY <4>2, <4>6, JoinHolds
      <4>9. \A i \in DOMAIN notices' : i < 2 => i = 1
        <5>1. notices' \in Seq(WireEvent) BY ReceiveTypes DEF TypeInv
        <5> QED BY <5>1
      <4>10. 1 \in 1..Len(s) BY <4>6
      <4>11. /\ 2 \in DOMAIN notices' /\ notices'[2] = E("interrupted", m.gen)
             /\ notices'[1] = E("status", m.gen)
        <5>1. CASE notices' = s BY <4>6, <4>7, <5>1
        <5>2. CASE notices' = s \o last BY <4>6, <4>7, <4>8, <4>10, <5>2
        <5> QED BY <4>5, <5>1, <5>2
      <4>4. m.gen <= m.gen BY <3>2
      <4> QED BY <1>4, <3>2, <3>4, <3>6, <4>4, <4>9, <4>11
    <3> QED BY <3>7, <3>8
  <2> QED BY <2>2, <2>3 DEF ServerReceives
<1> QED BY <1>3, <1>5

\* An interruption among the notices comes nearer to the wire.
LEMMA NoticeMoves ==
  ASSUME TypeInv, SendNotice, NEW k \in DOMAIN notices, NoticedAt(k)
  PROVE  \/ \E j \in DOMAIN notices' : NoticedAt(j)'
         \/ \E j \in DOMAIN down' : SentAt(j)' /\ \A i \in DOMAIN down' : i <= j
<1> DEFINE e == Head(notices)
<1>1. /\ notices # <<>> /\ down' = Append(down, e) /\ notices' = Tail(notices)
      /\ audio' = audio /\ notices \in Seq(WireEvent) /\ down \in Seq(WireEvent)
  BY DEF SendNotice, TypeInv, clientVars
<1>2. e = notices[1] /\ e \in WireEvent BY <1>1, TailHolds
<1> HIDE DEF e
<1>3. /\ \A i \in DOMAIN down' : (i \in DOMAIN down /\ down'[i] = down[i])
                                 \/ (i = Len(down) + 1 /\ down'[i] = e)
      /\ Len(down) + 1 \in DOMAIN down' /\ down'[Len(down) + 1] = e
      /\ \A i \in DOMAIN down' : i <= Len(down) + 1
      /\ \A i \in DOMAIN notices' : /\ i \in Nat /\ 0 < i /\ i + 1 \in DOMAIN notices
                                    /\ notices'[i] = notices[i + 1]
      /\ k # 1 => k - 1 \in DOMAIN notices' /\ notices'[k - 1] = notices[k]
      /\ k \in Nat /\ 0 < k /\ Len(down) \in Nat
  BY <1>1, <1>2, AppendHolds, TailHolds
<1>4. CASE k = 1
  <2>1. /\ e.type = "interrupted" /\ (e.gen = NoGeneration \/ audio.active <= e.gen)
        /\ e.gen # NoGeneration => UpTo(down, e.gen)
    BY <1>2, <1>4 DEF NoticedAt, Stops
  <2>2. PICK j \in DOMAIN down' : j = Len(down) + 1 BY <1>3
  <2>3. down'[j] = e /\ \A i \in DOMAIN down' : i < j => i \in DOMAIN down
                                                /\ down'[i] = down[i]
    BY <1>3, <2>2
  <2>4. SentAt(j)' BY <1>1, <2>1, <2>3 DEF SentAt, Stops, UpTo
  <2> QED BY <1>3, <2>2, <2>4
<1>5. CASE k # 1
  <2>1. PICK j \in DOMAIN notices' : j = k - 1 BY <1>3, <1>5
  <2>2. /\ notices'[j] = notices[k] /\ j \in Nat /\ 1 < k
        /\ \A i \in DOMAIN notices' : i < j => i + 1 < k
    BY <1>3, <1>5, <2>1
  <2>3. /\ Stops(notices[k])
        /\ notices[k].gen # NoGeneration =>
             /\ UpTo(down, notices[k].gen) /\ e.gen <= notices[k].gen
             /\ \A i \in DOMAIN notices : i < k => notices[i].gen <= notices[k].gen
    BY <1>1, <1>2, <2>2, TailHolds DEF NoticedAt
  <2>4. notices[k].gen # NoGeneration => UpTo(down', notices[k].gen)
    BY <1>3, <2>3 DEF UpTo
  <2>5. notices[k].gen # NoGeneration =>
          \A i \in DOMAIN notices' : i < j => notices'[i].gen <= notices[k].gen
    BY <1>3, <2>2, <2>3
  <2>6. NoticedAt(j)'
    BY <1>1, <2>2, <2>3, <2>4, <2>5 DEF NoticedAt, Stops
  <2> QED BY <2>6
<1> QED BY <1>4, <1>5

\* What comes behind it does not matter to an interruption on the wire.
LEMMA SentStays ==
  ASSUME TypeInv, NEW k \in DOMAIN down, SentAt(k), NEW e \in WireEvent,
         down' = Append(down, e), audio' = audio
  PROVE  k \in DOMAIN down' /\ SentAt(k)'
<1>1. down \in Seq(WireEvent) BY DEF TypeInv
<1>2. /\ k \in DOMAIN down' /\ down'[k] = down[k]
      /\ \A i \in DOMAIN down' : i < k => i \in DOMAIN down /\ down'[i] = down[i]
  BY <1>1, AppendHolds
<1> QED BY <1>2 DEF SentAt, Stops

\* An event that is handled before an interruption does not make it stale.
LEMMA InterruptionStays ==
  ASSUME TypeInv, OrderInv, GateInv, ReceiveEvent
  PROVE  /\ \A k \in DOMAIN notices : NoticedAt(k) => NoticedAt(k)'
         /\ \A k \in DOMAIN down :
              /\ SentAt(k) /\ k # 1 => \E j \in DOMAIN down' : j + 1 = k /\ SentAt(j)'
              /\ SentAt(k) /\ k = 1 => ~Open'
<1> DEFINE e == Head(down)
<1>1. /\ down # <<>> /\ e \in WireEvent /\ down' = Tail(down) /\ notices' = notices
      /\ down \in Seq(WireEvent)
      /\ audio'.active = audio.active \/ audio'.active = e.gen
  BY EventMoves DEF TypeInv
<1>2. /\ e = down[1] /\ 1 \in DOMAIN down
      /\ \A i \in DOMAIN down' : /\ i \in Nat /\ 0 < i /\ i + 1 \in DOMAIN down
                                 /\ down'[i] = down[i + 1]
      /\ \A i \in DOMAIN down : /\ i \in Nat /\ 0 < i
                                /\ i # 1 => i - 1 \in DOMAIN down' /\ down'[i - 1] = down[i]
  BY <1>1, TailHolds
<1>3. ASSUME NEW k \in DOMAIN notices, NoticedAt(k) PROVE NoticedAt(k)'
  <2>1. notices[k].gen # NoGeneration => audio'.active <= notices[k].gen
    BY <1>1, <1>2, <1>3 DEF NoticedAt, Stops, UpTo
  <2>2. notices[k].gen # NoGeneration => UpTo(down', notices[k].gen)
    BY <1>2, <1>3 DEF NoticedAt, UpTo
  <2> QED BY <1>1, <1>3, <2>1, <2>2 DEF NoticedAt, Stops
<1>4. ASSUME NEW k \in DOMAIN down, SentAt(k), k # 1
      PROVE  \E j \in DOMAIN down' : j + 1 = k /\ SentAt(j)'
  <2>1. PICK j \in DOMAIN down' : j = k - 1 BY <1>2, <1>4
  <2>2. /\ j + 1 = k /\ down'[j] = down[k] /\ 1 < k
        /\ \A i \in DOMAIN down' : i < j => i + 1 < k
    BY <1>2, <1>4, <2>1
  <2>3. down[k].gen # NoGeneration =>
          audio'.active <= down[k].gen /\ \A i \in DOMAIN down : i < k => down[i].gen <= down[k].gen
    BY <1>1, <1>2, <1>4, <2>2 DEF SentAt, Stops
  <2>4. SentAt(j)'
    BY <1>2, <1>4, <2>2, <2>3 DEF SentAt, Stops
  <2> QED BY <2>2, <2>4
<1>5. ASSUME SentAt(1) PROVE ~Open'
  <2>1. e.type = "interrupted" /\ (e.gen = NoGeneration \/ audio.active <= e.gen)
    BY <1>2, <1>5 DEF SentAt, Stops
  <2>2. CASE ShouldAccept(audio, e)
    <3>1. BeginPreempt(Sequencer) BY <2>1, <2>2, EventCases
    <3> QED BY <3>1 DEF BeginPreempt, CallFlush, Open
  <2>3. CASE ~ShouldAccept(audio, e)
    <3>1. NotPlayed(e) BY <2>1, <2>3, EventCases
    <3>2. e.gen # NoGeneration /\ Rejects(audio, e.gen)
      BY <2>1, <2>3 DEF ShouldAccept, Scoped, Speech
    <3>3. e.gen <= audio.active BY <3>2 DEF GateInv, Rejects
    <3>4. e.gen \in Nat /\ audio.active \in Nat BY <1>2, Numbers
    <3> HIDE DEF e
    <3>5. e.gen = audio.active BY <2>1, <3>2, <3>3, <3>4
    <3>6. ~Open BY <3>2, <3>5 DEF GateInv
    <3> QED BY <3>1, <3>6 DEF NotPlayed, playerVars, Open
  <2> QED BY <2>2, <2>3
<1> QED BY <1>3, <1>4, <1>5

-----------------------------------------------------------------------------
(* After a stop that nothing followed.                                     *)

NoChunkAfter(k) == \A i \in DOMAIN down : k < i => down[i].type # "chunk"

\* The answer to the stop is among the notices, or on the wire with no chunk
\* behind it, or it has come and there is no context to play in.
StopComes ==
  \/ \E k \in DOMAIN notices : NoticedAt(k)
  \/ \E k \in DOMAIN down : SentAt(k) /\ NoChunkAfter(k)
  \/ ~Open /\ NoChunkAfter(0)
StopInv ==
  wanted = NoGeneration =>
    \/ up # <<>> /\ up[Len(up)].kind = "interrupt"
    \/ up = <<>> /\ response.left = <<>> /\ StopComes

LEMMA LastStays ==
  ASSUME NEW q \in Seq(Message), q # <<>>, Len(q) # 1
  PROVE  Tail(q) # <<>> /\ Tail(q)[Len(Tail(q))] = q[Len(q)]
<1>1. /\ Len(Tail(q)) = Len(q) - 1 /\ Len(q) \in Nat /\ Tail(q) \in Seq(Message)
      /\ \A i \in DOMAIN q : i # 1 => Tail(q)[i - 1] = q[i]
  BY TailHolds
<1>2. Len(q) \in DOMAIN q /\ Len(q) # 0 OBVIOUS
<1>3. Tail(q)[Len(q) - 1] = q[Len(q)] BY <1>1, <1>2
<1>4. Tail(q) # <<>>
  <2> DEFINE rest == Tail(q)
  <2>1. rest \in Seq(Message) /\ Len(rest) # 0 BY <1>1, <1>2
  <2> HIDE DEF rest
  <2>2. rest # <<>> BY <2>1
  <2> QED BY <2>2 DEF rest
<1> QED BY <1>1, <1>3, <1>4

LEMMA ServerStopKept ==
  ASSUME TypeInv, OrderInv, StopInv, ServerReceives
  PROVE  StopInv'
<1>1. /\ up # <<>> /\ up' = Tail(up) /\ UNCHANGED wanted /\ up \in Seq(Message)
  BY DEF ServerReceives, TypeInv, personVars
<1>2. CASE wanted # NoGeneration BY <1>1, <1>2 DEF StopInv
<1>3. CASE wanted = NoGeneration
  <2>1. up[Len(up)].kind = "interrupt" BY <1>1, <1>3 DEF StopInv
  <2>2. CASE Len(up) = 1
    <3>1. up' = <<>> /\ Head(up).kind = "interrupt" BY <1>1, <2>1, <2>2
    <3>2. response' = Nothing
      BY <3>1 DEF ServerReceives, ServerStops, ServerAnswers
    <3>3. \E k \in DOMAIN notices' : NoticedAt(k)'
      BY <3>1, InterruptionIsNoticed
    <3> QED BY <3>1, <3>2, <3>3 DEF StopInv, StopComes, Nothing
  <2>3. CASE Len(up) # 1
    <3>1. up' # <<>> /\ up'[Len(up')] = up[Len(up)] BY <1>1, <2>3, LastStays
    <3> QED BY <2>1, <3>1 DEF StopInv
  <2> QED BY <2>2, <2>3
<1> QED BY <1>2, <1>3

LEMMA NoticeStopKept ==
  ASSUME TypeInv, OrderInv, StopInv, SendNotice
  PROVE  StopInv'
<1> DEFINE e == Head(notices)
<1>1. /\ UNCHANGED <<up, response, wanted, context, audio>> /\ notices # <<>>
      /\ down' = Append(down, e) /\ notices' = Tail(notices)
      /\ notices \in Seq(WireEvent) /\ down \in Seq(WireEvent)
  BY DEF SendNotice, TypeInv, clientVars, playerVars, personVars
<1>2. e = notices[1] /\ 1 \in DOMAIN notices /\ e \in WireEvent BY <1>1, TailHolds
<1>3. e.type # "chunk" BY <1>2 DEF OrderInv, Start
<1> HIDE DEF e
<1>4. \A i \in DOMAIN down' : \/ i \in DOMAIN down /\ down'[i] = down[i]
                              \/ down'[i] = e
  BY <1>1, <1>2, AppendHolds
<1>5. ASSUME StopComes PROVE StopComes'
  <2>1. CASE \E k \in DOMAIN notices : NoticedAt(k)
    <3>1. CASE \E j \in DOMAIN notices' : NoticedAt(j)' BY <3>1 DEF StopComes
    <3>2. CASE \E j \in DOMAIN down' : SentAt(j)' /\ \A i \in DOMAIN down' : i <= j
      <4>1. PICK j \in DOMAIN down' : SentAt(j)' /\ \A i \in DOMAIN down' : i <= j
        BY <3>2
      <4>2. NoChunkAfter(j)'
        <5>1. DOMAIN down' \subseteq Nat BY <1>1, <1>2, AppendHolds
        <5> QED BY <4>1, <5>1 DEF NoChunkAfter
      <4> QED BY <4>1, <4>2 DEF StopComes
    <3> QED BY <2>1, <3>1, <3>2, NoticeMoves
  <2>2. ASSUME NEW k \in DOMAIN down, SentAt(k), NoChunkAfter(k) PROVE StopComes'
    <3>1. k \in DOMAIN down' /\ SentAt(k)' BY <1>1, <1>2, <2>2, SentStays
    <3>2. NoChunkAfter(k)' BY <1>3, <1>4, <2>2 DEF NoChunkAfter
    <3> QED BY <3>1, <3>2 DEF StopComes
  <2>3. CASE ~Open /\ NoChunkAfter(0)
    BY <1>1, <1>3, <1>4, <2>3 DEF StopComes, NoChunkAfter, Open
  <2> QED BY <1>5, <2>1, <2>2, <2>3 DEF StopComes
<1> QED BY <1>1, <1>5 DEF StopInv

LEMMA EventStopKept ==
  ASSUME TypeInv, OrderInv, GateInv, StopInv, ReceiveEvent
  PROVE  StopInv'
<1> DEFINE e == Head(down)
<1>1. /\ UNCHANGED <<up, response, notices, wanted>> /\ down # <<>>
      /\ down' = Tail(down) /\ down \in Seq(WireEvent)
  BY EventMoves DEF TypeInv
<1>2. /\ e = down[1] /\ 1 \in DOMAIN down
      /\ \A i \in DOMAIN down' : /\ i \in Nat /\ 0 < i /\ i + 1 \in DOMAIN down
                                 /\ down'[i] = down[i + 1]
  BY <1>1, TailHolds
<1>3. ASSUME StopComes PROVE StopComes'
  <2>1. CASE \E k \in DOMAIN notices : NoticedAt(k)
    BY <1>1, <2>1, InterruptionStays DEF StopComes
  <2>2. ASSUME NEW k \in DOMAIN down, SentAt(k), NoChunkAfter(k), k # 1
        PROVE  StopComes'
    <3>1. PICK j \in DOMAIN down' : j + 1 = k /\ SentAt(j)'
      BY <2>2, InterruptionStays
    <3>2. NoChunkAfter(j)'
      <4>1. \A i \in DOMAIN down' : j < i => k < i + 1
        BY <1>2, <3>1
      <4> QED BY <1>2, <2>2, <4>1 DEF NoChunkAfter
    <3> QED BY <3>1, <3>2 DEF StopComes
  <2>3. ASSUME SentAt(1), NoChunkAfter(1) PROVE StopComes'
    <3>1. ~Open' BY <1>2, <2>3, InterruptionStays
    <3>2. \A i \in DOMAIN down' : 1 < i + 1 BY <1>2
    <3>3. NoChunkAfter(0)' BY <1>2, <2>3, <3>2 DEF NoChunkAfter
    <3> QED BY <3>1, <3>3 DEF StopComes
  <2>4. CASE ~Open /\ NoChunkAfter(0)
    <3>1. e.type # "chunk" BY <1>2, <2>4 DEF NoChunkAfter
    <3>2. BeginPreempt(Sequencer) \/ NotPlayed(e) BY <3>1, EventCases
    <3>3. ~Open'
      BY <2>4, <3>2 DEF BeginPreempt, CallFlush, NotPlayed, playerVars, Open
    <3>4. \A i \in DOMAIN down' : 0 < i + 1 BY <1>2
    <3>5. NoChunkAfter(0)' BY <1>2, <2>4, <3>4 DEF NoChunkAfter
    <3> QED BY <3>3, <3>5 DEF StopComes
  <2> QED BY <1>3, <2>1, <2>2, <2>3, <2>4 DEF StopComes
<1> QED BY <1>1, <1>3 DEF StopInv

\* Where the events stay and no context is opened.
LEMMA StopComesStays ==
  ASSUME UNCHANGED <<notices, down>>, audio'.active = audio.active, ~Open => ~Open',
         StopComes
  PROVE  StopComes'
<1>1. \A k : (NoticedAt(k) => NoticedAt(k)') /\ (SentAt(k) => SentAt(k)')
             /\ (NoChunkAfter(k) => NoChunkAfter(k)')
  BY DEF NoticedAt, SentAt, Stops, NoChunkAfter
<1>2. NoChunkAfter(0) => NoChunkAfter(0)' BY DEF NoChunkAfter
<1>3. notices' = notices /\ down' = down OBVIOUS
<1> QED BY <1>1, <1>2, <1>3 DEF StopComes

LEMMA StopIsKept ==
  TypeInv /\ OrderInv /\ GateInv /\ StopInv /\ [Next]_vars => StopInv'
<1> SUFFICES ASSUME TypeInv, OrderInv, GateInv, StopInv, [Next]_vars PROVE StopInv'
  OBVIOUS
<1>1. CASE /\ UNCHANGED <<up, response, notices, down, wanted>>
           /\ audio'.active = audio.active /\ (~Open => ~Open')
  BY <1>1, StopComesStays DEF StopInv
<1>2. CASE SendAnswer
  BY <1>2 DEF SendAnswer, StopInv, personVars
<1>3. CASE AppendEnds
  <2>1. ~Open => ~Open' BY <1>3, AppendGate DEF Open
  <2>2. UNCHANGED <<up, response, notices, down, wanted>>
    BY <1>3 DEF AppendEnds, serverVars, personVars
  <2> QED BY <1>1, <1>3, <2>1, <2>2, AppendGate
<1>4. ASSUME NEW f \in Flusher, Settle(f) PROVE StopInv'
  <2>1. ~Open => ~Open' BY <1>4, SettleGate DEF Open
  <2>2. UNCHANGED <<up, response, notices, down, wanted>>
    BY <1>4 DEF Settle, serverVars, personVars
  <2> QED BY <1>1, <1>4, <2>1, <2>2, SettleGate
<1>5. CASE ContextClosed \/ ChunkPlayed \/ UNCHANGED vars
  BY <1>1, <1>5 DEF ContextClosed, ChunkPlayed, vars, serverVars, clientVars,
                    playerVars, personVars, Open
<1>6. CASE PersonStep
  <2> DEFINE stop == [kind |-> "interrupt", gen |-> NoGeneration]
  <2>1. up \in Seq(Message) /\ asked \in Nat BY Numbers DEF TypeInv
  <2>2. CASE up' = Append(up, stop)
    <3>1. up' # <<>> /\ up'[Len(up')] = stop BY <2>1, <2>2
    <3> QED BY <3>1 DEF StopInv
  <2>3. CASE wanted' = asked + 1
    BY <2>1, <2>3 DEF StopInv, NoGeneration
  <2> QED BY <1>6, <2>2, <2>3, PersonSends
<1> QED BY <1>2, <1>3, <1>4, <1>5, <1>6, ServerStopKept, NoticeStopKept, EventStopKept
        DEF Next, ServerStep, ClientStep

LEMMA StopBegins == Init => StopInv
  BY DEF Init, StopInv, StopComes, NoChunkAfter, Open, Nothing

\* The order of the events and the state of gates and player, in every
\* reachable state.
WireInv == OrderInv /\ GateInv
LEMMA Wired == Spec => [](TypeInv /\ WireInv)
<1>1. Init => TypeInv /\ WireInv
  BY InitTypes, OrderBegins, GateBegins DEF WireInv
<1>2. TypeInv /\ WireInv /\ [Next]_vars => (TypeInv /\ WireInv)'
  BY TypesArePreserved, OrderIsKept, GateIsKept DEF WireInv
<1> QED BY <1>1, <1>2, PTL DEF Spec

\* A stop reaches both gates and the player: session.ts drives the two gates at
\* different places and they never disagree; and when nothing follows
\* WebVoiceSession.interrupt and everything has settled, nothing is left to be
\* heard, whatever was on its way, however slow the sends and the closes are
\* and however many answers and stops came before.
THEOREM StopsAlwaysFinal == Spec => []StopsAreFinal
<1>1. Init => StopInv BY StopBegins
<1>2. (TypeInv /\ WireInv) /\ StopInv /\ [Next]_vars => StopInv'
  BY StopIsKept DEF WireInv
<1>3. TypeInv /\ WireInv /\ StopInv => StopsAreFinal
  <2>1. ASSUME TypeInv, GateInv, StopInv, Settled, wanted = NoGeneration
        PROVE  playing = <<>>
    <3>1. /\ up = <<>> /\ notices = <<>> /\ down = <<>> /\ context # "closing"
      BY <2>1 DEF Settled
    <3>2. ~Open BY <2>1, <3>1 DEF StopInv, StopComes
    <3>3. context = "none"
      BY <2>1, <3>1, <3>2 DEF TypeInv, TypeOK, ContextState, Open
    <3> QED BY <2>1, <3>3 DEF GateInv
  <2> QED BY <2>1 DEF WireInv, GateInv, StopsAreFinal, StopSilences, GatesAgree
<1> QED BY Wired, <1>1, <1>2, <1>3, PTL DEF Spec

-----------------------------------------------------------------------------
(* After an answer was cut short.                                          *)

NoChunkOf(g, k) ==
  \A i \in DOMAIN down : k < i => ~(down[i].type = "chunk" /\ down[i].gen = g)

\* Nothing of g will be played.
GoneFrom(g) ==
  /\ NoChunkOf(g, 0)
  /\ append = g => context # "suspended"
  /\ context = "closing" \/ \A i \in DOMAIN playing : playing[i] # g

\* The interruption is among the notices, or on the wire with nothing of the
\* answer behind it, or it has come.
CutComes(g) ==
  \/ \E k \in DOMAIN notices : NoticedAt(k)
  \/ \E k \in DOMAIN down : SentAt(k) /\ NoChunkOf(g, k)
  \/ GoneFrom(g)
CutInv ==
  \A g \in cut :
    /\ \A i \in DOMAIN up : up[i].kind # "interrupt" => g < up[i].gen
    /\ g <= asked
    /\ response.left # <<>> => g < response.gen
    /\ CutComes(g)

LEMMA CutNumbers == TypeInv => cut \subseteq Nat \ {NoGeneration}
  BY GateAssumption DEF TypeInv, TypeOK, Generation, NoGeneration

LEMMA ServerCutKept ==
  ASSUME TypeInv, OrderInv, CutInv, ServerReceives
  PROVE  CutInv'
<1>1. /\ up # <<>> /\ up' = Tail(up) /\ ~HandlerBusy /\ up \in Seq(Message)
      /\ UNCHANGED <<down, audio, append, context, playing, asked>>
      /\ cut' = CutShort
  BY DEF ServerReceives, ServerStops, ServerAnswers, TypeInv, clientVars,
         playerVars, personVars
<1>2. /\ \A i \in DOMAIN up' : /\ i \in Nat /\ i + 1 \in DOMAIN up
                               /\ up'[i] = up[i + 1]
      /\ 1 \in DOMAIN up /\ up[1] = Head(up)
  BY <1>1, TailHolds
<1>3. notices = <<>> BY <1>1 DEF HandlerBusy
<1>4. \A g \in cut : GoneFrom(g) => GoneFrom(g)'
  BY <1>1 DEF GoneFrom, NoChunkOf
<1>5. \A g, k : SentAt(k) /\ NoChunkOf(g, k) => SentAt(k)' /\ NoChunkOf(g, k)'
  BY <1>1 DEF SentAt, Stops, NoChunkOf
<1>6. ASSUME NEW g \in cut PROVE CutComes(g)'
  BY <1>1, <1>3, <1>4, <1>5 DEF CutInv, CutComes
<1>7. Responding => \A g : CutComes(g)'
  BY InterruptionIsNoticed DEF CutComes
<1>8. \A i \in DOMAIN up : up[i].kind # "interrupt" =>
        /\ \A g \in cut : g < up[i].gen
        /\ Responding => response.gen < up[i].gen
  <2>1. ASSUME NEW i \in DOMAIN up, up[i].kind # "interrupt", Responding
        PROVE  response.gen < up[i].gen
    <3>1. response.gen <= up[i].gen - 1
      BY <2>1 DEF OrderInv, RequestsAreNew, SoFar, Within, Responding
    <3>2. response.gen \in Nat /\ up[i].gen \in Nat BY <2>1, Numbers
    <3> QED BY <3>1, <3>2
  <2> QED BY <2>1 DEF CutInv
<1>9. Responding => response.gen <= asked
  BY DEF OrderInv, RequestsAreNew, SoFar, Within, Responding
<1>10. response'.left # <<>> =>
         up[1].kind # "interrupt" /\ response'.gen = up[1].gen
  <2>1. CASE ServerStops BY <2>1 DEF ServerStops, Nothing
  <2>2. CASE ServerAnswers BY <1>2, <2>2 DEF ServerAnswers
  <2> QED BY <2>1, <2>2 DEF ServerReceives
<1>11. ASSUME NEW g \in cut'
       PROVE  /\ \A i \in DOMAIN up' : up'[i].kind # "interrupt" => g < up'[i].gen
              /\ g <= asked'
              /\ response'.left # <<>> => g < response'.gen
              /\ CutComes(g)'
  <2>1. g \in cut \/ (Responding /\ g = response.gen) BY <1>1 DEF CutShort
  <2>2. /\ \A i \in DOMAIN up : up[i].kind # "interrupt" => g < up[i].gen
        /\ g <= asked
    BY <1>8, <1>9, <2>1 DEF CutInv
  <2>3. CutComes(g)' BY <1>6, <1>7, <2>1
  <2> QED BY <1>1, <1>2, <1>10, <2>2, <2>3
<1> QED BY <1>11 DEF CutInv

LEMMA NoticeCutKept ==
  ASSUME TypeInv, OrderInv, CutInv, SendNotice
  PROVE  CutInv'
<1> DEFINE e == Head(notices)
<1>1. /\ UNCHANGED <<up, response, asked, cut, append, context, playing, audio>>
      /\ notices # <<>> /\ down' = Append(down, e) /\ notices' = Tail(notices)
      /\ notices \in Seq(WireEvent) /\ down \in Seq(WireEvent)
  BY DEF SendNotice, TypeInv, clientVars, playerVars, personVars
<1>2. e = notices[1] /\ 1 \in DOMAIN notices /\ e \in WireEvent BY <1>1, TailHolds
<1>3. e.type # "chunk" BY <1>2 DEF OrderInv, Start
<1> HIDE DEF e
<1>4. /\ \A i \in DOMAIN down' : \/ i \in DOMAIN down /\ down'[i] = down[i]
                                 \/ down'[i] = e
      /\ DOMAIN down' \subseteq Nat
  BY <1>1, <1>2, AppendHolds
<1>5. \A g, k : NoChunkOf(g, k) => NoChunkOf(g, k)'
  BY <1>3, <1>4 DEF NoChunkOf
<1>6. ASSUME NEW g \in cut, CutComes(g) PROVE CutComes(g)'
  <2>1. CASE \E k \in DOMAIN notices : NoticedAt(k)
    <3>1. CASE \E j \in DOMAIN notices' : NoticedAt(j)' BY <3>1 DEF CutComes
    <3>2. CASE \E j \in DOMAIN down' : SentAt(j)' /\ \A i \in DOMAIN down' : i <= j
      <4>1. PICK j \in DOMAIN down' : SentAt(j)' /\ \A i \in DOMAIN down' : i <= j
        BY <3>2
      <4>2. NoChunkOf(g, j)' BY <1>4, <4>1 DEF NoChunkOf
      <4> QED BY <4>1, <4>2 DEF CutComes
    <3> QED BY <2>1, <3>1, <3>2, NoticeMoves
  <2>2. ASSUME NEW k \in DOMAIN down, SentAt(k), NoChunkOf(g, k) PROVE CutComes(g)'
    <3>1. k \in DOMAIN down' /\ SentAt(k)' BY <1>1, <1>2, <2>2, SentStays
    <3> QED BY <1>5, <2>2, <3>1 DEF CutComes
  <2>3. CASE GoneFrom(g)
    <3>1. NoChunkOf(g, 0)' BY <1>3, <1>4, <2>3 DEF GoneFrom, NoChunkOf
    <3> QED BY <1>1, <2>3, <3>1 DEF CutComes, GoneFrom
  <2> QED BY <1>6, <2>1, <2>2, <2>3 DEF CutComes
<1> QED BY <1>1, <1>6 DEF CutInv

\* Unless the recogniser of the next utterance may finish before the
\* interruption is sent, an answer is sent when the notices are out.
LEMMA AnswerCutKept ==
  ASSUME TypeInv, OrderInv, CutInv, SendAnswer, ~SlowSend
  PROVE  CutInv'
<1> DEFINE e == Head(response.left)
           r == [response EXCEPT !.left = Tail(@)]
<1>1. /\ UNCHANGED <<up, notices, asked, cut, append, context, playing, audio>>
      /\ notices = <<>> /\ response.left # <<>>
      /\ down' = Append(down, e) /\ response' = r
      /\ response.left \in Seq(WireEvent) /\ down \in Seq(WireEvent)
  BY DEF SendAnswer, TypeInv, clientVars, playerVars, personVars
<1>2. e = response.left[1] /\ 1 \in DOMAIN response.left /\ e \in WireEvent
  BY <1>1, TailHolds
<1>3. r.gen = response.gen BY DEF TypeInv, TypeOK
<1>4. e.gen = response.gen BY <1>2 DEF OrderInv
<1> HIDE DEF e, r
<1>5. /\ \A i \in DOMAIN down' : \/ i \in DOMAIN down /\ down'[i] = down[i]
                                 \/ down'[i] = e
  BY <1>1, <1>2, AppendHolds
<1>6. ASSUME NEW g \in cut PROVE CutComes(g)' /\ g < response'.gen
  <2>1. g < response.gen BY <1>1 DEF CutInv
  <2>2. g # e.gen BY <1>4, <2>1, CutNumbers, Numbers
  <2>3. \A k : NoChunkOf(g, k) => NoChunkOf(g, k)'
    BY <1>5, <2>2 DEF NoChunkOf
  <2>4. ASSUME NEW k \in DOMAIN down, SentAt(k), NoChunkOf(g, k) PROVE CutComes(g)'
    <3>1. k \in DOMAIN down' /\ SentAt(k)' BY <1>1, <1>2, <2>4, SentStays
    <3> QED BY <2>3, <2>4, <3>1 DEF CutComes
  <2>5. CASE GoneFrom(g)
    <3>1. NoChunkOf(g, 0)' BY <1>5, <2>2, <2>5 DEF GoneFrom, NoChunkOf
    <3>2. GoneFrom(g)' BY <1>1, <2>5, <3>1 DEF GoneFrom
    <3> QED BY <1>1, <1>3, <2>1, <3>2 DEF CutComes
  <2> QED BY <1>1, <1>3, <2>1, <2>4, <2>5 DEF CutInv, CutComes
<1> QED BY <1>1, <1>6 DEF CutInv

LEMMA EventCutKept ==
  ASSUME TypeInv, OrderInv, GateInv, GateInv', CutInv, ReceiveEvent
  PROVE  CutInv'
<1> DEFINE e == Head(down)
<1>1. /\ UNCHANGED <<up, response, notices, asked, cut>> /\ down # <<>>
      /\ down' = Tail(down) /\ down \in Seq(WireEvent) /\ append = NoGeneration
  BY EventMoves, EventCases DEF TypeInv
<1>2. /\ e = down[1] /\ 1 \in DOMAIN down
      /\ \A i \in DOMAIN down' : /\ i \in Nat /\ 0 < i /\ i + 1 \in DOMAIN down
                                 /\ down'[i] = down[i + 1]
  BY <1>1, TailHolds
<1>3. ASSUME NEW g \in cut, CutComes(g) PROVE CutComes(g)'
  <2>1. CASE \E k \in DOMAIN notices : NoticedAt(k)
    BY <1>1, <2>1, InterruptionStays DEF CutComes
  <2>2. ASSUME NEW k \in DOMAIN down, SentAt(k), NoChunkOf(g, k), k # 1
        PROVE  CutComes(g)'
    <3>1. PICK j \in DOMAIN down' : j + 1 = k /\ SentAt(j)'
      BY <2>2, InterruptionStays
    <3>2. NoChunkOf(g, j)'
      <4>1. \A i \in DOMAIN down' : j < i => k < i + 1 BY <1>2, <3>1
      <4> QED BY <1>2, <2>2, <4>1 DEF NoChunkOf
    <3> QED BY <3>1, <3>2 DEF CutComes
  <2>3. ASSUME SentAt(1), NoChunkOf(g, 1) PROVE CutComes(g)'
    <3>1. ~Open' BY <1>2, <2>3, InterruptionStays
    <3>2. \A i \in DOMAIN down' : 1 < i + 1 BY <1>2
    <3>3. NoChunkOf(g, 0)' BY <1>2, <2>3, <3>2 DEF NoChunkOf
    <3>4. context' \in {"none", "closing"}
      BY <3>1, EventTypes DEF TypeInv, TypeOK, ContextState, Open
    <3>5. GoneFrom(g)' BY <3>3, <3>4 DEF GoneFrom, GateInv
    <3> QED BY <3>5 DEF CutComes
  <2>4. CASE GoneFrom(g)
    <3>1. ~(e.type = "chunk" /\ e.gen = g) BY <1>2, <2>4 DEF GoneFrom, NoChunkOf
    <3>2. \A i \in DOMAIN down' : 0 < i + 1 BY <1>2
    <3>3. NoChunkOf(g, 0)' BY <1>2, <2>4, <3>2 DEF GoneFrom, NoChunkOf
    <3>4. g # NoGeneration BY CutNumbers
    <3>5. CASE BeginPreempt(Sequencer) /\ UNCHANGED <<append, playing>>
      <4>1. context' = "closing" \/ (context' = context /\ ~Open)
        BY <3>5 DEF BeginPreempt, CallFlush
      <4> QED BY <1>1, <2>4, <3>3, <3>4, <3>5, <4>1 DEF CutComes, GoneFrom
    <3>6. CASE e.type = "chunk" /\ AppendChunk(e.gen)
      <4>1. e.gen # g BY <3>1, <3>6
      <4>2. /\ append' = append \/ append' = e.gen
            /\ context = "closing" => context' = "closing"
            /\ playing' = playing \/ playing' = Append(playing, e.gen)
        BY <3>6 DEF AppendChunk
      <4>3. (\A i \in DOMAIN playing : playing[i] # g) =>
              \A i \in DOMAIN playing' : playing'[i] # g
        <5>1. playing \in Seq(Generation) BY DEF TypeInv, TypeOK
        <5> HIDE DEF e
        <5> QED BY <4>1, <4>2, <5>1
      <4>4. append' # g BY <1>1, <3>4, <4>1, <4>2
      <4> QED BY <2>4, <3>3, <4>2, <4>3, <4>4 DEF CutComes, GoneFrom
    <3>7. CASE NotPlayed(e)
      BY <2>4, <3>3, <3>7 DEF NotPlayed, playerVars, CutComes, GoneFrom
    <3> QED BY <3>5, <3>6, <3>7, EventCases
  <2> QED BY <1>3, <2>1, <2>2, <2>3, <2>4 DEF CutComes
<1> QED BY <1>1, <1>3 DEF CutInv

\* Where the events stay and nothing more is played.
LEMMA CutComesStays ==
  ASSUME UNCHANGED <<notices, down>>, audio'.active = audio.active, NEW g,
         GoneFrom(g) => GoneFrom(g)', CutComes(g)
  PROVE  CutComes(g)'
<1>1. \A k : (NoticedAt(k) => NoticedAt(k)') /\ (SentAt(k) => SentAt(k)')
             /\ (NoChunkOf(g, k) => NoChunkOf(g, k)')
  BY DEF NoticedAt, SentAt, Stops, NoChunkOf
<1>2. notices' = notices /\ down' = down OBVIOUS
<1> QED BY <1>1, <1>2 DEF CutComes

LEMMA PlayerCutKept ==
  ASSUME TypeInv, OrderInv, GateInv, CutInv,
         \/ AppendEnds \/ ContextClosed \/ ChunkPlayed \/ UNCHANGED vars
         \/ \E f \in Flusher : Settle(f)
  PROVE  CutInv'
<1>1. UNCHANGED <<up, response, notices, down, asked, cut>>
  BY DEF AppendEnds, ContextClosed, ChunkPlayed, Settle, vars, serverVars, personVars
<1>2. audio' = audio
  BY AppendGate, SettleGate DEF ContextClosed, ChunkPlayed, vars, clientVars
<1>3. ASSUME NEW g \in cut, GoneFrom(g) PROVE GoneFrom(g)'
  <2>1. g # NoGeneration BY CutNumbers
  <2>2. NoChunkOf(g, 0)' BY <1>1, <1>3 DEF GoneFrom, NoChunkOf
  <2>3. CASE AppendEnds
    <3>1. CASE context = "suspended" /\ playing' = <<append>>
      <4>1. append # g BY <1>3, <3>1 DEF GoneFrom
      <4>2. \A i \in DOMAIN playing' : playing'[i] # g BY <3>1, <4>1
      <4> QED BY <2>1, <2>2, <2>3, <4>2, AppendGate DEF GoneFrom
    <3>2. CASE UNCHANGED <<context, playing>>
      BY <1>3, <2>1, <2>2, <2>3, <3>2, AppendGate DEF GoneFrom
    <3> QED BY <2>3, <3>1, <3>2, AppendGate
  <2>4. ASSUME NEW f \in Flusher, Settle(f) PROVE GoneFrom(g)'
    <3>1. /\ UNCHANGED <<append, playing>>
          /\ context' = context \/ context' = "closing"
      BY <2>4, SettleGate
    <3> QED BY <1>3, <2>2, <3>1 DEF GoneFrom
  <2>5. CASE ContextClosed
    <3>1. context' = "none" /\ playing' = <<>> BY <2>5 DEF ContextClosed
    <3> QED BY <2>2, <3>1 DEF GoneFrom
  <2>6. CASE ChunkPlayed
    <3>1. UNCHANGED <<append, context>> /\ playing # <<>> /\ playing' = Tail(playing)
      BY <2>6 DEF ChunkPlayed
    <3>2. playing \in Seq(Generation) BY DEF TypeInv, TypeOK
    <3>3. (\A i \in DOMAIN playing : playing[i] # g) =>
            \A i \in DOMAIN playing' : playing'[i] # g
      BY <3>1, <3>2, TailHolds
    <3> QED BY <1>3, <2>2, <3>1, <3>3 DEF GoneFrom
  <2>7. CASE UNCHANGED vars
    BY <1>3, <2>2, <2>7 DEF vars, clientVars, playerVars, GoneFrom
  <2> QED BY <2>3, <2>4, <2>5, <2>6, <2>7
<1>4. \A g \in cut : CutComes(g)'
  BY <1>1, <1>2, <1>3, CutComesStays DEF CutInv
<1> QED BY <1>1, <1>4 DEF CutInv

LEMMA PersonCutKept ==
  ASSUME TypeInv, OrderInv, CutInv, PersonStep
  PROVE  CutInv'
<1> DEFINE stop == [kind |-> "interrupt", gen |-> NoGeneration]
<1>1. /\ UNCHANGED <<response, notices, down, cut>> /\ audio'.active = audio.active
  BY PersonSends, RejectActiveRecords DEF TypeInv, TypeOK
<1>2. UNCHANGED <<append, playing>> /\ (context' = context \/ context' = "closing")
  BY DEF PersonStep, PressStop, Ask, AskOver, Interrupting, BeginPreempt, CallFlush,
         clientVars, playerVars
<1>3. asked \in Nat /\ up \in Seq(Message) BY Numbers DEF TypeInv
<1>4. asked' \in Nat /\ asked <= asked' BY <1>3, PersonSends
<1>5. ASSUME NEW i \in DOMAIN up'
      PROVE  \/ i \in DOMAIN up /\ up'[i] = up[i]
             \/ up'[i].kind = "interrupt"
             \/ up'[i].gen = asked + 1
  <2>1. stop.kind = "interrupt" OBVIOUS
  <2>2. CASE up' = Append(up, stop)
    <3> HIDE DEF stop
    <3> QED BY <1>3, <2>1, <2>2
  <2>3. ASSUME NEW kind \in {"utterance", "reply", "say"},
               \/ up' = Append(up, [kind |-> kind, gen |-> asked + 1])
               \/ up' = Append(Append(up, stop), [kind |-> kind, gen |-> asked + 1])
        PROVE  \/ i \in DOMAIN up /\ up'[i] = up[i]
               \/ up'[i].kind = "interrupt"
               \/ up'[i].gen = asked + 1
    <3> DEFINE ask == [kind |-> kind, gen |-> asked + 1]
    <3>1. ask.gen = asked + 1 OBVIOUS
    <3>2. up' = Append(up, ask) \/ up' = Append(Append(up, stop), ask) BY <2>3
    <3> HIDE DEF ask, stop
    <3>3. (i \in DOMAIN up /\ up'[i] = up[i]) \/ up'[i] = stop \/ up'[i] = ask
      BY <1>3, <3>2
    <3> QED BY <2>1, <3>1, <3>3
  <2> QED BY <2>2, <2>3, PersonSends
<1>6. ASSUME NEW g \in cut
      PROVE  /\ \A i \in DOMAIN up' : up'[i].kind # "interrupt" => g < up'[i].gen
             /\ g <= asked'
             /\ CutComes(g)'
  <2>1. g \in Nat /\ g <= asked BY CutNumbers DEF CutInv
  <2>2. GoneFrom(g) => GoneFrom(g)'
    BY <1>1, <1>2 DEF GoneFrom, NoChunkOf
  <2>3. CutComes(g)' BY <1>1, <2>2, CutComesStays DEF CutInv
  <2>4. g < asked + 1 BY <1>3, <2>1
  <2>5. \A i \in DOMAIN up' : up'[i].kind # "interrupt" => g < up'[i].gen
    BY <1>5, <2>4 DEF CutInv
  <2>6. g <= asked' BY <1>3, <1>4, <2>1
  <2> QED BY <2>3, <2>5, <2>6
<1> QED BY <1>1, <1>6 DEF CutInv

LEMMA CutIsKept ==
  ASSUME ~SlowSend
  PROVE  TypeInv /\ OrderInv /\ GateInv /\ CutInv /\ [Next]_vars => CutInv'
<1> SUFFICES ASSUME TypeInv, OrderInv, GateInv, CutInv, [Next]_vars PROVE CutInv'
  OBVIOUS
<1>1. GateInv' BY GateIsKept
<1> QED BY <1>1, ServerCutKept, NoticeCutKept, AnswerCutKept, EventCutKept,
           PlayerCutKept, PersonCutKept DEF Next, ServerStep, ClientStep

\* An answer the worker has interrupted (worker.py, _interrupt) leaves nothing
\* in the player (streaming_pcm_player.ts), whatever the application asks for
\* and stops, and however slow contexts are to close: the interruption comes
\* after the last chunk of the answer and before anything of the next, which is
\* so as long as the handler's send is not overtaken by the next utterance.
THEOREM InterruptedAlwaysSilent ==
  ASSUME ~SlowSend
  PROVE  Spec => []InterruptedIsSilent
<1>1. Init => CutInv BY DEF Init, CutInv
<1>2. (TypeInv /\ WireInv) /\ CutInv /\ [Next]_vars => CutInv'
  BY CutIsKept DEF WireInv
<1>3. TypeInv /\ WireInv /\ CutInv => InterruptedIsSilent
  <2>1. ASSUME CutInv, Settled, NEW i \in DOMAIN playing, playing[i] \in cut
        PROVE  FALSE
    <3>1. notices = <<>> /\ down = <<>> /\ context # "closing" BY <2>1 DEF Settled
    <3>2. GoneFrom(playing[i]) BY <2>1, <3>1 DEF CutInv, CutComes
    <3> QED BY <2>1, <3>1, <3>2 DEF GoneFrom
  <2> QED BY <2>1 DEF InterruptedIsSilent
<1> QED BY Wired, <1>1, <1>2, <1>3, PTL DEF Spec

-----------------------------------------------------------------------------
(* The answer that is wanted, when only utterances are committed and       *)
(* neither sends nor closes are slow.                                      *)

\* The chunks of w will be accepted.
Tuned(gate, w) == gate.active = w /\ gate.suppress = FALSE
Before(w, q, k, type) ==
  \E i \in DOMAIN q : i < k /\ q[i].type = type /\ q[i].gen = w

\* What makes a gate follow an event of w, it has seen or comes before place k
\* of q: a phase before a chunk, a transcript before a phase.
Prepared(gate, w, q, k, type) ==
  /\ type = "chunk" => Tuned(gate, w) \/ Before(w, q, k, "phase")
  /\ type = "phase" => gate.active = w \/ Before(w, q, k, "final")

Listening ==
  /\ up = <<>>
  /\ response.left # <<>> => response.gen = wanted
  /\ UpTo(notices, wanted - 1)
  /\ notices # <<>> => audio.active < wanted /\ UpTo(down, wanted - 1)
  /\ ~Rejects(audio, wanted)
  \* No interruption comes after its events,
  /\ \A j \in DOMAIN down : down[j].type = "interrupted" =>
       audio.active < wanted /\ \A i \in DOMAIN down : i < j => down[i].gen < wanted
  \* these come in their order,
  /\ \A j \in DOMAIN down : down[j].gen = wanted =>
       Prepared(audio, wanted, down, j, down[j].type)
  /\ \A j \in DOMAIN response.left :
       \/ Prepared(audio, wanted, response.left, j, response.left[j].type)
       \/ Prepared(audio, wanted, down, Len(down) + 1, response.left[j].type)
  \* and what has come of it is being played.
  /\ append = wanted => Tuned(audio, wanted)
  /\ \A i \in DOMAIN playing :
       playing[i] = wanted => Tuned(audio, wanted) /\ context # "closing"

Awaited == up # <<>> /\ up[Len(up)].gen = wanted
HeardInv ==
  /\ \A i \in DOMAIN up : \/ up[i].kind = "utterance"
                          \/ up[i].kind = "interrupt" /\ up[i].gen = NoGeneration
  /\ \A i \in DOMAIN response.left : response.left[i].type # "interrupted"
  /\ missed \subseteq 0..asked
  /\ wanted # NoGeneration =>
       wanted = asked /\ wanted \notin missed /\ (Awaited \/ Listening)

\* Before the worker takes up the request there is nothing of its answer.
LEMMA AwaitedIsNew ==
  ASSUME TypeInv, OrderInv, GateInv, HeardInv, wanted # NoGeneration, Awaited
  PROVE  /\ wanted \in Nat /\ Within(audio.active, down, notices, response, wanted - 1)
         /\ audio.active < wanted /\ ~Rejects(audio, wanted)
         /\ append # wanted /\ \A i \in DOMAIN playing : playing[i] # wanted
<1>1. up \in Seq(Message) /\ up # <<>> /\ up[Len(up)].gen = wanted
  BY DEF TypeInv, Awaited
<1>2. Len(up) \in DOMAIN up BY <1>1
<1>3. up[Len(up)].kind # "interrupt" BY <1>1, <1>2 DEF HeardInv
<1>4. Within(audio.active, down, notices, response, wanted - 1)
  BY <1>1, <1>2, <1>3 DEF OrderInv, RequestsAreNew, SoFar
<1>5. audio.active < wanted /\ wanted \in Nat /\ audio.active \in Nat
  BY <1>4, Numbers DEF Within
<1>6. ~Rejects(audio, wanted) BY <1>5 DEF GateInv, Rejects
<1>7. append # wanted BY <1>5 DEF GateInv
<1>8. \A i \in DOMAIN playing : playing[i] # wanted BY <1>5 DEF GateInv
<1> QED BY <1>4, <1>5, <1>6, <1>7, <1>8

\* How a gate follows an answer.
LEMMA GateFollows ==
  ASSUME NEW gate \in Gate, NEW e \in WireEvent, NEW w \in Nat, w # NoGeneration,
         ~Rejects(gate, w)
  PROVE  /\ gate.active = w /\ e.type # "interrupted" /\ ~TakesOver(gate, e) =>
              /\ Observe(gate, e).active = w /\ ~Rejects(Observe(gate, e), w)
              /\ gate.suppress = FALSE => Observe(gate, e).suppress = FALSE
         /\ gate.active = w /\ e.type = "phase" /\ e.gen = w =>
              Tuned(Observe(gate, e), w)
         /\ e.type = "final" /\ e.gen = w => Observe(gate, e).active = w
         /\ Tuned(gate, w) /\ e.type = "chunk" /\ e.gen = w => ShouldAccept(gate, e)
<1>1. gate.suppress \in BOOLEAN BY DEF Gate
<1> DEFINE next == [gate EXCEPT !.suppress = Suppression(gate, e)]
<1>2. /\ next.active = gate.active /\ next.rejected = gate.rejected
      /\ next.suppress = Suppression(gate, e)
  BY DEF Gate
<1> HIDE DEF next
<1>3. e.type # "interrupted" /\ ~TakesOver(gate, e) =>
        Observe(gate, e) = gate \/ (ShouldAccept(gate, e) /\ Observe(gate, e) = next)
  BY ObserveCases DEF next
<1>4. ASSUME gate.active = w, e.type # "interrupted", ~TakesOver(gate, e)
      PROVE  /\ Observe(gate, e).active = w /\ ~Rejects(Observe(gate, e), w)
             /\ gate.suppress = FALSE => Observe(gate, e).suppress = FALSE
  BY <1>2, <1>3, <1>4 DEF Suppression, Rejects
<1>5. ASSUME gate.active = w, e.type = "phase", e.gen = w
      PROVE  Tuned(Observe(gate, e), w)
  <2>1. ShouldAccept(gate, e) BY <1>5 DEF ShouldAccept, Speech
  <2>2. ~TakesOver(gate, e) BY <1>5 DEF TakesOver
  <2>3. Observe(gate, e) = next BY <1>5, <2>1, <2>2, ObserveCases DEF next
  <2>4. Suppression(gate, e) = FALSE BY <1>5 DEF Suppression, Resume
  <2> QED BY <1>2, <1>5, <2>3, <2>4 DEF Tuned
<1>6. ASSUME e.type = "final", e.gen = w PROVE Observe(gate, e).active = w
  <2>1. ShouldAccept(gate, e) BY <1>6 DEF ShouldAccept, Speech, Scoped
  <2>2. CASE gate.active = w
    <3>1. ~TakesOver(gate, e) BY <1>6, <2>2 DEF TakesOver
    <3> QED BY <1>4, <1>6, <2>2, <3>1
  <2>3. CASE gate.active # w
    <3>1. TakesOver(gate, e) BY <1>6, <2>3 DEF TakesOver, Start
    <3>2. Observe(gate, e).active # gate.active =>
            Observe(gate, e).active = e.gen
      BY ObserveMoves
    <3>3. Observe(gate, e) = Follow(next, e) BY <1>6, <2>1 DEF Observe, next
    <3>4. Follow(next, e).active = e.gen
      <4>1. next \in Gate BY DEF next, Gate, Suppression
      <4>2. RejectActive(next) \in Gate BY <4>1, RejectActiveRecords
      <4>3. \/ Follow(next, e) = [RejectActive(next) EXCEPT !.active = e.gen]
            \/ Follow(next, e) = [next EXCEPT !.active = e.gen]
        BY <1>2, <1>6, <2>3 DEF Follow, Start
      <4>4. /\ [RejectActive(next) EXCEPT !.active = e.gen].active = e.gen
            /\ [next EXCEPT !.active = e.gen].active = e.gen
        BY <4>1, <4>2 DEF Gate
      <4> QED BY <4>3, <4>4
    <3> QED BY <1>6, <3>3, <3>4
  <2> QED BY <2>2, <2>3
<1>7. ASSUME Tuned(gate, w), e.type = "chunk", e.gen = w PROVE ShouldAccept(gate, e)
  BY <1>7 DEF Tuned, ShouldAccept
<1> QED BY <1>4, <1>5, <1>6, <1>7

\* What the next event does to a gate and a wire that are prepared.
LEMMA PreparedMoves ==
  ASSUME TypeInv, OrderInv, GateInv, ReceiveEvent, Listening,
         wanted = asked, wanted # NoGeneration
  PROVE  /\ ~Rejects(audio', wanted)
         /\ audio.active = wanted => audio'.active = wanted
         /\ Tuned(audio, wanted) => Tuned(audio', wanted)
         /\ \A j \in Nat : \A t \in EventType :
              Prepared(audio, wanted, down, j + 1, t) =>
                Prepared(audio', wanted, down', j, t)
<1> DEFINE e == Head(down)
           w == wanted
<1>1. /\ down # <<>> /\ e \in WireEvent /\ down' = Tail(down)
      /\ down \in Seq(WireEvent) /\ audio \in Gate
  BY EventMoves DEF TypeInv, TypeOK
<1>2. /\ e = down[1] /\ 1 \in DOMAIN down
      /\ \A i \in DOMAIN down : /\ i \in Nat /\ 0 < i
                                /\ i # 1 => i - 1 \in DOMAIN down' /\ down'[i - 1] = down[i]
  BY <1>1, TailHolds
<1>3. w \in Nat /\ e.gen \in Nat /\ e.gen <= w
  BY <1>2, Numbers DEF OrderInv, RequestsAreNew, SoFar, Within, UpTo
<1>4. audio' = Observe(audio, e) BY EventCases
<1>5. ~Rejects(audio, w) BY DEF Listening
<1>6. audio.active = w => e.type # "interrupted" /\ ~TakesOver(audio, e)
  <2>1. ASSUME audio.active = w, TakesOver(audio, e) PROVE FALSE
    <3>1. e.type \in Start /\ e.gen # w BY <2>1 DEF TakesOver
    <3>2. w <= e.gen BY <1>2, <2>1, <3>1 DEF OrderInv, StartsFrom
    <3> HIDE DEF e
    <3> QED BY <1>3, <3>1, <3>2
  <2>2. ASSUME audio.active = w, e.type = "interrupted" PROVE FALSE
    BY <1>2, <1>3, <2>2 DEF Listening
  <2> QED BY <2>1, <2>2
<1> HIDE DEF e
<1>7. ~Rejects(audio', w)
  <2>1. CASE audio.active = w BY <1>1, <1>3, <1>4, <1>5, <1>6, <2>1, GateFollows
  <2>2. CASE audio.active # w BY <1>1, <1>4, <1>5, <2>2, ObserveMoves
  <2> QED BY <2>1, <2>2
<1>8. audio.active = w => audio'.active = w
  <2>1. CASE audio.active = w
    <3>1. w # NoGeneration OBVIOUS
    <3>2. e.type # "interrupted" /\ ~TakesOver(audio, e) BY <1>6, <2>1
    <3>3. audio \in Gate /\ e \in WireEvent /\ w \in Nat BY <1>1, <1>3
    <3> HIDE DEF w
    <3>4. Observe(audio, e).active = w
      BY <1>5, <2>1, <3>1, <3>2, <3>3, GateFollows
    <3> QED BY <1>4, <3>4
  <2> QED BY <2>1
<1>9. Tuned(audio, w) => Tuned(audio', w)
  BY <1>1, <1>3, <1>4, <1>5, <1>6, GateFollows DEF Tuned
<1>10. \A t : down[1].gen = w => (Prepared(audio, w, down, 1, t) =>
         (t = "phase" => audio.active = w) /\ (t = "chunk" => Tuned(audio, w)))
  BY <1>2 DEF Prepared, Before
<1>11. e.type = "phase" /\ e.gen = w => Tuned(audio', w)
  <2>1. ASSUME e.type = "phase", e.gen = w PROVE audio.active = w
    BY <1>2, <1>10, <2>1 DEF Listening
  <2> QED BY <1>1, <1>3, <1>4, <1>5, <2>1, GateFollows
<1>12. e.type = "final" /\ e.gen = w => audio'.active = w
  BY <1>1, <1>3, <1>4, <1>5, GateFollows
<1>13. ASSUME NEW j \in Nat, NEW t, Prepared(audio, w, down, j + 1, t)
       PROVE  Prepared(audio', w, down', j, t)
  <2>1. ASSUME NEW type, Before(w, down, j + 1, type)
        PROVE  (e.type = type /\ e.gen = w) \/ Before(w, down', j, type)
    <3>1. PICK i \in DOMAIN down : i < j + 1 /\ down[i].type = type /\ down[i].gen = w
      BY <2>1 DEF Before
    <3>2. CASE i = 1 BY <1>2, <3>1, <3>2
    <3>3. CASE i # 1
      <4>1. i - 1 \in DOMAIN down' /\ down'[i - 1] = down[i] /\ i - 1 < j
        BY <1>2, <3>1, <3>3
      <4> QED BY <3>1, <4>1 DEF Before
    <3> QED BY <3>2, <3>3
  <2>2. t = "chunk" => Tuned(audio', w) \/ Before(w, down', j, "phase")
    BY <1>9, <1>11, <1>13, <2>1 DEF Prepared
  <2>3. t = "phase" => audio'.active = w \/ Before(w, down', j, "final")
    BY <1>8, <1>12, <1>13, <2>1 DEF Prepared
  <2> QED BY <2>2, <2>3 DEF Prepared
<1> QED BY <1>7, <1>8, <1>9, <1>13

LEMMA EventHeard ==
  ASSUME TypeInv, OrderInv, GateInv, HeardInv, ReceiveEvent, ~SlowClose
  PROVE  HeardInv'
<1> DEFINE e == Head(down)
<1>1. /\ down # <<>> /\ e \in WireEvent /\ down' = Tail(down)
      /\ down \in Seq(WireEvent) /\ audio \in Gate /\ append = NoGeneration
      /\ UNCHANGED <<up, response, notices, asked, wanted>>
      /\ playing \in Seq(Generation)
  BY EventMoves, EventCases DEF TypeInv, TypeOK
<1>2. /\ e = down[1] /\ 1 \in DOMAIN down /\ Len(down') = Len(down) - 1
      /\ Len(down) \in Nat
      /\ \A i \in DOMAIN down' : /\ i \in Nat /\ 0 < i /\ i + 1 \in DOMAIN down
                                 /\ down'[i] = down[i + 1]
  BY <1>1, TailHolds
<1>3. wanted \in Nat /\ asked \in Nat /\ e.gen \in Nat /\ e.gen <= asked
  BY <1>2, Numbers DEF OrderInv, RequestsAreNew, SoFar, Within, UpTo
<1>4. ~(context = "closing" /\ e.type = "chunk")
  BY DEF ReceiveEvent
<1>5. missed' = missed \/ missed' = missed \cup {e.gen}
  BY EventCases DEF AppendChunk, NotPlayed
<1>6. missed' \subseteq 0..asked
  <2>1. missed \subseteq 0..asked BY DEF HeardInv
  <2>2. e.gen \in 0..asked BY <1>3
  <2> HIDE DEF e
  <2> QED BY <1>5, <2>1, <2>2
<1>7. missed' # missed => e.type = "chunk" /\ ~ShouldAccept(audio, e)
  BY <1>4, EventCases DEF AppendChunk, NotPlayed
<1>8. ASSUME wanted # NoGeneration, Awaited
      PROVE  wanted \notin missed' /\ Awaited'
  <2>1. e.gen < wanted
    <3>1. e.gen <= wanted - 1 BY <1>2, <1>8, AwaitedIsNew DEF Within, UpTo
    <3> HIDE DEF e
    <3> QED BY <1>3, <3>1
  <2>2. wanted \notin missed BY <1>8 DEF HeardInv
  <2> HIDE DEF e
  <2> QED BY <1>1, <1>3, <1>5, <1>8, <2>1, <2>2 DEF Awaited
<1>9. ASSUME wanted # NoGeneration, Listening
      PROVE  wanted \notin missed' /\ Listening'
  <2>1. wanted = asked /\ wanted \notin missed BY <1>9 DEF HeardInv
  <2>2. /\ ~Rejects(audio', wanted)
        /\ Tuned(audio, wanted) => Tuned(audio', wanted)
        /\ audio.active = wanted => audio'.active = wanted
        /\ \A j \in Nat : \A t \in EventType :
             Prepared(audio, wanted, down, j + 1, t) =>
               Prepared(audio', wanted, down', j, t)
    BY <1>9, <2>1, PreparedMoves
  <2>3. ASSUME e.type = "chunk", e.gen = wanted
        PROVE  Tuned(audio, wanted) /\ ShouldAccept(audio, e)
    <3>1. Prepared(audio, wanted, down, 1, "chunk")
      BY <1>2, <1>9, <2>3 DEF Listening
    <3>2. ~Before(wanted, down, 1, "phase")
      <4>1. \A i \in DOMAIN down : ~(i < 1) BY <1>1
      <4> QED BY <4>1 DEF Before
    <3>3. Tuned(audio, wanted) BY <3>1, <3>2 DEF Prepared
    <3>4. ~Rejects(audio, wanted) BY <1>9 DEF Listening
    <3> QED BY <1>1, <1>3, <1>9, <2>3, <3>3, <3>4, GateFollows
  <2>4. wanted \notin missed'
    BY <1>5, <1>7, <2>1, <2>3
  <2>5. audio'.active = audio.active \/ audio'.active = e.gen
    BY EventMoves
  <2>6. notices' # <<>> => audio'.active < wanted /\ UpTo(down', wanted - 1)
    <3>1. ASSUME notices # <<>>
          PROVE  audio'.active < wanted /\ UpTo(down', wanted - 1)
      <4>1. audio.active < wanted /\ UpTo(down, wanted - 1)
        BY <1>9, <3>1 DEF Listening
      <4>2. UpTo(down', wanted - 1) BY <1>2, <4>1 DEF UpTo
      <4>3. e.gen <= wanted - 1 BY <1>2, <4>1 DEF UpTo
      <4> HIDE DEF e
      <4> QED BY <1>3, <2>5, <4>1, <4>2, <4>3
    <3> QED BY <1>1, <3>1
  <2>7. ASSUME NEW j \in DOMAIN down', down'[j].type = "interrupted"
        PROVE  /\ audio'.active < wanted
               /\ \A i \in DOMAIN down' : i < j => down'[i].gen < wanted
    <3>1. /\ j + 1 \in DOMAIN down /\ down[j + 1].type = "interrupted" /\ 1 < j + 1
          /\ \A i \in DOMAIN down' : i < j => i + 1 < j + 1
      BY <1>2, <2>7
    <3>2. /\ audio.active < wanted
          /\ \A i \in DOMAIN down : i < j + 1 => down[i].gen < wanted
      BY <1>9, <3>1 DEF Listening
    <3>3. e.gen < wanted BY <1>2, <3>1, <3>2
    <3> HIDE DEF e
    <3> QED BY <1>2, <2>5, <3>1, <3>2, <3>3
  <2>8. ASSUME NEW j \in DOMAIN down', down'[j].gen = wanted
        PROVE  Prepared(audio', wanted, down', j, down'[j].type)
    <3>1. j \in Nat /\ j + 1 \in DOMAIN down /\ down'[j] = down[j + 1] BY <1>2
    <3>2. Prepared(audio, wanted, down, j + 1, down[j + 1].type)
      BY <1>9, <2>8, <3>1 DEF Listening
    <3>3. down[j + 1].type \in EventType
      BY <1>1, <3>1 DEF WireEvent, Event
    <3> QED BY <2>2, <3>1, <3>2, <3>3
  <2>9. ASSUME NEW j \in DOMAIN response.left
        PROVE  \/ Prepared(audio', wanted, response.left, j, response.left[j].type)
               \/ Prepared(audio', wanted, down', Len(down') + 1, response.left[j].type)
    <3>1. CASE Prepared(audio, wanted, response.left, j, response.left[j].type)
      BY <2>2, <3>1 DEF Prepared
    <3>2. CASE Prepared(audio, wanted, down, Len(down) + 1, response.left[j].type)
      <4>1. response.left[j].type \in EventType
        BY Numbers DEF WireEvent, Event
      <4>2. Len(down) \in Nat /\ Len(down) = Len(down') + 1
        BY <1>2
      <4> QED BY <2>2, <3>2, <4>1, <4>2
    <3> QED BY <1>9, <3>1, <3>2 DEF Listening
  <2>10. append' = wanted => Tuned(audio', wanted)
    <3>1. append' = append \/ (e.type = "chunk" /\ append' = e.gen)
      BY EventCases DEF AppendChunk, NotPlayed
    <3> QED BY <1>1, <1>9, <2>2, <2>3, <3>1
  <2>11. ASSUME NEW i \in DOMAIN playing', playing'[i] = wanted
         PROVE  Tuned(audio', wanted) /\ context' # "closing"
    <3>1. CASE Head(down).type = "interrupted" /\ ShouldAccept(audio, Head(down))
      <4>1. playing' = playing BY <3>1, EventCases DEF NotPlayed, playerVars
      <4>2. audio.active < wanted BY <1>2, <1>9, <3>1 DEF Listening
      <4>3. audio.active = wanted BY <1>9, <2>11, <4>1 DEF Listening, Tuned
      <4> QED BY <1>3, <4>2, <4>3
    <3>2. CASE e.type = "chunk" /\ AppendChunk(e.gen)
      <4>1. /\ playing' = playing \/ playing' = Append(playing, e.gen)
            /\ context' \in {context, "suspended"}
        BY <3>2 DEF AppendChunk
      <4>2. context' # "closing" BY <1>4, <3>2, <4>1
      <4>3. CASE i \in DOMAIN playing /\ playing'[i] = playing[i]
        BY <1>9, <2>2, <2>11, <4>2, <4>3 DEF Listening
      <4>4. CASE playing'[i] = e.gen
        BY <2>2, <2>3, <2>11, <3>2, <4>2, <4>4
      <4>5. (i \in DOMAIN playing /\ playing'[i] = playing[i]) \/ playing'[i] = e.gen
        <5> DEFINE g == e.gen
        <5> HIDE DEF e, g
        <5>1. CASE playing' = playing BY <5>1
        <5>2. CASE playing' = Append(playing, g)
          <6>1. /\ Len(playing) \in Nat /\ DOMAIN playing = 1..Len(playing)
                /\ DOMAIN playing' = 1..Len(playing) + 1
                /\ playing'[Len(playing) + 1] = g
                /\ \A k \in 1..Len(playing) : playing'[k] = playing[k]
            BY <1>1, <5>2
          <6> QED BY <6>1 DEF g
        <5> QED BY <4>1, <5>1, <5>2 DEF g
      <4> QED BY <4>3, <4>4, <4>5
    <3>3. CASE NotPlayed(e)
      <4>1. UNCHANGED <<playing, context>> BY <3>3 DEF NotPlayed, playerVars
      <4> QED BY <1>9, <2>2, <2>11, <4>1 DEF Listening
    <3> QED BY <3>1, <3>2, <3>3, EventCases
  <2> HIDE DEF e
  <2>12. /\ up' = <<>>
         /\ response'.left # <<>> => response'.gen = wanted
         /\ UpTo(notices', wanted - 1)
    BY <1>1, <1>9 DEF Listening
  <2>13. Listening'
    BY <1>1, <2>2, <2>6, <2>7, <2>8, <2>9, <2>10, <2>11, <2>12 DEF Listening
  <2> QED BY <2>4, <2>13
<1> QED BY <1>1, <1>6, <1>8, <1>9 DEF HeardInv

LEMMA ServerHeard ==
  ASSUME TypeInv, OrderInv, GateInv, HeardInv, ServerReceives
  PROVE  HeardInv'
<1> DEFINE m == Head(up)
<1>1. /\ up # <<>> /\ up' = Tail(up) /\ up \in Seq(Message)
      /\ UNCHANGED <<down, audio, append, context, playing, asked, wanted, missed>>
  BY DEF ServerReceives, TypeInv, clientVars, playerVars, personVars
<1>2. /\ \A i \in DOMAIN up' : /\ i \in Nat /\ i + 1 \in DOMAIN up
                               /\ up'[i] = up[i + 1]
      /\ 1 \in DOMAIN up /\ up[1] = m
  BY <1>1, TailHolds
<1>3. \A i \in DOMAIN up' : \/ up'[i].kind = "utterance"
                            \/ up'[i].kind = "interrupt" /\ up'[i].gen = NoGeneration
  BY <1>2 DEF HeardInv
<1>4. m.kind = "utterance" \/ (m.kind = "interrupt" /\ m.gen = NoGeneration)
  BY <1>2 DEF HeardInv
<1>5. CASE ServerStops
  <2>1. response'.left = <<>> BY <1>5 DEF ServerStops, Nothing
  <2>2. m.kind = "interrupt" BY <1>5 DEF ServerStops
  <2>3. ASSUME wanted # NoGeneration
        PROVE  wanted = asked /\ wanted \notin missed /\ Awaited'
    <3>1. up # <<>> /\ up[Len(up)].gen = wanted
      BY <1>1, <2>3 DEF HeardInv, Listening, Awaited
    <3>2. Len(up) # 1 BY <1>2, <1>4, <2>2, <2>3, <3>1
    <3>3. up' # <<>> /\ up'[Len(up')] = up[Len(up)] BY <1>1, <3>2, LastStays
    <3> QED BY <1>1, <2>3, <3>1, <3>3 DEF HeardInv, Awaited
  <2> QED BY <1>1, <1>3, <2>1, <2>3 DEF HeardInv
<1>6. CASE ServerAnswers
  <2>1. m.kind = "utterance" BY <1>4, <1>6 DEF ServerAnswers
  <2>2. m.gen \in Generation /\ m.gen \in Nat
    <3>1. m \in Message /\ m.gen \in Nat /\ m.gen # NoGeneration
      BY <1>2, <2>1, Numbers
    <3> QED BY <3>1 DEF Message, ServerMessage, MaybeGeneration
  <2>3. PICK script \in Script("utterance", m.gen) :
          response' = [kind |-> m.kind, gen |-> m.gen, left |-> script]
    BY <1>6, <2>1 DEF ServerAnswers
  <2>4. response'.gen = m.gen /\ response'.left = script BY <2>3
  <2>5. \A i \in DOMAIN script :
          /\ script[i].gen = m.gen /\ script[i].type # "interrupted"
          /\ script[i].type = "chunk" =>
               \E j \in DOMAIN script : j < i /\ script[j].type = "phase"
          /\ script[i].type = "phase" =>
               \E j \in DOMAIN script : j < i /\ script[j].type = "final"
    BY <2>2, ScriptsHold
  <2>6. notices' = Interruption(m) BY <1>6, <2>1 DEF ServerAnswers
  <2>7. \A i \in DOMAIN notices' : response.left # <<>> /\ notices'[i].gen = response.gen
    BY <2>1, <2>6 DEF Interruption, Interrupted, E, Responding
  <2> HIDE DEF m
  <2>8. ASSUME wanted # NoGeneration
        PROVE  wanted = asked /\ wanted \notin missed /\ (Awaited \/ Listening)'
    <3>1. wanted = asked /\ wanted \notin missed /\ Awaited
      BY <1>1, <2>8 DEF HeardInv, Listening
    <3>2. CASE Len(up) # 1
      <4>1. up' # <<>> /\ up'[Len(up')] = up[Len(up)] BY <1>1, <3>2, LastStays
      <4> QED BY <1>1, <3>1, <4>1 DEF Awaited
    <3>3. CASE Len(up) = 1
      <4>1. up' = <<>> /\ m.gen = wanted
        <5>1. up[1].gen = wanted BY <3>1, <3>3 DEF Awaited
        <5> QED BY <1>1, <1>2, <3>3, <5>1
      <4>2. /\ wanted \in Nat /\ audio.active < wanted /\ ~Rejects(audio, wanted)
            /\ append # wanted /\ (\A i \in DOMAIN playing : playing[i] # wanted)
            /\ Within(audio.active, down, notices, response, wanted - 1)
        BY <2>8, <3>1, AwaitedIsNew
      <4>3. UpTo(down, wanted - 1) BY <4>2 DEF Within
      <4>4. UpTo(notices', wanted - 1) BY <2>7, <4>2 DEF Within, UpTo
      <4>5. \A i \in DOMAIN down : down[i].gen < wanted
        BY <4>2, <4>3, Numbers DEF UpTo
      <4>6. \A i \in DOMAIN down : down[i].gen # wanted
        BY <4>2, <4>5, Numbers
      <4>7. \A j \in DOMAIN script :
              Prepared(audio', wanted, script, j, script[j].type)
        BY <2>5, <4>1 DEF Prepared, Before
      <4>8. Listening'
        BY <1>1, <2>4, <4>1, <4>2, <4>3, <4>4, <4>5, <4>6, <4>7 DEF Listening
      <4> QED BY <3>1, <4>8
    <3> QED BY <3>2, <3>3
  <2>9. \A i \in DOMAIN response'.left : response'.left[i].type # "interrupted"
    BY <2>4, <2>5
  <2> QED BY <1>1, <1>3, <2>8, <2>9 DEF HeardInv
<1> QED BY <1>5, <1>6 DEF ServerReceives

LEMMA NoticeHeard ==
  ASSUME TypeInv, OrderInv, GateInv, HeardInv, SendNotice
  PROVE  HeardInv'
<1> DEFINE e == Head(notices)
<1>1. /\ notices # <<>> /\ down' = Append(down, e) /\ notices' = Tail(notices)
      /\ UNCHANGED <<up, response, audio, append, context, playing, asked, wanted, missed>>
      /\ notices \in Seq(WireEvent) /\ down \in Seq(WireEvent)
  BY DEF SendNotice, TypeInv, clientVars, playerVars, personVars
<1>2. /\ e = notices[1] /\ 1 \in DOMAIN notices /\ e \in WireEvent
      /\ \A i \in DOMAIN notices' : i + 1 \in DOMAIN notices
                                    /\ notices'[i] = notices[i + 1]
  BY <1>1, TailHolds
<1> HIDE DEF e
<1>3. /\ \A i \in DOMAIN down' : \/ i \in DOMAIN down /\ down'[i] = down[i]
                                 \/ down'[i] = e
      /\ \A i \in DOMAIN down : i \in DOMAIN down' /\ down'[i] = down[i]
                                 /\ i < Len(down) + 1
      /\ Len(down') = Len(down) + 1 /\ Len(down) \in Nat /\ DOMAIN down \subseteq Nat
  BY <1>1, <1>2, AppendHolds
<1>4. ASSUME wanted # NoGeneration, Listening PROVE Listening'
  <2>1. wanted \in Nat BY Numbers
  <2>2. audio.active < wanted /\ UpTo(down, wanted - 1) /\ UpTo(notices, wanted - 1)
    BY <1>1, <1>4 DEF Listening
  <2>3. e.gen <= wanted - 1 BY <1>2, <2>2 DEF UpTo
  <2>4. UpTo(notices', wanted - 1) BY <1>2, <2>2 DEF UpTo
  <2>5. UpTo(down', wanted - 1) BY <1>3, <2>2, <2>3 DEF UpTo
  <2>6. e.gen \in Nat BY <1>2, Numbers
  <2>7. \A i \in DOMAIN down' : down'[i].gen \in Nat /\ down'[i].gen <= wanted - 1
    BY <1>3, <2>5, <2>6, Numbers DEF UpTo
  <2>8. \A i \in DOMAIN down' : down'[i].gen < wanted /\ down'[i].gen # wanted
    BY <2>1, <2>7
  <2>9. ASSUME NEW t, Prepared(audio, wanted, down, Len(down) + 1, t)
        PROVE  Prepared(audio, wanted, down', Len(down') + 1, t)
    <3>1. \A type : Before(wanted, down, Len(down) + 1, type) =>
                      Before(wanted, down', Len(down') + 1, type)
      <4>1. \A i \in DOMAIN down : i < Len(down) + 2 BY <1>3
      <4>2. Len(down') + 1 = Len(down) + 2 BY <1>3
      <4> QED BY <1>3, <4>1, <4>2 DEF Before
    <3> QED BY <2>9, <3>1 DEF Prepared
  <2>10. \A j \in DOMAIN response.left :
           \/ Prepared(audio, wanted, response.left, j, response.left[j].type)
           \/ Prepared(audio, wanted, down', Len(down') + 1, response.left[j].type)
    BY <1>4, <2>9 DEF Listening
  <2> QED BY <1>1, <1>4, <2>2, <2>4, <2>5, <2>8, <2>10 DEF Listening
<1> QED BY <1>1, <1>4 DEF HeardInv, Awaited

LEMMA AnswerHeard ==
  ASSUME TypeInv, OrderInv, GateInv, HeardInv, SendAnswer, ~SlowSend
  PROVE  HeardInv'
<1> DEFINE e == Head(response.left)
           r == [response EXCEPT !.left = Tail(@)]
<1>1. /\ response.left # <<>> /\ down' = Append(down, e) /\ response' = r
      /\ notices = <<>> /\ notices' = notices
      /\ UNCHANGED <<up, audio, append, context, playing, asked, wanted, missed>>
      /\ response.left \in Seq(WireEvent) /\ down \in Seq(WireEvent)
  BY DEF SendAnswer, TypeInv, clientVars, playerVars, personVars
<1> DEFINE rest == Tail(response.left)
<1>2. /\ e = response.left[1] /\ 1 \in DOMAIN response.left /\ e \in WireEvent
      /\ \A i \in DOMAIN rest : /\ i \in Nat /\ 0 < i /\ i + 1 \in DOMAIN response.left
                                /\ rest[i] = response.left[i + 1]
      /\ \A i \in DOMAIN response.left :
           /\ i \in Nat /\ 0 < i
           /\ i # 1 => i - 1 \in DOMAIN rest /\ rest[i - 1] = response.left[i]
  BY <1>1, TailHolds
<1>3. r.gen = response.gen /\ r.left = rest BY DEF TypeInv, TypeOK
<1> HIDE DEF e, r, rest
<1>4. /\ \A i \in DOMAIN down' : \/ i \in DOMAIN down /\ down'[i] = down[i]
                                 \/ i = Len(down) + 1 /\ down'[i] = e
      /\ \A i \in DOMAIN down : i \in DOMAIN down' /\ down'[i] = down[i]
                                 /\ i < Len(down) + 1
      /\ Len(down) + 1 \in DOMAIN down' /\ down'[Len(down) + 1] = e
      /\ Len(down') = Len(down) + 1 /\ Len(down) \in Nat
      /\ \A i \in DOMAIN down' : i \in Nat
  BY <1>1, <1>2, AppendHolds
<1>5. e.gen = response.gen /\ e.type # "interrupted"
  BY <1>2 DEF OrderInv, HeardInv
<1>6. \A i \in DOMAIN rest : rest[i].type # "interrupted" BY <1>2 DEF HeardInv
<1>7. ASSUME wanted # NoGeneration, Listening PROVE Listening'
  <2>1. e.gen = wanted BY <1>1, <1>5, <1>7 DEF Listening
  <2>2. ASSUME NEW k \in Nat, k <= Len(down) + 1, NEW type
        PROVE  Before(wanted, down, k, type) => Before(wanted, down', k, type)
    BY <1>4 DEF Before
  <2>3. ASSUME NEW k \in Nat, k <= Len(down) + 1, NEW t,
               Prepared(audio, wanted, down, k, t)
        PROVE  Prepared(audio, wanted, down', k, t)
    BY <2>2, <2>3 DEF Prepared
  <2>4. ASSUME NEW type, Before(wanted, down', Len(down) + 1, type)
        PROVE  Before(wanted, down', Len(down') + 1, type)
    <3>1. \A i \in DOMAIN down' : i < Len(down) + 1 => i < Len(down') + 1
      BY <1>4
    <3> QED BY <2>4, <3>1 DEF Before
  <2>5. ASSUME NEW t, Prepared(audio, wanted, down, Len(down) + 1, t)
        PROVE  Prepared(audio, wanted, down', Len(down') + 1, t)
    <3>1. Prepared(audio, wanted, down', Len(down) + 1, t)
      BY <1>4, <2>3, <2>5
    <3> QED BY <2>4, <3>1 DEF Prepared
  <2>6. Prepared(audio, wanted, down', Len(down) + 1, e.type)
    <3>1. CASE Prepared(audio, wanted, down, Len(down) + 1, e.type)
      BY <1>4, <2>3, <3>1
    <3>2. CASE Prepared(audio, wanted, response.left, 1, e.type)
      <4>1. \A i \in DOMAIN response.left : ~(i < 1) BY <1>2
      <4>2. \A type : ~Before(wanted, response.left, 1, type) BY <4>1 DEF Before
      <4> QED BY <3>2, <4>2 DEF Prepared
    <3> QED BY <1>2, <1>7, <3>1, <3>2 DEF Listening
  <2>7. ASSUME NEW j \in DOMAIN down', down'[j].gen = wanted
        PROVE  Prepared(audio, wanted, down', j, down'[j].type)
    <3>1. CASE j \in DOMAIN down /\ down'[j] = down[j]
      <4>1. j \in Nat /\ j <= Len(down) + 1 BY <1>4, <3>1
      <4>2. Prepared(audio, wanted, down, j, down[j].type)
        BY <1>7, <2>7, <3>1 DEF Listening
      <4> QED BY <2>3, <3>1, <4>1, <4>2
    <3>2. CASE j = Len(down) + 1 /\ down'[j] = e
      BY <2>6, <3>2
    <3> QED BY <1>4, <3>1, <3>2
  <2>8. ASSUME NEW j \in DOMAIN rest
        PROVE  \/ Prepared(audio, wanted, rest, j, rest[j].type)
               \/ Prepared(audio, wanted, down', Len(down') + 1, rest[j].type)
    <3> DEFINE t == rest[j].type
    <3>1. /\ j \in Nat /\ j + 1 \in DOMAIN response.left
          /\ rest[j] = response.left[j + 1]
      BY <1>2
    <3>2. CASE Prepared(audio, wanted, down, Len(down) + 1, t)
      BY <2>5, <3>2
    <3>3. ASSUME NEW type, Before(wanted, response.left, j + 1, type)
          PROVE  \/ Before(wanted, rest, j, type)
                 \/ Before(wanted, down', Len(down') + 1, type)
      <4>1. PICK i \in DOMAIN response.left :
              /\ i < j + 1 /\ response.left[i].type = type
              /\ response.left[i].gen = wanted
        BY <3>3 DEF Before
      <4>2. CASE i = 1
        <5>1. /\ Len(down) + 1 \in DOMAIN down' /\ Len(down) + 1 < Len(down') + 1
              /\ down'[Len(down) + 1].type = type
              /\ down'[Len(down) + 1].gen = wanted
          BY <1>2, <1>4, <4>1, <4>2
        <5> QED BY <5>1 DEF Before
      <4>3. CASE i # 1
        <5>1. i - 1 \in DOMAIN rest /\ i - 1 < j /\ rest[i - 1] = response.left[i]
          BY <1>2, <3>1, <4>1, <4>3
        <5> QED BY <4>1, <5>1 DEF Before
      <4> QED BY <4>2, <4>3
    <3>4. CASE Prepared(audio, wanted, response.left, j + 1, t)
      BY <3>3, <3>4 DEF Prepared
    <3> QED BY <1>7, <3>1, <3>2, <3>4 DEF Listening
  <2>9. ASSUME NEW j \in DOMAIN down', down'[j].type = "interrupted"
        PROVE  /\ audio.active < wanted
               /\ \A i \in DOMAIN down' : i < j => down'[i].gen < wanted
    <3>1. j \in DOMAIN down /\ down'[j] = down[j] BY <1>4, <1>5, <2>9
    <3>2. \A i \in DOMAIN down' : i < j => i \in DOMAIN down /\ down'[i] = down[i]
      BY <1>4, <3>1
    <3> QED BY <1>7, <2>9, <3>1, <3>2 DEF Listening
  <2> QED BY <1>1, <1>3, <1>7, <2>7, <2>8, <2>9 DEF Listening
<1> QED BY <1>1, <1>3, <1>6, <1>7 DEF HeardInv, Awaited

\* The steps of the player.
LEMMA PlayerHeard ==
  ASSUME TypeInv, OrderInv, GateInv, HeardInv,
         \/ AppendEnds \/ ContextClosed \/ ChunkPlayed \/ UNCHANGED vars
         \/ \E f \in Flusher : Settle(f)
  PROVE  HeardInv'
<1>1. UNCHANGED <<up, response, notices, down, asked, wanted>>
  BY DEF AppendEnds, ContextClosed, ChunkPlayed, Settle, vars, serverVars, personVars
<1>2. audio' = audio
  BY AppendGate, SettleGate DEF ContextClosed, ChunkPlayed, vars, clientVars
<1>3. /\ wanted \in Nat /\ asked \in Nat /\ audio.active \in Nat
      /\ audio.active <= asked /\ playing \in Seq(Generation) /\ Generation \subseteq Nat
  BY Numbers DEF OrderInv, RequestsAreNew, SoFar, Within, TypeInv, TypeOK, Generation
<1>4. ASSUME wanted # NoGeneration
      PROVE  /\ wanted = asked /\ wanted \notin missed
             /\ \/ /\ Awaited /\ append # wanted
                   /\ \A i \in DOMAIN playing : playing[i] # wanted
                \/ Listening
  BY <1>4, AwaitedIsNew DEF HeardInv
\* What a step has to leave as it was.
<1>5. ASSUME missed' \subseteq 0..asked,
             wanted # NoGeneration /\ wanted \notin missed => wanted \notin missed',
             append' = wanted => append = wanted \/ wanted = NoGeneration,
             Listening => \A i \in DOMAIN playing' :
               playing'[i] = wanted => Tuned(audio, wanted) /\ context' # "closing"
      PROVE  HeardInv'
  <2>1. ASSUME wanted # NoGeneration, Listening PROVE Listening'
    BY <1>1, <1>2, <1>5, <2>1 DEF Listening
  <2>2. Awaited => Awaited' BY <1>1 DEF Awaited
  <2> QED BY <1>1, <1>5, <2>1, <2>2 DEF HeardInv
<1>6. missed \subseteq 0..asked BY DEF HeardInv
<1>7. Tuned(audio, wanted) => ~Rejected(audio)
  BY DEF Tuned, Rejected
<1>8. CASE AppendEnds
  <2>1. append # NoGeneration /\ append' = NoGeneration /\ append = audio.active
    BY <1>8, AppendGate DEF GateInv
  <2>2. CASE context' = "running" /\ playing' = <<append>> /\ missed' = missed
    <3>1. ASSUME Listening, NEW i \in DOMAIN playing', playing'[i] = wanted
          PROVE  Tuned(audio, wanted) /\ context' # "closing"
      <4>1. append = wanted BY <2>2, <3>1
      <4> QED BY <2>2, <3>1, <4>1 DEF Listening
    <3> QED BY <1>5, <1>6, <2>1, <2>2, <3>1
  <2>3. CASE /\ UNCHANGED <<context, playing>> /\ Rejected(audio)
             /\ missed' = missed \cup {append}
    <3>1. wanted # NoGeneration => append # wanted
      BY <1>4, <1>7, <2>3 DEF Listening
    <3>2. missed' \subseteq 0..asked
      <4>1. append \in 0..asked BY <1>3, <2>1
      <4> QED BY <1>6, <2>3, <4>1
    <3>3. Listening => \A i \in DOMAIN playing' :
            playing'[i] = wanted => Tuned(audio, wanted) /\ context' # "closing"
      BY <2>3 DEF Listening
    <3> QED BY <1>5, <2>1, <2>3, <3>1, <3>2, <3>3
  <2> QED BY <1>8, <2>2, <2>3, AppendGate
<1>9. ASSUME NEW f \in Flusher, Settle(f) PROVE HeardInv'
  <2>1. /\ UNCHANGED <<append, playing, missed>>
        /\ context' = context \/ (context' = "closing" /\ Rejected(audio))
    BY <1>9, SettleGate
  <2>2. Listening => \A i \in DOMAIN playing' :
          playing'[i] = wanted => Tuned(audio, wanted) /\ context' # "closing"
    BY <1>7, <2>1 DEF Listening
  <2> QED BY <1>5, <1>6, <2>1, <2>2
<1>10. CASE ContextClosed
  <2>1. /\ append' = append /\ context = "closing" /\ playing' = <<>>
        /\ missed' = missed \cup {playing[i] : i \in DOMAIN playing}
    BY <1>10 DEF ContextClosed
  <2>2. missed' \subseteq 0..asked
    <3>1. \A i \in DOMAIN playing : playing[i] \in Nat /\ playing[i] <= audio.active
      <4>1. \A i \in DOMAIN playing : playing[i] \in Generation BY <1>3
      <4>2. \A i \in DOMAIN playing : playing[i] <= audio.active
        BY <1>3 DEF GateInv
      <4>3. \A k \in Generation : k <= audio.active => k \in Nat
        BY <1>3 DEF Generation, NoGeneration
      <4> QED BY <4>1, <4>2, <4>3
    <3>2. \A i \in DOMAIN playing : playing[i] \in 0..asked BY <1>3, <3>1
    <3> QED BY <1>6, <2>1, <3>2
  <2>3. wanted # NoGeneration => \A i \in DOMAIN playing : playing[i] # wanted
    BY <1>4, <2>1 DEF Listening
  <2>4. wanted # NoGeneration /\ wanted \notin missed => wanted \notin missed'
    BY <2>1, <2>3
  <2>5. \A i \in DOMAIN playing' : FALSE BY <2>1
  <2> QED BY <1>5, <2>1, <2>2, <2>4, <2>5
<1>11. CASE ChunkPlayed
  <2>1. /\ UNCHANGED <<append, context, missed>> /\ playing # <<>>
        /\ playing' = Tail(playing)
    BY <1>11 DEF ChunkPlayed
  <2>2. \A i \in DOMAIN playing' : i + 1 \in DOMAIN playing
                                   /\ playing'[i] = playing[i + 1]
    BY <1>3, <2>1, TailHolds
  <2>3. Listening => \A i \in DOMAIN playing' :
          playing'[i] = wanted => Tuned(audio, wanted) /\ context' # "closing"
    BY <2>1, <2>2 DEF Listening
  <2> QED BY <1>5, <1>6, <2>1, <2>3
<1>12. CASE UNCHANGED vars
  <2>1. UNCHANGED <<append, context, missed, playing>>
    BY <1>12 DEF vars, clientVars, playerVars
  <2> QED BY <1>5, <1>6, <2>1 DEF Listening
<1> QED BY <1>8, <1>9, <1>10, <1>11, <1>12

LEMMA PersonHeard ==
  ASSUME TypeInv, HeardInv, PersonStep, Requests \subseteq {"utterance"}
  PROVE  HeardInv'
<1>1. up \in Seq(Message) /\ asked \in Nat BY Numbers DEF TypeInv
<1>2. UNCHANGED <<response, missed>> BY PersonSends
<1>3. \/ /\ up' = Append(up, [kind |-> "interrupt", gen |-> NoGeneration])
         /\ asked' = asked /\ wanted' = NoGeneration
      \/ /\ up' = Append(up, [kind |-> "utterance", gen |-> asked + 1])
         /\ asked' = asked + 1 /\ wanted' = asked + 1
  BY DEF PersonStep, PressStop, Ask
<1>4. \A i \in DOMAIN up' : \/ up'[i].kind = "utterance"
                            \/ up'[i].kind = "interrupt" /\ up'[i].gen = NoGeneration
  <2>1. ASSUME NEW m, up' = Append(up, m),
               m.kind = "utterance" \/ (m.kind = "interrupt" /\ m.gen = NoGeneration),
               NEW i \in DOMAIN up'
        PROVE  \/ up'[i].kind = "utterance"
               \/ up'[i].kind = "interrupt" /\ up'[i].gen = NoGeneration
    <3>1. (i \in DOMAIN up /\ up'[i] = up[i]) \/ up'[i] = m BY <1>1, <2>1
    <3> QED BY <2>1, <3>1 DEF HeardInv
  <2> QED BY <1>3, <2>1
<1>5. missed' \subseteq 0..asked' /\ asked + 1 \notin missed
  <2>1. missed \subseteq 0..asked BY DEF HeardInv
  <2> QED BY <1>1, <1>2, <1>3, <2>1
<1>6. wanted' # NoGeneration => wanted' = asked' /\ wanted' \notin missed' /\ Awaited'
  <2>1. ASSUME wanted' # NoGeneration
        PROVE  up' # <<>> /\ up'[Len(up')].gen = asked + 1
    <3> DEFINE m == [kind |-> "utterance", gen |-> asked + 1]
    <3>1. m.gen = asked + 1 /\ up' = Append(up, m) BY <1>3, <2>1
    <3> HIDE DEF m
    <3>2. up' # <<>> /\ up'[Len(up')] = m BY <1>1, <3>1
    <3> QED BY <3>1, <3>2
  <2> QED BY <1>2, <1>3, <1>5, <2>1 DEF Awaited
<1> QED BY <1>2, <1>4, <1>5, <1>6 DEF HeardInv

LEMMA HeardIsKept ==
  ASSUME ~SlowSend, ~SlowClose, Requests \subseteq {"utterance"}
  PROVE  TypeInv /\ OrderInv /\ GateInv /\ HeardInv /\ [Next]_vars => HeardInv'
  BY ServerHeard, NoticeHeard, AnswerHeard, EventHeard, PlayerHeard, PersonHeard
     DEF Next, ServerStep, ClientStep

\* Every chunk of the answer the person still wants is played: no gate
\* (generation_gate.ts) refuses it, no context that is being closed swallows it
\* and no flush of an earlier stop removes it, for any number of utterances and
\* stops and any gate.  The hypotheses are those under which it is so: an
\* announcement, a send that is overtaken and a context that closes late each
\* break it.
THEOREM WantedAlwaysHeard ==
  ASSUME ~SlowSend, ~SlowClose, Requests \subseteq {"utterance"}
  PROVE  Spec => []WantedIsHeard
<1>1. Init => HeardInv
  BY DEF Init, HeardInv, Nothing, NoGeneration
<1>2. (TypeInv /\ WireInv) /\ HeardInv /\ [Next]_vars => HeardInv'
  BY HeardIsKept DEF WireInv
<1>3. TypeInv /\ WireInv /\ HeardInv => WantedIsHeard
  <2>1. ASSUME TypeInv, HeardInv PROVE WantedIsHeard
    <3>1. CASE wanted # NoGeneration BY <2>1, <3>1 DEF HeardInv, WantedIsHeard
    <3>2. CASE wanted = NoGeneration
      <4>1. NoGeneration \notin Generation
        BY GateAssumption DEF Generation, NoGeneration
      <4> QED BY <2>1, <3>2, <4>1 DEF TypeInv, TypeOK, WantedIsHeard
    <3> QED BY <3>1, <3>2
  <2> QED BY <2>1
<1> QED BY Wired, <1>1, <1>2, <1>3, PTL DEF Spec
=============================================================================
