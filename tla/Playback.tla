------------------------------ MODULE Playback ------------------------------
(***************************************************************************)
(* What the person hears: one websocket between a session worker and the   *)
(* web SDK's session (web-sdk/src/session.ts), its generation gates, its   *)
(* audio controller (interruption/audio_output.ts) and its player          *)
(* (audio/streaming_pcm_player.ts).                                        *)
(*                                                                         *)
(* The worker is reduced to what the socket shows of it with one           *)
(* connection and the send_now policy: it answers one request at a time,   *)
(* and a new request or a stop cuts the answer short.  SessionWorkerProofs *)
(* shows that it does.  A request and the generation that answers it share *)
(* one number.                                                             *)
(*                                                                         *)
(* In the browser, code runs to its next await; the model's step is the    *)
(* code between two awaits that wait for the audio context.  The event     *)
(* sequencer applies one event at a time and waits for its audio; calls of *)
(* interrupt() run beside it.                                              *)
(***************************************************************************)
EXTENDS GenerationGate

CONSTANTS
  MaxStops,      \* bound: calls of the session's interrupt(), each numbered
  MaxChunks,     \* bound: tts.chunk events of one answer
  WireCapacity,  \* events the socket buffers before a send waits
  Requests,      \* what the application asks for
  SlowSend,      \* can the recogniser finish before the interrupt is sent?
  SlowClose      \* can the next answer arrive before a context is closed?

\* "utterance": audio.commit; "reply", "say": generateReply() and say() with
\* interruptCurrent false; "reply over", "say over": with it true.
Request == {"utterance", "reply", "reply over", "say", "say over"}

ASSUME PlaybackAssumption ==
  /\ MaxStops \in Nat /\ MaxChunks \in Nat \ {0}
  /\ WireCapacity \in Nat \ {0}
  /\ Requests \subseteq Request
  /\ SlowSend \in BOOLEAN /\ SlowClose \in BOOLEAN

Stop == 1..MaxStops
Sequencer == 0
Flusher == Stop \cup {Sequencer}

VARIABLES
  up,        \* client messages on their way to the worker
  response,  \* the answer the worker is sending, and the events left of it
  notices,   \* the events the worker's handler has still to send
  down,      \* events on their way to the client
  owner,     \* the gate of GenerationOwner
  audio,     \* the gate of SessionAudioController
  append,    \* the generation of the chunk whose append awaits resume()
  flush,     \* what each running preemptAndFlush awaits
  context,   \* StreamingPcmPlayer.audioContext
  closer,    \* the preemptAndFlush that awaits the context's close()
  playing,   \* the chunks scheduled in the context, by generation
  asked,     \* requests made so far
  wanted,    \* the answer the person still wants to hear
  missed,    \* generations of which a chunk was not played to its end
  cut        \* generations the worker has interrupted

serverVars == <<response, notices>>
playerVars == <<context, closer, playing>>
clientVars == <<owner, audio, append, flush, playerVars>>
personVars == <<asked, wanted>>
vars == <<up, serverVars, down, clientVars, personVars, missed, cut>>

Nothing == [kind |-> "none", gen |-> NoGeneration, left |-> <<>>]
ServerMessage == [kind : {"interrupt", "utterance", "reply", "say"},
                  gen : MaybeGeneration]
FlushState ==
  [at : {"off", "closing", "waiting", "settling", "done"},
   gen : MaybeGeneration,   \* preemptedGenerationId
   pending : BOOLEAN]       \* the chain it awaits holds an unfinished append
NotFlushing == [at |-> "off", gen |-> NoGeneration, pending |-> FALSE]
Flushed(f) == [NotFlushing EXCEPT !.at = IF f = Sequencer THEN "off" ELSE "done"]
Flushing(f) == flush[f].at \in {"closing", "waiting", "settling"}

Init ==
  /\ up = <<>> /\ down = <<>>
  /\ response = Nothing /\ notices = <<>>
  /\ owner = OpenGate /\ audio = OpenGate
  /\ append = NoGeneration
  /\ flush = [f \in Flusher |-> NotFlushing]
  /\ context = "none" /\ closer = Sequencer /\ playing = <<>>
  /\ asked = 0 /\ wanted = NoGeneration
  /\ missed = {} /\ cut = {}

-----------------------------------------------------------------------------
(* The worker's side of the socket.                                        *)

E(type, g) == [type |-> type, gen |-> g]
Spoken(g, n) == [i \in 1..n |-> E("chunk", g)] \o <<E("spoken", g)>>

\* The events of one answer, in the order _process_utterance_turn,
\* _run_text_turn and _agent_say emit them.  A blank transcript ends a turn
\* with stt.status.  A language model that fails ends it with an error event,
\* one that answers nothing, or fails later, with no speech.
Replies(g) ==
  {<<E("status", g)>>}
    \cup {<<E("phase", g), E("answered", g)>> \o speech :
            speech \in {<<>>} \cup {Spoken(g, n) : n \in 1..MaxChunks}}
Script(kind, g) ==
  CASE kind = "utterance" ->
         {<<E("status", g)>>}
           \cup {<<E("status", g), E("final", g)>> \o reply : reply \in Replies(g)}
    [] kind = "reply" -> Replies(g)
    [] kind = "say" ->
         {<<E("status", g)>> \o Spoken(g, n) : n \in 1..MaxChunks}

\* _has_active_response; agent.say is streamed by the handler itself.
Responding == response.left # <<>> /\ response.kind # "say"
HandlerBusy == notices # <<>> \/ (response.kind = "say" /\ response.left # <<>>)

\* What _interrupt returns for the response it cut: the interruption and the
\* turn's metrics with the generation that was cut.  A reply or an
\* announcement overwrites it with the new generation's, in the status events
\* before it too.
Interrupted(g) == <<E("interrupted", g), E("status", g)>>
Interruption(m) ==
  IF ~Responding THEN <<>>
  ELSE IF m.kind = "utterance" THEN Interrupted(response.gen)
  ELSE <<E("status", m.gen)>> \o Interrupted(m.gen)
CutShort == IF Responding THEN cut \cup {response.gen} ELSE cut

\* Faulty variant: a stop without a response is not answered.
ServerStops_OnlyActive ==
  /\ Head(up).kind = "interrupt"
  /\ notices' = IF Responding THEN Interrupted(response.gen) ELSE <<>>
  /\ response' = Nothing
  /\ cut' = CutShort

\* conversation.interrupt, with a response or without one.
ServerStops ==
  /\ Head(up).kind = "interrupt"
  /\ notices' = IF Responding THEN Interrupted(response.gen)
                ELSE <<E("interrupted", NoGeneration)>>
  /\ response' = Nothing
  /\ cut' = CutShort

\* Any other message: its answer begins.
ServerAnswers ==
  LET m == Head(up) IN
  /\ m.kind # "interrupt"
  /\ \E script \in Script(m.kind, m.gen) :
       response' = [kind |-> m.kind, gen |-> m.gen, left |-> script]
  /\ notices' = IF m.kind = "reply"
                  THEN Interruption(m) \o <<E("status", m.gen)>>
                  ELSE Interruption(m)
  /\ cut' = CutShort

\* The handler takes one message after the other.
ServerReceives ==
  /\ up # <<>>
  /\ ~HandlerBusy
  /\ ServerStops \/ ServerAnswers
  /\ up' = Tail(up)
  /\ UNCHANGED <<down, clientVars, personVars, missed>>

SendNotice ==
  /\ notices # <<>>
  /\ Len(down) < WireCapacity
  /\ down' = Append(down, Head(notices))
  /\ notices' = Tail(notices)
  /\ UNCHANGED <<up, response, clientVars, personVars, missed, cut>>

\* The answer's next event.  Replies and announcements begin when the notices
\* are out; the task of an utterance is created before they are sent, and
\* transcribes meanwhile.
SendAnswer ==
  /\ response.left # <<>>
  /\ notices = <<>> \/ (SlowSend /\ response.kind = "utterance")
  /\ Len(down) < WireCapacity
  /\ down' = Append(down, Head(response.left))
  /\ response' = [response EXCEPT !.left = Tail(@)]
  /\ UNCHANGED <<up, notices, clientVars, personVars, missed, cut>>

-----------------------------------------------------------------------------
(* The player.                                                             *)

ContextState == {"none", "suspended", "running", "closing"}
Open == context \in {"suspended", "running"}

\* StreamingPcmPlayer.flush called by f: close() of a context that is being
\* closed is refused at once, and there may be no context.
CallFlush(f) ==
  /\ context' = IF Open THEN "closing" ELSE context
  /\ closer' = IF Open THEN f ELSE closer

\* Faulty variant: the flush asked for by a stop leaves the context open.
BeginPreempt_NoFlush(f) ==
  /\ flush' = [flush EXCEPT ![f] =
                 [at |-> "waiting", gen |-> audio.active,
                  pending |-> append # NoGeneration]]
  /\ UNCHANGED <<context, closer>>

\* SessionAudioController.preemptAndFlush called by f, up to its first await.
\* The gate's active generation is the one before the call.
BeginPreempt(f) ==
  /\ flush' = [flush EXCEPT ![f] =
                 [at |-> IF Open THEN "closing" ELSE "waiting",
                  gen |-> audio.active, pending |-> append # NoGeneration]]
  /\ CallFlush(f)

\* Faulty variant: the second flush does not look at the generation.
Changed_Never(f) == FALSE
Changed(f) == audio.active # flush[f].gen

\* The first flush is over and so is the chain it awaited: flush once more
\* unless another generation has become active.
Settle(f) ==
  /\ flush[f].at = "waiting"
  /\ ~flush[f].pending
  /\ IF Changed(f) \/ ~Open
       THEN /\ flush' = [flush EXCEPT ![f] = Flushed(f)]
            /\ UNCHANGED <<context, closer>>
       ELSE /\ flush' = [flush EXCEPT ![f].at = "settling"]
            /\ CallFlush(f)
  /\ UNCHANGED <<up, serverVars, down, owner, audio, append, playing,
                 personVars, missed, cut>>

\* The browser has closed the context: its chunks are gone, and the flush
\* that awaited it clears the player.
ContextClosed ==
  /\ context = "closing"
  /\ context' = "none"
  /\ playing' = <<>>
  /\ missed' = missed \cup {playing[i] : i \in DOMAIN playing}
  /\ flush' = [flush EXCEPT ![closer] =
                 IF @.at = "closing" THEN [@ EXCEPT !.at = "waiting"]
                 ELSE Flushed(closer)]
  /\ UNCHANGED <<up, serverVars, down, owner, audio, append, closer,
                 personVars, cut>>

\* Time passes and a scheduled chunk has been played.
ChunkPlayed ==
  /\ context = "running"
  /\ playing # <<>>
  /\ playing' = Tail(playing)
  /\ UNCHANGED <<up, serverVars, down, owner, audio, append, flush, context,
                 closer, personVars, missed, cut>>

\* Faulty variant: only the sequencer learns that the chain is empty.
ChainEmptied_Sequencer == [flush EXCEPT ![Sequencer].pending = FALSE]
ChainEmptied == [f \in Flusher |-> [flush[f] EXCEPT !.pending = FALSE]]

\* resume() is settled: the chunk is scheduled in the context if that is still
\* there.  A context being closed plays nothing more, and one that is gone
\* raises an error: the generation is rejected and the player flushed again.
AppendEnds ==
  /\ append # NoGeneration
  /\ append' = NoGeneration
  /\ flush' = ChainEmptied
  /\ \/ /\ context = "suspended"
        /\ context' = "running"
        /\ playing' = Append(playing, append)
        /\ UNCHANGED <<audio, missed>>
     \/ /\ context = "closing"
        /\ audio' \in {audio, RejectActive(audio)}
        /\ missed' = missed \cup {append}
        /\ UNCHANGED <<context, playing>>
     \/ /\ context = "none"
        /\ audio' = RejectActive(audio)
        /\ missed' = missed \cup {append}
        /\ UNCHANGED <<context, playing>>
  /\ UNCHANGED <<up, serverVars, down, owner, closer, personVars, cut>>

-----------------------------------------------------------------------------
(* The event sequencer.                                                    *)

\* appendTtsChunk up to its first await, if it has one.
AppendChunk(g) ==
  \/ /\ context = "none"
     /\ context' = "suspended"
     /\ append' = g
     /\ UNCHANGED <<playing, missed>>
  \/ /\ context = "running"
     /\ playing' = Append(playing, g)
     /\ UNCHANGED <<context, append, missed>>
  \/ /\ context = "closing"
     /\ missed' = missed \cup {g}
     /\ UNCHANGED <<context, append, playing>>

\* An event without audio, or one a gate keeps away from the player.
NotPlayed(e) ==
  /\ missed' = IF e.type = "chunk" THEN missed \cup {e.gen} ELSE missed
  /\ UNCHANGED <<append, flush, playerVars>>

\* The next event: GenerationOwner.decide, then the audio controller.
ReceiveEvent ==
  LET e == Head(down) IN
  /\ down # <<>>
  /\ append = NoGeneration
  /\ ~Flushing(Sequencer)
  /\ ~SlowClose => ~(context = "closing" /\ e.type = "chunk")
  /\ down' = Tail(down)
  /\ owner' = Observe(owner, e)
  /\ IF ~ShouldAccept(owner, e)
       THEN NotPlayed(e) /\ UNCHANGED audio
     ELSE IF e.type = "interrupted"
       THEN /\ audio' = RejectActive(Observe(audio, e))
            /\ BeginPreempt(Sequencer)
            /\ UNCHANGED <<append, playing, missed>>
     ELSE /\ audio' = Observe(audio, e)
          /\ IF ShouldAccept(audio, e) /\ e.type = "chunk"
               THEN AppendChunk(e.gen) /\ UNCHANGED <<flush, closer>>
               ELSE NotPlayed(e)
  /\ UNCHANGED <<up, serverVars, personVars, cut>>

-----------------------------------------------------------------------------
(* The application.                                                        *)

\* WebVoiceSession.interrupt up to its first await.
Interrupting(f) ==
  /\ flush[f].at = "off"
  /\ f - 1 \in Stop => flush[f - 1].at # "off"
  /\ owner' = RejectActive(owner)
  /\ audio' = RejectActive(audio)
  /\ BeginPreempt(f)
  /\ UNCHANGED <<append, playing>>

PressStop(f) ==
  /\ Interrupting(f)
  /\ up' = Append(up, [kind |-> "interrupt", gen |-> NoGeneration])
  /\ wanted' = NoGeneration
  /\ UNCHANGED <<serverVars, down, asked, missed, cut>>

Ask(kind) ==
  /\ asked < MaxAsked
  /\ asked' = asked + 1
  /\ wanted' = asked + 1
  /\ up' = Append(up, [kind |-> kind, gen |-> asked + 1])
  /\ UNCHANGED <<serverVars, down, clientVars, missed, cut>>

AskOver(kind, f) ==
  /\ asked < MaxAsked
  /\ Interrupting(f)
  /\ asked' = asked + 1
  /\ wanted' = asked + 1
  /\ up' = up \o <<[kind |-> "interrupt", gen |-> NoGeneration],
                   [kind |-> kind, gen |-> asked + 1]>>
  /\ UNCHANGED <<serverVars, down, missed, cut>>

-----------------------------------------------------------------------------
ServerStep == ServerReceives \/ SendNotice \/ SendAnswer
ClientStep == ReceiveEvent \/ AppendEnds \/ ContextClosed \/ ChunkPlayed
                \/ \E f \in Flusher : Settle(f)
PersonStep ==
  \/ \E f \in Stop : PressStop(f)
  \/ \E kind \in {"utterance", "reply", "say"} \cap Requests : Ask(kind)
  \/ \E f \in Stop :
       \/ "reply over" \in Requests /\ AskOver("reply", f)
       \/ "say over" \in Requests /\ AskOver("say", f)

Next == ServerStep \/ ClientStep \/ PersonStep

Spec == Init /\ [][Next]_vars

\* The runtime's event loop and its engines go on, the socket delivers, and
\* the browser settles resume() and close() and plays what is scheduled.
FairSpec ==
  /\ Spec
  /\ WF_vars(ServerReceives) /\ WF_vars(SendNotice) /\ WF_vars(SendAnswer)
  /\ WF_vars(ReceiveEvent) /\ WF_vars(AppendEnds)
  /\ WF_vars(ContextClosed) /\ WF_vars(ChunkPlayed)
  /\ \A f \in Flusher : WF_vars(Settle(f))

-----------------------------------------------------------------------------
(* Properties.                                                             *)

\* The gates, the player and the calls in progress hold values of the types
\* their declarations give, and an append awaits resume() only while it is
\* the newest context's first.
TypeOK ==
  /\ up \in Seq(ServerMessage)
  /\ response \in [kind : {"none", "utterance", "reply", "say"},
                   gen : MaybeGeneration, left : Seq(Event)]
  /\ notices \in Seq(Event) /\ down \in Seq(Event)
  /\ owner \in Gate /\ audio \in Gate
  /\ append \in MaybeGeneration
  /\ flush \in [Flusher -> FlushState]
  /\ context \in ContextState /\ closer \in Flusher
  /\ playing \in Seq(Generation)
  /\ asked \in 0..MaxAsked /\ wanted \in MaybeGeneration
  /\ missed \subseteq Generation /\ cut \subseteq Generation

\* Nothing is on its way in either direction and nobody is at work.
Settled ==
  /\ up = <<>> /\ down = <<>> /\ notices = <<>> /\ response.left = <<>>
  /\ append = NoGeneration /\ context # "closing"
  /\ \A f \in Flusher : ~Flushing(f)

\* The two gates, one for the state the application shows and one for the
\* audio it plays, are driven at different places and never disagree.
GatesAgree == owner = audio

\* A gate lets go of a generation only by rejecting it, so nothing of an
\* answer that was superseded is accepted later, however late it arrives.
SupersededIsRejected ==
  [][\A g \in Generation :
       audio.active = g /\ audio'.active # g => Rejects(audio', g)]_vars

\* No chunk of the answer the person still wants is refused by a gate, lost in
\* a context that is being closed, or flushed.
WantedIsHeard == wanted \notin missed

\* After a stop that nothing followed, once everything has settled, the player
\* is silent, also when the next answer had already begun to arrive.
StopSilences == Settled /\ wanted = NoGeneration => playing = <<>>

\* Once everything has settled nothing is left in the player of an answer the
\* worker has interrupted.
InterruptedIsSilent ==
  Settled => \A i \in DOMAIN playing : playing[i] \notin cut

\* Whatever was asked and stopped, every event is delivered and applied and
\* every call of interrupt() returns.
EverythingSettles == <>[]Settled

\* A stop reaches both gates and the player.
StopsAreFinal == StopSilences /\ GatesAgree
=============================================================================
