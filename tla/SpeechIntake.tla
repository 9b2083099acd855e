----------------------------- MODULE SpeechIntake -----------------------------
(***************************************************************************)
(* How speech becomes an utterance: chunks of audio from one client's      *)
(* microphone and perhaps from other clients of the same session, the      *)
(* handlers of their sockets in SessionWorker._append_audio, _commit_audio *)
(* and _close_session, the InputBuffer, the EndpointDetector and the       *)
(* Silero stream under it, which hands each frame to a thread, twice.      *)
(*                                                                         *)
(* A step is the code between two awaits that suspend.  A frame is named   *)
(* by what the model hears in it.  SessionWorker.tla tells what becomes of *)
(* an utterance.                                                           *)
(***************************************************************************)
EXTENDS Microphone, ClientMessages, FiniteSets

CONSTANTS
  MinSilence,   \* frames: min_silence_duration_ms
  MaxDetectors  \* bound: detectors made

ASSUME IntakeAssumption ==
  {MinSilence, MaxDetectors} \subseteq Nat /\ IsFiniteSet(Socket)

VARIABLES
  buffered,  \* the loudest of the input buffer: "nothing", "quiet" or "speech"
  detector,  \* SessionWorker._endpoint_detector, by its number; 0 is None
  made,      \* detectors made so far
  seen,      \* the fields of the detectors
  stream,    \* the VAD stream of each of them
  loaded,    \* has SileroVadEngine its model?
  doing,     \* what the handler of each socket awaits
  link,      \* the sockets as the runtime has them
  utterance, \* history: the last utterance sealed
  cut,       \* history: was the buffer last emptied in the middle of speech?
  replaced   \* history: was a detector put in the place of another?

audio == <<buffered, detector, made, seen, stream, loaded, doing, utterance, cut,
           replaced>>
vars == <<clientVars, up, left, audio, link>>

Detectors == 1..MaxDetectors
Fields == [speaking : BOOLEAN, saw : BOOLEAN]
NewDetector == [speaking |-> FALSE, saw |-> FALSE]
NewStream == [buffer |-> <<>>, speaking |-> FALSE, triggered |-> FALSE, quiets |-> 0]

\* The VAD events of a push are held as what they will make of the fields of
\* the detector, whichever these are when the push is over.
NoEvents == [f \in Fields |-> [speaking |-> f.speaking, saw |-> f.saw, ready |-> FALSE]]
Idle == [pc |-> "idle", on |-> 0, frame |-> "quiet", heard |-> NoEvents, frames |-> <<>>]
NoUtterance == [heard |-> "nothing", by |-> "none", cut |-> FALSE]

Init ==
  /\ MicrophoneInit
  /\ buffered = "nothing" /\ detector = 0 /\ made = 0 /\ loaded = FALSE
  /\ seen = [d \in Detectors |-> NewDetector]
  /\ stream = [d \in Detectors |-> NewStream]
  /\ doing = [c \in Socket |-> Idle]
  /\ link = [c \in Socket |-> IF c \in left.sockets THEN "open" ELSE "none"]
  /\ utterance = NoUtterance /\ cut = FALSE /\ replaced = FALSE

-----------------------------------------------------------------------------
(* The other clients, and the explicit commits of all.                     *)

Others == left.sockets \ {Browser}
CanCommit == Others \cup {c \in {Browser} : stage = "ready"}

Faults == {"no type", "no session", "no chunk", "binary", "garbled",
           "unknown transport", "null transport", "unknown encoding"}

OthersSpeak ==
  /\ \E c \in Others, frames \in [1..FramesPerChunk -> Frame] :
       MaySay(c) /\ Says(c, Chunk(frames))
  /\ May("chunks")
  /\ UNCHANGED <<clientVars, audio, link>>

OthersErr ==
  /\ \E c \in Others, fault \in Faults :
       MaySay(c) /\ Says(c, [Message("AudioAppend") EXCEPT !.fault = fault])
  /\ May("faults")
  /\ UNCHANGED <<clientVars, audio, link>>

Commits ==
  /\ \E c \in CanCommit, type \in {"AudioCommit", "UserTurnCommit"} :
       MaySay(c) /\ Says(c, Message(type))
  /\ May("commits")
  /\ UNCHANGED <<clientVars, audio, link>>

OthersClose ==
  /\ \E c \in Others : MaySay(c) /\ Says(c, Message("SessionClose"))
  /\ May("closes")
  /\ UNCHANGED <<clientVars, audio, link>>

\* The object that is sent for a message.
FieldNames == UNION {{f[1] : f \in ToSet(ClientMessage[t])} : t \in ClientMessageType}
Filled == [f \in FieldNames |->
             CASE f \in {"session_id", "chunk_id"} -> "text"
               [] f \in {"sequence", "sample_rate_hz", "channels"} -> "integer"
               [] f = "chunk" -> "object"
               [] f = "encoding" -> "pcm_s16le"
               [] f = "transport" -> "inline-base64"
               [] f = "data_base64" -> "base64"
               [] OTHER -> "absent"]
Payload(m) ==
  LET With(f, v) == [type |-> m.type, value |-> [Filled EXCEPT ![f] = v]]
  IN CASE m.fault = "no type" -> [type |-> "absent", value |-> Filled]
       [] m.fault = "no session" -> With("session_id", "absent")
       [] m.fault = "no chunk" -> With("chunk", "text")
       [] m.fault = "binary" -> With("transport", "binary-frame")
       [] m.fault = "garbled" -> With("data_base64", "text")
       [] m.fault = "unknown transport" -> With("transport", "text")
       [] m.fault = "null transport" -> With("transport", "null")
       [] m.fault = "unknown encoding" -> With("encoding", "text")
       [] OTHER -> [type |-> m.type, value |-> Filled]

-----------------------------------------------------------------------------
(* The input buffer and the endpoint detector.                             *)

Louder(old, frames) ==
  IF old = "speech" \/ "speech" \in ToSet(frames) THEN "speech" ELSE "quiet"

\* Is the push of another handler under way, or speech in the stream of d, when
\* the handler of c empties the buffer?
Pushing(c) == doing[c].pc \in {"loading", "iterating", "judging"}
MidSpeech(c, d) ==
  \/ \E b \in Socket \ {c} : Pushing(b)
  \/ d # 0 /\ stream[d].speaking

\* InputBuffer.reset, and snapshot: no utterance without audio.
EmptyBuffer == "nothing"
Emptied(c, d) == buffered' = EmptyBuffer /\ cut' = MidSpeech(c, d)
Snapshot(by) == IF buffered = EmptyBuffer THEN utterance
                ELSE [heard |-> buffered, by |-> by, cut |-> cut]

\* _seal_input_buffer; told are the fields of the detectors so far.
Seal(c, by, told) ==
  /\ Emptied(c, detector)
  /\ seen' = [d \in Detectors |-> IF d = detector THEN NewDetector ELSE told[d]]
  /\ utterance' = Snapshot(by)

\* Faulty variant: only START_OF_SPEECH tells a detector that there is speech.
Hears_StartsOnly(f, event) ==
  CASE event = "start" -> [f EXCEPT !.speaking = TRUE, !.saw = TRUE]
    [] event = "end" -> [f EXCEPT !.speaking = FALSE, !.ready = f.saw]
    [] OTHER -> f

\* What one VAD event does to the fields of a detector and to its decision.
Hears(f, event) ==
  CASE event = "start" -> [f EXCEPT !.speaking = TRUE, !.saw = TRUE]
    [] event = "end" -> [f EXCEPT !.speaking = FALSE, !.ready = f.saw]
    [] event = "speaking" ->
         IF f.speaking THEN f ELSE [f EXCEPT !.speaking = TRUE, !.saw = TRUE]
    [] event = "silent" ->
         IF f.speaking THEN [f EXCEPT !.speaking = FALSE, !.ready = f.saw] ELSE f

\* EndpointDetector.push_audio on one more event
Hear(heard, event) == [f \in Fields |-> Hears(heard[f], event)]

\* A push is over: the detector decides, and an endpoint commits the audio.
Decide(c, d, heard) ==
  LET decision == heard[seen[d]]
      told == [seen EXCEPT ![d] = [speaking |-> decision.speaking, saw |-> decision.saw]]
  IN IF decision.ready THEN Seal(c, "vad", told)
     ELSE seen' = told /\ UNCHANGED <<buffered, utterance, cut>>

-----------------------------------------------------------------------------
(* The Silero stream.                                                      *)

\* silero_vad's VADIterator (external): speech starts with its first frame and
\* ends when it was silent for the minimum.
Iterate(s, frame) ==
  IF frame = "speech" THEN [s EXCEPT !.triggered = TRUE, !.quiets = 0]
  ELSE IF ~s.triggered THEN s
  ELSE IF s.quiets < MinSilence THEN [s EXCEPT !.quiets = @ + 1]
  ELSE [s EXCEPT !.triggered = FALSE, !.quiets = 0]

\* push_audio up to its first thread, with more frames in the stream's buffer,
\* or the next round of its loop.
NextFrame(c, d, frames, heard) ==
  LET waiting == stream[d].buffer \o frames IN
  /\ stream' = [stream EXCEPT ![d].buffer = Tail(waiting)]
  /\ doing' = [doing EXCEPT ![c] = [Idle EXCEPT !.pc = "iterating", !.on = d,
                                     !.frame = Head(waiting), !.heard = heard]]

\* The iterator has heard the frame; its probability is asked for.
Iterated(c) ==
  /\ doing[c].pc = "iterating"
  /\ LET d == doing[c].on
         before == stream[d]
         after == Iterate(before, doing[c].frame)
         started == after.triggered /\ ~before.triggered
         ended == before.triggered /\ ~after.triggered
     IN /\ stream' = [stream EXCEPT ![d] =
             [after EXCEPT !.speaking = (@ \/ started) /\ ~ended]]
        /\ doing' = [doing EXCEPT ![c].pc = "judging",
             ![c].heard = IF started THEN Hear(@, "start")
                          ELSE IF ended THEN Hear(@, "end") ELSE @]
  /\ UNCHANGED <<clientVars, up, left, link, buffered, detector, made, seen, loaded,
                 utterance, cut, replaced>>

\* The probability is there: an INFERENCE event, the next frame, if there is
\* one, or the end of the push.
Judged(c) ==
  /\ doing[c].pc = "judging"
  /\ LET d == doing[c].on
         heard == Hear(doing[c].heard, IF stream[d].speaking THEN "speaking" ELSE "silent")
     IN IF stream[d].buffer # <<>>
          THEN NextFrame(c, d, <<>>, heard)
                 /\ UNCHANGED <<buffered, seen, utterance, cut>>
          ELSE /\ doing' = [doing EXCEPT ![c] = Idle]
               /\ Decide(c, d, heard)
               /\ UNCHANGED stream
  /\ UNCHANGED <<clientVars, up, left, link, detector, made, loaded, replaced>>

\* Faulty variant: a chunk is only kept when the detector is there.
Kept_Later(frames) == IF detector = 0 THEN buffered ELSE Louder(buffered, frames)

\* InputBuffer.append
Kept(frames) == Louder(buffered, frames)

\* A new detector, for the handler that asked for it.
Ensures(c, frames) ==
  /\ made < MaxDetectors /\ made' = made + 1
  /\ detector' = made + 1
  /\ replaced' = (replaced \/ detector # 0)
  /\ NextFrame(c, made + 1, frames, NoEvents)

\* _append_audio: the first handlers wait for the model.
Appends(c, frames) ==
  /\ buffered' = Kept(frames)
  /\ IF ~left.vad THEN UNCHANGED <<detector, made, stream, doing, replaced>>
     ELSE IF detector # 0
       THEN /\ NextFrame(c, detector, frames, NoEvents)
            /\ UNCHANGED <<detector, made, replaced>>
     ELSE IF loaded THEN Ensures(c, frames)
     ELSE /\ doing' = [doing EXCEPT ![c] = [Idle EXCEPT !.pc = "loading", !.frames = frames]]
          /\ UNCHANGED <<detector, made, stream, replaced>>
  /\ UNCHANGED <<seen, loaded, utterance, cut>>

\* The load of a handler ends, perhaps not the only one.
Loaded(c) ==
  /\ doing[c].pc = "loading"
  /\ loaded' = TRUE
  /\ Ensures(c, doing[c].frames)
  /\ UNCHANGED <<clientVars, up, left, link, buffered, seen, utterance, cut>>

\* The engine is the runtime's: a session beside this one may need it first.
LoadedElsewhere ==
  /\ ~loaded /\ left.vad /\ loaded' = TRUE
  /\ UNCHANGED <<clientVars, up, left, link, buffered, detector, made, seen, stream,
                 doing, utterance, cut, replaced>>

\* EndpointDetector.close: nobody is given the detector any more.  A push under
\* way on its stream goes on; only the iterator is reset.
Dropped ==
  /\ detector' = 0
  /\ stream' = [d \in Detectors |->
       IF d = detector THEN [stream[d] EXCEPT !.triggered = FALSE, !.quiets = 0]
       ELSE stream[d]]

\* _close_session empties the buffer at once, or after the response that is
\* active was interrupted.
Closes(c) ==
  /\ Dropped
  /\ \/ Emptied(c, 0) /\ UNCHANGED doing
     \/ /\ doing' = [doing EXCEPT ![c] = [Idle EXCEPT !.pc = "closing"]]
        /\ UNCHANGED <<buffered, cut>>
  /\ UNCHANGED <<made, seen, loaded, utterance, replaced>>

Interrupted(c) ==
  /\ doing[c].pc = "closing" /\ doing' = [doing EXCEPT ![c] = Idle]
  /\ Emptied(c, detector)
  /\ UNCHANGED <<clientVars, up, left, link, detector, made, seen, stream, loaded,
                 utterance, replaced>>

-----------------------------------------------------------------------------
(* The handler of a socket, one message after the other.                   *)

Received(c) == Head(up[c])

Handles(c) ==
  /\ Reception(Payload(Received(c))) = "message"
  /\ CASE Received(c).type = "AudioAppend" -> Appends(c, Received(c).frames)
       [] Received(c).type \in {"AudioCommit", "UserTurnCommit"} ->
            /\ Seal(c, "client", seen)
            /\ UNCHANGED <<detector, made, stream, loaded, doing, replaced>>
       [] Received(c).type = "SessionClose" -> Closes(c)
       [] OTHER -> UNCHANGED audio
  /\ up' = [up EXCEPT ![c] = Tail(@)]
  /\ UNCHANGED link

\* The client is told of an error in its session, and the socket stays.
Rejects(c) ==
  /\ Reception(Payload(Received(c))) = "protocol_error"
  /\ up' = [up EXCEPT ![c] = Tail(@)]
  /\ UNCHANGED <<audio, link>>

\* Without a session the socket is closed; another exception ends the handler.
Ends(c) ==
  /\ Reception(Payload(Received(c))) \in {"closes", "raises"}
  /\ up' = [up EXCEPT ![c] = <<>>]
  /\ link' = [link EXCEPT ![c] = "closed"]
  /\ UNCHANGED audio

Handle(c) ==
  /\ link[c] = "open" /\ up[c] # <<>> /\ doing[c].pc = "idle"
  /\ Handles(c) \/ Rejects(c) \/ Ends(c)
  /\ UNCHANGED <<clientVars, left>>

ClientStep == MicrophoneNext /\ UNCHANGED <<audio, link>>

Next ==
  \/ ClientStep \/ OthersSpeak \/ OthersErr \/ Commits \/ OthersClose
  \/ LoadedElsewhere
  \/ \E c \in Socket : Handle(c) \/ Loaded(c) \/ Iterated(c) \/ Judged(c)
                       \/ Interrupted(c)

Spec == Init /\ [][Next]_vars

-----------------------------------------------------------------------------
(* Properties.                                                             *)

TypeOK ==
  /\ MicrophoneTypeOK
  /\ buffered \in {"nothing"} \cup Frame
  /\ made \in 0..MaxDetectors /\ detector \in 0..made
  /\ seen \in [Detectors -> Fields]
  /\ stream \in [Detectors -> [buffer : Seq(Frame), speaking : BOOLEAN,
                               triggered : BOOLEAN, quiets : 0..MinSilence]]
  /\ \A c \in Socket : doing[c].pc \in {"idle", "loading", "iterating", "judging",
                                      "closing"}
  /\ link \in [Socket -> {"none", "open", "closed"}]

\* No handler is at work, and there is a detector.
Quiet == (\A c \in Socket : doing[c].pc = "idle") /\ detector # 0

\* Speech is not left behind in the buffer: when no handler is at work and the
\* stream is silent, all speech received has been sealed or thrown away by a
\* close, however the frames of two handlers mixed in the one stream, and
\* whatever was committed or closed between them (worker.py:164-192, 678-690,
\* silero.py:42-97, endpointing.py:26-53).  Excepted is a session in which a
\* detector took the place of another, which alone had heard the speech.
NoSpeechIsLeftBehind ==
  Quiet /\ ~replaced /\ ~stream[detector].speaking => buffered # "speech"

\* The detector and the stream agree whether someone is speaking, save after a
\* seal in the middle of speech, which resets only the detector.
DetectorFollowsStream ==
  Quiet /\ ~cut => seen[detector].speaking = stream[detector].speaking

SpeechIsTaken == TypeOK /\ NoSpeechIsLeftBehind /\ DetectorFollowsStream

\* An utterance that the VAD ended holds speech: silence does not begin a turn,
\* which under send_now would cut an answer short.  Excepted is the utterance
\* after the buffer was emptied in the middle of speech: by a seal, of which
\* the stream is not told (worker.py:702-710), or by a close, while a push on
\* the stream it closed goes on (worker.py:678-690).  Either ends that speech
\* later, in audio that came since.
UtterancesHoldSpeech ==
  (utterance.by = "vad" /\ ~utterance.cut) => utterance.heard = "speech"
=============================================================================
