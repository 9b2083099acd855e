-------------------------- MODULE SpeechIntakeProofs --------------------------
(* Proofs about SpeechIntake, for any clients, scenarios and bounds: that  *)
(* the microphone is released, that utterances hold speech, and that no    *)
(* speech is left behind.                                                  *)
EXTENDS SpeechIntake, FiniteSetTheorems, TLAPS

\* A capture bears a number of its own, and never the 0 of fields that are null.
Numbered == captureToken \in Nat /\ 0 \notin asking /\ 0 \notin live

\* The calls come one after the other: only the capture the fields hold can be
\* open, and it is while the microphone runs; while the person is asked nothing
\* else is under way; while a context closes no device is open.
InTurn ==
  /\ live \subseteq {held}
  /\ live # {} => running
  /\ \A j, k \in asking : j = k
  /\ asking # {} => held = 0 /\ running /\ stopping = {}
  /\ stopping # {} => live = {}

MicrophoneInv == Numbered /\ (~overlapped => InTurn)

-----------------------------------------------------------------------------
\* Before the first call nothing is open.
LEMMA InitReleased == Init => MicrophoneInv
BY DEF Init, MicrophoneInit, MicrophoneInv, Numbered, InTurn

\* start, up to its await, keeps the invariant: it is the only one to ask, or
\* the calls overlap.
LEMMA StartKeeps == MicrophoneInv /\ Start => MicrophoneInv'
<1> SUFFICES ASSUME MicrophoneInv, Start PROVE MicrophoneInv'
  OBVIOUS
<1>1. Numbered'
  BY DEF MicrophoneInv, Numbered, Start
<1>2. ASSUME ~overlapped' PROVE InTurn'
  <2>1. ~overlapped /\ asking = {} /\ stopping = {} /\ held = 0
    BY <1>2 DEF Start
  <2>2. live = {}
    BY <2>1 DEF MicrophoneInv, Numbered, InTurn
  <2>3. asking' = {captureToken + 1} /\ running' /\ live' = {} /\ stopping' = {} /\ held' = 0
    BY <2>1, <2>2 DEF Start
  <2> QED
    BY <2>3 DEF InTurn
<1> QED
  BY <1>1, <1>2 DEF MicrophoneInv

\* stop, up to its await, keeps the invariant: the held device is the only one
\* that can be open, and it is closed.
LEMMA StopKeeps == MicrophoneInv /\ Stop => MicrophoneInv'
<1> SUFFICES ASSUME MicrophoneInv, Stop PROVE MicrophoneInv'
  OBVIOUS
<1>1. Numbered'
  BY DEF MicrophoneInv, Numbered, Stop, Stopped
<1>2. ASSUME ~overlapped' PROVE InTurn'
  <2>1. ~overlapped /\ asking' = {}
    BY <1>2 DEF Stop
  <2>2. live' = {}
    BY <2>1 DEF MicrophoneInv, InTurn, Stop, Stopped
  <2> QED
    BY <2>1, <2>2 DEF InTurn
<1> QED
  BY <1>1, <1>2 DEF MicrophoneInv

\* The context of a stop is closed: no device was open by then.
LEMMA StopEndsKeeps == MicrophoneInv /\ StopEnds => MicrophoneInv'
<1> SUFFICES ASSUME MicrophoneInv, StopEnds PROVE MicrophoneInv'
  OBVIOUS
<1>1. PICK k \in stopping : StopEnds!(k)
  BY DEF StopEnds
<1>2. Numbered'
  BY <1>1 DEF MicrophoneInv, Numbered
<1>3. ASSUME ~overlapped' PROVE InTurn'
  BY <1>1, <1>3 DEF MicrophoneInv, InTurn
<1> QED
  BY <1>2, <1>3 DEF MicrophoneInv

\* The person answers the one call that asked.
LEMMA AnswerKeeps == MicrophoneInv /\ (Granted \/ Refused) => MicrophoneInv'
<1> SUFFICES ASSUME MicrophoneInv, Granted \/ Refused PROVE MicrophoneInv'
  OBVIOUS
<1>1. CASE Granted
  <2>1. PICK k \in asking : Granted!(k)
    BY <1>1 DEF Granted
  <2>2. Numbered'
    BY <2>1 DEF MicrophoneInv, Numbered
  <2>3. ASSUME ~overlapped' PROVE InTurn'
    <3>1. InTurn
      BY <2>1, <2>3 DEF MicrophoneInv
    <3>2. live = {} /\ running /\ stopping = {} /\ asking \ {k} = {}
      BY <3>1 DEF MicrophoneInv, Numbered, InTurn
    <3> QED
      BY <2>1, <3>2 DEF InTurn
  <2> QED
    BY <2>2, <2>3 DEF MicrophoneInv
<1>2. CASE Refused
  <2>1. PICK k \in asking : Refused!(k)
    BY <1>2 DEF Refused
  <2>2. Numbered'
    BY <2>1 DEF MicrophoneInv, Numbered
  <2>3. ASSUME ~overlapped' PROVE InTurn'
    BY <2>1, <2>3 DEF MicrophoneInv, InTurn
  <2> QED
    BY <2>2, <2>3 DEF MicrophoneInv
<1> QED
  BY <1>1, <1>2

\* What leaves the fields of the microphone alone keeps the invariant.
LEMMA OthersKeep == MicrophoneInv /\ UNCHANGED <<fields, overlapped>> => MicrophoneInv'
BY DEF fields, MicrophoneInv, Numbered, InTurn

\* Every step of the system keeps it.
LEMMA NextKeeps == MicrophoneInv /\ [Next]_vars => MicrophoneInv'
<1> SUFFICES ASSUME MicrophoneInv, [Next]_vars PROVE MicrophoneInv'
  OBVIOUS
<1>1. CASE ClientStep
  <2>1. CASE Attach \/ SwitchOn
    BY <2>1, StartKeeps DEF Attach, SwitchOn
  <2>2. CASE SwitchOff \/ Close
    BY <2>2, StopKeeps DEF SwitchOff, Close
  <2>3. CASE StopEnds
    BY <2>3, StopEndsKeeps
  <2>4. CASE Granted \/ Refused
    BY <2>4, AnswerKeeps
  <2>5. CASE Connecting \/ ConnectFails \/ Speak
    BY <2>5, OthersKeep DEF Connecting, ConnectFails, Speak, clientVars
  <2> QED
    BY <1>1, <2>1, <2>2, <2>3, <2>4, <2>5 DEF ClientStep, MicrophoneNext
<1>2. CASE OthersSpeak \/ OthersErr \/ Commits \/ OthersClose \/ LoadedElsewhere
  BY <1>2, OthersKeep
  DEF OthersSpeak, OthersErr, Commits, OthersClose, LoadedElsewhere, clientVars
<1>3. ASSUME NEW c \in Socket,
             Handle(c) \/ Loaded(c) \/ Iterated(c) \/ Judged(c) \/ Interrupted(c)
      PROVE MicrophoneInv'
  BY <1>3, OthersKeep DEF Handle, Loaded, Iterated, Judged, Interrupted, clientVars
<1>4. CASE UNCHANGED vars
  BY <1>4, OthersKeep DEF vars, clientVars
<1> QED
  BY <1>1, <1>2, <1>3, <1>4 DEF Next

\* When the microphone was last switched off, no device is open, whatever was
\* refused, repeated or closed before, as long as no call came in the middle of
\* another (browser_mic_input.ts:106-201).
THEOREM MicrophoneReleased == Spec => []MicrophoneIsReleased
<1>1. MicrophoneInv => MicrophoneIsReleased
  BY DEF MicrophoneInv, InTurn, MicrophoneIsReleased
<1> QED
  BY InitReleased, NextKeeps, <1>1, PTL DEF Spec

-----------------------------------------------------------------------------
(* What the handlers, the detectors and the streams have of each other.    *)

At(pcs) == {c \in Socket : doing[c].pc \in pcs}
Loading == At({"loading"})
Closing == At({"closing"})
Active  == At({"iterating", "judging"})
PushingOn(d) == {c \in Active : doing[c].on = d}
Judging == {c \in At({"judging"}) : doing[c].on = detector}

Decisions == [speaking : BOOLEAN, saw : BOOLEAN, ready : BOOLEAN]
Push == [pc : {"idle", "loading", "iterating", "judging", "closing"},
         on : {0} \cup Detectors, frame : Frame, heard : [Fields -> Decisions],
         frames : Seq(Frame)]
Sendable == {Chunk(frames) : frames \in [1..FramesPerChunk -> Frame]}
              \cup {[Message("AudioAppend") EXCEPT !.fault = fault] : fault \in Faults}
              \cup {Message(type) : type \in
                      {"SessionStart", "SessionClose", "AudioCommit", "UserTurnCommit"}}

Streams == [buffer : Seq(Frame), speaking : BOOLEAN, triggered : BOOLEAN, quiets : 0..MinSilence]

ClientTypes ==
  /\ MicrophoneTypeOK /\ up \in [Socket -> Seq(Sendable)]
  /\ link \in [Socket -> {"none", "open", "closed"}]
AudioTypes ==
  /\ buffered \in {"nothing"} \cup Frame
  /\ made \in 0..MaxDetectors /\ detector \in 0..made
  /\ seen \in [Detectors -> Fields] /\ stream \in [Detectors -> Streams]
  /\ doing \in [Socket -> Push] /\ {loaded, cut, replaced} \subseteq BOOLEAN
Types == ClientTypes /\ AudioTypes

\* Who takes part: a handler that awaits nothing holds nothing, pushes are on
\* detectors that were made, and frames wait in a stream for a push on it.
Places ==
  /\ \A c \in Socket :
       doing[c].pc \in {"idle", "closing"} => doing[c] = [Idle EXCEPT !.pc = doing[c].pc]
  /\ \A c \in Loading : doing[c].frames # <<>>
  /\ \A c \in Active : doing[c].on \in 1..made
  /\ \A d \in Detectors :
       /\ d > made => stream[d] = NewStream /\ seen[d] = NewDetector
       /\ stream[d].buffer # <<>> => PushingOn(d) # {}
  /\ left.vad \/ (Loading = {} /\ detector = 0)

Present ==
  /\ \E scenario \in Scenarios : left.sockets = scenario.sockets
  /\ \A c \in Socket \ left.sockets : up[c] = <<>> /\ doing[c].pc = "idle"
  /\ Browser \in left.sockets \/
       (stage = "engines" /\ asking = {} /\ live = {} /\ stopping = {})

\* What the events of a push make of fields: a detector that has heard speech
\* is in the middle of it or at an endpoint.
Keeps(heard) ==
  \A f \in Fields : (f.speaking => f.saw) =>
    /\ heard[f].speaking => heard[f].saw
    /\ f.saw => heard[f].saw
    /\ (f.saw => f.speaking) /\ heard[f].saw /\ ~heard[f].speaking => heard[f].ready

Told(heard) == \A f \in Fields : (f.speaking => f.saw) => heard[f].saw

\* The iterator of a stream that was closed is reset, its VAD is not.
Agree ==
  /\ \A d \in Detectors :
       /\ stream[d].triggered => stream[d].speaking
       /\ seen[d].speaking => seen[d].saw
       /\ d = detector => /\ stream[d].speaking => stream[d].triggered
                          /\ seen[d].saw => seen[d].speaking
  /\ \A c \in Socket : Keeps(doing[c].heard)

\* When the last push on it is over the detector follows its stream.
Follows ==
  (detector # 0 /\ PushingOn(detector) = {}) =>
    /\ seen[detector].speaking => stream[detector].speaking
    /\ ~cut => seen[detector].speaking = stream[detector].speaking

\* Speech in the buffer is still to be heard, or is known to the detector, or
\* the stream is in it and more handlers will tell so than quiet frames passed,
\* unless a close is about to throw it away.
Underway ==
  \/ Loading # {} \/ "speech" \in ToSet(stream[detector].buffer)
  \/ \E c \in PushingOn(detector) :
       doing[c].pc = "iterating" /\ doing[c].frame = "speech"
Known == seen[detector].saw \/ \E c \in PushingOn(detector) : Told(doing[c].heard)
Ending == stream[detector].speaking /\ stream[detector].quiets < Cardinality(Judging)

Followed ==
  (buffered = "speech" /\ left.vad /\ ~replaced /\ Closing = {}) =>
    IF detector = 0 THEN \E c \in Loading : "speech" \in ToSet(doing[c].frames)
    ELSE Underway \/ Known \/ Ending

\* While there is only silence in the buffer nothing knows of speech, save
\* after a seal in the middle of it.
Hushed(d) == /\ ~stream[d].speaking /\ seen[d] = NewDetector
             /\ "speech" \notin ToSet(stream[d].buffer)
Hush ==
  (~cut /\ buffered # "speech") =>
    /\ detector # 0 => Hushed(detector)
    /\ \A c \in Active : Hushed(doing[c].on)
    /\ \A c \in Socket :
         /\ doing[c].frame = "quiet" /\ "speech" \notin ToSet(doing[c].frames)
         /\ doing[c].heard[NewDetector] = NoEvents[NewDetector]

EnoughSilence == \A scenario \in Scenarios :
                   Cardinality(scenario.sockets) <= MinSilence + 1

IntakeInv == Types /\ Places /\ Present /\ Agree /\ Follows /\ Hush /\ UtterancesHoldSpeech

-----------------------------------------------------------------------------
(* The messages.                                                           *)

\* The fields of an audio message, in the order they are read.
LEMMA AudioFields ==
  LET read == ClientMessage["AudioAppend"] IN
  /\ "AudioAppend" \in ClientMessageType /\ 1..10 \subseteq DOMAIN read
  /\ read[1] = <<"session_id", "str">> /\ read[2] = <<"chunk", "dict">>
  /\ read[5] = <<"encoding", "str">>
  /\ read[9] = <<"transport", "transport">>
  /\ read[10] = <<"data_base64", "optional_str">>
BY DEF ClientMessage, ClientMessageType, InSession, AudioChunkPayload

\* The read an error is made in are among those of the object.
LEMMA FieldsNamed ==
  {"session_id", "chunk", "encoding", "transport", "data_base64"} \subseteq FieldNames
<1> DEFINE read == ClientMessage["AudioAppend"]
<1>1. ASSUME NEW i \in 1..10 PROVE read[i][1] \in FieldNames
  <2>1. i \in DOMAIN read /\ "AudioAppend" \in ClientMessageType
    BY AudioFields
  <2>2. read[i] \in ToSet(read)
    BY <2>1 DEF ToSet
  <2> QED
    BY <2>1, <2>2 DEF FieldNames
<1>2. /\ read[1][1] = "session_id" /\ read[2][1] = "chunk"
      /\ read[5][1] = "encoding" /\ read[9][1] = "transport" /\ read[10][1] = "data_base64"
  BY AudioFields
<1> HIDE DEF read
<1> QED
  BY <1>1, <1>2

\* What a fault leaves of the object that is sent.
LEMMA FaultyPayload ==
  ASSUME NEW m \in Sendable, m.type = "AudioAppend", m.fault \in Faults
  PROVE  LET payload == Payload(m) IN
         /\ m.fault = "no type" => payload.type = "absent"
         /\ m.fault # "no type" => payload.type = "AudioAppend"
         /\ m.fault = "no session" => payload.value["session_id"] = "absent"
         /\ m.fault = "no chunk" => payload.value["chunk"] = "text"
         /\ m.fault = "binary" => payload.value["transport"] = "binary-frame"
         /\ m.fault = "garbled" => payload.value["data_base64"] = "text"
         /\ m.fault = "unknown transport" => payload.value["transport"] = "text"
         /\ m.fault = "null transport" => payload.value["transport"] = "null"
         /\ m.fault = "unknown encoding" => payload.value["encoding"] = "text"
BY FieldsNamed DEF Payload, Faults, Filled

\* A field that is not as it is read is unread.
LEMMA FaultIsUnread ==
  ASSUME NEW payload, payload.type = "AudioAppend", NEW i \in {1, 2, 9},
         LET f == ClientMessage["AudioAppend"][i] IN payload.value[f[1]] \notin Accepted[f[2]]
  PROVE  parse_client_message(payload) # "message"
<1>1. i \in Unread(payload)
  BY AudioFields DEF Unread
<1> QED
  BY <1>1 DEF parse_client_message

\* A message that is handled as audio carries at least one frame.
LEMMA HandledHasFrames ==
  ASSUME NEW m \in Sendable, m.type = "AudioAppend", Reception(Payload(m)) = "message"
  PROVE  m.frames \in Seq(Frame) /\ m.frames # <<>>
<1> DEFINE payload == Payload(m)
<1>1. m.fault \notin Faults
  <2> SUFFICES ASSUME m.fault \in Faults PROVE FALSE
    OBVIOUS
  <2>1. parse_client_message(payload) = "message"
    BY FaultyPayload DEF Reception
  <2>2. "absent" \notin ClientMessageType
    BY DEF ClientMessageType, ClientMessage
  <2>3. payload.type = "AudioAppend"
    BY <2>1, <2>2, FaultyPayload DEF parse_client_message
  <2>4. audio_chunk_from_message(payload) = "message"
    BY <2>1, <2>3 DEF Reception
  <2>5. /\ payload.value["transport"] # "binary-frame" /\ payload.value["data_base64"] = "base64"
        /\ payload.value["encoding"] \in AudioEncoding
    BY <2>4 DEF audio_chunk_from_message
  <2>6. m.fault \in {"no session", "no chunk", "unknown transport", "null transport"}
    BY <2>3, <2>5, FaultyPayload, <2>2 DEF Faults, AudioEncoding, ClientMessageType
  <2>7. /\ Accepted["str"] = Text /\ Accepted["dict"] = {"object"}
        /\ Accepted["transport"] = {"absent"} \cup AudioTransport
    BY DEF Accepted
  <2>8. "absent" \notin Text /\ {"text", "null"} \cap ({"absent"} \cup AudioTransport) = {}
    BY DEF Text, AudioTransport, AudioEncoding
  <2>9. PICK i \in {1, 2, 9} :
          LET f == ClientMessage["AudioAppend"][i] IN payload.value[f[1]] \notin Accepted[f[2]]
    <3>1. CASE m.fault = "no session"
      <4> DEFINE f == ClientMessage["AudioAppend"][1]
      <4>1. f[1] = "session_id" /\ f[2] = "str"
        BY AudioFields
      <4>2. payload.value["session_id"] = "absent"
        BY <3>1, FaultyPayload
      <4>3. payload.value[f[1]] \notin Accepted[f[2]]
        BY <4>1, <4>2, <2>7, <2>8
      <4> QED
        BY <4>3
    <3>2. CASE m.fault = "no chunk"
      <4> DEFINE f == ClientMessage["AudioAppend"][2]
      <4>1. f[1] = "chunk" /\ f[2] = "dict"
        BY AudioFields
      <4>2. payload.value["chunk"] = "text"
        BY <3>2, FaultyPayload
      <4>3. payload.value[f[1]] \notin Accepted[f[2]]
        BY <4>1, <4>2, <2>7, <2>8
      <4> QED
        BY <4>3
    <3>3. CASE m.fault \in {"unknown transport", "null transport"}
      <4> DEFINE f == ClientMessage["AudioAppend"][9]
      <4>1. f[1] = "transport" /\ f[2] = "transport"
        BY AudioFields
      <4>2. payload.value["transport"] \in {"text", "null"}
        BY <3>3, FaultyPayload
      <4>3. payload.value[f[1]] \notin Accepted[f[2]]
        BY <4>1, <4>2, <2>7, <2>8
      <4> QED
        BY <4>3
    <3> QED
      BY <2>6, <3>1, <3>2, <3>3
  <2> HIDE DEF payload
  <2> QED
    BY <2>1, <2>3, <2>9, FaultIsUnread
<1>2. PICK frames \in [1..FramesPerChunk -> Frame] : m = Chunk(frames)
  <2>1. \A fault \in Faults : [Message("AudioAppend") EXCEPT !.fault = fault].fault = fault
    BY DEF Message
  <2>2. \A type \in {"SessionStart", "SessionClose", "AudioCommit", "UserTurnCommit"} :
          Message(type).type # "AudioAppend"
    BY DEF Message
  <2> QED
    BY <1>1, <2>1, <2>2 DEF Sendable
<1>3. m.frames = frames
  BY <1>2 DEF Chunk, Message
<1>4. frames \in Seq(Frame) /\ Len(frames) = FramesPerChunk /\ FramesPerChunk \in Nat \ {0}
  BY MicrophoneAssumption
<1> QED
  BY <1>3, <1>4

-----------------------------------------------------------------------------
(* What a push makes of the fields of a detector.                          *)

Events == {"start", "end", "speaking", "silent"}

\* What one event does to a decision.
LEMMA HearsTyped ==
  ASSUME NEW g \in Decisions, NEW event \in Events
  PROVE  /\ Hears(g, event) \in Decisions
         /\ g.saw => Hears(g, event).saw
         /\ (g.speaking => g.saw) => (Hears(g, event).speaking => Hears(g, event).saw)
         /\ event = "start" => Hears(g, event).saw
         /\ event = "speaking" /\ (g.speaking => g.saw) => Hears(g, event).saw
         /\ event \in {"speaking", "silent"} => (Hears(g, event).speaking <=> event = "speaking")
         /\ event = "silent" /\ ~g.speaking => Hears(g, event) = g
BY DEF Hears, Decisions, Events

\* Speech that was heard and is over is an endpoint.
LEMMA HearsEnds ==
  ASSUME NEW g \in Decisions, NEW event \in Events, g.speaking => g.saw,
         g.saw /\ ~g.speaking => g.ready
  PROVE  Hears(g, event).saw /\ ~Hears(g, event).speaking => Hears(g, event).ready
BY DEF Hears, Decisions, Events

\* Before the first event nothing is decided.
LEMMA NoEventsKeep ==
  /\ NoEvents \in [Fields -> Decisions] /\ Keeps(NoEvents)
  /\ NewDetector \in Fields
BY DEF NoEvents, Fields, Decisions, Keeps, NewDetector

\* One more event: what was known stays known.
LEMMA HearKeeps ==
  ASSUME NEW heard \in [Fields -> Decisions], NEW event \in Events
  PROVE  /\ Hear(heard, event) \in [Fields -> Decisions]
         /\ Keeps(heard) => Keeps(Hear(heard, event))
         /\ Told(heard) => Told(Hear(heard, event))
         /\ event = "start" => Told(Hear(heard, event))
         /\ event = "speaking" /\ Keeps(heard) => Told(Hear(heard, event))
         /\ event \in {"speaking", "silent"} =>
              \A f \in Fields : Hear(heard, event)[f].speaking <=> event = "speaking"
         /\ event = "silent" /\ heard[NewDetector] = NoEvents[NewDetector] =>
              Hear(heard, event)[NewDetector] = NoEvents[NewDetector]
<1> DEFINE told == Hear(heard, event)
<1>1. \A f \in Fields : told[f] = Hears(heard[f], event) /\ heard[f] \in Decisions
  BY DEF Hear
<1>2. told \in [Fields -> Decisions]
  BY <1>1, HearsTyped DEF Hear
<1>3. ASSUME Keeps(heard) PROVE Keeps(told)
  <2> SUFFICES ASSUME NEW f \in Fields, f.speaking => f.saw
               PROVE /\ told[f].speaking => told[f].saw
                     /\ f.saw => told[f].saw
                     /\ (f.saw => f.speaking) /\ told[f].saw /\ ~told[f].speaking => told[f].ready
    BY DEF Keeps
  <2>1. heard[f].speaking => heard[f].saw
    BY <1>3 DEF Keeps
  <2>2. f.saw => heard[f].saw
    BY <1>3 DEF Keeps
  <2>3. (f.saw => f.speaking) => (heard[f].saw /\ ~heard[f].speaking => heard[f].ready)
    BY <1>3 DEF Keeps
  <2> HIDE DEF told
  <2> QED
    BY <1>1, <2>1, <2>2, <2>3, HearsTyped, HearsEnds
<1>4. ASSUME Told(heard) PROVE Told(told)
  BY <1>1, <1>4, HearsTyped DEF Told
<1>5. ASSUME event = "start" PROVE Told(told)
  BY <1>1, <1>5, HearsTyped DEF Told
<1>6. ASSUME event = "speaking", Keeps(heard) PROVE Told(told)
  BY <1>1, <1>6, HearsTyped DEF Told, Keeps
<1>7. ASSUME event \in {"speaking", "silent"}, NEW f \in Fields
      PROVE told[f].speaking <=> event = "speaking"
  BY <1>1, <1>7, HearsTyped
<1>8. ASSUME event = "silent", heard[NewDetector] = NoEvents[NewDetector]
      PROVE told[NewDetector] = NoEvents[NewDetector]
  <2>1. NewDetector \in Fields /\ ~NoEvents[NewDetector].speaking
    BY DEF NewDetector, Fields, NoEvents
  <2> HIDE DEF told
  <2> QED
    BY <1>1, <1>8, <2>1, HearsTyped
<1> QED
  BY <1>2, <1>3, <1>4, <1>5, <1>6, <1>7, <1>8

-----------------------------------------------------------------------------
(* The stream.                                                             *)

\* Speech among frames that wait is the first of them or waits on.
LEMMA SpeechWaits ==
  ASSUME NEW w \in Seq(Frame), w # <<>>
  PROVE  /\ Head(w) \in Frame /\ Tail(w) \in Seq(Frame)
         /\ "speech" \in ToSet(w) <=> Head(w) = "speech" \/ "speech" \in ToSet(Tail(w))
<1>1. Len(w) \in Nat \ {0} /\ Len(Tail(w)) = Len(w) - 1 /\ DOMAIN w = 1..Len(w)
  OBVIOUS
<1>2. \A i \in 1..Len(w) - 1 : Tail(w)[i] = w[i + 1]
  OBVIOUS
<1>3. Head(w) = w[1] /\ DOMAIN Tail(w) = 1..Len(w) - 1
  OBVIOUS
<1>4. Head(w) \in Frame /\ Tail(w) \in Seq(Frame)
  OBVIOUS
<1>5. ASSUME "speech" \in ToSet(w) PROVE Head(w) = "speech" \/ "speech" \in ToSet(Tail(w))
  <2>1. PICK i \in 1..Len(w) : w[i] = "speech"
    BY <1>1, <1>5 DEF ToSet
  <2>2. CASE i = 1
    BY <2>1, <2>2, <1>3
  <2>3. CASE i # 1
    <3>1. i - 1 \in 1..Len(w) - 1 /\ Tail(w)[i - 1] = w[i]
      BY <2>3, <1>1, <1>2
    <3> QED
      BY <3>1, <2>1, <1>3 DEF ToSet
  <2> QED
    BY <2>2, <2>3
<1>6. ASSUME Head(w) = "speech" \/ "speech" \in ToSet(Tail(w)) PROVE "speech" \in ToSet(w)
  <2>1. CASE Head(w) = "speech"
    BY <2>1, <1>1, <1>3 DEF ToSet
  <2>2. CASE "speech" \in ToSet(Tail(w))
    <3>1. PICK i \in 1..Len(w) - 1 : Tail(w)[i] = "speech"
      BY <2>2, <1>3 DEF ToSet
    <3>2. i + 1 \in 1..Len(w) /\ w[i + 1] = "speech"
      BY <3>1, <1>1, <1>2
    <3> QED
      BY <3>2, <1>1 DEF ToSet
  <2> QED
    BY <1>6, <2>1, <2>2
<1> QED
  BY <1>4, <1>5, <1>6

\* Speech in joined frames was in one part.
LEMMA SpeechJoins ==
  ASSUME NEW v \in Seq(Frame), NEW w \in Seq(Frame)
  PROVE  /\ v \o w \in Seq(Frame) /\ (w # <<>> \/ v # <<>> => v \o w # <<>>)
         /\ "speech" \in ToSet(v \o w) <=> "speech" \in ToSet(v) \/ "speech" \in ToSet(w)
<1>1. /\ v \o w \in Seq(Frame) /\ Len(v \o w) = Len(v) + Len(w)
      /\ Len(v) \in Nat /\ Len(w) \in Nat
  OBVIOUS
<1>2. /\ \A i \in 1..Len(v) : (v \o w)[i] = v[i]
      /\ \A i \in 1..Len(w) : (v \o w)[Len(v) + i] = w[i]
  OBVIOUS
<1>3. /\ DOMAIN v = 1..Len(v) /\ DOMAIN w = 1..Len(w)
      /\ DOMAIN (v \o w) = 1..(Len(v) + Len(w))
  OBVIOUS
<1> DEFINE q == v \o w
<1>4. ASSUME "speech" \in ToSet(q) PROVE "speech" \in ToSet(v) \/ "speech" \in ToSet(w)
  <2>1. PICK i \in 1..(Len(v) + Len(w)) : q[i] = "speech"
    BY <1>3, <1>4 DEF ToSet
  <2>2. CASE i <= Len(v)
    <3>1. i \in 1..Len(v) /\ v[i] = "speech"
      BY <2>1, <2>2, <1>1, <1>2
    <3> QED
      BY <3>1, <1>3 DEF ToSet
  <2>3. CASE i > Len(v)
    <3>1. i - Len(v) \in 1..Len(w)
      BY <2>1, <2>3, <1>1
    <3>2. w[i - Len(v)] = q[Len(v) + (i - Len(v))] /\ Len(v) + (i - Len(v)) = i
      BY <3>1, <1>1, <1>2
    <3> QED
      BY <3>1, <3>2, <2>1, <1>3 DEF ToSet
  <2> QED
    BY <2>1, <2>2, <2>3, <1>1
<1>5. ASSUME "speech" \in ToSet(v) PROVE "speech" \in ToSet(q)
  <2>1. PICK i \in 1..Len(v) : v[i] = "speech"
    BY <1>3, <1>5 DEF ToSet
  <2>2. i \in 1..(Len(v) + Len(w)) /\ q[i] = "speech"
    BY <2>1, <1>1, <1>2
  <2> QED
    BY <2>2, <1>3 DEF ToSet
<1>6. ASSUME "speech" \in ToSet(w) PROVE "speech" \in ToSet(q)
  <2>1. PICK i \in 1..Len(w) : w[i] = "speech"
    BY <1>3, <1>6 DEF ToSet
  <2>2. Len(v) + i \in 1..(Len(v) + Len(w)) /\ q[Len(v) + i] = "speech"
    BY <2>1, <1>1, <1>2
  <2> QED
    BY <2>2, <1>3 DEF ToSet
<1>7. w # <<>> \/ v # <<>> => v \o w # <<>>
  BY <1>1
<1> HIDE DEF q
<1> QED
  BY <1>1, <1>4, <1>5, <1>6, <1>7 DEF q

\* What the iterator makes of a stream.
LEMMA IterateEffect ==
  ASSUME NEW s \in Streams, NEW frame \in Frame
  PROVE  LET t == Iterate(s, frame) IN
         /\ t \in Streams /\ t.buffer = s.buffer /\ t.speaking = s.speaking
         /\ frame = "speech" => t.triggered /\ t.quiets = 0
         /\ frame = "quiet" /\ ~s.triggered => t = s
         /\ frame = "quiet" /\ s.triggered =>
              IF s.quiets < MinSilence THEN t.triggered /\ t.quiets = s.quiets + 1
              ELSE ~t.triggered
<1>1. MinSilence \in Nat
  BY IntakeAssumption
<1> DEFINE t == Iterate(s, frame)
           Stream(buffer, speaking, triggered, quiets) ==
             [buffer |-> buffer, speaking |-> speaking, triggered |-> triggered, quiets |-> quiets]
<1>2. CASE frame = "speech"
  <2>1. t = Stream(s.buffer, s.speaking, TRUE, 0)
    BY <1>2 DEF Iterate, Streams
  <2>2. 0 \in 0..MinSilence
    BY <1>1
  <2> HIDE DEF t
  <2>3. t \in Streams
    BY <2>1, <2>2 DEF Streams
  <2> QED
    BY <2>1, <2>3, <1>2 DEF t
<1>3. CASE frame = "quiet" /\ ~s.triggered
  BY <1>1, <1>3 DEF Iterate, Streams, Frame
<1>4. CASE frame = "quiet" /\ s.triggered
  <2>1. t = IF s.quiets < MinSilence THEN Stream(s.buffer, s.speaking, s.triggered, s.quiets + 1)
            ELSE Stream(s.buffer, s.speaking, FALSE, 0)
    <3>1. frame # "speech" /\ s.triggered
      BY <1>4 DEF Streams
    <3>2. CASE s.quiets < MinSilence
      <4>1. t = [s EXCEPT !.quiets = @ + 1]
        BY <3>1, <3>2 DEF Iterate
      <4> QED
        BY <3>2, <4>1 DEF Streams
    <3>3. CASE ~(s.quiets < MinSilence)
      <4>1. t = [s EXCEPT !.triggered = FALSE, !.quiets = 0]
        BY <3>1, <3>3 DEF Iterate
      <4> QED
        BY <3>3, <4>1 DEF Streams
    <3> QED
      BY <3>2, <3>3
  <2>2. s.quiets \in 0..MinSilence /\ s.triggered
    BY <1>4 DEF Streams
  <2> HIDE DEF t
  <2>3. t \in Streams
    BY <1>1, <2>1, <2>2 DEF Streams
  <2> QED
    BY <2>1, <2>2, <2>3, <1>1, <1>4 DEF t
<1> QED
  BY <1>2, <1>3, <1>4 DEF Frame

\* What a step of one handler does to the sets of handlers.
LEMMA OneMoves ==
  ASSUME NEW c \in Socket, NEW x, doing \in [Socket -> Push], doing' = [doing EXCEPT ![c] = x]
  PROVE  /\ Loading' = IF x.pc = "loading" THEN Loading \cup {c} ELSE Loading \ {c}
         /\ Closing' = IF x.pc = "closing" THEN Closing \cup {c} ELSE Closing \ {c}
         /\ Active' = IF x.pc \in {"iterating", "judging"} THEN Active \cup {c}
                      ELSE Active \ {c}
         /\ doing'[c] = x /\ \A b \in Socket \ {c} : doing'[b] = doing[b]
         /\ x \in Push => doing' \in [Socket -> Push]
BY DEF Loading, Closing, Active, At

\* The pushes as the actions make them.
LEMMA PushesTyped ==
  /\ Idle \in Push /\ Idle.pc = "idle" /\ Idle.frame = "quiet" /\ Idle.heard = NoEvents
  /\ Idle.frames = <<>>
  /\ \A d \in Detectors, frame \in Frame, heard \in [Fields -> Decisions] :
       LET x == [Idle EXCEPT !.pc = "iterating", !.on = d, !.frame = frame, !.heard = heard] IN
       /\ x \in Push /\ x.pc = "iterating" /\ x.on = d /\ x.frame = frame /\ x.heard = heard
       /\ x.frames = <<>>
  /\ \A frames \in Seq(Frame) :
       LET x == [Idle EXCEPT !.pc = "loading", !.frames = frames] IN
       /\ x \in Push /\ x.pc = "loading" /\ x.frame = "quiet" /\ x.heard = NoEvents
       /\ x.frames = frames
<1>1. NoEvents \in [Fields -> Decisions] /\ <<>> \in Seq(Frame) /\ "quiet" \in Frame
  BY NoEventsKeep DEF Frame
<1> QED
  BY <1>1 DEF Idle, Push

-----------------------------------------------------------------------------
(* The iterator has heard a frame.                                         *)

\* The stream and the push after the iterator heard a frame: the events tell of
\* speech before the stream is in it.
LEMMA IteratedEffect ==
  ASSUME Types, Places, Agree, NEW c \in Socket, Iterated(c)
  PROVE  LET d == doing[c].on
             frame == doing[c].frame
         IN
         /\ c \in Active /\ doing[c].pc = "iterating" /\ d \in Detectors /\ d \in 1..made
         /\ \E t \in Streams, heard \in [Fields -> Decisions] :
              /\ stream' = [stream EXCEPT ![d] = t]
              /\ doing' = [doing EXCEPT ![c] =
                             [doing[c] EXCEPT !.pc = "judging", !.heard = heard]]
              /\ t.buffer = stream[d].buffer /\ (t.triggered => t.speaking)
              /\ d = detector => (t.speaking => t.triggered)
              /\ Keeps(heard) /\ (Told(doing[c].heard) => Told(heard))
              /\ frame = "speech" =>
                   t.speaking /\ t.quiets = 0 /\ (stream[d].speaking \/ Told(heard))
              /\ frame = "quiet" /\ ~stream[d].speaking =>
                   t = stream[d] /\ heard = doing[c].heard
              /\ d = detector /\ frame = "quiet" /\ stream[d].speaking
                   /\ stream[d].quiets < MinSilence =>
                   t.speaking /\ t.quiets = stream[d].quiets + 1
<1> DEFINE d == doing[c].on
           frame == doing[c].frame
           before == stream[d]
           after == Iterate(before, frame)
           started == after.triggered /\ ~before.triggered
           ended == before.triggered /\ ~after.triggered
           t == [after EXCEPT !.speaking = (@ \/ started) /\ ~ended]
           was == doing[c].heard
           heard == IF started THEN Hear(was, "start") ELSE IF ended THEN Hear(was, "end") ELSE was
<1>1. doing[c].pc = "iterating" /\ doing[c] \in Push /\ c \in Active
  BY DEF Iterated, Types, AudioTypes, Active, At
<1>2. d \in Detectors /\ d \in 1..made /\ frame \in Frame /\ was \in [Fields -> Decisions]
  BY <1>1 DEF Places, Types, AudioTypes, Push, Detectors
<1>3. /\ before \in Streams /\ (before.triggered => before.speaking)
      /\ d = detector => (before.speaking => before.triggered)
  BY <1>2 DEF Types, AudioTypes, Agree, Streams
<1>4. stream' = [stream EXCEPT ![d] = t]
  BY DEF Iterated
<1>5. doing' = [doing EXCEPT ![c] = [doing[c] EXCEPT !.pc = "judging", !.heard = heard]]
  BY <1>1 DEF Iterated, Types
<1>6. Keeps(was)
  BY DEF Agree
<1> HIDE DEF d, frame, before, after, was
<1>7. /\ after \in Streams /\ after.buffer = before.buffer /\ after.speaking = before.speaking
      /\ frame = "speech" => after.triggered /\ after.quiets = 0
      /\ frame = "quiet" /\ ~before.triggered => after = before
      /\ frame = "quiet" /\ before.triggered =>
           IF before.quiets < MinSilence THEN after.triggered /\ after.quiets = before.quiets + 1
           ELSE ~after.triggered
  BY <1>2, <1>3, IterateEffect DEF after
<1>8. {after.triggered, before.triggered, before.speaking, after.speaking} \subseteq BOOLEAN
  BY <1>3, <1>7 DEF Streams
<1>9. /\ heard \in [Fields -> Decisions] /\ Keeps(heard) /\ (Told(was) => Told(heard))
      /\ started => Told(heard)
  <2>1. "start" \in Events /\ "end" \in Events
    BY DEF Events
  <2> HIDE DEF started, ended
  <2> QED
    BY <2>1, <1>2, <1>6, HearKeeps
<1>10. t \in Streams /\ t.buffer = before.buffer /\ t.quiets = after.quiets
  BY <1>7, <1>8 DEF Streams
<1>11. t.speaking = ((before.speaking \/ started) /\ ~ended) /\ t.triggered = after.triggered
  BY <1>7, <1>8 DEF Streams
<1>12. (t.triggered => t.speaking) /\ (d = detector => (t.speaking => t.triggered))
  BY <1>3, <1>8, <1>11
<1>13. frame = "speech" => t.speaking /\ t.quiets = 0 /\ (before.speaking \/ Told(heard))
  <2>1. CASE before.speaking
    BY <2>1, <1>7, <1>10, <1>11, <1>12
  <2>2. CASE ~before.speaking
    <3>1. frame = "speech" => started
      BY <2>2, <1>3, <1>7
    <3> HIDE DEF started, heard
    <3> QED
      BY <3>1, <1>7, <1>9, <1>10, <1>11, <1>12
  <2> QED
    BY <2>1, <2>2
<1>14. frame = "quiet" /\ ~before.speaking => t = before /\ heard = was
  <2> SUFFICES ASSUME frame = "quiet" /\ ~before.speaking PROVE t = before /\ heard = was
    OBVIOUS
  <2>1. after = before /\ ~started /\ ~ended
    BY <1>3, <1>7
  <2>2. t = [before EXCEPT !.speaking = before.speaking]
    BY <2>1, <1>8
  <2> QED
    BY <2>1, <2>2, <1>3 DEF Streams
<1>15. d = detector /\ frame = "quiet" /\ before.speaking /\ before.quiets < MinSilence =>
         t.speaking /\ t.quiets = before.quiets + 1
  BY <1>3, <1>7, <1>10, <1>11, <1>12
<1> HIDE DEF t, heard
<1> QED
  BY <1>1, <1>2, <1>4, <1>5, <1>9, <1>10, <1>12, <1>13, <1>14, <1>15 DEF d, frame, before, was

\* The types of the handlers are those of the model and more.
LEMMA TypesImplyTypeOK == Types => TypeOK
BY DEF Types, ClientTypes, AudioTypes, TypeOK, Streams, Push

\* The handlers can be counted.
LEMMA HandlersFinite ==
  /\ IsFiniteSet(Socket) /\ Cardinality(Socket) \in Nat
  /\ IsFiniteSet(Loading) /\ Cardinality(Loading) \in Nat
  /\ IsFiniteSet(Judging) /\ Cardinality(Judging) \in Nat
<1>1. Loading \subseteq Socket /\ Judging \subseteq Socket /\ IsFiniteSet(Socket)
  BY IntakeAssumption DEF Loading, Judging, At
<1> QED
  BY <1>1, FS_Subset, FS_CardinalityType

\* The handler of an open push is not one that is idle, nor one that loads.
LEMMA HandlersApart ==
  ASSUME Types, NEW c \in Socket
  PROVE  /\ c \in Active => c \notin Loading /\ doing[c].pc # "idle"
         /\ c \in Judging => c \in PushingOn(detector)
         /\ doing[c].pc \in {"idle", "closing"} => c \notin Active /\ c \notin Loading
         /\ doing[c].pc = "iterating" => c \in Active /\ c \notin Judging
BY DEF Active, Judging, Loading, PushingOn, At

\* The iterator's turn keeps who takes part, what agrees and the hush.
LEMMA IteratedKeeps ==
  ASSUME IntakeInv, NEW c \in Socket, Iterated(c)
  PROVE  AudioTypes' /\ Places' /\ Agree' /\ Follows' /\ Hush'
<1> DEFINE d == doing[c].on
           frame == doing[c].frame
<1>1. Types /\ AudioTypes /\ Places /\ Agree /\ Follows /\ Hush
  BY DEF IntakeInv, Types
<1>2. c \in Active /\ doing[c].pc = "iterating" /\ d \in Detectors /\ d \in 1..made
  BY <1>1, IteratedEffect
<1>3. PICK t \in Streams, heard \in [Fields -> Decisions] :
        /\ stream' = [stream EXCEPT ![d] = t]
        /\ doing' = [doing EXCEPT ![c] = [doing[c] EXCEPT !.pc = "judging", !.heard = heard]]
        /\ t.buffer = stream[d].buffer /\ (t.triggered => t.speaking)
        /\ d = detector => (t.speaking => t.triggered)
        /\ Keeps(heard)
        /\ frame = "quiet" /\ ~stream[d].speaking => t = stream[d] /\ heard = doing[c].heard
  BY <1>1, IteratedEffect
<1>4. UNCHANGED <<left, buffered, detector, made, seen, loaded, cut, replaced>>
  BY DEF Iterated
<1> DEFINE x == [doing[c] EXCEPT !.pc = "judging", !.heard = heard]
<1>5. /\ x \in Push /\ x.pc = "judging" /\ x.on = d /\ x.frame = frame
      /\ x.heard = heard /\ x.frames = doing[c].frames
  BY <1>1 DEF AudioTypes, Push
<1> HIDE DEF x, d, frame
<1>6. /\ Loading' = Loading /\ Active' = Active
      /\ doing'[c] = x /\ \A b \in Socket \ {c} : doing'[b] = doing[b]
      /\ doing' \in [Socket -> Push]
  <2>1. doing \in [Socket -> Push] /\ doing' = [doing EXCEPT ![c] = x]
    BY <1>1, <1>3 DEF AudioTypes, x
  <2>2. /\ Loading' = Loading \ {c} /\ Active' = Active \cup {c}
        /\ doing'[c] = x /\ \A b \in Socket \ {c} : doing'[b] = doing[b]
        /\ doing' \in [Socket -> Push]
    BY <2>1, <1>5, OneMoves
  <2> QED
    BY <2>2, <1>1, <1>2, HandlersApart
<1>7. /\ stream' \in [Detectors -> Streams] /\ stream'[d] = t
      /\ \A e \in Detectors \ {d} : stream'[e] = stream[e]
  BY <1>1, <1>2, <1>3 DEF AudioTypes
<1>8. AudioTypes'
  BY <1>1, <1>4, <1>6, <1>7 DEF AudioTypes
<1>9. Places'
  <2>1. \A b \in Socket : doing'[b].pc \in {"idle", "closing"} =>
                         doing'[b] = [Idle EXCEPT !.pc = doing'[b].pc]
    BY <1>1, <1>5, <1>6 DEF Places
  <2>2. \A b \in Loading' : doing'[b].frames # <<>>
    BY <1>1, <1>5, <1>6 DEF Places, Loading, At
  <2>3. \A b \in Socket : doing'[b].on = doing[b].on
    BY <1>5, <1>6 DEF d
  <2>4. \A b \in Active' : doing'[b].on \in 1..made'
    BY <1>1, <1>4, <1>6, <2>3 DEF Places, Active, At
  <2>5. \A e \in Detectors : e > made => stream'[e] = NewStream /\ seen'[e] = NewDetector
    <3>1. \A e \in Detectors : e > made => e # d
      BY <1>1, <1>2, IntakeAssumption DEF AudioTypes, Detectors
    <3> QED
      BY <1>1, <1>4, <1>7, <3>1 DEF Places
  <2>6. \A e \in Detectors : stream'[e].buffer # <<>> => \E b \in Active' : doing'[b].on = e
    <3>1. \A e \in Detectors : stream'[e].buffer = stream[e].buffer
      BY <1>2, <1>3, <1>7
    <3>2. Active \subseteq Socket
      BY DEF Active, At
    <3> QED
      BY <1>1, <1>6, <2>3, <3>1, <3>2 DEF Places, PushingOn
  <2> QED
    BY <1>1, <1>4, <1>6, <2>1, <2>2, <2>4, <2>5, <2>6 DEF Places, PushingOn
<1>10. Agree'
  <2>1. \A e \in Detectors :
          /\ stream'[e].triggered => stream'[e].speaking
          /\ e = detector => (stream'[e].speaking => stream'[e].triggered)
    BY <1>1, <1>3, <1>7 DEF Agree
  <2>2. \A b \in Socket : Keeps(doing'[b].heard)
    BY <1>1, <1>3, <1>5, <1>6 DEF Agree
  <2> QED
    BY <1>1, <1>4, <2>1, <2>2 DEF Agree, Keeps
<1>11. Follows'
  <2> SUFFICES ASSUME detector # 0, PushingOn(detector)' = {} PROVE Follows'
    BY <1>4 DEF Follows
  <2>1. d # detector /\ PushingOn(detector) = {}
    <3>1. \A b \in Active : doing'[b].on = doing[b].on /\ doing'[b].on # detector
      BY <1>4, <1>5, <1>6 DEF PushingOn, Active, At, d
    <3> QED
      BY <3>1, <1>2 DEF PushingOn, d
  <2>2. stream'[detector] = stream[detector]
    BY <2>1, <1>1, <1>7, IntakeAssumption DEF AudioTypes, Detectors
  <2> QED
    BY <2>1, <2>2, <1>1, <1>4 DEF Follows
<1>12. Hush'
  <2> SUFFICES ASSUME ~cut, buffered # "speech" PROVE Hush'
    BY <1>4 DEF Hush
  <2>1. frame = "quiet" /\ ~stream[d].speaking
    BY <1>1, <1>2 DEF Hush, Hushed, frame, d
  <2>2. t = stream[d] /\ heard = doing[c].heard
    BY <1>3, <2>1
  <2>3. \A e \in Detectors : stream'[e] = stream[e]
    BY <1>7, <2>2
  <2>4. \A b \in Socket : /\ doing'[b].frame = doing[b].frame /\ doing'[b].frames = doing[b].frames
                          /\ doing'[b].heard = doing[b].heard /\ doing'[b].on = doing[b].on
    BY <1>5, <1>6, <2>2 DEF d, frame
  <2>5. \A e \in Detectors : Hushed(e) => Hushed(e)'
    BY <1>4, <2>3 DEF Hushed
  <2>6. detector' # 0 => Hushed(detector)'
    BY <1>1, <1>4, <2>3, IntakeAssumption DEF Hush, Hushed, AudioTypes, Detectors
  <2>7. \A b \in Active : doing[b].on \in Detectors /\ b \in Socket /\ Hushed(doing[b].on)
    BY <1>1 DEF Hush, AudioTypes, Push, Places, Active, At, Detectors
  <2>8. \A b \in Active' : Hushed(doing[b].on)'
    BY <1>1, <1>4, <1>6, <2>3, <2>4, <2>7 DEF Hushed
  <2> QED
    BY <1>1, <1>6, <2>4, <2>6, <2>8 DEF Hush
<1> QED
  BY <1>8, <1>9, <1>10, <1>11, <1>12

-----------------------------------------------------------------------------
(* A handler hands the next frame to the iterator.                         *)

\* The stream and the push after the next frame was handed on: no frame is lost.
LEMMA NextFrameEffect ==
  ASSUME AudioTypes, NEW c \in Socket, NEW d \in Detectors, NEW frames \in Seq(Frame),
         NEW heard \in [Fields -> Decisions], stream[d].buffer \o frames # <<>>,
         NextFrame(c, d, frames, heard)
  PROVE  /\ stream' \in [Detectors -> Streams] /\ doing' \in [Socket -> Push]
         /\ \A e \in Detectors : /\ stream'[e].triggered = stream[e].triggered
                                 /\ stream'[e].speaking = stream[e].speaking
                                 /\ stream'[e].quiets = stream[e].quiets
                                 /\ e # d => stream'[e] = stream[e]
         /\ \A b \in Socket \ {c} : doing'[b] = doing[b]
         /\ doing'[c].pc = "iterating" /\ doing'[c].on = d /\ doing'[c].frame \in Frame
         /\ doing'[c].heard = heard /\ doing'[c].frames = <<>>
         /\ Loading' = Loading \ {c} /\ Closing' = Closing \ {c} /\ Active' = Active \cup {c}
         /\ "speech" \in ToSet(stream[d].buffer) \/ "speech" \in ToSet(frames) <=>
              doing'[c].frame = "speech" \/ "speech" \in ToSet(stream'[d].buffer)
<1> DEFINE waiting == stream[d].buffer \o frames
           first == Head(waiting)
           rest == Tail(waiting)
           x == [Idle EXCEPT !.pc = "iterating", !.on = d, !.frame = first, !.heard = heard]
           s == [stream[d] EXCEPT !.buffer = rest]
<1>1. stream[d] \in Streams /\ stream[d].buffer \in Seq(Frame)
  BY DEF AudioTypes, Streams
<1>2. waiting \in Seq(Frame) /\ waiting # <<>>
      /\ ("speech" \in ToSet(waiting) <=>
            "speech" \in ToSet(stream[d].buffer) \/ "speech" \in ToSet(frames))
  BY <1>1, SpeechJoins
<1> HIDE DEF waiting
<1>3. /\ first \in Frame /\ rest \in Seq(Frame)
      /\ "speech" \in ToSet(waiting) <=> first = "speech" \/ "speech" \in ToSet(rest)
  BY <1>2, SpeechWaits
<1>4. doing' = [doing EXCEPT ![c] = x] /\ stream' = [stream EXCEPT ![d] = s]
  BY DEF NextFrame, AudioTypes, waiting
<1> HIDE DEF first, rest
<1>5. /\ x \in Push /\ x.pc = "iterating" /\ x.on = d /\ x.frame = first /\ x.heard = heard
      /\ x.frames = <<>>
  <2>1. /\ x.pc = "iterating" /\ x.on = d /\ x.frame = first /\ x.heard = heard
        /\ x.frames = <<>>
    BY DEF Idle
  <2>2. <<>> \in Seq(Frame) /\ NoEvents \in [Fields -> Decisions]
    BY NoEventsKeep
  <2>3. x \in Push
    BY <1>3, <2>2 DEF Idle, Push
  <2> QED
    BY <2>1, <2>3
<1>6. /\ s \in Streams /\ s.buffer = rest /\ s.triggered = stream[d].triggered
      /\ s.speaking = stream[d].speaking /\ s.quiets = stream[d].quiets
  BY <1>1, <1>3 DEF Streams
<1> HIDE DEF x, s
<1>7. /\ Loading' = Loading \ {c} /\ Closing' = Closing \ {c} /\ Active' = Active \cup {c}
      /\ doing'[c] = x /\ \A b \in Socket \ {c} : doing'[b] = doing[b]
      /\ doing' \in [Socket -> Push]
  <2>1. doing \in [Socket -> Push]
    BY DEF AudioTypes
  <2> QED
    BY <2>1, <1>4, <1>5, OneMoves
<1>8. /\ stream' \in [Detectors -> Streams] /\ stream'[d] = s
      /\ \A e \in Detectors \ {d} : stream'[e] = stream[e]
  BY <1>4, <1>6 DEF AudioTypes
<1> QED
  BY <1>2, <1>3, <1>5, <1>6, <1>7, <1>8

\* The next frame of a push, or the first of a new one, of the detector that is
\* there or of one that comes into being, keeps the invariant.
LEMMA PushKeeps ==
  ASSUME IntakeInv, NEW c \in Socket, NEW d \in Detectors, NEW frames \in Seq(Frame),
         NEW heard \in [Fields -> Decisions], stream[d].buffer \o frames # <<>>, Keeps(heard),
         NextFrame(c, d, frames, heard),
         c \in Active => doing[c].on = d,
         detector' \in {detector, d}, detector' = detector \/ d > made, detector' <= made',
         d <= made', made <= made', made' \in 0..MaxDetectors,
         left.vad \/ (Loading = {} /\ detector' = 0),
         buffered' \in {"nothing"} \cup Frame, loaded' \in BOOLEAN, replaced' \in BOOLEAN,
         UNCHANGED <<seen, cut, left>>,
         ~cut /\ buffered' # "speech" =>
           /\ buffered # "speech" /\ "speech" \notin ToSet(frames) /\ Hushed(d)
           /\ heard[NewDetector] = NoEvents[NewDetector]
  PROVE  AudioTypes' /\ Places' /\ Agree' /\ Follows' /\ Hush'
<1>1. AudioTypes /\ Places /\ Agree /\ Follows /\ Hush
  BY DEF IntakeInv, Types
<1> DEFINE told == "speech" \in ToSet(stream[d].buffer) \/ "speech" \in ToSet(frames) <=>
                     doing'[c].frame = "speech" \/ "speech" \in ToSet(stream'[d].buffer)
<1>2. /\ stream' \in [Detectors -> Streams] /\ doing' \in [Socket -> Push]
      /\ \A e \in Detectors : /\ stream'[e].triggered = stream[e].triggered
                              /\ stream'[e].speaking = stream[e].speaking
                              /\ stream'[e].quiets = stream[e].quiets
                              /\ e # d => stream'[e] = stream[e]
      /\ \A b \in Socket \ {c} : doing'[b] = doing[b]
      /\ doing'[c].pc = "iterating" /\ doing'[c].on = d /\ doing'[c].frame \in Frame
      /\ doing'[c].heard = heard /\ doing'[c].frames = <<>>
      /\ Loading' = Loading \ {c} /\ Active' = Active \cup {c}
      /\ told
  BY <1>1, NextFrameEffect
<1> HIDE DEF told
<1>3. /\ {detector, made, made', detector'} \subseteq Nat /\ detector' \in 0..made'
      /\ Detectors \subseteq Nat \ {0}
  BY <1>1, IntakeAssumption DEF AudioTypes, Detectors
<1>4. AudioTypes'
  <2>1. made' \in 0..MaxDetectors /\ detector' \in 0..made'
    BY <1>3
  <2>2. seen' \in [Detectors -> Fields] /\ {loaded', cut', replaced'} \subseteq BOOLEAN
    BY <1>1 DEF AudioTypes
  <2>3. stream' \in [Detectors -> Streams] /\ doing' \in [Socket -> Push]
    BY <1>2
  <2>4. buffered' \in {"nothing"} \cup Frame
    OBVIOUS
  <2> QED
    BY <2>1, <2>2, <2>3, <2>4 DEF AudioTypes
<1>5. Places'
  <2>1. \A b \in Socket : doing'[b].pc \in {"idle", "closing"} =>
                         doing'[b] = [Idle EXCEPT !.pc = doing'[b].pc]
    <3> SUFFICES ASSUME NEW b \in Socket, doing'[b].pc \in {"idle", "closing"}
                 PROVE doing'[b] = [Idle EXCEPT !.pc = doing'[b].pc]
      OBVIOUS
    <3>1. b # c /\ doing'[b] = doing[b]
      BY <1>2
    <3> QED
      BY <3>1, <1>1 DEF Places
  <2>2. \A b \in Loading' : doing'[b].frames # <<>>
    BY <1>1, <1>2 DEF Places, Loading, At
  <2>3. \A b \in Active' : doing'[b].on \in 1..made'
    <3>1. \A b \in Active : doing[b].on \in 1..made'
      BY <1>1, <1>3 DEF Places, Active, At
    <3>2. d \in 1..made'
      BY <1>3
    <3> QED
      BY <3>1, <3>2, <1>2 DEF Active, At
  <2>4. \A e \in Detectors : e > made' => stream'[e] = NewStream /\ seen'[e] = NewDetector
    BY <1>1, <1>2, <1>3 DEF Places
  <2>5. \A e \in Detectors : stream'[e].buffer # <<>> => \E b \in Active' : doing'[b].on = e
    <3> SUFFICES ASSUME NEW e \in Detectors, stream'[e].buffer # <<>>
                 PROVE \E b \in Active' : doing'[b].on = e
      OBVIOUS
    <3>1. CASE e = d
      BY <3>1, <1>2
    <3>2. CASE e # d
      <4>1. PICK b \in Active : doing[b].on = e
        BY <3>2, <1>1, <1>2 DEF Places, PushingOn
      <4>2. b # c /\ doing'[b] = doing[b] /\ b \in Active'
        BY <3>2, <4>1, <1>2 DEF Active, At
      <4> QED
        BY <4>1, <4>2
    <3> QED
      BY <3>1, <3>2
  <2> QED
    BY <1>1, <1>2, <1>3, <2>1, <2>2, <2>3, <2>4, <2>5 DEF Places, PushingOn
<1>6. Agree'
  <2>1. \A e \in Detectors : stream'[e].triggered => stream'[e].speaking
    BY <1>1, <1>2 DEF Agree
  <2>2. \A b \in Socket : Keeps(doing'[b].heard)
    BY <1>1, <1>2 DEF Agree
  <2>3. \A e \in Detectors : e = detector' =>
          /\ stream'[e].speaking => stream'[e].triggered
          /\ seen'[e].saw => seen'[e].speaking
    <3>1. CASE detector' = detector
      BY <3>1, <1>1, <1>2 DEF Agree
    <3>2. CASE detector' = d /\ detector' # detector
      <4>1. seen[d] = NewDetector /\ stream[d] = NewStream
        BY <3>2, <1>1 DEF Places
      <4> QED
        BY <3>2, <4>1, <1>2 DEF NewDetector, NewStream
    <3> QED
      BY <3>1, <3>2
  <2> QED
    BY <1>1, <2>1, <2>2, <2>3 DEF Agree, Keeps
<1>7. Follows'
  <2> SUFFICES ASSUME detector' # 0, PushingOn(detector)' = {} PROVE Follows'
    BY DEF Follows
  <2>1. detector' = detector /\ detector # d
    BY <1>2 DEF PushingOn
  <2>2. PushingOn(detector) = {}
    <3> SUFFICES ASSUME NEW b \in Active, doing[b].on = detector PROVE FALSE
      BY DEF PushingOn
    <3>1. b # c /\ b \in Active' /\ doing'[b] = doing[b]
      BY <2>1, <1>2 DEF Active, At
    <3> QED
      BY <2>1, <3>1 DEF PushingOn
  <2>3. detector \in Detectors
    BY <2>1, <1>1, IntakeAssumption DEF AudioTypes, Detectors
  <2> QED
    BY <2>1, <2>2, <2>3, <1>1, <1>2 DEF Follows
<1>8. Hush'
  <2> SUFFICES ASSUME ~cut, buffered' # "speech" PROVE Hush'
    BY DEF Hush
  <2>1. /\ buffered # "speech" /\ "speech" \notin ToSet(frames) /\ Hushed(d)
        /\ heard[NewDetector] = NoEvents[NewDetector]
    OBVIOUS
  <2>2. doing'[c].frame = "quiet" /\ "speech" \notin ToSet(stream'[d].buffer)
    BY <2>1, <1>2 DEF Hushed, told, Frame
  <2>3. \A e \in Detectors : Hushed(e) => Hushed(e)'
    BY <2>2, <1>2 DEF Hushed
  <2>4. detector' # 0 => Hushed(detector)'
    <3>1. CASE detector' = detector
      BY <3>1, <2>1, <2>3, <1>1, IntakeAssumption DEF Hush, Hushed, AudioTypes, Detectors
    <3>2. CASE detector' = d
      BY <3>2, <2>1, <2>3 DEF Hushed
    <3> QED
      BY <3>1, <3>2
  <2>5. \A b \in Active' : Hushed(doing[b].on)'
    <3> SUFFICES ASSUME NEW b \in Active' PROVE Hushed(doing[b].on)'
      OBVIOUS
    <3>1. CASE b = c
      BY <3>1, <2>1, <2>3, <1>2 DEF Hushed
    <3>2. CASE b # c
      <4>1. b \in Active /\ doing'[b] = doing[b] /\ doing[b].on \in Detectors
        BY <3>2, <1>1, <1>2 DEF Active, At, Places, AudioTypes, Push, Detectors
      <4>2. Hushed(doing[b].on)
        BY <4>1, <2>1, <1>1 DEF Hush
      <4> QED
        BY <4>1, <4>2, <2>3 DEF Hushed
    <3> QED
      BY <3>1, <3>2
  <2>6. \A b \in Socket :
          /\ doing'[b].frame = "quiet" /\ "speech" \notin ToSet(doing'[b].frames)
          /\ doing'[b].heard[NewDetector] = NoEvents[NewDetector]
    <3>1. ToSet(<<>>) = {}
      BY DEF ToSet
    <3> QED
      BY <3>1, <2>1, <2>2, <1>1, <1>2 DEF Hush
  <2> QED
    BY <2>4, <2>5, <2>6 DEF Hush
<1> QED
  BY <1>4, <1>5, <1>6, <1>7, <1>8

-----------------------------------------------------------------------------
(* The buffer is sealed, and the end of a push.                            *)

\* A handler that awaits nothing.
LEMMA IdleTyped ==
  /\ Idle \in Push /\ Idle.pc = "idle" /\ Idle.frame = "quiet" /\ Idle.heard = NoEvents
  /\ Idle.frames = <<>>
BY PushesTyped

\* The buffer was emptied: when that was not in the middle of speech, nobody
\* pushes and the detector, if there is one, has heard nothing.
LEMMA EmptiedHush ==
  ASSUME AudioTypes', Places', NEW c \in Socket, doing'[c].pc = "idle",
         \A b \in Socket \ {c} : doing'[b] = doing[b],
         ~cut' => \A b \in Socket \ {c} : ~Pushing(b),
         ~cut' /\ detector' # 0 =>
           ~stream'[detector'].speaking /\ seen'[detector'] = NewDetector
  PROVE  Hush'
<1> SUFFICES ASSUME ~cut' PROVE Hush'
  BY DEF Hush
<1>1. \A b \in Socket : doing'[b].pc \in {"idle", "closing"}
  BY DEF Pushing, AudioTypes, Push
<1>2. \A b \in Socket : doing'[b] = [Idle EXCEPT !.pc = doing'[b].pc]
  BY <1>1 DEF Places
<1>3. \A b \in Socket : /\ doing'[b].frame = "quiet" /\ doing'[b].heard = NoEvents
                       /\ doing'[b].frames = <<>>
  BY <1>2 DEF Idle
<1>4. Active' = {}
  BY <1>1 DEF Active, At
<1>5. detector' # 0 => detector' \in Detectors /\ stream'[detector'].buffer = <<>>
  <2>1. detector' # 0 => detector' \in Detectors
    BY IntakeAssumption DEF AudioTypes, Detectors
  <2> QED
    BY <2>1, <1>4 DEF Places, PushingOn
<1>6. ToSet(<<>>) = {}
  BY DEF ToSet
<1>7. detector' # 0 => Hushed(detector)'
  BY <1>5, <1>6 DEF Hushed
<1> QED
  BY <1>3, <1>4, <1>6, <1>7 DEF Hush

\* A seal keeps the invariant, whoever seals, as long as the VAD seals no silence.
LEMMA SealKeeps ==
  ASSUME IntakeInv, NEW c \in Socket, NEW by, NEW told \in [Detectors -> Fields],
         \A d \in Detectors : /\ told[d].speaking => told[d].saw
                              /\ d > made => told[d] = NewDetector,
         by = "vad" /\ ~cut => buffered = "speech",
         c \in Active => stream[doing[c].on].buffer = <<>>, c \notin Loading,
         Seal(c, by, told), doing' = [doing EXCEPT ![c] = Idle],
         UNCHANGED <<stream, detector, made, replaced, loaded, left>>
  PROVE  AudioTypes' /\ Places' /\ Agree' /\ Follows' /\ Hush' /\ UtterancesHoldSpeech'
<1>1. AudioTypes /\ Places /\ Agree /\ Hush
  BY DEF IntakeInv, Types
<1>2. /\ doing' \in [Socket -> Push] /\ doing'[c] = Idle
      /\ \A b \in Socket \ {c} : doing'[b] = doing[b]
      /\ Loading' = Loading /\ Active' = Active \ {c}
  <2>1. Idle \in Push /\ Idle.pc = "idle" /\ doing \in [Socket -> Push]
    BY <1>1, IdleTyped DEF AudioTypes
  <2>2. /\ doing' \in [Socket -> Push] /\ doing'[c] = Idle
        /\ \A b \in Socket \ {c} : doing'[b] = doing[b]
        /\ Loading' = Loading \ {c} /\ Active' = Active \ {c}
    BY <2>1, OneMoves
  <2> QED
    BY <2>2
<1>3. /\ seen' \in [Detectors -> Fields]
      /\ \A d \in Detectors : seen'[d] = IF d = detector THEN NewDetector ELSE told[d]
  BY NoEventsKeep DEF Seal
<1>4. buffered' = "nothing" /\ cut' = MidSpeech(c, detector) /\ cut' \in BOOLEAN
  BY <1>1 DEF Seal, Emptied, EmptyBuffer, MidSpeech, AudioTypes, Streams
<1>5. AudioTypes'
  BY <1>1, <1>2, <1>3, <1>4 DEF AudioTypes
<1>6. Places'
  <2>1. \A b \in Socket : doing'[b].pc \in {"idle", "closing"} =>
                         doing'[b] = [Idle EXCEPT !.pc = doing'[b].pc]
    BY <1>1, <1>2 DEF Places, Idle
  <2>2. \A b \in Loading' : doing'[b].frames # <<>>
    BY <1>1, <1>2 DEF Places, Loading, At
  <2>3. \A b \in Active' : b \in Active /\ b # c /\ b \in Socket /\ doing'[b] = doing[b]
    BY <1>2 DEF Active, At
  <2>4. \A b \in Active' : doing'[b].on \in 1..made'
    BY <1>1, <2>3 DEF Places
  <2>5. \A d \in Detectors : stream'[d].buffer # <<>> => \E b \in Active' : doing'[b].on = d
    <3> SUFFICES ASSUME NEW d \in Detectors, stream[d].buffer # <<>>
                 PROVE \E b \in Active' : doing'[b].on = d
      OBVIOUS
    <3>1. PICK b \in Active : doing[b].on = d
      BY <1>1 DEF Places, PushingOn
    <3>2. b # c /\ b \in Socket
      BY <3>1 DEF Active, At
    <3> QED
      BY <3>1, <3>2, <1>2
  <2>6. \A d \in Detectors : d > made => stream'[d] = NewStream /\ seen'[d] = NewDetector
    BY <1>1, <1>3 DEF Places
  <2> QED
    BY <1>1, <1>2, <2>1, <2>2, <2>4, <2>5, <2>6 DEF Places, PushingOn
<1>7. Agree'
  <2>1. \A d \in Detectors : /\ seen'[d].speaking => seen'[d].saw
                             /\ d = detector => (seen'[d].saw => seen'[d].speaking)
    BY <1>3 DEF NewDetector
  <2>2. \A b \in Socket : Keeps(doing'[b].heard)
    BY <1>1, <1>2, NoEventsKeep, IdleTyped DEF Agree
  <2> QED
    BY <1>1, <2>1, <2>2 DEF Agree, Keeps
<1>8. detector # 0 => seen'[detector] = NewDetector
  BY <1>1, <1>3, IntakeAssumption DEF AudioTypes, Detectors
<1>9. ~cut' /\ detector # 0 => ~stream[detector].speaking
  BY <1>4 DEF MidSpeech
<1>10. Follows'
  <2> SUFFICES ASSUME detector # 0 PROVE Follows'
    BY DEF Follows
  <2>1. ~seen'[detector].speaking /\ seen'[detector].speaking \in BOOLEAN
    <3>1. NewDetector.speaking = FALSE
      BY DEF NewDetector
    <3> QED
      BY <3>1, <1>8
  <2>2. stream[detector].speaking \in BOOLEAN
    <3>1. detector \in Detectors
      BY <1>1, IntakeAssumption DEF AudioTypes, Detectors
    <3> QED
      BY <3>1, <1>1 DEF AudioTypes, Streams
  <2> QED
    BY <2>1, <2>2, <1>9 DEF Follows
<1>11. Hush'
  <2>1. ~cut' => \A b \in Socket \ {c} : ~Pushing(b)
    BY <1>4 DEF MidSpeech
  <2> QED
    BY <2>1, <1>2, <1>5, <1>6, <1>8, <1>9, IdleTyped, EmptiedHush
<1>12. UtterancesHoldSpeech'
  <2>1. CASE buffered = "nothing"
    BY <2>1 DEF Seal, Snapshot, EmptyBuffer, IntakeInv, UtterancesHoldSpeech
  <2>2. CASE buffered # "nothing"
    <3>1. utterance' = [heard |-> buffered, by |-> by, cut |-> cut]
      BY <2>2 DEF Seal, Snapshot, EmptyBuffer
    <3> QED
      BY <3>1 DEF UtterancesHoldSpeech
  <2> QED
    BY <2>1, <2>2
<1> QED
  BY <1>5, <1>6, <1>7, <1>10, <1>11, <1>12

\* The INFERENCE event tells what the stream is in.
LEMMA JudgedHears ==
  ASSUME Types, Places, Agree, NEW c \in Socket, Judged(c)
  PROVE  LET d == doing[c].on
             heard == Hear(doing[c].heard, IF stream[d].speaking THEN "speaking" ELSE "silent")
         IN
         /\ c \in Active /\ doing[c].pc = "judging" /\ c \notin Loading
         /\ d \in Detectors /\ d \in 1..made
         /\ heard \in [Fields -> Decisions] /\ Keeps(heard)
         /\ Told(doing[c].heard) => Told(heard)
         /\ stream[d].speaking => Told(heard)
         /\ \A f \in Fields : heard[f].speaking <=> stream[d].speaking
         /\ ~stream[d].speaking /\ doing[c].heard[NewDetector] = NoEvents[NewDetector] =>
              heard[NewDetector] = NoEvents[NewDetector]
<1> DEFINE d == doing[c].on
           event == IF stream[d].speaking THEN "speaking" ELSE "silent"
           was == doing[c].heard
<1>1. doing[c].pc = "judging" /\ doing[c] \in Push /\ c \in Active /\ c \notin Loading
  BY DEF Judged, Types, AudioTypes, Active, Loading, At
<1>2. d \in Detectors /\ d \in 1..made /\ was \in [Fields -> Decisions] /\ Keeps(was)
  BY <1>1 DEF Places, Types, AudioTypes, Push, Detectors, Agree
<1>3. event \in Events /\ event \in {"speaking", "silent"} /\ (event = "speaking" <=> stream[d].speaking)
  BY DEF Events
<1> HIDE DEF event, was
<1>4. /\ Hear(was, event) \in [Fields -> Decisions] /\ Keeps(Hear(was, event))
      /\ Told(was) => Told(Hear(was, event))
      /\ event = "speaking" => Told(Hear(was, event))
      /\ \A f \in Fields : Hear(was, event)[f].speaking <=> event = "speaking"
      /\ event = "silent" /\ was[NewDetector] = NoEvents[NewDetector] =>
           Hear(was, event)[NewDetector] = NoEvents[NewDetector]
  BY <1>2, <1>3, HearKeeps
<1> QED
  BY <1>1, <1>2, <1>3, <1>4 DEF event, was

\* The end of a frame keeps the invariant: the push goes on, or decides, and seals.
LEMMA JudgedKeeps ==
  ASSUME IntakeInv, NEW c \in Socket, Judged(c)
  PROVE  AudioTypes' /\ Places' /\ Agree' /\ Follows' /\ Hush' /\ UtterancesHoldSpeech'
<1> DEFINE d == doing[c].on
           heard == Hear(doing[c].heard, IF stream[d].speaking THEN "speaking" ELSE "silent")
           decision == heard[seen[d]]
           fields_ == [speaking |-> decision.speaking, saw |-> decision.saw]
           told == [seen EXCEPT ![d] = fields_]
<1>1. Types /\ AudioTypes /\ Places /\ Agree /\ Follows /\ Hush
  BY DEF IntakeInv, Types
<1>2. /\ c \in Active /\ doing[c].pc = "judging" /\ c \notin Loading
      /\ d \in Detectors /\ d \in 1..made
      /\ heard \in [Fields -> Decisions] /\ Keeps(heard)
      /\ Told(doing[c].heard) => Told(heard)
      /\ stream[d].speaking => Told(heard)
      /\ \A f \in Fields : heard[f].speaking <=> stream[d].speaking
      /\ ~stream[d].speaking /\ doing[c].heard[NewDetector] = NoEvents[NewDetector] =>
           heard[NewDetector] = NoEvents[NewDetector]
  BY <1>1, JudgedHears
<1>3. UNCHANGED <<left, detector, made, loaded, replaced>>
  BY DEF Judged
<1>4. /\ stream[d] \in Streams /\ seen[d] \in Fields /\ (seen[d].speaking => seen[d].saw)
      /\ detector \in 0..made /\ made \in 0..MaxDetectors /\ d \in 1..made
      /\ detector # 0 => detector \in Detectors
  BY <1>1, <1>2, IntakeAssumption DEF AudioTypes, Agree, Detectors
<1>5. CASE stream[d].buffer # <<>>
  <2>1. NextFrame(c, d, <<>>, heard) /\ UNCHANGED <<buffered, seen, utterance, cut>>
    BY <1>5 DEF Judged
  <2>2. <<>> \in Seq(Frame) /\ stream[d].buffer \o <<>> # <<>> /\ ToSet(<<>>) = {}
    <3>1. stream[d].buffer \in Seq(Frame)
      BY <1>4 DEF Streams
    <3> QED
      BY <3>1, <1>5, SpeechJoins DEF ToSet
  <2>3. left.vad \/ (Loading = {} /\ detector = 0)
    BY <1>1 DEF Places
  <2>4. buffered \in {"nothing"} \cup Frame /\ loaded \in BOOLEAN /\ replaced \in BOOLEAN
    BY <1>1 DEF AudioTypes
  <2>5. ~cut /\ buffered # "speech" => Hushed(d) /\ heard[NewDetector] = NoEvents[NewDetector]
    <3>1. ~cut /\ buffered # "speech" =>
            Hushed(d) /\ doing[c].heard[NewDetector] = NoEvents[NewDetector]
      BY <1>1, <1>2 DEF Hush
    <3> QED
      BY <3>1, <1>2 DEF Hushed
  <2> HIDE DEF d, heard
  <2>6. AudioTypes' /\ Places' /\ Agree' /\ Follows' /\ Hush'
    <3>1. c \in Active => doing[c].on = d
      BY DEF d
    <3>2. /\ detector' \in {detector, d} /\ detector' = detector /\ detector' <= made'
          /\ d <= made' /\ made <= made' /\ made' \in 0..MaxDetectors
          /\ left.vad \/ (Loading = {} /\ detector' = 0)
          /\ buffered' \in {"nothing"} \cup Frame /\ loaded' \in BOOLEAN /\ replaced' \in BOOLEAN
          /\ UNCHANGED <<seen, cut, left>>
      BY <1>3, <1>4, <2>1, <2>3, <2>4, IntakeAssumption
    <3>3. ~cut /\ buffered' # "speech" =>
           /\ buffered # "speech" /\ "speech" \notin ToSet(<<>>) /\ Hushed(d)
           /\ heard[NewDetector] = NoEvents[NewDetector]
      BY <2>1, <2>2, <2>5
    <3>4. d \in Detectors /\ heard \in [Fields -> Decisions] /\ Keeps(heard)
      BY <1>2
    <3> QED
      BY <2>1, <2>2, <2>3, <3>1, <3>2, <3>3, <3>4, PushKeeps
  <2> QED
    BY <2>1, <2>6 DEF IntakeInv, UtterancesHoldSpeech
<1>6. CASE stream[d].buffer = <<>>
  <2>1. doing' = [doing EXCEPT ![c] = Idle] /\ Decide(c, d, heard) /\ UNCHANGED stream
    BY <1>6 DEF Judged
  <2>2. decision \in Decisions /\ fields_ \in Fields
    BY <1>2, <1>4 DEF Decisions, Fields
  <2>3. told \in [Detectors -> Fields] /\ told[d] = fields_
        /\ \A e \in Detectors \ {d} : told[e] = seen[e]
    BY <2>2, <1>1, <1>2 DEF AudioTypes
  <2>4. /\ decision.speaking => decision.saw
        /\ seen[d].saw => decision.saw
        /\ (seen[d].saw => seen[d].speaking) /\ decision.saw /\ ~decision.speaking => decision.ready
        /\ decision.speaking <=> stream[d].speaking
    BY <1>2, <1>4 DEF Keeps
  <2>5. ~cut /\ buffered # "speech" => ~decision.ready /\ fields_ = NewDetector
    <3> SUFFICES ASSUME ~cut, buffered # "speech" PROVE ~decision.ready /\ fields_ = NewDetector
      OBVIOUS
    <3>1. Hushed(d) /\ doing[c].heard[NewDetector] = NoEvents[NewDetector]
      BY <1>1, <1>2 DEF Hush
    <3>2. seen[d] = NewDetector /\ heard[NewDetector] = NoEvents[NewDetector]
      BY <3>1, <1>2 DEF Hushed
    <3>3. decision = NoEvents[NewDetector]
      BY <3>2
    <3> HIDE DEF decision
    <3> QED
      BY <3>3, NoEventsKeep DEF NoEvents, NewDetector
  <2>6. \A e \in Detectors : /\ told[e].speaking => told[e].saw
                             /\ e > made => told[e] = NewDetector
    <3>1. \A e \in Detectors : e > made => e # d
      BY <1>4, IntakeAssumption DEF Detectors
    <3>2. told[d].speaking => told[d].saw
      <4>1. fields_.speaking => fields_.saw
        BY <2>4
      <4> HIDE DEF told, fields_
      <4>2. QED BY <2>3, <4>1
    <3>3. \A e \in Detectors \ {d} :
            told[e] = seen[e] /\ (seen[e].speaking => seen[e].saw)
      BY <2>3, <1>1 DEF Agree
    <3>4. \A e \in Detectors : e > made => seen[e] = NewDetector
      BY <1>1 DEF Places
    <3> HIDE DEF told
    <3> QED
      BY <3>1, <3>2, <3>3, <3>4
  <2>7. CASE decision.ready
    <3>1. Seal(c, "vad", told)
      BY <2>1, <2>7 DEF Decide
    <3> HIDE DEF told, decision
    <3> QED
      BY <1>2, <1>3, <1>6, <2>1, <2>3, <2>5, <2>6, <2>7, <3>1, SealKeeps
  <2>8. CASE ~decision.ready
    <3>1. seen' = told /\ UNCHANGED <<buffered, utterance, cut>>
      BY <2>1, <2>8 DEF Decide
    <3> HIDE DEF told, decision, fields_, heard, d
    <3>2. /\ doing' \in [Socket -> Push] /\ doing'[c] = Idle
          /\ \A b \in Socket \ {c} : doing'[b] = doing[b]
          /\ Loading' = Loading /\ Active' = Active \ {c}
      <4>1. Idle \in Push /\ Idle.pc = "idle" /\ doing \in [Socket -> Push]
        BY <1>1, IdleTyped DEF AudioTypes
      <4>2. /\ doing' \in [Socket -> Push] /\ doing'[c] = Idle
            /\ \A b \in Socket \ {c} : doing'[b] = doing[b]
            /\ Loading' = Loading \ {c} /\ Active' = Active \ {c}
        BY <4>1, <2>1, OneMoves
      <4> QED
        BY <4>2, <1>2
    <3>3. AudioTypes'
      BY <1>1, <1>3, <2>1, <2>3, <3>1, <3>2 DEF AudioTypes
    <3>4. Places'
      <4>1. \A b \in Socket : doing'[b].pc \in {"idle", "closing"} =>
                             doing'[b] = [Idle EXCEPT !.pc = doing'[b].pc]
        BY <1>1, <3>2 DEF Places, Idle
      <4>2. \A b \in Loading' : doing'[b].frames # <<>>
        BY <1>1, <1>2, <3>2 DEF Places, Loading, At
      <4>3. \A b \in Active' : b \in Active /\ doing'[b] = doing[b]
        BY <3>2 DEF Active, At
      <4>4. \A b \in Active' : doing'[b].on \in 1..made'
        BY <1>1, <1>3, <4>3 DEF Places
      <4>5. \A e \in Detectors : stream'[e].buffer # <<>> => \E b \in Active' : doing'[b].on = e
        <5> SUFFICES ASSUME NEW e \in Detectors, stream[e].buffer # <<>>
                     PROVE \E b \in Active' : doing'[b].on = e
          BY <2>1
        <5>1. PICK b \in Active : doing[b].on = e
          BY <1>1 DEF Places, PushingOn
        <5>2. b # c /\ b \in Socket
          BY <5>1, <1>6 DEF Active, At, d
        <5> QED
          BY <5>1, <5>2, <3>2
      <4>6. \A e \in Detectors : e > made => stream'[e] = NewStream /\ seen'[e] = NewDetector
        BY <1>1, <2>1, <2>6, <3>1 DEF Places
      <4> QED
        BY <1>1, <1>3, <3>2, <4>1, <4>2, <4>4, <4>5, <4>6 DEF Places, PushingOn
    <3>5. fields_.speaking = decision.speaking /\ fields_.saw = decision.saw
      BY DEF fields_
    <3>6. Agree'
      <4>1. \A e \in Detectors : e = detector => (seen'[e].saw => seen'[e].speaking)
        BY <1>1, <2>3, <2>4, <2>8, <3>1, <3>5 DEF Agree
      <4>2. \A b \in Socket : Keeps(doing'[b].heard)
        BY <1>1, <3>2, NoEventsKeep, IdleTyped DEF Agree
      <4> QED
        BY <1>1, <1>3, <2>1, <2>6, <3>1, <4>1, <4>2 DEF Agree, Keeps
    <3>7. Follows'
      <4> SUFFICES ASSUME detector # 0, PushingOn(detector)' = {} PROVE Follows'
        BY <1>3 DEF Follows
      <4>1. CASE d # detector
        <5>1. PushingOn(detector) = {}
          <6> SUFFICES ASSUME NEW b \in Active, doing[b].on = detector PROVE FALSE
            BY DEF PushingOn
          <6>1. b # c /\ b \in Active' /\ doing'[b] = doing[b]
            BY <4>1, <3>2 DEF Active, At, d
          <6> QED
            BY <6>1, <1>3 DEF PushingOn
        <5>2. seen'[detector] = seen[detector] /\ stream'[detector] = stream[detector]
          BY <4>1, <1>4, <2>1, <2>3, <3>1
        <5> QED
          BY <5>1, <5>2, <1>1, <1>3, <3>1 DEF Follows
      <4> SUFFICES ASSUME d = detector PROVE Follows'
        BY <4>1
      <4>2. seen'[detector].speaking <=> stream'[detector].speaking
        BY <2>1, <2>3, <2>4, <3>1, <3>5
      <4>3. seen'[detector].speaking \in BOOLEAN /\ stream'[detector].speaking \in BOOLEAN
        BY <3>3, <1>3, <1>4 DEF AudioTypes, Streams, Fields
      <4> QED
        BY <4>2, <4>3, <1>3 DEF Follows
    <3>8. Hush'
      <4> SUFFICES ASSUME ~cut, buffered # "speech" PROVE Hush'
        BY <3>1 DEF Hush
      <4>1. \A e \in Detectors : Hushed(e) => Hushed(e)'
        BY <2>1, <2>3, <2>5, <3>1 DEF Hushed
      <4>2. detector # 0 => Hushed(detector) /\ Hushed(detector)'
        BY <4>1, <1>1, <1>3, <1>4 DEF Hush, Hushed
      <4>3. \A b \in Active' : Hushed(doing[b].on)'
        <5> SUFFICES ASSUME NEW b \in Active' PROVE Hushed(doing[b].on)'
          OBVIOUS
        <5>1. b \in Active /\ doing'[b] = doing[b] /\ doing[b].on \in Detectors
          BY <1>1, <3>2 DEF Active, At, Places, AudioTypes, Push, Detectors
        <5>2. Hushed(doing[b].on)
          BY <5>1, <1>1 DEF Hush
        <5> QED
          BY <5>1, <5>2, <4>1 DEF Hushed
      <4>4. ToSet(<<>>) = {}
        BY DEF ToSet
      <4>5. \A b \in Socket :
              /\ doing'[b].frame = "quiet" /\ "speech" \notin ToSet(doing'[b].frames)
              /\ doing'[b].heard[NewDetector] = NoEvents[NewDetector]
        BY <4>4, <1>1, <3>2, IdleTyped DEF Hush
      <4> QED
        BY <4>2, <4>3, <4>5, <1>3 DEF Hush
    <3> QED
      BY <3>1, <3>3, <3>4, <3>6, <3>7, <3>8 DEF IntakeInv, UtterancesHoldSpeech
  <2> QED
    BY <2>7, <2>8
<1> QED
  BY <1>5, <1>6

-----------------------------------------------------------------------------
(* The clients and the handlers of their sockets.                          *)

\* A call of the scenario is counted; who takes part is not changed.
LEMMA MayKeeps ==
  ASSUME left \in Calls, NEW call, call \in {"starts", "stops", "closes", "chunks", "commits", "faults"},
         May(call)
  PROVE  left' \in Calls /\ left'.sockets = left.sockets /\ left'.vad = left.vad
BY DEF May, Calls

\* A message joins those of its sender.
LEMMA SaysKeeps ==
  ASSUME NEW c \in Socket, NEW m \in Sendable, up \in [Socket -> Seq(Sendable)], Says(c, m)
  PROVE  /\ up' \in [Socket -> Seq(Sendable)]
         /\ \A b \in Socket \ {c} : up'[b] = up[b]
BY DEF Says

\* What the clients say is what can be sent.
LEMMA SendableMessages ==
  /\ \A frames \in [1..FramesPerChunk -> Frame] : Chunk(frames) \in Sendable
  /\ \A fault \in Faults : [Message("AudioAppend") EXCEPT !.fault = fault] \in Sendable
  /\ \A type \in {"SessionStart", "SessionClose", "AudioCommit", "UserTurnCommit"} :
       Message(type) \in Sendable
BY DEF Sendable

\* What changes neither the messages nor the client keeps both, when only a
\* handler of the scenario takes its turn.
LEMMA HandlersKeepClients ==
  ASSUME IntakeInv, NEW c \in Socket, doing[c].pc # "idle",
         \A b \in Socket \ {c} : doing'[b] = doing[b],
         UNCHANGED <<clientVars, up, left, link>>
  PROVE  ClientTypes' /\ Present'
BY DEF IntakeInv, Types, ClientTypes, MicrophoneTypeOK, Present, clientVars, fields

\* The invariant of the handlers does not read what the clients do.
LEMMA ClientsKeepHandlers ==
  ASSUME IntakeInv, UNCHANGED audio, left'.vad = left.vad
  PROVE  AudioTypes' /\ Places' /\ Agree' /\ Follows' /\ Hush' /\ UtterancesHoldSpeech'
<1>1. AudioTypes'
  BY DEF IntakeInv, Types, AudioTypes, audio
<1>2. Places'
  BY DEF IntakeInv, Places, audio, Loading, Active, PushingOn, At
<1>3. Agree'
  BY DEF IntakeInv, Agree, audio, Keeps
<1>4. Follows'
  BY DEF IntakeInv, Follows, audio, Active, PushingOn, At
<1>5. Hush'
  BY DEF IntakeInv, Hush, Hushed, audio, Active, At
<1>6. UtterancesHoldSpeech'
  BY DEF IntakeInv, UtterancesHoldSpeech, audio
<1> QED
  BY <1>1, <1>2, <1>3, <1>4, <1>5, <1>6

\* A call of the microphone keeps its types, and the browser takes part.
LEMMA MicrophoneKeeps ==
  ASSUME IntakeInv, ClientStep
  PROVE  ClientTypes' /\ Present' /\ left'.vad = left.vad
<1>1. ClientTypes /\ Present /\ left \in Calls /\ Browser \in Socket
  BY MicrophoneAssumption DEF IntakeInv, Types, ClientTypes, MicrophoneTypeOK
<1>2. UNCHANGED <<doing, link>>
  BY DEF ClientStep, audio
<1>3. Browser \in left.sockets
  BY <1>1 DEF ClientStep, MicrophoneNext, Connecting, ConnectFails, Attach, Close, SwitchOn,
              SwitchOff, Granted, Refused, StopEnds, Speak, Present
<1>4. left' \in Calls /\ left'.sockets = left.sockets /\ left'.vad = left.vad
  <2>1. CASE UNCHANGED left
    BY <1>1, <2>1
  <2>2. CASE \E call \in {"starts", "stops", "closes", "chunks"} : May(call)
    BY <1>1, <2>2, MayKeeps
  <2> QED
    BY <2>1, <2>2 DEF ClientStep, MicrophoneNext, Connecting, ConnectFails, Attach, Close,
                      SwitchOn, SwitchOff, Granted, Refused, StopEnds, Speak
<1>5. /\ up' \in [Socket -> Seq(Sendable)]
      /\ \A b \in Socket \ {Browser} : up'[b] = up[b]
  <2>1. CASE UNCHANGED up
    BY <1>1, <2>1 DEF ClientTypes
  <2>2. CASE \E m \in Sendable : Says(Browser, m)
    BY <1>1, <2>2, SaysKeeps DEF ClientTypes
  <2>3. CASE Speak
    BY <2>2, <2>3, SendableMessages DEF Speak
  <2>4. CASE Attach \/ StopEnds
    BY <2>1, <2>2, <2>4, SendableMessages DEF Attach, StopEnds
  <2> QED
    BY <2>1, <2>3, <2>4 DEF ClientStep, MicrophoneNext, Connecting, ConnectFails, Close,
                      SwitchOn, SwitchOff, Granted, Refused
<1> DEFINE Numbers == /\ captureToken \in Nat /\ held \in 0..captureToken
                      /\ asking \cup live \cup stopping \subseteq 1..captureToken
                      /\ running \in BOOLEAN
           Stages == {"engines", "session", "socket", "attaching", "ready", "closing",
                      "closed", "failed"}
<1>6. Numbers /\ stage \in Stages
  BY <1>1 DEF ClientTypes, MicrophoneTypeOK
<1>7. Numbers'
  <2>1. CASE Start
    BY <2>1, <1>6 DEF Start
  <2>2. CASE Stop
    <3>1. /\ running' = FALSE /\ captureToken' = captureToken + 1 /\ UNCHANGED <<held, asking>>
          /\ live' \subseteq live /\ stopping' \subseteq stopping \cup {captureToken + 1}
      BY <2>2 DEF Stop, Stopped
    <3>2. 1..captureToken \subseteq 1..captureToken' /\ captureToken + 1 \in 1..captureToken'
          /\ 0..captureToken \subseteq 0..captureToken' /\ captureToken' \in Nat
      BY <3>1, <1>6
    <3> QED
      BY <3>1, <3>2, <1>6
  <2>3. CASE UNCHANGED fields
    BY <2>3, <1>6 DEF fields
  <2>4. CASE Granted \/ Refused \/ StopEnds
    BY <2>4, <1>6 DEF Granted, Refused, StopEnds
  <2> QED
    BY <2>1, <2>2, <2>3, <2>4 DEF ClientStep, MicrophoneNext, Connecting, ConnectFails, Attach,
                                  Close, SwitchOn, SwitchOff, Speak, clientVars
<1>8. stage' \in Stages
  BY <1>6 DEF ClientStep, MicrophoneNext, Connecting, RequestOk, ConnectFails, Attach, Close,
              SwitchOn, SwitchOff, Granted, Refused, StopEnds, Speak, clientVars
<1>9. ClientTypes'
  BY <1>1, <1>2, <1>4, <1>5, <1>7, <1>8 DEF ClientTypes, MicrophoneTypeOK
<1>10. Present'
  BY <1>1, <1>2, <1>3, <1>4, <1>5 DEF Present
<1> QED
  BY <1>4, <1>9, <1>10

\* Another client speaks, errs, commits or closes, or this one commits.
LEMMA OthersKeepClients ==
  ASSUME IntakeInv, OthersSpeak \/ OthersErr \/ Commits \/ OthersClose
  PROVE  ClientTypes' /\ Present' /\ left'.vad = left.vad /\ UNCHANGED audio
<1>1. ClientTypes /\ Present /\ left \in Calls /\ left.sockets \subseteq Socket
  BY DEF IntakeInv, Types, ClientTypes, MicrophoneTypeOK, Calls
<1>2. PICK c \in left.sockets, m \in Sendable : Says(c, m)
  <2>1. CASE OthersSpeak \/ OthersErr \/ OthersClose
    BY <2>1, SendableMessages DEF OthersSpeak, OthersErr, OthersClose, Others
  <2>2. CASE Commits
    <3>1. CanCommit \subseteq left.sockets
      BY <1>1 DEF CanCommit, Others, Present
    <3> QED
      BY <2>2, <3>1, SendableMessages DEF Commits
  <2> QED
    BY <2>1, <2>2
<1>3. up' \in [Socket -> Seq(Sendable)] /\ \A b \in Socket \ {c} : up'[b] = up[b]
  <2>1. c \in Socket /\ up \in [Socket -> Seq(Sendable)]
    BY <1>1 DEF ClientTypes
  <2> QED
    BY <1>2, <2>1, SaysKeeps
<1>4. left' \in Calls /\ left'.sockets = left.sockets /\ left'.vad = left.vad
  BY <1>1, MayKeeps DEF OthersSpeak, OthersErr, Commits, OthersClose
<1>5. UNCHANGED <<clientVars, audio, link>>
  BY DEF OthersSpeak, OthersErr, Commits, OthersClose
<1>6. ClientTypes'
  BY <1>1, <1>3, <1>4, <1>5 DEF ClientTypes, MicrophoneTypeOK, clientVars, fields
<1>7. Present'
  BY <1>1, <1>2, <1>3, <1>4, <1>5 DEF Present, clientVars, fields, audio
<1> QED
  BY <1>4, <1>5, <1>6, <1>7

-----------------------------------------------------------------------------
(* A chunk of audio, and the engine.                                       *)

\* The buffer holds speech once a chunk does.
LEMMA KeptFrames ==
  ASSUME AudioTypes, NEW frames \in Seq(Frame)
  PROVE  /\ Kept(frames) \in {"nothing"} \cup Frame
         /\ Kept(frames) # "speech" => buffered # "speech" /\ "speech" \notin ToSet(frames)
BY DEF Kept, Louder, Frame

\* A new detector has a place, and its stream is as new.
LEMMA EnsuresKeeps ==
  ASSUME IntakeInv, NEW c \in Socket, NEW frames \in Seq(Frame), frames # <<>>, left.vad,
         c \notin Active, Ensures(c, frames),
         buffered' \in {"nothing"} \cup Frame, loaded' \in BOOLEAN,
         UNCHANGED <<seen, cut, left>>,
         ~cut /\ buffered' # "speech" => buffered # "speech" /\ "speech" \notin ToSet(frames)
  PROVE  AudioTypes' /\ Places' /\ Agree' /\ Follows' /\ Hush'
<1> DEFINE d == made + 1
<1>1. AudioTypes /\ Places
  BY DEF IntakeInv, Types
<1>2. /\ made < MaxDetectors /\ made' = d /\ detector' = d
      /\ replaced' = (replaced \/ detector # 0) /\ NextFrame(c, d, frames, NoEvents)
  BY DEF Ensures
<1>3. /\ d \in Detectors /\ d > made /\ made <= d /\ d <= d
      /\ d \in 0..MaxDetectors
  BY <1>1, <1>2, IntakeAssumption DEF AudioTypes, Detectors
<1>4. stream[d] = NewStream /\ seen[d] = NewDetector
  BY <1>1, <1>3 DEF Places
<1>5. stream[d].buffer = <<>> /\ ~stream[d].speaking /\ ToSet(<<>>) = {}
  BY <1>4 DEF NewStream, ToSet
<1>6. stream[d].buffer \o frames # <<>>
  <2>1. <<>> \o frames = frames
    OBVIOUS
  <2> QED
    BY <2>1, <1>5
<1>7. Hushed(d)
  BY <1>4, <1>5 DEF Hushed
<1>8. replaced' \in BOOLEAN
  BY <1>2
<1>9. NoEvents \in [Fields -> Decisions] /\ Keeps(NoEvents)
  BY NoEventsKeep
<1>10. ~cut /\ buffered' # "speech" =>
           /\ buffered # "speech" /\ "speech" \notin ToSet(frames) /\ Hushed(d)
           /\ NoEvents[NewDetector] = NoEvents[NewDetector]
  BY <1>7
<1> HIDE DEF d
<1>11. /\ detector' \in {detector, d} /\ (detector' = detector \/ d > made)
       /\ detector' <= made' /\ d <= made' /\ made <= made' /\ made' \in 0..MaxDetectors
  BY <1>2, <1>3
<1> QED
  BY <1>2, <1>3, <1>6, <1>8, <1>9, <1>10, <1>11, PushKeeps

\* A chunk is kept, and heard by the detector when there is one or can be.
LEMMA AppendsKeeps ==
  ASSUME IntakeInv, NEW c \in Socket, NEW frames \in Seq(Frame), frames # <<>>,
         doing[c].pc = "idle", Appends(c, frames), UNCHANGED left
  PROVE  AudioTypes' /\ Places' /\ Agree' /\ Follows' /\ Hush' /\ UtterancesHoldSpeech'
<1>1. Types /\ AudioTypes /\ Places /\ Agree /\ Follows /\ Hush /\ left.vad \in BOOLEAN
  BY DEF IntakeInv, Types, ClientTypes, MicrophoneTypeOK, Calls
<1>2. c \notin Active /\ c \notin Loading
  BY <1>1, HandlersApart
<1>3. buffered' = Kept(frames) /\ UNCHANGED <<seen, loaded, utterance, cut>>
  BY DEF Appends
<1>4. /\ buffered' \in {"nothing"} \cup Frame
      /\ buffered' # "speech" => buffered # "speech" /\ "speech" \notin ToSet(frames)
  BY <1>1, <1>3, KeptFrames
<1>5. UtterancesHoldSpeech'
  BY <1>3 DEF IntakeInv, UtterancesHoldSpeech
<1>6. /\ made \in 0..MaxDetectors /\ detector \in 0..made
      /\ detector # 0 => detector \in Detectors /\ detector <= made
      /\ {loaded, replaced} \subseteq BOOLEAN
  BY <1>1, IntakeAssumption DEF AudioTypes, Detectors
<1>8. CASE ~left.vad
  <2>1. UNCHANGED <<detector, made, stream, doing, replaced>>
    BY <1>8 DEF Appends
  <2>2. AudioTypes'
    BY <1>1, <1>3, <1>4, <2>1 DEF AudioTypes
  <2>3. Places' /\ Agree' /\ Follows'
    BY <1>1, <1>3, <2>1 DEF Places, Agree, Follows, Loading, Active, PushingOn, At, Keeps
  <2>4. Hush'
    BY <1>1, <1>3, <1>4, <2>1 DEF Hush, Hushed, Active, At
  <2> QED
    BY <1>5, <2>2, <2>3, <2>4
<1>9. CASE left.vad /\ detector # 0
  <2>1. NextFrame(c, detector, frames, NoEvents) /\ UNCHANGED <<detector, made, replaced>>
    BY <1>9 DEF Appends
  <2>2. detector \in Detectors
    BY <1>6, <1>9
  <2>3. stream[detector].buffer \o frames # <<>>
    <3>1. stream[detector].buffer \in Seq(Frame)
      BY <1>1, <2>2 DEF AudioTypes, Streams
    <3> QED
      BY <3>1, SpeechJoins
  <2>4. NoEvents \in [Fields -> Decisions] /\ Keeps(NoEvents)
    BY NoEventsKeep
  <2>5. ~cut /\ buffered' # "speech" =>
           /\ buffered # "speech" /\ "speech" \notin ToSet(frames) /\ Hushed(detector)
           /\ NoEvents[NewDetector] = NoEvents[NewDetector]
    BY <1>1, <1>4, <1>9 DEF Hush
  <2>6. /\ detector' \in {detector, detector} /\ detector' = detector
        /\ detector' <= made' /\ detector <= made' /\ made <= made'
        /\ made' \in 0..MaxDetectors
        /\ loaded' \in BOOLEAN /\ replaced' \in BOOLEAN /\ UNCHANGED <<seen, cut, left>>
    BY <1>3, <1>6, <1>9, <2>1
  <2>7. AudioTypes' /\ Places' /\ Agree' /\ Follows' /\ Hush'
    BY <1>2, <1>4, <1>9, <2>1, <2>2, <2>3, <2>4, <2>5, <2>6, PushKeeps
  <2> QED
    BY <1>5, <2>7
<1>10. CASE left.vad /\ detector = 0 /\ loaded
  <2>1. Ensures(c, frames)
    BY <1>10 DEF Appends
  <2>2. AudioTypes' /\ Places' /\ Agree' /\ Follows' /\ Hush'
    BY <1>2, <1>3, <1>4, <1>6, <1>10, <2>1, EnsuresKeeps
  <2> QED
    BY <1>5, <2>2
<1>11. CASE left.vad /\ detector = 0 /\ ~loaded
  <2> DEFINE x == [Idle EXCEPT !.pc = "loading", !.frames = frames]
  <2>1. doing' = [doing EXCEPT ![c] = x] /\ UNCHANGED <<detector, made, stream, replaced>>
    BY <1>11 DEF Appends
  <2>2. /\ x \in Push /\ x.pc = "loading" /\ x.frame = "quiet" /\ x.heard = NoEvents
        /\ x.frames = frames
    BY PushesTyped
  <2> HIDE DEF x
  <2>3. /\ Loading' = Loading \cup {c} /\ Active' = Active \ {c}
        /\ doing'[c] = x /\ \A b \in Socket \ {c} : doing'[b] = doing[b]
        /\ doing' \in [Socket -> Push]
    <3>1. doing \in [Socket -> Push]
      BY <1>1 DEF AudioTypes
    <3> QED
      BY <3>1, <2>1, <2>2, OneMoves
  <2>4. Active' = Active /\ \A b \in Active : doing'[b] = doing[b]
    BY <1>2, <2>3 DEF Active, At
  <2>5. AudioTypes'
    BY <1>1, <1>3, <1>4, <2>1, <2>3 DEF AudioTypes
  <2>6. Places'
    <3>1. \A b \in Socket : doing'[b].pc \in {"idle", "closing"} =>
                           doing'[b] = [Idle EXCEPT !.pc = doing'[b].pc]
      BY <1>1, <2>2, <2>3 DEF Places
    <3>2. \A b \in Loading' : doing'[b].frames # <<>>
      BY <1>1, <2>2, <2>3 DEF Places, Loading, At
    <3>3. \A b \in Active' : doing'[b].on \in 1..made'
      BY <1>1, <2>1, <2>4 DEF Places
    <3>4. \A e \in Detectors :
            /\ e > made => stream'[e] = NewStream /\ seen'[e] = NewDetector
            /\ stream'[e].buffer # <<>> => \E b \in Active' : doing'[b].on = e
      BY <1>1, <1>3, <2>1, <2>4 DEF Places, PushingOn
    <3> QED
      BY <1>1, <1>11, <2>1, <3>1, <3>2, <3>3, <3>4 DEF Places, PushingOn
  <2>7. Agree'
    <3>1. \A b \in Socket : Keeps(doing'[b].heard)
      BY <1>1, <2>2, <2>3, NoEventsKeep DEF Agree
    <3> QED
      BY <1>1, <1>3, <2>1, <3>1 DEF Agree, Keeps
  <2>8. Follows'
    BY <1>11, <2>1 DEF Follows
  <2>9. Hush'
    <3> SUFFICES ASSUME ~cut, buffered' # "speech" PROVE Hush'
      BY <1>3 DEF Hush
    <3>1. \A b \in Socket :
            /\ doing'[b].frame = "quiet" /\ "speech" \notin ToSet(doing'[b].frames)
            /\ doing'[b].heard[NewDetector] = NoEvents[NewDetector]
      BY <1>1, <1>4, <2>2, <2>3 DEF Hush
    <3>2. \A b \in Active' : Hushed(doing[b].on)'
      BY <1>1, <1>3, <1>4, <2>1, <2>4 DEF Hush, Hushed
    <3> QED
      BY <1>11, <2>1, <3>1, <3>2 DEF Hush
  <2> QED
    BY <1>5, <2>5, <2>6, <2>7, <2>8, <2>9
<1> QED
  BY <1>1, <1>8, <1>9, <1>10, <1>11

\* The end of a load keeps the invariant.
LEMMA LoadedKeeps ==
  ASSUME IntakeInv, NEW c \in Socket, Loaded(c)
  PROVE  AudioTypes' /\ Places' /\ Agree' /\ Follows' /\ Hush' /\ UtterancesHoldSpeech'
<1>1. Types /\ AudioTypes /\ Places /\ Hush
  BY DEF IntakeInv, Types
<1> DEFINE frames == doing[c].frames
<1>2. c \in Loading /\ c \notin Active /\ doing[c] \in Push
  BY <1>1 DEF Loaded, Loading, Active, At, AudioTypes
<1>3. frames \in Seq(Frame) /\ frames # <<>> /\ left.vad
  BY <1>1, <1>2 DEF Places, Push
<1>4. Ensures(c, frames) /\ loaded' \in BOOLEAN /\ UNCHANGED <<left, buffered, seen, utterance, cut>>
  BY DEF Loaded
<1>5. buffered' \in {"nothing"} \cup Frame
  BY <1>1, <1>4 DEF AudioTypes
<1>6. ~cut /\ buffered' # "speech" => buffered # "speech" /\ "speech" \notin ToSet(frames)
  BY <1>1, <1>4 DEF Hush
<1> HIDE DEF frames
<1>7. AudioTypes' /\ Places' /\ Agree' /\ Follows' /\ Hush'
  BY <1>2, <1>3, <1>4, <1>5, <1>6, EnsuresKeeps
<1> QED
  BY <1>4, <1>7 DEF IntakeInv, UtterancesHoldSpeech

\* A load for another session does.
LEMMA LoadedElsewhereKeeps ==
  ASSUME IntakeInv, LoadedElsewhere
  PROVE  IntakeInv'
<1>1. /\ loaded' = TRUE
      /\ UNCHANGED <<clientVars, up, left, link, buffered, detector, made, seen, stream,
                     doing, utterance, cut, replaced>>
  BY DEF LoadedElsewhere
<1>2. ClientTypes' /\ Present'
  BY <1>1 DEF IntakeInv, Types, ClientTypes, MicrophoneTypeOK, Present, clientVars, fields
<1>3. AudioTypes' /\ Places' /\ Agree' /\ Follows'
  BY <1>1 DEF IntakeInv, Types, AudioTypes, Places, Agree, Follows, Loading, Active, PushingOn, At, Keeps
<1>4. Hush' /\ UtterancesHoldSpeech'
  BY <1>1 DEF IntakeInv, Hush, Hushed, Active, At, UtterancesHoldSpeech
<1> QED
  BY <1>2, <1>3, <1>4 DEF IntakeInv, Types

-----------------------------------------------------------------------------
(* A close, and its buffer emptied, at once or after an interrupt.         *)

\* What is left of the streams and of the handlers: the frames that wait, what
\* the VAD told, and who pushes on which stream.
LEMMA ClosesEffect ==
  ASSUME Types, Places, NEW c \in Socket, doing[c].pc = "idle", Closes(c)
  PROVE  /\ stream' \in [Detectors -> Streams] /\ doing' \in [Socket -> Push]
         /\ \A e \in Detectors :
              /\ stream'[e].buffer = stream[e].buffer
              /\ stream'[e].speaking = stream[e].speaking
              /\ stream'[e].triggered => stream[e].triggered
              /\ e > made => stream'[e] = stream[e]
         /\ \A b \in Socket \ {c} : doing'[b] = doing[b]
         /\ doing'[c].pc \in {"idle", "closing"}
         /\ doing'[c] = [Idle EXCEPT !.pc = doing'[c].pc]
         /\ c \notin Active /\ Loading' = Loading /\ Active' = Active
<1>1. stream \in [Detectors -> Streams] /\ doing \in [Socket -> Push] /\ detector \in 0..made
      /\ made \in Nat
  BY IntakeAssumption DEF Types, AudioTypes
<1>2. \A e \in Detectors :
        stream'[e] = IF e = detector THEN [stream[e] EXCEPT !.triggered = FALSE, !.quiets = 0]
                     ELSE stream[e]
  BY DEF Closes, Dropped
<1>3. \A s \in Streams :
        LET t == [s EXCEPT !.triggered = FALSE, !.quiets = 0] IN
        t \in Streams /\ t.buffer = s.buffer /\ t.speaking = s.speaking /\ ~t.triggered
  <2> DEFINE Stream(buffer, speaking, triggered, quiets) ==
               [buffer |-> buffer, speaking |-> speaking, triggered |-> triggered, quiets |-> quiets]
  <2> SUFFICES ASSUME NEW s \in Streams, NEW t, t = [s EXCEPT !.triggered = FALSE, !.quiets = 0]
               PROVE t \in Streams /\ t.buffer = s.buffer /\ t.speaking = s.speaking /\ ~t.triggered
    OBVIOUS
  <2>1. t = Stream(s.buffer, s.speaking, FALSE, 0)
    BY DEF Streams
  <2>2. 0 \in 0..MinSilence
    BY IntakeAssumption
  <2>3. s.buffer \in Seq(Frame) /\ s.speaking \in BOOLEAN
    BY DEF Streams
  <2> QED
    BY <2>1, <2>2, <2>3 DEF Streams
<1>4. \A e \in Detectors :
        /\ stream'[e] \in Streams /\ stream'[e].buffer = stream[e].buffer
        /\ stream'[e].speaking = stream[e].speaking
        /\ stream'[e].triggered => stream[e].triggered
  <2> TAKE e \in Detectors
  <2>1. stream[e] \in Streams
    BY <1>1
  <2>2. CASE e = detector
    <3>1. stream'[e] = [stream[e] EXCEPT !.triggered = FALSE, !.quiets = 0]
      BY <1>2, <2>2
    <3> QED
      BY <1>3, <2>1, <3>1
  <2>3. CASE e # detector
    <3>1. stream'[e] = stream[e]
      BY <1>2, <2>3
    <3> QED
      BY <2>1, <3>1
  <2> QED
    BY <2>2, <2>3
<1>5. \A e \in Detectors : e > made => stream'[e] = stream[e]
  <2>1. \A e \in Detectors : e > made => e # detector
    BY <1>1, IntakeAssumption DEF Detectors
  <2> QED
    BY <1>2, <2>1
<1>6. stream' \in [Detectors -> Streams]
  <2>1. stream' = [e \in Detectors |-> stream'[e]]
    BY DEF Closes, Dropped
  <2> QED
    BY <1>4, <2>1
<1>7. /\ doing' \in [Socket -> Push] /\ \A b \in Socket \ {c} : doing'[b] = doing[b]
      /\ doing'[c].pc \in {"idle", "closing"}
      /\ doing'[c] = [Idle EXCEPT !.pc = doing'[c].pc]
  <2>1. CASE UNCHANGED doing
    BY <1>1, <2>1 DEF Places
  <2>2. CASE doing' = [doing EXCEPT ![c] = [Idle EXCEPT !.pc = "closing"]]
    <3> DEFINE x == [Idle EXCEPT !.pc = "closing"]
    <3>1. x \in Push /\ x.pc = "closing"
      BY IdleTyped DEF Idle, Push
    <3> HIDE DEF x
    <3>2. doing' = [doing EXCEPT ![c] = x]
      BY <2>2 DEF x
    <3>3. doing'[c] = x /\ doing' \in [Socket -> Push]
          /\ \A b \in Socket \ {c} : doing'[b] = doing[b]
      BY <1>1, <3>1, <3>2
    <3>4. x = [Idle EXCEPT !.pc = x.pc]
      BY <3>1 DEF x
    <3> QED
      BY <3>1, <3>3, <3>4
  <2> QED
    BY <2>1, <2>2 DEF Closes
<1>8. c \notin Active /\ c \notin Loading /\ Loading' = Loading /\ Active' = Active
  BY <1>7 DEF Loading, Active, At
<1> QED
  BY <1>4, <1>5, <1>6, <1>7, <1>8

\* A close keeps the invariant: a push under way goes on, on a stream that is
\* nobody's any more.
LEMMA ClosesKeeps ==
  ASSUME IntakeInv, NEW c \in Socket, doing[c].pc = "idle", Closes(c), UNCHANGED left
  PROVE  AudioTypes' /\ Places' /\ Agree' /\ Follows' /\ Hush' /\ UtterancesHoldSpeech'
<1>1. Types /\ AudioTypes /\ Places /\ Agree /\ Hush
  BY DEF IntakeInv, Types
<1>2. /\ stream' \in [Detectors -> Streams] /\ doing' \in [Socket -> Push]
      /\ \A e \in Detectors :
           /\ stream'[e].buffer = stream[e].buffer
           /\ stream'[e].speaking = stream[e].speaking
           /\ stream'[e].triggered => stream[e].triggered
           /\ e > made => stream'[e] = stream[e]
      /\ \A b \in Socket \ {c} : doing'[b] = doing[b]
      /\ doing'[c].pc \in {"idle", "closing"}
      /\ doing'[c] = [Idle EXCEPT !.pc = doing'[c].pc]
      /\ c \notin Active /\ Loading' = Loading /\ Active' = Active
  BY <1>1, ClosesEffect
<1>3. detector' = 0 /\ UNCHANGED <<made, seen, loaded, utterance, replaced>>
  BY DEF Closes, Dropped
<1>4. /\ buffered' \in {"nothing"} \cup Frame /\ cut' \in BOOLEAN
      /\ \/ UNCHANGED <<buffered, cut>>
         \/ UNCHANGED doing /\ (~cut' => \A b \in Socket \ {c} : ~Pushing(b))
  <2>1. MidSpeech(c, 0) \in BOOLEAN /\ (~MidSpeech(c, 0) => \A b \in Socket \ {c} : ~Pushing(b))
    BY DEF MidSpeech
  <2>2. buffered \in {"nothing"} \cup Frame /\ cut \in BOOLEAN
    BY <1>1 DEF AudioTypes
  <2>3. \/ UNCHANGED <<buffered, cut>>
        \/ UNCHANGED doing /\ buffered' = "nothing" /\ cut' = MidSpeech(c, 0)
    BY DEF Closes, Emptied, EmptyBuffer
  <2> QED
    BY <2>1, <2>2, <2>3
<1>5. \A b \in Active : doing'[b] = doing[b] /\ b \in Socket /\ doing[b].on \in Detectors
  BY <1>1, <1>2 DEF Active, At, Places, AudioTypes, Push, Detectors
<1>6. AudioTypes'
  BY <1>1, <1>2, <1>3, <1>4, IntakeAssumption DEF AudioTypes
<1>7. Places'
  <2>1. \A b \in Socket : doing'[b].pc \in {"idle", "closing"} =>
                         doing'[b] = [Idle EXCEPT !.pc = doing'[b].pc]
    <3> SUFFICES ASSUME NEW b \in Socket, doing'[b].pc \in {"idle", "closing"}
                 PROVE doing'[b] = [Idle EXCEPT !.pc = doing'[b].pc]
      OBVIOUS
    <3>1. CASE b = c
      BY <3>1, <1>2
    <3>2. CASE b # c
      <4>1. doing'[b] = doing[b]
        BY <3>2, <1>2
      <4> QED
        BY <4>1, <1>1 DEF Places
    <3> QED
      BY <3>1, <3>2
  <2>2. \A b \in Loading' : doing'[b].frames # <<>>
    <3>1. \A b \in Loading : b # c /\ b \in Socket /\ doing'[b] = doing[b]
      BY <1>2 DEF Loading, At
    <3> QED
      BY <1>1, <1>2, <3>1 DEF Places
  <2>3. \A b \in Active' : doing'[b].on \in 1..made'
    BY <1>1, <1>2, <1>3, <1>5 DEF Places
  <2>4. \A e \in Detectors :
          /\ e > made => stream'[e] = NewStream /\ seen'[e] = NewDetector
          /\ stream'[e].buffer # <<>> => \E b \in Active' : doing'[b].on = e
    BY <1>1, <1>2, <1>3, <1>5 DEF Places, PushingOn
  <2> QED
    BY <1>1, <1>2, <1>3, <2>1, <2>2, <2>3, <2>4 DEF Places, PushingOn
<1>8. Agree'
  <2>1. \A b \in Socket : Keeps(doing'[b].heard)
    <3>1. doing'[c].heard = NoEvents
      BY <1>2 DEF Idle
    <3> QED
      BY <1>1, <1>2, <3>1, NoEventsKeep DEF Agree
  <2>2. \A e \in Detectors : /\ stream'[e].triggered => stream'[e].speaking
                             /\ seen'[e].speaking => seen'[e].saw
                             /\ e # detector'
    BY <1>1, <1>2, <1>3, IntakeAssumption DEF Agree, Detectors
  <2> QED
    BY <2>1, <2>2 DEF Agree, Keeps
<1>9. Follows'
  BY <1>3 DEF Follows
<1>10. Hush'
  <2>1. CASE UNCHANGED <<buffered, cut>>
    <3> SUFFICES ASSUME ~cut, buffered # "speech" PROVE Hush'
      BY <2>1 DEF Hush
    <3>1. \A b \in Active' : Hushed(doing[b].on)'
      BY <1>1, <1>2, <1>3, <1>5 DEF Hush, Hushed
    <3>2. \A b \in Socket :
            /\ doing'[b].frame = "quiet" /\ "speech" \notin ToSet(doing'[b].frames)
            /\ doing'[b].heard[NewDetector] = NoEvents[NewDetector]
      <4>1. doing'[c].frame = "quiet" /\ doing'[c].heard = NoEvents /\ doing'[c].frames = <<>>
        BY <1>2 DEF Idle
      <4>2. ToSet(<<>>) = {}
        BY DEF ToSet
      <4> QED
        BY <1>1, <1>2, <4>1, <4>2 DEF Hush
    <3> QED
      BY <1>3, <3>1, <3>2 DEF Hush
  <2>2. CASE UNCHANGED doing /\ (~cut' => \A b \in Socket \ {c} : ~Pushing(b))
    BY <1>2, <1>3, <1>6, <1>7, <2>2, EmptiedHush
  <2> QED
    BY <1>4, <2>1, <2>2
<1>11. UtterancesHoldSpeech'
  BY <1>3 DEF IntakeInv, UtterancesHoldSpeech
<1> QED
  BY <1>6, <1>7, <1>8, <1>9, <1>10, <1>11

\* So does the emptying of the buffer after the interrupt.
LEMMA InterruptedKeeps ==
  ASSUME IntakeInv, NEW c \in Socket, Interrupted(c)
  PROVE  AudioTypes' /\ Places' /\ Agree' /\ Follows' /\ Hush' /\ UtterancesHoldSpeech'
<1>1. Types /\ AudioTypes /\ Places /\ Agree /\ Follows /\ Hush
  BY DEF IntakeInv, Types
<1>2. /\ doing[c].pc = "closing" /\ doing' = [doing EXCEPT ![c] = Idle]
      /\ buffered' = "nothing" /\ cut' = MidSpeech(c, detector)
      /\ UNCHANGED <<left, detector, made, seen, stream, loaded, utterance, replaced>>
  BY DEF Interrupted, Emptied, EmptyBuffer
<1>3. /\ doing' \in [Socket -> Push] /\ doing'[c] = Idle /\ c \notin Active
      /\ \A b \in Socket \ {c} : doing'[b] = doing[b]
      /\ Loading' = Loading /\ Active' = Active
  <2>1. Idle \in Push /\ Idle.pc = "idle" /\ doing \in [Socket -> Push]
    BY <1>1, IdleTyped DEF AudioTypes
  <2>2. /\ doing' \in [Socket -> Push] /\ doing'[c] = Idle
        /\ \A b \in Socket \ {c} : doing'[b] = doing[b]
        /\ Loading' = Loading \ {c} /\ Active' = Active \ {c}
    BY <1>2, <2>1, OneMoves
  <2> QED
    BY <1>1, <1>2, <2>2, HandlersApart
<1>4. \A b \in Active : doing'[b] = doing[b] /\ b \in Socket
  BY <1>3 DEF Active, At
<1>5. detector # 0 => detector \in Detectors /\ seen[detector] \in Fields
                      /\ stream[detector].speaking \in BOOLEAN
  BY <1>1, IntakeAssumption DEF AudioTypes, Detectors, Streams
<1>6. cut' \in BOOLEAN /\ (~cut' => \A b \in Socket \ {c} : ~Pushing(b))
      /\ (~cut' /\ detector # 0 => ~stream[detector].speaking)
  <2>1. MidSpeech(c, detector) \in BOOLEAN
    BY <1>5 DEF MidSpeech
  <2>2. ~MidSpeech(c, detector) =>
          (\A b \in Socket \ {c} : ~Pushing(b)) /\ (detector # 0 => ~stream[detector].speaking)
    BY DEF MidSpeech
  <2> QED
    BY <1>2, <2>1, <2>2
<1>7. AudioTypes'
  BY <1>1, <1>2, <1>3, <1>6 DEF AudioTypes
<1>8. Places'
  <2>1. \A b \in Socket : doing'[b].pc \in {"idle", "closing"} =>
                         doing'[b] = [Idle EXCEPT !.pc = doing'[b].pc]
    BY <1>1, <1>3 DEF Places, Idle
  <2>2. \A b \in Loading' : doing'[b].frames # <<>>
    <3>1. \A b \in Loading : b # c /\ b \in Socket /\ doing'[b] = doing[b]
      BY <1>2, <1>3 DEF Loading, At
    <3> QED
      BY <1>1, <1>3, <3>1 DEF Places
  <2>3. /\ \A b \in Active' : doing'[b].on \in 1..made'
        /\ \A e \in Detectors : stream'[e].buffer # <<>> => \E b \in Active' : doing'[b].on = e
    BY <1>1, <1>2, <1>3, <1>4 DEF Places, PushingOn
  <2> QED
    BY <1>1, <1>2, <1>3, <2>1, <2>2, <2>3 DEF Places, PushingOn
<1>9. Agree'
  <2>1. \A b \in Socket : Keeps(doing'[b].heard)
    BY <1>1, <1>3, NoEventsKeep, IdleTyped DEF Agree
  <2> QED
    BY <1>1, <1>2, <2>1 DEF Agree, Keeps
<1>10. ~cut' /\ detector # 0 => seen[detector] = NewDetector
  <2> SUFFICES ASSUME ~cut', detector # 0 PROVE seen[detector] = NewDetector
    OBVIOUS
  <2>1. PushingOn(detector) = {}
    BY <1>3, <1>6 DEF PushingOn, Active, At, Pushing
  <2>2. ~seen[detector].speaking
    BY <2>1, <1>1, <1>6 DEF Follows
  <2>3. ~seen[detector].saw
    BY <2>2, <1>1, <1>5 DEF Agree
  <2> QED
    BY <2>2, <2>3, <1>5 DEF Fields, NewDetector
<1>11. Follows'
  <2> SUFFICES ASSUME detector # 0, PushingOn(detector)' = {} PROVE Follows'
    BY <1>2 DEF Follows
  <2>1. PushingOn(detector) = {}
    BY <1>2, <1>3, <1>4 DEF PushingOn
  <2>2. seen[detector].speaking => stream[detector].speaking
    BY <2>1, <1>1 DEF Follows
  <2>3. ~cut' => ~seen[detector].speaking /\ ~stream[detector].speaking
    BY <1>6, <1>10 DEF NewDetector
  <2>4. seen[detector].speaking \in BOOLEAN
    BY <1>5 DEF Fields
  <2> QED
    BY <1>2, <1>5, <2>2, <2>3, <2>4 DEF Follows
<1>12. Hush'
  BY <1>2, <1>3, <1>6, <1>7, <1>8, <1>10, IdleTyped, EmptiedHush
<1>13. UtterancesHoldSpeech'
  BY <1>2 DEF IntakeInv, UtterancesHoldSpeech
<1> QED
  BY <1>7, <1>8, <1>9, <1>11, <1>12, <1>13

-----------------------------------------------------------------------------
(* The invariant.                                                          *)

\* The handler of a socket takes the first of its messages, or ends.
LEMMA HandleTakes ==
  ASSUME IntakeInv, NEW c \in Socket, Handle(c)
  PROVE  ClientTypes' /\ Present' /\ UNCHANGED left /\ Received(c) \in Sendable
<1>1. ClientTypes /\ Present /\ AudioTypes /\ c \in left.sockets
  BY DEF IntakeInv, Types, Handle, Present
<1>2. up[c] \in Seq(Sendable) /\ up[c] # <<>>
  BY <1>1 DEF ClientTypes, Handle
<1>3. Received(c) \in Sendable /\ Tail(up[c]) \in Seq(Sendable) /\ <<>> \in Seq(Sendable)
  BY <1>2 DEF Received
<1>4. up' \in [Socket -> Seq(Sendable)] /\ \A b \in Socket \ {c} : up'[b] = up[b]
  <2>1. \E rest \in Seq(Sendable) : up' = [up EXCEPT ![c] = rest]
    BY <1>3 DEF Handle, Handles, Rejects, Ends
  <2> QED
    BY <2>1, <1>1 DEF ClientTypes
<1>5. link' \in [Socket -> {"none", "open", "closed"}]
  BY <1>1 DEF Handle, Handles, Rejects, Ends, ClientTypes
<1>6. \A b \in Socket \ {c} : doing'[b] = doing[b]
  <2>1. CASE Appends(c, Received(c).frames)
    BY <2>1, <1>1 DEF Appends, Ensures, NextFrame, AudioTypes
  <2>2. CASE UNCHANGED doing
    BY <2>2
  <2>3. CASE Closes(c)
    BY <2>3, <1>1 DEF Closes, AudioTypes
  <2> QED
    BY <2>1, <2>2, <2>3 DEF Handle, Handles, Rejects, Ends, audio
<1>7. UNCHANGED <<clientVars, left>>
  BY DEF Handle
<1> QED
  BY <1>1, <1>3, <1>4, <1>5, <1>6, <1>7 DEF ClientTypes, MicrophoneTypeOK, Present, clientVars, fields

\* The handling of a message does.
LEMMA HandleKeeps ==
  ASSUME IntakeInv, NEW c \in Socket, Handle(c)
  PROVE  IntakeInv'
<1> DEFINE m == Received(c)
           Kept_ == AudioTypes' /\ Places' /\ Agree' /\ Follows' /\ Hush' /\ UtterancesHoldSpeech'
<1>1. ClientTypes' /\ Present' /\ UNCHANGED left /\ m \in Sendable
  BY HandleTakes
<1>2. AudioTypes /\ Places /\ Agree /\ Types /\ doing[c].pc = "idle"
  BY DEF IntakeInv, Types, Handle
<1>3. CASE UNCHANGED audio
  BY <1>1, <1>3, ClientsKeepHandlers DEF IntakeInv, Types
<1>4. CASE Handles(c) /\ m.type = "AudioAppend"
  <2>1. Appends(c, m.frames) /\ Reception(Payload(m)) = "message"
    BY <1>4 DEF Handles
  <2>2. m.frames \in Seq(Frame) /\ m.frames # <<>>
    BY <1>1, <1>4, <2>1, HandledHasFrames
  <2>3. Kept_
    BY <1>1, <1>2, <2>1, <2>2, AppendsKeeps
  <2> QED
    BY <1>1, <2>3 DEF IntakeInv, Types
<1>5. CASE Handles(c) /\ m.type \in {"AudioCommit", "UserTurnCommit"}
  <2>1. Seal(c, "client", seen) /\ UNCHANGED <<detector, made, stream, loaded, doing, replaced>>
    BY <1>5 DEF Handles
  <2>2. doing' = [doing EXCEPT ![c] = Idle]
    BY <1>2, <2>1 DEF Places, AudioTypes, Idle
  <2>3. seen \in [Detectors -> Fields]
        /\ \A d \in Detectors : /\ seen[d].speaking => seen[d].saw
                                /\ d > made => seen[d] = NewDetector
    BY <1>2 DEF AudioTypes, Agree, Places
  <2>4. c \notin Active /\ c \notin Loading
    BY <1>2, HandlersApart
  <2>5. Kept_
    BY <1>1, <2>1, <2>2, <2>3, <2>4, SealKeeps
  <2> QED
    BY <1>1, <2>5 DEF IntakeInv, Types
<1>6. CASE Handles(c) /\ m.type = "SessionClose"
  <2>1. Closes(c)
    BY <1>6 DEF Handles
  <2>2. Kept_
    BY <1>1, <1>2, <2>1, ClosesKeeps
  <2> QED
    BY <1>1, <2>2 DEF IntakeInv, Types
<1> QED
  BY <1>3, <1>4, <1>5, <1>6 DEF Handle, Handles, Rejects, Ends

\* Before the first message.
LEMMA IntakeInit == Init => IntakeInv
<1> SUFFICES ASSUME Init PROVE IntakeInv
  OBVIOUS
<1>1. \A c \in Socket : doing[c] = Idle
  BY DEF Init
<1>2. Loading = {} /\ Active = {}
  BY <1>1, IdleTyped DEF Loading, Active, At
<1>3. detector = 0 /\ made = 0 /\ ~replaced /\ replaced \in BOOLEAN
  BY DEF Init
<1>4. \A d \in Detectors : stream[d] = NewStream /\ seen[d] = NewDetector
  BY DEF Init
<1>5. NewStream \in Streams /\ NewStream.triggered = NewStream.speaking
      /\ NewStream.buffer = <<>>
  <2>1. 0 \in 0..MinSilence /\ <<>> \in Seq(Frame)
    BY IntakeAssumption
  <2> QED
    BY <2>1 DEF NewStream, Streams
<1>6. left \in Calls /\ left.sockets \subseteq Socket /\ left \in Scenarios
  BY MicrophoneAssumption DEF Init, MicrophoneInit, Calls
<1>7. ClientTypes
  <2>1. MicrophoneTypeOK
    <3>1. /\ running = FALSE /\ captureToken = 0 /\ held = 0 /\ stage = "engines"
          /\ asking = {} /\ live = {} /\ stopping = {}
      BY DEF Init, MicrophoneInit
    <3>2. 0 \in Nat /\ 0 \in 0..0
      OBVIOUS
    <3> QED
      BY <3>1, <3>2, <1>6 DEF MicrophoneTypeOK
  <2>2. up \in [Socket -> Seq(Sendable)]
    <3>1. <<>> \in Seq(Sendable)
      OBVIOUS
    <3> QED
      BY <3>1 DEF Init, MicrophoneInit
  <2>3. link \in [Socket -> {"none", "open", "closed"}]
    BY DEF Init
  <2> QED
    BY <2>1, <2>2, <2>3 DEF ClientTypes
<1>8. AudioTypes
  <2>1. 0 \in 0..MaxDetectors /\ 0 \in 0..0
    BY IntakeAssumption
  <2>2. seen \in [Detectors -> Fields] /\ stream \in [Detectors -> Streams]
        /\ doing \in [Socket -> Push]
    BY <1>5, IdleTyped, NoEventsKeep DEF Init
  <2> QED
    BY <2>1, <2>2 DEF Init, AudioTypes
<1>9. Places
  <2>1. Idle = [Idle EXCEPT !.pc = Idle.pc]
    BY DEF Idle
  <2> QED
    BY <2>1, <1>1, <1>2, <1>3, <1>4, <1>5 DEF Places
<1>10. Present
  BY <1>1, <1>6, IdleTyped DEF Present, Init, MicrophoneInit
<1>11. Agree
  <2>1. \A c \in Socket : Keeps(doing[c].heard)
    BY <1>1, IdleTyped, NoEventsKeep
  <2>2. \A d \in Detectors : ~seen[d].speaking /\ ~seen[d].saw
    BY <1>4 DEF NewDetector
  <2>3. \A d \in Detectors : d # detector
    BY <1>3, IntakeAssumption DEF Detectors
  <2> QED
    BY <2>1, <2>2, <2>3, <1>4, <1>5 DEF Agree
<1>12. Follows
  BY <1>3 DEF Follows
<1>13. Hush
  <2>1. ToSet(<<>>) = {}
    BY DEF ToSet
  <2> QED
    BY <2>1, <1>1, <1>2, <1>3, IdleTyped DEF Hush
<1>14. UtterancesHoldSpeech
  BY DEF Init, NoUtterance, UtterancesHoldSpeech
<1> QED
  BY <1>7, <1>8, <1>9, <1>10, <1>11, <1>12, <1>13, <1>14 DEF IntakeInv, Types

\* Every step of the system keeps the invariant.
LEMMA IntakeNext == IntakeInv /\ [Next]_vars => IntakeInv'
<1> SUFFICES ASSUME IntakeInv, [Next]_vars PROVE IntakeInv'
  OBVIOUS
<1>1. CASE ClientStep
  <2>1. UNCHANGED audio
    BY <1>1 DEF ClientStep
  <2> QED
    BY <1>1, <2>1, MicrophoneKeeps, ClientsKeepHandlers DEF IntakeInv, Types
<1>2. CASE OthersSpeak \/ OthersErr \/ Commits \/ OthersClose
  BY <1>2, OthersKeepClients, ClientsKeepHandlers DEF IntakeInv, Types
<1>3. CASE LoadedElsewhere
  BY <1>3, LoadedElsewhereKeeps
<1>4. ASSUME NEW c \in Socket, Handle(c) PROVE IntakeInv'
  BY <1>4, HandleKeeps
<1>5. ASSUME NEW c \in Socket, Loaded(c) \/ Iterated(c) \/ Judged(c) \/ Interrupted(c)
      PROVE IntakeInv'
  <2>1. doing[c].pc # "idle" /\ UNCHANGED <<clientVars, up, left, link>>
    BY <1>5 DEF Loaded, Iterated, Judged, Interrupted
  <2>2. \A b \in Socket \ {c} : doing'[b] = doing[b]
    <3>1. doing \in [Socket -> Push]
      BY DEF IntakeInv, Types, AudioTypes
    <3> QED
      BY <1>5, <3>1 DEF Loaded, Iterated, Judged, Interrupted, Ensures, NextFrame
  <2>3. ClientTypes' /\ Present'
    BY <2>1, <2>2, HandlersKeepClients
  <2>4. AudioTypes' /\ Places' /\ Agree' /\ Follows' /\ Hush' /\ UtterancesHoldSpeech'
    <3>1. CASE Loaded(c)
      BY <3>1, LoadedKeeps
    <3>2. CASE Iterated(c)
      BY <3>2, IteratedKeeps DEF IntakeInv, Iterated, UtterancesHoldSpeech
    <3>3. CASE Judged(c)
      BY <3>3, JudgedKeeps
    <3>4. CASE Interrupted(c)
      BY <3>4, InterruptedKeeps
    <3> QED
      BY <1>5, <3>1, <3>2, <3>3, <3>4
  <2> QED
    BY <2>3, <2>4 DEF IntakeInv, Types
<1>6. CASE UNCHANGED vars
  <2>1. UNCHANGED audio /\ left' = left
    BY <1>6 DEF vars
  <2>2. ClientTypes' /\ Present'
    BY <1>6 DEF vars, IntakeInv, Types, ClientTypes, MicrophoneTypeOK, Present, clientVars, fields, audio
  <2> QED
    BY <2>1, <2>2, ClientsKeepHandlers DEF IntakeInv, Types
<1> QED
  BY <1>1, <1>2, <1>3, <1>4, <1>5, <1>6 DEF Next

\* It holds in every state.
LEMMA IntakeInvariant == Spec => []IntakeInv
BY IntakeInit, IntakeNext, PTL DEF Spec

-----------------------------------------------------------------------------
(* No speech is left behind, when fewer handlers judge than make silence.  *)

\* The detector that is there, and its stream.
LEMMA OwnDetector ==
  ASSUME IntakeInv, detector # 0
  PROVE  /\ detector \in Detectors
         /\ stream[detector] \in Streams /\ seen[detector] \in Fields
         /\ seen[detector].speaking => seen[detector].saw
<1>1. AudioTypes /\ Agree
  BY DEF IntakeInv, Types
<1>2. detector \in Detectors
  BY <1>1, IntakeAssumption DEF AudioTypes, Detectors
<1> QED
  BY <1>1, <1>2 DEF AudioTypes, Agree

\* A push on a stream that was closed leaves alone what is followed, unless it
\* seals the buffer.
LEMMA OtherPushFollowed ==
  ASSUME IntakeInv, Followed, NEW c \in Active, doing[c].on # detector,
         doing'[c].pc \in {"idle", "iterating", "judging"},
         doing'[c].pc = "idle" \/ doing'[c].on = doing[c].on,
         \A b \in Socket \ {c} : doing'[b] = doing[b],
         UNCHANGED <<left, detector, replaced>>,
         \/ buffered' = "nothing"
         \/ /\ buffered' = buffered
            /\ detector # 0 =>
                 stream'[detector] = stream[detector] /\ seen'[detector] = seen[detector]
  PROVE  Followed'
<1> SUFFICES ASSUME buffered = "speech", left.vad, ~replaced, Closing' = {},
                    detector # 0 =>
                      stream'[detector] = stream[detector] /\ seen'[detector] = seen[detector]
             PROVE Followed'
  BY DEF Followed
<1>1. c \in Socket /\ doing[c].pc \in {"iterating", "judging"}
  BY DEF Active, At
<1>2. Closing = {} /\ Loading' = Loading
  BY <1>1 DEF Closing, Loading, At
<1>3. \A b \in Loading : doing'[b] = doing[b]
  BY <1>1 DEF Loading, At
<1>4. PushingOn(detector)' = PushingOn(detector) /\ Judging' = Judging
  BY <1>1 DEF PushingOn, Judging, Active, At
<1>5. \A b \in PushingOn(detector) : doing'[b] = doing[b]
  BY DEF PushingOn, Active, At
<1>6. CASE detector = 0
  BY <1>2, <1>3, <1>6 DEF Followed
<1>7. CASE detector # 0
  <2>1. Underway \/ Known \/ Ending
    BY <1>2, <1>7 DEF Followed
  <2>2. Underway => Underway'
    BY <1>2, <1>4, <1>5, <1>7 DEF Underway
  <2>3. Known => Known'
    BY <1>4, <1>5, <1>7 DEF Known, Told
  <2>4. Ending => Ending'
    BY <1>4, <1>7 DEF Ending
  <2> QED
    BY <1>7, <2>1, <2>2, <2>3, <2>4 DEF Followed
<1> QED
  BY <1>6, <1>7

\* One more handler judges: its frame has been heard.
LEMMA OneMoreJudges ==
  ASSUME IntakeInv, EnoughSilence, NEW c \in Active \ Judging
  PROVE  /\ Cardinality(Judging \cup {c}) = Cardinality(Judging) + 1
         /\ Cardinality(Judging) <= MinSilence /\ Cardinality(Judging) \in Nat
<1>1. Present /\ left.sockets \subseteq Socket
  BY DEF IntakeInv, Types, ClientTypes, MicrophoneTypeOK, Calls
<1>2. Judging \cup {c} \subseteq left.sockets
  BY <1>1 DEF Present, Judging, Active, At
<1>3. IsFiniteSet(left.sockets) /\ Cardinality(left.sockets) <= MinSilence + 1
  BY <1>1, HandlersFinite, FS_Subset DEF Present, EnoughSilence
<1>4. Cardinality(Judging \cup {c}) <= Cardinality(left.sockets)
  BY <1>2, <1>3, FS_Subset
<1>5. Cardinality(Judging \cup {c}) = Cardinality(Judging) + 1
  BY HandlersFinite, FS_AddElement
<1>6. Cardinality(left.sockets) \in Nat /\ MinSilence \in Nat
  BY <1>3, FS_CardinalityType, IntakeAssumption
<1> QED
  BY <1>3, <1>4, <1>5, <1>6, HandlersFinite

\* A quiet frame brings the end of the speech nearer by one, and one more handler
\* that will tell of the speech.
LEMMA IteratedFollowed ==
  ASSUME IntakeInv, EnoughSilence, Followed, NEW c \in Socket, Iterated(c)
  PROVE  Followed'
<1>1. UNCHANGED <<left, buffered, detector, seen, replaced>>
  BY DEF Iterated
<1>2. Types /\ AudioTypes /\ Places /\ Agree
  BY DEF IntakeInv, Types
<1> DEFINE d == doing[c].on
           frame == doing[c].frame
<1>3. /\ c \in Active /\ doing[c].pc = "iterating" /\ d \in Detectors /\ d \in 1..made
      /\ frame \in Frame
  BY <1>2, IteratedEffect DEF AudioTypes, Push
<1>4. PICK t \in Streams, heard \in [Fields -> Decisions] :
        /\ stream' = [stream EXCEPT ![d] = t]
        /\ doing' = [doing EXCEPT ![c] = [doing[c] EXCEPT !.pc = "judging", !.heard = heard]]
        /\ t.buffer = stream[d].buffer
        /\ Told(doing[c].heard) => Told(heard)
        /\ frame = "speech" => t.speaking /\ t.quiets = 0
        /\ d = detector /\ frame = "quiet" /\ stream[d].speaking
           /\ stream[d].quiets < MinSilence =>
             t.speaking /\ t.quiets = stream[d].quiets + 1
  BY <1>2, IteratedEffect
<1> DEFINE x == [doing[c] EXCEPT !.pc = "judging", !.heard = heard]
<1>5. x \in Push /\ x.pc = "judging" /\ x.heard = heard /\ x.on = d
  BY <1>2 DEF AudioTypes, Push
<1> HIDE DEF x, d, frame
<1>6. /\ Loading' = Loading /\ Active' = Active /\ Closing' = Closing
      /\ doing'[c] = x /\ \A b \in Socket \ {c} : doing'[b] = doing[b]
  <2>1. doing \in [Socket -> Push] /\ doing' = [doing EXCEPT ![c] = x]
    BY <1>2, <1>4 DEF AudioTypes, x
  <2>2. /\ Loading' = Loading \ {c} /\ Active' = Active \cup {c} /\ Closing' = Closing \ {c}
        /\ doing'[c] = x /\ \A b \in Socket \ {c} : doing'[b] = doing[b]
    BY <2>1, <1>5, OneMoves
  <2>3. c \notin Closing
    BY <1>3 DEF Closing, At
  <2> QED
    BY <2>2, <2>3, <1>2, <1>3, HandlersApart
<1>7. CASE d # detector
  <2>1. detector # 0 => stream'[detector] = stream[detector] /\ seen'[detector] = seen[detector]
    BY <1>1, <1>2, <1>4, <1>7, OwnDetector DEF AudioTypes
  <2>2. doing[c].on # detector /\ doing'[c].pc = "judging" /\ doing'[c].on = doing[c].on
    BY <1>5, <1>6, <1>7 DEF d
  <2> QED
    BY <1>1, <1>3, <1>6, <2>1, <2>2, OtherPushFollowed
<1> SUFFICES ASSUME d = detector, buffered = "speech", left.vad, ~replaced, Closing = {}
             PROVE Followed'
  BY <1>1, <1>6, <1>7 DEF Followed
<1>8. detector # 0 /\ stream[detector] \in Streams
  <2>1. detector # 0
    BY <1>3 DEF Detectors
  <2> QED
    BY <2>1, OwnDetector
<1>9. stream'[detector] = t /\ c \in PushingOn(detector)
  BY <1>2, <1>3, <1>4 DEF AudioTypes, PushingOn, d
<1>10. /\ Judging' = Judging \cup {c}
       /\ Cardinality(Judging') = Cardinality(Judging) + 1
       /\ Cardinality(Judging) <= MinSilence /\ Cardinality(Judging) \in Nat
  <2>1. Judging' = Judging \cup {c}
    BY <1>1, <1>5, <1>6 DEF Judging, At
  <2> QED
    BY <2>1, <1>2, <1>3, HandlersApart, OneMoreJudges
<1>11. CASE frame = "speech"
  <2>1. t.speaking /\ t.quiets = 0
    BY <1>4, <1>11
  <2>2. Ending'
    BY <2>1, <1>1, <1>9, <1>10 DEF Ending
  <2> QED
    BY <2>2, <1>1, <1>8 DEF Followed
<1>12. CASE frame = "quiet"
  <2>1. Underway \/ Known \/ Ending
    BY <1>8 DEF Followed
  <2>2. CASE Underway
    <3>1. CASE Loading # {} \/ "speech" \in ToSet(stream[detector].buffer)
      <4>1. Underway'
        BY <3>1, <1>1, <1>4, <1>6, <1>9 DEF Underway
      <4> QED
        BY <4>1, <1>1, <1>8 DEF Followed
    <3>2. CASE \E b \in PushingOn(detector) :
                 doing[b].pc = "iterating" /\ doing[b].frame = "speech"
      <4>1. PICK b \in PushingOn(detector) : doing[b].pc = "iterating" /\ doing[b].frame = "speech"
        BY <3>2
      <4>2. b # c /\ b \in Active /\ b \in Socket /\ doing[b].on = detector
        BY <4>1, <1>12 DEF frame, PushingOn, Active, At
      <4>3. b \in PushingOn(detector)' /\ doing'[b] = doing[b]
        BY <4>2, <1>1, <1>6 DEF PushingOn
      <4>4. Underway'
        BY <4>1, <4>3 DEF Underway
      <4> QED
        BY <4>4, <1>1, <1>8 DEF Followed
    <3> QED
      BY <2>2, <3>1, <3>2 DEF Underway
  <2>3. CASE Known
    <3>1. CASE seen[detector].saw
      BY <3>1, <1>1, <1>8 DEF Followed, Known
    <3>2. CASE \E b \in PushingOn(detector) : Told(doing[b].heard)
      <4>1. PICK b \in PushingOn(detector) : Told(doing[b].heard)
        BY <3>2
      <4>2. Told(doing'[b].heard) /\ b \in PushingOn(detector)'
        <5>1. CASE b = c
          BY <5>1, <4>1, <1>1, <1>3, <1>4, <1>5, <1>6 DEF PushingOn
        <5>2. CASE b # c
          BY <5>2, <4>1, <1>1, <1>6 DEF PushingOn, Active, At
        <5> QED
          BY <5>1, <5>2
      <4>3. Known'
        BY <4>2 DEF Known, Told
      <4> QED
        BY <4>3, <1>1, <1>8 DEF Followed
    <3> QED
      BY <2>3, <3>1, <3>2 DEF Known
  <2>4. CASE Ending
    <3>1. stream[d].speaking /\ stream[d].quiets < Cardinality(Judging)
      BY <2>4 DEF Ending
    <3>2. stream[d].quiets < MinSilence /\ stream[d].quiets \in Nat
      BY <3>1, <1>8, <1>10, IntakeAssumption DEF Streams
    <3>3. t.speaking /\ t.quiets = stream[d].quiets + 1
      BY <1>4, <1>12, <3>1, <3>2
    <3>4. t.quiets < Cardinality(Judging')
      BY <3>1, <3>2, <3>3, <1>10
    <3>5. Ending'
      BY <3>3, <3>4, <1>1, <1>9 DEF Ending
    <3> QED
      BY <3>5, <1>1, <1>8 DEF Followed
  <2> QED
    BY <2>1, <2>2, <2>3, <2>4
<1> QED
  BY <1>3, <1>11, <1>12 DEF Frame

\* A handler hands a frame of speech to the iterator, or what was known of
\* speech still is.
LEMMA PushFollowed ==
  ASSUME IntakeInv, NEW c \in Socket, NEW d \in Detectors, NEW frames \in Seq(Frame),
         NEW heard \in [Fields -> Decisions], stream[d].buffer \o frames # <<>>,
         NextFrame(c, d, frames, heard), d = detector', c \notin Closing,
         c \in Active => doing[c].on = d,
         UNCHANGED <<left, seen>>,
         c \in Active /\ Told(doing[c].heard) => Told(heard),
         c \in Judging /\ stream[d].speaking => Told(heard),
         \/ Closing # {}
         \/ "speech" \in ToSet(frames)
         \/ Loading \ {c} # {}
         \/ /\ detector = detector' /\ c \notin Loading /\ doing[c].pc # "iterating"
            /\ Underway \/ Known \/ Ending
  PROVE  Followed'
<1>1. AudioTypes /\ Types
  BY DEF IntakeInv, Types
<1> DEFINE told == "speech" \in ToSet(stream[d].buffer) \/ "speech" \in ToSet(frames) <=>
                     doing'[c].frame = "speech" \/ "speech" \in ToSet(stream'[d].buffer)
<1>2. /\ \A e \in Detectors : /\ stream'[e].speaking = stream[e].speaking
                              /\ stream'[e].quiets = stream[e].quiets
      /\ \A b \in Socket \ {c} : doing'[b] = doing[b]
      /\ doing'[c].pc = "iterating" /\ doing'[c].heard = heard /\ doing'[c].on = d
      /\ Loading' = Loading \ {c} /\ Closing' = Closing \ {c} /\ Active' = Active \cup {c}
      /\ told
  BY <1>1, NextFrameEffect
<1>3. detector' # 0
  BY DEF Detectors
<1> SUFFICES ASSUME Closing = {} PROVE Underway' \/ Known' \/ Ending'
  BY <1>2, <1>3 DEF Followed
<1>4. c \in PushingOn(detector)' /\ \A b \in Active : doing[b].on = d => b \in PushingOn(detector)'
  BY <1>2 DEF PushingOn, Active, At
<1>5. CASE "speech" \in ToSet(frames) \/ "speech" \in ToSet(stream[d].buffer)
  <2>1. doing'[c].frame = "speech" \/ "speech" \in ToSet(stream'[d].buffer)
    BY <1>2, <1>5
  <2> QED
    BY <2>1, <1>2, <1>4 DEF Underway
<1>6. CASE Loading \ {c} # {}
  BY <1>2, <1>6 DEF Underway
<1>7. CASE /\ detector = d /\ c \notin Loading /\ doing[c].pc # "iterating"
           /\ Underway \/ Known \/ Ending
  <2>1. CASE Underway
    <3>1. CASE \E b \in PushingOn(detector) :
                 doing[b].pc = "iterating" /\ doing[b].frame = "speech"
      <4>1. PICK b \in PushingOn(detector) : doing[b].pc = "iterating" /\ doing[b].frame = "speech"
        BY <3>1
      <4>2. b # c /\ doing'[b] = doing[b] /\ b \in PushingOn(detector)'
        BY <4>1, <1>2, <1>4, <1>7 DEF PushingOn, Active, At
      <4> QED
        BY <4>1, <4>2 DEF Underway
    <3> QED
      BY <2>1, <3>1, <1>5, <1>6, <1>7 DEF Underway
  <2>2. CASE Known
    <3>1. CASE seen[detector].saw
      BY <3>1, <1>7 DEF Known
    <3>2. CASE \E b \in PushingOn(detector) : Told(doing[b].heard)
      <4>1. PICK b \in PushingOn(detector) : Told(doing[b].heard)
        BY <3>2
      <4>2. Told(doing'[b].heard) /\ b \in PushingOn(detector)'
        <5>1. CASE b = c
          BY <5>1, <4>1, <1>2, <1>4 DEF PushingOn
        <5>2. CASE b # c
          BY <5>2, <4>1, <1>2, <1>4, <1>7 DEF PushingOn, Active, At
        <5> QED
          BY <5>1, <5>2
      <4> QED
        BY <4>2 DEF Known, Told
    <3> QED
      BY <2>2, <3>1, <3>2 DEF Known
  <2>3. CASE Ending
    <3>1. CASE c \in Judging
      <4>1. Told(doing'[c].heard)
        BY <3>1, <2>3, <1>2, <1>7 DEF Ending
      <4> QED
        BY <4>1, <1>4 DEF Known, Told
    <3>2. CASE c \notin Judging
      <4>1. Judging' = Judging
        BY <3>2, <1>2, <1>7 DEF Judging, At
      <4> QED
        BY <4>1, <2>3, <1>2, <1>7 DEF Ending
    <3> QED
      BY <3>1, <3>2
  <2> QED
    BY <1>7, <2>1, <2>2, <2>3
<1> QED
  BY <1>5, <1>6, <1>7

\* A handler that ends its push tells its detector what it knows.
LEMMA JudgedFollowed ==
  ASSUME IntakeInv, Followed, NEW c \in Socket, Judged(c)
  PROVE  Followed'
<1>1. UNCHANGED <<left, detector, replaced>>
  BY DEF Judged
<1> DEFINE d == doing[c].on
           heard == Hear(doing[c].heard, IF stream[d].speaking THEN "speaking" ELSE "silent")
           decision == heard[seen[d]]
           fields_ == [speaking |-> decision.speaking, saw |-> decision.saw]
           told == [seen EXCEPT ![d] = fields_]
<1>2. Types /\ AudioTypes /\ Places /\ Agree
  BY DEF IntakeInv, Types
<1>3. /\ c \in Active /\ c \notin Loading /\ doing[c].pc = "judging"
      /\ d \in Detectors /\ d \in 1..made
      /\ heard \in [Fields -> Decisions] /\ Keeps(heard)
      /\ Told(doing[c].heard) => Told(heard)
      /\ stream[d].speaking => Told(heard)
  BY <1>2, JudgedHears
<1>4. stream[d] \in Streams
  BY <1>2, <1>3 DEF AudioTypes
<1>5. ASSUME stream[d].buffer # <<>>
      PROVE  /\ NextFrame(c, d, <<>>, heard) /\ UNCHANGED <<seen, buffered>>
             /\ <<>> \in Seq(Frame) /\ stream[d].buffer \o <<>> # <<>>
  <2>1. stream[d].buffer \in Seq(Frame)
    BY <1>4 DEF Streams
  <2> QED
    BY <2>1, <1>5, SpeechJoins DEF Judged
<1>6. ASSUME stream[d].buffer = <<>>
      PROVE  /\ doing' = [doing EXCEPT ![c] = Idle] /\ UNCHANGED stream
             /\ buffered' = "nothing" \/ (buffered' = buffered /\ seen' = told)
  BY <1>6 DEF Judged, Decide, Seal, Emptied, EmptyBuffer
<1> HIDE DEF decision, fields_, told, heard, d
<1>7. CASE d # detector
  <2>1. /\ doing'[c].pc = "idle" \/ (doing'[c].pc = "iterating" /\ doing'[c].on = doing[c].on)
        /\ \A b \in Socket \ {c} : doing'[b] = doing[b]
        /\ \/ buffered' = "nothing"
           \/ /\ buffered' = buffered
              /\ detector # 0 => stream'[detector] = stream[detector] /\ seen'[detector] = seen[detector]
    <3>1. CASE stream[d].buffer # <<>>
      <4>1. /\ NextFrame(c, d, <<>>, heard) /\ UNCHANGED <<seen, buffered>>
            /\ <<>> \in Seq(Frame) /\ stream[d].buffer \o <<>> # <<>>
        BY <1>5, <3>1
      <4>2. /\ \A e \in Detectors : /\ stream'[e].triggered = stream[e].triggered
                                    /\ stream'[e].speaking = stream[e].speaking
                                    /\ stream'[e].quiets = stream[e].quiets
                                    /\ e # d => stream'[e] = stream[e]
            /\ \A b \in Socket \ {c} : doing'[b] = doing[b]
            /\ doing'[c].pc = "iterating" /\ doing'[c].on = d
        <5>1. AudioTypes /\ c \in Socket /\ d \in Detectors /\ heard \in [Fields -> Decisions]
          BY <1>2, <1>3
        <5> DEFINE none == <<>>
        <5>2. NextFrame(c, d, none, heard) /\ none \in Seq(Frame) /\ stream[d].buffer \o none # <<>>
          BY <4>1
        <5> HIDE DEF none
        <5> QED
          BY ONLY <5>1, <5>2, NextFrameEffect
      <4>3. detector # 0 => detector \in Detectors
        BY OwnDetector
      <4> QED
        BY <4>1, <4>2, <4>3, <1>7 DEF d
    <3>2. CASE stream[d].buffer = <<>>
      <4>1. Idle.pc = "idle" /\ doing \in [Socket -> Push]
        BY <1>2, IdleTyped DEF AudioTypes
      <4>2. doing'[c] = Idle /\ \A b \in Socket \ {c} : doing'[b] = doing[b]
        BY <4>1, <3>2, <1>6
      <4>3. seen' = told /\ detector # 0 => seen'[detector] = seen[detector]
        BY <1>2, <1>7, OwnDetector DEF told, AudioTypes
      <4> QED
        BY <3>2, <4>1, <4>2, <4>3, <1>6
    <3> QED
      BY <3>1, <3>2
  <2>2. doing[c].on # detector
    BY <1>7 DEF d
  <2> QED
    BY <1>1, <1>3, <2>1, <2>2, OtherPushFollowed
<1> SUFFICES ASSUME d = detector, buffered' = "speech", left.vad, ~replaced, Closing' = {}
             PROVE Followed'
  BY <1>1, <1>7 DEF Followed
<1>8. /\ detector # 0 /\ c \in PushingOn(detector) /\ c \in Judging
      /\ seen[d] \in Fields /\ (seen[d].speaking => seen[d].saw)
  <2>1. detector # 0
    BY <1>3 DEF Detectors
  <2> QED
    BY <2>1, <1>3, OwnDetector DEF PushingOn, Judging, At, d
<1>9. CASE stream[d].buffer # <<>>
  <2>1. /\ NextFrame(c, d, <<>>, heard) /\ UNCHANGED <<seen, buffered>>
        /\ <<>> \in Seq(Frame) /\ stream[d].buffer \o <<>> # <<>>
    BY <1>5, <1>9
  <2>2. /\ d = detector' /\ detector = detector' /\ UNCHANGED <<left, seen>>
        /\ doing[c].pc # "iterating" /\ c \notin Closing /\ doing[c].on = d
    BY <1>1, <1>3, <2>1 DEF Closing, At, d
  <2>3. Closing # {} \/ Underway \/ Known \/ Ending
    BY <1>8, <2>1 DEF Followed
  <2> QED
    BY <1>3, <2>1, <2>2, <2>3, PushFollowed
<1>10. CASE stream[d].buffer = <<>>
  <2>1. "nothing" # "speech"
    OBVIOUS
  <2>2. doing' = [doing EXCEPT ![c] = Idle] /\ UNCHANGED stream /\ buffered = "speech" /\ seen' = told
    BY <2>1, <1>6, <1>10
  <2>3. seen'[detector] = fields_ /\ fields_.saw = decision.saw
    BY <2>2, <1>2, <1>3 DEF AudioTypes, told, fields_
  <2>4. (seen[d].saw \/ Told(doing[c].heard) \/ stream[d].speaking) => decision.saw
    BY <1>3, <1>8 DEF Keeps, Told, decision
  <2>5. /\ Loading' = Loading /\ Active' = Active \ {c} /\ Closing' = Closing
        /\ \A b \in Socket \ {c} : doing'[b] = doing[b]
    <3>1. Idle.pc = "idle" /\ doing \in [Socket -> Push]
      BY <1>2, IdleTyped DEF AudioTypes
    <3>2. /\ Loading' = Loading \ {c} /\ Active' = Active \ {c} /\ Closing' = Closing \ {c}
          /\ \A b \in Socket \ {c} : doing'[b] = doing[b]
      BY <3>1, <2>2, OneMoves
    <3>3. c \notin Closing
      BY <1>3 DEF Closing, At
    <3> QED
      BY <3>2, <3>3, <1>3
  <2>6. \A b \in PushingOn(detector) \ {c} : b \in PushingOn(detector)' /\ doing'[b] = doing[b]
    BY <2>5, <1>1 DEF PushingOn, Active, At
  <2>7. Underway \/ Known \/ Ending
    BY <2>2, <2>5, <1>8 DEF Followed
  <2> SUFFICES Underway' \/ Known' \/ Ending'
    BY <1>1, <1>8 DEF Followed
  <2>8. CASE Underway
    <3>1. "speech" \notin ToSet(stream[detector].buffer)
      BY <1>10 DEF ToSet
    <3>2. CASE \E b \in PushingOn(detector) :
                 doing[b].pc = "iterating" /\ doing[b].frame = "speech"
      BY <3>2, <2>6, <1>3 DEF Underway
    <3> QED
      BY <2>8, <3>1, <3>2, <2>5 DEF Underway
  <2>9. CASE Known
    <3>1. CASE seen[detector].saw \/ Told(doing[c].heard)
      BY <3>1, <2>3, <2>4, <1>1 DEF Known
    <3>2. CASE \E b \in PushingOn(detector) : b # c /\ Told(doing[b].heard)
      BY <3>2, <2>6 DEF Known, Told
    <3> QED
      BY <2>9, <3>1, <3>2 DEF Known
  <2>10. CASE Ending
    BY <2>10, <2>3, <2>4, <1>1 DEF Ending, Known
  <2> QED
    BY <2>7, <2>8, <2>9, <2>10
<1> QED
  BY <1>9, <1>10

\* The first detector hears the frames of the handler that brings it into being,
\* or those of a handler that still waits for the engine are to come.
LEMMA EnsuresFollowed ==
  ASSUME IntakeInv, NEW c \in Socket, NEW frames \in Seq(Frame), frames # <<>>,
         c \notin Active, c \notin Closing, Ensures(c, frames), UNCHANGED <<left, seen>>,
         left.vad,
         buffered' = "speech" /\ detector = 0 /\ ~replaced /\ Closing = {} =>
           "speech" \in ToSet(frames) \/ Loading \ {c} # {}
  PROVE  Followed'
<1> SUFFICES ASSUME buffered' = "speech", ~replaced' PROVE Followed'
  BY DEF Followed
<1>1. AudioTypes /\ Places
  BY DEF IntakeInv, Types
<1> DEFINE d == made + 1
<1>2. /\ made < MaxDetectors /\ detector' = d /\ NextFrame(c, d, frames, NoEvents)
      /\ detector = 0 /\ ~replaced
  BY DEF Ensures
<1>3. d \in Detectors /\ d > made
  BY <1>1, <1>2, IntakeAssumption DEF AudioTypes, Detectors
<1>4. stream[d] = NewStream
  BY <1>1, <1>3 DEF Places
<1>5. stream[d].buffer \o frames # <<>>
  <2>1. <<>> \o frames = frames
    OBVIOUS
  <2> QED
    BY <2>1, <1>4 DEF NewStream
<1>6. NoEvents \in [Fields -> Decisions] /\ c \notin Judging
  BY NoEventsKeep DEF Judging, Active, At
<1> HIDE DEF d
<1>7. Closing # {} \/ "speech" \in ToSet(frames) \/ Loading \ {c} # {}
  BY <1>2
<1> QED
  BY <1>2, <1>3, <1>5, <1>6, <1>7, PushFollowed

\* A chunk of speech is known of, or on its way to the iterator.
LEMMA HandleFollowed ==
  ASSUME IntakeInv, Followed, NEW c \in Socket, Handle(c)
  PROVE  Followed'
<1> DEFINE m == Received(c)
           frames == m.frames
<1>1. UNCHANGED left /\ m \in Sendable
  BY HandleTakes
<1>2. /\ Types /\ AudioTypes /\ Places /\ doing[c].pc = "idle"
      /\ c \notin Active /\ c \notin Loading /\ c \notin Closing
  BY HandlersApart DEF IntakeInv, Types, Handle, Closing, At
<1>3. CASE UNCHANGED audio
  BY <1>1, <1>3
  DEF audio, Followed, Underway, Known, Ending, Loading, Closing, Active, PushingOn,
      Judging, At, Told
<1>4. CASE buffered' = "nothing"
  BY <1>4 DEF Followed
<1>5. CASE Handles(c) /\ m.type = "AudioAppend"
  <2>1. Appends(c, frames) /\ Reception(Payload(m)) = "message"
    BY <1>5 DEF Handles
  <2>2. frames \in Seq(Frame) /\ frames # <<>>
    BY <1>1, <1>5, <2>1, HandledHasFrames
  <2> HIDE DEF m, frames
  <2>3. (replaced => replaced') /\ replaced \in BOOLEAN
    BY <2>1, <1>2 DEF Appends, Ensures, AudioTypes
  <2> SUFFICES ASSUME buffered' = "speech", left.vad, ~replaced', ~replaced PROVE Followed'
    BY <1>1, <2>3 DEF Followed
  <2>4. buffered = "speech" \/ "speech" \in ToSet(frames)
    BY <2>1 DEF Appends, Kept, Louder
  <2>5. Loading \ {c} = Loading /\ UNCHANGED seen
    BY <2>1, <1>2 DEF Appends
  <2>6. CASE detector # 0
    <3>1. NextFrame(c, detector, frames, NoEvents) /\ UNCHANGED <<detector, replaced>>
      BY <2>1, <2>6 DEF Appends
    <3>2. detector \in Detectors
      BY <2>6, OwnDetector
    <3>3. stream[detector].buffer \o frames # <<>>
      <4>1. stream[detector].buffer \in Seq(Frame)
        BY <1>2, <3>2 DEF AudioTypes, Streams
      <4> QED
        BY <4>1, <2>2, SpeechJoins
    <3>4. Closing = {} /\ "speech" \notin ToSet(frames) => Underway \/ Known \/ Ending
      BY <2>4, <2>6 DEF Followed
    <3>5. NoEvents \in [Fields -> Decisions] /\ c \notin Judging /\ detector = detector'
          /\ doing[c].pc # "iterating"
      BY <1>2, <3>1, NoEventsKeep DEF Judging, Active, At
    <3> QED
      BY <1>1, <1>2, <2>2, <2>5, <3>1, <3>2, <3>3, <3>4, <3>5, PushFollowed
  <2>7. CASE detector = 0 /\ loaded
    <3>1. Ensures(c, frames)
      BY <2>1, <2>7 DEF Appends
    <3>2. Closing = {} => "speech" \in ToSet(frames) \/ Loading \ {c} # {}
      BY <2>4, <2>5, <2>7 DEF Followed
    <3> QED
      BY <1>1, <1>2, <2>2, <2>5, <3>1, <3>2, EnsuresFollowed
  <2>8. CASE detector = 0 /\ ~loaded
    <3> DEFINE x == [Idle EXCEPT !.pc = "loading", !.frames = frames]
    <3>1. doing' = [doing EXCEPT ![c] = x] /\ UNCHANGED <<detector, stream, replaced>>
      BY <2>1, <2>8 DEF Appends
    <3>2. x.pc = "loading" /\ x.frames = frames
      BY <2>2, PushesTyped
    <3> HIDE DEF x
    <3>3. /\ Loading' = Loading \cup {c} /\ Closing' = Closing \ {c} /\ doing'[c] = x
          /\ \A b \in Socket \ {c} : doing'[b] = doing[b]
      <4>1. doing \in [Socket -> Push]
        BY <1>2 DEF AudioTypes
      <4> QED
        BY <4>1, <3>1, <3>2, OneMoves
    <3>4. CASE "speech" \in ToSet(frames)
      BY <3>4, <2>8, <3>1, <3>2, <3>3 DEF Followed
    <3>5. CASE buffered = "speech"
      <4>1. CASE Closing # {}
        BY <4>1, <3>3, <1>2 DEF Followed
      <4> SUFFICES ASSUME Closing = {} PROVE Followed'
        BY <4>1
      <4>2. PICK b \in Loading : "speech" \in ToSet(doing[b].frames)
        BY <3>5, <2>8 DEF Followed
      <4>3. b \in Loading' /\ doing'[b] = doing[b]
        BY <4>2, <3>3, <1>2 DEF Loading, At
      <4> QED
        BY <4>2, <4>3, <2>8, <3>1 DEF Followed
    <3> QED
      BY <2>4, <3>4, <3>5
  <2> QED
    BY <2>6, <2>7, <2>8, <1>2 DEF AudioTypes
<1>6. CASE Handles(c) /\ m.type = "SessionClose"
  <2>1. Closes(c)
    BY <1>6 DEF Handles
  <2>2. CASE doing' = [doing EXCEPT ![c] = [Idle EXCEPT !.pc = "closing"]]
    <3>1. doing'[c].pc = "closing"
      BY <1>2, <2>2 DEF AudioTypes, Idle
    <3>2. Closing' # {}
      BY <3>1 DEF Closing, At
    <3> QED
      BY <3>2 DEF Followed
  <2> QED
    BY <2>1, <2>2, <1>4 DEF Closes, Emptied, EmptyBuffer
<1> QED
  BY <1>3, <1>4, <1>5, <1>6 DEF Handle, Handles, Rejects, Ends, Seal, Emptied, EmptyBuffer

\* The frames that waited for the engine are heard.
LEMMA LoadedFollowed ==
  ASSUME IntakeInv, Followed, NEW c \in Socket, Loaded(c)
  PROVE  Followed'
<1> DEFINE frames == doing[c].frames
<1>1. AudioTypes /\ Places
  BY DEF IntakeInv, Types
<1>2. c \in Loading /\ c \notin Active /\ c \notin Closing /\ doing[c] \in Push
  BY <1>1 DEF Loaded, Loading, Closing, Active, At, AudioTypes
<1>3. frames \in Seq(Frame) /\ frames # <<>> /\ left.vad
  BY <1>1, <1>2 DEF Places, Push
<1>4. Ensures(c, frames) /\ UNCHANGED <<left, buffered, seen>>
  BY DEF Loaded
<1>5. buffered' = "speech" /\ detector = 0 /\ ~replaced /\ Closing = {} =>
        "speech" \in ToSet(frames) \/ Loading \ {c} # {}
  BY <1>3, <1>4 DEF Followed
<1> HIDE DEF frames
<1> QED
  BY <1>2, <1>3, <1>4, <1>5, EnsuresFollowed

\* Every step of the system keeps speech followed.
LEMMA FollowedNext == IntakeInv /\ EnoughSilence /\ Followed /\ [Next]_vars => Followed'
<1> SUFFICES ASSUME IntakeInv, EnoughSilence, Followed, [Next]_vars PROVE Followed'
  OBVIOUS
<1>1. CASE UNCHANGED <<audio, left>>
  BY <1>1
  DEF audio, Followed, Underway, Known, Ending, Loading, Closing, Active, PushingOn,
      Judging, At, Told
<1>2. CASE ClientStep \/ OthersSpeak \/ OthersErr \/ Commits \/ OthersClose
  <2>1. UNCHANGED audio /\ left'.vad = left.vad
    BY <1>2, MicrophoneKeeps, OthersKeepClients DEF ClientStep
  <2> QED
    BY <2>1
    DEF audio, Followed, Underway, Known, Ending, Loading, Closing, Active, PushingOn,
        Judging, At, Told
<1>3. CASE LoadedElsewhere
  BY <1>3
  DEF LoadedElsewhere, Followed, Underway, Known, Ending, Loading, Closing, Active,
      PushingOn, Judging, At, Told
<1>4. ASSUME NEW c \in Socket, Handle(c) \/ Loaded(c) \/ Iterated(c) \/ Judged(c) \/ Interrupted(c)
      PROVE Followed'
  <2>1. CASE Interrupted(c)
    BY <2>1 DEF Interrupted, Emptied, EmptyBuffer, Followed
  <2> QED
    BY <1>4, <2>1, HandleFollowed, LoadedFollowed, IteratedFollowed, JudgedFollowed
<1> QED
  BY <1>1, <1>2, <1>3, <1>4 DEF Next, vars

\* Between the pushes nothing of what carries speech is left but the stream.
LEMMA InvariantSpeech == IntakeInv /\ Followed => SpeechIsTaken
<1> SUFFICES ASSUME IntakeInv, Followed PROVE SpeechIsTaken
  OBVIOUS
<1>1. Types /\ AudioTypes /\ Places /\ Agree /\ Follows
  BY DEF IntakeInv, Types
<1>2. TypeOK
  BY <1>1, TypesImplyTypeOK
<1>3. Quiet => /\ Loading = {} /\ Closing = {} /\ PushingOn(detector) = {} /\ Judging = {}
               /\ detector # 0 /\ detector \in Detectors /\ stream[detector].buffer = <<>>
  <2> SUFFICES ASSUME Quiet PROVE <1>3!2
    OBVIOUS
  <2>1. Loading = {} /\ Closing = {} /\ Active = {} /\ Judging = {} /\ detector # 0
    BY DEF Quiet, Loading, Closing, Active, Judging, At
  <2>2. detector \in Detectors
    BY <2>1, OwnDetector
  <2>3. PushingOn(detector) = {}
    BY <2>1 DEF PushingOn
  <2> QED
    BY <2>1, <2>2, <2>3, <1>1 DEF Places
<1>4. NoSpeechIsLeftBehind
  <2> SUFFICES ASSUME Quiet, ~replaced, ~stream[detector].speaking, buffered = "speech" PROVE FALSE
    BY DEF NoSpeechIsLeftBehind
  <2>1. left.vad /\ (Underway \/ Known \/ Ending)
    BY <1>1, <1>3 DEF Places, Followed
  <2>2. ~Underway
    BY <1>3 DEF Underway, ToSet
  <2>3. ~Known
    <3>1. seen[detector].saw => seen[detector].speaking
      BY <1>1, <1>3 DEF Agree
    <3>2. seen[detector].speaking => stream[detector].speaking
      BY <1>1, <1>3 DEF Follows
    <3> QED
      BY <3>1, <3>2, <1>3 DEF Known
  <2> QED
    BY <2>1, <2>2, <2>3 DEF Ending
<1>5. DetectorFollowsStream
  BY <1>1, <1>3 DEF DetectorFollowsStream, Follows
<1> QED
  BY <1>2, <1>4, <1>5 DEF SpeechIsTaken

\* An utterance that the VAD ended holds speech, whatever the chunks of several
\* clients bring, whatever is committed between them and whoever closes the
\* session under them, save when the buffer was emptied in the middle of speech,
\* by a seal or by a close (worker.py:164-192, 678-710, endpointing.py:26-53).
THEOREM SpeechInUtterances == Spec => []UtterancesHoldSpeech
<1>1. IntakeInv => UtterancesHoldSpeech
  BY DEF IntakeInv
<1> QED
  BY <1>1, IntakeInvariant, PTL

\* All speech received is sealed once the stream is silent, and the detector
\* follows the stream, as long as the clients of a session are not more than the
\* frames that make silence, and one.  With more of them the frames that end the
\* speech may be heard before any of their handlers told the detector of it
\* (worker.py:164-192, silero.py:42-97, endpointing.py:26-53).
THEOREM AllSpeechIsTaken == EnoughSilence => (Spec => []SpeechIsTaken)
<1>1. Init => Followed
  BY DEF Init, Followed
<1>2. IntakeInv /\ Followed => SpeechIsTaken
  BY InvariantSpeech
<1>3. EnoughSilence /\ IntakeInv /\ Followed /\ [Next]_vars => Followed'
  BY FollowedNext
<1>4. ASSUME EnoughSilence PROVE Spec => []SpeechIsTaken
  <2>1. IntakeInv /\ Followed /\ [Next]_vars => Followed'
    BY <1>3, <1>4
  <2> QED
    BY <1>1, <1>2, <2>1, IntakeInvariant, PTL DEF Spec
<1> QED
  BY <1>4
=============================================================================
