------------------------------ MODULE Microphone ------------------------------
(***************************************************************************)
(* The browser's side of the audio: connectSession (web-sdk/src/client.ts),*)
(* which makes a session, opens its socket and attaches the microphone;    *)
(* BrowserMicInput (audio/browser_mic_input.ts), whose start and stop the  *)
(* application may also call itself; and the close of the session.         *)
(*                                                                         *)
(* A start is numbered by the captureToken it takes.  The fields stream,   *)
(* ctx, source, processor and analyser are set and cleared together, so    *)
(* that they hold one capture; what they held before is out of reach.      *)
(***************************************************************************)
EXTENDS Naturals, Sequences

CONSTANTS
  Socket, Browser,  \* connections to one session; that of this client
  FramesPerChunk,   \* VAD frames in a chunk of microphone audio
  InFlight,         \* bound: messages of a client under way
  Scenarios         \* bound: how often each thing happens

Calls == [starts : Nat,    \* calls of start by the application
          stops : Nat,     \* and of stop
         closes : Nat,    \* and of close
          chunks : Nat,    \* chunks of audio, of all clients
          commits : Nat,   \* explicit commits, of all clients
          faults : Nat,    \* malformed messages
          sockets : SUBSET Socket, \* the clients that connect
          vad : BOOLEAN]   \* is a VAD engine available?

ASSUME MicrophoneAssumption ==
  /\ Browser \in Socket /\ Scenarios \subseteq Calls
  /\ {FramesPerChunk, InFlight} \subseteq Nat \ {0}

VARIABLES
  running, captureToken,
  held,       \* the capture the fields hold, 0 when they are null
  asking,     \* starts that await getUserMedia
  live,       \* captures whose device is open
  stopping,   \* stops that await the close of the context
  stage,      \* where connectSession is, or what became of the session
  closer,     \* the stop session.close awaits
  up,         \* messages on their way to the runtime
  left,       \* the scenario, what of it is to come
  overlapped  \* history: a start or a stop came in the middle of another

fields == <<running, captureToken, held, asking, live, stopping>>
clientVars == <<fields, stage, closer, overlapped>>

Frame == {"speech", "quiet"}
Message(type) == [type |-> type, frames |-> <<>>, fault |-> "none"]
Chunk(frames) == [Message("AudioAppend") EXCEPT !.frames = frames]

MicrophoneInit ==
  /\ running = FALSE /\ captureToken = 0 /\ held = 0 /\ asking = {}
  /\ live = {} /\ stopping = {}
  /\ stage = "engines" /\ closer = 0
  /\ up = [c \in Socket |-> <<>>]
  /\ left \in Scenarios
  /\ overlapped = FALSE

May(call) == left[call] > 0 /\ left' = [left EXCEPT ![call] = @ - 1]
Says(c, message) == up' = [up EXCEPT ![c] = Append(@, message)]
MaySay(c) == Len(up[c]) < InFlight

-----------------------------------------------------------------------------
(* BrowserMicInput.                                                        *)

\* start, up to its await
Start ==
  /\ captureToken' = captureToken + 1 /\ running' = TRUE
  /\ asking' = asking \cup {captureToken + 1}
  /\ overlapped' = (overlapped \/ asking # {} \/ stopping # {} \/ held # 0)
  /\ UNCHANGED <<held, live, stopping>>

\* Faulty variant: the nodes are cut off, the device stays on.
Stopped_Disconnected == live

\* The devices open after the tracks of the held stream are stopped.
Stopped == live \ {held}

\* ctx.close() of a context that is closed already: stop is rejected.
StopRejected == held # 0 /\ held \notin live

\* stop, up to its await
Stop ==
  /\ running' = FALSE /\ captureToken' = captureToken + 1
  /\ live' = Stopped
  /\ stopping' = IF StopRejected THEN stopping ELSE stopping \cup {captureToken + 1}
  /\ overlapped' = (overlapped \/ asking # {})
  /\ UNCHANGED <<held, asking>>

\* The context is closed; the fields are cleared, whatever they hold by now.
\* session.close goes on: its last message, and the socket is closed.
StopEnds ==
  \E k \in stopping :
    /\ stopping' = stopping \ {k} /\ held' = 0
    /\ IF k = closer
         THEN stage' = "closed" /\ Says(Browser, Message("SessionClose"))
         ELSE UNCHANGED <<stage, up>>
    /\ UNCHANGED <<running, captureToken, asking, live, closer, overlapped, left>>

\* The person allows the microphone; the session is ready if it waited for it.
Granted ==
  \E k \in asking :
    /\ asking' = asking \ {k} /\ held' = k /\ live' = live \cup {k}
    /\ stage' = IF stage = "attaching" THEN "ready" ELSE stage
    /\ UNCHANGED <<running, captureToken, stopping, closer, up, overlapped, left>>

\* Or does not: start rejects, and connectSession with it, the socket open.
Refused ==
  \E k \in asking :
    /\ asking' = asking \ {k}
    /\ stage' = IF stage = "attaching" THEN "failed" ELSE stage
    /\ UNCHANGED <<running, captureToken, held, live, stopping, closer, up,
                   overlapped, left>>

\* onaudioprocess and session.sendAudio
Speak ==
  /\ \E k \in live : running /\ k = captureToken
  /\ May("chunks") /\ MaySay(Browser)
  /\ \E frames \in [1..FramesPerChunk -> Frame] : Says(Browser, Chunk(frames))
  /\ UNCHANGED clientVars

-----------------------------------------------------------------------------
(* connectSession, and the application.                                    *)

\* listEngines and ensureRealtimeAudioEnginesReady; createSession or getSession
RequestOk ==
  \/ stage = "engines" /\ stage' = "session"
  \/ stage = "session" /\ stage' = "socket"
Connecting ==
  /\ Browser \in left.sockets
  /\ RequestOk
  /\ UNCHANGED <<fields, closer, up, overlapped, left>>

\* A request or the socket fails, or the engines are not there.
ConnectFails ==
  /\ Browser \in left.sockets
  /\ stage \in {"engines", "session", "socket"} /\ stage' = "failed"
  /\ UNCHANGED <<fields, closer, up, overlapped, left>>

\* The socket is open: session.start is sent, then the input is attached.
Attach ==
  /\ Browser \in left.sockets
  /\ stage = "socket" /\ stage' = "attaching"
  /\ Says(Browser, Message("SessionStart"))
  /\ Start
  /\ UNCHANGED <<closer, left>>

\* The application switches the microphone on or off by itself.
SwitchOn ==
  /\ stage = "ready" /\ May("starts") /\ Start
  /\ UNCHANGED <<stage, closer, up>>
SwitchOff ==
  /\ stage \in {"attaching", "ready"} /\ May("stops") /\ Stop
  /\ UNCHANGED <<stage, closer, up>>

\* session.close: a rejected stop rejects it, and the session stays open.
Close ==
  /\ stage = "ready" /\ May("closes") /\ Stop
  /\ IF StopRejected THEN UNCHANGED <<stage, closer>>
     ELSE stage' = "closing" /\ closer' = captureToken + 1
  /\ UNCHANGED up

MicrophoneNext ==
  \/ Connecting \/ ConnectFails \/ Attach \/ Close
  \/ SwitchOn \/ SwitchOff \/ Granted \/ Refused \/ StopEnds \/ Speak

-----------------------------------------------------------------------------
MicrophoneTypeOK ==
  /\ running \in BOOLEAN /\ captureToken \in Nat /\ held \in 0..captureToken
  /\ asking \cup live \cup stopping \subseteq 1..captureToken
  /\ stage \in {"engines", "session", "socket", "attaching", "ready",
                "closing", "closed", "failed"}
  /\ left \in Calls

\* When the microphone was last switched off, or the session closed, and every
\* call has returned, no device is open, whatever was refused or stopped twice
\* before (browser_mic_input.ts:106-201).  Excepted are calls in the middle of
\* others: a stop while the person is still asked does not reach the device
\* that is then granted, and a stop clears the fields of a start that came
\* while it closed the context.
MicrophoneIsReleased ==
  (~running /\ asking = {} /\ stopping = {} /\ ~overlapped) => live = {}
=============================================================================
