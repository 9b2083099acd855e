------------------------- MODULE ConfiguredSession -------------------------
(***************************************************************************)
(* A session worker with the settings of its session.  Clients change them *)
(* at any time, with session.start, config.update and engine.select, and   *)
(* the work on a turn reads them at several moments: the policy when an    *)
(* utterance is committed, the targets before the router is awaited, the   *)
(* prompt and the tools after it, the voice when the answer is there, and  *)
(* the detector's limits once, with the first audio.  OpenCode keeps one   *)
(* session for the runtime's, with the tools of its first request allowed. *)
(***************************************************************************)
EXTENDS SessionWorker, SessionSettings

CONSTANTS
  EnvEngines,  \* OPEN_VOICE_DEFAULT_LLM_ENGINE: names of engines
  EnvTargets,  \* OPEN_VOICE_ROUTE_TARGETS: names of lists, none, or no list
  Created,     \* settings a session may be created with (over HTTP)
  Updates,     \* configurations a client may send
  Selections,  \* language model engines a client may select
  Metadata,    \* languages and voices a client may name
  MaxUpdates   \* bound: updates of the settings per behaviour

ASSUME SettingsAssumption ==
  /\ {"send_now", "enqueue"} \subseteq Policies
  /\ MaxUpdates \in Nat

VARIABLES
  runtime,    \* ResponsePipeline._config
  settings,   \* SessionState.metadata["runtime_config"]
  selected,   \* SessionState.engine_selection.llm
  metadata,   \* language and voice_id in SessionState.metadata
  detector,   \* whether the endpoint detector is made
  answer,     \* the locals of the work on each turn
  permitted,  \* the tools allowed to the OpenCode session, once it is there
  told,       \* history: the settings sent so far, one after the other
  overtaken,  \* history: turns whose settings changed while they were read
  retooled    \* history: the tools changed since the first request

configVars  == <<runtime, settings, selected, metadata, detector>>
historyVars == <<told, overtaken, retooled>>
allVars == <<vars, configVars, answer, permitted, historyVars>>

NoSession == {"no session"}
NoRequest == [model |-> Absent, llm |-> NoLlmConfig]
NoPrompt  == [mode |-> Absent, text |-> [texts |-> {}, tools |-> {}]]
Silence   == [voice |-> Absent, language |-> Absent]
Blank == [at |-> "waiting", targets |-> <<>>, decision |-> NoDecision,
          request |-> NoRequest, prompt |-> NoPrompt, voice |-> Silence]

ConfiguredInit ==
  /\ Init
  /\ \E engine \in EnvEngines, targets \in EnvTargets, isJson \in BOOLEAN :
       runtime = FromEnv(engine, targets, isJson)
  /\ settings \in {config \in Created : Accepted(config)}
  /\ ~TurnUnreadable(settings)   \* the worker's constructor reads them
  /\ policy = PolicyOf(settings)
  /\ selected \in Selections \cup {Absent}
  /\ metadata \in Metadata
  /\ detector = FALSE
  /\ answer = [t \in Turn |-> Blank]
  /\ permitted = NoSession
  /\ told = <<settings>>
  /\ overtaken = {}
  /\ retooled = FALSE

-----------------------------------------------------------------------------
(* The settings change.                                                    *)

InForce == Effective(runtime, settings)

\* Turns whose settings have been read in part.
Reading == {t \in Turn : answer[t].at \notin {"waiting", "silent"}}
\* A request was made, and with it an OpenCode session, or it will be.
Requested == permitted # NoSession \/ \E t \in Turn : answer[t].at = "asking"

\* History, when the settings, the selection or the metadata change.
Remember ==
  /\ overtaken' = overtaken \cup
       IF <<settings, selected, metadata>>' # <<settings, selected, metadata>>
         THEN Reading ELSE {}
  /\ retooled' = (retooled \/ (Requested /\ InForce'.llm.tools # InForce.llm.tools))

\* The codec refuses what is not accepted; the rest is merged.
Tell(update) ==
  /\ Len(told) <= MaxUpdates
  /\ Accepted(update)
  /\ settings' = Merged(settings, update)
  /\ told' = Append(told, update)
  /\ policy' = PolicyOf(settings')

\* session.start: settings that cannot be read are kept all the same, and the
\* error ends the handler before the session starts.
ReceiveStart(c) ==
  /\ \E e \in Selections \cup {Absent} : selected' = Or(e, selected)
  /\ \E m \in Metadata :
       metadata' = [language |-> IF m.language[1] = Absent
                                   THEN metadata.language ELSE m.language,
                    voice    |-> Or(m.voice, metadata.voice)]
  /\ \/ \E u \in Updates : Tell(u)
     \/ UNCHANGED <<settings, told, policy>>
  /\ StartSession(c)
  /\ status' = IF TurnUnreadable(settings') THEN status ELSE Started(status)
  /\ UNCHANGED <<runtime, detector, answer, permitted>>
  /\ Remember

\* config.update: the error of unreadable settings comes after the merge.
ReceiveConfig(c) ==
  /\ \E u \in Updates : Tell(u)
  /\ UpdateConfig(c)
  /\ UNCHANGED <<runtime, selected, metadata, detector, answer, permitted>>
  /\ Remember

\* engine.select, which is counted with the messages that configure.
SelectEngine(c) ==
  /\ Receives(c, "config")
  /\ selected' \in Selections
  /\ UNCHANGED <<vars, runtime, settings, metadata, detector, answer,
                 permitted, told>>
  /\ Remember

-----------------------------------------------------------------------------
(* The settings are read.                                                  *)

\* The first audio makes the detector, with the limits then in force.  While
\* they cannot be read the audio is buffered, and the error ends the handler.
HearAudio(c) ==
  /\ AppendAudio(c)
  /\ IF ~detector /\ VadUnreadable(settings)
       THEN handler' = handler /\ UNCHANGED detector
       ELSE handler' # handler /\ detector' = TRUE
  /\ UNCHANGED <<runtime, settings, selected, metadata, answer, permitted,
                 historyVars>>

Goes(t, from, record) ==
  /\ answer[t].at = from
  /\ answer' = [answer EXCEPT ![t] = record]

\* route_text: the targets are read, and the router is awaited.
AskRouter(t) ==
  /\ \/ Resumes(t, "routing")
     \/ \E c \in Connection : handler[c].at = "routing" /\ handler[c].input = t
  /\ Goes(t, "waiting", [answer[t] EXCEPT !.at = "routing",
                           !.targets = TargetsFor(InForce, selected)])
  /\ UNCHANGED <<vars, configVars, permitted, historyVars>>

\* The router or the fallback has decided.
RouteDecided(t) ==
  /\ Routed(t) \/ \E c \in Connection : handler[c].input = t /\ ReplyRouted(c)
  /\ \E d \in Decisions(answer[t].targets) :
       Goes(t, "routing", [answer[t] EXCEPT !.at = "routed", !.decision = d])
  /\ UNCHANGED <<configVars, permitted, historyVars>>

\* stream_llm: the request is made of the settings now in force, or there is
\* no engine to make it to.
AskModel(t) ==
  /\ Resumes(t, "responding")
  /\ Goes(t, "routed",
          IF Reachable(answer[t].decision, selected)
            THEN [answer[t] EXCEPT !.at = "asking",
                    !.request = Request(answer[t].decision, InForce)]
            ELSE [answer[t] EXCEPT !.at = "silent"])
  /\ UNCHANGED <<vars, configVars, permitted, historyVars>>

\* create_session, for the first request: the tools allowed are those.
SessionFor(tools) ==
  IF permitted # NoSession THEN permitted ELSE Permissions(OfferedTools(tools))

\* _stream up to the prompt.  Without a model the engine raises, and so it does
\* when the server does not come up or makes no session; stream_llm turns that
\* into an error event.
PromptModel(t) ==
  LET r == answer[t].request IN
  /\ Resumes(t, "responding")
  /\ \/ /\ Goes(t, "asking", [answer[t] EXCEPT !.at = "silent"])
        /\ UNCHANGED permitted
     \/ /\ ~Refuses(r) /\ permitted' = SessionFor(r.llm.tools)
        /\ Goes(t, "asking", [answer[t] EXCEPT !.at = "prompted",
                                !.prompt = Prompt(r.llm)])
  /\ UNCHANGED <<vars, configVars, historyVars>>

\* stream_response: the answer is there, and is spoken.
SpeakAnswer(t) ==
  /\ Resumes(t, "responding")
  /\ Goes(t, "prompted", [answer[t] EXCEPT !.at = "speaking",
                            !.voice = Voice(settings, metadata)])
  /\ UNCHANGED <<vars, configVars, permitted, historyVars>>

\* The answer is spoken, or empty, or there is none.
AnswerOver(t) ==
  /\ answer[t].at \in {"prompted", "speaking", "silent"}
  /\ Responded(t)
  /\ Goes(t, answer[t].at, Blank)
  /\ overtaken' = overtaken \ {t}
  /\ UNCHANGED <<configVars, permitted, told, retooled>>

-----------------------------------------------------------------------------
(* Whatever else the worker does.                                          *)

\* A message of the connection, or a request over HTTP.
ReceiveElsewhere(c) ==
  \/ CommitAudio(c) \/ GenerateReply(c) \/ Say(c) \/ Interrupt(c)
  \/ CloseSession(c) \/ DeleteSession

HandlerElsewhere(c) ==
  \/ AudioPushed(c) \/ ReplyAnnounced(c) \/ SaySpoken(c) \/ SayFailed(c)
  \/ InterruptDone(c) \/ CloseDone(c) \/ CommitDone(c)
  \/ GenerateDone(c) \/ SayDone(c)

TaskElsewhere(t) ==
  \/ TaskStarted(t) \/ Transcribed(t) \/ TranscribedEmpty(t) \/ Reported(t)
  \/ TaskFinished(t) \/ TaskFailed(t) \/ TaskCancelled(t) \/ HandoffDone(t)

\* A task that ends takes its locals along.
Beside ==
  LET Left(t) == stage'[t] \in {"tail", "handoff", "ended"} IN
  /\ answer' = [t \in Turn |-> IF Left(t) THEN Blank ELSE answer[t]]
  /\ overtaken' = {t \in overtaken : ~Left(t)}
  /\ UNCHANGED <<configVars, permitted, told, retooled>>

ConfiguredReceive(c) ==
  \/ ReceiveStart(c) \/ ReceiveConfig(c) \/ SelectEngine(c) \/ HearAudio(c)
  \/ ReceiveElsewhere(c) /\ Beside

ConfiguredHandlerStep(c) == HandlerElsewhere(c) /\ Beside

ConfiguredTaskStep(t) ==
  \/ AskRouter(t) \/ RouteDecided(t) \/ AskModel(t) \/ PromptModel(t)
  \/ SpeakAnswer(t) \/ AnswerOver(t)
  \/ TaskElsewhere(t) /\ Beside

ConfiguredNext ==
  \/ \E c \in Connection : ConfiguredReceive(c) \/ ConfiguredHandlerStep(c)
  \/ \E t \in Turn : ConfiguredTaskStep(t)

ConfiguredSpec == ConfiguredInit /\ [][ConfiguredNext]_allVars

\* As in SessionWorker: coroutines that are ready are resumed, and what they
\* await answers.
ConfiguredFairSpec ==
  /\ ConfiguredSpec
  /\ \A c \in Connection : WF_allVars(ConfiguredHandlerStep(c))
  /\ \A t \in Turn : WF_allVars(ConfiguredTaskStep(t))

-----------------------------------------------------------------------------
(* Properties.                                                             *)

\* The value of a field by the last update that mentions it: a section that
\* is sent as null takes all of its fields away.
Mentioning(s, f) ==
  {k \in DOMAIN told : /\ s \in DOMAIN told[k]
                       /\ f \in DOMAIN told[k][s] \/ ~IsObject(told[k][s])}
LastSaid(s, f) ==
  IF Mentioning(s, f) = {} THEN Absent
  ELSE LET k == CHOOSE k \in Mentioning(s, f) :
                  \A i \in Mentioning(s, f) : i <= k
       IN Field(told[k], s, f)

\* What was sent last about each setting is what holds, however the updates
\* are cut.
LastWordHolds ==
  \A k \in DOMAIN told : \A s \in DOMAIN told[k] : \A f \in DOMAIN told[k][s] :
    f # "null" => Field(settings, s, f) = LastSaid(s, f)

\* An answer during which nothing was sent is routed, asked for and spoken as
\* one configuration of the session says.
Follows(a) ==
  /\ a.targets = TargetsFor(InForce, selected)
  /\ a.at # "routing" => a.decision \in Decisions(a.targets)
  /\ a.at \in {"asking", "prompted", "speaking"} =>
       a.request = Request(a.decision, InForce)
  /\ a.at = "speaking" => a.voice = Voice(settings, metadata)
AnswersFollow == \A t \in Reading \ overtaken : Follows(answer[t])

\* What a client sent last is what its session does, from one answer to the
\* next and never half.
SettingsAreFollowed == LastWordHolds /\ AnswersFollow

\* The model is told of no tool that its OpenCode session is denied, as long
\* as the session's tools stay what they were at its first request.
ToolsAreHonest ==
  ~retooled => \A t \in Turn : answer[t].prompt.text.tools \subseteq permitted
=============================================================================
