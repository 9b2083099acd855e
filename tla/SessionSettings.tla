-------------------------- MODULE SessionSettings --------------------------
(***************************************************************************)
(* What a session may be configured to do, and what the configuration      *)
(* comes to: how updates are merged, which of them are refused, how the    *)
(* runtime's defaults are completed by them, and what route, prompt, tools *)
(* and voice an answer gets out of it.                                     *)
(*                                                                         *)
(* A configuration is a function from sections to their fields, and these  *)
(* to values.  A value is a name: of a text, an engine, a list of tools or *)
(* of targets.  Only its kind matters otherwise: "null" is JSON's null,    *)
(* "wrong" a value of another type than the field's.  A section that is no *)
(* object (route_targets, default_llm_engine_id) has one field, "value".   *)
(***************************************************************************)
EXTENDS Naturals, Sequences

CONSTANTS
  ToolLists,     \* the lists of tools a client may send: sets of tool names
  TargetLists,   \* the lists of targets a client may send: sequences
  Registered     \* the language model engines that are installed

Absent == ""         \* a field that is not there, Python's None
Null   == [null |-> "null"]
IsObject(body) == DOMAIN body # {"null"}

Field(config, section, field) ==
  IF section \in DOMAIN config /\ field \in DOMAIN config[section]
    THEN config[section][field] ELSE Absent

Or(value, default) ==
  IF value \in {Absent, "null", "wrong"} THEN default ELSE value

-----------------------------------------------------------------------------
(* Keeping the settings.                                                   *)

\* The fields of a section have the types they should have, or are null.
FieldsFit(body) == \A f \in DOMAIN body : body[f] # "wrong"
\* normalize_runtime_config_payload raises nothing.  Two groups of fields are
\* not looked at.
Endpointing ==
  {"endpointing_mode", "endpointing_min_delay", "endpointing_max_delay"}
Accepted(config) ==
  \A s \in DOMAIN config \ {"tts"} :
    FieldsFit([f \in DOMAIN config[s] \ Endpointing |-> config[s][f]])

\* Faulty variant: a section is replaced as a whole.
Merged_Flat(config, update) ==
  [s \in DOMAIN config \cup DOMAIN update |->
     IF s \in DOMAIN update THEN update[s] ELSE config[s]]
\* merge_nested_mapping: objects are merged field by field, and everything
\* else is replaced.
Merged(config, update) ==
  [s \in DOMAIN config \cup DOMAIN update |->
     IF s \notin DOMAIN update THEN config[s]
     ELSE IF s \in DOMAIN config /\ IsObject(config[s]) /\ IsObject(update[s])
       THEN [f \in DOMAIN config[s] \cup DOMAIN update[s] |->
               IF f \in DOMAIN update[s] THEN update[s][f] ELSE config[s][f]]
       ELSE update[s]]

\* Some of the values int() and float() would be called with are none.
Unreadable(config, fields) ==
  \/ "turn_detection" \in DOMAIN config /\ ~IsObject(config["turn_detection"])
  \/ \E f \in fields : Field(config, "turn_detection", f) \in {"null", "wrong"}

\* _turn_detection_config and vad_config, where they raise.
TurnUnreadable(config) ==
  Unreadable(config, {"min_silence_duration_ms", "endpointing_min_delay",
                      "endpointing_max_delay"})
VadUnreadable(config) ==
  Unreadable(config, {"min_silence_duration_ms", "min_speech_duration_ms",
                      "activation_threshold", "vad_chunk_size"})

\* _turn_queue_policy, for any value a client may have sent.
PolicyOf(config) ==
  IF Field(config, "turn_queue", "policy") = "enqueue" THEN "enqueue"
  ELSE "send_now"

-----------------------------------------------------------------------------
(* The runtime's configuration, completed by the session's.                *)

Redirected(targets, engine) ==
  [i \in DOMAIN targets |-> [targets[i] EXCEPT !.engine = engine]]

\* default_route_targets: the same model behind every profile.
Profiles == <<"trivial_route", "simple_route", "moderate_route",
              "complex_route", "expert_route">>
DefaultTargets(engine) ==
  [i \in 1..5 |-> [profile |-> Profiles[i], engine |-> engine,
                   model |-> "gpt-5.4-mini"]]

NoLlmConfig == [prompt |-> Absent, instructions |-> Absent, tools |-> {},
                mode |-> Absent, force |-> FALSE]
Defaults == [engine |-> "opencode", targets |-> DefaultTargets("opencode"),
             llm |-> NoLlmConfig]

\* A list with a tool of a kind that does not exist.
UnknownTools(config) == Field(config, "llm", "tools") = "of unknown kind"
\* from_mapping raises a TypeError: for a field of the wrong type, a null
\* where there has to be a value, or a tool of an unknown kind.
Unusable(config) ==
  \/ ~Accepted(config)
  \/ \E s \in {"default_llm_engine_id", "route_targets"} :
       s \in DOMAIN config /\ ~IsObject(config[s])
  \/ UnknownTools(config)

GivenTargets(name, engine) ==
  [i \in DOMAIN TargetLists[name] |->
     LET t == TargetLists[name][i] IN
     [t EXCEPT !.engine = Or(t.engine, engine)]]

\* llm_session_config_from_payload
LlmConfig(base, config) ==
  LET Text(field, default) == Or(Field(config, "llm", field), default)
      tools == Field(config, "llm", "tools")
      force == Field(config, "llm", "opencode_force_system_override")
  IN [prompt       |-> Text("system_prompt", base.prompt),
      instructions |-> Text("additional_instructions", base.instructions),
      tools        |-> IF Or(tools, Absent) = Absent THEN base.tools
                       ELSE ToolLists[tools],
      mode         |-> Text("opencode_mode", base.mode),
      force        |-> IF force = Absent THEN base.force ELSE force = "true"]

FromMapping(base, config) ==
  LET engine == Or(Field(config, "default_llm_engine_id", "value"), base.engine)
      given  == Field(config, "route_targets", "value")
  IN [engine  |-> engine,
      targets |-> IF given # Absent THEN GivenTargets(given, engine)
                  ELSE IF engine # base.engine
                    THEN Redirected(base.targets, engine)
                  ELSE base.targets,
      llm     |-> LlmConfig(base.llm, config)]

\* RuntimeConfig.from_env, with what the environment names and whether its
\* targets are JSON.
FromEnv(engine, targets, isJson) ==
  LET named == [default_llm_engine_id |-> [value |-> engine]]
      payload == IF targets = Absent THEN named
                 ELSE Merged(named, [route_targets |-> [value |-> targets]])
  IN IF (targets = Absent \/ isJson) /\ ~Unusable(payload)
       THEN FromMapping(Defaults, payload)
     ELSE [Defaults EXCEPT !.engine = engine,
                           !.targets = DefaultTargets(engine)]

\* _effective_runtime_config: one unusable value, and all of it is ignored.
Effective(base, config) ==
  IF Unusable(config) THEN base ELSE FromMapping(base, config)

\* effective_route_targets
TargetsFor(runtime, selected) ==
  IF Or(selected, runtime.engine) = runtime.engine THEN runtime.targets
  ELSE Redirected(runtime.targets, selected)

-----------------------------------------------------------------------------
(* Routing: the router names a profile, or it fails.                       *)

NoDecision == [engine |-> Absent, model |-> "no decision"]
Decision(target) == [engine |-> target.engine, model |-> target.model]

\* select_route_target: the first target of the profile, as a set.
Matching(profile, targets) ==
  {targets[i] : i \in {j \in DOMAIN targets :
     /\ targets[j].profile = profile
     /\ \A k \in 1..j - 1 : targets[k].profile # profile}}

\* _fallback_target and _fallback_decision
Fallbacks(targets) ==
  LET moderate == Matching("moderate_route", targets) IN
  IF targets = <<>> THEN {NoDecision}
  ELSE IF moderate # {} THEN {Decision(t) : t \in moderate}
  ELSE {Decision(targets[1])}

\* What the router's model may name: a profile it was shown or any other, and
\* what cannot be parsed is read as the moderate one.
Named == {Profiles[i] : i \in DOMAIN Profiles} \cup {"another"}

\* ArchRouterEngine.route: a profile without a target has no engine and no
\* model.
RouterDecisions(targets) ==
  UNION {LET found == Matching(p, targets) IN
         IF found # {} THEN {Decision(t) : t \in found}
         ELSE {[engine |-> Absent, model |-> Absent]} : p \in Named}

\* route_text
Decisions(targets) == Fallbacks(targets) \cup RouterDecisions(targets)

-----------------------------------------------------------------------------
(* The request to the language model, and what OpenCode makes of it.       *)

\* EngineRegistry.has, and has_default without a name.
Available(engine) ==
  IF engine = Absent THEN Registered # {} ELSE engine \in Registered

\* There is a decision, and the engine stream_llm turns to is there.
Reachable(decision, selected) ==
  decision # NoDecision /\ Available(Or(decision.engine, selected))

Request(decision, runtime) == [model |-> decision.model, llm |-> runtime.llm]

\* _model raises: there is a provider without a model, or neither.
Refuses(request) == request.model = Absent

DefaultTools == {"websearch", "webfetch"}
\* _tools
OfferedTools(tools) == DefaultTools \cup tools
\* Faulty variant: the tools every session has are not allowed.
Permissions_Given(tools) == tools \ DefaultTools
\* _permissions: everything else is denied.
Permissions(tools) == tools

\* build_open_voice_system_prompt: the texts in the prompt, and the tools they
\* name.
BaseText == "You are Open Voice"
SystemPrompt(prompt, instructions, tools) ==
  [texts |-> {BaseText, prompt, instructions} \ {Absent}, tools |-> tools]

\* _prompt, with the tools it names a second time.
PromptText(llm) ==
  IF llm.force /\ llm.prompt # Absent
    THEN [texts |-> {llm.prompt}, tools |-> {}]
  ELSE [SystemPrompt(llm.prompt, llm.instructions, OfferedTools(llm.tools))
          EXCEPT !.texts = @ \cup {"Tool Constraints"}]

\* prompt_async, with _mode_from_request
Prompt(llm) == [mode |-> llm.mode, text |-> PromptText(llm)]

-----------------------------------------------------------------------------
(* The voice of the answer.                                                *)

\* A voice is named by its prefix, "af" for af_bella, and a language tag is
\* the pair of its parts.
VoiceLanguage ==
  [af |-> "en-us", am |-> "en-us", bf |-> "en-gb", bm |-> "en-gb",
   ef |-> "es", em |-> "es", ff |-> "fr-fr", hf |-> "hi", hm |-> "hi",
   if |-> "it", im |-> "it", jf |-> "ja", jm |-> "ja",
   pf |-> "pt-br", pm |-> "pt-br", zf |-> "cmn", zm |-> "cmn"]
BaseLanguage ==
  [en |-> "en-us", es |-> "es", fr |-> "fr-fr", hi |-> "hi", it |-> "it",
   ja |-> "ja", pt |-> "pt-br", zh |-> "cmn", cmn |-> "cmn"]

\* _resolve_synthesis_language: the whole tag, its first part, the voice.  Only
\* one tag means another language than its first part.
SynthesisLanguage(tag, voice) ==
  IF tag = <<"en", "gb">> THEN "en-gb"
  ELSE IF tag[1] \in DOMAIN BaseLanguage THEN BaseLanguage[tag[1]]
  ELSE IF voice \in DOMAIN VoiceLanguage THEN VoiceLanguage[voice]
  ELSE "en-us"

\* _tts_voice_id
AskedVoice(config, metadata) ==
  Or(Field(config, "tts", "voice_id"), metadata.voice)

\* The Kokoro client's _resolve_request.
Voice(config, metadata) ==
  LET voice == Or(AskedVoice(config, metadata), "af") IN
  [voice |-> voice, language |-> SynthesisLanguage(metadata.language, voice)]
=============================================================================
