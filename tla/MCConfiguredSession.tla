------------------------ MODULE MCConfiguredSession ------------------------
(***************************************************************************)
(* A finite instance of ConfiguredSession for TLC: one connection that     *)
(* speaks and changes the settings of a session that queues its turns.     *)
(***************************************************************************)
EXTENDS ConfiguredSession

CONSTANT c1

OneConnection == {c1}
AnyPolicy     == {"send_now", "enqueue"}
NoEngineFails == {}
StartFirst    == {"start"}
Configuring   == {"start", "append", "commit", "config"}

Lookup == [none |-> {}, lookup |-> {"lookup"}]
TwoProfiles == [two |-> <<[profile |-> "moderate_route", engine |-> "other",
                           model |-> "large"],
                          [profile |-> "simple_route", engine |-> Absent,
                           model |-> Absent]>>]
Installed == {"opencode"}

OnlyOpencode == {"opencode"}
NoList == {Absent, "wrong"}

Queueing == [turn_queue |-> [policy |-> "enqueue"]]
CreatedSettings == {Queueing}

Tutor    == [llm |-> [system_prompt |-> "tutor", tools |-> "lookup"],
             turn_detection |-> [min_silence_duration_ms |-> "400"]]
Rerouted == [route_targets |-> [value |-> "two"], tts |-> [voice_id |-> "ff"]]
Reset    == [llm |-> Null, turn_detection |-> Null]
Unknown  == [llm |-> [tools |-> "of unknown kind"]]
Forced   == [llm |-> [opencode_force_system_override |-> "true"]]
Refused  == [llm |-> [system_prompt |-> "wrong"]]
ClientUpdates == {Tutor, Rerouted, Reset, Unknown, Forced, Refused}

SomeEngines == {"other"}
NoLanguage == {[language |-> <<Absent, Absent>>, voice |-> Absent]}
=============================================================================
