------------------------------ MODULE MCEngines ------------------------------
(* Small instances of the engines for TLC.                                 *)
EXTENDS Engines

CONSTANTS s1, s2

TwoSessions == {s1, s2}
AllOrNoRouter == {{"stt", "router", "tts"}, {"stt", "tts"}}
TheRouter == {"router"}
=============================================================================
