-------------------------- MODULE MCSessionWorker --------------------------
(***************************************************************************)
(* Finite instances of SessionWorker for TLC.                              *)
(***************************************************************************)
EXTENDS SessionWorker

CONSTANTS c1, c2

OneConnection  == {c1}
TwoConnections == {c1, c2}
SendNow == {"send_now"}
AnyPolicy == {"send_now", "enqueue"}
EnginesRaise == {"stt", "tts"}
=============================================================================
