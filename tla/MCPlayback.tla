----------------------------- MODULE MCPlayback -----------------------------
(***************************************************************************)
(* Finite instances of Playback for TLC.                                   *)
(***************************************************************************)
EXTENDS Playback

SpeakOnly == {"utterance"}
SpeakAndSay == {"utterance", "say"}
AllRequests == Request
=============================================================================
