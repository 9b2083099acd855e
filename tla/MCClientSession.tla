-------------------------- MODULE MCClientSession --------------------------
(* Instances of ClientSession for TLC.                                     *)
EXTENDS ClientSession

Talk(policy, append, commit, request, stop) ==
  [policy |-> policy, append |-> append, commit |-> commit,
   request |-> request, stop |-> stop]

\* Two utterances, the second queued behind the first or cutting it short,
\* committed or ended by the VAD; an utterance with a request or an
\* interruption; two requests.
Conversed ==
  {Talk("enqueue", 2, 2, 0, 0), Talk("send_now", 3, 1, 0, 0),
   Talk("send_now", 1, 1, 1, 0), Talk("send_now", 1, 1, 0, 1),
   Talk("send_now", 0, 0, 2, 0), Talk("send_now", 0, 0, 1, 1)}
RecogniserFails == {"stt"}
=============================================================================
