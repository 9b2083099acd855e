---------------------------- MODULE MCSpeechIntake ----------------------------
(* Instances of SpeechIntake for TLC.                                      *)
EXTENDS SpeechIntake

CONSTANTS tab, other, third

Sockets == {tab, other, third}

None == [starts |-> 0, stops |-> 0, closes |-> 0, chunks |-> 0, commits |-> 0,
         faults |-> 0, sockets |-> {}, vad |-> TRUE]

\* The microphone, allowed or refused, switched on and off and closed twice; one
\* client that speaks and commits; two that speak at the same time, so that
\* both may bring the detector into being; two of which one errs, or
\* closes the session under the other; the same without a VAD.
Spoken ==
  {[None EXCEPT !.sockets = {tab}, !.starts = 2, !.stops = 2, !.closes = 2, !.chunks = 1],
   [None EXCEPT !.sockets = {other}, !.chunks = 5, !.commits = 1],
   [None EXCEPT !.sockets = {tab, other}, !.chunks = 2, !.commits = 1],
   [None EXCEPT !.sockets = {other, third}, !.chunks = 4],
   [None EXCEPT !.sockets = {other, third}, !.chunks = 3, !.commits = 1],
   [None EXCEPT !.sockets = {other, third}, !.chunks = 2, !.faults = 1],
   [None EXCEPT !.sockets = {other, third}, !.chunks = 3, !.closes = 1],
   [None EXCEPT !.sockets = {other}, !.chunks = 2, !.commits = 2, !.faults = 1,
                !.vad = FALSE]}
=============================================================================
