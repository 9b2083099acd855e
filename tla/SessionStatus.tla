--------------------------- MODULE SessionStatus ---------------------------
(***************************************************************************)
(* The session status machine of the runtime: the table of allowed moves   *)
(* (session/state_machine.py) and the two ways the program uses it.  A     *)
(* caller that goes through SessionWorker._transition_session asks first   *)
(* and silently stays where it is when the table says no; a caller that    *)
(* goes through transition_session directly gets an error.                 *)
(***************************************************************************)

Status == {"created", "loading", "ready", "listening", "transcribing",
           "thinking", "speaking", "interrupted", "closed", "failed"}

\* ALLOWED_SESSION_TRANSITIONS.
Allowed ==
  [s \in Status |->
     CASE s = "created"      -> {"loading", "closed", "failed"}
       [] s = "loading"      -> {"ready", "failed", "closed"}
       [] s = "ready"        -> {"listening", "transcribing", "thinking",
                                 "closed", "failed"}
       [] s = "listening"    -> {"transcribing", "thinking", "interrupted",
                                 "closed", "failed"}
       [] s = "transcribing" -> {"listening", "thinking", "interrupted",
                                 "closed", "failed"}
       [] s = "thinking"     -> {"listening", "speaking", "interrupted",
                                 "closed", "failed"}
       [] s = "speaking"     -> {"listening", "interrupted", "closed",
                                 "failed"}
       [] s = "interrupted"  -> {"listening", "thinking", "closed", "failed"}
       [] s = "closed"       -> {}
       [] s = "failed"       -> {"closed"}]

CanTransition(s, target) == target \in Allowed[s]

\* SessionWorker._transition_session: move if the table allows it, else stay.
Move(s, target) == IF CanTransition(s, target) THEN target ELSE s

\* The three attempts of _start_session, in their order.
Started(s) == Move(Move(Move(s, "loading"), "ready"), "listening")

\* Faulty variant: only speech is taken to be interruptible.
Recovered_OnlySpeech(s) ==
  IF s = "speaking" THEN Move(Move(s, "interrupted"), "listening") ELSE s

\* The two attempts at the end of _interrupt, in their order.
Recovered(s) == Move(Move(s, "interrupted"), "listening")

\* The statuses that tell the client that a turn is being worked on.
Busy == {"transcribing", "thinking", "speaking"}
=============================================================================
