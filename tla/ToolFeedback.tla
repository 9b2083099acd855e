---------------------------- MODULE ToolFeedback ----------------------------
(***************************************************************************)
(* What the worker says aloud about the tools a reply uses                 *)
(* (SessionWorker._tool_progress_speech_hint): a search is announced once  *)
(* when the first search starts and once when all are over; any other tool *)
(* is announced at each of its changes.  A change of one call is announced *)
(* once in ten seconds.                                                    *)
(***************************************************************************)
EXTENDS Naturals

CONSTANTS
  Call,         \* the tool calls of a reply
  SearchCall    \* those of them whose tool name contains "search" or "web"

\* The status of a tool update, as the three groups the code makes of them;
\* "unknown" stands for every other text and for no status.
Status == {"running", "completed", "error", "unknown"}
Bucket(status) == CASE status = "running"   -> "start"
                    [] status = "completed" -> "end"
                    [] status = "error"     -> "error"
                    [] OTHER                -> "none"

Silence == "none"
Hints == {Silence, "checking", "finished", "start", "end", "error"}

Feedback == [announced : SUBSET (Call \X {"start", "end", "error"}),
             searches : [SearchCall -> {"unseen", "start", "end", "error"}],
             startSaid : BOOLEAN, endSaid : BOOLEAN]

\* _reset_tool_feedback_state
NoFeedback == [announced |-> {}, searches |-> [c \in SearchCall |-> "unseen"],
               startSaid |-> FALSE, endSaid |-> FALSE]

\* Faulty variant: any for all.
AllTerminal_Any(searches) == \E c \in SearchCall : searches[c] \in {"end", "error"}

AllTerminal(searches) == \A c \in SearchCall : searches[c] # "start"

SearchHint(fb, bucket) ==
  CASE bucket = "start" /\ ~fb.startSaid ->
         [fb |-> [fb EXCEPT !.startSaid = TRUE, !.endSaid = FALSE],
          say |-> "checking"]
    [] /\ bucket # "start" /\ fb.startSaid /\ ~fb.endSaid
       /\ AllTerminal(fb.searches) ->
         [fb |-> [fb EXCEPT !.endSaid = TRUE], say |-> "finished"]
    [] OTHER -> [fb |-> fb, say |-> Silence]

\* _tool_progress_speech_hint: the memory after the update of a call, and what
\* is said about it.
Hint(fb, call, status) ==
  LET bucket == Bucket(status)
      noted == [fb EXCEPT !.announced = @ \cup {<<call, bucket>>}]
  IN IF bucket = "none" \/ <<call, bucket>> \in fb.announced
       THEN [fb |-> fb, say |-> Silence]
     ELSE IF call \in SearchCall
       THEN SearchHint([noted EXCEPT !.searches[call] = bucket], bucket)
     ELSE [fb |-> noted, say |-> bucket]

\* More than ten seconds after it was announced, a change is forgotten.
Forgotten(fb, key) == [fb EXCEPT !.announced = @ \ {key}]
=============================================================================
