--------------------------- MODULE OpencodeEvents ---------------------------
(***************************************************************************)
(* How llm/engines/opencode.py reads the event stream of the OpenCode      *)
(* server: _events with its memory _State, which makes the deltas of a     *)
(* reply out of events that carry sometimes new text and sometimes all the *)
(* text of a part so far, and that may repeat either.                      *)
(*                                                                         *)
(* A text is a sequence of words; Blank is white space the server adds or  *)
(* trims.  A word that is part of another word does not occur.             *)
(***************************************************************************)
EXTENDS Naturals, Sequences, SequencesExt

CONSTANTS
  Message, Part,   \* the messages and message parts of a session
  ReplayMin        \* words a repeated delta has to have to be seen as a replay
                   \* (16 characters in the code)

Blank == 0
None == "none"
NoMessage == <<>>

Words(text) == SelectSeq(text, LAMBDA w : w # Blank)
SameText(left, right) == Words(left) = Words(right)

\* _delta: what a snapshot of a part adds to the text known of it.
Delta(previous, current) ==
  IF SameText(previous, current) \/ IsPrefix(current, previous) THEN <<>>
  ELSE IF IsPrefix(previous, current)
    THEN SubSeq(current, Len(previous) + 1, Len(current))
  ELSE current

\* _is_probable_replayed_full_delta
Replayed(previous, delta) ==
  previous # <<>> /\ Len(delta) >= ReplayMin /\ SameText(previous, delta)

\* The memory of one stream.
NewState == [roles |-> [m \in Message |-> None],
             owner |-> [p \in Part |-> NoMessage],
             kinds |-> [p \in Part |-> None],
             texts |-> [p \in Part |-> <<>>]]

MessageOf(st, ev) == IF ev.msg # NoMessage THEN ev.msg ELSE st.owner[ev.part]
FromUser(st, ev) ==
  LET m == MessageOf(st, ev) IN m # NoMessage /\ st.roles[m] = "user"

TextItems(kind, part, text) ==
  IF text = <<>> THEN <<>>
  ELSE <<[kind |-> IF kind = "reasoning" THEN "reasoning" ELSE "response",
          part |-> part, text |-> text]>>

\* Each reading of an event gives the memory after it and the LLM events it
\* is worth, in order.
MessageUpdated(st, ev) ==
  [st |-> [st EXCEPT !.roles[ev.msg] = ev.role], items |-> <<>>]

\* _text_update: a snapshot of a text, told by what is new in it.
TextUpdate(st, ev) ==
  [st |-> [st EXCEPT !.texts[ev.part] = ev.text],
   items |-> TextItems(ev.kind, ev.part, Delta(st.texts[ev.part], ev.text))]

ToolUpdate(ev) == [kind |-> "tool", part |-> ev.part, status |-> ev.status]
\* _tool_update_if_present: the tool a step names, if it names one.
ToolIfPresent(ev, fallback) ==
  IF ~ev.named THEN <<>>
  ELSE <<[ToolUpdate(ev) EXCEPT !.status = IF @ = None THEN fallback ELSE @]>>
UsageUpdate == [kind |-> "usage"]

\* message.part.updated
PartUpdated(st, ev) ==
  LET owned == IF ev.msg = NoMessage THEN st
               ELSE [st EXCEPT !.owner[ev.part] = ev.msg]
      kinded == [owned EXCEPT !.kinds[ev.part] = ev.kind]
  IN CASE FromUser(owned, ev) -> [st |-> owned, items |-> <<>>]
       [] ~FromUser(owned, ev) /\ ev.kind \in {"text", "reasoning"} ->
            TextUpdate(kinded, ev)
       [] ~FromUser(owned, ev) /\ ev.kind = "tool" ->
            [st |-> kinded, items |-> <<ToolUpdate(ev)>>]
       [] ~FromUser(owned, ev) /\ ev.kind = "step-start" ->
            [st |-> kinded, items |-> ToolIfPresent(ev, "running")]
       [] ~FromUser(owned, ev) /\ ev.kind = "step-finish" ->
            [st |-> kinded, items |-> Append(ToolIfPresent(ev, "completed"), UsageUpdate)]

\* Faulty variant: the text told is not remembered.
AddText_Forgets(st, part, delta) == st

AddText(st, part, delta) == [st EXCEPT !.texts[part] = @ \o delta]

\* message.part.delta
PartDelta(st, ev) ==
  LET owned == IF ev.msg = NoMessage \/ st.owner[ev.part] # NoMessage THEN st
               ELSE [st EXCEPT !.owner[ev.part] = ev.msg]
  IN IF FromUser(st, ev) THEN [st |-> st, items |-> <<>>]
     ELSE IF Replayed(st.texts[ev.part], ev.text)
       THEN [st |-> owned, items |-> <<>>]
     ELSE [st |-> AddText(owned, ev.part, ev.text),
           items |-> TextItems(st.kinds[ev.part], ev.part, ev.text)]

\* _events
Events(st, ev) == CASE ev.type = "message" -> MessageUpdated(st, ev)
                    [] ev.type = "part"    -> PartUpdated(st, ev)
                    [] ev.type = "delta"   -> PartDelta(st, ev)
                    [] OTHER               -> [st |-> st, items |-> <<>>]
=============================================================================
