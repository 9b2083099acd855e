--------------------------- MODULE OpencodeStream ---------------------------
(***************************************************************************)
(* The replies of the OpenCode server to the turns of one voice session:   *)
(* OpencodeLlmEngine._stream and its listener task (llm/engines/           *)
(* opencode.py), the HTTP client under them (integrations/opencode/        *)
(* client.py), the consumer ResponsePipeline.stream_llm with the worker's  *)
(* tool feedback, and the server, which answers the prompts of a session   *)
(* one after the other and sends its events to whoever listens.            *)
(*                                                                         *)
(* A stream runs on the worker's task, its listener on a task of its own;  *)
(* they share a queue and the event `ready`.  The worker may cancel the    *)
(* stream at any await; nothing tells the server.                          *)
(***************************************************************************)
EXTENDS Naturals, Sequences, SequencesExt

CONSTANTS
  MaxTurns,     \* bound: turns of the session
  Pieces,       \* bound: words of a reply
  Call, SearchCall,
  ReplayMin,
  WireMax, QueueMax, \* bounds: events between the server and a listener,
                \* items the stream has not taken yet
  Extras,       \* bound: repeated and foreign events, steps that tell of something
  Thinking, Tooling, \* bounds: the turns whose reply reasons, or uses tools
  MayFail, MayCancel

ASSUME StreamAssumption ==
  /\ {MaxTurns, Pieces, WireMax, QueueMax, Extras} \subseteq Nat
  /\ {MayFail, MayCancel} \subseteq BOOLEAN
  /\ SearchCall \subseteq Call

Turn == 1..MaxTurns
Message == Turn \X {"user", "assistant"}
Part == Turn \X ({"said", "text", "thought", "step"} \cup Call)

INSTANCE OpencodeEvents
INSTANCE ToolFeedback

VARIABLES
  session,   \* is the OpenCode session of this voice session known (_sessions)
  turn,      \* the turn whose stream is the current one, 0 before the first
  pc,        \* where _stream is
  due,       \* what it holds and yields next
  then,      \* where it goes on after the consumer has taken all of that
  listener,  \* the listener task
  ready,     \* the event it sets once it hears the server, or never will
  queue,     \* what it hands over
  st,        \* its memory
  out,       \* what the stream has yielded
  started,   \* has it yielded GENERATING
  quiet,     \* was the server through with earlier turns when it began
  cut,       \* did the event stream end although nothing failed
  feedback, hints,           \* the worker's memory of tools, what it said
  posts, asked, answer, wire, \* the server: prompts under way and accepted,
                             \* the answers so far, events on their way
  extras

engine == <<session, turn, pc, due, then, started, quiet>>
task   == <<listener, ready, queue, st, cut>>
worker == <<feedback, hints>>
server == <<posts, asked, answer, extras>>
vars   == <<engine, task, worker, server, out, wire>>

NoAnswer == [stage |-> "none", text |-> <<>>, thought |-> <<>>,
             tools |-> [c \in Call |-> "none"]]

Init ==
  /\ session = FALSE /\ turn = 0 /\ pc = "off" /\ due = <<>> /\ then = "off"
  /\ listener = "none" /\ ready = FALSE /\ queue = <<>> /\ st = NewState
  /\ out = <<>> /\ started = FALSE /\ quiet = TRUE /\ cut = FALSE
  /\ feedback = NoFeedback /\ hints = <<>>
  /\ posts = <<>> /\ asked = <<>> /\ answer = [t \in Turn |-> NoAnswer]
  /\ wire = <<>> /\ extras = 0

Over == {"off", "done", "failed", "cancelled"}
Underway == pc \notin Over

Phase(name) == [kind |-> "phase", phase |-> name]
Fault == [kind |-> "fault"]
End == [kind |-> "end"]

-----------------------------------------------------------------------------
(* _stream.                                                                *)

\* What ends a stream early closes it: stop is set and the listener cancelled.
Closed(outcome) ==
  /\ pc' = outcome /\ due' = <<>>
  /\ listener' = "none" /\ wire' = <<>> /\ queue' = <<>>
  /\ UNCHANGED <<session, turn, then, started, quiet, ready, st, cut, worker,
                 server>>

\* The first of these events is yielded; the consumer takes each before it asks
\* for the next, and may wait or be cancelled meanwhile.
Yields(events, next) ==
  /\ out' = Append(out, Head(events)) /\ due' = Tail(events)
  /\ pc' = "yielded" /\ then' = next

\* An exception reaches stream_llm, which sends it as an error event.
Fails == Closed("failed") /\ out' = Append(out, Phase("ERROR"))

\* The consumer asks for the first event: load(), that is ensure_running().
Begin ==
  /\ ~Underway /\ turn < MaxTurns
  /\ turn' = turn + 1 /\ pc' = "load" /\ then' = "load"
  /\ started' = FALSE /\ out' = <<>> /\ quiet' = (posts = <<>> /\ asked = <<>>)
  /\ cut' = FALSE /\ feedback' = NoFeedback /\ hints' = <<>>
  /\ listener' = "none" /\ ready' = FALSE /\ queue' = <<>> /\ st' = NewState
  /\ UNCHANGED <<session, due, server, wire>>

\* The session is known, or created: the listener task starts, and THINKING is
\* yielded before anything is known of it.
Prepared ==
  /\ \/ pc = "load" /\ session /\ UNCHANGED session
     \/ pc = "create" /\ session' = TRUE
  /\ listener' = "connecting" /\ Yields(<<Phase("THINKING")>>, "ready")
  /\ UNCHANGED <<turn, started, quiet, ready, queue, st, cut, worker, server,
                 wire>>

CreatesSession ==
  /\ pc = "load" /\ ~session /\ pc' = "create"
  /\ UNCHANGED <<session, turn, due, then, started, quiet, task, worker, server,
                 out, wire>>

\* The consumer, for a tool update: _handle_llm_event_for_feedback.
OnLlmEvent(item) ==
  IF item.kind # "tool" THEN UNCHANGED worker
  ELSE LET h == Hint(feedback, item.part[2], item.status) IN
       /\ feedback' = h.fb
       /\ hints' = IF h.say = Silence THEN hints ELSE Append(hints, h.say)

\* The consumer is through with the event (on_llm_event, then emit) and asks
\* for the next.
Resume ==
  /\ pc = "yielded" /\ due = <<>> /\ pc' = then
  /\ UNCHANGED <<session, turn, due, then, started, quiet, task, worker, server,
                 out, wire>>

YieldNext ==
  /\ pc = "yielded" /\ due # <<>> /\ Yields(due, then) /\ OnLlmEvent(Head(due))
  /\ UNCHANGED <<session, turn, started, quiet, task, server, wire>>

\* _raise_if_listener_failed takes one item off the queue of a listener that
\* has ended, and looks for an exception only.
ListenerFailed == listener = "done" /\ Head(queue) = Fault
Unfailed == queue' = IF listener = "done" THEN Tail(queue) ELSE queue

\* ready.wait()
Ready ==
  /\ pc = "ready" /\ ready /\ (listener = "done" => queue # <<>>)
  /\ IF ListenerFailed THEN Fails
     ELSE /\ pc' = "prompt" /\ Unfailed
          /\ UNCHANGED <<session, turn, due, then, started, quiet, listener,
                         ready, st, cut, worker, server, out, wire>>

\* prompt_async: the request leaves, and is answered once it was accepted.
Prompt ==
  /\ pc = "prompt" /\ pc' = "prompting" /\ posts' = Append(posts, turn)
  /\ UNCHANGED <<session, turn, due, then, started, quiet, task, worker, asked,
                 answer, extras, out, wire>>

Prompted ==
  /\ pc = "prompting" /\ ~Contains(posts, turn) /\ pc' = "drain"
  /\ UNCHANGED <<session, turn, due, then, started, quiet, task, worker, server,
                 out, wire>>

\* GENERATING is due before the item.
Starts(item) == item.kind = "response" /\ ~started

\* One round of the loop over the queue.
Take ==
  /\ pc = "drain" /\ queue # <<>>
  /\ LET item == Head(queue) IN
        IF item = Fault THEN Fails
        ELSE IF item = End
          THEN /\ pc' = "summary" /\ queue' = Tail(queue)
               /\ UNCHANGED <<session, turn, due, then, started, quiet,
                              listener, ready, st, cut, worker, server, out,
                              wire>>
        ELSE /\ queue' = Tail(queue) /\ started' = (started \/ Starts(item))
             /\ Yields(IF Starts(item) THEN <<Phase("GENERATING"), item>>
                       ELSE <<item>>, "drain")
             /\ OnLlmEvent(item)
             /\ UNCHANGED <<session, turn, quiet, listener, ready, st, cut,
                            server, wire>>

\* latest_assistant_message: the last assistant message of the session, of
\* whichever turn; 0 when there is none.
Assistant == {t \in Turn : answer[t].stage \in {"reply", "idle"}}
Latest == IF Assistant = {} THEN 0
          ELSE CHOOSE t \in Assistant : \A u \in Assistant : u <= t
TextOf(t) == IF t = 0 THEN <<>> ELSE Words(answer[t].text)

\* The summary, the completed text and DONE.
Summarise ==
  /\ pc = "summary"
  /\ Yields(<<Phase("SUMMARY"),
              [kind |-> "completed", of |-> Latest, text |-> TextOf(Latest)],
              Phase("DONE")>>, "complete")
  /\ UNCHANGED <<session, turn, started, quiet, task, worker, server, wire>>

Complete == pc = "complete" /\ Closed("done") /\ UNCHANGED out

\* Every request to the server may fail.
RequestFails ==
  /\ MayFail /\ pc \in {"load", "create", "prompt", "prompting", "summary"}
  /\ Fails

\* _interrupt cancels the worker's task, at any await of the stream or of its
\* consumer.
Cancel == MayCancel /\ Underway /\ Closed("cancelled") /\ UNCHANGED out

-----------------------------------------------------------------------------
(* _listen and iter_events.                                                *)

\* Faulty variant: the end of the listener is not put into the queue.
Ends_Mute(last) ==
  /\ listener' = "done" /\ ready' = TRUE /\ wire' = <<>>
  /\ queue' = queue \o last

\* The task ends: what it has to say, then None, with ready set.
Ends(last) ==
  /\ listener' = "done" /\ ready' = TRUE /\ wire' = <<>>
  /\ queue' = queue \o last \o <<End>>

Connect ==
  /\ listener = "connecting" /\ listener' = "open" /\ ready' = TRUE
  /\ UNCHANGED <<engine, queue, st, cut, worker, server, out, wire>>

\* The connection is refused, or breaks later: an exception; or the server
\* closes it: the iteration just ends.
ListenerFails ==
  /\ MayFail /\ listener \in {"connecting", "open"} /\ Ends(<<Fault>>)
  /\ UNCHANGED <<engine, st, cut, worker, server, out>>

ListenerCut ==
  /\ MayFail /\ listener = "open" /\ Ends(<<>>) /\ cut' = TRUE
  /\ UNCHANGED <<engine, st, worker, server, out>>

\* Faulty variant: the end of any session stops the listener.
Stops_Any(ev) == ev.type \in {"idle", "error"}

\* _matches_session: each kind of event names its session in its own place.
MatchesSession(ev) == ev.mine

\* session.idle and session.error, and the two states of session.status that
\* say the same, of this session.
Stops(ev) == ev.type \in {"idle", "error"} /\ MatchesSession(ev)

Listen ==
  /\ listener = "open" /\ wire # <<>> /\ Len(queue) <= QueueMax
  /\ LET ev == Head(wire) IN
     IF Stops(ev)
       THEN /\ Ends(IF ev.type = "error" THEN <<Fault>> ELSE <<>>)
            /\ UNCHANGED <<engine, st, cut, worker, server, out>>
       ELSE LET read == Events(st, ev) IN
            /\ st' = read.st /\ queue' = queue \o read.items
            /\ wire' = Tail(wire)
            /\ UNCHANGED <<engine, listener, ready, cut, worker, server, out>>

-----------------------------------------------------------------------------
(* The server (external).                                                  *)

\* An event goes to whoever listens; nothing is kept for later listeners.
Sends(ev) ==
  IF listener = "open" THEN Len(wire) < WireMax /\ wire' = Append(wire, ev)
  ELSE UNCHANGED wire

NewMessage(t, role) == [type |-> "message", msg |-> <<t, role>>, role |-> role]
Snapshot(t, name, msg, kind, text) ==
  [type |-> "part", part |-> <<t, name>>, msg |-> msg, kind |-> kind,
   text |-> text]
NewText(t, name, text) ==
  [type |-> "delta", part |-> <<t, name>>, msg |-> NoMessage, text |-> text]

Accept ==
  /\ posts # <<>> /\ posts' = Tail(posts) /\ asked' = Append(asked, Head(posts))
  /\ UNCHANGED <<engine, task, worker, answer, extras, out, wire>>

\* The turn being answered.
Answering == asked # <<>>
Now == Head(asked)
At(stage) == Answering /\ answer[Now].stage = stage
Goes(stage) == answer' = [answer EXCEPT ![Now].stage = stage]
ServerOnly == UNCHANGED <<engine, task, worker, posts, out>>

\* The prompt becomes a message of the user, with its text, then the message
\* of the assistant begins, with an empty part for its reasoning and one for
\* its text.
Announce ==
  /\ ServerOnly /\ UNCHANGED <<asked, extras>>
  /\ \/ At("none") /\ Goes("user") /\ Sends(NewMessage(Now, "user"))
     \/ /\ At("user") /\ Goes("said")
        /\ Sends(Snapshot(Now, "said", <<Now, "user">>, "text", <<1>>))
     \/ At("said") /\ Goes("reply") /\ Sends(NewMessage(Now, "assistant"))

\* A reply is reasoning, then tools, then text (a bound on their order).
Untooled == \A c \in Call : answer[Now].tools[c] = "none"
Tooled == \A c \in Call : answer[Now].tools[c] # "running"

\* Reasoning: its part is announced empty, then grows.
Think ==
  /\ At("reply") /\ ServerOnly /\ UNCHANGED <<asked, extras>>
  /\ Now \in Thinking /\ answer[Now].text = <<>> /\ Untooled
  /\ Len(answer[Now].thought) < 2
  /\ answer' = [answer EXCEPT ![Now].thought = Append(@, 1)]
  /\ Sends(IF answer[Now].thought = <<>>
             THEN Snapshot(Now, "thought", <<Now, "assistant">>, "reasoning",
                           <<>>)
           ELSE NewText(Now, "thought", <<1>>))

\* The next word, alone or with all before it.
Speak ==
  /\ At("reply") /\ ServerOnly /\ UNCHANGED <<asked, extras>>
  /\ LET text == answer[Now].text
         word == Len(text) + 1
     IN /\ word <= Pieces /\ Tooled
        /\ answer' = [answer EXCEPT ![Now].text = Append(text, word)]
        /\ \/ Sends(NewText(Now, "text", <<word>>))
           \/ Sends(Snapshot(Now, "text", <<Now, "assistant">>, "text",
                             Append(text, word)))

\* A step of the reply begins or ends; it may name a tool.
StepEvent(name, kind, named) ==
  [type |-> "part", part |-> <<Now, name>>, msg |-> <<Now, "assistant">>,
   kind |-> kind, named |-> named, status |-> None]

\* A repetition: the snapshot again, at its end also with white space after
\* it, or, when it is long, all of it as a delta.  Or a step ends.
Repeat ==
  /\ At("reply") /\ answer[Now].text # <<>> /\ extras < Extras
  /\ extras' = extras + 1 /\ ServerOnly /\ UNCHANGED <<asked, answer>>
  /\ LET text == answer[Now].text IN
     \/ \E more \in {<<>>, <<Blank>>} :
          /\ more # <<>> => Len(text) = Pieces
          /\ Sends(Snapshot(Now, "text", <<Now, "assistant">>, "text",
                            text \o more))
     \/ Len(text) >= ReplayMin /\ Sends(NewText(Now, "text", text))
     \/ Sends(StepEvent("step", "step-finish", FALSE))

\* A tool tells of itself, or the step that begins or ends with it does.
UseTool(call) ==
  /\ At("reply") /\ Now \in Tooling /\ answer[Now].text = <<>>
  /\ ServerOnly /\ UNCHANGED asked
  /\ \E before \in {"none", "running"}, after \in {"running", "completed", "error"} :
       /\ answer[Now].tools[call] = before
       /\ (before = "none") = (after = "running")
       /\ answer' = [answer EXCEPT ![Now].tools[call] = after]
       /\ \/ /\ UNCHANGED extras
             /\ Sends([type |-> "part", part |-> <<Now, call>>, kind |-> "tool",
                       msg |-> <<Now, "assistant">>, status |-> after])
          \/ /\ after # "error" /\ extras < Extras /\ extras' = extras + 1
             /\ Sends(StepEvent(call, IF after = "running" THEN "step-start"
                                      ELSE "step-finish", TRUE))

\* The reply is complete: its session is idle, or the reply has failed.
Idle ==
  /\ At("reply") /\ Len(answer[Now].text) = Pieces /\ ServerOnly
  /\ answer' = [answer EXCEPT ![Now] = [NoAnswer EXCEPT !.stage = "idle",
                                         !.text = answer[Now].text]]
  /\ asked' = Tail(asked) /\ UNCHANGED extras
  /\ \/ Sends([type |-> "idle", mine |-> TRUE])
     \/ MayFail /\ Sends([type |-> "error", mine |-> TRUE])

\* Another session of the same server becomes idle.
Foreign ==
  /\ listener = "open" /\ extras < Extras /\ extras' = extras + 1
  /\ Sends([type |-> "idle", mine |-> FALSE])
  /\ ServerOnly /\ UNCHANGED <<asked, answer>>

\* More than ten seconds after an announcement.
Forget ==
  /\ extras < Extras /\ extras' = extras + 1
  /\ \E key \in feedback.announced : feedback' = Forgotten(feedback, key)
  /\ UNCHANGED <<engine, task, hints, posts, asked, answer, out, wire>>

-----------------------------------------------------------------------------
Stream == Begin \/ CreatesSession \/ Prepared \/ Resume \/ YieldNext \/ Ready
            \/ Prompt \/ Prompted \/ Take \/ Summarise \/ Complete
Listener == Connect \/ Listen
Server == Accept \/ Announce \/ Speak \/ Idle \/ \E c \in Call : UseTool(c)

Next == \/ Stream \/ Listener \/ Server
        \/ RequestFails \/ Cancel \/ ListenerFails \/ ListenerCut
        \/ Think \/ Repeat \/ Foreign \/ Forget

Spec == Init /\ [][Next]_vars

\* The runtime runs both tasks; the server answers what it was asked.
FairSpec ==
  /\ Spec
  /\ WF_vars(Stream) /\ WF_vars(Listener)
  /\ WF_vars(Accept) /\ WF_vars(Announce) /\ WF_vars(Speak \/ Idle)
  /\ \A c \in Call : WF_vars(UseTool(c))

-----------------------------------------------------------------------------
(* Properties.                                                             *)

\* What a stream has yielded of one kind of delta, and the words of its own
\* reply in it.
Deltas(kind) == SelectSeq(out, LAMBDA e : e.kind = kind)
Own(kind, name) ==
  FoldLeft(LAMBDA words, e : IF e.part = <<turn, name>>
                               THEN words \o Words(e.text) ELSE words,
           <<>>, Deltas(kind))

TypeOK ==
  /\ session \in BOOLEAN /\ turn \in 0..MaxTurns
  /\ pc \in Over \cup {"load", "create", "yielded", "ready", "prompt",
                       "prompting", "drain", "summary", "complete"}
  /\ then \in {"off", "load", "ready", "drain", "complete"}
  /\ listener \in {"none", "connecting", "open", "done"}
  /\ {ready, started, quiet, cut} \subseteq BOOLEAN
  /\ feedback \in Feedback /\ hints \in Seq(Hints)
  /\ posts \in Seq(Turn) /\ asked \in Seq(Turn) /\ extras \in 0..Extras

\* The spoken lane of a stream holds neither what the person said nor what the
\* model thought: of its own turn only the text of the reply is a response
\* delta (_events knows both by what came before on the same connection, so
\* the listener has to hear the server before the prompt leaves).
OnlyTheReplyIsSpoken ==
  \A i \in DOMAIN out :
    (out[i].kind = "response" /\ out[i].part[1] = turn) => out[i].part[2] = "text"

\* However the server mixes deltas, snapshots and repetitions, the deltas of
\* the reply put together are what the server has written so far, no word
\* twice, none missing.
NoWordTwice == turn > 0 => IsPrefix(Own("response", "text"), Words(answer[turn].text))

\* A stream that begins when the server is through with the earlier turns, and
\* that runs to its end on an event stream nobody closed, answers its own
\* prompt: all deltas are its own, the completed text is the text of its turn
\* and the deltas add up to it.
QuietStreamsAnswer ==
  (pc = "done" /\ quiet /\ ~cut) =>
    /\ \A i \in DOMAIN out : out[i].kind = "response" => out[i].part[1] = turn
    /\ \A i \in DOMAIN out : out[i].kind = "completed" =>
         out[i].of = turn /\ out[i].text = Own("response", "text")
    /\ Own("response", "text") = Words(answer[turn].text)

\* What is spoken is the reply to the prompt, all of it so far and no more.
SpokenIsTheReply == OnlyTheReplyIsSpoken /\ NoWordTwice

\* A search is announced at most once in a turn, its end at most once and
\* after that.
SearchIsBracketed ==
  LET said == SelectSeq(hints, LAMBDA h : h \in {"checking", "finished"})
  IN IsPrefix(said, <<"checking", "finished">>)

\* The end of the searches is announced only when each search the stream has
\* told the worker of is over at the server, however their updates overlap, are
\* repeated, forgotten or told by a step instead of the tool.
Told(c) == \E i \in DOMAIN out : out[i].kind = "tool" /\ out[i].part = <<turn, c>>
FinishedMeansFinished ==
  [][(Len(hints') > Len(hints) /\ hints'[Len(hints')] = "finished")
       => \A c \in SearchCall : Told(c)' => answer[turn].tools[c] # "running"]_vars

\* What is said aloud about searches is what the server does.
SearchesAreToldTruly == [](TypeOK /\ SearchIsBracketed) /\ FinishedMeansFinished

\* A stream that began on a quiet server ends: it is completed, fails or is
\* cancelled, whatever raises on the way.  (An event stream the server closes
\* before the prompt left is not noticed: _raise_if_listener_failed takes the
\* end of it off the queue and drops it, and the loop waits for ever.)
QuietStreamsEnd == (Underway /\ quiet) ~> (~Underway \/ cut)
=============================================================================
