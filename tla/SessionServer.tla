---------------------------- MODULE SessionServer ----------------------------
(***************************************************************************)
(* The server around the session workers when it keeps its sessions in     *)
(* Redis: the websocket handler with its guarded emit (transport/websocket *)
(* /handler.py), the WorkerHost that finds or makes the worker of a        *)
(* message, the HTTP routes, and RedisSessionManager, whose operations are *)
(* several Redis commands each, an await between any two.                  *)
(*                                                                         *)
(* A task is a list of steps still to do.  The workers appear here with    *)
(* what touches the store: their status, their turns and the replies they  *)
(* run (SessionWorker.tla has the rest of them).                           *)
(***************************************************************************)
EXTENDS Naturals, Sequences, FiniteSets, SequencesExt, SessionStatus

CONSTANTS
  Session,          \* the identifiers new_session_id will give
  Socket,           \* realtime connections, each made once
  Request,          \* HTTP requests that may run at the same time
  Nobody,           \* no session, no socket
  MaxMessages,      \* bound: messages and requests received in all
  MayCrash, MayFail \* may the runtime restart, may a Redis command raise

ASSUME ServerAssumption ==
  /\ MaxMessages \in Nat /\ {MayCrash, MayFail} \subseteq BOOLEAN
  /\ Nobody \notin Session \cup Socket \cup Request /\ Socket \cap Request = {}

VARIABLES
  record, index,    \* Redis: the session keys and the set of their names
  workers, made,    \* WorkerHost._workers; how many were made since its start
  current,          \* SessionWorker._runtime.response_task, by its socket
  task, reply,      \* what a socket, a request; a socket's last reply has to do
  link, line,       \* a socket: its state, and who waits to send on it
  heard,            \* the last status its client got, and from whom
  received,         \* messages and requests so far
  issued, via,      \* history: the sessions made, the sockets used for each
  quiet, raced,     \* history: those deleted with no update of them between
  torn,             \* its GET and its SET, those deleted with one there, those
                    \* that had an operation cut short
  listing           \* history: what a listing may and must show

redis   == <<record, index>>
host    == <<workers, made, current>>
wires   == <<link, line, heard>>
history == <<issued, via, quiet, raced, torn, listing>>
vars    == <<redis, host, task, reply, wires, received, history>>

\* What the JSON of a key keeps of a session, or that there is no key.
State == [status : Status \cup {"none"}, turns : Nat, active : BOOLEAN]

\* SessionState.create, and what begin_turn and complete_turn make of one.
Fresh == [status |-> "created", turns |-> 0, active |-> FALSE]
None == [status |-> "none", turns |-> 0, active |-> FALSE]
BeginTurn(state) == [state EXCEPT !.turns = @ + 1, !.active = TRUE]
CompleteTurn(state) == [state EXCEPT !.active = FALSE]

Step(do, arg) == [do |-> do, arg |-> arg]
To(status) == Step("to", status)
Do(what) == Step(what, "")
\* Emit the events collected so far, and one more.
Flush(event) == Step("flush", event)

NoTask == [todo |-> <<>>, phase |-> "run", s |-> Nobody, got |-> None,
           out |-> <<>>, ids |-> {}, found |-> {}]
Task(s, todo) == [NoTask EXCEPT !.s = s, !.todo = todo]
Idle(k) == k.todo = <<>>

-----------------------------------------------------------------------------
(* What the handlers do, as lists of steps.                                *)

\* Faulty variant: the name is entered before the key is there.
Create_IndexFirst == <<Do("enter"), Do("write")>>

Create == <<Do("write"), Do("enter")>>
Delete == <<Do("fetch"), Do("delete"), Do("leave")>>

\* _interrupt: what follows the cancellation.
Interrupting == <<Do("stop"), To("interrupted"), To("listening")>>
Active(s) == current[s] # Nobody /\ ~Idle(reply[current[s]])
InterruptIfActive(s) == IF Active(s) THEN Interrupting ELSE <<>>

\* _close_session
Closing(s) == InterruptIfActive(s) \o Delete \o <<Flush("session.closed")>>

\* SessionWorker.apply_message
Apply(message, s) ==
  CASE message = "start" ->
         <<To("loading"), To("ready"), To("listening"), Flush("session.ready")>>
    [] message = "reply" ->
         InterruptIfActive(s)
           \o <<Do("begin"), To("thinking"), Flush(""), Do("spawn")>>
    [] message = "interrupt" -> Interrupting \o <<Flush("conversation.interrupted")>>
    [] message = "close" -> Closing(s)

\* _run_text_turn
Replying == <<Flush("llm.delta"), Do("complete"), To("listening"), Flush(""),
              Do("finally")>>

\* A message for a session: its worker first (_worker_for_message).
Message(m) == <<Step("message", m)>>

-----------------------------------------------------------------------------
Init ==
  /\ record = [s \in Session |-> None] /\ index = {}
  /\ workers = [s \in Session |-> None] /\ made = [s \in Session |-> 0]
  /\ current = [s \in Session |-> Nobody]
  /\ task = [t \in Socket \cup Request |-> NoTask]
  /\ reply = [c \in Socket |-> NoTask]
  /\ link = [c \in Socket |-> "new"] /\ line = [c \in Socket |-> <<>>]
  /\ heard = [c \in Socket |-> [s \in Session |-> "none"]]
  /\ received = 0
  /\ issued = {} /\ via = [s \in Session |-> {}] /\ quiet = {} /\ raced = {} /\ torn = {}
  /\ listing = [h \in Request |-> [always |-> {}, ever |-> {}]]

\* A runner is the handler of a socket, a request, or the reply of a socket.
Runners == {<<"task", t>> : t \in Socket \cup Request}
             \cup {<<"reply", c>> : c \in Socket}
At(r) == IF r[1] = "task" THEN task[r[2]] ELSE reply[r[2]]
Becomes(r, k) ==
  IF r[1] = "task" THEN task' = [task EXCEPT ![r[2]] = k] /\ UNCHANGED reply
  ELSE reply' = [reply EXCEPT ![r[2]] = k] /\ UNCHANGED task
Done(k) == IF Len(k.todo) = 1 THEN NoTask
           ELSE [k EXCEPT !.todo = Tail(@), !.phase = "run", !.got = None]
Is(k, do) == k.todo # <<>> /\ Head(k.todo).do = do
Uses(s) == {r \in Runners : ~Idle(At(r)) /\ At(r).s = s}

\* A client knows a session once its creation is through.
Known == {s \in issued : \A r \in Uses(s) : ~Is(At(r), "write") /\ ~Is(At(r), "enter")}

\* What a listing sees of the changes of the store while it runs: the sessions
\* that were there all the time, and those that were at some time.
Present == {s \in index : record[s] # None}
Watched ==
  listing' = [h \in Request |-> [always |-> listing[h].always \cap Present',
                                 ever |-> listing[h].ever \cup Present']]

\* An OpenVoiceError: WorkerHost.apply sends it and forgets the events so far;
\* a route answers 404; a reply just ends, its events with it.
Raises(r) ==
  Becomes(r, IF r[2] \in Socket /\ r[1] = "task"
               THEN [At(r) EXCEPT !.todo = <<Flush("error")>>, !.phase = "run",
                                  !.out = <<>>]
             ELSE IF r[1] = "reply" THEN Task(At(r).s, <<Do("finally")>>)
             ELSE NoTask)

-----------------------------------------------------------------------------
(* The websocket handler and the HTTP routes.                              *)

Accept(c) ==
  /\ link[c] = "new" /\ link' = [link EXCEPT ![c] = "open"]
  /\ UNCHANGED <<redis, host, task, reply, line, heard, received, history>>

\* One message at a time; the SDK's first for a session is session.start.
Receive(c) ==
  /\ link[c] = "open" /\ Idle(task[c]) /\ received < MaxMessages
  /\ received' = received + 1
  /\ \/ \E s \in Session \ issued :
          /\ task' = [task EXCEPT ![c] = Task(s, Create \o Message("start"))]
          /\ issued' = issued \cup {s} /\ via' = [via EXCEPT ![s] = {c}]
     \/ \E s \in Known, m \in {"start", "reply", "interrupt", "close"} :
          /\ m # "start" => c \in via[s]
          /\ task' = [task EXCEPT ![c] = Task(s, Message(m))]
          /\ via' = [via EXCEPT ![s] = @ \cup {c}] /\ UNCHANGED issued
  /\ UNCHANGED <<redis, host, reply, wires, quiet, raced, torn, listing>>

\* A message without a type or a session: the handler closes the socket and
\* returns; only a failing send will tell the replies still using it.
ProtocolError(c) ==
  /\ link[c] = "open" /\ Idle(task[c]) /\ received < MaxMessages
  /\ received' = received + 1 /\ link' = [link EXCEPT ![c] = "broken"]
  /\ UNCHANGED <<redis, host, task, reply, line, heard, history>>

\* The client goes away; the handler notices when it next wants to receive.
Disconnect(c) ==
  /\ link[c] = "open" /\ link' = [link EXCEPT ![c] = "broken"]
  /\ UNCHANGED <<redis, host, task, reply, line, heard, received, history>>
Notice(c) ==
  /\ link[c] = "broken" /\ Idle(task[c])
  /\ link' = [link EXCEPT ![c] = "closed"]
  /\ UNCHANGED <<redis, host, task, reply, line, heard, received, history>>

\* POST, GET, DELETE and the list of /v1/sessions.
Ask(h) ==
  /\ Idle(task[h]) /\ received < MaxMessages /\ received' = received + 1
  /\ \/ \E s \in Session \ issued :
          /\ task' = [task EXCEPT ![h] = Task(s, Create)]
          /\ issued' = issued \cup {s}
     \/ /\ \E s \in Known : task' = [task EXCEPT ![h] = Task(s, Delete)]
        /\ UNCHANGED issued
     \/ /\ task' = [task EXCEPT ![h] = Task(Nobody, <<Do("members"), Do("read")>>)]
        /\ UNCHANGED issued
  /\ listing' = [listing EXCEPT ![h] = [always |-> Present, ever |-> Present]]
  /\ UNCHANGED <<redis, host, reply, wires, via, quiet, raced, torn>>

\* emit: dropped once the socket is known to be closed, otherwise in turn.
Out(k) == IF k.phase = "run" /\ Head(k.todo).arg # ""
            THEN Append(k.out, Head(k.todo).arg) ELSE k.out

\* Faulty variant: events are lost behind the first.
Emitted_First(k) == Done([k EXCEPT !.out = <<>>])

Emitted(k) == IF Len(Out(k)) <= 1 THEN Done([k EXCEPT !.out = <<>>])
              ELSE [k EXCEPT !.out = Tail(Out(k)), !.phase = "more"]

Emit(r, c) ==
  LET k == At(r) IN
  /\ Is(k, "flush") /\ k.phase \in {"run", "more"}
  /\ IF Out(k) = <<>> \/ link[c] = "closed"
       THEN Becomes(r, Emitted(k)) /\ UNCHANGED line
     ELSE /\ Becomes(r, [k EXCEPT !.phase = "sending", !.out = Out(k)])
          /\ line' = [line EXCEPT ![c] = Append(@, r)]
  /\ UNCHANGED <<redis, host, link, heard, received, history>>

\* The first of the line has the lock, and it is given on in order.
Send(c) ==
  \E r \in Runners :
     LET k == At(r)
         event == Head(k.out)
     IN /\ line[c] # <<>> /\ Head(line[c]) = r /\ k.phase = "sending"
        /\ line' = [line EXCEPT ![c] = Tail(@)]
        /\ Becomes(r, Emitted(k))
        /\ link' = [link EXCEPT ![c] = IF @ = "broken" THEN "closed" ELSE @]
        /\ heard' = IF link[c] = "open" /\ event \in Status
                      THEN [heard EXCEPT ![c][k.s] = event] ELSE heard
        /\ UNCHANGED <<redis, host, received, history>>

-----------------------------------------------------------------------------
(* WorkerHost and the workers.                                             *)

\* Faulty variant: another handler's worker is not seen.
GetOrCreate_Blind(s, state) ==
  /\ workers' = [workers EXCEPT ![s] = state]
  /\ made' = [made EXCEPT ![s] = @ + 1]

\* _get_or_create_worker, after the await of the look-up.
GetOrCreate(s, state) ==
  IF workers[s] # None THEN UNCHANGED <<workers, made>>
  ELSE /\ workers' = [workers EXCEPT ![s] = state]
       /\ made' = [made EXCEPT ![s] = @ + 1]

\* _worker_for_message, and apply_message right after it.
Start(r, k) ==
  Becomes(r, [k EXCEPT !.todo = Apply(Head(@).arg, k.s) \o Tail(@),
                       !.phase = "run", !.got = None])
Lookup(r) ==
  LET k == At(r) IN
  /\ Is(k, "message")
  /\ \/ k.phase = "run" /\ workers[k.s] # None /\ UNCHANGED host /\ Start(r, k)
     \/ k.phase = "run" /\ workers[k.s] = None /\ UNCHANGED host
        /\ IF record[k.s] = None THEN Raises(r)
           ELSE Becomes(r, [k EXCEPT !.got = record[k.s], !.phase = "got"])
     \/ /\ k.phase = "got" /\ GetOrCreate(k.s, k.got) /\ UNCHANGED current
        /\ Start(r, k)
  /\ UNCHANGED <<redis, wires, received, history>>

\* The steps without an await.
Local(r) ==
  LET k == At(r) IN
  /\ \/ /\ Is(k, "begin") /\ Becomes(r, Done(k)) /\ UNCHANGED current
        /\ workers' = [workers EXCEPT ![k.s] = BeginTurn(@)]
     \/ /\ Is(k, "complete") /\ Becomes(r, Done(k)) /\ UNCHANGED current
        /\ workers' = [workers EXCEPT ![k.s] = CompleteTurn(@)]
     \/ /\ Is(k, "finally") /\ Becomes(r, NoTask) /\ UNCHANGED workers
        /\ current' = [current EXCEPT ![k.s] = Nobody]
  /\ UNCHANGED <<redis, made, wires, received, history>>

\* create_task(_run_text_turn), told on the socket that asked for it.
Spawn(c) ==
  LET k == task[c] IN
  /\ Is(k, "spawn") /\ Idle(reply[c])
  /\ reply' = [reply EXCEPT ![c] = Task(k.s, Replying)]
  /\ current' = [current EXCEPT ![k.s] = c]
  /\ task' = [task EXCEPT ![c] = Done(k)]
  /\ UNCHANGED <<redis, workers, made, wires, received, history>>

\* Faulty variant: it leaves none.
Left_Kept(places, r) == places

\* The places a cancelled reply leaves in a line.
Left(places, r) == RemoveFirst(places, r)

\* task.cancel() and its await, then complete_turn.
Stop(c) ==
  LET k == task[c]
      d == current[k.s]
  IN /\ Is(k, "stop")
     /\ task' = [task EXCEPT ![c] = Done(k)]
     /\ IF d = Nobody THEN UNCHANGED <<reply, line>>
        ELSE /\ reply' = [reply EXCEPT ![d] = NoTask]
             /\ line' = [line EXCEPT ![d] = Left(@, <<"reply", d>>)]
     /\ current' = [current EXCEPT ![k.s] = Nobody]
     /\ workers' = [workers EXCEPT ![k.s] = CompleteTurn(@)]
     /\ UNCHANGED <<redis, made, link, heard, received, history>>

-----------------------------------------------------------------------------
(* RedisSessionManager.                                                    *)

\* update, as _transition_session calls it: GET, the move of the copy, SET,
\* and the copy becomes the worker's state.
Copy(s) == record[s]

UpdateGet(r) ==
  LET k == At(r)
      target == Head(k.todo).arg
  IN /\ Is(k, "to") /\ k.phase = "run"
     /\ IF ~CanTransition(workers[k.s].status, target) THEN Becomes(r, Done(k))
        ELSE IF Copy(k.s) = None \/ ~CanTransition(Copy(k.s).status, target)
          THEN Raises(r)
        ELSE Becomes(r, [k EXCEPT !.phase = "got",
                                  !.got = [Copy(k.s) EXCEPT !.status = target]])
     /\ UNCHANGED <<redis, host, wires, received, history>>
UpdateSet(r) ==
  LET k == At(r) IN
  /\ Is(k, "to") /\ k.phase = "got" /\ Becomes(r, [k EXCEPT !.phase = "set"])
  /\ record' = [record EXCEPT ![k.s] = k.got]
  /\ UNCHANGED <<index, host, wires, received, issued, via, quiet, raced, torn>>
  /\ Watched
Updated(r) ==
  LET k == At(r) IN
  /\ Is(k, "to") /\ k.phase = "set"
  /\ workers' = [workers EXCEPT ![k.s] = k.got]
  /\ Becomes(r, [Done(k) EXCEPT !.out = Append(@, k.got.status)])
  /\ UNCHANGED <<redis, made, current, wires, received, history>>

Updating(s) == \E r \in Uses(s) : Is(At(r), "to") /\ At(r).phase = "got"

\* create: SET, SADD; close: GET, DEL, SREM.
Command(r) ==
  LET k == At(r) IN
  /\ \/ /\ Is(k, "write") /\ record' = [record EXCEPT ![k.s] = Fresh]
        /\ Becomes(r, Done(k)) /\ UNCHANGED <<index, quiet, raced>>
     \/ /\ Is(k, "enter") /\ index' = index \cup {k.s}
        /\ Becomes(r, Done(k)) /\ UNCHANGED <<record, quiet, raced>>
     \/ /\ Is(k, "fetch") /\ UNCHANGED <<redis, quiet, raced>>
        /\ IF record[k.s] = None THEN Raises(r) ELSE Becomes(r, Done(k))
     \/ /\ Is(k, "delete") /\ record' = [record EXCEPT ![k.s] = None]
        /\ IF Updating(k.s) THEN raced' = raced \cup {k.s} /\ quiet' = quiet \ {k.s}
           ELSE quiet' = quiet \cup ({k.s} \ raced) /\ UNCHANGED raced
        /\ Becomes(r, Done(k)) /\ UNCHANGED index
     \/ /\ Is(k, "leave") /\ index' = index \ {k.s}
        /\ Becomes(r, Done(k)) /\ UNCHANGED <<record, quiet, raced>>
  /\ Watched /\ UNCHANGED <<host, wires, received, issued, via, torn>>

\* list: SMEMBERS, then GET for each of them, and SREM of those without a key.
Members(h) ==
  LET k == task[h] IN
  /\ Is(k, "members")
  /\ task' = [task EXCEPT ![h] = [Done(k) EXCEPT !.ids = index]]
  /\ UNCHANGED <<redis, host, reply, wires, received, history>>
Missing(s) == record[s] = None

Read(h) ==
  LET k == task[h] IN
  /\ Is(k, "read") /\ k.phase = "run"
  /\ IF k.ids = {} THEN task' = [task EXCEPT ![h] = NoTask]
     ELSE \E s \in k.ids :
       task' = [task EXCEPT ![h] =
         IF Missing(s) THEN [k EXCEPT !.phase = "stale", !.s = s]
         ELSE [k EXCEPT !.ids = @ \ {s}, !.found = @ \cup {s}]]
  /\ UNCHANGED <<redis, host, reply, wires, received, history>>
Drop(h) ==
  LET k == task[h] IN
  /\ Is(k, "read") /\ k.phase = "stale"
  /\ index' = index \ {k.s}
  /\ task' = [task EXCEPT ![h] = [k EXCEPT !.ids = @ \ {k.s}, !.s = Nobody, !.phase = "run"]]
  /\ UNCHANGED <<record, host, reply, wires, received, issued, via, quiet, raced,
                 torn>>
  /\ Watched

-----------------------------------------------------------------------------
(* Failures.                                                               *)

Cut(r) == IF At(r).s = Nobody THEN {} ELSE {At(r).s}

\* A Redis error is no OpenVoiceError: it ends the handler and its socket, the
\* request (500) or the reply.
RedisFails(r) ==
  /\ MayFail
  /\ \E do \in {"write", "enter", "fetch", "delete", "leave", "to", "message"} :
       Is(At(r), do)
  /\ Becomes(r, IF r[1] = "reply" THEN Task(At(r).s, <<Do("finally")>>)
                ELSE NoTask)
  /\ torn' = torn \cup Cut(r)
  /\ link' = IF r[1] = "task" /\ r[2] \in Socket
               THEN [link EXCEPT ![r[2]] = "broken"] ELSE link
  /\ UNCHANGED <<redis, host, line, heard, received, issued, via, quiet, raced, listing>>

\* The runtime is restarted: Redis is all that is left.
Crash ==
  /\ MayCrash /\ \E s \in Session : made[s] > 0
  /\ workers' = [s \in Session |-> None] /\ made' = [s \in Session |-> 0]
  /\ current' = [s \in Session |-> Nobody]
  /\ task' = [t \in Socket \cup Request |-> NoTask]
  /\ reply' = [c \in Socket |-> NoTask]
  /\ line' = [c \in Socket |-> <<>>]
  /\ link' = [c \in Socket |-> IF link[c] = "new" THEN "new" ELSE "closed"]
  /\ torn' = torn \cup UNION {Cut(r) : r \in {q \in Runners : ~Idle(At(q))}}
  /\ UNCHANGED <<redis, heard, received, issued, via, quiet, raced, listing>>

-----------------------------------------------------------------------------
Next ==
  \/ \E c \in Socket : Accept(c) \/ Receive(c) \/ ProtocolError(c) \/ Disconnect(c)
                       \/ Notice(c) \/ Send(c) \/ Spawn(c) \/ Stop(c)
                       \/ Emit(<<"task", c>>, c) \/ Emit(<<"reply", c>>, c)
  \/ \E h \in Request : Ask(h) \/ Members(h) \/ Read(h) \/ Drop(h)
  \/ \E r \in Runners : Lookup(r) \/ Local(r) \/ UpdateGet(r)
                        \/ UpdateSet(r) \/ Updated(r) \/ Command(r)
                        \/ RedisFails(r)
  \/ Crash

Spec == Init /\ [][Next]_vars

-----------------------------------------------------------------------------
(* Properties.                                                             *)

TypeOK ==
  /\ \A s \in Session : {record[s].status, workers[s].status} \subseteq Status \cup {"none"}
  /\ index \subseteq Session /\ quiet \subseteq Session /\ torn \subseteq Session
  /\ current \in [Session -> Socket \cup {Nobody}]
  /\ link \in [Socket -> {"new", "open", "broken", "closed"}]

\* Whoever has or waits for the lock of a socket is still there to send: a
\* reply cancelled in the middle of emit takes neither with it.
LocksAreHeldByTheLiving ==
  \A c \in Socket : \A i \in DOMAIN line[c] : At(line[c][i]).phase = "sending"

\* However many handlers ask for the worker of a session at the same time,
\* with an await between the look-up and the making, they share one.
OneWorker == \A s \in Session : made[s] <= 1

\* A name without its key in the index is about to be removed, by the close
\* that deleted the key or by a listing that missed it, unless a failure or a
\* restart cut that close short.
NoDanglingNames ==
  \A s \in index : record[s] = None =>
    s \in torn \/ \E r \in Uses(s) : Contains(At(r).todo, Do("leave"))

\* Every key is in the index, so that the history lists it, except while it is
\* being created, when a failure came between, or when an update read the
\* session before it was deleted and wrote it after.
NoHiddenSessions ==
  \A s \in Session : (record[s] # None /\ s \notin index) =>
    \/ s \in torn \/ s \in raced
    \/ \E r \in Uses(s) : Is(At(r), "enter")

\* A session deleted while no update of it was under way stays deleted,
\* whatever its worker, which nobody told, goes on doing.
QuietDeletesStick == \A s \in quiet : record[s] = None

\* A listing shows every session that was there all the time it ran, and none
\* that never was (save one an update brought back).
ListingsAreTrue ==
  \A h \in Request :
    (Is(task[h], "read") /\ task[h].ids = {}) =>
      /\ listing[h].always \subseteq task[h].found
      /\ task[h].found \subseteq listing[h].ever \cup raced

\* The index and the keys tell the same sessions, and those that were deleted
\* are in neither.
RegistryIsTrue ==
  NoDanglingNames /\ NoHiddenSessions /\ ListingsAreTrue /\ QuietDeletesStick

\* When nothing runs for a session that lives and was used through one socket,
\* its worker and its key agree on its status: of the updates of the handler
\* and of a reply cancelled between any two of their commands none is lost.
\* (Two sockets that start one session lose some: the key is then behind the
\* worker, and every further transition is an error.)
Settled(s) ==
  /\ Uses(s) = {} /\ Cardinality(via[s]) = 1 /\ s \notin torn \cup raced
  /\ workers[s] # None /\ record[s] # None
StatusesAgree ==
  \A s \in Session : Settled(s) => workers[s].status = record[s].status

\* And if that socket still stands, what its client heard last is that status.
ClientsKnowTheStatus ==
  \A s \in Session, c \in Socket :
    (Settled(s) /\ c \in via[s] /\ link[c] = "open" /\ heard[c][s] # "none")
      => heard[c][s] = workers[s].status

\* No turn stays open in the copy of the worker when its reply was cancelled or
\* failed: the interruption completes it, or an update replaces the copy by the
\* record, which never heard of the turn.
NoTurnStaysOpen == \A s \in Session : Settled(s) => ~workers[s].active

\* Worker, key and client come to the same status, and no turn is left open.
SettledAgree == StatusesAgree /\ ClientsKnowTheStatus /\ NoTurnStaysOpen

\* A client that closes its session is not talked to by its old reply: when
\* the commands of the close begin no reply of it runs.
CloseSilences ==
  \A s \in Session, c \in Socket :
    (via[s] = {c} /\ task[c].s = s /\ task[c].todo # <<>>
      /\ Head(task[c].todo).do \in {"delete", "leave"})
      => ~Active(s)

\* A reply that is cancelled lets go of the socket, of its lock and of the
\* session it replied in.
RepliesLetGo == TypeOK /\ LocksAreHeldByTheLiving /\ CloseSilences
=============================================================================
