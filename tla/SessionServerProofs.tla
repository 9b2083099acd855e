-------------------------- MODULE SessionServerProofs --------------------------
(***************************************************************************)
(* For any number of sessions, sockets and requests, with failures of      *)
(* Redis and restarts at any point: one worker per session; the index, the *)
(* keys and the listings of the store tell the same sessions; and a reply  *)
(* that is cancelled lets go of the socket, its lock and its session.      *)
(***************************************************************************)
EXTENDS SessionServer, SequenceTheorems, TLAPS

Messages == {"start", "reply", "interrupt", "close"}

Kinds == {"message", "write", "enter", "fetch", "delete", "leave", "stop", "begin",
          "spawn", "complete", "finally", "members", "read", "to", "flush"}
Events == Status \cup {"", "error", "session.ready", "session.closed",
                       "conversation.interrupted", "llm.delta"}
Steps == {x \in [do : Kinds, arg : Events \cup Messages] :
            /\ x.do = "message" => x.arg \in Messages
            /\ x.do = "leave" => x.arg = ""}
Further == {x \in Steps : x.do \notin {"write", "members"}}

\* A task begins with the creation of a key or a listing, if it has one at all.
Todo == {q \in Seq(Steps) : \A i \in 2..Len(q) : q[i] \in Further}

Phase == {"run", "got", "set", "sending", "more", "stale"}
Name  == Session \cup {Nobody}
TaskType == [todo : Todo, phase : Phase, s : Name, got : State, out : Seq(Events \cup Messages),
             ids : SUBSET Session, found : SUBSET Session]

ServerTypes ==
  /\ record \in [Session -> State] /\ workers \in [Session -> State]
  /\ made \in [Session -> Nat] /\ index \subseteq Session /\ issued \subseteq Session
  /\ task \in [Socket \cup Request -> TaskType] /\ reply \in [Socket -> TaskType]

\* What a task read of a session, or the store holds, is a session; only an
\* emit sends, and only a listing is for no session.
Live(state) == state.status # "none"
Holds(k) ==
  /\ k.phase \in {"got", "set"} => Live(k.got)
  /\ k.phase = "sending" => Is(k, "flush")
  /\ k.s = Nobody => Idle(k) \/ Is(k, "members") \/ Is(k, "read")
  /\ Is(k, "members") => Tail(k.todo) = <<Do("read")>>
WhatIsReadLives ==
  /\ \A r \in Runners : Holds(At(r))
  /\ \A s \in Session : record[s] # None => Live(record[s])

\* The worker that was made is there.
MadeIsThere == \A s \in Session : made[s] <= 1 /\ (made[s] = 1 => Live(workers[s]))

Writes(k) == Is(k, "write")
WillSet(k) == Is(k, "to") /\ k.phase = "got"

\* Nobody is creating s, or about to write an update of it.
NotCreated(s) == \A r \in Runners : At(r).s = s => ~Writes(At(r))
Untouched(s) == NotCreated(s) /\ \A r \in Runners : At(r).s = s => ~WillSet(At(r))

\* A session that is being created has one user, and one that was not asked
\* for has none.
OneCreator ==
  \A r, q \in Runners :
    (Writes(At(r)) /\ At(r).s \in Session /\ q # r /\ At(q).s = At(r).s) => Idle(At(q))
NotIssued == \A r \in Runners : ~Idle(At(r)) => At(r).s \in issued \cup {Nobody}

\* A name in the index, or in a listing, is of a session whose key was written.
Made(s) == s \in issued /\ NotCreated(s)
Listed ==
  /\ \A s \in index : s \in Session => Made(s)
  /\ \A r \in Runners : \A s \in At(r).ids : s \in Session => Made(s)

QuietInv == \A s \in quiet : s \in issued /\ record[s] = None /\ Untouched(s)

ServerInv ==
  /\ ServerTypes /\ WhatIsReadLives /\ MadeIsThere
  /\ OneCreator /\ NotIssued /\ Listed /\ QuietInv

-----------------------------------------------------------------------------
(* The lists of steps and the tasks.                                       *)

LEMMA StepKinds ==
  /\ \A e \in Events : To(e) \in Further /\ Flush(e) \in Further
  /\ \A d \in Kinds \ {"message", "write", "members"} : Do(d) \in Further
  /\ Do("write") \in Steps /\ Do("members") \in Steps
  /\ \A m \in Messages : Step("message", m) \in Further
<1>1. ASSUME NEW e \in Events PROVE To(e) \in Further /\ Flush(e) \in Further
  BY DEF To, Flush, Step, Further, Steps, Kinds
<1>2. ASSUME NEW d \in Kinds \ {"message", "write", "members"} PROVE Do(d) \in Further
  BY DEF Do, Step, Further, Steps, Events
<1>3. Do("write") \in Steps /\ Do("members") \in Steps
  BY DEF Do, Step, Steps, Events, Kinds
<1>4. ASSUME NEW m \in Messages PROVE Step("message", m) \in Further
  BY DEF Step, Further, Steps, Kinds
<1> QED
  BY <1>1, <1>2, <1>3, <1>4

\* Short lists, by their members.
LEMMA ShortLists ==
  ASSUME NEW S
  PROVE  /\ \A a \in S : <<a>> \in Seq(S)
         /\ \A a, b \in S : <<a, b>> \in Seq(S)
         /\ \A a, b, c \in S : <<a, b, c>> \in Seq(S)
         /\ \A a, b, c, d \in S : <<a, b, c, d>> \in Seq(S)
         /\ \A a, b, c, d, e \in S : <<a, b, c, d, e>> \in Seq(S)
OBVIOUS

\* Lists in which nothing is created.
LEMMA FurtherLists ==
  /\ Delete \in Seq(Further) /\ Replying \in Seq(Further)
  /\ \A m \in Messages : Message(m) \in Seq(Further)
  /\ <<Flush("error")>> \in Seq(Further) /\ <<Do("finally")>> \in Seq(Further)
<1>1. Do("fetch") \in Further /\ Do("delete") \in Further /\ Do("leave") \in Further
  BY StepKinds DEF Events, Status, Kinds
<1>2. Flush("llm.delta") \in Further /\ Flush("") \in Further /\ Flush("error") \in Further
      /\ To("listening") \in Further
  BY StepKinds DEF Events, Status, Kinds
<1>3. Do("complete") \in Further /\ Do("finally") \in Further
  BY StepKinds DEF Events, Status, Kinds
<1>4. \A m \in Messages : <<Step("message", m)>> \in Seq(Further)
  BY StepKinds, ShortLists
<1>5. <<Do("fetch"), Do("delete"), Do("leave")>> \in Seq(Further)
  BY <1>1, ShortLists
<1>6. <<Flush("llm.delta"), Do("complete"), To("listening"), Flush(""), Do("finally")>>
        \in Seq(Further)
  BY <1>2, <1>3, ShortLists
<1>7. /\ <<Flush("error")>> \in Seq(Further) /\ <<Do("finally")>> \in Seq(Further)
  BY <1>2, <1>3, ShortLists
<1> QED
  BY <1>4, <1>5, <1>6, <1>7 DEF Delete, Replying, Message

LEMMA ApplyList ==
  ASSUME NEW m \in Messages, NEW s PROVE Apply(m, s) \in Seq(Further)
<1>1. Interrupting \in Seq(Further)
  <2>1. /\ Do("stop") \in Further /\ To("interrupted") \in Further
        /\ To("listening") \in Further
    BY StepKinds DEF Events, Status, Kinds
  <2> QED
    BY <2>1, ShortLists DEF Interrupting
<1>2. InterruptIfActive(s) \in Seq(Further)
  BY <1>1 DEF InterruptIfActive
<1>3. /\ <<To("loading"), To("ready"), To("listening"), Flush("session.ready")>> \in Seq(Further)
      /\ <<Do("begin"), To("thinking"), Flush(""), Do("spawn")>> \in Seq(Further)
      /\ <<Flush("conversation.interrupted")>> \in Seq(Further)
      /\ <<Flush("session.closed")>> \in Seq(Further)
  <2>1. /\ To("loading") \in Further /\ To("ready") \in Further
        /\ To("listening") \in Further /\ To("thinking") \in Further
    BY StepKinds DEF Events, Status, Kinds
  <2>2. /\ Flush("session.ready") \in Further /\ Flush("session.closed") \in Further
        /\ Flush("") \in Further /\ Flush("conversation.interrupted") \in Further
    BY StepKinds DEF Events, Status, Kinds
  <2>3. Do("begin") \in Further /\ Do("spawn") \in Further
    BY StepKinds DEF Events, Status, Kinds
  <2> QED
    BY <2>1, <2>2, <2>3, ShortLists
<1>4. InterruptIfActive(s) \o Delete \in Seq(Further)
  BY <1>2, FurtherLists, ConcatProperties
<1>5. Closing(s) \in Seq(Further)
  BY <1>3, <1>4, ConcatProperties DEF Closing
<1>6. InterruptIfActive(s) \o <<Do("begin"), To("thinking"), Flush(""), Do("spawn")>>
        \in Seq(Further)
  BY <1>2, <1>3, ConcatProperties
<1>7. Interrupting \o <<Flush("conversation.interrupted")>> \in Seq(Further)
  BY <1>1, <1>3, ConcatProperties
<1> QED
  BY <1>3, <1>5, <1>6, <1>7 DEF Apply, Messages

LEMMA FurtherIsTodo ==
  ASSUME NEW q \in Seq(Further)
  PROVE  q \in Todo /\ (q # <<>> => Head(q) \in Further)
<1>1. q \in Seq(Steps)
  BY SeqMonotonic DEF Further
<1>2. q # <<>> => Head(q) \in Further
  BY HeadTailProperties
<1>3. \A i \in 2..Len(q) : q[i] \in Further
  BY LenProperties
<1> QED
  BY <1>1, <1>2, <1>3 DEF Todo

LEMMA RestOfTodo ==
  ASSUME NEW q \in Todo, q # <<>>
  PROVE  Tail(q) \in Seq(Further) /\ Head(q) \in Steps
<1>1. q \in Seq(Steps) /\ \A i \in 2..Len(q) : q[i] \in Further
  BY DEF Todo
<1>2. Head(q) \in Steps /\ Tail(q) = SubSeq(q, 2, Len(q)) /\ Len(q) \in Nat
  BY <1>1, HeadTailProperties, TailIsSubSeq, LenProperties
<1>3. SubSeq(q, 2, Len(q)) \in Seq(Further)
  BY <1>1, <1>2, SubSeqProperties
<1> QED
  BY <1>2, <1>3

\* A creation begins with the key.
LEMMA CreateIsTodo ==
  /\ Create \in Todo /\ Create # <<>> /\ Head(Create) = Do("write")
  /\ \A m \in Messages :
       LET q == Create \o Message(m)
       IN q \in Todo /\ q # <<>> /\ Head(q) = Do("write")
<1> DEFINE w == Do("write")
           e == Do("enter")
<1>1. w \in Steps /\ e \in Further /\ e \in Steps
  BY StepKinds DEF Kinds, Further
<1> HIDE DEF w, e
<1>2. <<w, e>> \in Seq(Steps) /\ Len(<<w, e>>) = 2 /\ <<w, e>>[2] = e
  BY <1>1, ShortLists
<1>3. <<w, e>> \in Todo /\ <<w, e>> # <<>> /\ Head(<<w, e>>) = w
  BY <1>1, <1>2 DEF Todo
<1>4. ASSUME NEW m \in Messages
      PROVE  LET q == <<w, e>> \o Message(m)
             IN q \in Todo /\ q # <<>> /\ Head(q) = w
  <2>1. Message(m) \in Seq(Further) /\ Message(m) \in Seq(Steps)
    BY FurtherLists, SeqMonotonic DEF Further
  <2>2. /\ <<w, e>> \o Message(m) \in Seq(Steps)
        /\ Len(<<w, e>> \o Message(m)) = 2 + Len(Message(m))
        /\ \A i \in 1..2 + Len(Message(m)) : (<<w, e>> \o Message(m))[i] =
              IF i <= 2 THEN <<w, e>>[i] ELSE Message(m)[i - 2]
    BY <1>2, <2>1, ConcatProperties
  <2>3. \A i \in 1..Len(Message(m)) : Message(m)[i] \in Further
    BY <2>1, ElementOfSeq
  <2>4. Len(Message(m)) \in Nat
    BY <2>1, LenProperties
  <2>5. \A i \in 2..2 + Len(Message(m)) : (<<w, e>> \o Message(m))[i] \in Further
    BY <1>1, <1>2, <2>2, <2>3, <2>4
  <2>6. <<w, e>> \o Message(m) \in Todo
    BY <2>2, <2>5 DEF Todo
  <2>7. (<<w, e>> \o Message(m))[1] = w
    BY <2>2, <2>4
  <2> DEFINE q == <<w, e>> \o Message(m)
  <2>8. q \in Seq(Steps) /\ Len(q) # 0 /\ q[1] = w
    BY <2>2, <2>4, <2>7
  <2> HIDE DEF q
  <2>9. q # <<>> /\ Head(q) = w
    BY <2>8
  <2> QED
    BY <2>6, <2>9 DEF q
<1> QED
  BY <1>3, <1>4 DEF Create, w, e

LEMMA ListingIsTodo == <<Do("members"), Do("read")>> \in Todo
<1> DEFINE m == Do("members")
           e == Do("read")
<1>1. m \in Steps /\ e \in Further /\ e \in Steps
  BY StepKinds DEF Kinds, Further
<1> HIDE DEF m, e
<1>2. <<m, e>> \in Seq(Steps) /\ Len(<<m, e>>) = 2 /\ <<m, e>>[2] = e
  BY <1>1, ShortLists
<1>3. <<m, e>> \in Todo
  BY <1>1, <1>2 DEF Todo
<1> QED
  BY <1>3 DEF m, e

-----------------------------------------------------------------------------
(* A step of the tasks.                                                    *)

TasksTyped == task \in [Socket \cup Request -> TaskType] /\ reply \in [Socket -> TaskType]

LEMMA AtType == TasksTyped => \A r \in Runners : At(r) \in TaskType
BY DEF TasksTyped, Runners, At

\* What a runner may become: it goes on in its session, or comes to one that
\* was made, and creates nothing.
Joins(r, l) ==
  /\ l \in TaskType /\ Holds(l) /\ ~Writes(l) /\ (WillSet(l) => l.s \notin quiet')
  /\ \A s \in l.ids : s \in index \/ s \in At(r).ids
  /\ \/ Idle(l) \/ l.s = Nobody
     \/ ~Idle(At(r)) /\ l.s = At(r).s
     \/ l.s \in Session /\ Made(l.s)

Moves == \A r \in Runners : At(r)' = At(r) \/ Joins(r, At(r)')

LEMMA BecomesAt ==
  ASSUME TasksTyped, NEW r \in Runners, NEW l \in TaskType, Becomes(r, l)
  PROVE  /\ TasksTyped' /\ At(r)' = l
         /\ \A q \in Runners : q # r => At(q)' = At(q)
<1>1. CASE r[1] = "task"
  <2>1. PICK t \in Socket \cup Request : r = <<"task", t>>
    BY <1>1 DEF Runners
  <2>2. task' = [task EXCEPT ![t] = l] /\ reply' = reply
    BY <1>1, <2>1 DEF Becomes
  <2>3. ASSUME NEW q \in Runners, q # r PROVE At(q)' = At(q)
    BY <2>1, <2>2, <2>3 DEF Runners, At, TasksTyped
  <2> QED
    BY <2>1, <2>2, <2>3 DEF TasksTyped, At
<1>2. CASE r[1] # "task"
  <2>1. PICK c \in Socket : r = <<"reply", c>>
    BY <1>2 DEF Runners
  <2>2. reply' = [reply EXCEPT ![c] = l] /\ task' = task
    BY <1>2, <2>1 DEF Becomes
  <2>3. ASSUME NEW q \in Runners, q # r PROVE At(q)' = At(q)
    BY <2>1, <2>2, <2>3 DEF Runners, At, TasksTyped
  <2> QED
    BY <2>1, <2>2, <2>3 DEF TasksTyped, At
<1> QED
  BY <1>1, <1>2

LEMMA MovesKeep ==
  ASSUME ServerInv, TasksTyped', Moves, issued' = issued
  PROVE  /\ OneCreator' /\ NotIssued'
         /\ \A r \in Runners : Holds(At(r))'
         /\ \A s : Made(s) => Made(s)'
         /\ \A s \in quiet' : Untouched(s) => Untouched(s)'
         /\ \A r \in Runners : \A s \in At(r)'.ids : s \in Session => Made(s)
<1>1. \A r \in Runners : Writes(At(r)') => At(r)' = At(r)
  BY DEF Moves, Joins
<1>2. \A r \in Runners : Holds(At(r)')
  BY DEF Moves, Joins, ServerInv, WhatIsReadLives
<1>3. \A s : NotCreated(s) => NotCreated(s)'
  BY <1>1 DEF NotCreated
<1>4. ASSUME NEW s \in quiet', Untouched(s) PROVE Untouched(s)'
  BY <1>3, <1>4 DEF Untouched, Moves, Joins
<1>5. ASSUME NEW r \in Runners, NEW q \in Runners, Writes(At(r)'), At(r)'.s \in Session,
             q # r, At(q)'.s = At(r)'.s
      PROVE  Idle(At(q)')
  <2>1. At(r)' = At(r) /\ Writes(At(r)) /\ At(r).s \in Session
    BY <1>1, <1>5
  <2>2. CASE At(q)' = At(q)
    BY <1>5, <2>1, <2>2 DEF ServerInv, OneCreator
  <2>3. CASE Joins(q, At(q)')
    <3>1. At(q)'.s # Nobody
      BY <1>5, ServerAssumption
    <3>2. ~Made(At(q)'.s)
      BY <1>5, <2>1 DEF Made, NotCreated
    <3>3. At(q)'.s = At(q).s => Idle(At(q))
      BY <1>5, <2>1 DEF ServerInv, OneCreator
    <3> QED
      BY <2>3, <3>1, <3>2, <3>3 DEF Joins
  <2> QED
    BY <2>2, <2>3 DEF Moves
<1>6. NotIssued'
  BY DEF Moves, Joins, ServerInv, NotIssued, Made
<1>7. \A r \in Runners : \A s \in At(r)'.ids : s \in Session => Made(s)
  BY DEF Moves, Joins, ServerInv, Listed
<1>8. OneCreator'
  BY <1>5 DEF OneCreator
<1>9. \A s : Made(s) => Made(s)'
  BY <1>3 DEF Made
<1> QED
  BY <1>2, <1>4, <1>6, <1>7, <1>8, <1>9

\* A step of the tasks that issues no session, with what it does to the store,
\* the workers and the sessions deleted, keeps the invariant.
LEMMA StepKeeps ==
  ASSUME ServerInv, TasksTyped', Moves, issued' = issued,
         record' \in [Session -> State], workers' \in [Session -> State],
         made' \in [Session -> Nat], index' \subseteq Session,
         \A s \in Session : record'[s] # None => Live(record'[s]),
         MadeIsThere',
         \A s \in index' : s \in Session => Made(s),
         \A s \in quiet' : s \in issued /\ record'[s] = None /\ Untouched(s)
  PROVE  ServerInv'
<1>1. ServerTypes'
  BY DEF ServerInv, ServerTypes, TasksTyped
<1>2. WhatIsReadLives'
  BY MovesKeep DEF WhatIsReadLives
<1>3. OneCreator' /\ NotIssued'
  BY MovesKeep
<1>4. Listed'
  BY MovesKeep DEF Listed
<1>5. QuietInv'
  BY MovesKeep DEF QuietInv
<1> QED
  BY <1>1, <1>2, <1>3, <1>4, <1>5 DEF ServerInv

\* The same when the store does not change, but for the workers.
LEMMA StoreStays ==
  ASSUME ServerInv, TasksTyped', Moves, UNCHANGED <<record, index, issued, quiet>>,
         workers' \in [Session -> State], made' \in [Session -> Nat], MadeIsThere'
  PROVE  ServerInv'
<1>1. \A s \in quiet' : s \in issued /\ record'[s] = None /\ Untouched(s)
  BY DEF ServerInv, QuietInv
<1>2. \A s \in index' : s \in Session => Made(s)
  BY DEF ServerInv, Listed
<1>3. \A s \in Session : record'[s] # None => Live(record'[s])
  BY DEF ServerInv, WhatIsReadLives
<1> QED
  BY <1>1, <1>2, <1>3, StepKeeps DEF ServerInv, ServerTypes

\* And when the workers do not either.
LEMMA TaskStepKeeps ==
  ASSUME ServerInv, TasksTyped', Moves,
         UNCHANGED <<record, index, workers, made, issued, quiet>>
  PROVE  ServerInv'
BY StoreStays DEF ServerInv, ServerTypes, MadeIsThere

\* One runner moves.
LEMMA OneMoves ==
  ASSUME TasksTyped, NEW r \in Runners, NEW l, Joins(r, l), Becomes(r, l)
  PROVE  TasksTyped' /\ Moves
<1>1. l \in TaskType
  BY DEF Joins
<1>2. TasksTyped' /\ At(r)' = l /\ \A q \in Runners : q # r => At(q)' = At(q)
  BY <1>1, BecomesAt
<1> QED
  BY <1>2 DEF Moves

-----------------------------------------------------------------------------
(* What the tasks become.                                                  *)

LEMMA NoTaskType ==
  NoTask \in TaskType /\ Idle(NoTask) /\ Holds(NoTask) /\ ~Writes(NoTask) /\ ~WillSet(NoTask)
<1>1. <<>> \in Todo /\ <<>> \in Seq(Events \cup Messages)
  BY EmptySeq DEF Todo
<1>2. None \in State
  BY DEF None, State
<1> QED
  BY <1>1, <1>2 DEF NoTask, TaskType, Phase, Name, Idle, Holds, Writes, WillSet, Is

LEMMA NoTaskJoins == \A r \in Runners : Joins(r, NoTask)
BY NoTaskType DEF Joins, NoTask

LEMMA NewTask ==
  ASSUME NEW s \in Name, NEW q \in Todo
  PROVE  /\ Task(s, q) \in TaskType /\ Task(s, q).s = s /\ Task(s, q).todo = q
         /\ Task(s, q).phase = "run" /\ Task(s, q).ids = {}
BY NoTaskType DEF Task, NoTask, TaskType

\* A task that goes on with a list in which nothing is created.
LEMMA GoesOn ==
  ASSUME NEW r \in Runners, At(r) \in TaskType, ~Idle(At(r)), At(r).s # Nobody,
         NEW l \in TaskType, l.s = At(r).s, l.todo \in Seq(Further),
         l.phase \notin {"got", "set", "sending"}, l.ids \subseteq At(r).ids
  PROVE  Joins(r, l)
<1>1. ~Writes(l) /\ ~Is(l, "members")
  BY FurtherIsTodo DEF Writes, Is, Further
<1> QED
  BY <1>1 DEF Joins, Holds, WillSet

LEMMA DoneType ==
  ASSUME NEW k \in TaskType, ~Idle(k)
  PROVE  /\ Done(k) \in TaskType /\ Done(k).todo \in Seq(Further)
         /\ Done(k).phase = "run" /\ Done(k).ids \subseteq k.ids
         /\ Idle(Done(k)) \/ Done(k).s = k.s
<1>1. k.todo \in Todo /\ k.todo # <<>>
  BY DEF TaskType, Idle
<1>2. Tail(k.todo) \in Seq(Further) /\ Tail(k.todo) \in Todo
  BY <1>1, RestOfTodo, FurtherIsTodo
<1>3. CASE Len(k.todo) = 1
  BY <1>3, NoTaskType, EmptySeq DEF Done, NoTask
<1>4. CASE Len(k.todo) # 1
  <2>1. Done(k) = [k EXCEPT !.todo = Tail(k.todo), !.phase = "run", !.got = None]
    BY <1>4 DEF Done
  <2>2. None \in State
    BY DEF None, State
  <2> QED
    BY <1>2, <2>1, <2>2 DEF TaskType, Phase
<1> QED
  BY <1>3, <1>4

LEMMA DoneJoins ==
  ASSUME NEW r \in Runners, NEW k \in TaskType, At(r) \in TaskType, ~Idle(At(r)),
         At(r).s # Nobody,
         k.s = At(r).s, k.todo = At(r).todo, k.ids = At(r).ids
  PROVE  Joins(r, Done(k))
<1>1. ~Idle(k)
  BY DEF Idle
<1>2. ~Writes(Done(k)) /\ ~Is(Done(k), "members")
  BY <1>1, DoneType, FurtherIsTodo DEF Writes, Is, Further
<1> QED
  BY <1>1, <1>2, DoneType DEF Joins, Holds, WillSet

-----------------------------------------------------------------------------
(* The actions.                                                            *)

LEMMA Typed ==
  ASSUME ServerInv
  PROVE  /\ TasksTyped /\ \A r \in Runners : At(r) \in TaskType /\ Holds(At(r))
         /\ \A c \in Socket : <<"task", c>> \in Runners /\ <<"reply", c>> \in Runners
         /\ \A t \in Socket \cup Request : <<"task", t>> \in Runners
BY AtType DEF ServerInv, ServerTypes, TasksTyped, WhatIsReadLives, Runners

\* Nothing but sockets: no runner moves.
LEMMA StillKeeps ==
  ASSUME ServerInv, UNCHANGED <<record, index, workers, made, issued, quiet, task, reply>>
  PROVE  ServerInv'
<1>1. TasksTyped' /\ Moves
  BY Typed DEF TasksTyped, Moves, At
<1> QED
  BY <1>1, TaskStepKeeps

LEMMA SocketKeeps ==
  ASSUME ServerInv, NEW c \in Socket,
         Accept(c) \/ ProtocolError(c) \/ Disconnect(c) \/ Notice(c)
  PROVE  ServerInv'
BY StillKeeps DEF Accept, ProtocolError, Disconnect, Notice, redis, host, history

LEMMA OutType ==
  ASSUME NEW k \in TaskType, ~Idle(k)
  PROVE  Out(k) \in Seq(Events \cup Messages)
<1>1. k.todo \in Todo /\ k.todo # <<>> /\ k.out \in Seq(Events \cup Messages)
  BY DEF TaskType, Idle
<1>2. Head(k.todo).arg \in Events \cup Messages
  BY <1>1, RestOfTodo DEF Steps
<1> QED
  BY <1>1, <1>2, AppendProperties DEF Out

LEMMA EmittedJoins ==
  ASSUME NEW r \in Runners, At(r) \in TaskType, Holds(At(r)), Is(At(r), "flush")
  PROVE  Joins(r, Emitted(At(r)))
<1> DEFINE k == At(r)
<1>1. ~Idle(k) /\ ~Writes(k) /\ ~Is(k, "to") /\ k.s # Nobody
  BY DEF Is, Idle, Writes, Holds
<1>2. CASE Len(Out(k)) <= 1
  <2>1. [k EXCEPT !.out = <<>>] \in TaskType
    BY EmptySeq DEF TaskType
  <2>2. /\ [k EXCEPT !.out = <<>>].s = k.s /\ [k EXCEPT !.out = <<>>].todo = k.todo
        /\ [k EXCEPT !.out = <<>>].ids = k.ids
    BY DEF TaskType
  <2> QED
    BY <1>1, <1>2, <2>1, <2>2, DoneJoins DEF Emitted
<1>3. CASE ~(Len(Out(k)) <= 1)
  <2> DEFINE l == [k EXCEPT !.out = Tail(Out(k)), !.phase = "more"]
  <2>1. Out(k) \in Seq(Events \cup Messages) /\ Out(k) # <<>>
    BY <1>1, <1>3, OutType, EmptySeq
  <2>2. Tail(Out(k)) \in Seq(Events \cup Messages)
    BY <2>1, HeadTailProperties
  <2>3. l \in TaskType /\ l.s = k.s /\ l.todo = k.todo /\ l.ids = k.ids /\ l.phase = "more"
    BY <2>2 DEF TaskType, Phase
  <2>4. Emitted(k) = l
    BY <1>3 DEF Emitted
  <2> QED
    BY <1>1, <2>3, <2>4 DEF Joins, Holds, Writes, WillSet, Is, Idle
<1> QED
  BY <1>2, <1>3

LEMMA EmitKeeps ==
  ASSUME ServerInv, NEW r \in Runners, NEW c \in Socket, Emit(r, c)
  PROVE  ServerInv'
<1> DEFINE k == At(r)
           l == [k EXCEPT !.phase = "sending", !.out = Out(k)]
<1>1. k \in TaskType /\ Is(k, "flush") /\ ~Idle(k) /\ Holds(k) /\ k.s # Nobody
  BY Typed DEF Emit, Is, Idle, Holds
<1>2. Joins(r, Emitted(k))
  BY <1>1, EmittedJoins
<1>3. l \in TaskType /\ l.s = k.s /\ l.todo = k.todo /\ l.ids = k.ids /\ l.phase = "sending"
  BY <1>1, OutType DEF TaskType, Phase
<1>4. Joins(r, l)
  BY <1>1, <1>3 DEF Joins, Holds, Writes, WillSet, Is, Idle
<1>5. Becomes(r, Emitted(k)) \/ Becomes(r, l)
  BY DEF Emit
<1>6. TasksTyped' /\ Moves
  BY <1>2, <1>4, <1>5, OneMoves, Typed
<1> QED
  BY <1>6, TaskStepKeeps DEF Emit, redis, host, history

LEMMA SendKeeps ==
  ASSUME ServerInv, NEW c \in Socket, Send(c)
  PROVE  ServerInv'
<1>1. PICK r \in Runners : At(r).phase = "sending" /\ Becomes(r, Emitted(At(r)))
  BY DEF Send
<1>2. At(r) \in TaskType /\ Holds(At(r)) /\ Is(At(r), "flush")
  BY <1>1, Typed DEF Holds
<1>3. TasksTyped' /\ Moves
  BY <1>1, <1>2, EmittedJoins, OneMoves, Typed
<1> QED
  BY <1>3, TaskStepKeeps DEF Send, redis, host, history

\* The reading of the record and the call of apply_message keep a task's type.
LEMMA StartJoins ==
  ASSUME NEW r \in Runners, At(r) \in TaskType, Holds(At(r)), Is(At(r), "message")
  PROVE  Joins(r, [At(r) EXCEPT !.todo = Apply(Head(@).arg, At(r).s) \o Tail(@),
                                !.phase = "run", !.got = None])
<1> DEFINE k == At(r)
           q == Apply(Head(k.todo).arg, k.s) \o Tail(k.todo)
           l == [k EXCEPT !.todo = q, !.phase = "run", !.got = None]
<1>1. k.todo \in Todo /\ k.todo # <<>> /\ Head(k.todo).do = "message"
  BY DEF TaskType, Is
<1>2. Head(k.todo).arg \in Messages /\ Tail(k.todo) \in Seq(Further)
  BY <1>1, RestOfTodo DEF Steps
<1>3. q \in Seq(Further)
  BY <1>2, ApplyList, ConcatProperties
<1>4. q \in Todo
  BY <1>3, FurtherIsTodo
<1> HIDE DEF q
<1>5. /\ l \in TaskType /\ l.s = k.s /\ l.todo = q /\ l.phase = "run" /\ l.ids = k.ids
  BY <1>4 DEF TaskType, Phase, None, State
<1>6. ~Idle(k) /\ k.s # Nobody
  BY <1>1 DEF Idle, Holds, Is
<1>7. Joins(r, l)
  BY <1>3, <1>5, <1>6, GoesOn
<1> QED
  BY <1>7 DEF q

\* Of a reply that fails only its finally block is left.
LEMMA EndsJoins ==
  ASSUME NEW r \in Runners, At(r) \in TaskType, ~Idle(At(r)), At(r).s # Nobody
  PROVE  Joins(r, Task(At(r).s, <<Do("finally")>>))
<1> DEFINE q == <<Do("finally")>>
           l == Task(At(r).s, q)
<1>1. q \in Seq(Further) /\ q \in Todo /\ At(r).s \in Name
  BY FurtherLists, FurtherIsTodo DEF TaskType
<1> HIDE DEF q
<1>2. l \in TaskType /\ l.s = At(r).s /\ l.todo = q /\ l.phase = "run" /\ l.ids = {}
  BY <1>1, NewTask
<1> HIDE DEF l
<1>3. Joins(r, l)
  BY <1>1, <1>2, GoesOn
<1> QED
  BY <1>3 DEF l, q

LEMMA RaisesMoves ==
  ASSUME ServerInv, NEW r \in Runners, ~Idle(At(r)), At(r).s # Nobody, Raises(r)
  PROVE  TasksTyped' /\ Moves
<1> DEFINE k == At(r)
           l == [k EXCEPT !.todo = <<Flush("error")>>, !.phase = "run", !.out = <<>>]
<1>1. k \in TaskType /\ k.s \in Name
  BY Typed DEF TaskType
<1>2. <<Flush("error")>> \in Todo /\ <<Do("finally")>> \in Todo
  BY FurtherLists, FurtherIsTodo
<1>3. l \in TaskType /\ l.s = k.s /\ l.todo = <<Flush("error")>> /\ l.phase = "run"
      /\ l.ids = k.ids
  BY <1>1, <1>2, EmptySeq DEF TaskType, Phase
<1>4. Joins(r, l)
  BY <1>1, <1>3, FurtherLists, GoesOn
<1>5. Joins(r, Task(k.s, <<Do("finally")>>))
  BY <1>1, EndsJoins
<1>6. Becomes(r, l) \/ Becomes(r, Task(k.s, <<Do("finally")>>)) \/ Becomes(r, NoTask)
  BY DEF Raises
<1> QED
  BY <1>4, <1>5, <1>6, NoTaskJoins, OneMoves, Typed

LEMMA LookupKeeps ==
  ASSUME ServerInv, NEW r \in Runners, Lookup(r)
  PROVE  ServerInv'
<1> DEFINE k == At(r)
           l == [k EXCEPT !.got = record[k.s], !.phase = "got"]
<1>1. k \in TaskType /\ Is(k, "message") /\ ~Idle(k) /\ Holds(k) /\ k.s \in Session
  BY Typed DEF Lookup, Is, Idle, Holds, TaskType, Name
<1>2. Start(r, k) => TasksTyped' /\ Moves
  BY <1>1, StartJoins, OneMoves, Typed DEF Start
<1>3. CASE UNCHANGED host
  <2>1. Start(r, k) \/ Raises(r) \/ (record[k.s] # None /\ Becomes(r, l))
    BY DEF Lookup
  <2>2. ASSUME record[k.s] # None, Becomes(r, l) PROVE TasksTyped' /\ Moves
    <3>1. record[k.s] \in State /\ Live(record[k.s])
      BY <1>1, <2>2 DEF ServerInv, ServerTypes, WhatIsReadLives
    <3>2. /\ l \in TaskType /\ l.s = k.s /\ l.todo = k.todo /\ l.phase = "got"
          /\ l.ids = k.ids /\ l.got = record[k.s]
      BY <1>1, <3>1 DEF TaskType, Phase
    <3>3. k.s # Nobody
      BY <1>1, ServerAssumption
    <3>4. Joins(r, l)
      BY <1>1, <3>1, <3>2, <3>3 DEF Joins, Holds, Writes, WillSet, Is, Idle
    <3> QED
      BY <2>2, <3>4, OneMoves, Typed
  <2>3. TasksTyped' /\ Moves
    BY <1>1, <1>2, <2>1, <2>2, RaisesMoves, ServerAssumption
  <2> QED
    BY <1>3, <2>3, TaskStepKeeps DEF Lookup, redis, host, history
<1>4. CASE k.phase = "got" /\ GetOrCreate(k.s, k.got) /\ Start(r, k)
  <2>1. Live(k.got) /\ k.got \in State
    BY <1>1, <1>4 DEF Holds, TaskType
  <2>2. /\ workers \in [Session -> State] /\ made \in [Session -> Nat]
        /\ MadeIsThere
    BY DEF ServerInv, ServerTypes
  <2>3. CASE workers[k.s] # None
    BY <1>2, <1>4, <2>3, TaskStepKeeps DEF GetOrCreate, Lookup, redis, history
  <2>4. CASE workers[k.s] = None
    <3>1. /\ workers' = [workers EXCEPT ![k.s] = k.got]
          /\ made' = [made EXCEPT ![k.s] = made[k.s] + 1]
      BY <1>4, <2>4 DEF GetOrCreate
    <3>2. made[k.s] = 0
      BY <1>1, <2>2, <2>4 DEF MadeIsThere, Live, None
    <3>3. workers' \in [Session -> State] /\ made' \in [Session -> Nat] /\ MadeIsThere'
      BY <1>1, <2>1, <2>2, <3>1, <3>2 DEF MadeIsThere
    <3>4. UNCHANGED <<record, index, issued, quiet>>
      BY DEF Lookup, redis, history
    <3> QED
      BY <1>2, <1>4, <3>3, <3>4, StoreStays
  <2> QED
    BY <2>3, <2>4
<1> QED
  BY <1>3, <1>4 DEF Lookup

\* The steps without an await, and what follows a step that is done.
LEMMA DoneMoves ==
  ASSUME ServerInv, NEW r \in Runners, ~Idle(At(r)), At(r).s # Nobody,
         Becomes(r, Done(At(r)))
  PROVE  TasksTyped' /\ Moves
BY DoneJoins, OneMoves, Typed

LEMMA InSession ==
  ASSUME ServerInv, NEW r \in Runners, NEW d, Is(At(r), d), d \notin {"members", "read"}
  PROVE  ~Idle(At(r)) /\ At(r).s \in Session /\ At(r).s # Nobody
BY Typed, ServerAssumption DEF Holds, Is, Idle, TaskType, Name

LEMMA LocalKeeps ==
  ASSUME ServerInv, NEW r \in Runners, Local(r)
  PROVE  ServerInv'
<1> DEFINE k == At(r)
<1>1. ~Idle(k) /\ k.s \in Session /\ k.s # Nobody
  BY InSession DEF Local
<1>2. TasksTyped' /\ Moves
  BY <1>1, DoneMoves, NoTaskJoins, OneMoves, Typed DEF Local
<1>3. workers \in [Session -> State] /\ made \in [Session -> Nat] /\ MadeIsThere
  BY DEF ServerInv, ServerTypes
<1>4. UNCHANGED <<record, index, made, issued, quiet>>
  BY DEF Local, redis, history
<1>5. CASE workers' = [workers EXCEPT ![k.s] = BeginTurn(@)]
  <2>1. BeginTurn(workers[k.s]) \in State
        /\ BeginTurn(workers[k.s]).status = workers[k.s].status
    <3>1. PICK w \in State : w = workers[k.s]
      BY <1>1, <1>3
    <3>2. w.turns \in Nat /\ w.turns + 1 \in Nat
      BY DEF State
    <3>3. [w EXCEPT !.turns = w.turns + 1, !.active = TRUE] \in State
      BY <3>2 DEF State
    <3>4. [w EXCEPT !.turns = w.turns + 1, !.active = TRUE].status = w.status
      BY DEF State
    <3> QED
      BY <3>1, <3>3, <3>4 DEF BeginTurn
  <2>2. workers' \in [Session -> State] /\ MadeIsThere'
    BY <1>1, <1>3, <1>4, <1>5, <2>1 DEF MadeIsThere, Live
  <2> QED
    BY <1>2, <1>3, <1>4, <2>2, StoreStays
<1>6. CASE workers' = [workers EXCEPT ![k.s] = CompleteTurn(@)]
  <2>1. CompleteTurn(workers[k.s]) \in State
        /\ CompleteTurn(workers[k.s]).status = workers[k.s].status
    BY <1>1, <1>3 DEF CompleteTurn, State
  <2>2. workers' \in [Session -> State] /\ MadeIsThere'
    BY <1>1, <1>3, <1>4, <1>6, <2>1 DEF MadeIsThere, Live
  <2> QED
    BY <1>2, <1>3, <1>4, <2>2, StoreStays
<1>7. CASE workers' = workers
  BY <1>2, <1>4, <1>7, TaskStepKeeps
<1> QED
  BY <1>5, <1>6, <1>7 DEF Local

LEMMA UpdateGetKeeps ==
  ASSUME ServerInv, NEW r \in Runners, UpdateGet(r)
  PROVE  ServerInv'
<1> DEFINE k == At(r)
           target == Head(k.todo).arg
           copy == record[k.s]
           l == [k EXCEPT !.phase = "got", !.got = [copy EXCEPT !.status = target]]
<1>1. ~Idle(k) /\ k.s \in Session /\ k.s # Nobody /\ k \in TaskType /\ Is(k, "to")
  BY InSession, Typed DEF UpdateGet
<1>2. \/ Becomes(r, Done(k)) \/ Raises(r)
      \/ copy # None /\ CanTransition(copy.status, target) /\ Becomes(r, l)
  BY DEF UpdateGet, Copy
<1>3. ASSUME copy # None, CanTransition(copy.status, target), Becomes(r, l)
      PROVE  TasksTyped' /\ Moves
  <2>1. copy \in State /\ copy.status \in Status
    BY <1>1, <1>3 DEF ServerInv, ServerTypes, WhatIsReadLives, Live, State
  <2>2. target \in Status
    BY <1>3, <2>1 DEF CanTransition, Allowed, Status
  <2>3. target # "none"
    BY <2>2 DEF Status
  <2> HIDE DEF target
  <2>4. [copy EXCEPT !.status = target] \in State
        /\ [copy EXCEPT !.status = target].status = target
    BY <2>1, <2>2 DEF State
  <2>5. /\ l \in TaskType /\ l.s = k.s /\ l.todo = k.todo /\ l.phase = "got"
        /\ l.ids = k.ids /\ l.got = [copy EXCEPT !.status = target]
    BY <1>1, <2>4 DEF TaskType, Phase
  <2>6. k.s \notin quiet'
    BY <1>3 DEF UpdateGet, history, ServerInv, QuietInv
  <2>7. Holds(l)
    BY <1>1, <2>3, <2>4, <2>5 DEF Holds, Live, Is
  <2>8. Joins(r, l)
    BY <1>1, <2>5, <2>6, <2>7 DEF Joins, Writes, WillSet, Is, Idle
  <2> QED
    BY <1>3, <2>8, OneMoves, Typed
<1>4. TasksTyped' /\ Moves
  BY <1>1, <1>2, <1>3, DoneMoves, RaisesMoves
<1> QED
  BY <1>4, TaskStepKeeps DEF UpdateGet, redis, host, history

LEMMA UpdatedKeeps ==
  ASSUME ServerInv, NEW r \in Runners, Updated(r)
  PROVE  ServerInv'
<1> DEFINE k == At(r)
           l == [Done(k) EXCEPT !.out = Append(@, k.got.status)]
<1>1. /\ ~Idle(k) /\ k.s \in Session /\ k.s # Nobody /\ k \in TaskType
      /\ k.phase = "set" /\ Holds(k)
  BY InSession, Typed DEF Updated
<1>2. Live(k.got) /\ k.got \in State
  BY <1>1 DEF Holds, TaskType
<1>3. k.got.status \in Events
  BY <1>2 DEF Live, State, Events
<1>4. /\ Done(k) \in TaskType /\ Done(k).todo \in Seq(Further) /\ Done(k).phase = "run"
      /\ Done(k).ids \subseteq k.ids /\ (Idle(Done(k)) \/ Done(k).s = k.s)
  BY <1>1, DoneType
<1>5. Append(Done(k).out, k.got.status) \in Seq(Events \cup Messages)
  BY <1>3, <1>4, AppendProperties DEF TaskType
<1>6. /\ l \in TaskType /\ l.todo = Done(k).todo /\ l.phase = "run"
      /\ l.ids \subseteq k.ids /\ (Idle(l) \/ l.s = k.s)
  BY <1>4, <1>5 DEF TaskType, Idle
<1>7. ~Writes(l) /\ ~Is(l, "members")
  BY <1>4, <1>6, FurtherIsTodo DEF Writes, Is, Further
<1>8. Joins(r, l)
  BY <1>1, <1>6, <1>7 DEF Joins, Holds, WillSet
<1>9. TasksTyped' /\ Moves
  BY <1>8, OneMoves, Typed DEF Updated
<1>10. workers' = [workers EXCEPT ![k.s] = k.got] /\ UNCHANGED <<record, index, made, issued, quiet>>
  BY DEF Updated, redis, history
<1>11. workers' \in [Session -> State] /\ made' \in [Session -> Nat] /\ MadeIsThere'
  BY <1>1, <1>2, <1>10 DEF ServerInv, ServerTypes, MadeIsThere
<1> QED
  BY <1>9, <1>10, <1>11, StoreStays

LEMMA UpdateSetKeeps ==
  ASSUME ServerInv, NEW r \in Runners, UpdateSet(r)
  PROVE  ServerInv'
<1> DEFINE k == At(r)
           l == [k EXCEPT !.phase = "set"]
<1>1. /\ ~Idle(k) /\ k.s \in Session /\ k.s # Nobody /\ k \in TaskType
      /\ k.phase = "got" /\ Is(k, "to") /\ Holds(k)
  BY InSession, Typed DEF UpdateSet
<1>2. Live(k.got) /\ k.got \in State
  BY <1>1 DEF Holds, TaskType
<1>3. l \in TaskType /\ l.s = k.s /\ l.todo = k.todo /\ l.phase = "set" /\ l.ids = k.ids
      /\ l.got = k.got
  BY <1>1 DEF TaskType, Phase
<1>4. Joins(r, l)
  BY <1>1, <1>2, <1>3 DEF Joins, Holds, Writes, WillSet, Is, Idle
<1>5. TasksTyped' /\ Moves
  BY <1>4, OneMoves, Typed DEF UpdateSet
<1>6. /\ record' = [record EXCEPT ![k.s] = k.got]
      /\ UNCHANGED <<index, workers, made, issued, quiet>>
  BY DEF UpdateSet, host
<1>7. k.s \notin quiet
  BY <1>1 DEF ServerInv, QuietInv, Untouched, WillSet
<1>8. /\ record' \in [Session -> State]
      /\ \A s \in Session : record'[s] # None => Live(record'[s])
  BY <1>1, <1>2, <1>6 DEF ServerInv, ServerTypes, WhatIsReadLives
<1>9. \A s \in quiet' : s \in issued /\ record'[s] = None /\ Untouched(s)
  BY <1>1, <1>6, <1>7 DEF ServerInv, QuietInv, ServerTypes
<1>10. \A s \in index' : s \in Session => Made(s)
  BY <1>6 DEF ServerInv, Listed
<1> QED
  BY <1>5, <1>6, <1>8, <1>9, <1>10, StepKeeps DEF ServerInv, ServerTypes, MadeIsThere

\* Who is at a step other than the first of a creation: the key was written.
LEMMA UserIsMade ==
  ASSUME ServerInv, NEW r \in Runners, ~Idle(At(r)), At(r).s \in Session, ~Writes(At(r))
  PROVE  Made(At(r).s)
<1>1. At(r).s \in issued
  BY ServerAssumption DEF ServerInv, NotIssued
<1>2. ASSUME NEW q \in Runners, At(q).s = At(r).s, Writes(At(q)) PROVE FALSE
  BY <1>2 DEF ServerInv, OneCreator
<1> QED
  BY <1>1, <1>2 DEF Made, NotCreated

LEMMA CommandKeeps ==
  ASSUME ServerInv, NEW r \in Runners, Command(r)
  PROVE  ServerInv'
<1> DEFINE k == At(r)
<1>1. ~Idle(k) /\ k.s \in Session /\ k.s # Nobody /\ k \in TaskType
  BY InSession, Typed DEF Command
<1>2. TasksTyped' /\ Moves
  BY <1>1, DoneMoves, RaisesMoves DEF Command
<1>3. UNCHANGED <<workers, made, issued>>
  BY DEF Command, host
<1>4. /\ record \in [Session -> State] /\ index \subseteq Session
      /\ \A s \in Session : record[s] # None => Live(record[s])
      /\ \A s \in index : s \in Session => Made(s)
      /\ \A s \in quiet : s \in issued /\ record[s] = None /\ Untouched(s)
  BY DEF ServerInv, ServerTypes, WhatIsReadLives, Listed, QuietInv
\* It is enough to look at the store.
<1>5. ASSUME record' \in [Session -> State], index' \subseteq Session,
             \A s \in Session : record'[s] # None => Live(record'[s]),
             \A s \in index' : s \in Session => Made(s),
             \A s \in quiet' : s \in issued /\ record'[s] = None /\ Untouched(s)
      PROVE  ServerInv'
  BY <1>2, <1>3, <1>5, StepKeeps DEF ServerInv, ServerTypes, MadeIsThere
<1>6. CASE Is(k, "write") /\ record' = [record EXCEPT ![k.s] = Fresh] /\ UNCHANGED <<index, quiet>>
  <2>1. Fresh \in State /\ Live(Fresh)
    BY DEF Fresh, State, Live, Status
  <2>2. k.s \notin quiet
    BY <1>1, <1>4, <1>6 DEF Untouched, NotCreated, Writes
  <2>3. record' \in [Session -> State]
    BY <1>1, <1>4, <1>6, <2>1
  <2>4. \A s \in Session : record'[s] # None => Live(record'[s])
    BY <1>1, <1>4, <1>6, <2>1
  <2>5. \A s \in quiet' : s \in issued /\ record'[s] = None /\ Untouched(s)
    BY <1>4, <1>6, <2>2
  <2> QED
    BY <1>4, <1>5, <1>6, <2>3, <2>4, <2>5
<1>7. CASE Is(k, "enter") /\ index' = index \cup {k.s} /\ UNCHANGED <<record, quiet>>
  <2>1. Made(k.s)
    BY <1>1, <1>7, UserIsMade DEF Writes, Is
  <2> QED
    BY <1>1, <1>4, <1>5, <1>7, <2>1 DEF Name
<1>8. CASE UNCHANGED <<record, index, quiet>>
  BY <1>4, <1>5, <1>8
<1>9. CASE Is(k, "leave") /\ index' = index \ {k.s} /\ UNCHANGED <<record, quiet>>
  BY <1>4, <1>5, <1>9
<1>10. CASE /\ Is(k, "delete") /\ record' = [record EXCEPT ![k.s] = None] /\ index' = index
            /\ IF Updating(k.s) THEN quiet' = quiet \ {k.s} ELSE quiet' = quiet \cup ({k.s} \ raced)
  <2>1. Made(k.s)
    BY <1>1, <1>10, UserIsMade DEF Writes, Is
  <2>2. ASSUME ~Updating(k.s) PROVE Untouched(k.s)
    <3>1. ASSUME NEW q \in Runners, At(q).s = k.s, WillSet(At(q)) PROVE FALSE
      BY <2>2, <3>1 DEF WillSet, Updating, Uses, Is, Idle
    <3> QED
      BY <2>1, <3>1 DEF Untouched, Made
  <2>3. record' \in [Session -> State] /\ record'[k.s] = None
        /\ \A s \in Session : s # k.s => record'[s] = record[s]
    BY <1>1, <1>4, <1>10 DEF None, State
  <2>4. ASSUME NEW s \in quiet' PROVE s \in issued /\ record'[s] = None /\ Untouched(s)
    <3>1. CASE s = k.s
      BY <1>1, <1>4, <1>10, <2>1, <2>2, <2>3, <3>1 DEF Made
    <3>2. CASE s # k.s
      BY <1>4, <1>10, <2>4, <3>2
    <3> QED
      BY <3>1, <3>2
  <2> QED
    BY <1>4, <1>5, <1>10, <2>3, <2>4
<1> QED
  BY <1>6, <1>7, <1>8, <1>9, <1>10 DEF Command, redis

LEMMA SpawnKeeps ==
  ASSUME ServerInv, NEW c \in Socket, Spawn(c)
  PROVE  ServerInv'
<1> DEFINE t == <<"task", c>>
           p == <<"reply", c>>
           k == task[c]
<1>1. t \in Runners /\ p \in Runners /\ t # p /\ At(t) = k /\ At(p) = reply[c]
  BY Typed DEF At
<1>2. ~Idle(k) /\ k.s \in Session /\ k.s # Nobody /\ ~Writes(k) /\ k \in TaskType
  BY <1>1, InSession, Typed DEF Spawn, Is, Writes
<1>3. Made(k.s)
  BY <1>1, <1>2, UserIsMade
<1>4. Joins(t, Done(k))
  BY <1>1, <1>2, DoneJoins
<1>5. Joins(p, Task(k.s, Replying))
  <2> DEFINE l == Task(k.s, Replying)
  <2>1. Replying \in Seq(Further) /\ Replying \in Todo
    BY FurtherLists, FurtherIsTodo
  <2>2. l \in TaskType /\ l.s = k.s /\ l.todo = Replying /\ l.phase = "run" /\ l.ids = {}
    BY <1>2, <2>1, NewTask DEF Name
  <2> HIDE DEF l
  <2>3. ~Writes(l) /\ ~Is(l, "members")
    BY <2>1, <2>2, FurtherIsTodo DEF Writes, Is, Further
  <2>4. Joins(p, l)
    BY <1>2, <1>3, <2>2, <2>3 DEF Joins, Holds, WillSet
  <2> QED
    BY <2>4 DEF l
<1>6. /\ task' = [task EXCEPT ![c] = Done(k)]
      /\ reply' = [reply EXCEPT ![c] = Task(k.s, Replying)]
  BY DEF Spawn
<1>7. Done(k) \in TaskType /\ Task(k.s, Replying) \in TaskType
  BY <1>4, <1>5 DEF Joins
<1>8. TasksTyped'
  BY <1>6, <1>7, Typed DEF TasksTyped
<1>9. At(t)' = Done(k) /\ At(p)' = Task(k.s, Replying)
  BY <1>6, Typed DEF At, TasksTyped
<1>10. \A q \in Runners : q # t /\ q # p => At(q)' = At(q)
  BY <1>6, Typed DEF At, TasksTyped, Runners
<1>11. Moves
  BY <1>4, <1>5, <1>9, <1>10 DEF Moves
<1> QED
  BY <1>8, <1>11, TaskStepKeeps DEF Spawn, redis, history

LEMMA StopKeeps ==
  ASSUME ServerInv, NEW c \in Socket, Stop(c)
  PROVE  ServerInv'
<1> DEFINE t == <<"task", c>>
           k == task[c]
           d == current[k.s]
<1>1. t \in Runners /\ At(t) = k
  BY Typed DEF At
<1>2. ~Idle(k) /\ k.s \in Session /\ k.s # Nobody /\ k \in TaskType
  BY <1>1, InSession, Typed DEF Stop
<1>3. Joins(t, Done(k))
  BY <1>1, <1>2, DoneJoins
<1>4. task' = [task EXCEPT ![c] = Done(k)]
      /\ (reply' = reply \/ reply' = [reply EXCEPT ![d] = NoTask])
  BY DEF Stop
<1> HIDE DEF d
<1>5. Done(k) \in TaskType /\ NoTask \in TaskType
  BY <1>3, NoTaskType DEF Joins
<1>6. TasksTyped'
  BY <1>4, <1>5, Typed DEF TasksTyped
<1>7. At(t)' = Done(k)
  BY <1>4, Typed DEF At, TasksTyped
<1>8. ASSUME NEW q \in Runners, q # t PROVE At(q)' = At(q) \/ At(q)' = NoTask
  <2>1. CASE q[1] = "task"
    BY <1>4, <1>8, <2>1, Typed DEF At, TasksTyped, Runners
  <2>2. CASE q[1] # "task"
    <3>1. q[2] \in Socket
      BY <2>2 DEF Runners
    <3>2. reply'[q[2]] = reply[q[2]] \/ reply'[q[2]] = NoTask
      BY <1>4, <3>1, Typed DEF TasksTyped
    <3> QED
      BY <2>2, <3>2 DEF At
  <2> QED
    BY <2>1, <2>2
<1>9. Moves
  BY <1>3, <1>7, <1>8, NoTaskJoins DEF Moves
<1>10. workers' = [workers EXCEPT ![k.s] = CompleteTurn(workers[k.s])]
       /\ UNCHANGED <<record, index, made, issued, quiet>>
  BY DEF Stop, redis, history
<1>11. /\ CompleteTurn(workers[k.s]) \in State
       /\ CompleteTurn(workers[k.s]).status = workers[k.s].status
  BY <1>2 DEF CompleteTurn, State, ServerInv, ServerTypes
<1>12. workers' \in [Session -> State] /\ made' \in [Session -> Nat] /\ MadeIsThere'
  BY <1>2, <1>10, <1>11 DEF ServerInv, ServerTypes, MadeIsThere, Live
<1> QED
  BY <1>6, <1>9, <1>10, <1>12, StoreStays

\* A listing, from its members to the last of them.
LEMMA ListingKeeps ==
  ASSUME ServerInv, NEW h \in Request, Members(h) \/ Read(h) \/ Drop(h)
  PROVE  ServerInv'
<1> DEFINE r == <<"task", h>>
           k == task[h]
<1>1. r \in Runners /\ At(r) = k /\ k \in TaskType /\ Holds(k) /\ TasksTyped
  BY Typed DEF At
<1>2. ~Idle(k) /\ k.todo \in Todo
  BY <1>1 DEF Members, Read, Drop, Is, Idle, TaskType
<1>3. /\ record \in [Session -> State] /\ index \subseteq Session
      /\ \A s \in index : s \in Session => Made(s)
      /\ \A s \in quiet : s \in issued /\ record[s] = None /\ Untouched(s)
      /\ \A s \in Session : record[s] # None => Live(record[s])
  BY DEF ServerInv, ServerTypes, WhatIsReadLives, Listed, QuietInv
\* It is enough that the request goes on as a listing does.
<1>4. ASSUME NEW l, Joins(r, l), task' = [task EXCEPT ![h] = l], reply' = reply,
             UNCHANGED <<record, workers, made, issued, quiet>>, index' \subseteq index
      PROVE  ServerInv'
  <2>1. Becomes(r, l)
    BY <1>4 DEF Becomes
  <2>2. TasksTyped' /\ Moves
    BY <1>1, <1>4, <2>1, OneMoves
  <2> QED
    BY <1>3, <1>4, <2>2, StepKeeps DEF ServerInv, ServerTypes, MadeIsThere
<1>5. CASE Members(h)
  <2> DEFINE l == [Done(k) EXCEPT !.ids = index]
  <2>1. /\ Done(k) \in TaskType /\ Done(k).phase = "run"
        /\ (Idle(Done(k)) \/ Done(k).s = k.s)
    BY <1>1, <1>2, DoneType
  <2>2. Tail(k.todo) = <<Do("read")>> /\ k.todo # <<>>
    BY <1>1, <1>5 DEF Members, Holds, Is
  <2>3. Len(k.todo) # 1
    <3>1. k.todo \in Seq(Steps)
      BY <1>2 DEF Todo
    <3>2. Len(Tail(k.todo)) = Len(k.todo) - 1
      BY <2>2, <3>1, HeadTailProperties
    <3>3. Len(<<Do("read")>>) = 1
      OBVIOUS
    <3>4. Len(Tail(k.todo)) = 1
      BY <2>2, <3>3
    <3> DEFINE n == Len(k.todo)
    <3>5. n \in Nat /\ 1 = n - 1
      BY <3>1, <3>2, <3>4
    <3> HIDE DEF n
    <3>6. n # 1
      BY <3>5
    <3> QED
      BY <3>6 DEF n
  <2>4. Done(k).todo = <<Do("read")>>
    BY <1>1, <2>2, <2>3 DEF Done, TaskType
  <2>5. /\ l \in TaskType /\ l.todo = <<Do("read")>> /\ l.phase = "run" /\ l.ids = index
        /\ l.s = Done(k).s
    BY <1>3, <2>1, <2>4 DEF TaskType
  <2>6. Is(l, "read") /\ ~Idle(Done(k))
    <3>1. <<Do("read")>> # <<>> /\ Head(<<Do("read")>>) = Do("read")
      OBVIOUS
    <3>2. Do("read").do = "read"
      BY DEF Do, Step
    <3> HIDE DEF l
    <3> QED
      BY <2>4, <2>5, <3>1, <3>2 DEF Is, Idle
  <2>7. Joins(r, l)
    BY <1>1, <1>2, <2>1, <2>5, <2>6 DEF Joins, Holds, Writes, WillSet, Is, Idle
  <2> QED
    BY <1>4, <1>5, <2>7 DEF Members, redis, host, history
<1>6. CASE Drop(h)
  <2> DEFINE l == [k EXCEPT !.ids = @ \ {k.s}, !.s = Nobody, !.phase = "run"]
  <2>1. l \in TaskType /\ l.todo = k.todo /\ l.s = Nobody /\ l.phase = "run" /\ l.ids \subseteq k.ids
    BY <1>1 DEF TaskType, Phase, Name
  <2>2. Is(l, "read")
    BY <1>6, <2>1 DEF Drop, Is
  <2>3. Joins(r, l)
    BY <1>1, <2>1, <2>2 DEF Joins, Holds, Writes, WillSet, Is
  <2> QED
    BY <1>4, <1>6, <2>3 DEF Drop, host
<1>7. CASE Read(h)
  <2>1. Is(k, "read") /\ k.phase = "run"
    BY <1>7 DEF Read
  <2>2. CASE task' = [task EXCEPT ![h] = NoTask]
    BY <1>1, <1>4, <1>7, <2>2, NoTaskJoins DEF Read, redis, host, history
  <2>3. ASSUME NEW s \in k.ids, task' = [task EXCEPT ![h] = [k EXCEPT !.phase = "stale", !.s = s]]
        PROVE  ServerInv'
    <3> DEFINE l == [k EXCEPT !.phase = "stale", !.s = s]
    <3>1. s \in Name
      BY <1>1, <2>3 DEF TaskType, Name
    <3>2. l \in TaskType /\ l.todo = k.todo /\ l.s = s /\ l.phase = "stale" /\ l.ids = k.ids
      BY <1>1, <3>1 DEF TaskType, Phase
    <3>3. s \in Session => Made(s)
      BY <1>1, <2>3 DEF ServerInv, Listed
    <3>4. Joins(r, l)
      BY <1>1, <2>1, <3>1, <3>2, <3>3 DEF Joins, Holds, Writes, WillSet, Is, Name
    <3> QED
      BY <1>4, <1>7, <2>3, <3>4 DEF Read, redis, host, history
  <2>4. ASSUME NEW s \in k.ids,
               task' = [task EXCEPT ![h] = [k EXCEPT !.ids = @ \ {s}, !.found = @ \cup {s}]]
        PROVE  ServerInv'
    <3> DEFINE l == [k EXCEPT !.ids = @ \ {s}, !.found = @ \cup {s}]
    <3>1. l \in TaskType /\ l.todo = k.todo /\ l.s = k.s /\ l.phase = "run" /\ l.ids \subseteq k.ids
      BY <1>1, <2>1, <2>4 DEF TaskType
    <3>2. Joins(r, l)
      BY <1>1, <1>2, <2>1, <3>1 DEF Joins, Holds, Writes, WillSet, Is
    <3> QED
      BY <1>4, <1>7, <2>4, <3>2 DEF Read, redis, host, history
  <2> QED
    BY <1>7, <2>2, <2>3, <2>4 DEF Read
<1> QED
  BY <1>5, <1>6, <1>7

LEMMA FailureKeeps ==
  ASSUME ServerInv, NEW r \in Runners, RedisFails(r)
  PROVE  ServerInv'
<1>1. ~Idle(At(r)) /\ At(r).s # Nobody
  BY InSession DEF RedisFails
<1>2. Joins(r, Task(At(r).s, <<Do("finally")>>)) /\ Joins(r, NoTask)
  BY <1>1, EndsJoins, NoTaskJoins, Typed
<1>3. Becomes(r, Task(At(r).s, <<Do("finally")>>)) \/ Becomes(r, NoTask)
  BY DEF RedisFails
<1>4. TasksTyped' /\ Moves
  BY <1>2, <1>3, OneMoves, Typed
<1> QED
  BY <1>4, TaskStepKeeps DEF RedisFails, redis, host

\* Redis survives a restart, and nobody is at work.
LEMMA CrashKeeps ==
  ASSUME ServerInv, Crash PROVE ServerInv'
<1>1. TasksTyped' /\ \A r \in Runners : At(r)' = NoTask
  BY NoTaskType DEF Crash, TasksTyped, At, Runners
<1>2. Moves
  BY <1>1, NoTaskJoins DEF Moves
<1>3. workers' \in [Session -> State] /\ made' \in [Session -> Nat] /\ MadeIsThere'
  BY DEF Crash, MadeIsThere, None, State
<1> QED
  BY <1>1, <1>2, <1>3, StoreStays DEF Crash, redis

\* A session that is issued has no user yet but the task that creates it.
LEMMA CreationKeeps ==
  ASSUME ServerInv, NEW r \in Runners, NEW s \in Session \ issued, NEW q \in Todo,
         q # <<>>, Head(q) = Do("write"), Becomes(r, Task(s, q)),
         issued' = issued \cup {s}, UNCHANGED <<record, index, workers, made, quiet>>
  PROVE  ServerInv'
<1> DEFINE l == Task(s, q)
<1>1. l \in TaskType /\ l.s = s /\ l.todo = q /\ l.phase = "run" /\ l.ids = {}
  BY NewTask DEF Name
<1>2. Do("write").do = "write"
  BY DEF Do, Step
<1> HIDE DEF l
<1>3. TasksTyped' /\ At(r)' = l /\ \A p \in Runners : p # r => At(p)' = At(p)
  BY <1>1, BecomesAt, Typed DEF l
<1>4. s # Nobody /\ \A p \in Runners : At(p).s = s => Idle(At(p))
  BY ServerAssumption DEF ServerInv, NotIssued
<1>5. Holds(l) /\ ~WillSet(l)
  BY <1>1, <1>2, <1>4 DEF Holds, WillSet, Is
<1>6. \A x \in issued : NotCreated(x) => NotCreated(x)'
  BY <1>1, <1>3 DEF NotCreated
<1>7. \A x : Made(x) => Made(x)'
  BY <1>6 DEF Made
<1>8. \A x \in issued : Untouched(x) => Untouched(x)'
  BY <1>1, <1>3, <1>6 DEF Untouched
<1>9. ServerTypes'
  BY <1>3 DEF ServerInv, ServerTypes, TasksTyped
<1>10. WhatIsReadLives'
  BY <1>3, <1>5 DEF ServerInv, WhatIsReadLives
<1>11. MadeIsThere'
  BY DEF ServerInv, MadeIsThere
<1>12. OneCreator'
  <2> SUFFICES ASSUME NEW p \in Runners, NEW o \in Runners, Writes(At(p)'),
                      At(p)'.s \in Session, o # p, At(o)'.s = At(p)'.s
               PROVE  Idle(At(o)')
    BY DEF OneCreator
  <2>1. CASE p = r
    BY <1>1, <1>3, <1>4, <2>1
  <2>2. CASE o = r
    BY <1>1, <1>3, <1>4, <2>2 DEF Writes, Is, Idle
  <2>3. CASE p # r /\ o # r
    BY <1>3, <2>3 DEF ServerInv, OneCreator
  <2> QED
    BY <2>1, <2>2, <2>3
<1>13. NotIssued'
  BY <1>1, <1>3 DEF ServerInv, NotIssued
<1>14. Listed'
  BY <1>1, <1>3, <1>7 DEF ServerInv, Listed
<1>15. QuietInv'
  BY <1>8 DEF ServerInv, QuietInv
<1> QED
  BY <1>9, <1>10, <1>11, <1>12, <1>13, <1>14, <1>15 DEF ServerInv

\* A client knows of a session whose key was written.
LEMMA KnownIsMade == \A s \in Known : Made(s)
BY DEF Known, Made, NotCreated, Uses, Writes, Is, Idle

\* A new task for a session that is known, in which nothing is created.
LEMMA KnownJoins ==
  ASSUME NEW r \in Runners, NEW s \in Session, s \in Known, NEW q \in Seq(Further)
  PROVE  Joins(r, Task(s, q))
<1> DEFINE l == Task(s, q)
<1>1. q \in Todo
  BY FurtherIsTodo
<1>2. l \in TaskType /\ l.s = s /\ l.todo = q /\ l.phase = "run" /\ l.ids = {}
  BY <1>1, NewTask DEF Name
<1> HIDE DEF l
<1>3. ~Writes(l) /\ ~Is(l, "members")
  BY <1>2, FurtherIsTodo DEF Writes, Is, Further
<1>4. s # Nobody /\ Made(s)
  BY KnownIsMade, ServerAssumption
<1>5. Joins(r, l)
  BY <1>2, <1>3, <1>4 DEF Joins, Holds, WillSet
<1> QED
  BY <1>5 DEF l

LEMMA ReceiveKeeps ==
  ASSUME ServerInv, NEW c \in Socket, Receive(c)
  PROVE  ServerInv'
<1> DEFINE r == <<"task", c>>
<1>1. r \in Runners /\ r[1] = "task" /\ r[2] = c
  BY Typed
<1>2. UNCHANGED <<record, index, workers, made, quiet, reply>>
  BY DEF Receive, redis, host
<1>3. ASSUME NEW s \in Session \ issued, issued' = issued \cup {s},
             task' = [task EXCEPT ![c] = Task(s, Create \o Message("start"))]
      PROVE  ServerInv'
  <2>1. Becomes(r, Task(s, Create \o Message("start")))
    BY <1>1, <1>2, <1>3 DEF Becomes
  <2> DEFINE q == Create \o Message("start")
  <2>2. q \in Todo /\ q # <<>> /\ Head(q) = Do("write")
    BY CreateIsTodo DEF Messages
  <2>3. Becomes(r, Task(s, q))
    BY <2>1
  <2> HIDE DEF q
  <2> QED
    BY <1>1, <1>2, <1>3, <2>2, <2>3, CreationKeeps
<1>4. ASSUME NEW s \in Session, s \in Known, NEW m \in Messages, issued' = issued,
             task' = [task EXCEPT ![c] = Task(s, Message(m))]
      PROVE  ServerInv'
  <2>1. Becomes(r, Task(s, Message(m)))
    BY <1>1, <1>2, <1>4 DEF Becomes
  <2>2. Joins(r, Task(s, Message(m)))
    BY <1>1, <1>4, FurtherLists, KnownJoins
  <2>3. TasksTyped' /\ Moves
    BY <1>1, <2>1, <2>2, OneMoves, Typed
  <2> QED
    BY <1>2, <1>4, <2>3, TaskStepKeeps
<1>5. Known \subseteq Session
  BY DEF Known, ServerInv, ServerTypes
<1> QED
  BY <1>3, <1>4, <1>5 DEF Receive, Messages

LEMMA AskKeeps ==
  ASSUME ServerInv, NEW h \in Request, Ask(h)
  PROVE  ServerInv'
<1> DEFINE r == <<"task", h>>
<1>1. r \in Runners /\ r[1] = "task" /\ r[2] = h
  BY Typed
<1>2. UNCHANGED <<record, index, workers, made, quiet, reply>>
  BY DEF Ask, redis, host
<1>3. ASSUME NEW s \in Session \ issued, issued' = issued \cup {s},
             task' = [task EXCEPT ![h] = Task(s, Create)]
      PROVE  ServerInv'
  <2>1. Becomes(r, Task(s, Create))
    BY <1>1, <1>2, <1>3 DEF Becomes
  <2> QED
    BY <1>1, <1>2, <1>3, <2>1, CreateIsTodo, CreationKeeps
<1>4. ASSUME NEW l, Joins(r, l), task' = [task EXCEPT ![h] = l], issued' = issued
      PROVE  ServerInv'
  <2>1. Becomes(r, l)
    BY <1>1, <1>2, <1>4 DEF Becomes
  <2>2. TasksTyped' /\ Moves
    BY <1>1, <1>4, <2>1, OneMoves, Typed
  <2> QED
    BY <1>2, <1>4, <2>2, TaskStepKeeps
<1>5. ASSUME NEW s \in Session, s \in Known PROVE Joins(r, Task(s, Delete))
  BY <1>1, <1>5, FurtherLists, KnownJoins
<1>6. Joins(r, Task(Nobody, <<Do("members"), Do("read")>>))
  <2> DEFINE q == <<Do("members"), Do("read")>>
             l == Task(Nobody, q)
  <2>1. q \in Todo /\ q # <<>> /\ Head(q) = Do("members") /\ Tail(q) = <<Do("read")>>
    BY ListingIsTodo
  <2> HIDE DEF q
  <2>2. /\ l \in TaskType /\ l.s = Nobody /\ l.todo = q /\ l.phase = "run" /\ l.ids = {}
    BY <2>1, NewTask DEF Name
  <2>3. Do("members").do = "members"
    BY DEF Do, Step
  <2> HIDE DEF l
  <2>4. Joins(r, l)
    BY <2>1, <2>2, <2>3 DEF Joins, Holds, Writes, WillSet, Is
  <2> QED
    BY <2>4 DEF l, q
<1>7. Known \subseteq Session
  BY DEF Known, ServerInv, ServerTypes
<1> QED
  BY <1>3, <1>4, <1>5, <1>6, <1>7 DEF Ask

LEMMA NextKeeps == ServerInv /\ [Next]_vars => ServerInv'
<1> SUFFICES ASSUME ServerInv, [Next]_vars PROVE ServerInv'
  OBVIOUS
<1>1. ASSUME NEW c \in Socket,
             \/ Accept(c) \/ Receive(c) \/ ProtocolError(c) \/ Disconnect(c)
             \/ Notice(c) \/ Send(c) \/ Spawn(c) \/ Stop(c)
             \/ Emit(<<"task", c>>, c) \/ Emit(<<"reply", c>>, c)
      PROVE  ServerInv'
  <2>1. <<"task", c>> \in Runners /\ <<"reply", c>> \in Runners
    BY Typed
  <2> QED
    BY <1>1, <2>1, SocketKeeps, ReceiveKeeps, SendKeeps, SpawnKeeps, StopKeeps, EmitKeeps
<1>2. ASSUME NEW h \in Request, Ask(h) \/ Members(h) \/ Read(h) \/ Drop(h)
      PROVE  ServerInv'
  BY <1>2, AskKeeps, ListingKeeps
<1>3. ASSUME NEW r \in Runners,
             \/ Lookup(r) \/ Local(r) \/ UpdateGet(r) \/ UpdateSet(r) \/ Updated(r)
             \/ Command(r) \/ RedisFails(r)
      PROVE  ServerInv'
  BY <1>3, LookupKeeps, LocalKeeps, UpdateGetKeeps, UpdateSetKeeps, UpdatedKeeps,
     CommandKeeps, FailureKeeps
<1>4. CASE UNCHANGED vars
  BY <1>4, StillKeeps DEF vars, redis, host, history
<1> QED
  BY <1>1, <1>2, <1>3, <1>4, CrashKeeps DEF Next

LEMMA InitServer == Init => ServerInv
<1> SUFFICES ASSUME Init PROVE ServerInv
  OBVIOUS
<1>1. TasksTyped /\ \A r \in Runners : At(r) = NoTask
  BY NoTaskType DEF Init, TasksTyped, At, Runners
<1>2. None \in State
  BY DEF None, State
<1>3. ServerTypes
  BY <1>1, <1>2 DEF Init, ServerTypes, TasksTyped
<1>4. WhatIsReadLives /\ MadeIsThere
  BY <1>1, NoTaskType DEF Init, WhatIsReadLives, MadeIsThere
<1>5. OneCreator /\ NotIssued
  BY <1>1, NoTaskType DEF OneCreator, NotIssued
<1>6. Listed /\ QuietInv
  BY <1>1 DEF Init, Listed, QuietInv, NoTask
<1> QED
  BY <1>3, <1>4, <1>5, <1>6 DEF ServerInv

-----------------------------------------------------------------------------
\* However many handlers ask for the worker of a session at the same time, with
\* an await between the look-up and the making, one is made
\* (host.py:119-136), and another only after a restart.
THEOREM ServerHasOneWorker == Spec => []OneWorker
<1>1. ServerInv => OneWorker
  BY DEF ServerInv, MadeIsThere, OneWorker
<1> QED
  BY InitServer, NextKeeps, <1>1, PTL DEF Spec

-----------------------------------------------------------------------------
(* The registry: the index, the keys and the listings.                     *)

\* Some steps come in pairs, an await between them: a key and its name are
\* written, deleted, and a listing reads what it found.
Fits(a, b) ==
  /\ a.do = "write" <=> b.do = "enter"
  /\ a.do = "delete" <=> b.do = "leave"
  /\ a.do = "members" <=> b.do = "read"
First  == {"write", "delete", "members"}
Second == {"enter", "leave", "read"}
Paired(q) ==
  /\ \A i \in 1..Len(q) - 1 : Fits(q[i], q[i + 1])
  /\ q # <<>> => q[Len(q)].do \notin First
Complete(q) == Paired(q) /\ (q # <<>> => Head(q).do \notin Second)

\* A reply touches the store by its one update only.
Answering == {x \in Steps : x.do \in {"flush", "complete", "to", "finally"}}

Half(k) == Is(k, "enter") \/ Is(k, "leave") \/ Is(k, "read")
NotEntered(s) == \A r \in Runners : Is(At(r), "enter") => At(r).s # s

\* A runner is at a sound place of its list, and only listings hold names.
ListsInv ==
  /\ \A r \in Runners : Paired(At(r).todo)
  /\ \A c \in Socket : reply[c].todo \in Seq(Answering)
  /\ \A r \in Runners : ~Is(At(r), "read") => At(r).ids = {} /\ At(r).found = {}

\* Whoever creates a session is alone with it until its name is in the index.
EnterInv ==
  /\ \A r, q \in Runners :
       (Is(At(r), "enter") /\ q # r /\ At(q).s = At(r).s) => Idle(At(q))
  /\ \A r \in Runners : Is(At(r), "enter") => record[At(r).s] # None
  /\ \A s \in index : NotEntered(s)
  /\ \A r \in Runners : \A s \in At(r).ids : NotEntered(s)

\* A key that is missing where it was read or is about to be written back was
\* deleted with an update under way.
GoneOrRaced(s) == record[s] = None \/ s \in raced
StoreInv ==
  /\ \A r \in Runners : WillSet(At(r)) => record[At(r).s] # None \/ At(r).s \in raced
  /\ \A r \in Runners : Is(At(r), "leave") => GoneOrRaced(At(r).s)
  /\ \A s \in index : record[s] = None =>
       s \in torn \/ \E r \in Runners : At(r).s = s /\ Is(At(r), "leave")
  /\ NoHiddenSessions

\* What a listing has still to read, has read and is about to drop.
ListingType == listing \in [Request -> [always : SUBSET Session, ever : SUBSET Session]]
ListingInv ==
  /\ ListingType
  /\ \A h \in Request : listing[h].always \subseteq Present /\ Present \subseteq listing[h].ever
  /\ \A h \in Request : \A s \in task[h].ids : s \in index \/ GoneOrRaced(s)
  /\ \A h \in Request : Is(task[h], "read") =>
       /\ listing[h].always \subseteq task[h].found \cup task[h].ids
       /\ task[h].found \subseteq listing[h].ever \cup raced
       /\ task[h].phase = "stale" =>
            /\ task[h].s \in Session /\ GoneOrRaced(task[h].s)
            /\ task[h].s \notin listing[h].always

RegistryInv == ListsInv /\ EnterInv /\ StoreInv /\ ListingInv

-----------------------------------------------------------------------------
(* Lists of steps whose pairs are complete.                                *)

LEMMA PairedTail ==
  ASSUME NEW q \in Seq(Steps), q # <<>>, Paired(q)
  PROVE  /\ Paired(Tail(q)) /\ Tail(q) \in Seq(Steps)
         /\ Tail(q) = <<>> => Head(q).do \notin First
         /\ Tail(q) # <<>> => Fits(Head(q), Head(Tail(q)))
<1> DEFINE t == Tail(q)
           n == Len(q)
<1>1. n \in Nat \ {0} /\ t \in Seq(Steps) /\ Len(t) = n - 1 /\ Head(q) = q[1]
  BY HeadTailProperties, LenProperties, EmptySeq
<1>2. \A i \in 1..n - 1 : t[i] = q[i + 1]
  BY <1>1, HeadTailProperties
<1>3. (\A i \in 1..n - 1 : Fits(q[i], q[i + 1])) /\ q[n].do \notin First
  BY DEF Paired
<1> HIDE DEF t, n
<1>4. \A i \in 1..Len(t) - 1 : Fits(t[i], t[i + 1])
  BY <1>1, <1>2, <1>3
<1>5. CASE n = 1
  <2>1. t = <<>>
    BY <1>1, <1>5, EmptySeq
  <2> QED
    BY <1>1, <1>3, <1>4, <1>5, <2>1 DEF Paired, t
<1>6. CASE n # 1
  <2>1. n - 1 \in 1..n - 1 /\ 1 \in 1..n - 1 /\ Len(t) # 0
    BY <1>1, <1>6
  <2>2. t # <<>> /\ Head(t) = t[1] /\ t[1] = q[2] /\ t[Len(t)] = q[n]
    BY <1>1, <1>2, <2>1
  <2>3. Fits(q[1], q[2])
    BY <1>3, <2>1
  <2>4. Paired(t)
    BY <1>3, <1>4, <2>2 DEF Paired
  <2> QED
    BY <1>1, <2>2, <2>3, <2>4 DEF t
<1> QED
  BY <1>5, <1>6

LEMMA PairedConcat ==
  ASSUME NEW p \in Seq(Steps), NEW q \in Seq(Steps), Paired(p), Complete(q)
  PROVE  Paired(p \o q) /\ (Complete(p) => Complete(p \o q))
<1>1. CASE p = <<>>
  BY <1>1, ConcatEmptySeq DEF Complete
<1>2. CASE q = <<>>
  BY <1>2, ConcatEmptySeq
<1>3. CASE p # <<>> /\ q # <<>>
  <2> DEFINE n == Len(p)
             m == Len(q)
             t == p \o q
  <2>1. n \in Nat \ {0} /\ m \in Nat \ {0}
    BY <1>3, LenProperties, EmptySeq
  <2>2. t \in Seq(Steps) /\ Len(t) = n + m
        /\ \A i \in 1..n + m : t[i] = IF i <= n THEN p[i] ELSE q[i - n]
    BY ConcatProperties
  <2>3. /\ \A i \in 1..n - 1 : Fits(p[i], p[i + 1])
        /\ \A i \in 1..m - 1 : Fits(q[i], q[i + 1])
        /\ p[n].do \notin First /\ q[m].do \notin First /\ q[1].do \notin Second
        /\ Head(p) = p[1] /\ Head(q) = q[1]
    BY <1>3 DEF Paired, Complete
  <2> HIDE DEF t, n, m
  <2>4. Fits(p[n], q[1])
    BY <2>3 DEF Fits, First, Second
  <2>5. ASSUME NEW i \in 1..n + m - 1 PROVE Fits(t[i], t[i + 1])
    <3>1. CASE i < n
      <4>1. i \in 1..n - 1 /\ t[i] = p[i] /\ t[i + 1] = p[i + 1]
        BY <2>1, <2>2, <3>1
      <4> QED
        BY <2>3, <4>1
    <3>2. CASE i = n
      <4>1. t[i] = p[n] /\ t[i + 1] = q[1]
        BY <2>1, <2>2, <3>2
      <4> QED
        BY <2>4, <4>1
    <3>3. CASE i > n
      <4>1. i - n \in 1..m - 1 /\ t[i] = q[i - n] /\ t[i + 1] = q[(i - n) + 1]
        BY <2>1, <2>2, <3>3
      <4> QED
        BY <2>3, <4>1
    <3> QED
      BY <2>1, <3>1, <3>2, <3>3
  <2>6. t[n + m] = q[m] /\ t[1] = p[1] /\ t # <<>>
    BY <2>1, <2>2, EmptySeq
  <2>7. Paired(t)
    BY <2>1, <2>2, <2>3, <2>5, <2>6 DEF Paired
  <2>8. Head(t) = p[1]
    BY <2>2, <2>6
  <2> QED
    BY <1>3, <2>3, <2>7, <2>8 DEF Complete, t
<1> QED
  BY <1>1, <1>2, <1>3

\* Steps that are no half of a pair.
Plain == {x \in Steps : x.do \notin First \cup Second}

LEMMA PlainIsComplete ==
  ASSUME NEW q \in Seq(Plain)
  PROVE  q \in Seq(Steps) /\ Complete(q)
<1>1. q \in Seq(Steps) /\ Len(q) \in Nat
  BY SeqMonotonic, LenProperties DEF Plain
<1>2. \A i \in 1..Len(q) : q[i].do \notin First \cup Second
  BY ElementOfSeq DEF Plain
<1>3. \A i \in 1..Len(q) - 1 : Fits(q[i], q[i + 1])
  <2> SUFFICES ASSUME NEW i \in 1..Len(q) - 1 PROVE Fits(q[i], q[i + 1])
    OBVIOUS
  <2>1. q[i].do \notin First \cup Second /\ q[i + 1].do \notin First \cup Second
    BY <1>1, <1>2
  <2> QED
    BY <2>1 DEF Fits, First, Second
<1>4. q # <<>> => Head(q) = q[1] /\ 1 \in 1..Len(q) /\ Len(q) \in 1..Len(q)
  BY <1>1, EmptySeq
<1> QED
  BY <1>1, <1>2, <1>3, <1>4 DEF Paired, Complete

LEMMA PlainSteps ==
  /\ \A e \in Events : To(e) \in Plain /\ Flush(e) \in Plain
  /\ \A d \in {"fetch", "stop", "begin", "spawn", "complete", "finally"} : Do(d) \in Plain
  /\ \A m \in Messages : Step("message", m) \in Plain
<1>1. ASSUME NEW e \in Events PROVE To(e) \in Plain /\ Flush(e) \in Plain
  BY DEF To, Flush, Step, Plain, First, Second, Steps, Kinds
<1>2. ASSUME NEW d \in {"fetch", "stop", "begin", "spawn", "complete", "finally"}
      PROVE Do(d) \in Plain
  BY DEF Do, Step, Plain, First, Second, Steps, Kinds, Events
<1>3. ASSUME NEW m \in Messages PROVE Step("message", m) \in Plain
  BY DEF Step, Plain, First, Second, Steps, Kinds
<1> QED
  BY <1>1, <1>2, <1>3

\* A pair is complete.
LEMMA PairIsComplete ==
  ASSUME NEW a \in Steps, NEW b \in Steps, Fits(a, b), a.do \in First
  PROVE  <<a, b>> \in Seq(Steps) /\ Complete(<<a, b>>)
<1> DEFINE q == <<a, b>>
<1>1. q \in Seq(Steps) /\ Len(q) = 2 /\ q[1] = a /\ q[2] = b /\ Head(q) = a /\ q # <<>>
  BY ShortLists
<1> HIDE DEF q
<1>2. a.do \notin Second /\ b.do \notin First
  BY DEF Fits, First, Second
<1>3. \A i \in 1..1 : Fits(q[i], q[i + 1])
  BY <1>1
<1> QED
  BY <1>1, <1>2, <1>3 DEF Paired, Complete, q

LEMMA StoreLists ==
  /\ Create \in Seq(Steps) /\ Complete(Create)
  /\ Delete \in Seq(Steps) /\ Complete(Delete)
  /\ <<Do("members"), Do("read")>> \in Seq(Steps) /\ Complete(<<Do("members"), Do("read")>>)
<1>1. ASSUME NEW d \in Kinds \ {"message"} PROVE Do(d) \in Steps /\ Do(d).do = d
  BY <1>1 DEF Do, Step, Steps, Events
<1>2. /\ Fits(Do("write"), Do("enter")) /\ Fits(Do("delete"), Do("leave"))
      /\ Fits(Do("members"), Do("read"))
  BY <1>1 DEF Fits, Kinds
<1>3. <<Do("write"), Do("enter")>> \in Seq(Steps) /\ Complete(<<Do("write"), Do("enter")>>)
  BY <1>1, <1>2, PairIsComplete DEF Kinds, First
<1>4. <<Do("delete"), Do("leave")>> \in Seq(Steps) /\ Complete(<<Do("delete"), Do("leave")>>)
  BY <1>1, <1>2, PairIsComplete DEF Kinds, First
<1>5. <<Do("members"), Do("read")>> \in Seq(Steps) /\ Complete(<<Do("members"), Do("read")>>)
  BY <1>1, <1>2, PairIsComplete DEF Kinds, First
<1>6. <<Do("fetch")>> \in Seq(Plain)
  BY PlainSteps, ShortLists
<1>7. Delete = <<Do("fetch")>> \o <<Do("delete"), Do("leave")>>
  BY DEF Delete
<1>8. Delete \in Seq(Steps) /\ Complete(Delete)
  BY <1>4, <1>6, <1>7, PlainIsComplete, PairedConcat, ConcatProperties DEF Complete
<1> QED
  BY <1>3, <1>5, <1>8 DEF Create

LEMMA MessageLists ==
  ASSUME NEW m \in Messages
  PROVE  /\ Message(m) \in Seq(Steps) /\ Complete(Message(m))
         /\ Create \o Message(m) \in Seq(Steps) /\ Complete(Create \o Message(m))
<1>1. <<Step("message", m)>> \in Seq(Plain)
  BY PlainSteps, ShortLists
<1>2. Message(m) \in Seq(Steps) /\ Complete(Message(m))
  BY <1>1, PlainIsComplete DEF Message
<1> QED
  BY <1>2, StoreLists, PairedConcat, ConcatProperties DEF Complete

LEMMA ApplyComplete ==
  ASSUME NEW m \in Messages, NEW s
  PROVE  Apply(m, s) \in Seq(Steps) /\ Complete(Apply(m, s))
<1>1. /\ Do("stop") \in Plain /\ To("interrupted") \in Plain /\ To("listening") \in Plain
      /\ To("loading") \in Plain /\ To("ready") \in Plain /\ To("thinking") \in Plain
      /\ Do("begin") \in Plain /\ Do("spawn") \in Plain
      /\ Flush("session.ready") \in Plain /\ Flush("session.closed") \in Plain
      /\ Flush("") \in Plain /\ Flush("conversation.interrupted") \in Plain
  BY PlainSteps DEF Events, Status
<1>2. /\ Interrupting \in Seq(Plain) /\ <<>> \in Seq(Plain)
      /\ <<To("loading"), To("ready"), To("listening"), Flush("session.ready")>> \in Seq(Plain)
      /\ <<Do("begin"), To("thinking"), Flush(""), Do("spawn")>> \in Seq(Plain)
      /\ <<Flush("conversation.interrupted")>> \in Seq(Plain)
      /\ <<Flush("session.closed")>> \in Seq(Plain)
  BY <1>1, ShortLists, EmptySeq DEF Interrupting
<1>3. InterruptIfActive(s) \in Seq(Plain)
  BY <1>2 DEF InterruptIfActive
<1> DEFINE i == InterruptIfActive(s)
           d == Delete
           c == <<Flush("session.closed")>>
<1>4. i \in Seq(Steps) /\ Complete(i) /\ d \in Seq(Steps) /\ Complete(d)
      /\ c \in Seq(Steps) /\ Complete(c)
  BY <1>2, <1>3, PlainIsComplete, StoreLists
<1>5. (i \o d) \o c \in Seq(Steps) /\ Complete((i \o d) \o c)
  <2> HIDE DEF i, d, c
  <2>1. i \o d \in Seq(Steps) /\ Complete(i \o d)
    BY <1>4, PairedConcat, ConcatProperties DEF Complete
  <2> QED
    BY <1>4, <2>1, PairedConcat, ConcatProperties DEF Complete
<1>6. Closing(s) \in Seq(Steps) /\ Complete(Closing(s))
  BY <1>5 DEF Closing
<1>7. /\ i \o <<Do("begin"), To("thinking"), Flush(""), Do("spawn")>> \in Seq(Plain)
      /\ Interrupting \o <<Flush("conversation.interrupted")>> \in Seq(Plain)
  BY <1>2, <1>3, ConcatProperties
<1> QED
  BY <1>2, <1>6, <1>7, PlainIsComplete DEF Apply, Messages

LEMMA ReplyLists ==
  /\ Replying \in Seq(Answering) /\ <<Do("finally")>> \in Seq(Answering)
  /\ Complete(Replying) /\ Complete(<<Do("finally")>>) /\ Complete(<<Flush("error")>>)
  /\ <<>> \in Seq(Answering) /\ Complete(<<>>)
<1>1. /\ Flush("llm.delta") \in Answering /\ Do("complete") \in Answering
      /\ To("listening") \in Answering /\ Flush("") \in Answering
      /\ Do("finally") \in Answering /\ Flush("error") \in Plain
  <2>1. /\ Flush("llm.delta") \in Plain /\ Do("complete") \in Plain /\ To("listening") \in Plain
        /\ Flush("") \in Plain /\ Do("finally") \in Plain /\ Flush("error") \in Plain
    BY PlainSteps DEF Events, Status
  <2> QED
    BY <2>1 DEF Answering, Plain, Flush, Do, To, Step
<1>2. /\ Replying \in Seq(Answering) /\ <<Do("finally")>> \in Seq(Answering)
      /\ <<Flush("error")>> \in Seq(Plain) /\ <<>> \in Seq(Answering)
  BY <1>1, ShortLists, EmptySeq DEF Replying
<1>3. Answering \subseteq Plain
  BY DEF Answering, Plain, First, Second
<1>4. Seq(Answering) \subseteq Seq(Plain)
  BY <1>3, SeqMonotonic
<1> QED
  BY <1>2, <1>4, PlainIsComplete

-----------------------------------------------------------------------------
(* A step that leaves the store alone.                                     *)

\* What a runner may become while the store stays as it is: it is in no half of
\* a pair, and was in none that could change the store.
Passes(r, l) ==
  /\ Paired(l.todo) /\ ~Half(l) /\ l.ids = {} /\ l.found = {}
  /\ r[1] = "reply" => l.todo \in Seq(Answering)
  /\ WillSet(l) => record[l.s] # None
  /\ Is(At(r), "enter") \/ Is(At(r), "leave") => At(r).s \in torn'
  /\ \/ Idle(l) \/ l.s = Nobody
     \/ ~Idle(At(r)) /\ l.s = At(r).s
     \/ l.s \in Session /\ NotEntered(l.s)

AllPass == \A r \in Runners : At(r)' = At(r) \/ Passes(r, At(r)')

\* Whatever the step does to the store: a list in order, and nobody comes to a
\* session that is being created.
Sound(r, l) ==
  /\ Paired(l.todo)
  /\ r[1] = "reply" => l.todo \in Seq(Answering)
  /\ ~Is(l, "read") => l.ids = {} /\ l.found = {}
Placed(r, l) ==
  /\ ~Is(l, "enter") /\ \A s \in l.ids : NotEntered(s)
  /\ \/ Idle(l) \/ l.s = Nobody
     \/ ~Idle(At(r)) /\ l.s = At(r).s
     \/ l.s \in Session /\ NotEntered(l.s)
AllSound  == \A r \in Runners : At(r)' = At(r) \/ Sound(r, At(r)')
AllPlaced == \A r \in Runners : At(r)' = At(r) \/ Placed(r, At(r)')

LEMMA PassIsSound == AllPass => AllSound /\ AllPlaced
BY DEF AllPass, AllSound, AllPlaced, Passes, Sound, Placed, Half

LEMMA ListsKeep ==
  ASSUME RegistryInv, AllSound
  PROVE  ListsInv'
<1>1. ASSUME NEW r \in Runners PROVE Paired(At(r)'.todo)
  BY DEF AllSound, Sound, RegistryInv, ListsInv
<1>2. ASSUME NEW c \in Socket PROVE reply'[c].todo \in Seq(Answering)
  <2>1. <<"reply", c>> \in Runners /\ At(<<"reply", c>>) = reply[c]
        /\ At(<<"reply", c>>)' = reply'[c]
    BY DEF Runners, At
  <2> QED
    BY <2>1 DEF AllSound, Sound, RegistryInv, ListsInv
<1>3. ASSUME NEW r \in Runners, ~Is(At(r)', "read") PROVE At(r)'.ids = {} /\ At(r)'.found = {}
  BY <1>3 DEF AllSound, Sound, RegistryInv, ListsInv
<1> QED
  BY <1>1, <1>2, <1>3 DEF ListsInv

LEMMA EntersSession ==
  ASSUME ServerInv, NEW r \in Runners, Is(At(r), "enter") \/ Is(At(r), "leave")
  PROVE  At(r).s \in Session /\ At(r).s # Nobody /\ ~Idle(At(r))
BY InSession

LEMMA EnterKeep ==
  ASSUME ServerInv, RegistryInv, AllPlaced,
         \A s \in index' : s \in index \/ NotEntered(s)',
         \A r \in Runners : (Is(At(r), "enter") /\ At(r)' = At(r)) => record'[At(r).s] # None
  PROVE  EnterInv'
<1>1. ASSUME NEW r \in Runners, Is(At(r)', "enter") PROVE At(r)' = At(r)
  BY <1>1 DEF AllPlaced, Placed
<1>2. \A s : NotEntered(s) => NotEntered(s)'
  BY <1>1 DEF NotEntered
<1>3. ASSUME NEW r \in Runners, NEW q \in Runners, Is(At(r)', "enter"), q # r,
             At(q)'.s = At(r)'.s
      PROVE  Idle(At(q)')
  <2>1. At(r)' = At(r) /\ Is(At(r), "enter")
    BY <1>1, <1>3
  <2>2. At(r).s # Nobody /\ ~NotEntered(At(r).s)
    BY <2>1, EntersSession DEF NotEntered
  <2>3. At(q).s = At(r).s => Idle(At(q))
    BY <1>3, <2>1 DEF RegistryInv, EnterInv
  <2>4. CASE At(q)' = At(q)
    BY <1>3, <2>1, <2>3, <2>4
  <2>5. CASE Placed(q, At(q)')
    BY <1>3, <2>1, <2>2, <2>3, <2>5 DEF Placed
  <2> QED
    BY <2>4, <2>5 DEF AllPlaced
<1>4. \A r \in Runners : Is(At(r)', "enter") => record'[At(r)'.s] # None
  BY <1>1
<1>5. \A r \in Runners : \A s \in At(r)'.ids : NotEntered(s)'
  BY <1>2 DEF AllPlaced, Placed, RegistryInv, EnterInv
<1>6. \A s \in index' : NotEntered(s)'
  BY <1>2 DEF RegistryInv, EnterInv
<1>7. \A r, q \in Runners :
        (Is(At(r)', "enter") /\ q # r /\ At(q)'.s = At(r)'.s) => Idle(At(q)')
  BY <1>3
<1> QED
  BY <1>4, <1>5, <1>6, <1>7 DEF EnterInv

LEMMA StoreKeep ==
  ASSUME RegistryInv, AllPass, UNCHANGED <<record, index, raced>>, torn \subseteq torn'
  PROVE  StoreInv'
<1>1. \A r \in Runners : WillSet(At(r)') => record'[At(r)'.s] # None \/ At(r)'.s \in raced'
  BY DEF AllPass, Passes, RegistryInv, StoreInv
<1>2. \A r \in Runners : Is(At(r)', "leave") => GoneOrRaced(At(r).s)'
  BY DEF AllPass, Passes, Half, RegistryInv, StoreInv, GoneOrRaced
<1>3. ASSUME NEW s \in index', record'[s] = None
      PROVE  s \in torn' \/ \E r \in Runners : At(r)'.s = s /\ Is(At(r)', "leave")
  BY <1>3 DEF AllPass, Passes, RegistryInv, StoreInv
<1>4. NoHiddenSessions'
  <2> SUFFICES ASSUME NEW s \in Session, record'[s] # None, s \notin index',
                      s \notin torn', s \notin raced'
               PROVE  \E r \in Uses(s)' : Is(At(r)', "enter")
    BY DEF NoHiddenSessions
  <2>1. PICK r \in Uses(s) : Is(At(r), "enter")
    BY DEF RegistryInv, StoreInv, NoHiddenSessions
  <2>2. r \in Runners /\ At(r).s = s
    BY <2>1 DEF Uses
  <2>3. At(r)' = At(r)
    BY <2>1, <2>2 DEF AllPass, Passes
  <2> QED
    BY <2>1, <2>2, <2>3 DEF Uses
<1> QED
  BY <1>1, <1>2, <1>3, <1>4 DEF StoreInv

\* A listing that goes on has its records, one that does not may begin anew.
ListingsStay ==
  /\ ListingType'
  /\ \A h \in Request :
       \/ listing'[h] = listing[h]
       \/ /\ ~Is(task'[h], "read")
          /\ listing'[h].always = Present /\ listing'[h].ever = Present

LEMMA ListingKeep ==
  ASSUME RegistryInv, TasksTyped, AllPass, UNCHANGED <<record, index, raced>>, ListingsStay
  PROVE  ListingInv'
<1>1. Present' = Present /\ \A s : GoneOrRaced(s)' = GoneOrRaced(s)
  BY DEF Present, GoneOrRaced
<1>2. \A h \in Request : listing[h].always \subseteq Present /\ Present \subseteq listing[h].ever
  BY DEF RegistryInv, ListingInv
<1>3. \A h \in Request : listing'[h].always \subseteq Present' /\ Present' \subseteq listing'[h].ever
  BY <1>1, <1>2 DEF ListingsStay
<1>4. ASSUME NEW h \in Request
      PROVE  task'[h] = task[h] \/ (task'[h].ids = {} /\ ~Is(task'[h], "read"))
  <2>1. <<"task", h>> \in Runners /\ At(<<"task", h>>) = task[h] /\ At(<<"task", h>>)' = task'[h]
    BY DEF Runners, At
  <2> QED
    BY <2>1 DEF AllPass, Passes, Half
<1>5. \A h \in Request : \A s \in task'[h].ids : s \in index' \/ GoneOrRaced(s)'
  BY <1>1, <1>4 DEF RegistryInv, ListingInv
<1>6. ASSUME NEW h \in Request, Is(task'[h], "read")
      PROVE  /\ listing'[h].always \subseteq task'[h].found \cup task'[h].ids
             /\ task'[h].found \subseteq listing'[h].ever \cup raced'
             /\ task'[h].phase = "stale" =>
                  /\ task'[h].s \in Session /\ GoneOrRaced(task[h].s)'
                  /\ task'[h].s \notin listing'[h].always
  <2>1. task'[h] = task[h] /\ Is(task[h], "read")
    BY <1>4, <1>6
  <2>2. listing'[h] = listing[h]
    BY <1>6 DEF ListingsStay
  <2> QED
    BY <1>1, <2>1, <2>2 DEF RegistryInv, ListingInv
<1> QED
  BY <1>3, <1>5, <1>6 DEF ListingInv, ListingsStay

LEMMA PassKeeps ==
  ASSUME ServerInv, RegistryInv, TasksTyped', AllPass,
         UNCHANGED <<record, index, raced>>, torn \subseteq torn', ListingsStay
  PROVE  RegistryInv'
<1>1. ListsInv' /\ StoreInv' /\ ListingInv'
  BY PassIsSound, ListsKeep, StoreKeep, ListingKeep, Typed
<1>2. EnterInv'
  <2>1. \A s \in index' : s \in index
    OBVIOUS
  <2>2. \A r \in Runners : Is(At(r), "enter") => record'[At(r).s] # None
    BY DEF RegistryInv, EnterInv
  <2> QED
    BY <2>1, <2>2, PassIsSound, EnterKeep
<1> QED
  BY <1>1, <1>2 DEF RegistryInv

\* Most steps do not look at the listings.
LEMMA PassesKeep ==
  ASSUME ServerInv, RegistryInv, TasksTyped', AllPass,
         UNCHANGED <<record, index, raced, torn, listing>>
  PROVE  RegistryInv'
<1>1. ListingsStay
  BY DEF ListingsStay, RegistryInv, ListingInv, ListingType
<1> QED
  BY <1>1, PassKeeps

LEMMA OnePasses ==
  ASSUME TasksTyped, NEW r \in Runners, NEW l \in TaskType, Passes(r, l), Becomes(r, l)
  PROVE  TasksTyped' /\ AllPass
BY BecomesAt DEF AllPass

-----------------------------------------------------------------------------
(* What the runners become, seen from the registry.                        *)

LEMMA ReplyAnswers ==
  ASSUME RegistryInv, NEW r \in Runners, r[1] = "reply"
  PROVE  At(r).todo \in Seq(Answering)
<1>1. PICK c \in Socket : r = <<"reply", c>>
  BY DEF Runners
<1> QED
  BY <1>1 DEF RegistryInv, ListsInv, At

\* At a step that is in no pair: neither half of one, and no listing.
LEMMA AtPlainStep ==
  ASSUME RegistryInv, NEW r \in Runners, NEW d, Is(At(r), d), d \notin First \cup Second
  PROVE  /\ ~Idle(At(r)) /\ ~Half(At(r))
         /\ ~Is(At(r), "enter") /\ ~Is(At(r), "leave") /\ ~Is(At(r), "read")
         /\ At(r).ids = {} /\ At(r).found = {}
         /\ Paired(At(r).todo) /\ Head(At(r).todo).do \notin First \cup Second
BY DEF RegistryInv, ListsInv, Half, Is, Idle, First, Second

LEMMA SameListPasses ==
  ASSUME RegistryInv, NEW r \in Runners, NEW d, Is(At(r), d), d \notin First \cup Second,
         NEW l, l.todo = At(r).todo, l.s = At(r).s, l.ids = At(r).ids, l.found = At(r).found,
         WillSet(l) => record[l.s] # None
  PROVE  Passes(r, l)
BY AtPlainStep, ReplyAnswers DEF Passes, Half, Is

\* Only the reader of a list that began with its first half comes to a second.
LEMMA TailPasses ==
  ASSUME ServerInv, RegistryInv, NEW r \in Runners, NEW d, Is(At(r), d),
         d \notin First \cup Second
  PROVE  /\ Paired(Tail(At(r).todo))
         /\ Tail(At(r).todo) # <<>> => Head(Tail(At(r).todo)).do \notin Second
         /\ r[1] = "reply" => Tail(At(r).todo) \in Seq(Answering)
<1> DEFINE q == At(r).todo
<1>1. q \in Seq(Steps) /\ q # <<>> /\ Paired(q) /\ Head(q).do \notin First
  BY Typed, AtPlainStep DEF TaskType, Todo, Is
<1>2. Paired(Tail(q)) /\ (Tail(q) # <<>> => Fits(Head(q), Head(Tail(q))))
  BY <1>1, PairedTail
<1>3. r[1] = "reply" => q \in Seq(Answering)
  BY ReplyAnswers
<1> HIDE DEF q
<1>4. Tail(q) # <<>> => Head(Tail(q)).do \notin Second
  BY <1>1, <1>2 DEF Fits, First, Second
<1>5. q \in Seq(Answering) => Tail(q) \in Seq(Answering)
  BY <1>1, HeadTailProperties
<1> QED
  BY <1>2, <1>3, <1>4, <1>5 DEF q

LEMMA DonePasses ==
  ASSUME ServerInv, RegistryInv, NEW r \in Runners, NEW d, Is(At(r), d),
         d \notin First \cup Second, NEW k \in TaskType, k.todo = At(r).todo,
         k.s = At(r).s, k.ids = At(r).ids, k.found = At(r).found,
         NEW l, l.todo = Done(k).todo, l.phase = Done(k).phase, l.ids = Done(k).ids,
         l.found = Done(k).found, l.s = Done(k).s
  PROVE  Passes(r, l)
<1>1. /\ ~Idle(At(r)) /\ ~Is(At(r), "enter") /\ ~Is(At(r), "leave")
      /\ At(r).ids = {} /\ At(r).found = {}
  BY AtPlainStep
<1>2. CASE Len(k.todo) = 1
  <2>1. l.todo = <<>> /\ l.ids = {} /\ l.found = {}
    BY <1>2 DEF Done, NoTask
  <2>2. ~Half(l) /\ ~WillSet(l) /\ Idle(l)
    BY <2>1 DEF Half, WillSet, Is, Idle
  <2> QED
    BY <1>1, <2>1, <2>2, ReplyLists DEF Passes, Complete
<1>3. CASE Len(k.todo) # 1
  <2>1. /\ l.todo = Tail(At(r).todo) /\ l.phase = "run" /\ l.s = At(r).s
        /\ l.ids = {} /\ l.found = {}
    BY <1>1, <1>3 DEF Done, TaskType
  <2>2. ~Half(l) /\ ~WillSet(l)
    BY <2>1, TailPasses DEF Half, WillSet, Is, Second
  <2> QED
    BY <1>1, <2>1, <2>2, TailPasses DEF Passes
<1> QED
  BY <1>2, <1>3

LEMMA NoTaskPasses ==
  ASSUME NEW r \in Runners, Is(At(r), "enter") \/ Is(At(r), "leave") => At(r).s \in torn'
  PROVE  Passes(r, NoTask)
<1>1. NoTask.todo = <<>> /\ NoTask.ids = {} /\ NoTask.found = {}
  BY DEF NoTask
<1> HIDE DEF NoTask
<1> QED
  BY <1>1, ReplyLists DEF Passes, Complete, Half, WillSet, Is, Idle

\* A runner that begins a list, or what is left of its own, in its session or
\* in one that is not being created.
LEMMA TaskPasses ==
  ASSUME NEW r \in Runners, NEW q, Complete(q), NEW s,
         r[1] = "reply" => q \in Seq(Answering),
         Is(At(r), "enter") \/ Is(At(r), "leave") => At(r).s \in torn',
         \/ s = Nobody
         \/ ~Idle(At(r)) /\ s = At(r).s
         \/ s \in Session /\ NotEntered(s)
  PROVE  Passes(r, Task(s, q))
<1> DEFINE l == Task(s, q)
<1>1. l.todo = q /\ l.s = s /\ l.phase = "run" /\ l.ids = {} /\ l.found = {}
  BY DEF Task, NoTask
<1> HIDE DEF l
<1>2. ~Half(l) /\ ~WillSet(l)
  BY <1>1 DEF Half, WillSet, Is, Complete, Second
<1>3. Passes(r, l)
  BY <1>1, <1>2 DEF Passes, Complete
<1> QED
  BY <1>3 DEF l

LEMMA RaisesPasses ==
  ASSUME ServerInv, RegistryInv, NEW r \in Runners, NEW d, Is(At(r), d),
         d \notin First \cup Second, At(r).s # Nobody, Raises(r)
  PROVE  TasksTyped' /\ AllPass
<1> DEFINE k == At(r)
           l == [k EXCEPT !.todo = <<Flush("error")>>, !.phase = "run", !.out = <<>>]
<1>1. k \in TaskType /\ k.s \in Name /\ ~Idle(k)
  BY Typed DEF TaskType, Is, Idle
<1>2. <<Flush("error")>> \in Todo /\ <<Do("finally")>> \in Todo
  BY FurtherLists, FurtherIsTodo
<1>3. /\ l \in TaskType /\ l.s = k.s /\ l.todo = <<Flush("error")>> /\ l.phase = "run"
      /\ l.ids = k.ids /\ l.found = k.found
  BY <1>1, <1>2, EmptySeq DEF TaskType, Phase
<1>4. Task(k.s, <<Do("finally")>>) \in TaskType
  BY <1>1, <1>2, NewTask
<1>5. ASSUME r[1] = "task" PROVE Passes(r, l)
  <2> HIDE DEF l
  <2>1. ~Half(l) /\ ~WillSet(l)
    BY <1>3, ReplyLists DEF Half, WillSet, Is, Complete, Second
  <2> QED
    BY <1>1, <1>3, <1>5, <2>1, AtPlainStep, ReplyLists DEF Passes, Complete
<1>6. Passes(r, Task(k.s, <<Do("finally")>>)) /\ Passes(r, NoTask)
  BY <1>1, AtPlainStep, ReplyLists, TaskPasses, NoTaskPasses
<1>7. \/ r[1] = "task" /\ Becomes(r, l)
      \/ Becomes(r, Task(k.s, <<Do("finally")>>)) \/ Becomes(r, NoTask)
  BY DEF Raises
<1> QED
  BY <1>3, <1>4, <1>5, <1>6, <1>7, NoTaskType, OnePasses, Typed

-----------------------------------------------------------------------------
(* The actions that leave the store alone.                                 *)

LEMMA StillRegistry ==
  ASSUME ServerInv, RegistryInv,
         UNCHANGED <<record, index, raced, torn, listing, task, reply>>
  PROVE  RegistryInv'
<1>1. TasksTyped' /\ AllPass
  BY Typed DEF TasksTyped, AllPass, At
<1> QED
  BY <1>1, PassesKeep

LEMMA SocketRegistry ==
  ASSUME ServerInv, RegistryInv, NEW c \in Socket,
         Accept(c) \/ ProtocolError(c) \/ Disconnect(c) \/ Notice(c)
  PROVE  RegistryInv'
BY StillRegistry DEF Accept, ProtocolError, Disconnect, Notice, redis, history

LEMMA EmittedPasses ==
  ASSUME ServerInv, RegistryInv, NEW r \in Runners, Is(At(r), "flush")
  PROVE  Passes(r, Emitted(At(r))) /\ Emitted(At(r)) \in TaskType
<1> DEFINE k == At(r)
<1>1. k \in TaskType /\ "flush" \notin First \cup Second
  BY Typed DEF First, Second
<1>2. Emitted(k) \in TaskType
  BY Typed, EmittedJoins DEF Joins
<1>3. CASE Len(Out(k)) <= 1
  <2> DEFINE m == [k EXCEPT !.out = <<>>]
  <2>1. m \in TaskType /\ m.todo = k.todo /\ m.s = k.s /\ m.ids = k.ids /\ m.found = k.found
    BY <1>1, EmptySeq DEF TaskType
  <2>2. Emitted(k) = Done(m)
    BY <1>3 DEF Emitted
  <2> HIDE DEF m
  <2> QED
    BY <1>1, <1>2, <2>1, <2>2, DonePasses
<1>4. CASE ~(Len(Out(k)) <= 1)
  <2> DEFINE l == [k EXCEPT !.out = Tail(Out(k)), !.phase = "more"]
  <2>1. /\ l.todo = k.todo /\ l.s = k.s /\ l.ids = k.ids /\ l.found = k.found
        /\ l.phase = "more"
    BY <1>1 DEF TaskType
  <2>2. Emitted(k) = l
    BY <1>4 DEF Emitted
  <2> HIDE DEF l
  <2>3. ~WillSet(l)
    BY <2>1 DEF WillSet
  <2> QED
    BY <1>1, <1>2, <2>1, <2>2, <2>3, SameListPasses
<1> QED
  BY <1>3, <1>4

LEMMA EmitRegistry ==
  ASSUME ServerInv, RegistryInv, NEW r \in Runners, NEW c \in Socket, Emit(r, c)
  PROVE  RegistryInv'
<1> DEFINE k == At(r)
           l == [k EXCEPT !.phase = "sending", !.out = Out(k)]
<1>1. k \in TaskType /\ Is(k, "flush") /\ ~Idle(k) /\ "flush" \notin First \cup Second
  BY Typed DEF Emit, Is, Idle, First, Second
<1>2. /\ l \in TaskType /\ l.s = k.s /\ l.todo = k.todo /\ l.ids = k.ids
      /\ l.found = k.found /\ l.phase = "sending"
  BY <1>1, OutType DEF TaskType, Phase
<1>3. Passes(r, l)
  <2> HIDE DEF l
  <2>1. ~WillSet(l)
    BY <1>2 DEF WillSet
  <2> QED
    BY <1>1, <1>2, <2>1, SameListPasses
<1>4. Becomes(r, Emitted(k)) \/ Becomes(r, l)
  BY DEF Emit
<1>5. TasksTyped' /\ AllPass
  BY <1>1, <1>2, <1>3, <1>4, EmittedPasses, OnePasses, Typed
<1> QED
  BY <1>5, PassesKeep DEF Emit, redis, history

LEMMA SendRegistry ==
  ASSUME ServerInv, RegistryInv, NEW c \in Socket, Send(c)
  PROVE  RegistryInv'
<1>1. PICK r \in Runners : At(r).phase = "sending" /\ Becomes(r, Emitted(At(r)))
  BY DEF Send
<1>2. Is(At(r), "flush")
  BY <1>1, Typed DEF Holds
<1>3. TasksTyped' /\ AllPass
  BY <1>1, <1>2, EmittedPasses, OnePasses, Typed
<1> QED
  BY <1>3, PassesKeep DEF Send, redis, history

LEMMA StartPasses ==
  ASSUME ServerInv, RegistryInv, NEW r \in Runners, Is(At(r), "message"), Start(r, At(r))
  PROVE  TasksTyped' /\ AllPass
<1> DEFINE k == At(r)
           a == Apply(Head(k.todo).arg, k.s)
           q == a \o Tail(k.todo)
           l == [k EXCEPT !.todo = q, !.phase = "run", !.got = None]
<1>1. /\ k \in TaskType /\ k.todo \in Todo /\ k.todo # <<>> /\ Head(k.todo).do = "message"
      /\ "message" \notin First \cup Second
  BY Typed DEF TaskType, Is, First, Second
<1>2. Head(k.todo).arg \in Messages /\ Head(k.todo) \in Steps
  BY <1>1, RestOfTodo DEF Steps
<1>3. r[1] # "reply"
  <2>1. ASSUME k.todo \in Seq(Answering) PROVE FALSE
    BY <1>1, <2>1, HeadTailProperties DEF Answering
  <2> QED
    BY <2>1, ReplyAnswers
<1>4. /\ a \in Seq(Steps) /\ Complete(a)
      /\ Tail(k.todo) \in Seq(Steps) /\ Complete(Tail(k.todo))
  <2>1. Tail(k.todo) \in Seq(Steps)
    BY <1>1, HeadTailProperties DEF Todo
  <2> QED
    BY <1>1, <1>2, <2>1, ApplyComplete, TailPasses DEF Complete
<1>5. Complete(q)
  <2> HIDE DEF a
  <2> QED
    BY <1>4, PairedConcat DEF Complete
<1> HIDE DEF a, q
<1>6. /\ l.s = k.s /\ l.todo = q /\ l.phase = "run"
      /\ l.ids = k.ids /\ l.found = k.found
  BY <1>1 DEF TaskType
<1>7. l \in TaskType
  BY <1>1, StartJoins, Typed DEF Joins, q, a
<1>8. Becomes(r, l)
  BY DEF Start, q, a
<1> HIDE DEF l
<1>9. ~Half(l) /\ ~WillSet(l)
  BY <1>5, <1>6 DEF Half, WillSet, Is, Complete, Second
<1>10. Passes(r, l)
  BY <1>1, <1>3, <1>5, <1>6, <1>9, AtPlainStep DEF Passes, Complete
<1> QED
  BY <1>7, <1>8, <1>10, OnePasses, Typed

LEMMA LookupRegistry ==
  ASSUME ServerInv, RegistryInv, NEW r \in Runners, Lookup(r)
  PROVE  RegistryInv'
<1> DEFINE k == At(r)
           l == [k EXCEPT !.got = record[k.s], !.phase = "got"]
<1>1. /\ k \in TaskType /\ Is(k, "message") /\ k.s \in Session /\ k.s # Nobody
      /\ "message" \notin First \cup Second
  BY InSession, Typed DEF Lookup, First, Second
<1>2. Start(r, k) \/ Raises(r) \/ Becomes(r, l)
  BY DEF Lookup
<1>3. /\ l \in TaskType /\ l.s = k.s /\ l.todo = k.todo /\ l.ids = k.ids
      /\ l.found = k.found
  BY <1>1 DEF TaskType, Phase, ServerInv, ServerTypes
<1>4. Passes(r, l)
  <2> HIDE DEF l
  <2>1. ~WillSet(l)
    BY <1>1, <1>3 DEF WillSet, Is
  <2> QED
    BY <1>1, <1>3, <2>1, SameListPasses
<1>5. TasksTyped' /\ AllPass
  BY <1>1, <1>2, <1>3, <1>4, StartPasses, RaisesPasses, OnePasses, Typed
<1> QED
  BY <1>5, PassesKeep DEF Lookup, redis, history

LEMMA LocalRegistry ==
  ASSUME ServerInv, RegistryInv, NEW r \in Runners, Local(r)
  PROVE  RegistryInv'
<1>1. PICK d \in {"begin", "complete", "finally"} : Is(At(r), d)
  BY DEF Local
<1>2. d \notin First \cup Second /\ ~Idle(At(r)) /\ At(r) \in TaskType
  BY <1>1, Typed DEF First, Second, Is, Idle
<1>3. Passes(r, Done(At(r))) /\ Passes(r, NoTask)
  BY <1>1, <1>2, DonePasses, NoTaskPasses, AtPlainStep
<1>4. Done(At(r)) \in TaskType /\ NoTask \in TaskType
  BY <1>2, DoneType, NoTaskType
<1>5. Becomes(r, Done(At(r))) \/ Becomes(r, NoTask)
  BY DEF Local
<1>6. TasksTyped' /\ AllPass
  BY <1>3, <1>4, <1>5, OnePasses, Typed
<1> QED
  BY <1>6, PassesKeep DEF Local, redis, history

LEMMA UpdateGetRegistry ==
  ASSUME ServerInv, RegistryInv, NEW r \in Runners, UpdateGet(r)
  PROVE  RegistryInv'
<1> DEFINE k == At(r)
           target == Head(k.todo).arg
           copy == record[k.s]
           l == [k EXCEPT !.phase = "got", !.got = [copy EXCEPT !.status = target]]
<1>1. /\ k \in TaskType /\ Is(k, "to") /\ ~Idle(k) /\ k.s \in Session /\ k.s # Nobody
      /\ "to" \notin First \cup Second
  BY InSession, Typed DEF UpdateGet, First, Second
<1>2. \/ Becomes(r, Done(k)) \/ Raises(r)
      \/ copy # None /\ CanTransition(copy.status, target) /\ Becomes(r, l)
  BY DEF UpdateGet, Copy
<1>3. Passes(r, Done(k)) /\ Done(k) \in TaskType
  BY <1>1, DonePasses, DoneType
<1>4. ASSUME copy # None, CanTransition(copy.status, target)
      PROVE  l \in TaskType /\ Passes(r, l)
  <2>1. copy \in State /\ copy.status \in Status
    BY <1>1, <1>4 DEF ServerInv, ServerTypes, WhatIsReadLives, Live, State
  <2>2. target \in Status
    BY <1>4, <2>1 DEF CanTransition, Allowed, Status
  <2> HIDE DEF target
  <2>3. [copy EXCEPT !.status = target] \in State
    BY <2>1, <2>2 DEF State
  <2>4. /\ l \in TaskType /\ l.s = k.s /\ l.todo = k.todo /\ l.ids = k.ids
        /\ l.found = k.found
    BY <1>1, <2>3 DEF TaskType, Phase
  <2> HIDE DEF l
  <2> QED
    BY <1>1, <1>4, <2>4, SameListPasses
<1>5. TasksTyped' /\ AllPass
  BY <1>1, <1>2, <1>3, <1>4, RaisesPasses, OnePasses, Typed
<1> QED
  BY <1>5, PassesKeep DEF UpdateGet, redis, history

LEMMA UpdatedRegistry ==
  ASSUME ServerInv, RegistryInv, NEW r \in Runners, Updated(r)
  PROVE  RegistryInv'
<1> DEFINE k == At(r)
           l == [Done(k) EXCEPT !.out = Append(@, k.got.status)]
<1>1. /\ k \in TaskType /\ Is(k, "to") /\ ~Idle(k) /\ "to" \notin First \cup Second
      /\ k.phase = "set" /\ Holds(k)
  BY InSession, Typed DEF Updated, First, Second
<1>2. k.got.status \in Events /\ Done(k) \in TaskType
  BY <1>1, DoneType DEF Holds, TaskType, Live, State, Events
<1>3. Append(Done(k).out, k.got.status) \in Seq(Events \cup Messages)
  BY <1>2, AppendProperties DEF TaskType
<1>4. /\ l \in TaskType /\ l.todo = Done(k).todo /\ l.phase = Done(k).phase
      /\ l.ids = Done(k).ids /\ l.found = Done(k).found /\ l.s = Done(k).s
  BY <1>2, <1>3 DEF TaskType
<1>5. Becomes(r, l)
  BY DEF Updated
<1> HIDE DEF l
<1>6. Passes(r, l)
  BY <1>1, <1>4, DonePasses
<1>7. TasksTyped' /\ AllPass
  BY <1>4, <1>5, <1>6, OnePasses, Typed
<1> QED
  BY <1>7, PassesKeep DEF Updated, redis, history

LEMMA SpawnRegistry ==
  ASSUME ServerInv, RegistryInv, NEW c \in Socket, Spawn(c)
  PROVE  RegistryInv'
<1> DEFINE t == <<"task", c>>
           p == <<"reply", c>>
           k == task[c]
           l == Task(k.s, Replying)
<1>1. /\ t \in Runners /\ p \in Runners /\ t # p /\ At(t) = k /\ At(p) = reply[c]
      /\ k \in TaskType
  BY Typed DEF At
<1>2. /\ Is(k, "spawn") /\ ~Idle(k) /\ k.s \in Session /\ k.s # Nobody /\ Idle(reply[c])
      /\ "spawn" \notin First \cup Second
  BY <1>1, InSession DEF Spawn, First, Second
<1>3. Passes(t, Done(k)) /\ Done(k) \in TaskType
  BY <1>1, <1>2, DonePasses, DoneType
<1>4. NotEntered(k.s)
  <2> SUFFICES ASSUME NEW q \in Runners, Is(At(q), "enter"), At(q).s = k.s PROVE FALSE
    BY DEF NotEntered
  <2>1. q # t
    BY <1>1, <1>2 DEF Is
  <2> QED
    BY <1>1, <1>2, <2>1 DEF RegistryInv, EnterInv
<1>5. Passes(p, l)
  <2>1. ~Is(At(p), "enter") /\ ~Is(At(p), "leave")
    BY <1>1, <1>2 DEF Is, Idle
  <2> QED
    BY <1>1, <1>2, <1>4, <2>1, ReplyLists, TaskPasses
<1>6. l \in TaskType
  BY <1>2, FurtherLists, FurtherIsTodo, NewTask DEF Name
<1>7. task' = [task EXCEPT ![c] = Done(k)] /\ reply' = [reply EXCEPT ![c] = l]
  BY DEF Spawn
<1> HIDE DEF l
<1>8. TasksTyped'
  BY <1>3, <1>6, <1>7, Typed DEF TasksTyped
<1>9. At(t)' = Done(k) /\ At(p)' = l
  BY <1>7, Typed DEF At, TasksTyped
<1>10. \A q \in Runners : q # t /\ q # p => At(q)' = At(q)
  BY <1>7, Typed DEF At, TasksTyped, Runners
<1>11. AllPass
  BY <1>3, <1>5, <1>9, <1>10 DEF AllPass
<1> QED
  BY <1>8, <1>11, PassesKeep DEF Spawn, redis, history

LEMMA StopRegistry ==
  ASSUME ServerInv, RegistryInv, NEW c \in Socket, Stop(c)
  PROVE  RegistryInv'
<1> DEFINE t == <<"task", c>>
           k == task[c]
           d == current[k.s]
<1>1. t \in Runners /\ At(t) = k /\ k \in TaskType
  BY Typed DEF At
<1>2. Is(k, "stop") /\ ~Idle(k) /\ "stop" \notin First \cup Second
  BY DEF Stop, Is, Idle, First, Second
<1>3. Passes(t, Done(k)) /\ Done(k) \in TaskType /\ NoTask \in TaskType
  BY <1>1, <1>2, DonePasses, DoneType, NoTaskType
<1>4. /\ task' = [task EXCEPT ![c] = Done(k)]
      /\ reply' = reply \/ reply' = [reply EXCEPT ![d] = NoTask]
  BY DEF Stop
<1> HIDE DEF d
<1>5. TasksTyped'
  BY <1>3, <1>4, Typed DEF TasksTyped
<1>6. At(t)' = Done(k)
  BY <1>4, Typed DEF At, TasksTyped
<1>7. ASSUME NEW q \in Runners, q # t PROVE At(q)' = At(q) \/ Passes(q, At(q)')
  <2>1. CASE q[1] = "task"
    BY <1>4, <1>7, <2>1, Typed DEF At, TasksTyped, Runners
  <2>2. CASE q[1] # "task"
    <3>1. q[1] = "reply" /\ q[2] \in Socket
      BY <2>2 DEF Runners
    <3>2. At(q)' = At(q) \/ At(q)' = NoTask
      BY <1>4, <2>2, <3>1, Typed DEF TasksTyped, At
    <3>3. ~Is(At(q), "enter") /\ ~Is(At(q), "leave")
      <4> DEFINE todo == At(q).todo
      <4>1. todo \in Seq(Answering)
        BY <3>1, ReplyAnswers
      <4> HIDE DEF todo
      <4>2. todo # <<>> => Head(todo) \in Answering
        BY <4>1, HeadTailProperties
      <4> QED
        BY <4>2 DEF Is, Answering, todo
    <3>4. Passes(q, NoTask)
      BY <3>3, NoTaskPasses
    <3> QED
      BY <3>2, <3>4
  <2> QED
    BY <2>1, <2>2
<1>8. AllPass
  BY <1>3, <1>6, <1>7 DEF AllPass
<1> QED
  BY <1>5, <1>8, PassesKeep DEF Stop, redis, history

\* Neither a session that is known nor one not yet issued is being created.
LEMMA KnownIsEntered == \A s \in Known : NotEntered(s)
BY DEF Known, NotEntered, Uses, Is, Idle

LEMMA NewIsNotEntered ==
  ASSUME ServerInv, NEW s \in Session \ issued PROVE NotEntered(s)
<1> SUFFICES ASSUME NEW q \in Runners, Is(At(q), "enter"), At(q).s = s PROVE FALSE
  BY DEF NotEntered
<1>1. At(q).s # Nobody /\ ~Idle(At(q))
  BY EntersSession
<1> QED
  BY <1>1 DEF ServerInv, NotIssued

LEMMA ReceiveRegistry ==
  ASSUME ServerInv, RegistryInv, NEW c \in Socket, Receive(c)
  PROVE  RegistryInv'
<1> DEFINE r == <<"task", c>>
<1>1. /\ r \in Runners /\ r[1] = "task" /\ r[2] = c /\ Idle(At(r))
      /\ ~Is(At(r), "enter") /\ ~Is(At(r), "leave")
  BY Typed DEF Receive, At, Is, Idle
<1>2. UNCHANGED <<record, index, raced, torn, listing, reply>>
  BY DEF Receive, redis, host
<1>3. ASSUME NEW l \in TaskType, Passes(r, l), task' = [task EXCEPT ![c] = l]
      PROVE  RegistryInv'
  <2>1. Becomes(r, l)
    BY <1>1, <1>2, <1>3 DEF Becomes
  <2> QED
    BY <1>1, <1>2, <1>3, <2>1, OnePasses, PassesKeep, Typed
<1>4. ASSUME NEW s \in Session \ issued
      PROVE  LET l == Task(s, Create \o Message("start")) IN l \in TaskType /\ Passes(r, l)
  BY <1>1, CreateIsTodo, MessageLists, NewIsNotEntered, NewTask, TaskPasses DEF Messages, Name
<1>5. ASSUME NEW s \in Known, NEW m \in Messages
      PROVE  LET l == Task(s, Message(m)) IN l \in TaskType /\ Passes(r, l)
  <2>1. s \in Session /\ NotEntered(s) /\ s \in Name
    BY KnownIsEntered DEF Known, ServerInv, ServerTypes, Name
  <2>2. Message(m) \in Todo
    BY FurtherLists, FurtherIsTodo
  <2> QED
    BY <1>1, <2>1, <2>2, MessageLists, NewTask, TaskPasses
<1> HIDE DEF r
<1>6. ASSUME NEW s \in Session \ issued,
             task' = [task EXCEPT ![c] = Task(s, Create \o Message("start"))]
      PROVE  RegistryInv'
  BY <1>3, <1>4, <1>6
<1>7. ASSUME NEW s \in Known, NEW m \in Messages,
             task' = [task EXCEPT ![c] = Task(s, Message(m))]
      PROVE  RegistryInv'
  BY <1>3, <1>5, <1>7
<1> QED
  BY <1>6, <1>7 DEF Receive, Messages

LEMMA AskRegistry ==
  ASSUME ServerInv, RegistryInv, NEW h \in Request, Ask(h)
  PROVE  RegistryInv'
<1> DEFINE r == <<"task", h>>
<1>1. /\ r \in Runners /\ r[1] = "task" /\ r[2] = h /\ Idle(At(r))
      /\ ~Is(At(r), "enter") /\ ~Is(At(r), "leave")
  BY Typed DEF Ask, At, Is, Idle
<1>2. /\ UNCHANGED <<record, index, raced, torn, reply>>
      /\ listing' = [listing EXCEPT ![h] = [always |-> Present, ever |-> Present]]
  BY DEF Ask, redis, host
<1>3. ASSUME NEW l \in TaskType, Passes(r, l), task' = [task EXCEPT ![h] = l]
      PROVE  RegistryInv'
  <2>1. Becomes(r, l)
    BY <1>1, <1>2, <1>3 DEF Becomes
  <2>2. TasksTyped' /\ AllPass
    BY <1>1, <1>3, <2>1, OnePasses, Typed
  <2>3. task'[h] = l /\ ~Is(l, "read")
    BY <1>3, Typed DEF TasksTyped, Passes, Half
  <2>4. Present \subseteq Session
    BY DEF Present, ServerInv, ServerTypes
  <2>5. ListingType
    BY DEF RegistryInv, ListingInv
  <2>6. ListingsStay
    <3> DEFINE new == [always |-> Present, ever |-> Present]
    <3>1. /\ new \in [always : SUBSET Session, ever : SUBSET Session]
          /\ new.always = Present /\ new.ever = Present
      BY <2>4
    <3>2. listing' = [listing EXCEPT ![h] = new]
      BY <1>2
    <3> HIDE DEF new
    <3> QED
      BY <2>3, <2>5, <3>1, <3>2 DEF ListingsStay, ListingType
  <2> QED
    BY <1>2, <2>2, <2>6, PassKeeps
<1>4. ASSUME NEW s \in Session \ issued
      PROVE  Task(s, Create) \in TaskType /\ Passes(r, Task(s, Create))
  BY <1>1, CreateIsTodo, StoreLists, NewIsNotEntered, NewTask, TaskPasses DEF Name
<1>5. ASSUME NEW s \in Known
      PROVE  Task(s, Delete) \in TaskType /\ Passes(r, Task(s, Delete))
  <2>1. s \in Session /\ NotEntered(s) /\ s \in Name
    BY KnownIsEntered DEF Known, ServerInv, ServerTypes, Name
  <2>2. Delete \in Todo
    BY FurtherLists, FurtherIsTodo
  <2> QED
    BY <1>1, <2>1, <2>2, StoreLists, NewTask, TaskPasses
<1>6. LET l == Task(Nobody, <<Do("members"), Do("read")>>) IN l \in TaskType /\ Passes(r, l)
  <2> DEFINE q == <<Do("members"), Do("read")>>
  <2>1. q \in Todo /\ Complete(q)
    BY ListingIsTodo, StoreLists
  <2> HIDE DEF q
  <2>2. Task(Nobody, q) \in TaskType
    BY <2>1, NewTask DEF Name
  <2>3. Passes(r, Task(Nobody, q))
    BY <1>1, <2>1, TaskPasses
  <2> QED
    BY <2>2, <2>3 DEF q
<1> HIDE DEF r
<1>7. ASSUME NEW s \in Session \ issued, task' = [task EXCEPT ![h] = Task(s, Create)]
      PROVE  RegistryInv'
  BY <1>3, <1>4, <1>7
<1>8. ASSUME NEW s \in Known, task' = [task EXCEPT ![h] = Task(s, Delete)]
      PROVE  RegistryInv'
  BY <1>3, <1>5, <1>8
<1>9. ASSUME task' = [task EXCEPT ![h] = Task(Nobody, <<Do("members"), Do("read")>>)]
      PROVE  RegistryInv'
  BY <1>3, <1>6, <1>9
<1> QED
  BY <1>7, <1>8, <1>9 DEF Ask

\* A failure, or a restart, in the middle of a pair is remembered.
LEMMA FailureRegistry ==
  ASSUME ServerInv, RegistryInv, NEW r \in Runners, RedisFails(r)
  PROVE  RegistryInv'
<1> DEFINE l == Task(At(r).s, <<Do("finally")>>)
<1>1. ~Idle(At(r)) /\ At(r).s \in Session /\ At(r).s # Nobody
  BY InSession DEF RedisFails
<1>2. torn' = torn \cup {At(r).s}
  BY <1>1 DEF RedisFails, Cut
<1>3. l \in TaskType
  BY <1>1, FurtherLists, FurtherIsTodo, NewTask DEF Name
<1>4. Passes(r, l) /\ Passes(r, NoTask)
  BY <1>1, <1>2, ReplyLists, TaskPasses, NoTaskPasses
<1>5. Becomes(r, l) \/ Becomes(r, NoTask)
  BY DEF RedisFails
<1>6. TasksTyped' /\ AllPass
  BY <1>3, <1>4, <1>5, NoTaskType, OnePasses, Typed
<1>7. UNCHANGED <<record, index, raced, listing>>
  BY DEF RedisFails, redis
<1>8. ListingsStay
  BY <1>7 DEF ListingsStay, RegistryInv, ListingInv, ListingType
<1> QED
  BY <1>2, <1>6, <1>7, <1>8, PassKeeps

LEMMA CrashRegistry ==
  ASSUME ServerInv, RegistryInv, Crash
  PROVE  RegistryInv'
<1>1. TasksTyped' /\ \A r \in Runners : At(r)' = NoTask
  BY NoTaskType DEF Crash, TasksTyped, At, Runners
<1>2. torn' = torn \cup UNION {Cut(r) : r \in {q \in Runners : ~Idle(At(q))}}
  BY DEF Crash
<1>3. ASSUME NEW r \in Runners, Is(At(r), "enter") \/ Is(At(r), "leave")
      PROVE  At(r).s \in torn'
  <2>1. ~Idle(At(r)) /\ At(r).s \in Cut(r)
    BY <1>3, EntersSession DEF Cut
  <2> QED
    BY <1>2, <2>1
<1>4. AllPass
  BY <1>1, <1>3, NoTaskPasses DEF AllPass
<1>5. UNCHANGED <<record, index, raced, listing>> /\ torn \subseteq torn'
  BY <1>2 DEF Crash, redis
<1>6. ListingsStay
  BY <1>5 DEF ListingsStay, RegistryInv, ListingInv, ListingType
<1> QED
  BY <1>1, <1>4, <1>5, <1>6, PassKeeps

-----------------------------------------------------------------------------
(* The actions on the store.                                               *)

\* A listing is told of every change of the store.
LEMMA WatchedListings ==
  ASSUME ServerInv', RegistryInv, Watched
  PROVE  /\ ListingType'
         /\ \A h \in Request : /\ listing'[h].always = listing[h].always \cap Present'
                               /\ listing'[h].ever = listing[h].ever \cup Present'
<1> DEFINE new(h) == [always |-> listing[h].always \cap Present',
                      ever |-> listing[h].ever \cup Present']
<1>1. Present' \subseteq Session
  BY DEF Present, ServerInv, ServerTypes
<1>2. listing' = [h \in Request |-> new(h)]
  BY DEF Watched
<1>3. ASSUME NEW h \in Request
      PROVE  /\ new(h) \in [always : SUBSET Session, ever : SUBSET Session]
             /\ new(h).always = listing[h].always \cap Present'
             /\ new(h).ever = listing[h].ever \cup Present'
  <2>1. listing[h] \in [always : SUBSET Session, ever : SUBSET Session]
    BY DEF RegistryInv, ListingInv, ListingType
  <2> QED
    BY <1>1, <2>1
<1> HIDE DEF new
<1>4. \A h \in Request : listing'[h] = new(h)
  BY <1>2
<1>5. ListingType'
  BY <1>2, <1>3 DEF ListingType
<1> QED
  BY <1>3, <1>4, <1>5

\* It keeps what it knows of the names it has still to read.
LEMMA ChangeKeep ==
  ASSUME ServerInv, ServerInv', RegistryInv, Watched, raced \subseteq raced',
         \A h \in Request : \/ task'[h] = task[h]
                            \/ task'[h].ids = {} /\ ~Is(task'[h], "read"),
         \A h \in Request : \A s \in task[h].ids :
           s \in index \/ GoneOrRaced(s) => s \in index' \/ GoneOrRaced(s)',
         \A h \in Request :
           /\ Is(task[h], "read") /\ task[h].phase = "stale" /\ task[h].s \in Session
           /\ GoneOrRaced(task[h].s)
           => record'[task[h].s] = None \/ task[h].s \in raced'
  PROVE  ListingInv'
<1>1. ListingType' /\ Present' \subseteq Session
  BY WatchedListings DEF Present, ServerInv, ServerTypes
<1>2. \A h \in Request : /\ listing'[h].always = listing[h].always \cap Present'
                         /\ listing'[h].ever = listing[h].ever \cup Present'
  BY WatchedListings
<1>3. \A h \in Request : \A s \in task'[h].ids : s \in index' \/ GoneOrRaced(s)'
  BY DEF RegistryInv, ListingInv
<1>4. ASSUME NEW h \in Request, Is(task'[h], "read")
      PROVE  /\ listing'[h].always \subseteq task'[h].found \cup task'[h].ids
             /\ task'[h].found \subseteq listing'[h].ever \cup raced'
             /\ task'[h].phase = "stale" =>
                  /\ task'[h].s \in Session /\ GoneOrRaced(task[h].s)'
                  /\ task'[h].s \notin listing'[h].always
  <2>1. task'[h] = task[h] /\ Is(task[h], "read")
    BY <1>4
  <2>2. /\ listing[h].always \subseteq task[h].found \cup task[h].ids
        /\ task[h].found \subseteq listing[h].ever \cup raced
        /\ task[h].phase = "stale" =>
             /\ task[h].s \in Session /\ GoneOrRaced(task[h].s)
             /\ task[h].s \notin listing[h].always
    BY <2>1 DEF RegistryInv, ListingInv
  <2>3. task[h].phase = "stale" => GoneOrRaced(task[h].s)'
    BY <2>1, <2>2 DEF GoneOrRaced
  <2> QED
    BY <1>2, <2>1, <2>2, <2>3
<1> QED
  BY <1>1, <1>2, <1>3, <1>4 DEF ListingInv

\* Of the requests those that do not move, or are no listings, stay as they are.
LEMMA RequestsStay ==
  ASSUME RegistryInv, NEW r \in Runners, ~Is(At(r), "read"), ~Is(At(r)', "read"),
         ListsInv', \A q \in Runners : q # r => At(q)' = At(q)
  PROVE  \A h \in Request : \/ task'[h] = task[h]
                            \/ task'[h].ids = {} /\ ~Is(task'[h], "read")
<1> SUFFICES ASSUME NEW h \in Request
             PROVE  task'[h] = task[h] \/ (task'[h].ids = {} /\ ~Is(task'[h], "read"))
  OBVIOUS
<1>1. <<"task", h>> \in Runners /\ At(<<"task", h>>) = task[h] /\ At(<<"task", h>>)' = task'[h]
  BY DEF Runners, At
<1> QED
  BY <1>1 DEF ListsInv

\* Every key that was missing is missing still, or its session was raced; and so
\* is that of a name that leaves the index.
LEMMA GoneListings ==
  ASSUME ServerInv, ServerInv', RegistryInv, ListsInv', Watched, raced \subseteq raced',
         NEW r \in Runners, ~Is(At(r), "read"), ~Is(At(r)', "read"),
         \A q \in Runners : q # r => At(q)' = At(q),
         \A s \in Session : GoneOrRaced(s) => record'[s] = None \/ s \in raced',
         \A s \in index : s \in index' \/ record'[s] = None \/ s \in raced'
  PROVE  ListingInv'
<1>1. \A h \in Request : \A s \in task[h].ids : s \in Session
  BY DEF ServerInv, ServerTypes, TaskType
<1>2. \A h \in Request : \A s \in task[h].ids :
        s \in index \/ GoneOrRaced(s) => s \in index' \/ GoneOrRaced(s)'
  BY <1>1 DEF GoneOrRaced
<1>3. \A h \in Request : \/ task'[h] = task[h]
                         \/ task'[h].ids = {} /\ ~Is(task'[h], "read")
  BY RequestsStay
<1> QED
  BY <1>2, <1>3, ChangeKeep

LEMMA UpdateSetRegistry ==
  ASSUME ServerInv, ServerInv', RegistryInv, NEW r \in Runners, UpdateSet(r)
  PROVE  RegistryInv'
<1> DEFINE k == At(r)
           l == [k EXCEPT !.phase = "set"]
<1>1. /\ k \in TaskType /\ Is(k, "to") /\ k.phase = "got" /\ k.s \in Session
      /\ k.s # Nobody /\ Live(k.got) /\ "to" \notin First \cup Second
  BY InSession, Typed DEF UpdateSet, First, Second, Holds
<1>2. /\ l \in TaskType /\ l.s = k.s /\ l.todo = k.todo /\ l.ids = k.ids
      /\ l.found = k.found /\ l.phase = "set"
  BY <1>1 DEF TaskType, Phase
<1>3. Becomes(r, l)
  BY DEF UpdateSet
<1> HIDE DEF l
<1>4. Passes(r, l) /\ ~WillSet(l)
  BY <1>1, <1>2, SameListPasses DEF WillSet
<1>5. At(r)' = l /\ \A q \in Runners : q # r => At(q)' = At(q)
  BY <1>2, <1>3, BecomesAt, Typed
<1>6. AllSound /\ AllPlaced
  BY <1>4, <1>5, PassIsSound DEF AllPass
<1>7. record' = [record EXCEPT ![k.s] = k.got] /\ UNCHANGED <<index, raced, torn>> /\ Watched
  BY DEF UpdateSet
<1>8. /\ k.got # None /\ record'[k.s] = k.got
      /\ \A s \in Session : s # k.s => record'[s] = record[s]
  BY <1>1, <1>7 DEF Live, None, ServerInv, ServerTypes
<1>9. record[k.s] # None \/ k.s \in raced
  BY <1>1 DEF RegistryInv, StoreInv, WillSet
<1>10. \A s \in Session : GoneOrRaced(s) => record'[s] = None \/ s \in raced'
  BY <1>7, <1>8, <1>9 DEF GoneOrRaced
<1>11. ~Is(k, "enter") /\ ~Is(k, "leave") /\ ~Is(k, "read")
       /\ ~Is(l, "enter") /\ ~Is(l, "leave") /\ ~Is(l, "read")
  BY <1>1, <1>2 DEF Is
<1>12. ListsInv'
  BY <1>6, ListsKeep
<1>13. EnterInv'
  <2>1. \A s \in index' : s \in index
    BY <1>7
  <2>2. ASSUME NEW q \in Runners, Is(At(q), "enter") PROVE record'[At(q).s] # None
    BY <1>8, <2>2, EntersSession DEF RegistryInv, EnterInv
  <2> QED
    BY <1>6, <2>1, <2>2, EnterKeep
<1>14. StoreInv'
  <2>1. ASSUME NEW q \in Runners, WillSet(At(q)')
        PROVE  record'[At(q)'.s] # None \/ At(q)'.s \in raced'
    <3>1. At(q)' = At(q) /\ Is(At(q), "to")
      BY <1>4, <1>5, <2>1 DEF WillSet
    <3>2. At(q).s \in Session
      BY <3>1, InSession
    <3>3. record[At(q).s] # None \/ At(q).s \in raced
      BY <2>1, <3>1 DEF RegistryInv, StoreInv
    <3> QED
      BY <1>7, <1>8, <3>1, <3>2, <3>3
  <2>2. ASSUME NEW q \in Runners, Is(At(q)', "leave") PROVE GoneOrRaced(At(q).s)'
    <3>1. At(q)' = At(q) /\ Is(At(q), "leave")
      BY <1>5, <1>11, <2>2
    <3>2. At(q).s \in Session /\ GoneOrRaced(At(q).s)
      BY <3>1, EntersSession DEF RegistryInv, StoreInv
    <3> QED
      BY <1>10, <3>1, <3>2 DEF GoneOrRaced
  <2>3. ASSUME NEW s \in index', record'[s] = None
        PROVE  s \in torn' \/ \E q \in Runners : At(q)'.s = s /\ Is(At(q)', "leave")
    <3>1. s \in index /\ s \in Session /\ record[s] = None
      BY <1>7, <1>8, <2>3 DEF ServerInv, ServerTypes
    <3>2. s \in torn \/ \E q \in Runners : At(q).s = s /\ Is(At(q), "leave")
      BY <3>1 DEF RegistryInv, StoreInv
    <3> QED
      BY <1>5, <1>7, <1>11, <3>2
  <2>4. NoHiddenSessions'
    <3> SUFFICES ASSUME NEW s \in Session, record'[s] # None, s \notin index',
                        s \notin torn', s \notin raced'
                 PROVE  \E q \in Uses(s)' : Is(At(q)', "enter")
      BY DEF NoHiddenSessions
    <3>1. record[s] # None /\ s \notin index /\ s \notin torn /\ s \notin raced
      BY <1>7, <1>8, <1>9
    <3>2. PICK q \in Uses(s) : Is(At(q), "enter")
      BY <3>1 DEF RegistryInv, StoreInv, NoHiddenSessions
    <3>3. q \in Runners /\ At(q)' = At(q) /\ At(q).s = s
      BY <1>5, <1>11, <3>2 DEF Uses
    <3> QED
      BY <3>2, <3>3 DEF Uses
  <2> QED
    BY <2>1, <2>2, <2>3, <2>4 DEF StoreInv
<1>15. ListingInv'
  BY <1>5, <1>7, <1>10, <1>11, <1>12, GoneListings
<1> QED
  BY <1>12, <1>13, <1>14, <1>15 DEF RegistryInv

-----------------------------------------------------------------------------
(* The two halves of a pair.                                               *)

\* No reply has a half of a pair to do.
LEMMA HalvesOfTasks ==
  ASSUME RegistryInv, NEW r \in Runners, NEW d \in First \cup Second, Is(At(r), d)
  PROVE  r[1] # "reply"
<1> DEFINE q == At(r).todo
<1>1. q # <<>> /\ Head(q).do \in First \cup Second
  BY DEF Is
<1> HIDE DEF q
<1>2. q \notin Seq(Answering)
  BY <1>1, HeadTailProperties DEF Answering, First, Second
<1> QED
  BY <1>2, ReplyAnswers DEF q

\* After the first half comes the second.
LEMMA FirstDone ==
  ASSUME ServerInv, RegistryInv, NEW r \in Runners, NEW d \in First, Is(At(r), d)
  PROVE  LET l == Done(At(r)) IN
         /\ l \in TaskType /\ Paired(l.todo) /\ l.s = At(r).s /\ l.phase = "run"
         /\ l.ids = {} /\ l.found = {} /\ r[1] # "reply"
         /\ d = "write" => Is(l, "enter")
         /\ d = "delete" => Is(l, "leave")
         /\ d = "members" => Is(l, "read")
<1> DEFINE k == At(r)
           q == At(r).todo
<1>1. k \in TaskType /\ ~Idle(k) /\ ~Is(k, "read") /\ q \in Seq(Steps) /\ q # <<>>
  BY Typed DEF TaskType, Todo, Is, Idle, First
<1>2. Paired(q) /\ Head(q).do = d
  BY DEF RegistryInv, ListsInv, Is
<1>3. k.ids = {} /\ k.found = {}
  BY <1>1 DEF RegistryInv, ListsInv
<1>4. Tail(q) # <<>> /\ Paired(Tail(q)) /\ Fits(Head(q), Head(Tail(q)))
  <2> HIDE DEF q
  <2> QED
    BY <1>1, <1>2, PairedTail
<1>5. Len(q) # 1
  <2> HIDE DEF q
  <2>1. Tail(q) \in Seq(Steps) /\ Len(Tail(q)) = Len(q) - 1
    BY <1>1, HeadTailProperties
  <2>2. Len(Tail(q)) # 0
    BY <1>4, <2>1, EmptySeq
  <2> QED
    BY <2>1, <2>2
<1>6. Done(k) = [k EXCEPT !.todo = Tail(q), !.phase = "run", !.got = None]
  BY <1>5 DEF Done
<1>7. /\ Done(k).todo = Tail(q) /\ Done(k).s = k.s /\ Done(k).phase = "run"
      /\ Done(k).ids = {} /\ Done(k).found = {}
  BY <1>1, <1>3, <1>6 DEF TaskType
<1>8. Done(k) \in TaskType
  BY <1>1, DoneType
<1>9. /\ d = "write" => Head(Tail(q)).do = "enter"
      /\ d = "delete" => Head(Tail(q)).do = "leave"
      /\ d = "members" => Head(Tail(q)).do = "read"
  BY <1>2, <1>4 DEF Fits
<1> QED
  BY <1>4, <1>7, <1>8, <1>9, HalvesOfTasks DEF Is

\* After the second half comes nothing, or a step that is no second half.
LEMMA SecondDone ==
  ASSUME ServerInv, RegistryInv, NEW r \in Runners, NEW d \in {"enter", "leave"},
         Is(At(r), d)
  PROVE  LET l == Done(At(r)) IN
         /\ l \in TaskType /\ Paired(l.todo) /\ (Idle(l) \/ l.s = At(r).s)
         /\ l.ids = {} /\ l.found = {} /\ r[1] # "reply"
         /\ ~Is(l, "enter") /\ ~Is(l, "leave") /\ ~Is(l, "read") /\ ~WillSet(l)
<1> DEFINE k == At(r)
           q == At(r).todo
           l == Done(At(r))
<1>1. k \in TaskType /\ ~Idle(k) /\ ~Is(k, "read") /\ q \in Seq(Steps) /\ q # <<>>
  BY Typed DEF TaskType, Todo, Is, Idle
<1>2. Paired(q) /\ Head(q).do = d
  BY DEF RegistryInv, ListsInv, Is
<1>3. k.ids = {} /\ k.found = {}
  BY <1>1 DEF RegistryInv, ListsInv
<1>4. Paired(Tail(q)) /\ (Tail(q) # <<>> => Fits(Head(q), Head(Tail(q))))
  <2> HIDE DEF q
  <2> QED
    BY <1>1, <1>2, PairedTail
<1>5. l \in TaskType /\ l.phase = "run" /\ (Idle(l) \/ l.s = k.s)
  BY <1>1, DoneType
<1>6. Tail(q) # <<>> => Head(Tail(q)).do \notin Second
  BY <1>2, <1>4 DEF Fits, Second
<1>7. /\ l.todo = <<>> \/ l.todo = Tail(q)
      /\ l.ids = {} /\ l.found = {}
  <2>1. CASE Len(q) = 1
    BY <2>1 DEF Done, NoTask
  <2>2. CASE Len(q) # 1
    <3>1. l = [k EXCEPT !.todo = Tail(q), !.phase = "run", !.got = None]
      BY <2>2 DEF Done
    <3> QED
      BY <1>1, <1>3, <3>1 DEF TaskType
  <2> QED
    BY <2>1, <2>2
<1>8. r[1] # "reply"
  BY HalvesOfTasks DEF Second
<1> HIDE DEF l
<1>9. Paired(l.todo)
  BY <1>4, <1>7, ReplyLists DEF Complete
<1>10. ~Is(l, "enter") /\ ~Is(l, "leave") /\ ~Is(l, "read") /\ ~WillSet(l)
  BY <1>5, <1>6, <1>7 DEF Is, WillSet, Second
<1> QED
  BY <1>5, <1>7, <1>8, <1>9, <1>10 DEF l

\* One runner moves.
LEMMA OneSound ==
  ASSUME NEW r \in Runners, Sound(r, At(r)'), \A q \in Runners : q # r => At(q)' = At(q)
  PROVE  AllSound
BY DEF AllSound

LEMMA OnePlaced ==
  ASSUME NEW r \in Runners, Placed(r, At(r)'), \A q \in Runners : q # r => At(q)' = At(q)
  PROVE  AllPlaced
BY DEF AllPlaced

-----------------------------------------------------------------------------
(* The commands of a creation and of a close.                              *)

\* The key is written.
LEMMA WriteRegistry ==
  ASSUME ServerInv, ServerInv', RegistryInv, NEW r \in Runners, Is(At(r), "write"),
         Becomes(r, Done(At(r))), record' = [record EXCEPT ![At(r).s] = Fresh],
         UNCHANGED <<index, raced, torn>>, Watched
  PROVE  RegistryInv'
<1> DEFINE k == At(r)
           x == At(r).s
           l == Done(At(r))
<1>1. /\ x \in Session /\ x # Nobody /\ ~Idle(k) /\ Writes(k)
      /\ ~Is(k, "enter") /\ ~Is(k, "leave") /\ ~Is(k, "read")
  BY InSession DEF Writes, Is
<1>2. /\ l \in TaskType /\ Paired(l.todo) /\ l.s = x /\ l.phase = "run"
      /\ l.ids = {} /\ l.found = {} /\ r[1] # "reply" /\ Is(l, "enter")
  BY FirstDone DEF First
<1>3. At(r)' = l /\ \A q \in Runners : q # r => At(q)' = At(q)
  BY <1>2, BecomesAt, Typed
<1> HIDE DEF l
<1>4. ~Is(l, "leave") /\ ~Is(l, "read") /\ ~WillSet(l)
  BY <1>2 DEF Is, WillSet
<1>5. \A q \in Runners : (q # r /\ At(q).s = x) => Idle(At(q))
  BY <1>1 DEF ServerInv, OneCreator
<1>6. /\ \A s \in index : s # x
      /\ \A q \in Runners : \A s \in At(q).ids : s # x
  BY <1>1 DEF ServerInv, Listed, Made, NotCreated
<1>7. /\ record'[x] = Fresh /\ Fresh # None
      /\ \A s \in Session : s # x => record'[s] = record[s]
  BY <1>1 DEF Fresh, None, ServerInv, ServerTypes
<1>8. AllSound
  BY <1>2, <1>3, OneSound DEF Sound
<1>9. ListsInv'
  BY <1>8, ListsKeep
\* Whoever else has something to do, does it in another session.
<1>10. ASSUME NEW q \in Runners, NEW d \in {"enter", "leave"}, Is(At(q), d)
       PROVE  q # r /\ At(q).s \in Session /\ At(q).s # x
  <2>1. q # r
    BY <1>1, <1>10
  <2>2. ~Idle(At(q)) /\ At(q).s \in Session
    BY <1>10, EntersSession
  <2> QED
    BY <1>5, <2>1, <2>2
<1>11. EnterInv'
  <2>1. ASSUME NEW a \in Runners, NEW b \in Runners, Is(At(a)', "enter"), b # a,
               At(b)'.s = At(a)'.s
        PROVE  Idle(At(b)')
    <3>1. CASE a = r
      BY <1>2, <1>3, <1>5, <2>1, <3>1
    <3>2. CASE a # r
      <4>1. At(a)' = At(a) /\ Is(At(a), "enter") /\ At(a).s # x
        BY <1>3, <1>10, <2>1, <3>2
      <4>2. b # r /\ At(b)' = At(b)
        BY <1>2, <1>3, <2>1, <4>1
      <4> QED
        BY <2>1, <4>1, <4>2 DEF RegistryInv, EnterInv
    <3> QED
      BY <3>1, <3>2
  <2>2. ASSUME NEW a \in Runners, Is(At(a)', "enter") PROVE record'[At(a)'.s] # None
    <3>1. CASE a = r
      BY <1>2, <1>3, <1>7, <3>1
    <3>2. CASE a # r
      <4>1. At(a)' = At(a) /\ Is(At(a), "enter")
        BY <1>3, <2>2, <3>2
      <4>2. At(a).s \in Session /\ At(a).s # x
        BY <1>10, <4>1
      <4>3. record[At(a).s] # None
        BY <4>1 DEF RegistryInv, EnterInv
      <4> QED
        BY <1>7, <4>1, <4>2, <4>3
    <3> QED
      BY <3>1, <3>2
  <2>3. ASSUME NEW s, s # x, NotEntered(s) PROVE NotEntered(s)'
    BY <1>2, <1>3, <2>3 DEF NotEntered
  <2>4. \A s \in index' : NotEntered(s)'
    BY <1>6, <2>3 DEF RegistryInv, EnterInv
  <2>5. ASSUME NEW a \in Runners, NEW s \in At(a)'.ids PROVE NotEntered(s)'
    <3>1. At(a)' = At(a)
      BY <1>2, <1>3, <2>5
    <3>2. s # x /\ NotEntered(s)
      BY <1>6, <2>5, <3>1 DEF RegistryInv, EnterInv
    <3> QED
      BY <2>3, <3>2
  <2>6. \A a, b \in Runners :
          (Is(At(a)', "enter") /\ b # a /\ At(b)'.s = At(a)'.s) => Idle(At(b)')
    BY <2>1
  <2> QED
    BY <2>2, <2>4, <2>5, <2>6 DEF EnterInv
<1>12. StoreInv'
  <2>1. ASSUME NEW q \in Runners, WillSet(At(q)')
        PROVE  record'[At(q)'.s] # None \/ At(q)'.s \in raced'
    <3>1. q # r /\ At(q)' = At(q)
      BY <1>3, <1>4, <2>1
    <3>2. ~Idle(At(q)) /\ At(q).s \in Session
      BY <2>1, <3>1, InSession DEF WillSet
    <3>3. record[At(q).s] # None \/ At(q).s \in raced
      BY <2>1, <3>1 DEF RegistryInv, StoreInv
    <3> QED
      BY <1>5, <1>7, <3>1, <3>2, <3>3
  <2>2. ASSUME NEW q \in Runners, Is(At(q)', "leave") PROVE GoneOrRaced(At(q).s)'
    <3>1. At(q)' = At(q) /\ Is(At(q), "leave")
      BY <1>3, <1>4, <2>2
    <3>2. At(q).s \in Session /\ At(q).s # x /\ GoneOrRaced(At(q).s)
      BY <1>10, <3>1 DEF RegistryInv, StoreInv
    <3> QED
      BY <1>7, <3>1, <3>2 DEF GoneOrRaced
  <2>3. ASSUME NEW s \in index', record'[s] = None
        PROVE  s \in torn' \/ \E q \in Runners : At(q)'.s = s /\ Is(At(q)', "leave")
    <3>1. s \in index /\ record[s] = None
      BY <1>6, <1>7, <2>3 DEF ServerInv, ServerTypes
    <3>2. s \in torn \/ \E q \in Runners : At(q).s = s /\ Is(At(q), "leave")
      BY <3>1 DEF RegistryInv, StoreInv
    <3> QED
      BY <1>1, <1>3, <3>2
  <2>4. NoHiddenSessions'
    <3> SUFFICES ASSUME NEW s \in Session, record'[s] # None, s \notin index',
                        s \notin torn', s \notin raced'
                 PROVE  \E q \in Runners : ~Idle(At(q)') /\ At(q)'.s = s /\ Is(At(q)', "enter")
      BY DEF NoHiddenSessions, Uses
    <3>1. CASE s = x
      BY <1>2, <1>3, <3>1 DEF Is, Idle
    <3>2. CASE s # x
      <4>1. PICK q \in Uses(s) : Is(At(q), "enter")
        BY <1>7, <3>2 DEF RegistryInv, StoreInv, NoHiddenSessions
      <4>2. q \in Runners /\ ~Idle(At(q)) /\ At(q).s = s /\ At(q)' = At(q)
        BY <1>1, <1>3, <4>1 DEF Uses
      <4> QED
        BY <4>1, <4>2
    <3> QED
      BY <3>1, <3>2
  <2> QED
    BY <2>1, <2>2, <2>3, <2>4 DEF StoreInv
<1>13. ListingInv'
  <2>1. \A h \in Request : \A s \in task[h].ids : s \in Session /\ s # x
    <3> SUFFICES ASSUME NEW h \in Request, NEW s \in task[h].ids PROVE s \in Session /\ s # x
      OBVIOUS
    <3>1. <<"task", h>> \in Runners /\ At(<<"task", h>>) = task[h]
      BY DEF Runners, At
    <3>2. s \in Session
      BY DEF ServerInv, ServerTypes, TaskType
    <3> QED
      BY <1>6, <3>1, <3>2
  <2>2. \A h \in Request : \A s \in task[h].ids :
          s \in index \/ GoneOrRaced(s) => s \in index' \/ GoneOrRaced(s)'
    BY <1>7, <2>1 DEF GoneOrRaced
  <2>3. ASSUME NEW h \in Request, Is(task[h], "read"), task[h].s \in Session,
               GoneOrRaced(task[h].s)
        PROVE  record'[task[h].s] = None \/ task[h].s \in raced'
    <3>1. <<"task", h>> \in Runners /\ At(<<"task", h>>) = task[h] /\ ~Idle(task[h])
      BY <2>3 DEF Runners, At, Is, Idle
    <3>2. task[h].s # x
      BY <1>1, <1>5, <2>3, <3>1
    <3> QED
      BY <1>7, <2>3, <3>2 DEF GoneOrRaced
  <2>4. \A h \in Request : \/ task'[h] = task[h]
                           \/ task'[h].ids = {} /\ ~Is(task'[h], "read")
    BY <1>1, <1>3, <1>4, <1>9, RequestsStay
  <2> QED
    BY <2>2, <2>3, <2>4, ChangeKeep
<1> QED
  BY <1>9, <1>11, <1>12, <1>13 DEF RegistryInv

\* The name is entered.
LEMMA EnterRegistry ==
  ASSUME ServerInv, ServerInv', RegistryInv, NEW r \in Runners, Is(At(r), "enter"),
         Becomes(r, Done(At(r))), index' = index \cup {At(r).s},
         UNCHANGED <<record, raced, torn>>, Watched
  PROVE  RegistryInv'
<1> DEFINE k == At(r)
           x == At(r).s
           l == Done(At(r))
<1>1. /\ x \in Session /\ x # Nobody /\ ~Idle(k) /\ ~Is(k, "leave") /\ ~Is(k, "read")
      /\ record[x] # None
  BY EntersSession DEF Is, RegistryInv, EnterInv
<1>2. /\ l \in TaskType /\ Paired(l.todo) /\ (Idle(l) \/ l.s = At(r).s)
      /\ l.ids = {} /\ l.found = {} /\ r[1] # "reply"
      /\ ~Is(l, "enter") /\ ~Is(l, "leave") /\ ~Is(l, "read") /\ ~WillSet(l)
  BY SecondDone
<1>3. At(r)' = l /\ \A q \in Runners : q # r => At(q)' = At(q)
  BY <1>2, BecomesAt, Typed
<1> HIDE DEF l
<1>4. AllSound /\ AllPlaced
  BY <1>1, <1>2, <1>3, OneSound, OnePlaced DEF Sound, Placed
<1>5. ListsInv'
  BY <1>4, ListsKeep
<1>6. EnterInv'
  <2>1. ASSUME NEW s, s = x PROVE NotEntered(s)'
    <3> SUFFICES ASSUME NEW q \in Runners, Is(At(q)', "enter"), At(q)'.s = s PROVE FALSE
      BY DEF NotEntered
    <3>1. q # r /\ At(q)' = At(q)
      BY <1>2, <1>3
    <3>2. Idle(At(q))
      BY <2>1, <3>1 DEF RegistryInv, EnterInv
    <3> QED
      BY <3>1, <3>2 DEF Is, Idle
  <2>2. \A s \in index' : s \in index \/ NotEntered(s)'
    BY <2>1
  <2>3. \A q \in Runners : Is(At(q), "enter") => record'[At(q).s] # None
    BY DEF RegistryInv, EnterInv
  <2> QED
    BY <1>4, <2>2, <2>3, EnterKeep
<1>7. StoreInv'
  <2>1. \A q \in Runners : WillSet(At(q)') => record'[At(q)'.s] # None \/ At(q)'.s \in raced'
    BY <1>2, <1>3 DEF RegistryInv, StoreInv
  <2>2. \A q \in Runners : Is(At(q)', "leave") => GoneOrRaced(At(q).s)'
    BY <1>2, <1>3 DEF RegistryInv, StoreInv, GoneOrRaced
  <2>3. ASSUME NEW s \in index', record'[s] = None
        PROVE  s \in torn' \/ \E q \in Runners : At(q)'.s = s /\ Is(At(q)', "leave")
    <3>1. s \in index /\ record[s] = None
      BY <1>1, <2>3
    <3>2. s \in torn \/ \E q \in Runners : At(q).s = s /\ Is(At(q), "leave")
      BY <3>1 DEF RegistryInv, StoreInv
    <3> QED
      BY <1>1, <1>3, <3>2
  <2>4. NoHiddenSessions'
    <3> SUFFICES ASSUME NEW s \in Session, record'[s] # None, s \notin index',
                        s \notin torn', s \notin raced'
                 PROVE  \E q \in Runners : ~Idle(At(q)') /\ At(q)'.s = s /\ Is(At(q)', "enter")
      BY DEF NoHiddenSessions, Uses
    <3>1. PICK q \in Uses(s) : Is(At(q), "enter")
      BY DEF RegistryInv, StoreInv, NoHiddenSessions
    <3>2. q \in Runners /\ ~Idle(At(q)) /\ At(q).s = s
      BY <3>1 DEF Uses
    <3>3. At(q)' = At(q)
      BY <1>3, <3>2
    <3> QED
      BY <3>1, <3>2, <3>3
  <2> QED
    BY <2>1, <2>2, <2>3, <2>4 DEF StoreInv
<1>8. ListingInv'
  <2>1. \A s \in Session : GoneOrRaced(s) => record'[s] = None \/ s \in raced'
    BY DEF GoneOrRaced
  <2>2. \A s \in index : s \in index' \/ record'[s] = None \/ s \in raced'
    OBVIOUS
  <2> QED
    BY <1>1, <1>2, <1>3, <1>5, <2>1, <2>2, GoneListings
<1> QED
  BY <1>5, <1>6, <1>7, <1>8 DEF RegistryInv

\* The key is deleted.
LEMMA DeleteRegistry ==
  ASSUME ServerInv, ServerInv', RegistryInv, NEW r \in Runners, Is(At(r), "delete"),
         Becomes(r, Done(At(r))), record' = [record EXCEPT ![At(r).s] = None],
         IF Updating(At(r).s) THEN raced' = raced \cup {At(r).s} ELSE raced' = raced,
         UNCHANGED <<index, torn>>, Watched
  PROVE  RegistryInv'
<1> DEFINE k == At(r)
           x == At(r).s
           l == Done(At(r))
<1>1. /\ x \in Session /\ x # Nobody /\ ~Idle(k)
      /\ ~Is(k, "enter") /\ ~Is(k, "leave") /\ ~Is(k, "read")
  BY InSession DEF Is
<1>2. /\ l \in TaskType /\ Paired(l.todo) /\ l.s = x /\ l.phase = "run"
      /\ l.ids = {} /\ l.found = {} /\ r[1] # "reply" /\ Is(l, "leave")
  BY FirstDone DEF First
<1>3. At(r)' = l /\ \A q \in Runners : q # r => At(q)' = At(q)
  BY <1>2, BecomesAt, Typed
<1> HIDE DEF l
<1>4. ~Is(l, "enter") /\ ~Is(l, "read") /\ ~WillSet(l)
  BY <1>2 DEF Is, WillSet
<1>5. AllSound /\ AllPlaced
  BY <1>1, <1>2, <1>3, <1>4, OneSound, OnePlaced DEF Sound, Placed
<1>6. ListsInv'
  BY <1>5, ListsKeep
<1>7. /\ record'[x] = None /\ raced \subseteq raced'
      /\ \A s \in Session : s # x => record'[s] = record[s]
  BY <1>1 DEF ServerInv, ServerTypes
<1>8. \A s \in Session : GoneOrRaced(s) => record'[s] = None \/ s \in raced'
  BY <1>7 DEF GoneOrRaced
<1>9. EnterInv'
  <2>1. ASSUME NEW q \in Runners, Is(At(q), "enter") PROVE record'[At(q).s] # None
    <3>1. q # r /\ At(q).s \in Session /\ record[At(q).s] # None
      BY <1>1, <2>1, EntersSession DEF RegistryInv, EnterInv
    <3>2. At(q).s # x
      BY <1>1, <2>1, <3>1 DEF RegistryInv, EnterInv
    <3> QED
      BY <1>7, <3>1, <3>2
  <2>2. \A s \in index' : s \in index
    OBVIOUS
  <2> QED
    BY <1>5, <2>1, <2>2, EnterKeep
<1>10. StoreInv'
  <2>1. ASSUME NEW q \in Runners, WillSet(At(q)')
        PROVE  record'[At(q)'.s] # None \/ At(q)'.s \in raced'
    <3>1. q # r /\ At(q)' = At(q) /\ WillSet(At(q))
      BY <1>3, <1>4, <2>1
    <3>2. ~Idle(At(q)) /\ At(q).s \in Session
      BY <3>1, InSession DEF WillSet
    <3>3. record[At(q).s] # None \/ At(q).s \in raced
      BY <3>1 DEF RegistryInv, StoreInv
    <3>4. CASE At(q).s = x
      <4>1. Updating(x)
        BY <3>1, <3>2, <3>4 DEF Updating, Uses, WillSet
      <4> QED
        BY <3>1, <3>4, <4>1
    <3>5. CASE At(q).s # x
      BY <1>7, <3>1, <3>2, <3>3, <3>5
    <3> QED
      BY <3>4, <3>5
  <2>2. ASSUME NEW q \in Runners, Is(At(q)', "leave") PROVE GoneOrRaced(At(q).s)'
    <3>1. CASE q = r
      BY <1>2, <1>3, <1>7, <3>1 DEF GoneOrRaced
    <3>2. CASE q # r
      <4>1. At(q)' = At(q) /\ Is(At(q), "leave")
        BY <1>3, <2>2, <3>2
      <4>2. At(q).s \in Session /\ GoneOrRaced(At(q).s)
        BY <4>1, EntersSession DEF RegistryInv, StoreInv
      <4> QED
        BY <1>8, <4>1, <4>2 DEF GoneOrRaced
    <3> QED
      BY <3>1, <3>2
  <2>3. ASSUME NEW s \in index', record'[s] = None
        PROVE  s \in torn' \/ \E q \in Runners : At(q)'.s = s /\ Is(At(q)', "leave")
    <3>1. CASE s = x
      BY <1>2, <1>3, <3>1
    <3>2. CASE s # x
      <4>1. s \in index /\ record[s] = None
        BY <1>7, <2>3, <3>2 DEF ServerInv, ServerTypes
      <4>2. s \in torn \/ \E q \in Runners : At(q).s = s /\ Is(At(q), "leave")
        BY <4>1 DEF RegistryInv, StoreInv
      <4> QED
        BY <1>1, <1>3, <4>2
    <3> QED
      BY <3>1, <3>2
  <2>4. NoHiddenSessions'
    <3> SUFFICES ASSUME NEW s \in Session, record'[s] # None, s \notin index',
                        s \notin torn', s \notin raced'
                 PROVE  \E q \in Runners : ~Idle(At(q)') /\ At(q)'.s = s /\ Is(At(q)', "enter")
      BY DEF NoHiddenSessions, Uses
    <3>1. record[s] # None /\ s \notin raced
      BY <1>7
    <3>2. PICK q \in Uses(s) : Is(At(q), "enter")
      BY <3>1 DEF RegistryInv, StoreInv, NoHiddenSessions
    <3>3. q \in Runners /\ ~Idle(At(q)) /\ At(q).s = s /\ At(q)' = At(q)
      BY <1>1, <1>3, <3>2 DEF Uses
    <3> QED
      BY <3>2, <3>3
  <2> QED
    BY <2>1, <2>2, <2>3, <2>4 DEF StoreInv
<1>11. ListingInv'
  BY <1>1, <1>3, <1>4, <1>6, <1>7, <1>8, GoneListings
<1> QED
  BY <1>6, <1>9, <1>10, <1>11 DEF RegistryInv

\* Names leave the index, and with them nothing that is there.
LEMMA LeaveStore ==
  ASSUME ServerInv, RegistryInv, NEW X, \A x \in X : GoneOrRaced(x), index' = index \ X,
         UNCHANGED <<record, raced, torn>>, NEW r \in Runners,
         \A q \in Runners : q # r => At(q)' = At(q),
         ~Is(At(r), "enter"), Is(At(r), "leave") => At(r).s \in X,
         ~Is(At(r)', "leave"), ~WillSet(At(r)')
  PROVE  StoreInv'
<1>1. \A q \in Runners : WillSet(At(q)') => record'[At(q)'.s] # None \/ At(q)'.s \in raced'
  BY DEF RegistryInv, StoreInv
<1>2. \A q \in Runners : Is(At(q)', "leave") => GoneOrRaced(At(q).s)'
  BY DEF RegistryInv, StoreInv, GoneOrRaced
<1>3. ASSUME NEW s \in index', record'[s] = None
      PROVE  s \in torn' \/ \E q \in Runners : At(q)'.s = s /\ Is(At(q)', "leave")
  <2>1. s \in index /\ record[s] = None /\ s \notin X
    BY <1>3
  <2>2. s \in torn \/ \E q \in Runners : At(q).s = s /\ Is(At(q), "leave")
    BY <2>1 DEF RegistryInv, StoreInv
  <2> QED
    BY <2>1, <2>2
<1>4. NoHiddenSessions'
  <2> SUFFICES ASSUME NEW s \in Session, record'[s] # None, s \notin index',
                      s \notin torn', s \notin raced'
               PROVE  \E q \in Runners : ~Idle(At(q)') /\ At(q)'.s = s /\ Is(At(q)', "enter")
    BY DEF NoHiddenSessions, Uses
  <2>1. s \notin index
    BY DEF GoneOrRaced
  <2>2. PICK q \in Uses(s) : Is(At(q), "enter")
    BY <2>1 DEF RegistryInv, StoreInv, NoHiddenSessions
  <2>3. q \in Runners /\ ~Idle(At(q)) /\ At(q).s = s /\ At(q)' = At(q)
    BY <2>2 DEF Uses
  <2> QED
    BY <2>2, <2>3
<1> QED
  BY <1>1, <1>2, <1>3, <1>4 DEF StoreInv

LEMMA LeaveRegistry ==
  ASSUME ServerInv, ServerInv', RegistryInv, NEW r \in Runners, Is(At(r), "leave"),
         Becomes(r, Done(At(r))), index' = index \ {At(r).s},
         UNCHANGED <<record, raced, torn>>, Watched
  PROVE  RegistryInv'
<1> DEFINE k == At(r)
           x == At(r).s
           l == Done(At(r))
<1>1. /\ x \in Session /\ x # Nobody /\ ~Idle(k) /\ ~Is(k, "enter") /\ ~Is(k, "read")
      /\ GoneOrRaced(x)
  BY EntersSession DEF Is, RegistryInv, StoreInv
<1>2. /\ l \in TaskType /\ Paired(l.todo) /\ (Idle(l) \/ l.s = At(r).s)
      /\ l.ids = {} /\ l.found = {} /\ r[1] # "reply"
      /\ ~Is(l, "enter") /\ ~Is(l, "leave") /\ ~Is(l, "read") /\ ~WillSet(l)
  BY SecondDone
<1>3. At(r)' = l /\ \A q \in Runners : q # r => At(q)' = At(q)
  BY <1>2, BecomesAt, Typed
<1> HIDE DEF l
<1>4. AllSound /\ AllPlaced
  BY <1>1, <1>2, <1>3, OneSound, OnePlaced DEF Sound, Placed
<1>5. ListsInv'
  BY <1>4, ListsKeep
<1>6. EnterInv'
  <2>1. \A s \in index' : s \in index
    OBVIOUS
  <2>2. \A q \in Runners : Is(At(q), "enter") => record'[At(q).s] # None
    BY DEF RegistryInv, EnterInv
  <2> QED
    BY <1>4, <2>1, <2>2, EnterKeep
<1>7. StoreInv'
  <2>1. (\A y \in {x} : GoneOrRaced(y)) /\ x \in {x}
    BY <1>1
  <2> QED
    BY <1>1, <1>2, <1>3, <2>1, LeaveStore
<1>8. ListingInv'
  <2>1. \A s \in Session : GoneOrRaced(s) => record'[s] = None \/ s \in raced'
    BY DEF GoneOrRaced
  <2>2. \A s \in index : s \in index' \/ record'[s] = None \/ s \in raced'
    BY <1>1 DEF GoneOrRaced
  <2> QED
    BY <1>1, <1>2, <1>3, <1>5, <2>1, <2>2, GoneListings
<1> QED
  BY <1>5, <1>6, <1>7, <1>8 DEF RegistryInv

LEMMA RaisesBecomes ==
  ASSUME ServerInv, NEW r \in Runners, ~Idle(At(r)), At(r).s # Nobody, Raises(r)
  PROVE  \E m \in TaskType : Becomes(r, m)
<1> DEFINE l == [At(r) EXCEPT !.todo = <<Flush("error")>>, !.phase = "run", !.out = <<>>]
<1>1. At(r) \in TaskType /\ At(r).s \in Name
  BY Typed DEF TaskType
<1>2. <<Flush("error")>> \in Todo /\ <<Do("finally")>> \in Todo
  BY FurtherLists, FurtherIsTodo
<1>3. l \in TaskType
  BY <1>1, <1>2, EmptySeq DEF TaskType, Phase
<1>4. Task(At(r).s, <<Do("finally")>>) \in TaskType
  BY <1>1, <1>2, NewTask
<1>5. \/ Becomes(r, l) \/ Becomes(r, Task(At(r).s, <<Do("finally")>>)) \/ Becomes(r, NoTask)
  BY DEF Raises
<1> QED
  BY <1>3, <1>4, <1>5, NoTaskType

\* The key is looked up.
LEMMA FetchRegistry ==
  ASSUME ServerInv, ServerInv', RegistryInv, NEW r \in Runners, Is(At(r), "fetch"),
         Raises(r) \/ Becomes(r, Done(At(r))),
         UNCHANGED <<record, index, raced, torn>>, Watched
  PROVE  RegistryInv'
<1>1. /\ "fetch" \notin First \cup Second /\ At(r).s # Nobody /\ ~Idle(At(r))
      /\ ~Is(At(r), "read") /\ At(r) \in TaskType
  BY InSession, Typed DEF First, Second, Is
<1>2. Done(At(r)) \in TaskType /\ Passes(r, Done(At(r)))
  BY <1>1, DoneType, DonePasses
<1>3. TasksTyped' /\ AllPass
  BY <1>1, <1>2, RaisesPasses, OnePasses, Typed
<1>4. ListsInv' /\ StoreInv'
  BY <1>3, PassIsSound, ListsKeep, StoreKeep
<1>5. EnterInv'
  <2>1. \A s \in index' : s \in index
    OBVIOUS
  <2>2. \A q \in Runners : Is(At(q), "enter") => record'[At(q).s] # None
    BY DEF RegistryInv, EnterInv
  <2> QED
    BY <1>3, <2>1, <2>2, PassIsSound, EnterKeep
<1>6. ListingInv'
  <2>1. \A q \in Runners : q # r => At(q)' = At(q)
    <3>1. PICK m \in TaskType : Becomes(r, m)
      <4>1. CASE Becomes(r, Done(At(r)))
        BY <1>2, <4>1
      <4>2. CASE Raises(r)
        BY <1>1, <4>2, RaisesBecomes
      <4> QED
        BY <4>1, <4>2
    <3> QED
      BY <3>1, BecomesAt, Typed
  <2>2. ~Is(At(r)', "read")
    BY <1>1, <1>3 DEF AllPass, Passes, Half
  <2>3. \A s \in Session : GoneOrRaced(s) => record'[s] = None \/ s \in raced'
    BY DEF GoneOrRaced
  <2>4. \A s \in index : s \in index' \/ record'[s] = None \/ s \in raced'
    OBVIOUS
  <2> QED
    BY <1>1, <1>4, <2>1, <2>2, <2>3, <2>4, GoneListings
<1> QED
  BY <1>4, <1>5, <1>6 DEF RegistryInv

LEMMA CommandRegistry ==
  ASSUME ServerInv, ServerInv', RegistryInv, NEW r \in Runners, Command(r)
  PROVE  RegistryInv'
<1>1. UNCHANGED torn /\ Watched
  BY DEF Command
<1>2. CASE /\ Is(At(r), "write") /\ Becomes(r, Done(At(r)))
           /\ record' = [record EXCEPT ![At(r).s] = Fresh] /\ UNCHANGED <<index, raced>>
  BY <1>1, <1>2, WriteRegistry
<1>3. CASE /\ Is(At(r), "enter") /\ Becomes(r, Done(At(r)))
           /\ index' = index \cup {At(r).s} /\ UNCHANGED <<record, raced>>
  BY <1>1, <1>3, EnterRegistry
<1>4. CASE /\ Is(At(r), "fetch") /\ UNCHANGED <<record, index, raced>>
           /\ (Raises(r) \/ Becomes(r, Done(At(r))))
  BY <1>1, <1>4, FetchRegistry
<1>5. CASE /\ Is(At(r), "delete") /\ Becomes(r, Done(At(r)))
           /\ record' = [record EXCEPT ![At(r).s] = None] /\ UNCHANGED index
           /\ IF Updating(At(r).s) THEN raced' = raced \cup {At(r).s} ELSE raced' = raced
  BY <1>1, <1>5, DeleteRegistry
<1>6. CASE /\ Is(At(r), "leave") /\ Becomes(r, Done(At(r)))
           /\ index' = index \ {At(r).s} /\ UNCHANGED <<record, raced>>
  BY <1>1, <1>6, LeaveRegistry
<1> QED
  BY <1>2, <1>3, <1>4, <1>5, <1>6 DEF Command, redis

-----------------------------------------------------------------------------
(* The listings.                                                           *)

\* A listing that goes on, or ends, leaves the store as it is.
LEMMA ReadsOn ==
  ASSUME ServerInv, RegistryInv, NEW h \in Request, NEW l \in TaskType,
         task' = [task EXCEPT ![h] = l], reply' = reply,
         UNCHANGED <<record, index, raced, torn, listing>>,
         ~Idle(task[h]), ~Is(task[h], "enter"), ~Is(task[h], "leave"), Paired(l.todo),
         ~Is(l, "enter"), ~Is(l, "leave"), ~WillSet(l),
         ~Is(l, "read") => l.ids = {} /\ l.found = {},
         \A s \in l.ids : s \in index \/ s \in task[h].ids,
         \/ Idle(l) \/ l.s = Nobody \/ l.s = task[h].s
         \/ l.s \in Session /\ l.s \in task[h].ids,
         Is(l, "read") =>
           /\ listing[h].always \subseteq l.found \cup l.ids
           /\ l.found \subseteq listing[h].ever \cup raced
           /\ l.phase = "stale" => /\ l.s \in Session /\ GoneOrRaced(l.s)
                                   /\ l.s \notin listing[h].always
  PROVE  RegistryInv'
<1> DEFINE r == <<"task", h>>
<1>1. r \in Runners /\ At(r) = task[h] /\ r[1] # "reply"
  BY Typed DEF At
<1>2. Becomes(r, l)
  BY DEF Becomes
<1>3. At(r)' = l /\ \A q \in Runners : q # r => At(q)' = At(q)
  BY <1>1, <1>2, BecomesAt, Typed
<1>4. task'[h] = l /\ \A g \in Request : g # h => task'[g] = task[g]
  BY Typed DEF TasksTyped
<1> HIDE DEF r
<1>5. \A s \in task[h].ids \cup index : NotEntered(s)
  BY <1>1 DEF RegistryInv, EnterInv
<1>6. AllSound /\ AllPlaced
  BY <1>1, <1>3, <1>5, OneSound, OnePlaced DEF Sound, Placed
<1>7. ListsInv'
  BY <1>6, ListsKeep
<1>8. EnterInv'
  <2>1. \A s \in index' : s \in index
    OBVIOUS
  <2>2. \A q \in Runners : Is(At(q), "enter") => record'[At(q).s] # None
    BY DEF RegistryInv, EnterInv
  <2> QED
    BY <1>6, <2>1, <2>2, EnterKeep
<1>9. StoreInv'
  <2> DEFINE none == {}
  <2>1. (\A x \in none : GoneOrRaced(x)) /\ index' = index \ none
    OBVIOUS
  <2> HIDE DEF none
  <2> QED
    BY <1>1, <1>3, <2>1, LeaveStore
<1>10. ListingInv'
  <2>1. Present' = Present /\ ListingType'
    BY DEF Present, RegistryInv, ListingInv, ListingType
  <2>2. \A g \in Request : listing'[g].always \subseteq Present' /\ Present' \subseteq listing'[g].ever
    BY <2>1 DEF RegistryInv, ListingInv
  <2>3. \A g \in Request : \A s \in task'[g].ids : s \in index' \/ GoneOrRaced(s)'
    BY <1>4 DEF RegistryInv, ListingInv, GoneOrRaced
  <2>4. ASSUME NEW g \in Request, Is(task'[g], "read")
        PROVE  /\ listing'[g].always \subseteq task'[g].found \cup task'[g].ids
               /\ task'[g].found \subseteq listing'[g].ever \cup raced'
               /\ task'[g].phase = "stale" =>
                    /\ task'[g].s \in Session /\ (record'[task'[g].s] = None \/ task'[g].s \in raced')
                    /\ task'[g].s \notin listing'[g].always
    <3>1. CASE g = h
      BY <1>4, <2>4, <3>1 DEF GoneOrRaced
    <3>2. CASE g # h
      <4>1. task'[g] = task[g] /\ Is(task[g], "read")
        BY <1>4, <2>4, <3>2
      <4> QED
        BY <4>1 DEF RegistryInv, ListingInv, GoneOrRaced
    <3> QED
      BY <3>1, <3>2
  <2> QED
    BY <2>1, <2>2, <2>3, <2>4 DEF ListingInv, GoneOrRaced
<1> QED
  BY <1>7, <1>8, <1>9, <1>10 DEF RegistryInv

LEMMA MembersRegistry ==
  ASSUME ServerInv, RegistryInv, NEW h \in Request, Members(h)
  PROVE  RegistryInv'
<1> DEFINE r == <<"task", h>>
           d == Done(task[h])
           l == [d EXCEPT !.ids = index]
<1>1. /\ r \in Runners /\ At(r) = task[h] /\ Is(task[h], "members") /\ ~Idle(task[h])
      /\ ~Is(task[h], "enter") /\ ~Is(task[h], "leave")
  BY Typed DEF At, Members, Is, Idle
<1>2. /\ d \in TaskType /\ Paired(d.todo) /\ d.s = task[h].s /\ d.phase = "run"
      /\ d.found = {} /\ Is(d, "read")
  <2> HIDE DEF r
  <2> QED
    BY <1>1, FirstDone DEF First
<1>3. /\ l \in TaskType /\ l.todo = d.todo /\ l.s = task[h].s /\ l.phase = "run"
      /\ l.ids = index /\ l.found = {}
  BY <1>2 DEF TaskType, ServerInv, ServerTypes
<1>4. task' = [task EXCEPT ![h] = l] /\ UNCHANGED <<reply, record, index, raced, torn, listing>>
  BY DEF Members, redis, history
<1> HIDE DEF l, d, r
<1>5. Is(l, "read") /\ ~Is(l, "enter") /\ ~Is(l, "leave") /\ ~WillSet(l)
  BY <1>2, <1>3 DEF Is, WillSet
<1>6. listing[h].always \subseteq index
  BY DEF RegistryInv, ListingInv, Present
<1> QED
  BY <1>1, <1>2, <1>3, <1>4, <1>5, <1>6, ReadsOn

LEMMA ReadRegistry ==
  ASSUME ServerInv, RegistryInv, NEW h \in Request, Read(h)
  PROVE  RegistryInv'
<1> DEFINE k == task[h]
<1>1. /\ Is(k, "read") /\ k.phase = "run" /\ ~Idle(k) /\ ~Is(k, "enter") /\ ~Is(k, "leave")
      /\ k \in TaskType /\ k.ids \subseteq Session
  BY DEF Read, Is, Idle, ServerInv, ServerTypes, TaskType
<1>2. Paired(k.todo)
  <2>1. <<"task", h>> \in Runners /\ At(<<"task", h>>) = k
    BY Typed DEF At
  <2> QED
    BY <2>1 DEF RegistryInv, ListsInv
<1>3. UNCHANGED <<reply, record, index, raced, torn, listing>>
  BY DEF Read, redis, history
<1>4. /\ listing[h].always \subseteq k.found \cup k.ids
      /\ k.found \subseteq listing[h].ever \cup raced
      /\ listing[h].always \subseteq Present /\ Present \subseteq listing[h].ever
      /\ \A s \in k.ids : s \in index \/ GoneOrRaced(s)
  BY <1>1 DEF RegistryInv, ListingInv
<1>5. CASE task' = [task EXCEPT ![h] = NoTask]
  <2>1. /\ NoTask \in TaskType /\ NoTask.ids = {} /\ NoTask.found = {} /\ Idle(NoTask)
        /\ Paired(NoTask.todo) /\ NoTask.todo = <<>>
    BY NoTaskType, ReplyLists DEF NoTask, Idle, Complete
  <2>2. ~Is(NoTask, "read") /\ ~Is(NoTask, "enter") /\ ~Is(NoTask, "leave") /\ ~WillSet(NoTask)
    BY <2>1 DEF Is, WillSet
  <2> HIDE DEF k
  <2> QED
    BY <1>1, <1>3, <1>5, <2>1, <2>2, ReadsOn DEF k
<1>6. ASSUME NEW s \in k.ids, record[s] = None,
             task' = [task EXCEPT ![h] = [k EXCEPT !.phase = "stale", !.s = s]]
      PROVE  RegistryInv'
  <2> DEFINE l == [k EXCEPT !.phase = "stale", !.s = s]
  <2>1. /\ l \in TaskType /\ l.todo = k.todo /\ l.s = s /\ l.phase = "stale"
        /\ l.ids = k.ids /\ l.found = k.found
    BY <1>1 DEF TaskType, Phase, Name
  <2>2. task' = [task EXCEPT ![h] = l]
    BY <1>6
  <2> HIDE DEF l
  <2>3. Is(l, "read") /\ ~Is(l, "enter") /\ ~Is(l, "leave") /\ ~WillSet(l)
    BY <1>1, <2>1 DEF Is, WillSet
  <2>4. s \in Session /\ GoneOrRaced(s) /\ s \notin listing[h].always
    BY <1>1, <1>4, <1>6 DEF GoneOrRaced, Present
  <2> QED
    BY <1>1, <1>2, <1>3, <1>4, <2>1, <2>2, <2>3, <2>4, ReadsOn
<1>7. ASSUME NEW s \in k.ids, record[s] # None,
             task' = [task EXCEPT ![h] = [k EXCEPT !.ids = @ \ {s}, !.found = @ \cup {s}]]
      PROVE  RegistryInv'
  <2> DEFINE l == [k EXCEPT !.ids = @ \ {s}, !.found = @ \cup {s}]
  <2>1. /\ l \in TaskType /\ l.todo = k.todo /\ l.s = k.s /\ l.phase = "run"
        /\ l.ids = k.ids \ {s} /\ l.found = k.found \cup {s}
    BY <1>1 DEF TaskType
  <2>2. task' = [task EXCEPT ![h] = l]
    BY <1>7
  <2> HIDE DEF l
  <2>3. Is(l, "read") /\ ~Is(l, "enter") /\ ~Is(l, "leave") /\ ~WillSet(l)
    BY <1>1, <2>1 DEF Is, WillSet
  <2>4. s \in listing[h].ever \cup raced
    BY <1>4, <1>7 DEF GoneOrRaced, Present
  <2>5. l.found \subseteq listing[h].ever \cup raced /\ listing[h].always \subseteq l.found \cup l.ids
    BY <1>4, <2>1, <2>4
  <2> QED
    BY <1>1, <1>2, <1>3, <2>1, <2>2, <2>3, <2>5, ReadsOn
<1> QED
  BY <1>5, <1>6, <1>7 DEF Read, Missing

LEMMA DropRegistry ==
  ASSUME ServerInv, ServerInv', RegistryInv, NEW h \in Request, Drop(h)
  PROVE  RegistryInv'
<1> DEFINE r == <<"task", h>>
           k == task[h]
           x == task[h].s
           l == [k EXCEPT !.ids = @ \ {k.s}, !.s = Nobody, !.phase = "run"]
<1>1. /\ Is(k, "read") /\ k.phase = "stale" /\ ~Idle(k) /\ ~Is(k, "enter") /\ ~Is(k, "leave")
      /\ k \in TaskType /\ x \in Session /\ GoneOrRaced(x) /\ x \notin listing[h].always
  BY DEF Drop, Is, Idle, ServerInv, ServerTypes, RegistryInv, ListingInv
<1>2. /\ l \in TaskType /\ l.todo = k.todo /\ l.s = Nobody /\ l.phase = "run"
      /\ l.ids = k.ids \ {x} /\ l.found = k.found
  BY <1>1 DEF TaskType, Phase, Name
<1>3. r \in Runners /\ At(r) = k /\ r[1] # "reply" /\ Becomes(r, l)
  BY Typed DEF At, Drop, Becomes
<1>4. UNCHANGED <<record, raced, torn>> /\ index' = index \ {x} /\ Watched
  BY DEF Drop
<1>5. task'[h] = l /\ \A g \in Request : g # h => task'[g] = task[g]
  BY Typed DEF TasksTyped, Drop
<1> HIDE DEF l, r
<1>6. At(r)' = l /\ \A q \in Runners : q # r => At(q)' = At(q)
  BY <1>2, <1>3, BecomesAt, Typed
<1>7. Is(l, "read") /\ ~Is(l, "enter") /\ ~Is(l, "leave") /\ ~WillSet(l)
  BY <1>1, <1>2 DEF Is, WillSet
<1>8. \A s \in k.ids : NotEntered(s)
  BY <1>3 DEF RegistryInv, EnterInv
<1>9. Paired(k.todo)
  BY <1>3 DEF RegistryInv, ListsInv
<1>10. AllSound /\ AllPlaced
  BY <1>2, <1>3, <1>6, <1>7, <1>8, <1>9, OneSound, OnePlaced DEF Sound, Placed
<1>11. ListsInv'
  BY <1>10, ListsKeep
<1>12. EnterInv'
  <2>1. \A s \in index' : s \in index
    BY <1>4
  <2>2. \A q \in Runners : Is(At(q), "enter") => record'[At(q).s] # None
    BY <1>4 DEF RegistryInv, EnterInv
  <2> QED
    BY <1>10, <2>1, <2>2, EnterKeep
<1>13. StoreInv'
  <2> DEFINE left == {x}
  <2>1. (\A y \in left : GoneOrRaced(y)) /\ index' = index \ left
    BY <1>1, <1>4
  <2>2. /\ ~Is(At(r), "enter") /\ ~Is(At(r), "leave")
        /\ ~Is(At(r)', "leave") /\ ~WillSet(At(r)')
    BY <1>1, <1>3, <1>6, <1>7
  <2> HIDE DEF left
  <2> QED
    BY <1>3, <1>4, <1>6, <2>1, <2>2, LeaveStore
<1>14. ListingInv'
  <2>1. ListingType' /\ \A g \in Request : /\ listing'[g].always = listing[g].always \cap Present'
                                          /\ listing'[g].ever = listing[g].ever \cup Present'
    BY <1>4, WatchedListings
  <2>2. \A g \in Request : \A s \in task'[g].ids : s \in task[g].ids
    BY <1>2, <1>5
  <2>3. \A g \in Request : \A s \in task'[g].ids : s \in index' \/ GoneOrRaced(s)'
    BY <1>1, <1>4, <2>2 DEF RegistryInv, ListingInv, GoneOrRaced
  <2>4. ASSUME NEW g \in Request, Is(task'[g], "read")
        PROVE  /\ listing'[g].always \subseteq task'[g].found \cup task'[g].ids
               /\ task'[g].found \subseteq listing'[g].ever \cup raced'
               /\ task'[g].phase = "stale" =>
                    /\ task'[g].s \in Session /\ (record'[task'[g].s] = None \/ task'[g].s \in raced')
                    /\ task'[g].s \notin listing'[g].always
    <3>1. Is(task[g], "read")
      BY <1>1, <1>5, <2>4
    <3>2. /\ listing[g].always \subseteq task[g].found \cup task[g].ids
          /\ task[g].found \subseteq listing[g].ever \cup raced
          /\ task[g].phase = "stale" =>
               /\ task[g].s \in Session /\ GoneOrRaced(task[g].s)
               /\ task[g].s \notin listing[g].always
      BY <3>1 DEF RegistryInv, ListingInv
    <3>3. CASE g = h
      BY <1>1, <1>2, <1>4, <1>5, <2>1, <3>2, <3>3
    <3>4. CASE g # h
      BY <1>4, <1>5, <2>1, <3>2, <3>4 DEF GoneOrRaced
    <3> QED
      BY <3>3, <3>4
  <2> QED
    BY <2>1, <2>3, <2>4 DEF ListingInv, GoneOrRaced
<1> QED
  BY <1>11, <1>12, <1>13, <1>14 DEF RegistryInv

-----------------------------------------------------------------------------
LEMMA RegistryKeeps == ServerInv /\ RegistryInv /\ [Next]_vars => RegistryInv'
<1> SUFFICES ASSUME ServerInv, RegistryInv, [Next]_vars PROVE RegistryInv'
  OBVIOUS
<1>1. ServerInv'
  BY NextKeeps
<1>2. ASSUME NEW c \in Socket,
             \/ Accept(c) \/ ProtocolError(c) \/ Disconnect(c) \/ Notice(c)
             \/ Receive(c) \/ Send(c) \/ Spawn(c) \/ Stop(c)
             \/ Emit(<<"task", c>>, c) \/ Emit(<<"reply", c>>, c)
      PROVE  RegistryInv'
  <2>1. <<"task", c>> \in Runners /\ <<"reply", c>> \in Runners
    BY Typed
  <2>2. (Emit(<<"task", c>>, c) \/ Emit(<<"reply", c>>, c)) => RegistryInv'
    BY <2>1, EmitRegistry
  <2> QED
    BY <1>2, <2>2, SocketRegistry, ReceiveRegistry, SendRegistry, SpawnRegistry, StopRegistry
<1>3. ASSUME NEW h \in Request, Ask(h) \/ Members(h) \/ Read(h) \/ Drop(h)
      PROVE  RegistryInv'
  BY <1>1, <1>3, AskRegistry, MembersRegistry, ReadRegistry, DropRegistry
<1>4. ASSUME NEW r \in Runners,
             \/ Lookup(r) \/ Local(r) \/ UpdateGet(r) \/ UpdateSet(r) \/ Updated(r)
             \/ Command(r) \/ RedisFails(r)
      PROVE  RegistryInv'
  BY <1>1, <1>4, LookupRegistry, LocalRegistry, UpdateGetRegistry, UpdateSetRegistry,
     UpdatedRegistry, CommandRegistry, FailureRegistry
<1>5. CASE UNCHANGED vars
  BY <1>5, StillRegistry DEF vars, redis, history
<1> QED
  BY <1>2, <1>3, <1>4, <1>5, CrashRegistry DEF Next

LEMMA InitRegistry == Init => RegistryInv
<1> SUFFICES ASSUME Init PROVE RegistryInv
  OBVIOUS
<1>1. \A r \in Runners : At(r) = NoTask
  BY DEF Init, Runners, At
<1>2. /\ NoTask.todo = <<>> /\ NoTask.ids = {} /\ NoTask.found = {}
      /\ Paired(NoTask.todo) /\ NoTask.todo \in Seq(Answering)
  BY ReplyLists DEF NoTask, Complete
<1>3. \A d : ~Is(NoTask, d)
  BY <1>2 DEF Is
<1>4. ~WillSet(NoTask)
  BY <1>3 DEF WillSet
<1>5. \A c \in Socket : reply[c] = NoTask
  BY DEF Init
<1>6. \A h \in Request : task[h] = NoTask
  BY DEF Init
<1>7. /\ index = {} /\ \A s \in Session : record[s] = None
      /\ Present = {} /\ listing = [h \in Request |-> [always |-> {}, ever |-> {}]]
  BY DEF Init, Present
<1> HIDE DEF NoTask
<1>8. ListsInv
  BY <1>1, <1>2, <1>5 DEF ListsInv
<1>9. EnterInv
  BY <1>1, <1>2, <1>3, <1>7 DEF EnterInv
<1>10. StoreInv
  BY <1>1, <1>3, <1>4, <1>7 DEF StoreInv, NoHiddenSessions
<1>11. ListingInv
  <2>1. ListingType /\ \A h \in Request : listing[h].always = {} /\ listing[h].ever = {}
    BY <1>7 DEF ListingType
  <2> QED
    BY <1>2, <1>3, <1>6, <1>7, <2>1 DEF ListingInv
<1> QED
  BY <1>8, <1>9, <1>10, <1>11 DEF RegistryInv

LEMMA RegistryShows == ServerInv /\ RegistryInv => RegistryIsTrue
<1> SUFFICES ASSUME ServerInv, RegistryInv PROVE RegistryIsTrue
  OBVIOUS
<1>1. NoDanglingNames
  <2> SUFFICES ASSUME NEW s \in index, record[s] = None, s \notin torn
               PROVE  \E r \in Uses(s) : Contains(At(r).todo, Do("leave"))
    BY DEF NoDanglingNames
  <2>1. PICK r \in Runners : At(r).s = s /\ Is(At(r), "leave")
    BY DEF RegistryInv, StoreInv
  <2>2. r \in Uses(s)
    BY <2>1 DEF Uses, Is, Idle
  <2> DEFINE q == At(r).todo
  <2>3. q \in Todo /\ q \in Seq(Steps) /\ q # <<>> /\ Head(q).do = "leave"
    BY <2>1, Typed DEF TaskType, Todo, Is
  <2> HIDE DEF q
  <2>4. Head(q) \in Steps /\ 1 \in 1..Len(q) /\ Head(q) = q[1]
    BY <2>3, RestOfTodo, LenProperties, EmptySeq
  <2>5. Head(q) = Do("leave")
    BY <2>3, <2>4 DEF Steps, Do, Step
  <2>6. Contains(q, Do("leave"))
    BY <2>4, <2>5 DEF Contains
  <2> QED
    BY <2>2, <2>6 DEF q
<1>2. NoHiddenSessions
  BY DEF RegistryInv, StoreInv
<1>3. ListingsAreTrue
  BY DEF ListingsAreTrue, RegistryInv, ListingInv
<1>4. QuietDeletesStick
  BY DEF QuietDeletesStick, ServerInv, QuietInv
<1> QED
  BY <1>1, <1>2, <1>3, <1>4 DEF RegistryIsTrue

\* Whatever runs at the same time, the index, the keys and the listings tell the
\* same sessions: a name without its key is about to be removed, a key without
\* its name about to be entered, unless an operation was cut short or an update
\* wrote back what was being deleted (session/redis.py:113-167).
THEOREM RegistryHolds == Spec => []RegistryIsTrue
<1> DEFINE Both == ServerInv /\ RegistryInv
<1>1. Init => Both
  BY InitServer, InitRegistry
<1>2. Both /\ [Next]_vars => Both'
  BY NextKeeps, RegistryKeeps
<1>3. Both => RegistryIsTrue
  BY RegistryShows
<1> QED
  BY <1>1, <1>2, <1>3, PTL DEF Spec

-----------------------------------------------------------------------------
(* What is let go: the locks of the sockets, and the session of a reply    *)
(* that was cancelled before its key is deleted.                           *)

\* Who waits to send on a socket: its handler and its reply, each once, and
\* each still there to send.
PlacesOf(c) == {<<"task", c>>, <<"reply", c>>}
LinesFit ==
  /\ line \in [Socket -> Seq(Runners)]
  /\ \A c \in Socket :
       /\ \A i \in DOMAIN line[c] : line[c][i] \in PlacesOf(c)
       /\ \A i, j \in DOMAIN line[c] : line[c][i] = line[c][j] => i = j
       /\ \A i \in DOMAIN line[c] : At(line[c][i]).phase = "sending"

Has(q, kinds) == \E i \in 1..Len(q) : q[i].do \in kinds

StopsFirst(q) == \A i \in 1..Len(q) : q[i].do = "stop" => i = 1

\* A message is the last a handler has to do, and with the commands of a close
\* it has no reply to begin, nor one to stop but at once.
Orderly(q) ==
  /\ \A i \in 1..Len(q) : q[i].do = "message" => i = Len(q)
  /\ Has(q, {"delete", "leave"}) => ~Has(q, {"spawn", "message"}) /\ StopsFirst(q)

\* A close with nothing left to stop.
Closes(q) == Has(q, {"delete", "leave"}) /\ ~Has(q, {"stop"})

\* A session is used, and replied in, over the sockets its messages came by.
Ways ==
  /\ via \in [Session -> SUBSET Socket] /\ current \in [Session -> Socket \cup {Nobody}]
  /\ \A c \in Socket : ~Idle(task[c]) => task[c].s \in Session /\ c \in via[task[c].s]
  /\ \A s \in Session : current[s] \in via[s] \cup {Nobody}
  /\ \A s \in Session : s \notin issued => via[s] = {}

Silent ==
  \A s \in Session, c \in Socket :
    (via[s] = {c} /\ task[c].s = s /\ Closes(task[c].todo)) => ~Active(s)

Links == link \in [Socket -> {"new", "open", "broken", "closed"}] /\ torn \subseteq Session

LetGoInv ==
  LinesFit /\ (\A c \in Socket : Orderly(task[c].todo)) /\ Ways /\ Silent

\* A runner of a socket goes on with its list, with the rest of it, or with
\* what an error leaves; a list it comes to holds no step it did not hold.
Heir(k, l) ==
  \/ Idle(l)
  \/ /\ ~Idle(k) /\ l.s = k.s
     /\ \/ l.todo = k.todo \/ l.todo = <<Flush("error")>> \/ l.todo = <<Do("finally")>>
        \/ l.todo = Tail(k.todo) /\ Head(k.todo).do # "stop"
Heirs ==
  \A c \in Socket :
    /\ task'[c] = task[c] \/ Heir(task[c], task'[c])
    /\ reply'[c] = reply[c] \/ Heir(reply[c], reply'[c])

LEMMA SocketTasks ==
  ASSUME TasksTyped
  PROVE  /\ \A c \in Socket : task[c] \in TaskType /\ reply[c] \in TaskType
         /\ \A c \in Socket : At(<<"task", c>>) = task[c] /\ At(<<"reply", c>>) = reply[c]
         /\ \A c \in Socket : PlacesOf(c) \subseteq Runners
BY DEF TasksTyped, At, PlacesOf, Runners

LEMMA NextTyped ==
  ASSUME TasksTyped'
  PROVE  /\ \A c \in Socket : task'[c] \in TaskType /\ reply'[c] \in TaskType
         /\ \A c \in Socket : At(<<"task", c>>)' = task'[c] /\ At(<<"reply", c>>)' = reply'[c]
BY DEF TasksTyped, At

LEMMA TaskLists ==
  ASSUME NEW k \in TaskType
  PROVE  /\ k.todo \in Seq(Steps) /\ Len(k.todo) \in Nat
         /\ \A i \in 1..Len(k.todo) : k.todo[i] \in Steps
         /\ k.todo # <<>> => /\ Head(k.todo) = k.todo[1] /\ Len(k.todo) >= 1
                             /\ Tail(k.todo) \in Seq(Steps) /\ Len(Tail(k.todo)) = Len(k.todo) - 1
                             /\ \A i \in 1..(Len(k.todo) - 1) : Tail(k.todo)[i] = k.todo[i + 1]
<1>1. k.todo \in Seq(Steps)
  BY DEF TaskType, Todo
<1>2. k.todo # <<>> => /\ Head(k.todo) = k.todo[1] /\ Tail(k.todo) \in Seq(Steps)
                       /\ Len(Tail(k.todo)) = Len(k.todo) - 1
                       /\ \A i \in 1..Len(Tail(k.todo)) : Tail(k.todo)[i] = k.todo[i + 1]
  BY <1>1, HeadTailProperties
<1>3. Len(k.todo) \in Nat /\ (k.todo # <<>> => Len(k.todo) >= 1)
      /\ \A i \in 1..Len(k.todo) : k.todo[i] \in Steps
  BY <1>1, LenProperties, EmptySeq
<1> QED
  BY <1>1, <1>2, <1>3

\* Lists without a command of a close, or without a reply to begin.
Speaking == {x \in Steps : x.do \notin {"delete", "leave", "message"}}
Ending   == {x \in Steps : x.do \notin {"spawn", "message"}}
LEMMA OrderlyLists ==
  ASSUME NEW q
  PROVE  /\ q \in Seq(Speaking) => Orderly(q) /\ ~Has(q, {"delete", "leave"})
         /\ q \in Seq(Ending) /\ StopsFirst(q) => Orderly(q)
<1>1. ASSUME q \in Seq(Speaking) PROVE Orderly(q) /\ ~Has(q, {"delete", "leave"})
  <2>1. \A i \in 1..Len(q) : q[i] \in Speaking
    BY <1>1, ElementOfSeq
  <2>2. QED BY <2>1 DEF Orderly, Has, Speaking
<1>2. ASSUME q \in Seq(Ending), StopsFirst(q) PROVE Orderly(q)
  <2>1. \A i \in 1..Len(q) : q[i] \in Ending
    BY <1>2, ElementOfSeq
  <2>2. QED BY <1>2, <2>1 DEF Orderly, Has, Ending
<1> QED
  BY <1>1, <1>2

LEMMA ErrorLists ==
  /\ <<Flush("error")>> \in Seq(Speaking) /\ <<Do("finally")>> \in Seq(Speaking)
  /\ Orderly(<<>>) /\ ~Closes(<<>>)
<1>1. Flush("error") \in Further /\ Do("finally") \in Further
  BY StepKinds DEF Events, Kinds
<1>2. Flush("error").do = "flush" /\ Do("finally").do = "finally"
  BY DEF Flush, Do, Step
<1>3. Flush("error") \in Speaking /\ Do("finally") \in Speaking
  BY <1>1, <1>2 DEF Speaking, Further
<1>4. Orderly(<<>>) /\ ~Closes(<<>>)
  BY DEF Orderly, Closes, Has
<1> QED
  BY <1>3, <1>4, ShortLists

\* What the rest of a list has, the list had.
LEMMA RestHas ==
  ASSUME NEW k \in TaskType, ~Idle(k)
  PROVE  /\ Orderly(k.todo) => Orderly(Tail(k.todo))
         /\ Closes(Tail(k.todo)) => Closes(k.todo) \/ Head(k.todo).do = "stop"
<1> DEFINE q == k.todo
           t == Tail(k.todo)
           n == Len(k.todo)
<1>1. /\ n \in Nat /\ n >= 1 /\ Len(t) = n - 1 /\ Head(q) = q[1]
      /\ \A i \in 1..(n - 1) : t[i] = q[i + 1]
  BY TaskLists DEF Idle
<1>2. Len(q) = n
  OBVIOUS
<1> HIDE DEF q, t, n
<1>3. \A i \in 1..(n - 1) : i + 1 \in 1..n
  BY <1>1
<1>4. ASSUME NEW D, Has(t, D) PROVE Has(q, D)
  BY <1>1, <1>2, <1>3, <1>4 DEF Has
<1>5. ASSUME Orderly(q) PROVE Orderly(t)
  <2>1. \A i \in 1..Len(t) : t[i].do = "message" => i = Len(t)
    <3> SUFFICES ASSUME NEW i \in 1..(n - 1), t[i].do = "message" PROVE i = n - 1
      BY <1>1
    <3>1. q[i + 1].do = "message" /\ i + 1 \in 1..Len(q)
      BY <1>1, <1>2, <1>3
    <3>2. i + 1 = n
      BY <1>2, <1>5, <3>1 DEF Orderly
    <3> QED
      BY <1>1, <3>2
  <2>2. Has(t, {"delete", "leave"}) => ~Has(t, {"spawn", "message"})
    BY <1>4, <1>5 DEF Orderly
  <2>3. ASSUME Has(t, {"delete", "leave"}) PROVE StopsFirst(t)
    <3>1. StopsFirst(q)
      BY <1>4, <1>5, <2>3 DEF Orderly
    <3>2. \A i \in 1..(n - 1) : t[i] = q[i + 1] /\ i + 1 \in 1..Len(q) /\ i + 1 # 1
      BY <1>1, <1>2, <1>3
    <3> QED
      BY <1>1, <3>1, <3>2 DEF StopsFirst
  <2> QED
    BY <2>1, <2>2, <2>3 DEF Orderly
<1>6. ASSUME Has(q, {"stop"}), q[1].do # "stop" PROVE Has(t, {"stop"})
  <2>1. PICK i \in 1..n : q[i].do = "stop"
    BY <1>2, <1>6 DEF Has
  <2>2. i # 1 /\ i - 1 \in 1..(n - 1) /\ (i - 1) + 1 = i
    BY <1>1, <1>6, <2>1
  <2>3. t[i - 1].do = "stop" /\ i - 1 \in 1..Len(t)
    BY <1>1, <2>1, <2>2
  <2> QED
    BY <2>3 DEF Has
<1>7. Closes(t) => Closes(q) \/ q[1].do = "stop"
  BY <1>4, <1>6 DEF Closes
<1> QED
  BY <1>1, <1>5, <1>7 DEF q, t

LEMMA HeirGoesOn ==
  ASSUME NEW k \in TaskType, NEW l \in TaskType, Heir(k, l), Orderly(k.todo)
  PROVE  /\ Orderly(l.todo)
         /\ ~Idle(l) => ~Idle(k) /\ l.s = k.s
         /\ Closes(l.todo) => Closes(k.todo) /\ l.s = k.s
<1>1. CASE Idle(l)
  BY <1>1, ErrorLists DEF Idle
<1>2. CASE ~Idle(l)
  <2>1. /\ ~Idle(k) /\ l.s = k.s
        /\ \/ l.todo = k.todo \/ l.todo \in Seq(Speaking)
           \/ l.todo = Tail(k.todo) /\ Head(k.todo).do # "stop"
    BY <1>2, ErrorLists DEF Heir
  <2>2. CASE l.todo = k.todo
    BY <2>1, <2>2
  <2>3. CASE l.todo \in Seq(Speaking)
    BY <2>1, <2>3, OrderlyLists DEF Closes
  <2>4. CASE l.todo = Tail(k.todo) /\ Head(k.todo).do # "stop"
    BY <2>1, <2>4, RestHas
  <2> QED
    BY <2>1, <2>2, <2>3, <2>4
<1> QED
  BY <1>1, <1>2

\* Nothing of the sockets' handlers and replies begins.
LEMMA HeirsKeep ==
  ASSUME ServerInv, LetGoInv, TasksTyped', Heirs, via' = via, issued \subseteq issued',
         current' \in [Session -> Socket \cup {Nobody}],
         \A s \in Session : current'[s] \in {current[s], Nobody}
  PROVE  (\A c \in Socket : Orderly(task'[c].todo)) /\ Ways' /\ Silent'
<1>1. \A c \in Socket : /\ task[c] \in TaskType /\ task'[c] \in TaskType
                        /\ reply[c] \in TaskType /\ reply'[c] \in TaskType
                        /\ Orderly(task[c].todo)
  BY Typed, SocketTasks, NextTyped DEF LetGoInv
<1>2. ASSUME NEW c \in Socket
      PROVE  /\ Orderly(task'[c].todo)
             /\ ~Idle(task'[c]) => ~Idle(task[c]) /\ task'[c].s = task[c].s
             /\ Closes(task'[c].todo) => Closes(task[c].todo) /\ task'[c].s = task[c].s
             /\ ~Idle(reply'[c]) => ~Idle(reply[c])
  <2>1. task'[c] = task[c] \/ Heir(task[c], task'[c])
    BY DEF Heirs
  <2>2. reply'[c] = reply[c] \/ Heir(reply[c], reply'[c])
    BY DEF Heirs
  <2>3. ~Idle(reply'[c]) => ~Idle(reply[c])
    BY <2>2 DEF Heir
  <2>4. CASE task'[c] = task[c]
    BY <1>1, <2>3, <2>4
  <2>5. CASE Heir(task[c], task'[c])
    BY <1>1, <2>3, <2>5, HeirGoesOn
  <2> QED
    BY <2>1, <2>4, <2>5
<1>3. Ways'
  BY <1>2 DEF Ways, LetGoInv
<1>4. ASSUME NEW s \in Session, Active(s)' PROVE Active(s)
  <2>1. current'[s] # Nobody /\ current'[s] = current[s] /\ ~Idle(reply'[current'[s]])
    BY <1>4 DEF Active
  <2>2. current[s] \in Socket
    BY <2>1 DEF LetGoInv, Ways
  <2> QED
    BY <1>2, <2>1, <2>2 DEF Active
<1>5. ASSUME NEW s \in Session, NEW c \in Socket,
             via'[s] = {c}, task'[c].s = s, Closes(task'[c].todo)
      PROVE  ~Active(s)'
  BY <1>2, <1>4, <1>5 DEF LetGoInv, Silent
<1>6. Silent'
  BY <1>5 DEF Silent
<1> QED
  BY <1>2, <1>3, <1>6

\* The lines stay when nobody who stands in one moves.
LEMMA LinesStay ==
  ASSUME LinesFit, TasksTyped, line' = line,
         \A r \in Runners : At(r)' = At(r) \/ At(r).phase # "sending"
  PROVE  LinesFit'
<1>1. \A c \in Socket : \A i \in DOMAIN line[c] : line[c][i] \in Runners
  BY SocketTasks DEF LinesFit
<1>2. ASSUME NEW c \in Socket, NEW i \in DOMAIN line[c]
      PROVE  At(line[c][i])'.phase = "sending"
  <2>1. PICK r \in Runners : r = line[c][i]
    BY <1>1
  <2>2. At(r).phase = "sending"
    BY <2>1 DEF LinesFit
  <2>3. At(r)' = At(r)
    BY <2>2
  <2>4. At(line[c][i])' = At(r)'
    BY <2>1 DEF At
  <2> QED
    BY <2>2, <2>3, <2>4
<1> QED
  BY <1>2 DEF LinesFit, At

\* One runner moves.
LEMMA OneHeir ==
  ASSUME TasksTyped, NEW r \in Runners, NEW l, Heir(At(r), l), Becomes(r, l)
  PROVE  Heirs /\ \A q \in Runners : q # r => At(q)' = At(q)
<1>1. CASE r[1] = "task"
  <2>1. PICK t \in Socket \cup Request : r = <<"task", t>>
    BY <1>1 DEF Runners
  <2>2. task' = [task EXCEPT ![t] = l] /\ reply' = reply /\ At(r) = task[t]
    BY <2>1 DEF Becomes, At
  <2>3. \A c \in Socket : task'[c] = task[c] \/ Heir(task[c], task'[c])
    BY <2>2 DEF TasksTyped
  <2>4. \A q \in Runners : q # r => At(q)' = At(q)
    BY <2>1, <2>2 DEF Runners, At, TasksTyped
  <2> QED
    BY <2>2, <2>3, <2>4 DEF Heirs
<1>2. CASE r[1] # "task"
  <2>1. PICK c \in Socket : r = <<"reply", c>>
    BY <1>2 DEF Runners
  <2>2. reply' = [reply EXCEPT ![c] = l] /\ task' = task /\ At(r) = reply[c]
    BY <2>1 DEF Becomes, At
  <2>3. \A d \in Socket : reply'[d] = reply[d] \/ Heir(reply[d], reply'[d])
    BY <2>2 DEF TasksTyped
  <2>4. \A q \in Runners : q # r => At(q)' = At(q)
    BY <2>1, <2>2 DEF Runners, At, TasksTyped
  <2> QED
    BY <2>2, <2>3, <2>4 DEF Heirs
<1> QED
  BY <1>1, <1>2

\* The same, when it does not stand in a line, nor does anything else change.
LEMMA OneLetsGo ==
  ASSUME ServerInv, ServerInv', LetGoInv, NEW r \in Runners, NEW l, Heir(At(r), l),
         Becomes(r, l), At(r).phase # "sending",
         UNCHANGED line, via' = via, issued' = issued,
         current' \in [Session -> Socket \cup {Nobody}],
         \A s \in Session : current'[s] \in {current[s], Nobody}
  PROVE  LetGoInv'
<1>1. TasksTyped /\ TasksTyped'
  BY DEF ServerInv, ServerTypes, TasksTyped
<1>2. Heirs /\ \A q \in Runners : q # r => At(q)' = At(q)
  BY <1>1, OneHeir
<1>3. LinesFit'
  BY <1>1, <1>2, LinesStay DEF LetGoInv
<1>4. (\A c \in Socket : Orderly(task'[c].todo)) /\ Ways' /\ Silent'
  BY <1>1, <1>2, HeirsKeep
<1> QED
  BY <1>3, <1>4 DEF LetGoInv

\* What a runner goes on with is an heir.
LEMMA DoneHeir ==
  ASSUME NEW k, NEW l \in TaskType, ~Idle(k), l.s = k.s, l.todo = k.todo,
         Head(k.todo).do # "stop"
  PROVE  Heir(k, Done(l)) /\ \A o : Heir(k, [Done(l) EXCEPT !.out = o])
<1>1. NoTask \in TaskType /\ Idle(NoTask)
  BY NoTaskType
<1>2. CASE Len(l.todo) = 1
  <2>1. Done(l) = NoTask
    BY <1>2 DEF Done
  <2>2. \A o : [NoTask EXCEPT !.out = o].todo = NoTask.todo
    BY <1>1 DEF TaskType
  <2> QED
    BY <1>1, <2>1, <2>2 DEF Heir, Idle
<1>3. CASE Len(l.todo) # 1
  <2>1. Done(l) = [l EXCEPT !.todo = Tail(l.todo), !.phase = "run", !.got = None]
    BY <1>3 DEF Done
  <2>2. Done(l).s = k.s /\ Done(l).todo = Tail(k.todo)
    BY <2>1 DEF TaskType
  <2>3. \A o : /\ [Done(l) EXCEPT !.out = o].s = k.s
               /\ [Done(l) EXCEPT !.out = o].todo = Tail(k.todo)
    BY <2>1 DEF TaskType
  <2> QED
    BY <2>2, <2>3 DEF Heir
<1> QED
  BY <1>2, <1>3

LEMMA RaisesHeir ==
  ASSUME NEW k \in TaskType, ~Idle(k)
  PROVE  /\ Heir(k, NoTask) /\ Heir(k, Task(k.s, <<Do("finally")>>))
         /\ Heir(k, [k EXCEPT !.todo = <<Flush("error")>>, !.phase = "run", !.out = <<>>])
<1>1. Heir(k, NoTask)
  BY NoTaskType DEF Heir
<1>2. Heir(k, Task(k.s, <<Do("finally")>>))
  BY DEF Heir, Task, NoTask
<1>3. Heir(k, [k EXCEPT !.todo = <<Flush("error")>>, !.phase = "run", !.out = <<>>])
  BY DEF Heir, TaskType
<1> QED
  BY <1>1, <1>2, <1>3

-----------------------------------------------------------------------------
(* The actions.                                                            *)

\* Whoever has to do something else than to emit does not send.
LEMMA NotSending ==
  ASSUME ServerInv, NEW r \in Runners, NEW kind, Is(At(r), kind), kind # "flush"
  PROVE  /\ At(r) \in TaskType /\ ~Idle(At(r)) /\ At(r).phase # "sending"
         /\ kind # "stop" => Head(At(r).todo).do # "stop"
BY Typed DEF Is, Idle, Holds

LEMMA StillCurrent ==
  ASSUME LetGoInv, current' = current
  PROVE  /\ current' \in [Session -> Socket \cup {Nobody}]
         /\ \A s \in Session : current'[s] \in {current[s], Nobody}
BY DEF LetGoInv, Ways

LEMMA RaisesLetsGo ==
  ASSUME ServerInv, ServerInv', LetGoInv, NEW r \in Runners, ~Idle(At(r)),
         At(r).phase # "sending", Raises(r), UNCHANGED <<line, via, issued, current>>
  PROVE  LetGoInv'
<1> DEFINE k == At(r)
           l == [k EXCEPT !.todo = <<Flush("error")>>, !.phase = "run", !.out = <<>>]
           f == Task(k.s, <<Do("finally")>>)
<1>1. Heir(k, NoTask) /\ Heir(k, l) /\ Heir(k, f)
  BY Typed, RaisesHeir
<1>2. Becomes(r, l) \/ Becomes(r, f) \/ Becomes(r, NoTask)
  BY DEF Raises
<1> HIDE DEF l, f
<1> QED
  BY <1>1, <1>2, StillCurrent, OneLetsGo

\* Updates of a session's status.
LEMMA UpdateLetsGo ==
  ASSUME ServerInv, ServerInv', LetGoInv, NEW r \in Runners,
         UpdateGet(r) \/ UpdateSet(r) \/ Updated(r)
  PROVE  LetGoInv'
<1> DEFINE k == At(r)
<1>1. Is(k, "to") /\ UNCHANGED <<line, via, issued, current>>
  BY DEF UpdateGet, UpdateSet, Updated, wires, history, host
<1>2. k \in TaskType /\ ~Idle(k) /\ k.phase # "sending" /\ Head(k.todo).do # "stop"
  BY <1>1, NotSending
<1>3. ASSUME NEW l, Heir(k, l), Becomes(r, l) PROVE LetGoInv'
  BY <1>1, <1>2, <1>3, StillCurrent, OneLetsGo
<1>4. CASE UpdateGet(r)
  <2>1. Heir(k, Done(k))
    BY <1>2, DoneHeir
  <2>2. ASSUME NEW g PROVE Heir(k, [k EXCEPT !.phase = "got", !.got = g])
    BY <1>2 DEF Heir, TaskType
  <2>3. CASE Raises(r)
    BY <1>1, <1>2, <2>3, RaisesLetsGo
  <2>4. CASE Becomes(r, Done(k))
    BY <1>3, <2>1, <2>4
  <2>5. CASE \E g : Becomes(r, [k EXCEPT !.phase = "got", !.got = g])
    BY <1>3, <2>2, <2>5
  <2> QED
    BY <1>4, <2>3, <2>4, <2>5 DEF UpdateGet
<1>5. CASE UpdateSet(r)
  <2>1. Heir(k, [k EXCEPT !.phase = "set"])
    BY <1>2 DEF Heir, TaskType
  <2> QED
    BY <1>3, <1>5, <2>1 DEF UpdateSet
<1>6. CASE Updated(r)
  <2> DEFINE l == [Done(k) EXCEPT !.out = Append(@, k.got.status)]
  <2>1. Heir(k, l)
    BY <1>2, DoneHeir
  <2>2. Becomes(r, l)
    BY <1>6 DEF Updated
  <2> HIDE DEF l
  <2> QED
    BY <1>3, <2>1, <2>2
<1> QED
  BY <1>4, <1>5, <1>6

\* The commands of a creation and of a close.
LEMMA CommandLetsGo ==
  ASSUME ServerInv, ServerInv', LetGoInv, NEW r \in Runners, Command(r)
  PROVE  LetGoInv'
<1> DEFINE k == At(r)
<1>1. UNCHANGED <<line, via, issued, current>>
  BY DEF Command, wires, host
<1>2. PICK kind \in {"write", "enter", "fetch", "delete", "leave"} : Is(k, kind)
  BY DEF Command
<1>3. k \in TaskType /\ ~Idle(k) /\ k.phase # "sending" /\ Head(k.todo).do # "stop"
  BY <1>2, NotSending
<1>4. CASE Raises(r)
  BY <1>1, <1>3, <1>4, RaisesLetsGo
<1>5. CASE Becomes(r, Done(k))
  <2>1. Heir(k, Done(k))
    BY <1>3, DoneHeir
  <2> QED
    BY <1>1, <1>3, <1>5, <2>1, StillCurrent, OneLetsGo
<1> QED
  BY <1>4, <1>5 DEF Command

\* The steps without an await: the last of a reply forgets that it runs.
LEMMA LocalLetsGo ==
  ASSUME ServerInv, ServerInv', LetGoInv, NEW r \in Runners, Local(r)
  PROVE  LetGoInv'
<1> DEFINE k == At(r)
<1>1. UNCHANGED <<line, via, issued>>
  BY DEF Local, wires, history
<1>2. PICK kind \in {"begin", "complete", "finally"} : Is(k, kind)
  BY DEF Local
<1>3. k \in TaskType /\ ~Idle(k) /\ k.phase # "sending" /\ Head(k.todo).do # "stop"
  BY <1>2, NotSending
<1>4. Heir(k, Done(k)) /\ Heir(k, NoTask)
  BY <1>3, DoneHeir, RaisesHeir
<1>5. Becomes(r, Done(k)) \/ Becomes(r, NoTask)
  BY DEF Local
<1>6. /\ current' \in [Session -> Socket \cup {Nobody}]
      /\ \A s \in Session : current'[s] \in {current[s], Nobody}
  <2>1. CASE current' = current
    BY <2>1, StillCurrent
  <2>2. CASE current' = [current EXCEPT ![k.s] = Nobody]
    BY <2>2 DEF LetGoInv, Ways
  <2> QED
    BY <2>1, <2>2 DEF Local
<1> QED
  BY <1>1, <1>3, <1>4, <1>5, <1>6, OneLetsGo

\* A sequence without its p-th element.
LEMMA RemoveAtIs ==
  \A S : \A q \in Seq(S) : \A p \in 1..Len(q) :
    /\ RemoveAt(q, p) \in Seq(S) /\ Len(RemoveAt(q, p)) = Len(q) - 1
    /\ \A i \in 1..(Len(q) - 1) : RemoveAt(q, p)[i] = IF i < p THEN q[i] ELSE q[i + 1]
<1> SUFFICES ASSUME NEW S, NEW q \in Seq(S), NEW n \in Nat, NEW p \in Nat,
                    n = Len(q), 1 <= p, p <= n
             PROVE  /\ RemoveAt(q, p) \in Seq(S) /\ Len(RemoveAt(q, p)) = n - 1
                    /\ \A i \in 1..(n - 1) :
                         RemoveAt(q, p)[i] = IF i < p THEN q[i] ELSE q[i + 1]
  BY LenProperties
<1>1. \A k \in 1..n : q[k] \in S
  BY ElementOfSeq
<1> DEFINE before == SubSeq(q, 1, p - 1)
           after  == SubSeq(q, p + 1, n)
           r      == before \o after
<1>2. before \in Seq(S) /\ Len(before) = p - 1 /\ \A i \in 1..(p - 1) : before[i] = q[i]
  <2>1. /\ 1 \in Nat /\ p - 1 \in Nat /\ 1 <= (p - 1) + 1
        /\ \A i \in 1..(p - 1) : q[i] \in S /\ 1 + i - 1 = i
    BY <1>1
  <2>2. QED BY <2>1, SubSeqProperties
<1>3. after \in Seq(S) /\ Len(after) = n - p /\ \A i \in 1..(n - p) : after[i] = q[p + i]
  <2>1. /\ p + 1 \in Nat /\ p + 1 <= n + 1 /\ (n - (p + 1)) + 1 = n - p
        /\ \A i \in (p + 1)..n : q[i] \in S
    BY <1>1
  <2>2. \A i \in 1..(n - p) : ((p + 1) + i) - 1 = p + i
    OBVIOUS
  <2>3. QED BY <2>1, <2>2, SubSeqProperties
<1>4. r = RemoveAt(q, p)
  BY DEF RemoveAt
<1> HIDE DEF before, after
<1>5. /\ r \in Seq(S) /\ Len(r) = Len(before) + Len(after)
      /\ \A i \in 1..(Len(before) + Len(after)) :
           r[i] = IF i <= Len(before) THEN before[i] ELSE after[i - Len(before)]
  BY <1>2, <1>3, ConcatProperties
<1> HIDE DEF r
<1>6. Len(r) = n - 1
  BY <1>2, <1>3, <1>5
<1>7. ASSUME NEW i \in 1..(n - 1)
      PROVE  r[i] = IF i < p THEN q[i] ELSE q[i + 1]
  <2>1. r[i] = IF i <= p - 1 THEN before[i] ELSE after[i - (p - 1)]
    <3>1. Len(before) + Len(after) = n - 1
      BY <1>2, <1>3
    <3>2. QED BY <1>2, <1>5, <3>1
  <2>2. CASE i < p
    <3>1. i <= p - 1 /\ i \in 1..(p - 1)
      BY <2>2
    <3>2. QED BY <1>2, <2>1, <2>2, <3>1
  <2>3. CASE ~(i < p)
    <3>1. ~(i <= p - 1) /\ i - (p - 1) \in 1..(n - p) /\ p + (i - (p - 1)) = i + 1
      BY <2>3
    <3>2. QED BY <1>3, <2>1, <2>3, <3>1
  <2>4. QED BY <2>2, <2>3
<1>8. QED BY <1>4, <1>5, <1>6, <1>7

\* The first to leave, where each stands once.
LEMMA FirstLeft ==
  ASSUME NEW S, NEW q \in Seq(S), NEW x, NEW r, r = RemoveFirst(q, x),
         \A i, j \in DOMAIN q : q[i] = q[j] => i = j
  PROVE  /\ r \in Seq(S)
         /\ \A i \in DOMAIN r : r[i] # x /\ \E k \in DOMAIN q : r[i] = q[k]
         /\ \A i, j \in DOMAIN r : r[i] = r[j] => i = j
<1>1. PICK n \in Nat : n = Len(q) /\ DOMAIN q = 1..n
  BY LenProperties
<1>2. CASE \A i \in 1..n : q[i] # x
  <2>1. r = q
    BY <1>1, <1>2 DEF RemoveFirst
  <2> QED
    BY <1>1, <1>2, <2>1
<1>3. ASSUME NEW p \in 1..n, q[p] = x
      PROVE  /\ r \in Seq(S)
             /\ \A i \in DOMAIN r : r[i] # x /\ \E k \in DOMAIN q : r[i] = q[k]
             /\ \A i, j \in DOMAIN r : r[i] = r[j] => i = j
  <2>1. {i \in 1..Len(q) : q[i] = x} = {p}
    BY <1>1, <1>3
  <2>2. p \in Nat /\ Min({p}) = p
    BY <1>1 DEF Min
  <2>3. SelectInSeq(q, LAMBDA v : v = x) = p
    BY <2>1, <2>2 DEF SelectInSeq
  <2>4. r = RemoveAt(q, p) /\ p \in 1..Len(q)
    BY <1>1, <1>3, <2>3 DEF RemoveFirst
  <2>5. /\ RemoveAt(q, p) \in Seq(S) /\ Len(RemoveAt(q, p)) = n - 1
        /\ \A i \in 1..(n - 1) : RemoveAt(q, p)[i] = IF i < p THEN q[i] ELSE q[i + 1]
    BY <1>1, <2>4, RemoveAtIs
  <2>6. r \in Seq(S) /\ DOMAIN r = 1..(n - 1)
    BY <2>4, <2>5, LenProperties
  <2> DEFINE was(i) == IF i < p THEN i ELSE i + 1
  <2>7. ASSUME NEW i \in 1..(n - 1)
        PROVE  was(i) \in DOMAIN q /\ was(i) # p /\ r[i] = q[was(i)]
    BY <1>1, <1>3, <2>4, <2>5
  <2>8. \A i, j \in 1..(n - 1) : was(i) = was(j) => i = j
    BY <1>1
  <2> HIDE DEF was
  <2>9. ASSUME NEW i \in 1..(n - 1), NEW j \in 1..(n - 1), r[i] = r[j] PROVE i = j
    <3>1. /\ was(i) \in DOMAIN q /\ was(j) \in DOMAIN q
          /\ q[was(i)] = q[was(j)]
      BY <2>7, <2>9
    <3>2. was(i) = was(j)
      BY <3>1
    <3> QED
      BY <2>8, <3>2
  <2>10. ASSUME NEW i \in 1..(n - 1) PROVE r[i] # x /\ \E k \in DOMAIN q : r[i] = q[k]
    <3>1. was(i) \in DOMAIN q /\ was(i) # p /\ r[i] = q[was(i)] /\ p \in DOMAIN q
      BY <1>1, <2>7
    <3> QED
      BY <1>3, <3>1
  <2> QED
    BY <2>6, <2>9, <2>10
<1> QED
  BY <1>2, <1>3

\* One line changes.
LEMMA LineChanges ==
  ASSUME LinesFit, TasksTyped, NEW d \in Socket, NEW q \in Seq(Runners),
         line' = [line EXCEPT ![d] = q],
         \A i \in DOMAIN q : q[i] \in PlacesOf(d),
         \A i, j \in DOMAIN q : q[i] = q[j] => i = j,
         \A r \in Runners : Contains(q, r) => At(r)'.phase = "sending",
         \A r \in Runners : r \in PlacesOf(d) \/ At(r)' = At(r) \/ At(r).phase # "sending"
  PROVE  LinesFit'
<1>1. line' \in [Socket -> Seq(Runners)] /\ line'[d] = q
      /\ \A c \in Socket : c # d => line'[c] = line[c]
  BY DEF LinesFit
<1>2. ASSUME NEW c \in Socket
      PROVE  /\ \A i \in DOMAIN line'[c] : line'[c][i] \in PlacesOf(c)
             /\ \A i, j \in DOMAIN line'[c] : line'[c][i] = line'[c][j] => i = j
             /\ \A i \in DOMAIN line'[c] :
                  \A r \in Runners : r = line'[c][i] => At(r)'.phase = "sending"
  <2>1. CASE c = d
    <3>1. ASSUME NEW i \in DOMAIN q, NEW r \in Runners, r = q[i]
          PROVE  At(r)'.phase = "sending"
      <4>1. Contains(q, r)
        BY <3>1, LenProperties DEF Contains
      <4> QED
        BY <4>1
    <3>2. line'[c] = q
      BY <1>1, <2>1
    <3> HIDE <1>1
    <3> QED
      BY <2>1, <3>1, <3>2
  <2>2. CASE c # d
    <3>1. line'[c] = line[c] /\ \A i \in DOMAIN line[c] : line[c][i] \in PlacesOf(c)
      BY <1>1, <2>2 DEF LinesFit
    <3>2. ASSUME NEW i \in DOMAIN line[c], NEW r \in Runners, r = line[c][i]
          PROVE  At(r)'.phase = "sending"
      <4>1. r \notin PlacesOf(d)
        BY <2>2, <3>1, <3>2 DEF PlacesOf
      <4>2. At(r).phase = "sending"
        BY <3>2 DEF LinesFit
      <4> QED
        BY <4>1, <4>2
    <3>3. \A i, j \in DOMAIN line[c] : line[c][i] = line[c][j] => i = j
      BY DEF LinesFit
    <3> QED
      BY <3>1, <3>2, <3>3
  <2> QED
    BY <2>1, <2>2
<1>3. ASSUME NEW c \in Socket, NEW i \in DOMAIN line'[c], NEW r, r = line'[c][i]
      PROVE  At(r)'.phase = "sending"
  <2>1. r \in Runners
    BY <1>2, <1>3, SocketTasks
  <2> QED
    BY <1>2, <1>3, <2>1
<1>4. \A c \in Socket : \A i \in DOMAIN line'[c] :
        (IF line'[c][i][1] = "task" THEN task'[line'[c][i][2]] ELSE reply'[line'[c][i][2]]).phase
          = "sending"
  BY <1>3 DEF At
<1> QED
  BY <1>1, <1>2, <1>4 DEF LinesFit, At

\* Nothing of the tasks moves.
LEMMA StillLetsGo ==
  ASSUME ServerInv, ServerInv', LetGoInv, UNCHANGED <<task, reply, line, current, via>>,
         issued \subseteq issued'
  PROVE  LetGoInv'
<1>1. TasksTyped /\ TasksTyped' /\ Heirs
  BY DEF ServerInv, ServerTypes, TasksTyped, Heirs
<1>2. \A r \in Runners : At(r)' = At(r)
  BY DEF At
<1>3. LinesFit'
  BY <1>1, <1>2, LinesStay DEF LetGoInv
<1> QED
  BY <1>1, <1>3, StillCurrent, HeirsKeep DEF LetGoInv

LEMMA SocketLetsGo ==
  ASSUME ServerInv, ServerInv', LetGoInv, NEW c \in Socket,
         Accept(c) \/ ProtocolError(c) \/ Disconnect(c) \/ Notice(c)
  PROVE  LetGoInv'
BY StillLetsGo DEF Accept, ProtocolError, Disconnect, Notice, host, history

\* A request has no place in the line of a socket.
LEMMA RequestLetsGo ==
  ASSUME ServerInv, ServerInv', LetGoInv, NEW h \in Request, NEW l,
         task' = [task EXCEPT ![h] = l], UNCHANGED <<reply, line, current, via>>,
         issued \subseteq issued'
  PROVE  LetGoInv'
<1>1. TasksTyped /\ TasksTyped' /\ h \notin Socket
  BY ServerAssumption DEF ServerInv, ServerTypes, TasksTyped
<1>2. Heirs
  BY <1>1 DEF Heirs, TasksTyped
<1>3. \A c \in Socket : task'[c] = task[c] /\ reply'[c] = reply[c]
  BY <1>1 DEF TasksTyped
<1>4. LinesFit'
  <2>1. \A c \in Socket : \A r \in PlacesOf(c) : At(r)' = At(r)
    BY <1>3 DEF PlacesOf, At
  <2>2. line' = line
    OBVIOUS
  <2>3. ASSUME NEW c \in Socket, NEW i \in DOMAIN line[c], NEW r, r = line[c][i]
        PROVE  At(r)'.phase = "sending"
    <3>1. r \in PlacesOf(c) /\ At(r).phase = "sending"
      BY <2>3 DEF LetGoInv, LinesFit
    <3> QED
      BY <2>1, <3>1
  <2>4. \A c \in Socket : \A i \in DOMAIN line'[c] :
          (IF line'[c][i][1] = "task" THEN task'[line'[c][i][2]] ELSE reply'[line'[c][i][2]]).phase
            = "sending"
    BY <2>2, <2>3 DEF At
  <2> QED
    BY <2>2, <2>4 DEF LetGoInv, LinesFit, At
<1> QED
  BY <1>1, <1>2, <1>4, StillCurrent, HeirsKeep DEF LetGoInv

LEMMA ListingLetsGo ==
  ASSUME ServerInv, ServerInv', LetGoInv, NEW h \in Request, Members(h) \/ Read(h) \/ Drop(h)
  PROVE  LetGoInv'
<1>1. UNCHANGED <<reply, line, current, via, issued>>
  BY DEF Members, Read, Drop, host, wires, history
<1>2. PICK l : task' = [task EXCEPT ![h] = l]
  BY DEF Members, Read, Drop
<1> QED
  BY <1>1, <1>2, RequestLetsGo

LEMMA AskLetsGo ==
  ASSUME ServerInv, ServerInv', LetGoInv, NEW h \in Request, Ask(h)
  PROVE  LetGoInv'
<1>1. UNCHANGED <<reply, line, current, via>> /\ issued \subseteq issued'
  BY DEF Ask, host, wires
<1>2. PICK l : task' = [task EXCEPT ![h] = l]
  BY DEF Ask
<1> QED
  BY <1>1, <1>2, RequestLetsGo

LEMMA FailureLetsGo ==
  ASSUME ServerInv, ServerInv', LetGoInv, NEW r \in Runners, RedisFails(r)
  PROVE  LetGoInv'
<1> DEFINE k == At(r)
           f == Task(k.s, <<Do("finally")>>)
<1>1. UNCHANGED <<line, via, issued, current>>
  BY DEF RedisFails, host
<1>2. PICK kind \in {"write", "enter", "fetch", "delete", "leave", "to", "message"} : Is(k, kind)
  BY DEF RedisFails
<1>3. k \in TaskType /\ ~Idle(k) /\ k.phase # "sending"
  BY <1>2, NotSending
<1>4. Heir(k, NoTask) /\ Heir(k, f)
  BY <1>3, RaisesHeir
<1>5. Becomes(r, f) \/ Becomes(r, NoTask)
  BY DEF RedisFails
<1> HIDE DEF f
<1> QED
  BY <1>1, <1>3, <1>4, <1>5, StillCurrent, OneLetsGo

\* After a restart nobody stands anywhere.
LEMMA CrashLetsGo ==
  ASSUME ServerInv, ServerInv', LetGoInv, Crash
  PROVE  LetGoInv'
<1>1. /\ \A c \in Socket : task'[c] = NoTask /\ reply'[c] = NoTask /\ line'[c] = <<>>
      /\ line' \in [Socket -> Seq(Runners)]
  BY EmptySeq DEF Crash
<1>2. LinesFit'
  BY <1>1 DEF LinesFit
<1>3. Idle(NoTask) /\ TasksTyped'
  BY NoTaskType DEF ServerInv, ServerTypes, TasksTyped
<1>4. Heirs
  BY <1>1, <1>3 DEF Heirs, Heir
<1>5. /\ current' \in [Session -> Socket \cup {Nobody}]
      /\ \A s \in Session : current'[s] \in {current[s], Nobody}
      /\ via' = via /\ issued' = issued
  BY DEF Crash
<1>6. (\A c \in Socket : Orderly(task'[c].todo)) /\ Ways' /\ Silent'
  BY <1>3, <1>4, <1>5, HeirsKeep
<1> QED
  BY <1>2, <1>6 DEF LetGoInv

-----------------------------------------------------------------------------
(* Sending.                                                                *)

LEMMA EmittedHeir ==
  ASSUME NEW k \in TaskType, Is(k, "flush") PROVE Heir(k, Emitted(k))
<1>1. ~Idle(k) /\ Head(k.todo).do # "stop"
  BY DEF Is, Idle
<1>2. CASE Len(Out(k)) <= 1
  <2>1. [k EXCEPT !.out = <<>>] \in TaskType
    BY EmptySeq DEF TaskType
  <2>2. [k EXCEPT !.out = <<>>].s = k.s /\ [k EXCEPT !.out = <<>>].todo = k.todo
    BY DEF TaskType
  <2>3. Emitted(k) = Done([k EXCEPT !.out = <<>>])
    BY <1>2 DEF Emitted
  <2> HIDE DEF Emitted
  <2>4. Heir(k, Done([k EXCEPT !.out = <<>>]))
    BY <1>1, <2>1, <2>2, DoneHeir
  <2> QED
    BY <2>3, <2>4
<1>3. CASE ~(Len(Out(k)) <= 1)
  <2>1. Emitted(k) = [k EXCEPT !.out = Tail(Out(k)), !.phase = "more"]
    BY <1>3 DEF Emitted
  <2>2. Emitted(k).s = k.s /\ Emitted(k).todo = k.todo
    BY <2>1 DEF TaskType
  <2> QED
    BY <1>1, <2>2 DEF Heir
<1> QED
  BY <1>2, <1>3

LEMMA EmitLetsGo ==
  ASSUME ServerInv, ServerInv', LetGoInv, NEW c \in Socket, NEW r \in PlacesOf(c), Emit(r, c)
  PROVE  LetGoInv'
<1> DEFINE k == At(r)
           l == [k EXCEPT !.phase = "sending", !.out = Out(k)]
<1>1. /\ TasksTyped /\ TasksTyped' /\ r \in Runners /\ k \in TaskType
      /\ Is(k, "flush") /\ k.phase # "sending" /\ ~Idle(k)
      /\ UNCHANGED <<via, issued, current>>
  BY Typed, SocketTasks DEF ServerInv, ServerTypes, TasksTyped, Emit, history, host, Is, Idle
<1>2. CASE Becomes(r, Emitted(k)) /\ UNCHANGED line
  BY <1>1, <1>2, EmittedHeir, StillCurrent, OneLetsGo
<1>3. CASE Becomes(r, l) /\ line' = [line EXCEPT ![c] = Append(@, r)]
  <2>1. l.s = k.s /\ l.todo = k.todo /\ l.phase = "sending" /\ Heir(k, l) /\ l \in TaskType
    BY <1>1, OutType DEF TaskType, Heir, Phase
  <2> HIDE DEF l
  <2>2. Heirs /\ At(r)' = l /\ \A q \in Runners : q # r => At(q)' = At(q)
    BY <1>1, <1>3, <2>1, OneHeir, BecomesAt
  <2> DEFINE p == line[c]
             q == Append(line[c], r)
             n == Len(line[c])
  <2>3. /\ p \in Seq(Runners) /\ n \in Nat /\ DOMAIN p = 1..n
        /\ \A i \in DOMAIN p : p[i] \in PlacesOf(c) /\ p[i] # r /\ At(p[i]).phase = "sending"
        /\ \A i, j \in DOMAIN p : p[i] = p[j] => i = j
    <3>1. p \in Seq(Runners)
      BY DEF LetGoInv, LinesFit
    <3>2. n \in Nat /\ DOMAIN p = 1..n
      BY <3>1, LenProperties
    <3> QED
      BY <1>1, <3>1, <3>2 DEF LetGoInv, LinesFit
  <2>4. /\ q \in Seq(Runners) /\ DOMAIN q = 1..(n + 1)
        /\ \A i \in 1..n : q[i] = p[i]
        /\ q[n + 1] = r
    <3>1. q \in Seq(Runners) /\ Len(q) = n + 1 /\ (\A i \in 1..n : q[i] = p[i]) /\ q[n + 1] = r
      BY <1>1, <2>3, AppendProperties
    <3> QED
      BY <3>1, LenProperties
  <2> HIDE DEF p, q, n
  <2>5. /\ \A i \in DOMAIN q : q[i] \in PlacesOf(c)
        /\ \A i, j \in DOMAIN q : q[i] = q[j] => i = j
    <3>1. \A i \in 1..(n + 1) : i \in 1..n \/ i = n + 1
      BY <2>3
    <3> QED
      BY <2>3, <2>4, <3>1
  <2>6. ASSUME NEW x \in Runners, Contains(q, x) PROVE At(x)'.phase = "sending"
    <3>1. PICK i \in 1..(n + 1) : q[i] = x
      BY <2>4, <2>6, LenProperties DEF Contains
    <3>2. CASE i \in 1..n
      <4>1. x # r /\ At(x).phase = "sending"
        BY <2>3, <2>4, <3>1, <3>2
      <4>2. At(x)' = At(x)
        BY <2>2, <4>1
      <4> QED
        BY <4>1, <4>2
    <3>3. CASE i = n + 1
      <4>1. x = r
        BY <2>4, <3>1, <3>3
      <4> QED
        BY <2>1, <2>2, <4>1
    <3> QED
      BY <2>3, <3>1, <3>2, <3>3
  <2>7. line' = [line EXCEPT ![c] = q]
    BY <1>3 DEF q
  <2>8. \A x \in Runners : x \in PlacesOf(c) \/ At(x)' = At(x) \/ At(x).phase # "sending"
    BY <2>2
  <2>9. LinesFit'
    BY <1>1, <2>4, <2>5, <2>6, <2>7, <2>8, LineChanges DEF LetGoInv
  <2> QED
    BY <1>1, <2>2, <2>9, StillCurrent, HeirsKeep DEF LetGoInv
<1> QED
  BY <1>2, <1>3 DEF Emit

LEMMA SendLetsGo ==
  ASSUME ServerInv, ServerInv', LetGoInv, NEW c \in Socket, Send(c)
  PROVE  LetGoInv'
<1>1. PICK r \in Runners : /\ line[c] # <<>> /\ Head(line[c]) = r /\ At(r).phase = "sending"
                           /\ line' = [line EXCEPT ![c] = Tail(@)] /\ Becomes(r, Emitted(At(r)))
                           /\ UNCHANGED <<via, issued, current>>
  BY DEF Send, history, host
<1>2. /\ TasksTyped /\ TasksTyped' /\ At(r) \in TaskType /\ Is(At(r), "flush")
  BY <1>1, Typed DEF ServerInv, ServerTypes, TasksTyped, Holds
<1>3. Heirs /\ \A q \in Runners : q # r => At(q)' = At(q)
  BY <1>1, <1>2, EmittedHeir, OneHeir
<1> DEFINE p == line[c]
           q == Tail(line[c])
           n == Len(line[c])
<1>4. /\ p \in Seq(Runners) /\ n \in Nat /\ n >= 1 /\ DOMAIN p = 1..n /\ p[1] = r
      /\ \A i \in DOMAIN p : p[i] \in PlacesOf(c) /\ At(p[i]).phase = "sending"
      /\ \A i, j \in DOMAIN p : p[i] = p[j] => i = j
  <2>1. p \in Seq(Runners)
    BY DEF LetGoInv, LinesFit
  <2>2. n \in Nat /\ DOMAIN p = 1..n /\ n >= 1 /\ p[1] = r
    BY <1>1, <2>1, LenProperties, EmptySeq, HeadTailProperties
  <2> QED
    BY <2>1, <2>2 DEF LetGoInv, LinesFit
<1>5. q \in Seq(Runners) /\ DOMAIN q = 1..(n - 1) /\ \A i \in 1..(n - 1) : q[i] = p[i + 1]
  <2>1. p # <<>>
    BY <1>1
  <2>2. q \in Seq(Runners) /\ Len(q) = n - 1 /\ \A i \in 1..Len(q) : q[i] = p[i + 1]
    BY <1>4, <2>1, HeadTailProperties
  <2> QED
    BY <2>2, LenProperties
<1>6. line' = [line EXCEPT ![c] = q]
  BY <1>1
<1> HIDE DEF p, q, n
<1>7. \A i \in 1..(n - 1) : i + 1 \in 1..n /\ i + 1 # 1
  BY <1>4
<1>8. /\ \A i \in DOMAIN q : q[i] \in PlacesOf(c) /\ q[i] # r /\ At(q[i]).phase = "sending"
      /\ \A i, j \in DOMAIN q : q[i] = q[j] => i = j
  <2>1. \A i \in DOMAIN q : q[i] \in PlacesOf(c) /\ q[i] # r /\ At(q[i]).phase = "sending"
    BY <1>4, <1>5, <1>7
  <2>2. ASSUME NEW i \in 1..(n - 1), NEW j \in 1..(n - 1), q[i] = q[j] PROVE i = j
    <3>1. p[i + 1] = p[j + 1] /\ i + 1 \in 1..n /\ j + 1 \in 1..n
      BY <1>5, <1>7, <2>2
    <3>2. i + 1 = j + 1
      BY <1>4, <3>1
    <3> QED
      BY <1>4, <3>2
  <2> QED
    BY <1>5, <2>1, <2>2
<1>9. ASSUME NEW x \in Runners, Contains(q, x) PROVE At(x)'.phase = "sending"
  <2>1. PICK i \in DOMAIN q : q[i] = x
    BY <1>5, <1>9, LenProperties DEF Contains
  <2>2. x # r /\ At(x).phase = "sending"
    BY <1>8, <2>1
  <2>3. At(x)' = At(x)
    BY <1>3, <2>2
  <2> QED
    BY <2>2, <2>3
<1>10. r \in PlacesOf(c)
  BY <1>4
<1>11. \A x \in Runners : x \in PlacesOf(c) \/ At(x)' = At(x) \/ At(x).phase # "sending"
  BY <1>3, <1>10
<1>12. LinesFit'
  BY <1>2, <1>5, <1>6, <1>8, <1>9, <1>11, LineChanges DEF LetGoInv
<1> QED
  BY <1>1, <1>2, <1>3, <1>12, StillCurrent, HeirsKeep DEF LetGoInv

-----------------------------------------------------------------------------
(* Messages, and the replies they begin and stop.                          *)

LEMMA MessageOrder ==
  ASSUME NEW m \in Messages
  PROVE  /\ Orderly(Message(m)) /\ ~Closes(Message(m))
         /\ Orderly(Create \o Message(m)) /\ ~Closes(Create \o Message(m))
<1> DEFINE w == Do("write")
           e == Do("enter")
           x == Step("message", m)
<1>1. w.do = "write" /\ e.do = "enter" /\ x.do = "message"
  BY DEF Do, Step
<1> HIDE DEF w, e, x
<1>2. Message(m) = <<x>> /\ Create = <<w, e>>
  BY DEF Message, Create, x, w, e
<1> DEFINE q == <<w, e>> \o <<x>>
<1>3. Len(q) = 3 /\ q[1] = w /\ q[2] = e /\ q[3] = x
  <2>1. <<w, e>> \in Seq({w, e, x}) /\ <<x>> \in Seq({w, e, x})
    BY ShortLists
  <2>2. /\ Len(<<w, e>>) = 2 /\ Len(<<x>>) = 1
        /\ <<w, e>>[1] = w /\ <<w, e>>[2] = e /\ <<x>>[1] = x
    OBVIOUS
  <2>3. /\ Len(q) = 2 + 1
        /\ \A i \in 1..3 : q[i] = IF i <= 2 THEN <<w, e>>[i] ELSE <<x>>[i - 2]
    BY <2>1, <2>2, ConcatProperties
  <2> QED
    BY <2>2, <2>3
<1>4. Orderly(<<x>>) /\ ~Closes(<<x>>)
  BY <1>1 DEF Orderly, Closes, Has
<1> HIDE DEF q
<1>5. Orderly(q) /\ ~Closes(q)
  <2>2. \A i \in 1..Len(q) : i = 1 \/ i = 2 \/ i = 3
    BY <1>3
  <2>3. ~Has(q, {"delete", "leave"})
    BY <1>1, <1>3, <2>2 DEF Has
  <2>4. \A i \in 1..Len(q) : q[i].do = "message" => i = Len(q)
    BY <1>1, <1>3, <2>2
  <2> QED
    BY <2>3, <2>4 DEF Orderly, Closes
<1> QED
  BY <1>2, <1>4, <1>5 DEF q

\* What is to stop comes first, before what has nothing to stop too.
LEMMA StopsBefore ==
  ASSUME NEW a \in Seq(Steps), NEW b \in Seq(Steps), StopsFirst(a), ~Has(b, {"stop"})
  PROVE  /\ a \o b \in Seq(Steps) /\ StopsFirst(a \o b)
         /\ Has(a, {"stop"}) => Has(a \o b, {"stop"})
<1> DEFINE q == a \o b
           n == Len(a)
           m == Len(b)
<1>1. n \in Nat /\ m \in Nat
  BY LenProperties
<1>2. /\ q \in Seq(Steps) /\ Len(q) = n + m
      /\ \A i \in 1..(n + m) : q[i] = IF i <= n THEN a[i] ELSE b[i - n]
  BY ConcatProperties
<1> HIDE DEF q
<1>3. ASSUME NEW i \in 1..(n + m), q[i].do = "stop" PROVE i = 1
  <2>1. CASE i <= n
    <3>1. i \in 1..n /\ q[i] = a[i]
      BY <1>1, <1>2, <2>1
    <3> QED
      BY <1>3, <3>1 DEF StopsFirst
  <2>2. CASE ~(i <= n)
    <3>1. i - n \in 1..m /\ q[i] = b[i - n]
      BY <1>1, <1>2, <2>2
    <3> QED
      BY <1>3, <3>1 DEF Has
  <2> QED
    BY <2>1, <2>2
<1>4. ASSUME NEW i \in 1..n, a[i].do = "stop" PROVE Has(q, {"stop"})
  <2>1. i \in 1..Len(q) /\ q[i] = a[i]
    BY <1>1, <1>2
  <2> QED
    BY <1>4, <2>1 DEF Has
<1>5. StopsFirst(q)
  BY <1>2, <1>3 DEF StopsFirst
<1>6. Has(a, {"stop"}) => Has(q, {"stop"})
  BY <1>4 DEF Has
<1> QED
  BY <1>2, <1>5, <1>6 DEF q

\* A close that has nothing to stop is of a session in which nothing runs.
LEMMA ApplyOrder ==
  ASSUME NEW m \in Messages, NEW s
  PROVE  Orderly(Apply(m, s)) /\ (Closes(Apply(m, s)) => ~Active(s))
<1>1. /\ To("loading") \in Further /\ To("ready") \in Further /\ To("interrupted") \in Further
      /\ To("listening") \in Further /\ To("thinking") \in Further
      /\ Flush("session.ready") \in Further /\ Flush("session.closed") \in Further
      /\ Flush("") \in Further /\ Flush("conversation.interrupted") \in Further
  BY StepKinds DEF Events, Status, Kinds
<1>2. /\ Do("begin") \in Further /\ Do("spawn") \in Further /\ Do("stop") \in Further
      /\ Do("fetch") \in Further /\ Do("delete") \in Further /\ Do("leave") \in Further
  BY StepKinds DEF Kinds
<1>3. /\ To("loading") \in Speaking \cap Ending /\ To("ready") \in Speaking \cap Ending
      /\ To("interrupted") \in Speaking \cap Ending
      /\ To("listening") \in Speaking \cap Ending /\ To("thinking") \in Speaking \cap Ending
      /\ Flush("session.ready") \in Speaking \cap Ending
      /\ Flush("session.closed") \in Speaking \cap Ending
      /\ Flush("") \in Speaking \cap Ending
      /\ Flush("conversation.interrupted") \in Speaking \cap Ending
  BY <1>1 DEF Speaking, Ending, Further, To, Flush, Step
<1>4. /\ Do("begin") \in Speaking /\ Do("spawn") \in Speaking
      /\ Do("stop") \in Speaking \cap Ending /\ Do("stop").do = "stop"
      /\ Do("fetch") \in Ending /\ Do("delete") \in Ending /\ Do("leave") \in Ending
  BY <1>2 DEF Speaking, Ending, Further, Do, Step
<1>5. /\ Interrupting \in Seq(Speaking) /\ Interrupting \in Seq(Ending)
      /\ Len(Interrupting) = 3 /\ Interrupting[1] = Do("stop")
  BY <1>3, <1>4, ShortLists DEF Interrupting
<1>6. InterruptIfActive(s) \in Seq(Speaking) /\ InterruptIfActive(s) \in Seq(Ending)
  BY <1>5, EmptySeq DEF InterruptIfActive
<1>7. Delete \in Seq(Ending) /\ <<Flush("session.closed")>> \in Seq(Ending)
  BY <1>3, <1>4, ShortLists DEF Delete
<1>8. CASE m = "start"
  <2>1. <<To("loading"), To("ready"), To("listening"), Flush("session.ready")>> \in Seq(Speaking)
    BY <1>3, ShortLists
  <2>2. Apply(m, s) \in Seq(Speaking)
    BY <1>8, <2>1 DEF Apply
  <2> QED
    BY <2>2, OrderlyLists DEF Closes
<1>9. CASE m = "reply"
  <2>1. <<Do("begin"), To("thinking"), Flush(""), Do("spawn")>> \in Seq(Speaking)
    BY <1>3, <1>4, ShortLists
  <2>2. InterruptIfActive(s) \o <<Do("begin"), To("thinking"), Flush(""), Do("spawn")>>
          \in Seq(Speaking)
    BY <1>6, <2>1, ConcatProperties
  <2>3. Apply(m, s) \in Seq(Speaking)
    BY <1>9, <2>2 DEF Apply
  <2> QED
    BY <2>3, OrderlyLists DEF Closes
<1>10. CASE m = "interrupt"
  <2>1. <<Flush("conversation.interrupted")>> \in Seq(Speaking)
    BY <1>3, ShortLists
  <2>2. Interrupting \o <<Flush("conversation.interrupted")>> \in Seq(Speaking)
    BY <1>5, <2>1, ConcatProperties
  <2>3. Apply(m, s) \in Seq(Speaking)
    BY <1>10, <2>2 DEF Apply
  <2> QED
    BY <2>3, OrderlyLists DEF Closes
<1>11. CASE m = "close"
  <2> DEFINE a == InterruptIfActive(s)
             b == Delete
             c == <<Flush("session.closed")>>
             q == (a \o b) \o c
  <2>1. Apply(m, s) = q
    BY <1>11 DEF Apply, Closing
  <2>2. a \in Seq(Ending) /\ b \in Seq(Ending) /\ c \in Seq(Ending)
    BY <1>6, <1>7
  <2>3. StopsFirst(a) /\ (Active(s) => Has(a, {"stop"}))
    <3>1. CASE Active(s)
      <4>1. /\ Len(a) = 3 /\ a[1] = Do("stop")
            /\ a[2] = To("interrupted") /\ a[3] = To("listening")
        BY <3>1 DEF InterruptIfActive, Interrupting
      <4>2. To("interrupted").do = "to" /\ To("listening").do = "to"
        BY DEF To, Step
      <4> HIDE DEF a
      <4>3. \A i \in 1..Len(a) : i = 1 \/ i = 2 \/ i = 3
        BY <4>1
      <4>4. 1 \in 1..Len(a) /\ a[1].do \in {"stop"}
        BY <1>4, <4>1
      <4> QED
        BY <4>1, <4>2, <4>3, <4>4 DEF StopsFirst, Has
    <3>2. CASE ~Active(s)
      BY <3>2 DEF InterruptIfActive, StopsFirst
    <3> QED
      BY <3>1, <3>2
  <2>4. ~Has(b, {"stop"}) /\ ~Has(c, {"stop"})
    <3>1. /\ Do("fetch").do # "stop" /\ Do("delete").do # "stop" /\ Do("leave").do # "stop"
          /\ Flush("session.closed").do # "stop"
      BY DEF Do, Flush, Step
    <3>2. /\ Len(b) = 3 /\ b[1] = Do("fetch") /\ b[2] = Do("delete") /\ b[3] = Do("leave")
          /\ Len(c) = 1 /\ c[1] = Flush("session.closed")
      BY DEF Delete
    <3> HIDE DEF b, c
    <3>3. (\A i \in 1..Len(b) : i = 1 \/ i = 2 \/ i = 3) /\ \A i \in 1..Len(c) : i = 1
      BY <3>2
    <3> QED
      BY <3>1, <3>2, <3>3 DEF Has
  <2> HIDE DEF a, b, c
  <2>5. q \in Seq(Ending)
    <3>1. a \o b \in Seq(Ending)
      BY <2>2, ConcatProperties
    <3> QED
      BY <2>2, <3>1, ConcatProperties
  <2>6. StopsFirst(q) /\ (Active(s) => Has(q, {"stop"}))
    <3>1. a \in Seq(Steps) /\ b \in Seq(Steps) /\ c \in Seq(Steps)
      BY <2>2, SeqMonotonic DEF Ending
    <3>2. /\ a \o b \in Seq(Steps) /\ StopsFirst(a \o b)
          /\ Has(a, {"stop"}) => Has(a \o b, {"stop"})
      BY <2>3, <2>4, <3>1, StopsBefore
    <3>3. StopsFirst(q) /\ (Has(a \o b, {"stop"}) => Has(q, {"stop"}))
      BY <2>4, <3>1, <3>2, StopsBefore
    <3> QED
      BY <2>3, <3>2, <3>3
  <2> QED
    BY <2>1, <2>5, <2>6, OrderlyLists DEF Closes
<1> QED
  BY <1>8, <1>9, <1>10, <1>11 DEF Messages

\* A message whose worker is there is applied.
LEMMA StartLetsGo ==
  ASSUME ServerInv, RegistryInv, ServerInv', LetGoInv, NEW r \in Runners, Is(At(r), "message"),
         Start(r, At(r)), UNCHANGED <<line, via, issued, current>>
  PROVE  LetGoInv'
<1> DEFINE k == At(r)
           q == Apply(Head(k.todo).arg, k.s) \o Tail(k.todo)
           l == [k EXCEPT !.todo = q, !.phase = "run", !.got = None]
<1>1. /\ TasksTyped /\ TasksTyped' /\ k \in TaskType /\ ~Idle(k) /\ k.phase # "sending"
  BY NotSending DEF ServerInv, ServerTypes, TasksTyped
<1>2. k.todo \in Seq(Steps) /\ k.todo # <<>> /\ Head(k.todo).do = "message"
  BY <1>1, TaskLists DEF Is
<1>3. Becomes(r, l)
  BY DEF Start
<1>4. l.todo = q /\ l.s = k.s
  BY <1>1 DEF TaskType
<1>5. r[1] # "reply"
  <2> SUFFICES ASSUME r[1] = "reply" PROVE FALSE
    OBVIOUS
  <2>1. k.todo \in Seq(Answering)
    BY ReplyAnswers
  <2>2. Head(k.todo) \in Answering
    BY <1>2, <2>1, HeadTailProperties
  <2> QED
    BY <1>2, <2>2 DEF Answering
<1>6. PICK t \in Socket \cup Request : r = <<"task", t>>
  BY <1>5 DEF Runners
<1>7. task' = [task EXCEPT ![t] = l] /\ reply' = reply
  BY <1>3, <1>6 DEF Becomes
<1>8. CASE t \in Request
  BY <1>7, <1>8, RequestLetsGo
<1>9. CASE t \in Socket
  <2>1. k = task[t] /\ Orderly(k.todo)
    BY <1>6, <1>9 DEF At, LetGoInv
  <2>2. Head(k.todo).arg \in Messages
    BY <1>1, <1>2, RestOfTodo DEF TaskType, Steps
  <2>3. Tail(k.todo) = <<>>
    <3>1. Len(k.todo) >= 1 /\ Len(k.todo) \in Nat /\ Head(k.todo) = k.todo[1]
          /\ Tail(k.todo) \in Seq(Steps) /\ Len(Tail(k.todo)) = Len(k.todo) - 1
      BY <1>1, <1>2, TaskLists
    <3>2. Len(k.todo) = 1
      <4>1. 1 \in 1..Len(k.todo) /\ k.todo[1].do = "message"
        BY <1>2, <3>1
      <4>2. \A i \in 1..Len(k.todo) : k.todo[i].do = "message" => i = Len(k.todo)
        BY <2>1 DEF Orderly
      <4> QED
        BY <4>1, <4>2
    <3>3. Len(Tail(k.todo)) = 0
      BY <3>1, <3>2
    <3> QED
      BY <3>1, <3>3, EmptySeq
  <2>4. PICK m \in Messages : q = Apply(m, k.s)
    <3>1. Apply(Head(k.todo).arg, k.s) \in Seq(Further)
      BY <2>2, ApplyList
    <3>2. q = Apply(Head(k.todo).arg, k.s)
      BY <2>3, <3>1, ConcatEmptySeq
    <3> QED
      BY <2>2, <3>2
  <2>5. Orderly(q) /\ (Closes(q) => ~Active(k.s))
    BY <2>4, ApplyOrder
  <2> HIDE DEF q
  <2>6. task'[t] = l /\ \A c \in Socket : c # t => task'[c] = task[c]
    BY <1>1, <1>7 DEF TasksTyped
  <2>7. \A c \in Socket : Orderly(task'[c].todo)
    BY <1>4, <2>5, <2>6 DEF LetGoInv
  <2>8. Ways'
    <3>1. ~Idle(task[t]) /\ task[t].s = task'[t].s
      BY <1>1, <1>4, <2>1, <2>6
    <3>2. \A c \in Socket : ~Idle(task'[c]) => ~Idle(task[c]) /\ task'[c].s = task[c].s
      BY <2>6, <3>1
    <3> QED
      BY <3>2 DEF LetGoInv, Ways
  <2>9. \A s \in Session : Active(s)' = Active(s)
    BY <1>7 DEF Active
  <2>10. Silent'
    <3> SUFFICES ASSUME NEW s \in Session, NEW c \in Socket,
                        via'[s] = {c}, task'[c].s = s, Closes(task'[c].todo)
                 PROVE  ~Active(s)
      BY <2>9 DEF Silent
    <3>1. CASE c = t
      BY <1>4, <2>5, <2>6, <3>1
    <3>2. CASE c # t
      BY <2>6, <3>2 DEF LetGoInv, Silent
    <3> QED
      BY <3>1, <3>2
  <2>11. LinesFit'
    <3>1. \A x \in Runners : x # r => At(x)' = At(x)
      BY <1>1, <1>6, <1>7 DEF At, TasksTyped, Runners
    <3> QED
      BY <1>1, <3>1, LinesStay DEF LetGoInv
  <2> QED
    BY <2>7, <2>8, <2>10, <2>11 DEF LetGoInv
<1> QED
  BY <1>8, <1>9

LEMMA LookupLetsGo ==
  ASSUME ServerInv, RegistryInv, ServerInv', LetGoInv, NEW r \in Runners, Lookup(r)
  PROVE  LetGoInv'
<1> DEFINE k == At(r)
           l == [k EXCEPT !.got = record[k.s], !.phase = "got"]
<1>1. Is(k, "message") /\ UNCHANGED <<line, via, issued, current>>
  BY DEF Lookup, wires, history, host
<1>2. k \in TaskType /\ ~Idle(k) /\ k.phase # "sending"
  BY <1>1, NotSending
<1>3. Heir(k, l)
  BY <1>2 DEF Heir, TaskType
<1>4. Start(r, k) \/ Raises(r) \/ Becomes(r, l)
  BY DEF Lookup
<1> HIDE DEF l
<1>5. CASE Start(r, k)
  BY <1>1, <1>5, StartLetsGo
<1>6. CASE Raises(r)
  BY <1>1, <1>2, <1>6, RaisesLetsGo
<1>7. CASE Becomes(r, l)
  BY <1>1, <1>2, <1>3, <1>7, StillCurrent, OneLetsGo
<1> QED
  BY <1>4, <1>5, <1>6, <1>7

LEMMA ReceiveLetsGo ==
  ASSUME ServerInv, ServerInv', LetGoInv, NEW c \in Socket, Receive(c)
  PROVE  LetGoInv'
<1>1. /\ TasksTyped /\ TasksTyped' /\ Idle(task[c])
      /\ UNCHANGED <<reply, line, current>>
  BY DEF ServerInv, ServerTypes, TasksTyped, Receive, wires, host
<1>2. \A s \in Session : Active(s)' = Active(s)
  BY <1>1 DEF Active
<1>3. ASSUME NEW s \in Session, NEW q, Orderly(q), ~Closes(q), q # <<>>,
             task' = [task EXCEPT ![c] = Task(s, q)],
             via' = [via EXCEPT ![s] = via[s] \cup {c}],
             issued' = issued \cup {s}
      PROVE  LetGoInv'
  <2> DEFINE l == Task(s, q)
  <2>1. l.s = s /\ l.todo = q /\ ~Idle(l)
    BY <1>3 DEF Task, NoTask, Idle
  <2> HIDE DEF l
  <2>2. task'[c] = l /\ \A d \in Socket : d # c => task'[d] = task[d]
    BY <1>1, <1>3 DEF l, TasksTyped
  <2>3. via'[s] = via[s] \cup {c} /\ \A x \in Session : x # s => via'[x] = via[x]
    BY <1>3 DEF LetGoInv, Ways
  <2>4. \A d \in Socket : Orderly(task'[d].todo)
    BY <1>3, <2>1, <2>2 DEF LetGoInv
  <2>5. Ways'
    <3>1. /\ via' \in [Session -> SUBSET Socket] /\ current' \in [Session -> Socket \cup {Nobody}]
      BY <1>1, <1>3 DEF LetGoInv, Ways
    <3>2. \A d \in Socket : ~Idle(task'[d]) => task'[d].s \in Session /\ d \in via'[task'[d].s]
      BY <2>1, <2>2, <2>3 DEF LetGoInv, Ways
    <3>3. \A x \in Session : current'[x] \in via'[x] \cup {Nobody}
      BY <1>1, <2>3 DEF LetGoInv, Ways
    <3>4. \A x \in Session : x \notin issued' => via'[x] = {}
      BY <1>3, <2>3 DEF LetGoInv, Ways
    <3> QED
      BY <3>1, <3>2, <3>3, <3>4 DEF Ways
  <2>6. Silent'
    <3> SUFFICES ASSUME NEW x \in Session, NEW d \in Socket,
                        via'[x] = {d}, task'[d].s = x, Closes(task'[d].todo)
                 PROVE  ~Active(x)
      BY <1>2 DEF Silent
    <3>1. d # c
      BY <1>3, <2>1, <2>2
    <3>2. x # s
      BY <2>3, <3>1
    <3> QED
      BY <2>2, <2>3, <3>1, <3>2 DEF LetGoInv, Silent
  <2>7. LinesFit'
    <3>1. At(<<"task", c>>).phase # "sending"
      BY <1>1, Typed, SocketTasks DEF Holds, Is, Idle
    <3>2. \A x \in Runners : x # <<"task", c>> => At(x)' = At(x)
      BY <1>1, <1>3 DEF At, TasksTyped, Runners
    <3> QED
      BY <1>1, <3>1, <3>2, LinesStay DEF LetGoInv
  <2> QED
    BY <2>4, <2>5, <2>6, <2>7 DEF LetGoInv
<1>4. CASE \E s \in Session \ issued :
             /\ task' = [task EXCEPT ![c] = Task(s, Create \o Message("start"))]
             /\ issued' = issued \cup {s} /\ via' = [via EXCEPT ![s] = {c}]
  <2>1. PICK s \in Session \ issued :
             /\ task' = [task EXCEPT ![c] = Task(s, Create \o Message("start"))]
             /\ issued' = issued \cup {s} /\ via' = [via EXCEPT ![s] = {c}]
    BY <1>4
  <2>2. via[s] = {} /\ {c} = via[s] \cup {c}
    BY DEF LetGoInv, Ways
  <2> DEFINE q == Create \o Message("start")
  <2>3. Orderly(q) /\ ~Closes(q) /\ q # <<>>
    BY MessageOrder, CreateIsTodo DEF Messages
  <2>4. task' = [task EXCEPT ![c] = Task(s, q)]
    BY <2>1
  <2> HIDE DEF q
  <2> QED
    BY <1>3, <2>1, <2>2, <2>3, <2>4
<1>5. CASE \E s \in Known, m \in Messages :
             /\ task' = [task EXCEPT ![c] = Task(s, Message(m))]
             /\ via' = [via EXCEPT ![s] = @ \cup {c}] /\ UNCHANGED issued
  <2>1. PICK s \in Known, m \in Messages :
             /\ task' = [task EXCEPT ![c] = Task(s, Message(m))]
             /\ via' = [via EXCEPT ![s] = @ \cup {c}] /\ UNCHANGED issued
    BY <1>5
  <2>2. s \in Session /\ issued' = issued \cup {s}
    BY <2>1 DEF Known, ServerInv, ServerTypes
  <2>3. Orderly(Message(m)) /\ ~Closes(Message(m)) /\ Message(m) # <<>>
    BY MessageOrder DEF Message
  <2> QED
    BY <1>3, <2>1, <2>2, <2>3
<1> QED
  BY <1>4, <1>5 DEF Receive, Messages

\* The handler is done with a step; which may leave one that it did not.
LEMMA DoneRest ==
  ASSUME NEW k \in TaskType, ~Idle(k), Orderly(k.todo)
  PROVE  /\ Orderly(Done(k).todo) /\ (~Idle(Done(k)) => Done(k).s = k.s)
         /\ Closes(Done(k).todo) => /\ Closes(k.todo) \/ Head(k.todo).do = "stop"
                                    /\ Done(k).s = k.s
<1>1. CASE Len(k.todo) = 1
  BY <1>1, ErrorLists DEF Done, NoTask, Idle
<1>2. CASE Len(k.todo) # 1
  <2>1. Done(k).todo = Tail(k.todo) /\ Done(k).s = k.s
    BY <1>2 DEF Done, TaskType
  <2> QED
    BY <2>1, RestHas
<1> QED
  BY <1>1, <1>2

LEMMA SpawnLetsGo ==
  ASSUME ServerInv, ServerInv', LetGoInv, NEW c \in Socket, Spawn(c)
  PROVE  LetGoInv'
<1> DEFINE k == task[c]
           l == Task(k.s, Replying)
<1>1. /\ TasksTyped /\ TasksTyped' /\ Is(k, "spawn") /\ Idle(reply[c])
      /\ reply' = [reply EXCEPT ![c] = l] /\ task' = [task EXCEPT ![c] = Done(k)]
      /\ current' = [current EXCEPT ![k.s] = c]
      /\ UNCHANGED <<line, via, issued>>
  BY DEF ServerInv, ServerTypes, TasksTyped, Spawn, wires, history
<1>2. k \in TaskType /\ ~Idle(k) /\ Orderly(k.todo) /\ k.s \in Session /\ c \in via[k.s]
  BY <1>1, SocketTasks DEF Is, Idle, LetGoInv, Ways
<1> HIDE DEF l
<1>3. /\ Orderly(Done(k).todo) /\ (~Idle(Done(k)) => Done(k).s = k.s)
      /\ Closes(Done(k).todo) => Closes(k.todo) /\ Done(k).s = k.s
  BY <1>1, <1>2, DoneRest DEF Is
<1>4. ~Closes(k.todo)
  <2>1. 1 \in 1..Len(k.todo) /\ k.todo[1].do = "spawn"
    BY <1>1, <1>2, TaskLists DEF Is
  <2>2. Has(k.todo, {"spawn", "message"})
    BY <2>1 DEF Has
  <2> QED
    BY <1>2, <2>2 DEF Orderly, Closes
<1>5. /\ task'[c] = Done(k) /\ reply'[c] = l
      /\ \A d \in Socket : d # c => task'[d] = task[d] /\ reply'[d] = reply[d]
  BY <1>1 DEF TasksTyped
<1>6. /\ current' \in [Session -> Socket \cup {Nobody}] /\ current'[k.s] = c
      /\ \A s \in Session : s # k.s => current'[s] = current[s]
  BY <1>1, <1>2 DEF LetGoInv, Ways
<1>7. \A d \in Socket : Orderly(task'[d].todo)
  BY <1>3, <1>5 DEF LetGoInv
<1>8. Ways'
  <2>1. \A d \in Socket : ~Idle(task'[d]) => task'[d].s \in Session /\ d \in via'[task'[d].s]
    BY <1>1, <1>2, <1>3, <1>5 DEF LetGoInv, Ways
  <2>2. \A s \in Session : current'[s] \in via'[s] \cup {Nobody}
    BY <1>1, <1>2, <1>6 DEF LetGoInv, Ways
  <2> QED
    BY <1>1, <1>6, <2>1, <2>2 DEF LetGoInv, Ways
<1>9. Silent'
  <2> SUFFICES ASSUME NEW s \in Session, NEW d \in Socket,
                      via[s] = {d}, task'[d].s = s, Closes(task'[d].todo), Active(s)'
               PROVE  FALSE
    BY <1>1 DEF Silent
  <2>1. d # c
    BY <1>3, <1>4, <1>5
  <2>2. s # k.s
    BY <1>2, <2>1
  <2>3. task'[d] = task[d] /\ current'[s] = current[s]
    BY <1>5, <1>6, <2>1, <2>2
  <2>4. current[s] = d /\ ~Idle(reply'[d])
    BY <2>3 DEF Active, LetGoInv, Ways
  <2>5. Active(s)
    BY <1>5, <2>1, <2>4, ServerAssumption DEF Active
  <2> QED
    BY <2>3, <2>5 DEF LetGoInv, Silent
<1>10. LinesFit'
  <2>1. At(<<"task", c>>).phase # "sending" /\ At(<<"reply", c>>).phase # "sending"
    BY <1>1, Typed, SocketTasks DEF Holds, Is, Idle
  <2>2. \A x \in Runners : x # <<"task", c>> /\ x # <<"reply", c>> => At(x)' = At(x)
    BY <1>1 DEF At, TasksTyped, Runners
  <2> QED
    BY <1>1, <2>1, <2>2, LinesStay DEF LetGoInv
<1> QED
  BY <1>7, <1>8, <1>9, <1>10 DEF LetGoInv

LEMMA StopLetsGo ==
  ASSUME ServerInv, ServerInv', LetGoInv, NEW c \in Socket, Stop(c)
  PROVE  LetGoInv'
<1> DEFINE k == task[c]
           d == current[k.s]
<1>1. /\ TasksTyped /\ TasksTyped' /\ Is(k, "stop") /\ task' = [task EXCEPT ![c] = Done(k)]
      /\ current' = [current EXCEPT ![k.s] = Nobody]
      /\ UNCHANGED <<via, issued>>
  BY DEF ServerInv, ServerTypes, TasksTyped, Stop, history
<1>2. k \in TaskType /\ ~Idle(k) /\ Orderly(k.todo) /\ k.s \in Session
      /\ d \in Socket \cup {Nobody}
  BY <1>1, SocketTasks DEF Is, Idle, LetGoInv, Ways
<1>3. \/ d = Nobody /\ reply' = reply /\ line' = line
      \/ /\ d \in Socket /\ reply' = [reply EXCEPT ![d] = NoTask]
         /\ line' = [line EXCEPT ![d] = RemoveFirst(line[d], <<"reply", d>>)]
  BY <1>2 DEF Stop, Left
<1> HIDE DEF d
<1>4. Orderly(Done(k).todo) /\ (~Idle(Done(k)) => Done(k).s = k.s)
      /\ (Closes(Done(k).todo) => Done(k).s = k.s)
  BY <1>2, DoneRest
<1>5. /\ task'[c] = Done(k) /\ \A e \in Socket : e # c => task'[e] = task[e]
      /\ \A e \in Socket : reply'[e] = reply[e] \/ reply'[e] = NoTask
  BY <1>1, <1>3 DEF TasksTyped
<1>6. /\ current' \in [Session -> Socket \cup {Nobody}] /\ current'[k.s] = Nobody
      /\ \A s \in Session : s # k.s => current'[s] = current[s]
  BY <1>1, <1>2 DEF LetGoInv, Ways
<1>7. \A e \in Socket : Orderly(task'[e].todo)
  BY <1>4, <1>5 DEF LetGoInv
<1>8. Ways'
  <2>1. \A e \in Socket : ~Idle(task'[e]) => task'[e].s \in Session /\ e \in via'[task'[e].s]
    BY <1>1, <1>2, <1>4, <1>5 DEF LetGoInv, Ways
  <2>2. \A s \in Session : current'[s] \in via'[s] \cup {Nobody}
    BY <1>1, <1>2, <1>6 DEF LetGoInv, Ways
  <2> QED
    BY <1>1, <1>6, <2>1, <2>2 DEF LetGoInv, Ways
<1>9. Silent'
  <2> SUFFICES ASSUME NEW s \in Session, NEW e \in Socket,
                      via[s] = {e}, task'[e].s = s, Closes(task'[e].todo), Active(s)'
               PROVE  FALSE
    BY <1>1 DEF Silent
  <2>1. s # k.s
    BY <1>6 DEF Active
  <2>2. e # c
    BY <1>4, <1>5, <2>1
  <2>3. task'[e] = task[e] /\ current'[s] = current[s] /\ current[s] \in Socket
    BY <1>5, <1>6, <2>1, <2>2 DEF Active, LetGoInv, Ways
  <2>4. ~Idle(reply'[current[s]]) /\ Idle(NoTask)
    BY <2>3, NoTaskType DEF Active
  <2>5. ~Idle(reply[current[s]])
    BY <1>5, <2>3, <2>4
  <2>6. Active(s)
    BY <2>3, <2>5, ServerAssumption DEF Active
  <2> QED
    BY <2>3, <2>6 DEF LetGoInv, Silent
<1>10. At(<<"task", c>>).phase # "sending"
  BY <1>1, Typed, SocketTasks DEF Holds, Is, Idle
<1>11. LinesFit'
  <2>1. CASE d = Nobody
    <3>1. \A x \in Runners : x # <<"task", c>> => At(x)' = At(x)
      BY <1>1, <1>2, <1>3, <2>1, ServerAssumption DEF At, TasksTyped, Runners
    <3>2. line' = line
      BY <1>3, <2>1, ServerAssumption
    <3> QED
      BY <1>1, <1>10, <3>1, <3>2, LinesStay DEF LetGoInv
  <2>2. CASE d \in Socket
    <3> DEFINE p == line[d]
               x == <<"reply", d>>
               q == RemoveFirst(line[d], <<"reply", d>>)
    <3>1. /\ reply' = [reply EXCEPT ![d] = NoTask] /\ line' = [line EXCEPT ![d] = q]
      BY <1>3, <2>2, ServerAssumption
    <3>2. /\ p \in Seq(Runners) /\ \A i \in DOMAIN p : p[i] \in PlacesOf(d) /\ At(p[i]).phase = "sending"
          /\ \A i, j \in DOMAIN p : p[i] = p[j] => i = j
      BY <2>2 DEF LetGoInv, LinesFit
    <3>3. /\ q \in Seq(Runners)
          /\ \A i \in DOMAIN q : q[i] # x /\ \E e \in DOMAIN p : q[i] = p[e]
          /\ \A i, j \in DOMAIN q : q[i] = q[j] => i = j
      <4>1. q = RemoveFirst(p, x)
        OBVIOUS
      <4> HIDE DEF p, q, x
      <4>2. \A i, j \in DOMAIN p : p[i] = p[j] => i = j
        BY <3>2
      <4> QED
        BY <3>2, <4>1, <4>2, FirstLeft
    <3> HIDE DEF p, q
    <3>4. \A r \in Runners : r # <<"task", c>> /\ r # x => At(r)' = At(r)
      BY <1>1, <3>1 DEF At, TasksTyped, Runners
    <3>5. ASSUME NEW r \in Runners, Contains(q, r) PROVE At(r)'.phase = "sending"
      <4>1. PICK i \in DOMAIN q : q[i] = r
        BY <3>3, <3>5, LenProperties DEF Contains
      <4>2. r # x /\ At(r).phase = "sending"
        BY <3>2, <3>3, <4>1
      <4>3. At(r)' = At(r)
        BY <1>10, <3>4, <4>2
      <4> QED
        BY <4>2, <4>3
    <3>6. x \in PlacesOf(d)
      BY DEF PlacesOf
    <3>7. \A r \in Runners : r \in PlacesOf(d) \/ At(r)' = At(r) \/ At(r).phase # "sending"
      BY <1>10, <3>4, <3>6
    <3>8. \A i \in DOMAIN q : q[i] \in PlacesOf(d)
      BY <3>2, <3>3
    <3> QED
      BY <1>1, <2>2, <3>1, <3>3, <3>5, <3>7, <3>8, LineChanges DEF LetGoInv
  <2> QED
    BY <1>2, <2>1, <2>2
<1> QED
  BY <1>7, <1>8, <1>9, <1>11 DEF LetGoInv

LEMMA LinksKeep ==
  ASSUME ServerInv, Links, [Next]_vars PROVE Links'
<1>1. \A r \in Runners : Cut(r) \subseteq Session
  BY Typed DEF Cut, TaskType, Name
<1>2. torn' \subseteq Session
  <2>1. CASE torn' = torn
    BY <2>1 DEF Links
  <2>2. ASSUME NEW r \in Runners, RedisFails(r) PROVE torn' \subseteq Session
    BY <1>1, <2>2 DEF Links, RedisFails
  <2>3. CASE Crash
    BY <1>1, <2>3 DEF Links, Crash
  <2> QED
    BY <2>1, <2>2, <2>3 DEF Next, vars, history, Accept, Receive, ProtocolError, Disconnect, Notice,
       Send, Spawn, Stop, Emit, Ask, Members, Read, Drop, Lookup, Local, UpdateGet, UpdateSet,
       Updated, Command
<1>3. link' \in [Socket -> {"new", "open", "broken", "closed"}]
  <2>1. CASE link' = link
    BY <2>1 DEF Links
  <2>2. ASSUME NEW r \in Runners, RedisFails(r) PROVE link' \in [Socket -> {"new", "open", "broken", "closed"}]
    BY <2>2 DEF Links, RedisFails
  <2>3. CASE Crash
    BY <2>3 DEF Links, Crash
  <2>4. ASSUME NEW c \in Socket,
               Accept(c) \/ ProtocolError(c) \/ Disconnect(c) \/ Notice(c) \/ Send(c)
        PROVE  link' \in [Socket -> {"new", "open", "broken", "closed"}]
    BY <2>4 DEF Links, Accept, ProtocolError, Disconnect, Notice, Send
  <2> QED
    BY <2>1, <2>2, <2>3, <2>4 DEF Next, vars, wires, Receive,
       Spawn, Stop, Emit, Ask, Members, Read, Drop, Lookup, Local, UpdateGet, UpdateSet,
       Updated, Command
<1> QED
  BY <1>2, <1>3 DEF Links

LEMMA LetGoKeeps ==
  ASSUME ServerInv, RegistryInv, LetGoInv, [Next]_vars PROVE LetGoInv'
<1>1. ServerInv'
  BY NextKeeps
<1>2. CASE UNCHANGED vars
  BY <1>1, <1>2, StillLetsGo DEF vars, host, wires, history
<1>3. ASSUME NEW c \in Socket,
             Accept(c) \/ Receive(c) \/ ProtocolError(c) \/ Disconnect(c)
               \/ Notice(c) \/ Send(c) \/ Spawn(c) \/ Stop(c)
               \/ Emit(<<"task", c>>, c) \/ Emit(<<"reply", c>>, c)
      PROVE  LetGoInv'
  <2>1. <<"task", c>> \in PlacesOf(c) /\ <<"reply", c>> \in PlacesOf(c)
    BY DEF PlacesOf
  <2> QED
    BY <1>1, <1>3, <2>1, SocketLetsGo, ReceiveLetsGo, SendLetsGo, SpawnLetsGo, StopLetsGo,
       EmitLetsGo
<1>4. ASSUME NEW h \in Request, Ask(h) \/ Members(h) \/ Read(h) \/ Drop(h)
      PROVE  LetGoInv'
  BY <1>1, <1>4, AskLetsGo, ListingLetsGo
<1>5. ASSUME NEW r \in Runners,
             Lookup(r) \/ Local(r) \/ UpdateGet(r) \/ UpdateSet(r) \/ Updated(r)
               \/ Command(r) \/ RedisFails(r)
      PROVE  LetGoInv'
  BY <1>1, <1>5, LookupLetsGo, LocalLetsGo, UpdateLetsGo, CommandLetsGo, FailureLetsGo
<1>6. CASE Crash
  BY <1>1, <1>6, CrashLetsGo
<1> QED
  BY <1>2, <1>3, <1>4, <1>5, <1>6 DEF Next

LEMMA InitLetsGo == Init => LetGoInv /\ Links
<1> SUFFICES ASSUME Init PROVE LetGoInv /\ Links
  OBVIOUS
<1>1. Idle(NoTask) /\ Orderly(NoTask.todo) /\ ~Closes(NoTask.todo)
  BY NoTaskType, ErrorLists DEF NoTask
<1>2. \A c \in Socket : task[c] = NoTask /\ line[c] = <<>>
  BY DEF Init
<1>3. LinesFit
  BY <1>2, EmptySeq DEF Init, LinesFit
<1>4. Ways /\ Silent
  BY <1>1, <1>2 DEF Init, Ways, Silent
<1>5. Links
  BY DEF Init, Links
<1> QED
  BY <1>1, <1>2, <1>3, <1>4, <1>5 DEF LetGoInv

LEMMA LettingGoShows == ServerInv /\ LetGoInv /\ Links => RepliesLetGo
<1> SUFFICES ASSUME ServerInv, LetGoInv, Links PROVE RepliesLetGo
  OBVIOUS
<1>1. TypeOK
  <2>1. /\ \A s \in Session : record[s] \in State /\ workers[s] \in State
        /\ index \subseteq Session /\ quiet \subseteq Session
    BY DEF ServerInv, ServerTypes, QuietInv
  <2> QED
    BY <2>1 DEF TypeOK, State, LetGoInv, Ways, Links
<1>2. LocksAreHeldByTheLiving
  BY DEF LocksAreHeldByTheLiving, LetGoInv, LinesFit
<1>3. CloseSilences
  <2> SUFFICES ASSUME NEW s \in Session, NEW c \in Socket, via[s] = {c}, task[c].s = s,
                      task[c].todo # <<>>, Head(task[c].todo).do \in {"delete", "leave"}
               PROVE  ~Active(s)
    BY DEF CloseSilences
  <2>1. Closes(task[c].todo)
    <3> DEFINE q == task[c].todo
    <3>1. task[c] \in TaskType /\ Orderly(q)
      BY Typed, SocketTasks DEF LetGoInv
    <3>2. 1 \in 1..Len(q) /\ q[1].do \in {"delete", "leave"}
      BY <3>1, TaskLists
    <3>3. Has(q, {"delete", "leave"})
      BY <3>2 DEF Has
    <3>4. StopsFirst(q) /\ q[1].do # "stop"
      BY <3>1, <3>2, <3>3 DEF Orderly
    <3>5. ~Has(q, {"stop"})
      BY <3>4 DEF StopsFirst, Has
    <3> QED
      BY <3>3, <3>5 DEF Closes
  <2> QED
    BY <2>1 DEF LetGoInv, Silent
<1> QED
  BY <1>1, <1>2, <1>3 DEF RepliesLetGo

\* A reply that is cancelled, in the middle of a send or between the commands
\* of an update, lets go: whoever has the lock of a socket or waits for it is
\* there to send (transport/websocket/handler.py:208-240), and when a close comes
\* to its commands nothing is told any more of the session it deletes
\* (session_worker.py: _interrupt, _close_session).
THEOREM RepliesAreLetGo == Spec => []RepliesLetGo
<1>1. Init => ServerInv /\ RegistryInv /\ LetGoInv /\ Links
  BY InitServer, InitRegistry, InitLetsGo
<1>2. ServerInv /\ RegistryInv /\ LetGoInv /\ Links /\ [Next]_vars
        => (ServerInv /\ RegistryInv /\ LetGoInv /\ Links)'
  BY NextKeeps, RegistryKeeps, LetGoKeeps, LinksKeep
<1>3. ServerInv /\ LetGoInv /\ Links => RepliesLetGo
  BY LettingGoShows
<1> QED
  BY <1>1, <1>2, <1>3, PTL DEF Spec
=============================================================================
