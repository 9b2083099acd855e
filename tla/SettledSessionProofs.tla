------------------------- MODULE SettledSessionProofs -------------------------
(***************************************************************************)
(* The worker, the key and the client of a session that one socket uses    *)
(* settle on the same status, for any number of sessions, sockets and      *)
(* requests, with failures of Redis and restarts at any point.  While a    *)
(* handler or a reply of it runs, what they still have to do says what the *)
(* worker, the key and the client know of the status.                      *)
(***************************************************************************)
EXTENDS SessionServerProofs, FiniteSetTheorems

\* The steps of a handler for one session: those that come last, and what may
\* follow each of the others.
Untold == {"error", "session.ready", "session.closed", "conversation.interrupted"}
Final(x) ==
  \/ x.do = "message" /\ x.arg \in Messages
  \/ x.do = "spawn"
  \/ x.do = "flush" /\ x.arg \in Untold
Follows(x, y) ==
  \/ x.do = "write" /\ y.do = "enter"
  \/ x.do = "enter" /\ y.do = "message" /\ y.arg = "start"
  \/ x.do = "to" /\ x.arg = "loading" /\ y.do = "to" /\ y.arg = "ready"
  \/ x.do = "to" /\ x.arg = "ready" /\ y.do = "to" /\ y.arg = "listening"
  \/ x.do = "stop" /\ y.do = "to" /\ y.arg = "interrupted"
  \/ x.do = "to" /\ x.arg = "interrupted" /\ y.do = "to" /\ y.arg = "listening"
  \/ x.do = "to" /\ x.arg = "listening" /\ y.do \in {"begin", "fetch"}
  \/ x.do = "to" /\ x.arg = "listening" /\ y.do = "flush" /\ y.arg \in Untold
  \/ x.do = "begin" /\ y.do = "to" /\ y.arg = "thinking"
  \/ x.do = "to" /\ x.arg = "thinking" /\ y.do = "flush" /\ y.arg = ""
  \/ x.do = "flush" /\ x.arg = "" /\ y.do = "spawn"
  \/ x.do = "fetch" /\ y.do = "delete"
  \/ x.do = "delete" /\ y.do = "leave"
  \/ x.do = "leave" /\ y.do = "flush" /\ y.arg \in Untold
Path(q) ==
  q # <<>> =>
    /\ Final(q[Len(q)])
    /\ \A i \in 1..Len(q) - 1 : Follows(q[i], q[i + 1])

\* The rest of a reply, while it may still update the session and after that.
Unanswered ==
  {Replying, <<Do("complete"), To("listening"), Flush(""), Do("finally")>>,
   <<To("listening"), Flush(""), Do("finally")>>}
Answered == {<<Flush(""), Do("finally")>>, <<Do("finally")>>, <<>>}

Faces(k, do, arg) == Is(k, do) /\ Head(k.todo).arg = arg
Nears(k, status) == Faces(k, "to", status)
Copies(k) == Is(k, "to") /\ k.phase \in {"got", "set"}
Sets(k) == Is(k, "to") /\ k.phase = "set"

\* While a reply runs its handler interrupts it, or starts the session again.
Beside(x) ==
  \/ x.do = "to" /\ x.arg \in {"loading", "ready", "listening"}
  \/ x.do = "flush" /\ x.arg \in Untold
Yields(t) ==
  \/ Idle(t) \/ Is(t, "stop") \/ Is(t, "message")
  \/ \A i \in 1..Len(t.todo) : Beside(t.todo[i])

\* The lists and the phases.
Shapes(t, r) ==
  /\ Path(t.todo) /\ r.todo \in Unanswered \cup Answered
  /\ \A x \in {t, r} : /\ Is(x, "to") => x.phase \in {"run", "got", "set"}
                       /\ x.phase = "sending" => x.out # <<>>
  /\ ~Idle(r) => /\ Yields(t)
                 /\ (Nears(t, "loading") \/ Nears(t, "ready")) => t.phase = "run"

\* The worker is not made: no reply, and the key is as its creation or as an
\* earlier worker left it.
Unstarted(t, r, w, k) ==
  /\ w = None => /\ Idle(r) /\ (Idle(t) \/ Is(t, "enter") \/ Is(t, "message"))
                 /\ t.out = <<>>
                 /\ k.status \in {"created", "listening"}
                 /\ k.status = "created" => Is(t, "enter") \/ Faces(t, "message", "start")
  /\ (Is(t, "message") /\ t.phase = "got") => w = None /\ t.got = k
  /\ w # None => ~Is(t, "write") /\ ~Is(t, "enter")

\* The statuses the worker may have when its handler is at t and no reply is
\* going to change it.
Expected(t, status) ==
  CASE Nears(t, "loading")     -> status \in {"created", "listening"}
    [] Nears(t, "ready")       -> status \in {"loading", "listening"}
    [] Nears(t, "listening")   ->
         \/ status \in {"ready", "interrupted", "listening"}
         \/ status = "thinking" /\ t.phase # "run"
    [] Nears(t, "interrupted") -> status \in {"listening", "thinking"}
    [] Faces(t, "flush", "") \/ Is(t, "spawn") -> status = "thinking"
    [] OTHER -> status = "listening"
Standing(t, r, w) ==
  w # None => /\ ~Idle(r) => w.status \in {"thinking", "listening"}
              /\ r.todo \notin Unanswered => Expected(t, w.status)

\* The key has the status of the worker, but between the two writes of an
\* update, and when the interruption cut an update there.
Same(t, r, w, k) ==
  /\ \A x \in {t, r} : Copies(x) => x.got.status = Head(x.todo).arg /\ ~x.got.active
  /\ \A x \in {t, r} : Sets(x) => k.status = Head(x.todo).arg
  /\ (w # None /\ ~Sets(t) /\ ~Sets(r)) =>
       k.status = w.status \/ (Nears(t, "interrupted") /\ k.status = "listening")
  /\ ~k.active /\ (w.active => Nears(t, "thinking"))

Fit(t, r, w, k) ==
  Shapes(t, r) /\ Unstarted(t, r, w, k) /\ Standing(t, r, w) /\ Same(t, r, w, k)

\* What the client is still to be told ends with the status of the worker.
Tells(out) == \E i \in DOMAIN out : out[i] \in Status
EndsWith(out, x) ==
  \E i \in DOMAIN out : out[i] = x /\ \A j \in DOMAIN out : j > i => out[j] \notin Status
Telling(t, r, w, h) ==
  /\ ~Idle(r) => \A i \in DOMAIN t.out : t.out[i] # "thinking"
  /\ (Is(t, "spawn") \/ Idle(t)) => ~Tells(t.out)
  /\ (r.todo \in Unanswered \/ Is(r, "finally") \/ Idle(r)) => ~Tells(r.out)
  /\ ~Nears(t, "interrupted") =>
       /\ Tells(t.out) => EndsWith(t.out, w.status)
       /\ Tells(r.out) => EndsWith(r.out, "listening") /\ w.status = "listening"
       /\ (~Tells(t.out) /\ ~Tells(r.out)) => h \in {"none", w.status}
Knowing(t, r, w, h) == IF w = None THEN h = "none" ELSE Telling(t, r, w, h)

\* What a runner has to do for s, and who uses s through c alone.
Of(k, s) == IF ~Idle(k) /\ k.s = s THEN k ELSE NoTask
Alone(s, c) == via[s] = {c} /\ s \notin torn \cup raced
Matches(t, r, s, c) ==
  record[s] # None => /\ Fit(t, r, workers[s], record[s])
                      /\ link[c] = "open" => Knowing(t, r, workers[s], heard[c][s])
\* The key is about to be written for the first time.
Creates(t, r, s, c) ==
  (record[s] = None /\ Is(t, "write")) =>
    /\ workers[s] = None /\ heard[c][s] = "none"
    /\ Path(t.todo) /\ t.out = <<>> /\ r = NoTask
Fitting(s, c) ==
  LET t == Of(task[c], s)
      r == Of(reply[c], s)
  IN Matches(t, r, s, c) /\ Creates(t, r, s, c)

\* A reply is the one of its session, if one socket uses that.
Owned ==
  /\ \A c \in Socket : reply[c].todo \in Unanswered \cup Answered
  /\ \A c \in Socket : ~Idle(reply[c]) => reply[c].s \in Session /\ c \in via[reply[c].s]
  /\ \A s \in Session : current[s] # Nobody =>
       ~Idle(reply[current[s]]) /\ reply[current[s]].s = s
  /\ \A s \in Session, c \in Socket :
       (via[s] = {c} /\ ~Idle(reply[c]) /\ reply[c].s = s) => current[s] = c

\* The lists of the handlers are paths.
Paths == \A c \in Socket : Path(task[c].todo)

\* A session no socket has used is new, or as its creation left it.
Unused ==
  /\ heard \in [Socket -> [Session -> Status \cup {"none"}]]
  /\ \A s \in Session : via[s] = {} =>
       /\ workers[s] = None /\ record[s] \in {None, Fresh}
       /\ \A c \in Socket : heard[c][s] = "none"
  /\ \A s \in Session : s \notin issued => record[s] = None
  /\ \A c \in Socket : link[c] = "new" => \A s \in Session : c \notin via[s]

\* What a request does of the steps.
Asking == {"write", "enter", "fetch", "delete", "leave", "members", "read"}
Asked ==
  /\ \A h \in Request : \A i \in 1..Len(task[h].todo) : task[h].todo[i].do \in Asking
  /\ \A h \in Request : Is(task[h], "write") => via[task[h].s] = {}

Settling == \A s \in Session, c \in Socket : Alone(s, c) => Fitting(s, c)

SettleInv == Owned /\ Paths /\ Unused /\ Asked /\ Settling
-----------------------------------------------------------------------------
(* What is left of the list of a handler, and of a reply.                  *)

\* The fields of a step.
LEMMA StepFields ==
  /\ \A x : To(x).do = "to" /\ To(x).arg = x
  /\ \A x : Do(x).do = x /\ Do(x).arg = ""
  /\ \A x : Flush(x).do = "flush" /\ Flush(x).arg = x
  /\ \A x, y : Step(x, y).do = x /\ Step(x, y).arg = y
BY DEF To, Do, Flush, Step

\* Nothing follows what comes last.
LEMMA FinalIsLast ==
  ASSUME NEW x, NEW y, Follows(x, y) PROVE ~Final(x)
BY DEF Follows, Final, Untold

\* Without its first step a path is a path.
LEMMA PathRest ==
  ASSUME NEW q \in Seq(Steps), Path(q), q # <<>>
  PROVE  /\ Path(Tail(q)) /\ Tail(q) \in Seq(Steps)
         /\ Len(q) = 1 => Final(Head(q)) /\ Tail(q) = <<>>
         /\ Len(q) # 1 => Tail(q) # <<>> /\ Follows(Head(q), Head(Tail(q)))
<1> DEFINE n == Len(q)
<1> DEFINE p == Tail(q)
<1>1. n \in Nat /\ n > 0 /\ Head(q) = q[1]
  BY LenProperties, EmptySeq
<1>2. p \in Seq(Steps) /\ Len(p) = n - 1 /\ \A i \in 1..n - 1 : p[i] = q[i + 1]
  BY HeadTailProperties
<1>3. Final(q[n]) /\ \A i \in 1..n - 1 : Follows(q[i], q[i + 1])
  BY DEF Path
<1>4. ASSUME n = 1 PROVE p = <<>> /\ Final(Head(q))
  <2> HIDE DEF p, n
  <2>1. Len(p) = 0 /\ Final(q[1])
    BY <1>2, <1>3, <1>4
  <2> QED
    BY <1>1, <1>2, <2>1, EmptySeq
<1>5. ASSUME n # 1 PROVE p # <<>> /\ Head(p) = p[1] /\ p[1] = q[2]
  <2> HIDE DEF p, n
  <2>1. Len(p) # 0 /\ 1 \in 1..n - 1
    BY <1>1, <1>2, <1>5
  <2>2. p # <<>> /\ p[1] = q[2]
    BY <1>2, <2>1
  <2> QED
    BY <1>2, <2>2, HeadTailProperties
<1>6. n # 1 => Follows(Head(q), Head(p))
  <2>1. n # 1 => 1 \in 1..n - 1
    <3> HIDE DEF n
    <3> QED BY <1>1
  <2> HIDE DEF p, n
  <2> QED
    BY <1>1, <1>3, <1>5, <2>1
<1>7. Path(p)
  <2> SUFFICES ASSUME p # <<>>
               PROVE  /\ Final(p[Len(p)])
                      /\ \A i \in 1..Len(p) - 1 : Follows(p[i], p[i + 1])
    BY DEF Path
  <2>1. n > 1
    BY <1>1, <1>4
  <2> HIDE DEF p, n
  <2>2. p[n - 1] = q[n]
    <3>1. n - 1 \in 1..n - 1 /\ (n - 1) + 1 = n
      BY <1>1, <2>1
    <3> QED
      BY <1>2, <3>1
  <2>3. ASSUME NEW i \in 1..n - 2 PROVE Follows(p[i], p[i + 1])
    <3>1. i \in 1..n - 1 /\ i + 1 \in 1..n - 1 /\ i \in Nat
      BY <1>1, <2>3
    <3>2. p[i] = q[i + 1] /\ p[i + 1] = q[(i + 1) + 1]
      BY <1>2, <3>1
    <3> QED
      BY <1>3, <3>1, <3>2
  <2>4. Len(p) = n - 1 /\ Len(p) - 1 = n - 2
    BY <1>1, <1>2
  <2> QED
    BY <1>3, <2>2, <2>3, <2>4
<1> QED
  BY <1>2, <1>4, <1>5, <1>6, <1>7

\* The handler of a path goes on to what follows, or has done.
LEMMA DonePath ==
  ASSUME NEW k \in TaskType, ~Idle(k), Path(k.todo)
  PROVE  \/ Final(Head(k.todo)) /\ Done(k) = NoTask
         \/ /\ ~Final(Head(k.todo)) /\ ~Idle(Done(k)) /\ Path(Done(k).todo)
            /\ Done(k) = [k EXCEPT !.todo = Tail(k.todo), !.phase = "run", !.got = None]
            /\ Done(k).todo = Tail(k.todo) /\ Done(k).phase = "run" /\ Done(k).got = None
            /\ Done(k).out = k.out /\ Done(k).s = k.s
            /\ Follows(Head(k.todo), Head(Done(k).todo))
<1>1. k.todo \in Seq(Steps) /\ k.todo # <<>>
  BY TaskLists DEF Idle
<1>2. /\ Path(Tail(k.todo))
      /\ Len(k.todo) = 1 => Final(Head(k.todo)) /\ Tail(k.todo) = <<>>
      /\ Len(k.todo) # 1 => Tail(k.todo) # <<>> /\ Follows(Head(k.todo), Head(Tail(k.todo)))
  BY <1>1, PathRest
<1>3. CASE Len(k.todo) = 1
  BY <1>2, <1>3 DEF Done
<1>4. CASE Len(k.todo) # 1
  <2>1. Done(k) = [k EXCEPT !.todo = Tail(k.todo), !.phase = "run", !.got = None]
    BY <1>4 DEF Done
  <2>2. /\ Done(k).todo = Tail(k.todo) /\ Done(k).phase = "run" /\ Done(k).got = None
        /\ Done(k).out = k.out /\ Done(k).s = k.s
    BY <2>1 DEF TaskType
  <2> QED
    BY <1>2, <1>4, <2>1, <2>2, FinalIsLast DEF Idle
<1> QED
  BY <1>3, <1>4

\* While a reply runs its handler goes on yielding to it.
LEMMA DoneYields ==
  ASSUME NEW k \in TaskType, Yields(k), ~Idle(k), ~Is(k, "stop"), ~Is(k, "message")
  PROVE  Yields(Done(k)) /\ Beside(Head(k.todo))
<1>1. \A i \in 1..Len(k.todo) : Beside(k.todo[i])
  BY DEF Yields
<1>2. /\ Head(k.todo) = k.todo[1] /\ Len(k.todo) >= 1 /\ Len(k.todo) \in Nat
      /\ Len(Tail(k.todo)) = Len(k.todo) - 1
      /\ \A i \in 1..(Len(k.todo) - 1) : Tail(k.todo)[i] = k.todo[i + 1]
  BY TaskLists DEF Idle
<1>3. Beside(Head(k.todo))
  BY <1>1, <1>2
<1>4. CASE Len(k.todo) = 1
  BY <1>3, <1>4, NoTaskType DEF Done, Yields
<1>5. CASE Len(k.todo) # 1
  <2>1. Done(k).todo = Tail(k.todo)
    BY <1>5 DEF Done, TaskType
  <2>2. \A i \in 1..(Len(k.todo) - 1) : i + 1 \in 1..Len(k.todo)
    BY <1>2
  <2>3. \A i \in 1..Len(Tail(k.todo)) : Beside(Tail(k.todo)[i])
    BY <1>1, <1>2, <2>2
  <2> QED
    BY <1>3, <2>1, <2>3 DEF Yields
<1> QED
  BY <1>4, <1>5

\* The rest of a reply.
LEMMA ReplyRest ==
  ASSUME NEW q \in Unanswered \cup Answered, q # <<>>
  PROVE  /\ Tail(q) \in Unanswered \cup Answered
         /\ Head(q) \in {Flush("llm.delta"), Do("complete"), To("listening"), Flush(""),
                         Do("finally")}
         /\ q \in Unanswered <=> Head(q) \in {Flush("llm.delta"), Do("complete"), To("listening")}
         /\ Head(q) = Flush("llm.delta") => Len(q) # 1 /\ Head(Tail(q)) = Do("complete")
         /\ Head(q) = Do("complete") => Len(q) # 1 /\ Head(Tail(q)) = To("listening")
         /\ Head(q) = To("listening") => Len(q) # 1 /\ Head(Tail(q)) = Flush("")
         /\ Head(q) = Flush("") => Len(q) # 1 /\ Head(Tail(q)) = Do("finally")
         /\ Head(q) = Do("finally") => q = <<Do("finally")>>
<1> DEFINE F == Flush("llm.delta")
<1> DEFINE C == Do("complete")
<1> DEFINE T == To("listening")
<1> DEFINE G == Flush("")
<1> DEFINE Z == Do("finally")
<1>1. F # C /\ F # T /\ F # G /\ F # Z /\ C # T /\ C # G /\ C # Z /\ T # G /\ T # Z /\ G # Z
  BY DEF Flush, Do, To, Step
<1> DEFINE Fits5(p) ==
      /\ Tail(p) \in Unanswered \cup Answered /\ Head(p) \in {F, C, T, G, Z}
      /\ p \in Unanswered <=> Head(p) \in {F, C, T}
      /\ Head(p) = F => Len(p) # 1 /\ Head(Tail(p)) = C
      /\ Head(p) = C => Len(p) # 1 /\ Head(Tail(p)) = T
      /\ Head(p) = T => Len(p) # 1 /\ Head(Tail(p)) = G
      /\ Head(p) = G => Len(p) # 1 /\ Head(Tail(p)) = Z
      /\ Head(p) = Z => p = <<Z>>
<1>2. /\ Unanswered = {<<F, C, T, G, Z>>, <<C, T, G, Z>>, <<T, G, Z>>}
      /\ Answered = {<<G, Z>>, <<Z>>, <<>>}
  BY DEF Unanswered, Answered, Replying
<1> HIDE DEF F, C, T, G, Z
<1>3. ASSUME q = <<F, C, T, G, Z>> PROVE Fits5(q)
  <2>1. Head(q) = F /\ Tail(q) = <<C, T, G, Z>> /\ Len(q) = 5 /\ Head(Tail(q)) = C
    BY <1>3
  <2> QED BY <1>1, <1>2, <2>1, <1>3
<1>4. ASSUME q = <<C, T, G, Z>> PROVE Fits5(q)
  <2>1. Head(q) = C /\ Tail(q) = <<T, G, Z>> /\ Len(q) = 4 /\ Head(Tail(q)) = T
    BY <1>4
  <2> QED BY <1>1, <1>2, <2>1, <1>4
<1>5. ASSUME q = <<T, G, Z>> PROVE Fits5(q)
  <2>1. Head(q) = T /\ Tail(q) = <<G, Z>> /\ Len(q) = 3 /\ Head(Tail(q)) = G
    BY <1>5
  <2> QED BY <1>1, <1>2, <2>1, <1>5
<1>6. ASSUME q = <<G, Z>> PROVE Fits5(q)
  <2>1. Head(q) = G /\ Tail(q) = <<Z>> /\ Len(q) = 2 /\ Head(Tail(q)) = Z
    BY <1>6
  <2>2. q \notin Unanswered
    BY <1>1, <1>2, <1>6
  <2> QED BY <1>1, <1>2, <2>1, <2>2, <1>6
<1>7. ASSUME q = <<Z>> PROVE Fits5(q)
  <2>1. Head(q) = Z /\ Tail(q) = <<>> /\ Len(q) = 1
    BY <1>7
  <2>2. q \notin Unanswered
    BY <1>1, <1>2, <1>7
  <2> QED BY <1>1, <1>2, <2>1, <2>2, <1>7
<1>8. Fits5(q)
  <2> HIDE DEF Fits5
  <2> QED
    BY <1>2, <1>3, <1>4, <1>5, <1>6, <1>7
<1> QED
  BY <1>8 DEF F, C, T, G, Z

\* What the steps of a reply are.
LEMMA ReplyFields ==
  /\ Flush("llm.delta").do = "flush" /\ Flush("llm.delta").arg = "llm.delta"
  /\ Do("complete").do = "complete"
  /\ To("listening").do = "to" /\ To("listening").arg = "listening"
  /\ Flush("").do = "flush" /\ Flush("").arg = ""
  /\ Do("finally").do = "finally"
BY StepFields

\* The places of a reply.
Early(k) == Faces(k, "flush", "llm.delta") \/ Is(k, "complete") \/ Is(k, "to")
Late(k)  == Faces(k, "flush", "") \/ Is(k, "finally")
LEMMA ReplyPlaces ==
  ASSUME NEW k \in TaskType, ~Idle(k), k.todo \in Unanswered \cup Answered
  PROVE  /\ k.todo \in Unanswered <=> Early(k)
         /\ Early(k) \/ Late(k)
         /\ Is(k, "to") => Nears(k, "listening")
<1>1. k.todo # <<>>
  BY DEF Idle
<1>2. /\ Head(k.todo) \in {Flush("llm.delta"), Do("complete"), To("listening"), Flush(""),
                           Do("finally")}
      /\ k.todo \in Unanswered <=>
           Head(k.todo) \in {Flush("llm.delta"), Do("complete"), To("listening")}
  BY <1>1, ReplyRest
<1> QED
  BY <1>1, <1>2, ReplyFields DEF Early, Late, Nears, Faces, Is

\* A reply goes on to what follows, or has ended.
LEMMA ReplyDone ==
  ASSUME NEW k \in TaskType, ~Idle(k), k.todo \in Unanswered \cup Answered
  PROVE  /\ Done(k).todo \in Unanswered \cup Answered
         /\ Is(k, "finally") => Done(k) = NoTask
         /\ ~Is(k, "finally") =>
              /\ ~Idle(Done(k)) /\ Done(k).phase = "run" /\ Done(k).got = None
              /\ Done(k).out = k.out /\ Done(k).s = k.s
              /\ Done(k) = [k EXCEPT !.todo = Tail(k.todo), !.phase = "run", !.got = None]
         /\ Faces(k, "flush", "llm.delta") => Is(Done(k), "complete")
         /\ Is(k, "complete") => Nears(Done(k), "listening")
         /\ Is(k, "to") => Faces(Done(k), "flush", "")
         /\ Faces(k, "flush", "") => Is(Done(k), "finally")
<1> DEFINE q == k.todo
<1>1. q # <<>>
  BY DEF Idle
<1>2. /\ Tail(q) \in Unanswered \cup Answered
      /\ Head(q) \in {Flush("llm.delta"), Do("complete"), To("listening"), Flush(""),
                      Do("finally")}
      /\ Head(q) = Flush("llm.delta") => Len(q) # 1 /\ Head(Tail(q)) = Do("complete")
      /\ Head(q) = Do("complete") => Len(q) # 1 /\ Head(Tail(q)) = To("listening")
      /\ Head(q) = To("listening") => Len(q) # 1 /\ Head(Tail(q)) = Flush("")
      /\ Head(q) = Flush("") => Len(q) # 1 /\ Head(Tail(q)) = Do("finally")
      /\ Head(q) = Do("finally") => q = <<Do("finally")>>
  BY <1>1, ReplyRest
<1>3. Len(<<Do("finally")>>) = 1 /\ NoTask.todo \in Answered
  BY DEF NoTask, Answered
<1>4. /\ Len(q) = 1 => Done(k) = NoTask
      /\ Len(q) # 1 => Done(k) = [k EXCEPT !.todo = Tail(q), !.phase = "run", !.got = None]
  BY DEF Done
<1>5. Len(q) # 1 =>
        /\ Done(k).todo = Tail(q) /\ Done(k).phase = "run" /\ Done(k).got = None
        /\ Done(k).out = k.out /\ Done(k).s = k.s
  BY <1>4 DEF TaskType
<1>6. k.todo \in Seq(Steps) /\ Len(q) \in Nat /\ Len(Tail(q)) = Len(q) - 1 /\ Len(q) >= 1
  BY <1>1, TaskLists
<1> HIDE DEF q
<1>7. Len(q) # 1 => Tail(q) # <<>>
  <2>1. Len(q) # 1 => Len(Tail(q)) # 0
    BY <1>6
  <2>2. Len(<<>>) = 0
    OBVIOUS
  <2> QED
    BY <2>1, <2>2
<1>8. Head(q).do # "finally" => Len(q) # 1
  BY <1>2, ReplyFields
<1>9. Head(q).do = "finally" => Len(q) = 1
  BY <1>2, <1>3, ReplyFields
<1>10. Done(k).todo \in Unanswered \cup Answered
  BY <1>2, <1>3, <1>4, <1>5
<1>11. Is(k, "finally") => Done(k) = NoTask
  BY <1>4, <1>9 DEF Is, q
<1>12. ~Is(k, "finally") => Len(q) # 1
  BY <1>1, <1>8 DEF Is, q
<1>13. Len(q) # 1 => ~Idle(Done(k)) /\ \A d : Is(Done(k), d) <=> Head(Tail(q)).do = d
  BY <1>5, <1>7 DEF Is, Idle
<1>14. ASSUME NEW d, Is(k, d) PROVE Head(q).do = d
  BY <1>14 DEF Is, q
<1>15. Faces(k, "flush", "llm.delta") => Is(Done(k), "complete")
  BY <1>2, <1>13, <1>14, ReplyFields DEF Faces, q
<1>16. Is(k, "complete") => Nears(Done(k), "listening")
  BY <1>2, <1>5, <1>13, <1>14, ReplyFields DEF Faces, Nears
<1>17. Is(k, "to") => Faces(Done(k), "flush", "")
  BY <1>2, <1>5, <1>13, <1>14, ReplyFields DEF Faces
<1>18. Faces(k, "flush", "") => Is(Done(k), "finally")
  BY <1>2, <1>13, <1>14, ReplyFields DEF Faces, q
<1> QED
  BY <1>4, <1>5, <1>10, <1>11, <1>12, <1>13, <1>15, <1>16, <1>17, <1>18 DEF q

-----------------------------------------------------------------------------
(* The two copies of the status through the commands of an update.         *)

\* What the table of statuses allows, and what it does not.
LEMMA TableHas ==
  /\ CanTransition("created", "loading") /\ ~CanTransition("listening", "loading")
  /\ ~CanTransition("thinking", "loading")
  /\ CanTransition("loading", "ready") /\ ~CanTransition("listening", "ready")
  /\ ~CanTransition("thinking", "ready")
  /\ CanTransition("ready", "listening") /\ CanTransition("interrupted", "listening")
  /\ CanTransition("thinking", "listening") /\ ~CanTransition("listening", "listening")
  /\ CanTransition("listening", "interrupted") /\ CanTransition("thinking", "interrupted")
  /\ CanTransition("listening", "thinking")
BY DEF CanTransition, Allowed, Status

\* An update of a handler, and what the handler does after it.
LEMMA ToPlaces ==
  ASSUME NEW k \in TaskType, Path(k.todo), Is(k, "to")
  PROVE  /\ ~Idle(k) /\ ~Idle(Done(k)) /\ Path(Done(k).todo) /\ Done(k).phase = "run"
         /\ Done(k).got = None /\ Done(k).out = k.out /\ Done(k).s = k.s
         /\ \/ Nears(k, "loading") /\ Nears(Done(k), "ready")
            \/ Nears(k, "ready") /\ Nears(Done(k), "listening")
            \/ Nears(k, "interrupted") /\ Nears(Done(k), "listening")
            \/ Nears(k, "thinking") /\ Faces(Done(k), "flush", "")
            \/ /\ Nears(k, "listening")
               /\ \/ Is(Done(k), "begin") \/ Is(Done(k), "fetch")
                  \/ Is(Done(k), "flush") /\ Head(Done(k).todo).arg \in Untold
<1>1. ~Idle(k) /\ Head(k.todo).do = "to" /\ ~Final(Head(k.todo))
  BY DEF Is, Idle, Final
<1>2. /\ ~Idle(Done(k)) /\ Path(Done(k).todo) /\ Done(k).phase = "run"
      /\ Done(k).got = None /\ Done(k).out = k.out /\ Done(k).s = k.s
      /\ Follows(Head(k.todo), Head(Done(k).todo))
  BY <1>1, DonePath
<1> QED
  BY <1>1, <1>2 DEF Follows, Nears, Faces, Is, Idle

\* A reply that has still to answer runs.
LEMMA UnansweredRuns ==
  ASSUME NEW k, k.todo \in Unanswered PROVE ~Idle(k)
<1>1. ASSUME NEW a, NEW b, NEW c PROVE <<a, b, c>> # <<>>
  OBVIOUS
<1>2. ASSUME NEW a, NEW b, NEW c, NEW d PROVE <<a, b, c, d>> # <<>>
  OBVIOUS
<1>3. ASSUME NEW a, NEW b, NEW c, NEW d, NEW e PROVE <<a, b, c, d, e>> # <<>>
  OBVIOUS
<1> QED
  BY <1>1, <1>2, <1>3 DEF Unanswered, Replying, Idle

\* A worker whose handler or reply updates it is made.
LEMMA UpdatesMade ==
  ASSUME NEW t, NEW r, NEW w, NEW k, Unstarted(t, r, w, k), Is(t, "to") \/ ~Idle(r)
  PROVE  w # None
BY DEF Unstarted, Is, Idle

\* The table says no: the handler goes on.
LEMMA HandlerStays ==
  ASSUME NEW t \in TaskType, NEW r \in TaskType, NEW w \in State, NEW k \in State,
         Fit(t, r, w, k), Is(t, "to"), t.phase = "run",
         ~CanTransition(w.status, Head(t.todo).arg)
  PROVE  /\ Fit(Done(t), r, w, k)
         /\ \A h : Knowing(t, r, w, h) => Knowing(Done(t), r, w, h)
<1> DEFINE l == Done(t)
<1>1. w # None /\ Path(t.todo)
  BY UpdatesMade DEF Fit, Shapes
<1>2. /\ ~Idle(t) /\ ~Idle(l) /\ Path(l.todo) /\ l.phase = "run"
      /\ l.got = None /\ l.out = t.out /\ l.s = t.s
      /\ \/ Nears(t, "loading") /\ Nears(l, "ready")
         \/ Nears(t, "ready") /\ Nears(l, "listening")
         \/ Nears(t, "interrupted") /\ Nears(l, "listening")
         \/ Nears(t, "thinking") /\ Faces(l, "flush", "")
         \/ /\ Nears(t, "listening")
            /\ \/ Is(l, "begin") \/ Is(l, "fetch")
               \/ Is(l, "flush") /\ Head(l.todo).arg \in Untold
  BY <1>1, ToPlaces
<1>3. ~Idle(r) => Yields(l) /\ (Nears(t, "loading") \/ Nears(t, "ready") \/ Nears(t, "listening"))
  <2> SUFFICES ASSUME ~Idle(r) PROVE Yields(l) /\ (Nears(t, "loading") \/ Nears(t, "ready") \/ Nears(t, "listening"))
    OBVIOUS
  <2>1. Yields(l) /\ Beside(Head(t.todo))
    BY <1>2, DoneYields DEF Fit, Shapes, Is
  <2> QED
    BY <2>1 DEF Beside, Is, Nears, Faces
<1> HIDE DEF l
<1>4. /\ w.status = "listening" \/ r.todo \in Unanswered
      /\ ~Nears(t, "interrupted") /\ ~Nears(t, "thinking")
  <2>1. CASE r.todo \in Unanswered
    <3>1. ~Idle(r)
      BY <2>1, UnansweredRuns
    <3> QED
      BY <1>3, <2>1, <3>1 DEF Nears, Faces, Is
  <2>2. CASE r.todo \notin Unanswered
    <3>1. Expected(t, w.status)
      BY <1>1, <2>2 DEF Fit, Standing
    <3> QED
      BY <1>2, <3>1, TableHas DEF Expected, Nears, Faces, Is
  <2> QED
    BY <2>1, <2>2
<1>5. Shapes(l, r)
  BY <1>2, <1>3 DEF Fit, Shapes
<1>6. Unstarted(l, r, w, k)
  BY <1>1, <1>2 DEF Fit, Unstarted, Nears, Faces, Is
<1>7. Standing(l, r, w)
  BY <1>2, <1>4 DEF Fit, Standing, Expected, Nears, Faces, Is, Untold
<1>8. Same(l, r, w, k)
  BY <1>2, <1>4 DEF Fit, Same, Copies, Sets, Nears, Faces, Is
<1>9. ASSUME NEW h, Knowing(t, r, w, h) PROVE Knowing(l, r, w, h)
  BY <1>1, <1>2, <1>4, <1>9 DEF Knowing, Telling, Idle, Is, Nears, Faces
<1> QED
  BY <1>5, <1>6, <1>7, <1>8, <1>9 DEF Fit, l

\* A phase later the list is the same.
LEMMA SamePlace ==
  ASSUME NEW k, NEW l, l.todo = k.todo
  PROVE  /\ Idle(l) <=> Idle(k)
         /\ \A d : Is(l, d) <=> Is(k, d)
         /\ \A d, a : Faces(l, d, a) <=> Faces(k, d, a)
         /\ \A x : Nears(l, x) <=> Nears(k, x)
         /\ Yields(l) <=> Yields(k)
BY DEF Idle, Is, Faces, Nears, Yields

\* While a reply runs a handler that has something to update is here.
LEMMA YieldsTo ==
  ASSUME NEW t \in TaskType, Yields(t), Is(t, "to")
  PROVE  Nears(t, "loading") \/ Nears(t, "ready") \/ Nears(t, "listening")
<1>1. ~Idle(t) /\ ~Is(t, "stop") /\ ~Is(t, "message")
  BY DEF Is, Idle
<1>2. Beside(Head(t.todo))
  BY <1>1, DoneYields
<1> QED
  BY <1>2 DEF Beside, Is, Nears, Faces

\* The handler has read the key.
LEMMA HandlerCopies ==
  ASSUME NEW t \in TaskType, NEW r \in TaskType, NEW w \in State, NEW k \in State,
         Fit(t, r, w, k), Is(t, "to"), t.phase = "run",
         CanTransition(w.status, Head(t.todo).arg),
         NEW l, l.todo = t.todo, l.phase = "got", l.out = t.out,
         l.got.status = Head(t.todo).arg, l.got.active = k.active
  PROVE  /\ Fit(l, r, w, k)
         /\ \A h : Knowing(t, r, w, h) => Knowing(l, r, w, h)
<1>1. w # None /\ Path(t.todo) /\ ~Idle(t)
  BY UpdatesMade DEF Fit, Shapes, Is, Idle
<1>2. l.todo = t.todo /\ l.phase = "got" /\ l.out = t.out
      /\ l.got.status = Head(t.todo).arg /\ l.got.active = k.active
  OBVIOUS
<1>3. ~Idle(r) => Nears(t, "listening")
  <2> SUFFICES ASSUME ~Idle(r), ~Nears(t, "listening") PROVE FALSE
    OBVIOUS
  <2>1. Yields(t) /\ w.status \in {"thinking", "listening"}
    BY <1>1 DEF Fit, Shapes, Standing
  <2>2. Nears(t, "loading") \/ Nears(t, "ready")
    BY <2>1, YieldsTo
  <2> QED
    BY <2>1, <2>2, TableHas DEF Nears, Faces
<1>4. Shapes(l, r)
  BY <1>2, <1>3, SamePlace DEF Fit, Shapes, Nears, Faces
<1>5. Unstarted(l, r, w, k)
  BY <1>1, <1>2, SamePlace DEF Fit, Unstarted, Is
<1>6. Standing(l, r, w)
  <2>1. ASSUME Expected(t, w.status) PROVE Expected(l, w.status)
    BY <1>2, <2>1 DEF Expected, Nears, Faces, Is
  <2> QED
    BY <2>1 DEF Fit, Standing
<1>7. Same(l, r, w, k)
  BY <1>1, <1>2 DEF Fit, Same, Copies, Sets, Nears, Faces, Is
<1>8. ASSUME NEW h, Knowing(t, r, w, h) PROVE Knowing(l, r, w, h)
  BY <1>1, <1>2, <1>8 DEF Knowing, Telling, Idle, Is, Nears, Faces
<1> QED
  BY <1>4, <1>5, <1>6, <1>7, <1>8 DEF Fit

\* The key says no, because the reply has written it and not yet told the worker:
\* an error.
LEMMA ErrorPath ==
  ASSUME NEW l, l.todo = <<Flush("error")>>
  PROVE  /\ Path(l.todo) /\ Yields(l) /\ ~Idle(l) /\ Is(l, "flush")
         /\ Head(l.todo).arg = "error"
<1>1. Flush("error").do = "flush" /\ Flush("error").arg = "error"
  BY StepFields
<1>2. Final(Flush("error")) /\ Beside(Flush("error"))
  BY <1>1 DEF Final, Beside, Untold
<1>3. /\ Len(l.todo) = 1 /\ l.todo[1] = Flush("error") /\ l.todo # <<>>
      /\ Head(l.todo) = Flush("error")
  OBVIOUS
<1>4. Path(l.todo)
  BY <1>2, <1>3 DEF Path
<1>5. Yields(l)
  BY <1>2, <1>3 DEF Yields
<1> QED
  BY <1>1, <1>3, <1>4, <1>5 DEF Idle, Is

\* The table refuses the status that was read: the handler goes on with an error.
LEMMA HandlerFails ==
  ASSUME NEW t \in TaskType, NEW r \in TaskType, NEW w \in State, NEW k \in State,
         Fit(t, r, w, k), Is(t, "to"), t.phase = "run",
         CanTransition(w.status, Head(t.todo).arg), ~CanTransition(k.status, Head(t.todo).arg),
         NEW l, l.todo = <<Flush("error")>>, l.phase = "run", l.out = <<>>
  PROVE  /\ Fit(l, r, w, k)
         /\ \A h : Knowing(t, r, w, h) => Knowing(l, r, w, h)
<1>1. w # None /\ Path(t.todo) /\ ~Idle(t)
  BY UpdatesMade DEF Fit, Shapes, Is, Idle
<1>2. /\ l.todo = <<Flush("error")>> /\ l.phase = "run" /\ l.out = <<>>
      /\ Path(l.todo) /\ Yields(l) /\ ~Idle(l) /\ Is(l, "flush") /\ Head(l.todo).arg = "error"
  <2>1. l.todo = <<Flush("error")>> /\ l.phase = "run" /\ l.out = <<>>
    OBVIOUS
  <2> QED
    BY <2>1, ErrorPath
<1>3. Sets(r)
  <2>1. \/ k.status = w.status \/ Sets(t) \/ Sets(r)
        \/ Nears(t, "interrupted") /\ k.status = "listening"
    BY <1>1 DEF Fit, Same
  <2> QED
    BY <2>1, TableHas DEF Sets, Nears, Faces
<1>4. ~Idle(r) /\ r.todo \in Unanswered /\ ~Is(r, "finally")
  <2>1. ~Idle(r) /\ r.todo \in Unanswered \cup Answered
    BY <1>3 DEF Sets, Is, Idle, Fit, Shapes
  <2> QED
    BY <1>3, <2>1, ReplyPlaces DEF Early, Sets, Is
<1>5. w.status = "thinking" /\ Nears(t, "listening")
  <2>1. Yields(t) /\ w.status \in {"thinking", "listening"}
    BY <1>1, <1>4 DEF Fit, Shapes, Standing
  <2>2. Nears(t, "loading") \/ Nears(t, "ready") \/ Nears(t, "listening")
    BY <2>1, YieldsTo
  <2> QED
    BY <2>1, <2>2, TableHas DEF Nears, Faces
<1>6. Shapes(l, r)
  BY <1>2 DEF Fit, Shapes, Nears, Faces, Is
<1>7. Unstarted(l, r, w, k)
  BY <1>1, <1>2 DEF Fit, Unstarted, Is
<1>8. Standing(l, r, w)
  BY <1>4 DEF Fit, Standing
<1>9. Same(l, r, w, k)
  <2>1. ~Is(l, "to") /\ ~Nears(t, "thinking")
    BY <1>2, <1>5 DEF Is, Nears, Faces
  <2> QED
    BY <1>3, <2>1 DEF Fit, Same, Copies, Sets
<1>10. ASSUME NEW h, Knowing(t, r, w, h) PROVE Knowing(l, r, w, h)
  <2>1. ~Tells(l.out) /\ \A i \in DOMAIN l.out : l.out[i] # "thinking"
    BY <1>2 DEF Tells
  <2>2. Telling(t, r, w, h)
    BY <1>1, <1>10 DEF Knowing
  <2>3. ~Tells(t.out)
    BY <1>4, <1>5, <2>2 DEF Telling, EndsWith, Nears, Faces
  <2>4. ~Tells(r.out) /\ h \in {"none", w.status}
    BY <1>4, <1>5, <2>2, <2>3 DEF Telling, Nears, Faces
  <2> QED
    BY <1>1, <1>2, <2>1, <2>4 DEF Knowing, Telling
<1> QED
  BY <1>6, <1>7, <1>8, <1>9, <1>10 DEF Fit

\* The handler writes the key.
LEMMA HandlerWrites ==
  ASSUME NEW t \in TaskType, NEW r \in TaskType, NEW w \in State, NEW k \in State,
         Fit(t, r, w, k), Is(t, "to"), t.phase = "got",
         NEW l, l.todo = t.todo, l.phase = "set", l.out = t.out, l.got = t.got
  PROVE  /\ Fit(l, r, w, t.got)
         /\ \A h : Knowing(t, r, w, h) => Knowing(l, r, w, h)
<1>1. w # None /\ ~Idle(t)
  BY UpdatesMade DEF Fit, Is, Idle
<1>2. l.todo = t.todo /\ l.phase = "set" /\ l.out = t.out /\ l.got = t.got
  OBVIOUS
<1>3. ~Idle(r) => Nears(t, "listening")
  BY YieldsTo DEF Fit, Shapes, Nears, Faces
<1>4. Is(r, "to") => Nears(r, "listening")
  BY ReplyPlaces DEF Fit, Shapes, Is, Idle
<1>5. Shapes(l, r)
  BY <1>2, <1>3, SamePlace DEF Fit, Shapes, Nears, Faces
<1>6. Unstarted(l, r, w, t.got)
  BY <1>1, <1>2, SamePlace DEF Fit, Unstarted, Is
<1>7. Standing(l, r, w)
  <2>1. ASSUME Expected(t, w.status) PROVE Expected(l, w.status)
    BY <1>2, <2>1 DEF Expected, Nears, Faces, Is
  <2> QED
    BY <2>1 DEF Fit, Standing
<1>8. Same(l, r, w, t.got)
  <2>1. t.got.status = Head(t.todo).arg /\ ~t.got.active
    BY DEF Fit, Same, Copies
  <2>2. Sets(r) => t.got.status = Head(r.todo).arg
    BY <1>3, <1>4, <2>1 DEF Sets, Nears, Faces, Is, Idle
  <2>3. Sets(l)
    BY <1>2 DEF Sets, Is
  <2> QED
    BY <1>2, <2>1, <2>2, <2>3 DEF Fit, Same, Copies, Sets, Nears, Faces, Is
<1>9. ASSUME NEW h, Knowing(t, r, w, h) PROVE Knowing(l, r, w, h)
  BY <1>1, <1>2, <1>9 DEF Knowing, Telling, Idle, Is, Nears, Faces
<1> QED
  BY <1>5, <1>6, <1>7, <1>8, <1>9 DEF Fit

\* The new status is told after what was to be told.
LEMMA ToldLast ==
  ASSUME NEW T, NEW out \in Seq(T), NEW x
  PROVE  /\ x \in Status => Tells(Append(out, x)) /\ EndsWith(Append(out, x), x)
         /\ x \notin Status =>
              /\ Tells(Append(out, x)) <=> Tells(out)
              /\ \A y \in Status : EndsWith(out, y) => EndsWith(Append(out, x), y)
         /\ \A y : (\A i \in DOMAIN out : out[i] # y) /\ x # y
              => \A i \in DOMAIN Append(out, x) : Append(out, x)[i] # y
<1> DEFINE n == Len(out)
           new == Append(out, x)
<1>1. /\ n \in Nat /\ Len(new) = n + 1 /\ new[n + 1] = x
      /\ \A i \in 1..n : new[i] = out[i]
      /\ DOMAIN out = 1..n /\ DOMAIN new = 1..(n + 1)
  OBVIOUS
<1> HIDE DEF n, new
<1>2. ASSUME x \in Status PROVE Tells(new) /\ EndsWith(new, x)
  <2>1. n + 1 \in DOMAIN new /\ \A j \in DOMAIN new : ~(j > n + 1)
    BY <1>1
  <2> QED
    BY <1>1, <1>2, <2>1 DEF Tells, EndsWith
<1>3. \A i \in DOMAIN new : i = n + 1 \/ (i \in DOMAIN out /\ new[i] = out[i])
  BY <1>1
<1>4. \A i \in DOMAIN out : i \in DOMAIN new /\ new[i] = out[i]
  BY <1>1
<1>5. ASSUME x \notin Status, NEW y \in Status, EndsWith(out, y) PROVE EndsWith(new, y)
  BY <1>1, <1>3, <1>4, <1>5 DEF EndsWith
<1>6. x \notin Status => (Tells(new) <=> Tells(out))
  BY <1>1, <1>3, <1>4 DEF Tells
<1>7. ASSUME NEW y, \A i \in DOMAIN out : out[i] # y, x # y
      PROVE  \A i \in DOMAIN new : new[i] # y
  BY <1>1, <1>3, <1>7
<1> QED
  BY <1>2, <1>5, <1>6, <1>7 DEF new

\* The copy becomes the state of the worker.
LEMMA HandlerMoves ==
  ASSUME NEW t \in TaskType, NEW r \in TaskType, NEW w \in State, NEW k \in State,
         Fit(t, r, w, k), Is(t, "to"), t.phase = "set",
         NEW l, l.todo = Done(t).todo, l.phase = "run", l.got = None,
         l.out = Append(t.out, t.got.status)
  PROVE  /\ Fit(l, r, t.got, k)
         /\ \A h : Knowing(t, r, w, h) => Knowing(l, r, t.got, h)
<1> DEFINE x == t.got.status
<1>1. w # None /\ Path(t.todo)
  BY UpdatesMade DEF Fit, Shapes
<1>2. /\ ~Idle(t) /\ ~Idle(Done(t)) /\ Path(Done(t).todo) /\ Done(t).phase = "run"
      /\ Done(t).out = t.out /\ Done(t).got = None
      /\ \/ Nears(t, "loading") /\ Nears(Done(t), "ready")
         \/ Nears(t, "ready") /\ Nears(Done(t), "listening")
         \/ Nears(t, "interrupted") /\ Nears(Done(t), "listening")
         \/ Nears(t, "thinking") /\ Faces(Done(t), "flush", "")
         \/ /\ Nears(t, "listening")
            /\ \/ Is(Done(t), "begin") \/ Is(Done(t), "fetch")
               \/ Is(Done(t), "flush") /\ Head(Done(t).todo).arg \in Untold
  BY <1>1, ToPlaces
<1>3. Done(t) \in TaskType /\ t.out \in Seq(Events \cup Messages)
  BY <1>2, DoneType DEF TaskType
<1>4. /\ l.todo = Done(t).todo /\ l.phase = "run" /\ l.out = Append(t.out, x) /\ l.got = None
  OBVIOUS
<1>5. /\ ~Idle(l) /\ Path(l.todo)
      /\ \/ Nears(t, "loading") /\ Nears(l, "ready")
         \/ Nears(t, "ready") /\ Nears(l, "listening")
         \/ Nears(t, "interrupted") /\ Nears(l, "listening")
         \/ Nears(t, "thinking") /\ Faces(l, "flush", "")
         \/ /\ Nears(t, "listening")
            /\ \/ Is(l, "begin") \/ Is(l, "fetch")
               \/ Is(l, "flush") /\ Head(l.todo).arg \in Untold
  <2>1. Head(l.todo) = Head(Done(t).todo)
    BY <1>4
  <2> QED
    BY <1>2, <1>4, <2>1, SamePlace
<1>6. ~Idle(r) => Yields(l) /\ Nears(t, "listening")
  <2> SUFFICES ASSUME ~Idle(r) PROVE Yields(l) /\ Nears(t, "listening")
    OBVIOUS
  <2>1. Yields(t)
    BY DEF Fit, Shapes
  <2>2. Nears(t, "listening")
    BY <2>1, YieldsTo DEF Fit, Shapes
  <2>3. Yields(Done(t))
    BY <1>2, <2>1, DoneYields DEF Is
  <2> QED
    BY <1>4, <2>2, <2>3, SamePlace
<1>7. x = Head(t.todo).arg /\ ~t.got.active /\ k.status = x
  BY DEF Fit, Same, Copies, Sets
<1>8. /\ x \in {"loading", "ready", "listening", "interrupted", "thinking"}
      /\ Head(t.todo).arg = "listening" <=> Nears(t, "listening")
  BY <1>2, <1>7 DEF Nears, Faces, Is
<1>9. t.got # None
  BY <1>8 DEF None
<1> HIDE DEF x
<1>10. Shapes(l, r)
  BY <1>4, <1>5, <1>6 DEF Fit, Shapes
<1>11. Unstarted(l, r, t.got, k)
  BY <1>5, <1>4, <1>9 DEF Unstarted, Nears, Faces, Is
<1>12. Standing(l, r, t.got)
  <2>1. ~Idle(r) => x = "listening"
    BY <1>6, <1>7, <1>8
  <2>2. Expected(l, x)
    BY <1>4, <1>5, <1>7 DEF Expected, Nears, Faces, Is, Untold
  <2> QED
    BY <2>1, <2>2 DEF Standing, x
<1>13. Same(l, r, t.got, k)
  <2>1. ~Copies(l) /\ ~Sets(l)
    BY <1>4 DEF Copies, Sets
  <2>2. \A y \in {r} : Copies(y) => y.got.status = Head(y.todo).arg /\ ~y.got.active
    BY DEF Fit, Same
  <2>3. (Sets(r) => k.status = Head(r.todo).arg) /\ ~k.active
    BY DEF Fit, Same
  <2> QED
    BY <1>7, <2>1, <2>2, <2>3 DEF Same, x
<1>14. ASSUME NEW h, Knowing(t, r, w, h) PROVE Knowing(l, r, t.got, h)
  <2>1. Telling(t, r, w, h)
    BY <1>1, <1>14 DEF Knowing
  <2>2. x \in Status /\ Tells(l.out) /\ EndsWith(l.out, x)
    <3>1. x \in Status
      BY <1>8 DEF Status
    <3>2. Tells(Append(t.out, x)) /\ EndsWith(Append(t.out, x), x)
      BY <1>3, <3>1, ToldLast
    <3> QED
      BY <1>4, <3>1, <3>2
  <2>3. ~Idle(r) => \A i \in DOMAIN l.out : l.out[i] # "thinking"
    <3>1. ~Idle(r) => \A i \in DOMAIN t.out : t.out[i] # "thinking"
      BY <2>1 DEF Telling
    <3>2. ~Idle(r) => x # "thinking"
      BY <1>6, <1>7, <1>8
    <3> QED
      BY <1>3, <1>4, <3>1, <3>2, ToldLast
  <2>4. ~Is(l, "spawn") /\ ~Idle(l)
    BY <1>5 DEF Nears, Faces, Is
  <2>5. Tells(r.out) => EndsWith(r.out, "listening") /\ x = "listening"
    <3> SUFFICES ASSUME Tells(r.out) PROVE EndsWith(r.out, "listening") /\ x = "listening"
      OBVIOUS
    <3>1. ~Idle(r)
      BY <2>1 DEF Telling
    <3>2. Nears(t, "listening") /\ x = "listening"
      BY <1>6, <1>7, <1>8, <3>1
    <3> QED
      BY <2>1, <3>2 DEF Telling, Nears, Faces
  <2>6. (r.todo \in Unanswered \/ Is(r, "finally") \/ Idle(r)) => ~Tells(r.out)
    BY <2>1 DEF Telling
  <2>7. Telling(l, r, t.got, h)
    BY <2>2, <2>3, <2>4, <2>5, <2>6 DEF Telling, x
  <2> QED
    BY <1>9, <2>7 DEF Knowing
<1> QED
  BY <1>10, <1>11, <1>12, <1>13, <1>14 DEF Fit

\* While a reply runs the handler has no part in the status but to say that the
\* session listens.
LEMMA ReplyHasIt ==
  ASSUME NEW t \in TaskType, NEW r \in TaskType, NEW w \in State, NEW k \in State,
         Fit(t, r, w, k), ~Idle(r)
  PROVE  /\ w # None /\ Yields(t) /\ w.status \in {"thinking", "listening"}
         /\ ~Nears(t, "interrupted") /\ ~Nears(t, "thinking") /\ ~Faces(t, "flush", "")
         /\ ~Is(t, "spawn") /\ ~Is(t, "finally")
         /\ Expected(t, "listening")
         /\ Copies(t) => Nears(t, "listening")
         /\ r.todo \in Unanswered <=> Early(r)
<1>1. w # None
  BY UpdatesMade DEF Fit
<1>2. Yields(t) /\ w.status \in {"thinking", "listening"}
  BY <1>1 DEF Fit, Shapes, Standing
<1>3. Is(t, "to") => Nears(t, "loading") \/ Nears(t, "ready") \/ Nears(t, "listening")
  BY <1>2, YieldsTo
<1>4. \/ Idle(t) \/ Is(t, "stop") \/ Is(t, "message")
      \/ ~Idle(t) /\ Beside(Head(t.todo))
  BY <1>2, DoneYields
<1>5. ~Faces(t, "flush", "") /\ ~Is(t, "spawn") /\ ~Is(t, "finally")
  BY <1>4 DEF Beside, Faces, Is, Idle, Untold
<1>6. ~Nears(t, "interrupted") /\ ~Nears(t, "thinking")
  BY <1>3 DEF Nears, Faces
<1>7. Expected(t, "listening")
  BY <1>5, <1>6 DEF Expected
<1>8. Copies(t) => Nears(t, "listening")
  BY <1>3 DEF Copies, Fit, Shapes
<1>9. r.todo \in Unanswered <=> Early(r)
  BY ReplyPlaces DEF Fit, Shapes
<1> QED
  BY <1>1, <1>2, <1>5, <1>6, <1>7, <1>8, <1>9

\* The update of a reply.
LEMMA ReplyUpdates ==
  ASSUME NEW t \in TaskType, NEW r \in TaskType, NEW w \in State, NEW k \in State,
         Fit(t, r, w, k), Is(r, "to")
  PROVE  /\ ~Idle(r) /\ r.todo \in Unanswered /\ Head(r.todo).arg = "listening"
         /\ ~Idle(Done(r)) /\ Done(r).phase = "run" /\ Done(r).got = None
         /\ Done(r).out = r.out /\ Done(r).s = r.s
         /\ Done(r).todo \in Unanswered \cup Answered /\ Done(r).todo \notin Unanswered
         /\ Faces(Done(r), "flush", "")
<1>1. ~Idle(r) /\ r.todo \in Unanswered \cup Answered /\ ~Is(r, "finally")
  BY DEF Is, Idle, Fit, Shapes
<1>2. r.todo \in Unanswered /\ Head(r.todo).arg = "listening"
  BY <1>1, ReplyPlaces DEF Early, Nears, Faces
<1>3. /\ ~Idle(Done(r)) /\ Done(r).phase = "run" /\ Done(r).got = None
      /\ Done(r).out = r.out /\ Done(r).s = r.s
      /\ Done(r).todo \in Unanswered \cup Answered
      /\ Faces(Done(r), "flush", "")
  BY <1>1, ReplyDone
<1>4. Done(r) \in TaskType
  BY <1>1, DoneType
<1>5. Done(r).todo \notin Unanswered
  BY <1>3, <1>4, ReplyPlaces DEF Early, Faces, Is
<1> QED
  BY <1>1, <1>2, <1>3, <1>5

\* A reply that has told what it had to do with the status leaves it as it is.
LEMMA ReplyPasses ==
  ASSUME NEW t \in TaskType, NEW r \in TaskType, NEW w \in State, NEW k \in State,
         Fit(t, r, w, k), ~Idle(r), NEW l, l.todo \in Unanswered \cup Answered,
         l.todo \notin Unanswered, l.phase = "run", Is(l, "flush") \/ Is(l, "finally"),
         w.status = "listening" \/ Sets(t) \/ r.todo \notin Unanswered,
         ~Sets(r) \/ Sets(t)
  PROVE  Fit(t, l, w, k)
<1>1. /\ w # None /\ Yields(t) /\ w.status \in {"thinking", "listening"}
      /\ Expected(t, "listening") /\ (Copies(t) => Nears(t, "listening"))
  BY ReplyHasIt
<1>2. ~Idle(l) /\ ~Is(l, "to")
  BY DEF Is, Idle
<1>3. Shapes(t, l)
  BY <1>2 DEF Fit, Shapes
<1>4. Unstarted(t, l, w, k)
  BY <1>1 DEF Fit, Unstarted
<1>5. Expected(t, w.status)
  <2>1. CASE w.status = "listening"
    BY <1>1, <2>1
  <2>2. CASE r.todo \notin Unanswered
    BY <1>1, <2>2 DEF Fit, Standing
  <2>3. CASE Sets(t) /\ w.status = "thinking"
    BY <1>1, <2>3 DEF Expected, Sets, Copies, Nears, Faces, Is
  <2> QED
    BY <1>1, <2>1, <2>2, <2>3
<1>6. Standing(t, l, w)
  BY <1>1, <1>5 DEF Standing
<1>7. Same(t, l, w, k)
  BY <1>2 DEF Fit, Same, Copies, Sets
<1> QED
  BY <1>3, <1>4, <1>6, <1>7 DEF Fit

\* The table says no: the reply goes on.
LEMMA ReplyStays ==
  ASSUME NEW t \in TaskType, NEW r \in TaskType, NEW w \in State, NEW k \in State,
         Fit(t, r, w, k), Is(r, "to"), r.phase = "run",
         ~CanTransition(w.status, Head(r.todo).arg)
  PROVE  /\ Fit(t, Done(r), w, k)
         /\ \A h : Knowing(t, r, w, h) => Knowing(t, Done(r), w, h)
<1>1. /\ ~Idle(r) /\ r.todo \in Unanswered /\ Head(r.todo).arg = "listening"
      /\ ~Idle(Done(r)) /\ Done(r).phase = "run" /\ Done(r).out = r.out
      /\ Done(r).todo \in Unanswered \cup Answered /\ Done(r).todo \notin Unanswered
      /\ Faces(Done(r), "flush", "")
  BY ReplyUpdates
<1>2. w # None /\ w.status \in {"thinking", "listening"}
  BY <1>1, ReplyHasIt
<1>3. w.status = "listening"
  BY <1>1, <1>2, TableHas
<1>4. Fit(t, Done(r), w, k)
  BY <1>1, <1>3, ReplyPasses DEF Sets, Faces
<1>5. ASSUME NEW h, Knowing(t, r, w, h) PROVE Knowing(t, Done(r), w, h)
  BY <1>1, <1>2, <1>5 DEF Knowing, Telling
<1> QED
  BY <1>4, <1>5

\* A reply that ends with an error has told nothing.
LEMMA FinallyIs ==
  ASSUME NEW s
  PROVE  LET l == Task(s, <<Do("finally")>>) IN
         /\ l.todo = <<Do("finally")>> /\ l.phase = "run" /\ l.out = <<>> /\ l.s = s
         /\ Is(l, "finally") /\ ~Idle(l)
         /\ l.todo \in Unanswered \cup Answered /\ l.todo \notin Unanswered
<1> DEFINE l == Task(s, <<Do("finally")>>)
<1>1. l.todo = <<Do("finally")>> /\ l.phase = "run" /\ l.out = <<>> /\ l.s = s
  BY DEF Task, NoTask
<1>2. Is(l, "finally") /\ ~Idle(l)
  <2>1. Head(l.todo) = Do("finally") /\ l.todo # <<>>
    BY <1>1
  <2> QED
    BY <2>1, ReplyFields DEF Is, Idle
<1>3. l.todo \in Answered
  BY <1>1 DEF Answered
<1>4. \A q \in Unanswered : Len(q) # 1
  <2>1. ASSUME NEW a, NEW b, NEW c PROVE Len(<<a, b, c>>) # 1
    OBVIOUS
  <2>2. ASSUME NEW a, NEW b, NEW c, NEW d PROVE Len(<<a, b, c, d>>) # 1
    OBVIOUS
  <2>3. ASSUME NEW a, NEW b, NEW c, NEW d, NEW e PROVE Len(<<a, b, c, d, e>>) # 1
    OBVIOUS
  <2> QED
    BY <2>1, <2>2, <2>3 DEF Unanswered, Replying
<1>5. l.todo \notin Unanswered
  BY <1>1, <1>4
<1> QED
  BY <1>1, <1>2, <1>3, <1>5

\* So does a reply.
LEMMA ReplyFails ==
  ASSUME NEW t \in TaskType, NEW r \in TaskType, NEW w \in State, NEW k \in State,
         Fit(t, r, w, k), Is(r, "to"), r.phase = "run",
         CanTransition(w.status, Head(r.todo).arg), ~CanTransition(k.status, Head(r.todo).arg),
         NEW l, l = Task(r.s, <<Do("finally")>>)
  PROVE  /\ Fit(t, l, w, k)
         /\ \A h : Knowing(t, r, w, h) => Knowing(t, l, w, h)
<1>1. ~Idle(r) /\ r.todo \in Unanswered /\ Head(r.todo).arg = "listening"
  BY ReplyUpdates
<1>2. /\ w # None /\ w.status \in {"thinking", "listening"} /\ ~Nears(t, "interrupted")
  BY <1>1, ReplyHasIt
<1>3. /\ l.todo \in Unanswered \cup Answered /\ l.todo \notin Unanswered
      /\ l.phase = "run" /\ l.out = <<>> /\ Is(l, "finally") /\ ~Idle(l)
  BY FinallyIs
<1>4. Sets(t) /\ ~Sets(r)
  <2>1. \/ k.status = w.status \/ Sets(t) \/ Sets(r)
    BY <1>2 DEF Fit, Same
  <2> QED
    BY <1>1, <2>1, TableHas DEF Sets
<1>5. Fit(t, l, w, k)
  BY <1>1, <1>3, <1>4, ReplyPasses
<1>6. ASSUME NEW h, Knowing(t, r, w, h) PROVE Knowing(t, l, w, h)
  <2>1. ~Tells(l.out)
    BY <1>3 DEF Tells
  <2> QED
    BY <1>1, <1>2, <1>3, <1>6, <2>1 DEF Knowing, Telling
<1> QED
  BY <1>5, <1>6

\* The reply has read the key, and then writes it.
LEMMA ReplyCopies ==
  ASSUME NEW t \in TaskType, NEW r \in TaskType, NEW w \in State, NEW k \in State,
         Fit(t, r, w, k), Is(r, "to"), r.phase = "run",
         NEW l, l.todo = r.todo, l.phase = "got", l.out = r.out,
         l.got.status = Head(r.todo).arg, l.got.active = k.active
  PROVE  /\ Fit(t, l, w, k)
         /\ \A h : Knowing(t, r, w, h) => Knowing(t, l, w, h)
<1>1. ~Idle(r) /\ w # None
  BY ReplyUpdates, ReplyHasIt
<1>2. /\ l.todo = r.todo /\ l.phase = "got" /\ l.out = r.out
      /\ l.got.status = Head(r.todo).arg /\ l.got.active = k.active
  OBVIOUS
<1>3. Shapes(t, l) /\ Unstarted(t, l, w, k) /\ Standing(t, l, w)
  BY <1>1, <1>2, SamePlace DEF Fit, Shapes, Unstarted, Standing
<1>4. Same(t, l, w, k)
  BY <1>2 DEF Fit, Same, Copies, Sets, Is
<1>5. ASSUME NEW h, Knowing(t, r, w, h) PROVE Knowing(t, l, w, h)
  BY <1>1, <1>2, <1>5, SamePlace DEF Knowing, Telling
<1> QED
  BY <1>3, <1>4, <1>5 DEF Fit

\* The write of the reply.
LEMMA ReplyWrites ==
  ASSUME NEW t \in TaskType, NEW r \in TaskType, NEW w \in State, NEW k \in State,
         Fit(t, r, w, k), Is(r, "to"), r.phase = "got",
         NEW l, l.todo = r.todo, l.phase = "set", l.out = r.out, l.got = r.got
  PROVE  /\ Fit(t, l, w, r.got)
         /\ \A h : Knowing(t, r, w, h) => Knowing(t, l, w, h)
<1>1. ~Idle(r) /\ Head(r.todo).arg = "listening"
  BY ReplyUpdates
<1>2. /\ l.todo = r.todo /\ l.phase = "set" /\ l.out = r.out /\ l.got = r.got
  OBVIOUS
<1>3. w # None
  BY <1>1, ReplyHasIt
<1>4. Copies(t) => Nears(t, "listening")
  BY <1>1, ReplyHasIt
<1>5. Shapes(t, l) /\ Unstarted(t, l, w, r.got) /\ Standing(t, l, w)
  BY <1>2, <1>3, SamePlace DEF Fit, Shapes, Unstarted, Standing
<1>6. Same(t, l, w, r.got)
  <2>1. r.got.status = "listening" /\ ~r.got.active
    BY <1>1 DEF Fit, Same, Copies
  <2>2. Sets(t) => r.got.status = Head(t.todo).arg
    BY <1>4, <2>1 DEF Sets, Copies, Nears, Faces
  <2>3. Sets(l)
    BY <1>2 DEF Sets, Is
  <2> QED
    BY <1>1, <1>2, <2>1, <2>2, <2>3 DEF Fit, Same, Copies, Sets, Is
<1>7. ASSUME NEW h, Knowing(t, r, w, h) PROVE Knowing(t, l, w, h)
  BY <1>2, <1>3, <1>7, SamePlace DEF Knowing, Telling
<1> QED
  BY <1>5, <1>6, <1>7 DEF Fit

\* The worker listens again.
LEMMA ReplyMoves ==
  ASSUME NEW t \in TaskType, NEW r \in TaskType, NEW w \in State, NEW k \in State,
         Fit(t, r, w, k), Is(r, "to"), r.phase = "set",
         NEW l, l.todo = Done(r).todo, l.phase = "run",
         l.out = Append(r.out, r.got.status)
  PROVE  /\ Fit(t, l, r.got, k)
         /\ \A h : Knowing(t, r, w, h) => Knowing(t, l, r.got, h)
<1>1. /\ ~Idle(r) /\ r.todo \in Unanswered /\ Head(r.todo).arg = "listening"
      /\ ~Idle(Done(r)) /\ Done(r).phase = "run" /\ Done(r).got = None
      /\ Done(r).out = r.out
      /\ Done(r).todo \in Unanswered \cup Answered /\ Done(r).todo \notin Unanswered
      /\ Faces(Done(r), "flush", "")
  BY ReplyUpdates
<1>2. Done(r) \in TaskType /\ r.out \in Seq(Events \cup Messages)
  BY <1>1, DoneType DEF TaskType
<1>3. r.got.status = "listening" /\ ~r.got.active /\ k.status = "listening" /\ ~k.active
  BY <1>1 DEF Fit, Same, Copies, Sets
<1>4. /\ l.todo = Done(r).todo /\ l.phase = "run" /\ l.out = Append(r.out, "listening")
  BY <1>1, <1>2, <1>3 DEF TaskType
<1>5. Faces(l, "flush", "") /\ ~Idle(l) /\ ~Is(l, "to") /\ ~Is(l, "finally")
  <2>1. Faces(l, "flush", "") /\ ~Idle(l)
    BY <1>1, <1>4, SamePlace
  <2> QED
    BY <2>1 DEF Faces, Is
<1>6. /\ w # None /\ Yields(t) /\ w.status \in {"thinking", "listening"}
      /\ ~Nears(t, "interrupted") /\ Expected(t, "listening")
      /\ (Copies(t) => Nears(t, "listening"))
  BY <1>1, ReplyHasIt
<1>7. r.got # None
  BY <1>3 DEF None
<1>8. Shapes(t, l)
  BY <1>1, <1>4, <1>5 DEF Fit, Shapes
<1>9. Unstarted(t, l, r.got, k)
  BY <1>6, <1>7 DEF Fit, Unstarted
<1>10. Standing(t, l, r.got)
  BY <1>3, <1>6 DEF Standing
<1>11. Same(t, l, r.got, k)
  BY <1>3, <1>5 DEF Fit, Same, Copies, Sets
<1>12. ASSUME NEW h, Knowing(t, r, w, h) PROVE Knowing(t, l, r.got, h)
  <2>1. Telling(t, r, w, h)
    BY <1>6, <1>12 DEF Knowing
  <2>2. Tells(l.out) /\ EndsWith(l.out, "listening")
    <3>1. "listening" \in Status
      BY DEF Status
    <3>2. Tells(Append(r.out, "listening")) /\ EndsWith(Append(r.out, "listening"), "listening")
      BY <1>2, <3>1, ToldLast
    <3> QED
      BY <1>4, <3>2
  <2>3. Tells(t.out) => EndsWith(t.out, "listening")
    <3> SUFFICES ASSUME Tells(t.out) PROVE EndsWith(t.out, "listening")
      OBVIOUS
    <3>1. EndsWith(t.out, w.status) /\ \A i \in DOMAIN t.out : t.out[i] # "thinking"
      BY <1>1, <1>6, <2>1 DEF Telling
    <3>2. w.status # "thinking"
      BY <3>1 DEF EndsWith
    <3> QED
      BY <1>6, <3>1, <3>2
  <2>4. ~Is(l, "finally") /\ l.todo \notin Unanswered
    BY <1>1, <1>4, <1>5
  <2>5. Telling(t, l, r.got, h)
    BY <1>1, <1>3, <1>5, <2>1, <2>2, <2>3, <2>4 DEF Telling
  <2> QED
    BY <1>7, <2>5 DEF Knowing
<1> QED
  BY <1>8, <1>9, <1>10, <1>11, <1>12 DEF Fit

-----------------------------------------------------------------------------
(* What a message becomes.                                                 *)

\* Four steps each of which may follow the one before, the last of them final.
LEMMA ShortPath ==
  ASSUME NEW q, Len(q) = 4, Follows(q[1], q[2]), Follows(q[2], q[3]), Follows(q[3], q[4]),
         Final(q[4])
  PROVE  Path(q)
<1>1. \A i \in 1..3 : i = 1 \/ i = 2 \/ i = 3
  OBVIOUS
<1>2. \A i \in 1..3 : Follows(q[i], q[i + 1])
  BY <1>1
<1> QED
  BY <1>2 DEF Path

\* What an interruption puts before a list.
LEMMA InterruptPath ==
  ASSUME NEW q \in Seq(Steps), q # <<>>, Path(q), Follows(To("listening"), Head(q))
  PROVE  LET l == Interrupting \o q IN
         Path(l) /\ l # <<>> /\ Head(l).do = "stop"
<1> DEFINE a == Do("stop")
           b == To("interrupted")
           c == To("listening")
           l == Interrupting \o q
           n == Len(q)
<1>1. Follows(a, b) /\ Follows(b, c) /\ a.do = "stop"
  BY StepFields DEF Follows
<1>2. Head(q) = q[1] /\ n \in Nat /\ n >= 1 /\ Final(q[n])
      /\ \A i \in 1..n - 1 : Follows(q[i], q[i + 1])
  BY HeadTailProperties, LenProperties, EmptySeq DEF Path
<1>3. a \in Steps /\ b \in Steps /\ c \in Steps
  BY StepKinds DEF Further, Events, Status, Kinds
<1>4. /\ Interrupting \in Seq(Steps) /\ Len(Interrupting) = 3
      /\ Interrupting[1] = a /\ Interrupting[2] = b /\ Interrupting[3] = c
  BY <1>3, ShortLists DEF Interrupting
<1> HIDE DEF a, b, c, n
<1>5. /\ Len(l) = n + 3 /\ l[1] = a /\ l[2] = b /\ l[3] = c
      /\ \A i \in 1..n : l[i + 3] = q[i]
  <2>1. /\ Len(l) = 3 + n
        /\ \A i \in 1..3 + n : l[i] = IF i <= 3 THEN Interrupting[i] ELSE q[i - 3]
    <3>1. /\ Len(l) = Len(Interrupting) + Len(q)
          /\ \A i \in 1..Len(Interrupting) + Len(q) :
               l[i] = IF i <= Len(Interrupting) THEN Interrupting[i]
                      ELSE q[i - Len(Interrupting)]
      BY <1>4, ConcatProperties
    <3> HIDE DEF l
    <3> QED
      BY <1>4, <3>1 DEF n
  <2> HIDE DEF l
  <2>2. l[1] = a /\ l[2] = b /\ l[3] = c
    BY <1>2, <1>4, <2>1
  <2>3. ASSUME NEW i \in 1..n PROVE l[i + 3] = q[i]
    <3>1. i + 3 \in 1..3 + n /\ ~(i + 3 <= 3) /\ (i + 3) - 3 = i
      BY <1>2
    <3> QED
      BY <2>1, <3>1
  <2> QED
    BY <1>2, <2>1, <2>2, <2>3
<1>6. l # <<>> /\ Head(l) = l[1]
  <2>1. Len(l) # 0 /\ l \in Seq(Steps)
    BY <1>2, <1>4, <1>5, ConcatProperties
  <2>2. l # <<>>
    BY <2>1, EmptySeq
  <2> QED
    BY <2>1, <2>2, HeadTailProperties
<1> HIDE DEF l
<1>7. l[4] = q[1] /\ l[n + 3] = q[n]
  <2>1. l[1 + 3] = q[1] /\ l[n + 3] = q[n]
    BY <1>2, <1>5
  <2> QED
    BY <2>1
<1>8. ASSUME NEW i \in 1..n + 2 PROVE Follows(l[i], l[i + 1])
  <2>1. CASE i = 1
    BY <1>1, <1>5, <2>1
  <2>2. CASE i = 2
    BY <1>1, <1>5, <2>2
  <2>3. CASE i = 3
    <3>1. Follows(c, q[1])
      BY <1>2 DEF c
    <3> QED
      BY <1>5, <1>7, <2>3, <3>1
  <2>4. CASE i > 3
    <3>1. PICK j \in 1..n - 1 : i = j + 3
      <4>1. i - 3 \in 1..n - 1 /\ i = (i - 3) + 3
        BY <1>2, <2>4
      <4> QED
        BY <4>1
    <3>2. j \in 1..n /\ j + 1 \in 1..n /\ i + 1 = (j + 1) + 3
      BY <1>2, <3>1
    <3> QED
      BY <1>2, <1>5, <3>1, <3>2
  <2> QED
    BY <2>1, <2>2, <2>3, <2>4
<1>9. Len(l) - 1 = n + 2
  BY <1>2, <1>5
<1>10. Path(l)
  <2>1. Final(l[Len(l)])
    BY <1>2, <1>5, <1>7
  <2> QED
    BY <1>8, <1>9, <2>1 DEF Path
<1> QED
  BY <1>1, <1>5, <1>6, <1>10 DEF l

\* Where a handler is when its worker takes a message.
LEMMA ApplyPath ==
  ASSUME NEW m \in Messages, NEW s
  PROVE  LET q == Apply(m, s) IN
         /\ q # <<>> /\ Path(q)
         /\ m = "start" => /\ Head(q).do = "to" /\ Head(q).arg = "loading"
                           /\ \A i \in 1..Len(q) : Beside(q[i])
         /\ m # "start" => Head(q).do \in {"stop", "begin", "fetch"}
         /\ m # "start" /\ Active(s) => Head(q).do = "stop"
<1> DEFINE Q == Apply(m, s)
<1>1. CASE m = "start"
  <2> DEFINE a == To("loading")
             b == To("ready")
             c == To("listening")
             d == Flush("session.ready")
  <2>1. Q = <<a, b, c, d>>
    BY <1>1 DEF Apply
  <2>2. /\ Follows(a, b) /\ Follows(b, c) /\ Follows(c, d) /\ Final(d)
        /\ a.do = "to" /\ a.arg = "loading"
        /\ Beside(a) /\ Beside(b) /\ Beside(c) /\ Beside(d)
    BY StepFields DEF Follows, Final, Untold, Beside
  <2> HIDE DEF a, b, c, d
  <2>3. Path(Q)
    <3>1. Len(Q) = 4 /\ Q[1] = a /\ Q[2] = b /\ Q[3] = c /\ Q[4] = d
      BY <2>1
    <3> QED
      BY <2>2, <3>1, ShortPath
  <2>4. Q # <<>> /\ Head(Q) = a /\ \A i \in 1..Len(Q) : Beside(Q[i])
    <3>1. /\ Len(Q) = 4 /\ Q[1] = a /\ Q[2] = b /\ Q[3] = c /\ Q[4] = d /\ Head(Q) = a
          /\ Q # <<>>
      BY <2>1
    <3> HIDE DEF Q
    <3>2. \A i \in 1..4 : i = 1 \/ i = 2 \/ i = 3 \/ i = 4
      OBVIOUS
    <3> QED
      BY <2>2, <3>1, <3>2
  <2> QED
    BY <1>1, <2>2, <2>3, <2>4
<1>2. CASE m = "reply"
  <2> DEFINE a == Do("begin")
             b == To("thinking")
             c == Flush("")
             d == Do("spawn")
             q == <<a, b, c, d>>
  <2>1. Q = InterruptIfActive(s) \o q
    BY <1>2 DEF Apply
  <2>2. /\ Follows(a, b) /\ Follows(b, c) /\ Follows(c, d) /\ Final(d) /\ a.do = "begin"
        /\ Follows(To("listening"), a)
    BY StepFields DEF Follows, Final, Untold
  <2>3. a \in Steps /\ b \in Steps /\ c \in Steps /\ d \in Steps
    BY StepKinds DEF Further, Events, Status, Kinds
  <2>4. q \in Seq(Steps) /\ q # <<>> /\ Head(q) = a
    <3>1. q \in Seq(Steps)
      BY <2>3, ShortLists
    <3>2. q # <<>> /\ Head(q) = a
      <4> HIDE DEF a, b, c, d
      <4> QED
        OBVIOUS
    <3> QED
      BY <3>1, <3>2
  <2>5. Path(q)
    <3> HIDE DEF a, b, c, d
    <3>1. Len(q) = 4 /\ q[1] = a /\ q[2] = b /\ q[3] = c /\ q[4] = d
      OBVIOUS
    <3> QED
      BY <2>2, <3>1, ShortPath
  <2> HIDE DEF q, a, b, c, d
  <2>6. CASE Active(s)
    <3>1. Q = Interrupting \o q
      BY <2>1, <2>6 DEF InterruptIfActive
    <3> QED
      BY <1>2, <2>2, <2>4, <2>5, <2>6, <3>1, InterruptPath
  <2>7. CASE ~Active(s)
    <3>1. Q = q
      BY <2>1, <2>4, <2>7 DEF InterruptIfActive
    <3> QED
      BY <1>2, <2>2, <2>4, <2>5, <2>7, <3>1
  <2> QED
    BY <2>6, <2>7
<1>3. CASE m = "interrupt"
  <2> DEFINE a == Flush("conversation.interrupted")
             q == <<a>>
  <2>1. Q = Interrupting \o q
    BY <1>3 DEF Apply
  <2>2. Final(a) /\ Follows(To("listening"), a)
    BY StepFields DEF Follows, Final, Untold
  <2>3. a \in Steps
    BY StepKinds DEF Further, Events
  <2>4. q \in Seq(Steps)
    BY <2>3, ShortLists
  <2>5. q # <<>> /\ Head(q) = a /\ Len(q) = 1 /\ q[1] = a
    <3> HIDE DEF a
    <3> QED
      OBVIOUS
  <2>6. Path(q)
    <3> HIDE DEF q, a
    <3> QED
      BY <2>2, <2>5 DEF Path
  <2> HIDE DEF q, a
  <2> QED
    BY <1>3, <2>1, <2>2, <2>4, <2>5, <2>6, InterruptPath
<1>4. CASE m = "close"
  <2> DEFINE a == Do("fetch")
             b == Do("delete")
             c == Do("leave")
             d == Flush("session.closed")
             p == <<a, b, c>>
             q == p \o <<d>>
             i == InterruptIfActive(s)
  <2>1. Q = (i \o p) \o <<d>>
    BY <1>4 DEF Apply, Closing, Delete
  <2>2. /\ Follows(a, b) /\ Follows(b, c) /\ Follows(c, d) /\ Final(d) /\ a.do = "fetch"
        /\ Follows(To("listening"), a)
    BY StepFields DEF Follows, Final, Untold
  <2>3. a \in Steps /\ b \in Steps /\ c \in Steps /\ d \in Steps
    BY StepKinds DEF Further, Events, Status, Kinds
  <2>4. /\ p \in Seq(Steps) /\ <<d>> \in Seq(Steps)
    BY <2>3, ShortLists
  <2>5. q \in Seq(Steps) /\ Len(q) = 4 /\ q[1] = a /\ q[2] = b /\ q[3] = c /\ q[4] = d
    <3>1. /\ q \in Seq(Steps) /\ Len(q) = Len(p) + Len(<<d>>)
          /\ \A x \in 1..Len(p) + Len(<<d>>) :
               q[x] = IF x <= Len(p) THEN p[x] ELSE <<d>>[x - Len(p)]
      BY <2>4, ConcatProperties
    <3>2. Len(p) = 3 /\ Len(<<d>>) = 1 /\ p[1] = a /\ p[2] = b /\ p[3] = c /\ <<d>>[1] = d
      OBVIOUS
    <3> HIDE DEF p, q, a, b, c
    <3>3. Len(q) = 4 /\ \A x \in 1..4 : q[x] = IF x <= 3 THEN p[x] ELSE <<d>>[x - 3]
      BY <3>1, <3>2
    <3>4. q[1] = p[1] /\ q[2] = p[2] /\ q[3] = p[3] /\ q[4] = <<d>>[4 - 3]
      BY <3>3
    <3> QED
      BY <3>1, <3>2, <3>3, <3>4
  <2>6. i \in Seq(Steps)
    <3>1. Do("stop") \in Steps /\ To("interrupted") \in Steps /\ To("listening") \in Steps
      BY StepKinds DEF Further, Events, Status, Kinds
    <3> QED
      BY <3>1, ShortLists DEF InterruptIfActive, Interrupting
  <2>7. (i \o p) \o <<d>> = i \o q
    <3> DEFINE e == <<d>>
    <3>1. e \in Seq(Steps)
      BY <2>4
    <3> HIDE DEF i, p, e, d
    <3> QED
      BY <2>4, <2>6, <3>1, ConcatAssociative DEF e
  <2> HIDE DEF q, a, b, c, d
  <2>8. Path(q) /\ q # <<>> /\ Head(q) = a
    <3>1. Path(q)
      BY <2>2, <2>5, ShortPath
    <3>2. Len(q) # 0
      BY <2>5
    <3>3. q # <<>>
      BY <2>5, <3>2, EmptySeq
    <3> QED
      BY <2>5, <3>1, <3>3, HeadTailProperties
  <2>9. CASE Active(s)
    <3>1. Q = Interrupting \o q
      BY <2>1, <2>7, <2>9 DEF InterruptIfActive
    <3> QED
      BY <1>4, <2>2, <2>5, <2>8, <2>9, <3>1, InterruptPath
  <2>10. CASE ~Active(s)
    <3>1. Q = q
      BY <2>1, <2>5, <2>7, <2>10 DEF InterruptIfActive
    <3> QED
      BY <1>4, <2>2, <2>8, <2>10, <3>1
  <2> QED
    BY <2>9, <2>10
<1> QED
  BY <1>1, <1>2, <1>3, <1>4 DEF Messages

-----------------------------------------------------------------------------
(* The other steps of a handler and of a reply.                            *)

\* What follows a step that is not an update.
LEMMA GoesTo ==
  ASSUME NEW k \in TaskType, Path(k.todo), NEW d, Is(k, d),
         d \in {"write", "enter", "stop", "begin", "fetch", "delete", "leave"}
  PROVE  /\ ~Idle(k) /\ ~Idle(Done(k)) /\ Path(Done(k).todo) /\ Done(k).phase = "run"
         /\ Done(k).got = None /\ Done(k).out = k.out /\ Done(k).s = k.s
         /\ d = "write"  => Is(Done(k), "enter")
         /\ d = "enter"  => Faces(Done(k), "message", "start")
         /\ d = "stop"   => Nears(Done(k), "interrupted")
         /\ d = "begin"  => Nears(Done(k), "thinking")
         /\ d = "fetch"  => Is(Done(k), "delete")
         /\ d = "delete" => Is(Done(k), "leave")
         /\ d = "leave"  => Is(Done(k), "flush") /\ Head(Done(k).todo).arg \in Untold
<1>1. ~Idle(k) /\ Head(k.todo).do = d /\ ~Final(Head(k.todo))
  BY DEF Is, Idle, Final
<1>2. /\ ~Idle(Done(k)) /\ Path(Done(k).todo) /\ Done(k).phase = "run"
      /\ Done(k).got = None /\ Done(k).out = k.out /\ Done(k).s = k.s
      /\ Follows(Head(k.todo), Head(Done(k).todo))
  BY <1>1, DonePath
<1> QED
  BY <1>1, <1>2 DEF Follows, Nears, Faces, Is, Idle

\* The reply is cancelled and its turn completed.
LEMMA HandlerStops ==
  ASSUME NEW t \in TaskType, NEW r \in TaskType, NEW w \in State, NEW k \in State,
         Fit(t, r, w, k), Is(t, "stop")
  PROVE  /\ Fit(Done(t), NoTask, CompleteTurn(w), k)
         /\ \A h : Knowing(t, r, w, h) => Knowing(Done(t), NoTask, CompleteTurn(w), h)
<1> DEFINE l == Done(t)
           v == CompleteTurn(w)
<1>1. /\ ~Idle(t) /\ ~Idle(l) /\ Path(l.todo) /\ l.phase = "run" /\ l.out = t.out
      /\ Nears(l, "interrupted")
  BY GoesTo DEF Fit, Shapes
<1>2. w # None /\ w.status \in {"thinking", "listening"}
  <2>1. w # None
    BY DEF Fit, Unstarted, Is, Idle
  <2>2. Expected(t, w.status) => w.status = "listening"
    BY DEF Expected, Nears, Faces, Is
  <2>3. r.todo \in Unanswered => ~Idle(r)
    BY UnansweredRuns
  <2> QED
    BY <2>1, <2>2, <2>3 DEF Fit, Standing
<1>3. v.status = w.status /\ ~v.active /\ v # None
  <2>1. v.status = w.status /\ ~v.active
    BY DEF CompleteTurn, State
  <2> QED
    BY <1>2, <2>1 DEF None
<1>4. /\ Idle(NoTask) /\ NoTask.todo \in Answered /\ NoTask.todo \notin Unanswered
      /\ NoTask.out = <<>> /\ NoTask.phase = "run"
  BY UnansweredRuns, NoTaskType DEF NoTask, Answered
<1>5. \A d : ~Is(NoTask, d)
  BY <1>4 DEF Is, Idle
<1> HIDE DEF l, v
<1>6. Shapes(l, NoTask)
  BY <1>1, <1>4, <1>5 DEF Shapes
<1>7. Unstarted(l, NoTask, v, k)
  BY <1>1, <1>3 DEF Unstarted, Nears, Faces, Is
<1>8. Standing(l, NoTask, v)
  BY <1>1, <1>2, <1>3, <1>4 DEF Standing, Expected, Nears, Faces, Is
<1>9. Same(l, NoTask, v, k)
  <2>1. ~Copies(l) /\ ~Sets(l) /\ ~Copies(NoTask) /\ ~Sets(NoTask)
    BY <1>1, <1>5 DEF Copies, Sets
  <2>2. ~Sets(t) /\ ~Nears(t, "interrupted")
    BY DEF Sets, Is, Nears, Faces
  <2>3. Sets(r) => k.status = "listening"
    BY ReplyPlaces DEF Fit, Shapes, Same, Sets, Nears, Faces, Is, Idle
  <2>4. k.status = v.status \/ k.status = "listening"
    BY <1>2, <1>3, <2>2, <2>3 DEF Fit, Same
  <2> QED
    BY <1>1, <1>3, <2>1, <2>4 DEF Fit, Same
<1>10. ASSUME NEW h, Knowing(t, r, w, h) PROVE Knowing(l, NoTask, v, h)
  <2>1. Telling(l, NoTask, v, h)
    BY <1>1, <1>4 DEF Telling, Tells, Nears, Faces, Is
  <2> QED
    BY <1>3, <2>1 DEF Knowing
<1> QED
  BY <1>6, <1>7, <1>8, <1>9, <1>10 DEF Fit, l, v

\* A turn begins.
LEMMA HandlerBegins ==
  ASSUME NEW t \in TaskType, NEW r \in TaskType, NEW w \in State, NEW k \in State,
         Fit(t, r, w, k), Is(t, "begin")
  PROVE  /\ Fit(Done(t), r, BeginTurn(w), k)
         /\ \A h : Knowing(t, r, w, h) => Knowing(Done(t), r, BeginTurn(w), h)
<1> DEFINE l == Done(t)
           v == BeginTurn(w)
<1>1. /\ ~Idle(t) /\ ~Idle(l) /\ Path(l.todo) /\ l.phase = "run" /\ l.out = t.out
      /\ Nears(l, "thinking")
  BY GoesTo DEF Fit, Shapes
<1>2. Idle(r)
  <2> SUFFICES ASSUME ~Idle(r) PROVE FALSE
    OBVIOUS
  <2>1. Yields(t) /\ ~Is(t, "stop") /\ ~Is(t, "message")
    BY DEF Fit, Shapes, Is
  <2>2. Beside(Head(t.todo))
    BY <1>1, <2>1, DoneYields
  <2> QED
    BY <2>2 DEF Beside, Is
<1>3. w # None /\ w.status = "listening" /\ r.todo \notin Unanswered
  <2>1. w # None
    BY DEF Fit, Unstarted, Is, Idle
  <2>2. r.todo \notin Unanswered
    BY <1>2, UnansweredRuns
  <2>3. Expected(t, w.status)
    BY <2>1, <2>2 DEF Fit, Standing
  <2> QED
    BY <2>1, <2>2, <2>3 DEF Expected, Nears, Faces, Is
<1>4. v.status = w.status /\ v # None
  <2>1. v.status = w.status
    BY DEF BeginTurn, State
  <2> QED
    BY <1>3, <2>1 DEF None
<1> HIDE DEF l, v
<1>5. Shapes(l, r)
  BY <1>1, <1>2 DEF Fit, Shapes
<1>6. Unstarted(l, r, v, k)
  BY <1>1, <1>4 DEF Unstarted, Nears, Faces, Is
<1>7. Standing(l, r, v)
  BY <1>1, <1>2, <1>3, <1>4 DEF Standing, Expected, Nears, Faces, Is
<1>8. Same(l, r, v, k)
  <2>1. ~Copies(l) /\ ~Sets(l) /\ ~Copies(r) /\ ~Sets(r) /\ ~Sets(t) /\ ~Nears(t, "interrupted")
    BY <1>1, <1>2 DEF Copies, Sets, Is, Nears, Faces, Idle
  <2> QED
    BY <1>1, <1>3, <1>4, <2>1 DEF Fit, Same
<1>9. ASSUME NEW h, Knowing(t, r, w, h) PROVE Knowing(l, r, v, h)
  <2>1. Telling(t, r, w, h) /\ ~Nears(t, "interrupted") /\ ~Is(l, "spawn")
    BY <1>1, <1>3, <1>9 DEF Knowing, Nears, Faces, Is
  <2>2. Telling(l, r, v, h)
    BY <1>1, <1>2, <1>4, <2>1 DEF Telling
  <2> QED
    BY <1>4, <2>2 DEF Knowing
<1> QED
  BY <1>5, <1>6, <1>7, <1>8, <1>9 DEF Fit, l, v

\* The turn of a reply is completed.
LEMMA ReplyCompletes ==
  ASSUME NEW t \in TaskType, NEW r \in TaskType, NEW w \in State, NEW k \in State,
         Fit(t, r, w, k), Is(r, "complete")
  PROVE  /\ Fit(t, Done(r), CompleteTurn(w), k)
         /\ \A h : Knowing(t, r, w, h) => Knowing(t, Done(r), CompleteTurn(w), h)
<1> DEFINE l == Done(r)
           v == CompleteTurn(w)
<1>1. ~Idle(r) /\ r.todo \in Unanswered \cup Answered /\ Early(r) /\ ~Is(r, "to") /\ ~Is(r, "finally")
  BY DEF Is, Idle, Fit, Shapes, Early
<1>2. /\ ~Idle(l) /\ l.phase = "run" /\ l.out = r.out /\ Nears(l, "listening")
      /\ l.todo \in Unanswered \cup Answered
  BY <1>1, ReplyDone
<1>3. l \in TaskType
  BY <1>1, DoneType
<1>4. l.todo \in Unanswered /\ r.todo \in Unanswered
  BY <1>1, <1>2, <1>3, ReplyPlaces DEF Early, Nears, Faces
<1>5. w # None /\ w.status \in {"thinking", "listening"} /\ ~Nears(t, "interrupted")
      /\ ~Nears(t, "thinking")
  BY <1>1, ReplyHasIt
<1>6. v.status = w.status /\ ~v.active /\ v # None
  <2>1. v.status = w.status /\ ~v.active
    BY DEF CompleteTurn, State
  <2> QED
    BY <1>5, <2>1 DEF None
<1> HIDE DEF l, v
<1>7. Shapes(t, l)
  BY <1>1, <1>2 DEF Fit, Shapes
<1>8. Unstarted(t, l, v, k)
  BY <1>5, <1>6 DEF Fit, Unstarted
<1>9. Standing(t, l, v)
  BY <1>4, <1>5, <1>6 DEF Standing
<1>10. Same(t, l, v, k)
  <2>1. ~Copies(l) /\ ~Sets(l) /\ ~Sets(r)
    BY <1>1, <1>2 DEF Copies, Sets
  <2> QED
    BY <1>5, <1>6, <2>1 DEF Fit, Same
<1>11. ASSUME NEW h, Knowing(t, r, w, h) PROVE Knowing(t, l, v, h)
  <2>1. Telling(t, r, w, h)
    BY <1>5, <1>11 DEF Knowing
  <2>2. Telling(t, l, v, h)
    BY <1>1, <1>2, <1>4, <1>6, <2>1 DEF Telling
  <2> QED
    BY <1>6, <2>2 DEF Knowing
<1> QED
  BY <1>7, <1>8, <1>9, <1>10, <1>11 DEF Fit, l, v

\* The reply has ended.
LEMMA ReplyEnds ==
  ASSUME NEW t \in TaskType, NEW r \in TaskType, NEW w \in State, NEW k \in State,
         Fit(t, r, w, k), Is(r, "finally")
  PROVE  /\ Fit(t, NoTask, w, k)
         /\ \A h : Knowing(t, r, w, h) => Knowing(t, NoTask, w, h)
<1>1. ~Idle(r) /\ ~Early(r) /\ ~Is(r, "to") /\ r.todo \in Unanswered \cup Answered
  BY DEF Is, Idle, Early, Faces, Fit, Shapes
<1>2. r.todo \notin Unanswered /\ w # None
  BY <1>1, ReplyPlaces, ReplyHasIt
<1>3. /\ Idle(NoTask) /\ NoTask.todo \in Answered /\ NoTask.todo \notin Unanswered
      /\ NoTask.out = <<>> /\ NoTask.phase = "run" /\ \A d : ~Is(NoTask, d)
  <2>1. NoTask.todo = <<>> /\ NoTask.out = <<>> /\ NoTask.phase = "run"
    BY DEF NoTask
  <2> QED
    BY <2>1, UnansweredRuns DEF Answered, Idle, Is
<1>4. Shapes(t, NoTask) /\ Unstarted(t, NoTask, w, k)
  BY <1>2, <1>3 DEF Fit, Shapes, Unstarted
<1>5. Standing(t, NoTask, w)
  BY <1>2, <1>3 DEF Fit, Standing
<1>6. Same(t, NoTask, w, k)
  <2>1. ~Sets(r) /\ ~Sets(NoTask) /\ ~Copies(NoTask)
    BY <1>1, <1>3 DEF Sets, Copies
  <2> QED
    BY <2>1 DEF Fit, Same
<1>7. ASSUME NEW h, Knowing(t, r, w, h) PROVE Knowing(t, NoTask, w, h)
  <2>1. ~Tells(NoTask.out)
    BY <1>3 DEF Tells
  <2>2. Telling(t, r, w, h)
    BY <1>2, <1>7 DEF Knowing
  <2>3. Telling(t, NoTask, w, h)
    BY <1>3, <2>1, <2>2 DEF Telling
  <2> QED
    BY <1>2, <2>3 DEF Knowing
<1> QED
  BY <1>4, <1>5, <1>6, <1>7 DEF Fit

\* The reply begins.
LEMMA HandlerSpawns ==
  ASSUME NEW t \in TaskType, NEW r \in TaskType, NEW w \in State, NEW k \in State,
         Fit(t, r, w, k), Is(t, "spawn"), Idle(r), NEW s,
         NEW l, l = Task(s, Replying)
  PROVE  /\ Fit(Done(t), l, w, k)
         /\ \A h : Knowing(t, r, w, h) => Knowing(Done(t), l, w, h)
<1>1. ~Idle(t) /\ Final(Head(t.todo))
  BY DEF Is, Idle, Final
<1>2. Done(t) = NoTask
  BY <1>1, DonePath DEF Fit, Shapes
<1>3. /\ NoTask.todo = <<>> /\ NoTask.out = <<>> /\ NoTask.phase = "run" /\ Idle(NoTask)
      /\ \A d : ~Is(NoTask, d)
  <2>1. NoTask.todo = <<>> /\ NoTask.out = <<>> /\ NoTask.phase = "run"
    BY DEF NoTask
  <2> QED
    BY <2>1 DEF Idle, Is
<1>4. w # None /\ w.status = "thinking" /\ r.todo \notin Unanswered
  <2>1. w # None
    BY DEF Fit, Unstarted, Is, Idle
  <2>2. r.todo \notin Unanswered
    BY UnansweredRuns
  <2>3. Expected(t, w.status)
    BY <2>1, <2>2 DEF Fit, Standing
  <2> QED
    BY <2>1, <2>2, <2>3 DEF Expected, Nears, Faces, Is
<1>5. l.todo = Replying /\ l.out = <<>> /\ l.phase = "run" /\ l.todo \in Unanswered /\ ~Idle(l) /\ Is(l, "flush")
  <2>1. l.todo = Replying /\ l.out = <<>> /\ l.phase = "run" /\ l.todo \in Unanswered
    BY DEF Task, NoTask, Unanswered
  <2>3. Head(Replying) = Flush("llm.delta")
    <3> DEFINE F == Flush("llm.delta")
    <3> DEFINE C == Do("complete")
    <3> DEFINE T == To("listening")
    <3> DEFINE G == Flush("")
    <3> DEFINE Z == Do("finally")
    <3>1. Replying = <<F, C, T, G, Z>>
      BY DEF Replying
    <3> HIDE DEF F, C, T, G, Z
    <3>2. Head(<<F, C, T, G, Z>>) = F
      OBVIOUS
    <3> QED
      BY <3>1, <3>2 DEF F
  <2> QED
    BY <2>1, <2>3, UnansweredRuns, ReplyFields DEF Is, Idle
<1>6. Shapes(NoTask, l)
  BY <1>3, <1>5 DEF Shapes, Path, Yields, Nears, Faces, Is
<1>7. Unstarted(NoTask, l, w, k)
  BY <1>3, <1>4 DEF Unstarted
<1>8. Standing(NoTask, l, w)
  BY <1>4, <1>5 DEF Standing
<1>9. Same(NoTask, l, w, k)
  <2>1. /\ ~Copies(NoTask) /\ ~Sets(NoTask) /\ ~Copies(l) /\ ~Sets(l) /\ ~Sets(t)
        /\ ~Sets(r) /\ ~Nears(t, "interrupted") /\ ~Nears(t, "thinking")
    BY <1>3, <1>5 DEF Copies, Sets, Is, Nears, Faces, Idle
  <2> QED
    BY <1>4, <2>1 DEF Fit, Same
<1>10. ASSUME NEW h, Knowing(t, r, w, h) PROVE Knowing(NoTask, l, w, h)
  <2>1. Telling(t, r, w, h) /\ ~Nears(t, "interrupted")
    BY <1>4, <1>10 DEF Knowing, Nears, Faces, Is
  <2>2. ~Tells(t.out) /\ ~Tells(r.out) /\ h \in {"none", w.status}
    BY <2>1 DEF Telling
  <2>3. ~Tells(NoTask.out) /\ ~Tells(l.out) /\ \A i \in DOMAIN NoTask.out : NoTask.out[i] # "thinking"
    BY <1>3, <1>5 DEF Tells
  <2>4. Telling(NoTask, l, w, h)
    BY <1>5, <2>2, <2>3 DEF Telling
  <2> QED
    BY <1>4, <2>4 DEF Knowing
<1> QED
  BY <1>2, <1>6, <1>7, <1>8, <1>9, <1>10 DEF Fit

\* The name is entered, or the commands of a close are run.
LEMMA HandlerGoes ==
  ASSUME NEW t \in TaskType, NEW r \in TaskType, NEW w \in State, NEW k \in State,
         Fit(t, r, w, k), NEW d \in {"enter", "fetch", "leave"}, Is(t, d)
  PROVE  /\ Fit(Done(t), r, w, k)
         /\ \A h : Knowing(t, r, w, h) => Knowing(Done(t), r, w, h)
<1> DEFINE l == Done(t)
<1>1. /\ ~Idle(t) /\ ~Idle(l) /\ Path(l.todo) /\ l.phase = "run" /\ l.out = t.out
      /\ d = "enter" => Faces(l, "message", "start")
      /\ d = "fetch" => Is(l, "delete")
      /\ d = "leave" => Is(l, "flush") /\ Head(l.todo).arg \in Untold
  BY GoesTo DEF Fit, Shapes
<1>2. Idle(r) /\ r.todo \notin Unanswered
  <2>1. ~Idle(r) => Yields(t) /\ ~Is(t, "stop") /\ ~Is(t, "message")
    BY DEF Fit, Shapes, Is
  <2>2. ~Idle(r) => Beside(Head(t.todo))
    BY <1>1, <2>1, DoneYields
  <2>3. Idle(r)
    BY <2>2 DEF Beside, Is
  <2> QED
    BY <2>3, UnansweredRuns
<1>3. w # None => d # "enter" /\ w.status = "listening"
  BY <1>2 DEF Fit, Unstarted, Standing, Expected, Nears, Faces, Is
<1>4. w = None => d = "enter"
  BY DEF Fit, Unstarted, Is, Idle
<1> HIDE DEF l
<1>5. Shapes(l, r)
  BY <1>1, <1>2 DEF Fit, Shapes, Nears, Faces, Is
<1>6. Unstarted(l, r, w, k)
  BY <1>1, <1>3, <1>4 DEF Fit, Unstarted, Faces, Is
<1>7. Standing(l, r, w)
  BY <1>1, <1>2, <1>3 DEF Standing, Expected, Nears, Faces, Is, Untold
<1>8. Same(l, r, w, k)
  <2>1. ~Copies(l) /\ ~Sets(l) /\ ~Sets(t) /\ ~Nears(t, "interrupted") /\ ~Nears(t, "thinking")
    BY <1>1 DEF Copies, Sets, Is, Nears, Faces
  <2> QED
    BY <2>1 DEF Fit, Same
<1>9. ASSUME NEW h, Knowing(t, r, w, h) PROVE Knowing(l, r, w, h)
  <2>1. ~Nears(t, "interrupted") /\ ~Is(l, "spawn")
    BY <1>1 DEF Nears, Faces, Is
  <2> QED
    BY <1>1, <1>9, <2>1 DEF Knowing, Telling
<1> QED
  BY <1>5, <1>6, <1>7, <1>8, <1>9 DEF Fit, l

\* A message for which there is no worker: its state is read.
LEMMA HandlerReads ==
  ASSUME NEW t \in TaskType, NEW r \in TaskType, NEW w \in State, NEW k \in State,
         Fit(t, r, w, k), Is(t, "message"), w = None,
         NEW l, l.todo = t.todo, l.phase = "got", l.out = t.out, l.got = k
  PROVE  /\ Fit(l, r, w, k)
         /\ \A h : Knowing(t, r, w, h) => Knowing(l, r, w, h)
<1>1. l.todo = t.todo /\ l.phase = "got" /\ l.out = t.out /\ l.got = k
  OBVIOUS
<1>2. ~Is(l, "to") /\ ~Is(t, "to") /\ Idle(r)
  BY <1>1, SamePlace DEF Fit, Unstarted, Is
<1>3. Shapes(l, r)
  BY <1>1, <1>2, SamePlace DEF Fit, Shapes
<1>4. Unstarted(l, r, w, k)
  BY <1>1, SamePlace DEF Fit, Unstarted
<1>5. Standing(l, r, w)
  BY DEF Standing
<1>6. Same(l, r, w, k)
  <2>1. ~Copies(l) /\ ~Sets(l) /\ ~Copies(t) /\ ~Sets(t)
    BY <1>2 DEF Copies, Sets
  <2> QED
    BY <1>1, <2>1, SamePlace DEF Fit, Same
<1> QED
  BY <1>3, <1>4, <1>5, <1>6 DEF Fit, Knowing

\* The worker takes the message.
LEMMA HandlerStarts ==
  ASSUME NEW t \in TaskType, NEW r \in TaskType, NEW w \in State, NEW k \in State,
         Fit(t, r, w, k), Is(t, "message"),
         w # None \/ t.phase = "got", k # None, k.status # "none",
         NEW s, ~Idle(r) => Active(s), Idle(r) => r.out = <<>>,
         NEW v, v = IF w # None THEN w ELSE t.got,
         NEW l \in TaskType, l.todo = Apply(Head(t.todo).arg, s), l.phase = "run", l.out = t.out
  PROVE  /\ Fit(l, r, v, k)
         /\ \A h : Knowing(t, r, w, h) => Knowing(l, r, v, h)
<1> DEFINE m == Head(t.todo).arg
<1>1. m \in Messages /\ ~Idle(t) /\ Head(t.todo).do = "message"
  <2>1. t.todo \in Seq(Steps) /\ t.todo # <<>>
    BY TaskLists DEF Is
  <2>2. Head(t.todo) \in Steps /\ Head(t.todo).do = "message"
    BY <2>1 DEF Is
  <2> QED
    BY <2>1, <2>2 DEF Steps, Idle
<1>2. /\ l.todo # <<>> /\ Path(l.todo)
      /\ m = "start" => /\ Nears(l, "loading")
                        /\ \A i \in 1..Len(l.todo) : Beside(l.todo[i])
      /\ m # "start" => Is(l, "stop") \/ Is(l, "begin") \/ Is(l, "fetch")
      /\ m # "start" /\ Active(s) => Is(l, "stop")
  BY <1>1, ApplyPath DEF Nears, Faces, Is
<1>3. /\ w = None => v = k /\ Idle(r) /\ t.out = <<>> /\ k.status \in {"created", "listening"}
                     /\ (k.status = "created" => m = "start")
      /\ w # None => v = w
  BY <1>1 DEF Fit, Unstarted, Is, Faces
<1>4. v # None
  BY <1>3
<1>5. ~Idle(l) /\ ~Is(l, "spawn") /\ ~Is(l, "enter") /\ ~Is(l, "write") /\ ~Is(l, "message")
  BY <1>2 DEF Idle, Is, Nears, Faces
<1> HIDE DEF m
<1>6. Shapes(l, r)
  <2>1. ~Idle(r) => Yields(l)
    BY <1>2 DEF Yields
  <2> QED
    BY <1>2, <2>1 DEF Fit, Shapes
<1>7. Unstarted(l, r, v, k)
  BY <1>4, <1>5 DEF Unstarted
<1>8. Standing(l, r, v)
  <2>1. w # None /\ r.todo \notin Unanswered => w.status = "listening"
    BY <1>1 DEF Fit, Standing, Expected, Nears, Faces, Is
  <2>2. r.todo \notin Unanswered => v.status = "listening" \/ (v.status = "created" /\ m = "start")
    BY <1>3, <2>1
  <2>3. r.todo \notin Unanswered => Expected(l, v.status)
    BY <1>2, <2>2 DEF Expected, Nears, Faces, Is
  <2> QED
    BY <1>3, <2>3 DEF Fit, Standing
<1>9. Same(l, r, v, k)
  <2>1. /\ ~Copies(l) /\ ~Sets(l) /\ ~Sets(t) /\ ~Nears(t, "interrupted")
        /\ ~Nears(t, "thinking")
    BY <1>1 DEF Copies, Sets, Is, Nears, Faces
  <2>2. w = None => ~Sets(r)
    BY <1>3 DEF Sets, Is, Idle
  <2> QED
    BY <1>3, <2>1, <2>2 DEF Fit, Same
<1>10. ASSUME NEW h, Knowing(t, r, w, h) PROVE Knowing(l, r, v, h)
  <2>1. CASE w # None
    <3>1. Telling(t, r, w, h) /\ ~Nears(t, "interrupted")
      BY <1>1, <1>10, <2>1 DEF Knowing, Nears, Faces, Is
    <3>2. Telling(l, r, v, h)
      BY <1>3, <1>5, <2>1, <3>1 DEF Telling
    <3> QED
      BY <1>4, <3>2 DEF Knowing
  <2>2. CASE w = None
    <3>1. h = "none" /\ l.out = <<>>
      BY <1>3, <1>10, <2>2 DEF Knowing
    <3>2. ~Tells(l.out)
      BY <3>1 DEF Tells
    <3>3. Idle(r) /\ ~Tells(r.out)
      BY <1>3, <2>2 DEF Tells
    <3>4. Telling(l, r, v, h)
      BY <1>5, <3>1, <3>2, <3>3, EmptySeq DEF Telling
    <3> QED
      BY <1>4, <3>4 DEF Knowing
  <2> QED
    BY <2>1, <2>2
<1> QED
  BY <1>6, <1>7, <1>8, <1>9, <1>10 DEF Fit

-----------------------------------------------------------------------------
(* An emit.                                                                *)

\* What is told first of a list of events, and what after it.
LEMMA ToldFirst ==
  ASSUME NEW T, NEW out \in Seq(T), out # <<>>
  PROVE  /\ Tail(out) \in Seq(T)
         /\ Tells(out) <=> (Head(out) \in Status \/ Tells(Tail(out)))
         /\ \A y \in Status : EndsWith(out, y) =>
              IF Tells(Tail(out)) THEN EndsWith(Tail(out), y)
              ELSE Head(out) \in Status => Head(out) = y
         /\ \A y : (\A i \in DOMAIN out : out[i] # y) =>
              \A i \in DOMAIN Tail(out) : Tail(out)[i] # y
         /\ Len(out) <= 1 => Tail(out) = <<>>
<1> DEFINE n == Len(out)
           x == Head(out)
           p == Tail(out)
<1>1. /\ n \in Nat /\ n >= 1 /\ x = out[1] /\ p \in Seq(T) /\ Len(p) = n - 1
      /\ \A i \in 1..n - 1 : p[i] = out[i + 1]
      /\ DOMAIN out = 1..n /\ DOMAIN p = 1..(n - 1)
  BY LenProperties, EmptySeq, HeadTailProperties
<1> HIDE DEF n, x, p
<1>2. \A i \in DOMAIN out : i = 1 \/ (i - 1 \in DOMAIN p /\ out[i] = p[i - 1])
  BY <1>1
<1>3. 1 \in DOMAIN out /\ \A i \in DOMAIN p : i + 1 \in DOMAIN out /\ p[i] = out[i + 1]
  BY <1>1
<1>4. Tells(out) <=> (x \in Status \/ Tells(p))
  BY <1>1, <1>2, <1>3 DEF Tells
<1>5. ASSUME NEW y \in Status, EndsWith(out, y), Tells(p) PROVE EndsWith(p, y)
  <2>1. PICK i \in DOMAIN out : out[i] = y /\ \A j \in DOMAIN out : j > i => out[j] \notin Status
    BY <1>5 DEF EndsWith
  <2>2. PICK a \in DOMAIN p : p[a] \in Status
    BY <1>5 DEF Tells
  <2>3. i # 1
    <3>1. a + 1 > 1
      BY <1>1
    <3> QED
      BY <1>3, <2>1, <2>2, <3>1
  <2>4. i - 1 \in DOMAIN p /\ p[i - 1] = y
    BY <1>2, <2>1, <2>3
  <2>5. ASSUME NEW j \in DOMAIN p, j > i - 1 PROVE p[j] \notin Status
    <3>1. j + 1 > i
      BY <1>1, <2>5
    <3> QED
      BY <1>3, <2>1, <3>1
  <2> QED
    BY <2>4, <2>5 DEF EndsWith
<1>6. ASSUME NEW y \in Status, EndsWith(out, y), ~Tells(p), x \in Status PROVE x = y
  <2>1. PICK i \in DOMAIN out : out[i] = y
    BY <1>6 DEF EndsWith
  <2>2. i = 1
    BY <1>2, <1>6, <2>1 DEF Tells
  <2> QED
    BY <1>1, <2>1, <2>2
<1>7. \A y : (\A i \in DOMAIN out : out[i] # y) => \A i \in DOMAIN p : p[i] # y
  BY <1>3
<1>8. n <= 1 => p = <<>>
  <2>1. n <= 1 => Len(p) = 0
    BY <1>1
  <2> QED
    BY <1>1, <2>1, EmptySeq
<1> QED
  BY <1>1, <1>4, <1>5, <1>6, <1>7, <1>8 DEF n, x, p

\* What an emit collects tells no other status.
LEMMA OutTells ==
  ASSUME NEW k \in TaskType, Is(k, "flush"), Head(k.todo).arg \notin Status
  PROVE  /\ Out(k) \in Seq(Events \cup Messages)
         /\ Tells(Out(k)) <=> Tells(k.out)
         /\ \A y \in Status : EndsWith(k.out, y) => EndsWith(Out(k), y)
         /\ (\A i \in DOMAIN k.out : k.out[i] # "thinking")
              => \A i \in DOMAIN Out(k) : Out(k)[i] # "thinking"
         /\ k.phase = "sending" => Out(k) = k.out
<1>1. k.out \in Seq(Events \cup Messages) /\ ~Idle(k)
  BY DEF TaskType, Is, Idle
<1>2. Out(k) \in Seq(Events \cup Messages)
  BY <1>1, OutType
<1>3. Out(k) = k.out \/ Out(k) = Append(k.out, Head(k.todo).arg)
  BY DEF Out
<1>4. "thinking" \in Status
  BY DEF Status
<1>5. k.phase = "sending" => Out(k) = k.out
  BY DEF Out
<1> DEFINE x == Head(k.todo).arg
<1>6. /\ Tells(Append(k.out, x)) <=> Tells(k.out)
      /\ \A y \in Status : EndsWith(k.out, y) => EndsWith(Append(k.out, x), y)
      /\ (\A i \in DOMAIN k.out : k.out[i] # "thinking")
           => \A i \in DOMAIN Append(k.out, x) : Append(k.out, x)[i] # "thinking"
  <2>1. x \notin Status /\ x # "thinking"
    BY <1>4
  <2> HIDE DEF x
  <2> QED
    BY <1>1, <2>1, ToldLast
<1> QED
  BY <1>2, <1>3, <1>5, <1>6

\* The handler, and the reply, at an emit.
LEMMA HandlerEvent ==
  ASSUME NEW t \in TaskType, NEW r \in TaskType, NEW w \in State, NEW k \in State,
         Fit(t, r, w, k), Is(t, "flush")
  PROVE  /\ w # None /\ w.status \in Status /\ Head(t.todo).arg \notin Status
         /\ ~Nears(t, "interrupted") /\ ~Nears(t, "thinking") /\ ~Sets(t) /\ ~Copies(t)
         /\ Head(t.todo).arg \in Untold \cup {""}
<1>1. t.todo # <<>> /\ Head(t.todo).do = "flush"
  BY DEF Is
<1>2. Head(t.todo).arg \in Untold \cup {""}
  <2>1. t.todo \in Seq(Steps) /\ Path(t.todo)
    BY TaskLists DEF Fit, Shapes
  <2>2. Final(Head(t.todo)) \/ Follows(Head(t.todo), Head(Tail(t.todo)))
    BY <1>1, <2>1, PathRest
  <2> QED
    BY <1>1, <2>2 DEF Final, Follows
<1>3. w # None
  BY DEF Fit, Unstarted, Is, Idle
<1>4. w.status \in Status
  <2>1. r.todo \in Unanswered => ~Idle(r)
    BY UnansweredRuns
  <2>2. Expected(t, w.status) => w.status \in {"thinking", "listening"}
    BY <1>1 DEF Expected, Nears, Faces, Is
  <2> QED
    BY <1>3, <2>1, <2>2 DEF Fit, Standing, Status
<1> QED
  BY <1>1, <1>2, <1>3, <1>4 DEF Untold, Status, Nears, Faces, Is, Sets, Copies

\* The handler has the lock and sends.
LEMMA HandlerSends ==
  ASSUME NEW t \in TaskType, NEW r \in TaskType, NEW w \in State, NEW k \in State,
         Fit(t, r, w, k), Is(t, "flush"), Out(t) # <<>>,
         NEW l, l.todo = t.todo, l.phase = "sending", l.out = Out(t)
  PROVE  /\ Fit(l, r, w, k)
         /\ \A h : Knowing(t, r, w, h) => Knowing(l, r, w, h)
<1>1. /\ w # None /\ w.status \in Status /\ Head(t.todo).arg \notin Status
      /\ ~Nears(t, "interrupted") /\ ~Nears(t, "thinking") /\ ~Sets(t) /\ ~Copies(t)
  BY HandlerEvent
<1>2. l.todo = t.todo /\ l.phase = "sending" /\ l.out = Out(t)
  OBVIOUS
<1>3. ~Is(t, "to") /\ ~Is(t, "message") /\ ~Is(t, "spawn") /\ ~Idle(t)
  BY DEF Is, Idle
<1>4. Shapes(l, r)
  <2>1. ~Nears(t, "loading") /\ ~Nears(t, "ready")
    BY <1>3 DEF Nears, Faces
  <2> QED
    BY <1>2, <1>3, <2>1, SamePlace DEF Fit, Shapes
<1>5. Unstarted(l, r, w, k)
  BY <1>1, <1>2, <1>3, SamePlace DEF Fit, Unstarted
<1>6. Standing(l, r, w)
  <2>1. ~Nears(t, "listening") /\ ~Nears(t, "loading") /\ ~Nears(t, "ready")
    BY <1>3 DEF Nears, Faces
  <2>2. Expected(t, w.status) => Expected(l, w.status)
    BY <1>1, <1>2, <2>1, SamePlace DEF Expected
  <2> QED
    BY <2>2 DEF Fit, Standing
<1>7. Same(l, r, w, k)
  <2>1. ~Sets(l) /\ ~Copies(l)
    BY <1>2, <1>3, SamePlace DEF Sets, Copies
  <2> QED
    BY <1>1, <1>2, <2>1, SamePlace DEF Fit, Same
<1>8. ASSUME NEW h, Knowing(t, r, w, h) PROVE Knowing(l, r, w, h)
  <2>1. Telling(t, r, w, h)
    BY <1>1, <1>8 DEF Knowing
  <2>2. /\ Tells(l.out) <=> Tells(t.out)
        /\ EndsWith(t.out, w.status) => EndsWith(l.out, w.status)
        /\ (\A i \in DOMAIN t.out : t.out[i] # "thinking")
             => \A i \in DOMAIN l.out : l.out[i] # "thinking"
    BY <1>1, <1>2, OutTells
  <2>3. Is(l, "flush") /\ ~Is(l, "spawn") /\ ~Idle(l) /\ ~Nears(l, "interrupted")
    BY <1>1, <1>2, <1>3, SamePlace
  <2>4. Telling(l, r, w, h)
    BY <1>1, <2>1, <2>2, <2>3 DEF Telling
  <2> QED
    BY <1>1, <2>4 DEF Knowing
<1> QED
  BY <1>4, <1>5, <1>6, <1>7, <1>8 DEF Fit

\* What a client knows when the first of the events was sent.
Hears(k, h) == IF Out(k) # <<>> /\ Head(Out(k)) \in Status THEN Head(Out(k)) ELSE h


\* The task after an emit.
LEMMA EmittedIs ==
  ASSUME NEW k \in TaskType, Is(k, "flush")
  PROVE  LET l == Emitted(k) IN
         \/ /\ Out(k) # <<>> /\ l.todo = k.todo /\ l.phase = "more" /\ l.out = Tail(Out(k))
         \/ /\ Out(k) = <<>> \/ Tail(Out(k)) = <<>>
            /\ \E j \in TaskType : /\ j.todo = k.todo /\ j.out = <<>> /\ j.s = k.s
                                   /\ l = Done(j)
<1> DEFINE o == Out(k)
<1>1. o \in Seq(Events \cup Messages)
  BY OutType DEF Is, Idle
<1>2. CASE Len(o) <= 1
  <2> DEFINE j == [k EXCEPT !.out = <<>>]
  <2>1. j \in TaskType /\ j.todo = k.todo /\ j.out = <<>> /\ j.s = k.s
    BY EmptySeq DEF TaskType
  <2>2. o = <<>> \/ Tail(o) = <<>>
    <3> HIDE DEF o
    <3> QED
      BY <1>1, <1>2, ToldFirst
  <2> QED
    BY <1>2, <2>1, <2>2 DEF Emitted
<1>3. CASE ~(Len(o) <= 1)
  <2>1. o # <<>>
    BY <1>3, EmptySeq
  <2>2. Emitted(k) = [k EXCEPT !.out = Tail(o), !.phase = "more"]
    BY <1>3 DEF Emitted
  <2> QED
    BY <2>1, <2>2 DEF TaskType
<1> QED
  BY <1>2, <1>3

\* What is left of the events, and what the client heard of them.
LEMMA HearsFirst ==
  ASSUME NEW k \in TaskType, Is(k, "flush"), Head(k.todo).arg \notin Status,
         NEW out, out = IF Out(k) = <<>> THEN <<>> ELSE Tail(Out(k)),
         NEW y \in Status, Tells(k.out) => EndsWith(k.out, y),
         NEW h
  PROVE  /\ Tells(out) => Tells(k.out) /\ EndsWith(out, y)
         /\ (Tells(k.out) /\ ~Tells(out)) => Hears(k, h) = y
         /\ ~Tells(k.out) => ~Tells(out) /\ Hears(k, h) = h
         /\ (\A i \in DOMAIN k.out : k.out[i] # "thinking")
              => \A i \in DOMAIN out : out[i] # "thinking"
<1>1. /\ Out(k) \in Seq(Events \cup Messages)
      /\ Tells(Out(k)) <=> Tells(k.out)
      /\ EndsWith(k.out, y) => EndsWith(Out(k), y)
      /\ (\A i \in DOMAIN k.out : k.out[i] # "thinking")
           => \A i \in DOMAIN Out(k) : Out(k)[i] # "thinking"
  BY OutTells
<1> DEFINE o == Out(k)
<1>2. CASE o = <<>>
  <2>1. ~Tells(o) /\ out = o
    BY <1>2, EmptySeq DEF Tells
  <2> QED
    BY <1>1, <1>2, <2>1 DEF Hears
<1>3. CASE o # <<>>
  <2>1. out = Tail(o) /\ Hears(k, h) = IF Head(o) \in Status THEN Head(o) ELSE h
    BY <1>3 DEF Hears
  <2>2. /\ Tells(o) <=> (Head(o) \in Status \/ Tells(Tail(o)))
        /\ EndsWith(o, y) => IF Tells(Tail(o)) THEN EndsWith(Tail(o), y)
                             ELSE Head(o) \in Status => Head(o) = y
        /\ (\A i \in DOMAIN o : o[i] # "thinking")
             => \A i \in DOMAIN Tail(o) : Tail(o)[i] # "thinking"
    <3>1. o \in Seq(Events \cup Messages)
      BY <1>1
    <3> HIDE DEF o
    <3> QED
      BY <1>3, <3>1, ToldFirst
  <2> QED
    BY <1>1, <2>1, <2>2
<1> QED
  BY <1>2, <1>3

\* An event of the handler is out.
LEMMA HandlerEmits ==
  ASSUME NEW t \in TaskType, NEW r \in TaskType, NEW w \in State, NEW k \in State,
         Fit(t, r, w, k), Is(t, "flush")
  PROVE  /\ Fit(Emitted(t), r, w, k)
         /\ \A h : Knowing(t, r, w, h) => Knowing(Emitted(t), r, w, Hears(t, h))
<1> DEFINE l == Emitted(t)
<1>1. /\ w # None /\ w.status \in Status /\ Head(t.todo).arg \notin Status
      /\ ~Nears(t, "interrupted") /\ ~Nears(t, "thinking") /\ ~Sets(t) /\ ~Copies(t)
      /\ Head(t.todo).arg \in Untold \cup {""}
  BY HandlerEvent
<1>2. /\ ~Idle(t) /\ Path(t.todo) /\ Head(t.todo).do = "flush"
  BY DEF Fit, Shapes, Is, Idle
<1>3. l.out = IF Out(t) = <<>> THEN <<>> ELSE Tail(Out(t))
  <2>1. ASSUME NEW j \in TaskType, j.todo = t.todo, j.out = <<>> PROVE Done(j).out = <<>>
    <3>1. NoTask.out = <<>>
      BY DEF NoTask
    <3>2. Done(j) = NoTask \/ Done(j).out = j.out
      BY <1>2, <2>1, DonePath DEF Idle
    <3> QED
      BY <2>1, <3>1, <3>2
  <2> QED
    BY <2>1, EmittedIs
<1>4. \/ l.todo = t.todo /\ l.phase = "more"
      \/ /\ l.phase = "run" /\ l.out = <<>> /\ Path(l.todo)
         /\ IF Faces(t, "flush", "") THEN Is(l, "spawn") ELSE Idle(l)
  <2>1. ASSUME NEW j \in TaskType, j.todo = t.todo, j.out = <<>>
        PROVE  /\ Done(j).phase = "run" /\ Done(j).out = <<>> /\ Path(Done(j).todo)
               /\ IF Faces(t, "flush", "") THEN Is(Done(j), "spawn") ELSE Idle(Done(j))
    <3>1. \/ Final(Head(j.todo)) /\ Done(j) = NoTask
          \/ /\ ~Final(Head(j.todo)) /\ ~Idle(Done(j)) /\ Path(Done(j).todo)
             /\ Done(j).phase = "run" /\ Done(j).out = <<>>
             /\ Follows(Head(j.todo), Head(Done(j).todo))
      BY <1>2, <2>1, DonePath DEF Idle
    <3>2. CASE Final(Head(j.todo)) /\ Done(j) = NoTask
      <4>1. ~Faces(t, "flush", "")
        BY <1>2, <2>1, <3>2 DEF Final, Faces, Untold
      <4>2. NoTask.phase = "run" /\ NoTask.out = <<>> /\ NoTask.todo = <<>>
        BY DEF NoTask
      <4> QED
        BY <3>2, <4>1, <4>2 DEF Idle, Path
    <3>3. CASE /\ ~Final(Head(j.todo)) /\ ~Idle(Done(j)) /\ Path(Done(j).todo)
               /\ Done(j).phase = "run" /\ Done(j).out = <<>>
               /\ Follows(Head(j.todo), Head(Done(j).todo))
      <4>1. Faces(t, "flush", "")
        BY <1>1, <1>2, <2>1, <3>3 DEF Final, Faces, Is, Idle
      <4> QED
        BY <1>2, <2>1, <3>3, <4>1 DEF Follows, Is, Idle
    <3> QED
      BY <3>1, <3>2, <3>3
  <2>2. CASE l.todo = t.todo /\ l.phase = "more"
    BY <2>2
  <2>3. CASE \E j \in TaskType : j.todo = t.todo /\ j.out = <<>> /\ l = Done(j)
    <3>1. PICK j \in TaskType : j.todo = t.todo /\ j.out = <<>> /\ l = Done(j)
      BY <2>3
    <3> HIDE DEF l
    <3> QED
      BY <2>1, <3>1
  <2> HIDE DEF l
  <2>4. l = Emitted(t)
    BY DEF l
  <2> QED
    BY <2>2, <2>3, <2>4, EmittedIs
<1> HIDE DEF l
<1>5. \/ l.todo = t.todo
      \/ Is(l, "spawn") /\ ~Idle(l) /\ Faces(t, "flush", "")
      \/ Idle(l) /\ ~Faces(t, "flush", "")
  <2>1. Is(l, "spawn") => ~Idle(l)
    BY DEF Is, Idle
  <2> QED
    BY <1>4, <2>1
<1>6. ~Is(l, "to") /\ ~Is(l, "message") /\ ~Is(l, "write") /\ ~Is(l, "enter")
  <2>1. ~Is(t, "to") /\ ~Is(t, "message") /\ ~Is(t, "write") /\ ~Is(t, "enter")
    BY <1>2 DEF Is
  <2> QED
    BY <1>5, <2>1, SamePlace DEF Is, Idle
<1>7. Shapes(l, r)
  <2>1. Path(l.todo) /\ l.phase # "sending"
    BY <1>2, <1>4
  <2>2. ~Idle(r) => Yields(l)
    <3>1. ~Idle(r) => ~Faces(t, "flush", "") /\ Yields(t)
      BY ReplyHasIt
    <3> QED
      BY <1>5, <3>1, SamePlace DEF Yields
  <2> QED
    BY <1>6, <2>1, <2>2 DEF Fit, Shapes, Nears, Faces
<1>8. Unstarted(l, r, w, k)
  BY <1>1, <1>6 DEF Unstarted
<1>9. Standing(l, r, w)
  <2>1. ~Is(t, "to") /\ ~Is(t, "spawn")
    BY <1>2 DEF Is
  <2>2. Expected(t, w.status) => Expected(l, w.status)
    <3>1. CASE l.todo = t.todo
      BY <1>6, <2>1, <3>1, SamePlace DEF Expected, Nears, Faces
    <3>2. CASE Is(l, "spawn") /\ Faces(t, "flush", "")
      BY <1>6, <2>1, <3>2 DEF Expected, Nears, Faces
    <3>3. CASE Idle(l) /\ ~Faces(t, "flush", "")
      BY <1>6, <2>1, <3>3 DEF Expected, Nears, Faces, Is, Idle
    <3> QED
      BY <1>5, <3>1, <3>2, <3>3
  <2> QED
    BY <2>2 DEF Fit, Standing
<1>10. Same(l, r, w, k)
  <2>1. ~Sets(l) /\ ~Copies(l)
    BY <1>6 DEF Sets, Copies
  <2> QED
    BY <1>1, <2>1 DEF Fit, Same
<1>11. ASSUME NEW h, Knowing(t, r, w, h) PROVE Knowing(l, r, w, Hears(t, h))
  <2> DEFINE g == Hears(t, h)
  <2>1. Telling(t, r, w, h)
    BY <1>1, <1>11 DEF Knowing
  <2>2. Tells(t.out) => EndsWith(t.out, w.status)
    BY <1>1, <2>1 DEF Telling
  <2>3. /\ Tells(l.out) => Tells(t.out) /\ EndsWith(l.out, w.status)
        /\ (Tells(t.out) /\ ~Tells(l.out)) => g = w.status
        /\ ~Tells(t.out) => ~Tells(l.out) /\ g = h
        /\ (\A i \in DOMAIN t.out : t.out[i] # "thinking")
             => \A i \in DOMAIN l.out : l.out[i] # "thinking"
    <3>1. PICK o, y : /\ o = IF Out(t) = <<>> THEN <<>> ELSE Tail(Out(t))
                      /\ y = w.status
      OBVIOUS
    <3>2. /\ t \in TaskType /\ Is(t, "flush") /\ Head(t.todo).arg \notin Status
          /\ y \in Status
          /\ Tells(t.out) => EndsWith(t.out, y)
      BY <1>1, <2>2, <3>1
    <3>3. /\ Tells(o) => Tells(t.out) /\ EndsWith(o, y)
          /\ (Tells(t.out) /\ ~Tells(o)) => Hears(t, h) = y
          /\ ~Tells(t.out) => ~Tells(o) /\ Hears(t, h) = h
      BY <3>1, <3>2, HearsFirst
    <3>4. (\A i \in DOMAIN t.out : t.out[i] # "thinking")
            => \A i \in DOMAIN o : o[i] # "thinking"
      BY <3>1, <3>2, HearsFirst
    <3>5. o = l.out
      BY <1>3, <3>1
    <3> QED
      BY <3>1, <3>3, <3>4, <3>5
  <2>4. (Is(l, "spawn") \/ Idle(l)) => ~Tells(l.out)
    <3>1. l.todo = t.todo => ~Is(l, "spawn") /\ ~Idle(l)
      BY <1>2 DEF Is, Idle
    <3>2. l.out = <<>> => ~Tells(l.out)
      BY EmptySeq DEF Tells
    <3> QED
      BY <1>4, <3>1, <3>2
  <2> HIDE DEF g
  <2>5. Telling(l, r, w, g)
    BY <1>1, <2>1, <2>3, <2>4 DEF Telling
  <2> QED
    BY <1>1, <2>5 DEF Knowing, g
<1> QED
  BY <1>7, <1>8, <1>9, <1>10, <1>11 DEF Fit, l

\* The event of the reply that is collected.
LEMMA ReplyEvent ==
  ASSUME NEW t \in TaskType, NEW r \in TaskType, NEW w \in State, NEW k \in State,
         Fit(t, r, w, k), Is(r, "flush")
  PROVE  /\ ~Idle(r) /\ r.todo \in Unanswered \cup Answered /\ w # None
         /\ ~Is(r, "to") /\ ~Is(r, "finally") /\ ~Is(r, "complete")
         /\ \/ Faces(r, "flush", "llm.delta") /\ r.todo \in Unanswered
            \/ Faces(r, "flush", "") /\ r.todo \notin Unanswered
         /\ Head(r.todo).arg \notin Status
<1>1. ~Idle(r) /\ r.todo \in Unanswered \cup Answered /\ ~Is(r, "to") /\ ~Is(r, "finally")
      /\ ~Is(r, "complete")
  BY DEF Fit, Shapes, Is, Idle
<1>2. w # None /\ (r.todo \in Unanswered <=> Early(r)) /\ (Early(r) \/ Late(r))
  BY <1>1, ReplyHasIt, ReplyPlaces
<1> QED
  BY <1>1, <1>2 DEF Early, Late, Faces, Is, Status

\* The reply has the lock and sends.
LEMMA ReplySends ==
  ASSUME NEW t \in TaskType, NEW r \in TaskType, NEW w \in State, NEW k \in State,
         Fit(t, r, w, k), Is(r, "flush"), Out(r) # <<>>,
         NEW l, l.todo = r.todo, l.phase = "sending", l.out = Out(r)
  PROVE  /\ Fit(t, l, w, k)
         /\ \A h : Knowing(t, r, w, h) => Knowing(t, l, w, h)
<1>1. /\ ~Idle(r) /\ r.todo \in Unanswered \cup Answered /\ w # None
      /\ ~Is(r, "to") /\ ~Is(r, "finally") /\ Head(r.todo).arg \notin Status
  BY ReplyEvent
<1>2. l.todo = r.todo /\ l.phase = "sending" /\ l.out = Out(r)
  OBVIOUS
<1>3. Shapes(t, l)
  BY <1>1, <1>2, SamePlace DEF Fit, Shapes
<1>4. Unstarted(t, l, w, k)
  BY <1>1 DEF Fit, Unstarted
<1>5. Standing(t, l, w)
  BY <1>1, <1>2, SamePlace DEF Fit, Standing
<1>6. Same(t, l, w, k)
  <2>1. ~Sets(l) /\ ~Copies(l) /\ ~Sets(r)
    BY <1>1, <1>2, SamePlace DEF Sets, Copies
  <2> QED
    BY <2>1 DEF Fit, Same
<1>7. ASSUME NEW h, Knowing(t, r, w, h) PROVE Knowing(t, l, w, h)
  <2>1. Telling(t, r, w, h)
    BY <1>1, <1>7 DEF Knowing
  <2>2. "listening" \in Status
    BY DEF Status
  <2>3. /\ Tells(l.out) <=> Tells(r.out)
        /\ EndsWith(r.out, "listening") => EndsWith(l.out, "listening")
    BY <1>1, <1>2, <2>2, OutTells
  <2>4. ~Idle(l) /\ ~Is(l, "finally")
    BY <1>1, <1>2, SamePlace
  <2>5. Telling(t, l, w, h)
    BY <1>1, <1>2, <2>1, <2>3, <2>4 DEF Telling
  <2> QED
    BY <1>1, <2>5 DEF Knowing
<1> QED
  BY <1>3, <1>4, <1>5, <1>6, <1>7 DEF Fit

\* An event of the reply is out.
LEMMA ReplyEmits ==
  ASSUME NEW t \in TaskType, NEW r \in TaskType, NEW w \in State, NEW k \in State,
         Fit(t, r, w, k), Is(r, "flush")
  PROVE  /\ Fit(t, Emitted(r), w, k)
         /\ \A h : Knowing(t, r, w, h) => Knowing(t, Emitted(r), w, Hears(r, h))
<1> DEFINE l == Emitted(r)
<1>1. /\ ~Idle(r) /\ r.todo \in Unanswered \cup Answered /\ w # None
      /\ ~Is(r, "to") /\ ~Is(r, "finally") /\ ~Is(r, "complete")
      /\ \/ Faces(r, "flush", "llm.delta") /\ r.todo \in Unanswered
         \/ Faces(r, "flush", "") /\ r.todo \notin Unanswered
      /\ Head(r.todo).arg \notin Status
  BY ReplyEvent
<1>2. ASSUME NEW j \in TaskType, j.todo = r.todo, j.out = <<>>
      PROVE  /\ Done(j).phase = "run" /\ Done(j).out = <<>> /\ ~Idle(Done(j))
             /\ Done(j).todo \in Unanswered \cup Answered /\ ~Is(Done(j), "to")
             /\ \/ Faces(r, "flush", "llm.delta") /\ Is(Done(j), "complete")
                \/ Faces(r, "flush", "") /\ Is(Done(j), "finally")
             /\ Done(j).todo \in Unanswered <=> r.todo \in Unanswered
  <2>1. /\ ~Idle(j) /\ ~Is(j, "finally") /\ j.todo \in Unanswered \cup Answered
        /\ Faces(j, "flush", "llm.delta") <=> Faces(r, "flush", "llm.delta")
        /\ Faces(j, "flush", "") <=> Faces(r, "flush", "")
    BY <1>1, <1>2, SamePlace
  <2>2. /\ Done(j).phase = "run" /\ Done(j).out = <<>> /\ ~Idle(Done(j))
        /\ Done(j).todo \in Unanswered \cup Answered
    BY <1>2, <2>1, ReplyDone
  <2>3. \/ Faces(r, "flush", "llm.delta") /\ Is(Done(j), "complete")
        \/ Faces(r, "flush", "") /\ Is(Done(j), "finally")
    BY <1>1, <2>1, ReplyDone
  <2>4. Done(j) \in TaskType
    BY <2>1, DoneType
  <2>5. Done(j).todo \in Unanswered <=> Early(Done(j))
    BY <2>2, <2>4, ReplyPlaces
  <2>6. ~Is(Done(j), "to")
    BY <2>3 DEF Is
  <2>7. Done(j).todo \in Unanswered <=> r.todo \in Unanswered
    BY <1>1, <2>3, <2>5 DEF Early, Faces, Is
  <2> QED
    BY <2>2, <2>3, <2>6, <2>7
<1>3. /\ l.out = IF Out(r) = <<>> THEN <<>> ELSE Tail(Out(r))
      /\ l.phase # "sending" /\ ~Idle(l) /\ ~Is(l, "to")
      /\ l.todo \in Unanswered \cup Answered
      /\ l.todo \in Unanswered <=> r.todo \in Unanswered
      /\ Is(l, "finally") => l.out = <<>>
  <2>1. l.out = IF Out(r) = <<>> THEN <<>> ELSE Tail(Out(r))
    BY <1>2, EmittedIs
  <2>2. CASE Out(r) # <<>> /\ l.todo = r.todo /\ l.phase = "more"
    BY <1>1, <2>1, <2>2, SamePlace
  <2>3. CASE \E j \in TaskType : j.todo = r.todo /\ j.out = <<>> /\ l = Done(j)
    BY <1>2, <2>1, <2>3
  <2> QED
    BY <2>2, <2>3, EmittedIs
<1> HIDE DEF l
<1>4. Shapes(t, l)
  BY <1>1, <1>3 DEF Fit, Shapes
<1>5. Unstarted(t, l, w, k)
  BY <1>1 DEF Fit, Unstarted
<1>6. Standing(t, l, w)
  BY <1>1, <1>3 DEF Fit, Standing
<1>7. Same(t, l, w, k)
  <2>1. ~Sets(l) /\ ~Copies(l) /\ ~Sets(r)
    BY <1>1, <1>3 DEF Sets, Copies
  <2> QED
    BY <2>1 DEF Fit, Same
<1>8. ASSUME NEW h, Knowing(t, r, w, h) PROVE Knowing(t, l, w, Hears(r, h))
  <2> DEFINE g == Hears(r, h)
  <2>1. Telling(t, r, w, h) /\ ~Nears(t, "interrupted")
    BY <1>1, <1>8, ReplyHasIt DEF Knowing
  <2>2. Tells(r.out) => EndsWith(r.out, "listening") /\ w.status = "listening"
    BY <2>1 DEF Telling
  <2>3. "listening" \in Status
    BY DEF Status
  <2>4. /\ Tells(l.out) => Tells(r.out) /\ EndsWith(l.out, "listening")
        /\ (Tells(r.out) /\ ~Tells(l.out)) => g = "listening"
        /\ ~Tells(r.out) => ~Tells(l.out) /\ g = h
    <3>1. /\ r \in TaskType /\ Is(r, "flush") /\ Head(r.todo).arg \notin Status
          /\ Tells(r.out) => EndsWith(r.out, "listening")
      BY <1>1, <2>2
    <3>2. l.out = IF Out(r) = <<>> THEN <<>> ELSE Tail(Out(r))
      BY <1>3
    <3> QED
      BY <2>3, <3>1, <3>2, HearsFirst
  <2>5. l.out = <<>> => ~Tells(l.out)
    BY EmptySeq DEF Tells
  <2> HIDE DEF g
  <2>6. Telling(t, l, w, g)
    BY <1>1, <1>3, <2>1, <2>2, <2>4, <2>5 DEF Telling
  <2> QED
    BY <1>1, <2>6 DEF Knowing, g
<1> QED
  BY <1>4, <1>5, <1>6, <1>7, <1>8 DEF Fit, l

-----------------------------------------------------------------------------
(* A step that touches one session.                                        *)

Heard == [Socket -> [Session -> Status \cup {"none"}]]
Apart(a) ==
  /\ via' = via /\ issued' = issued /\ torn \subseteq torn' /\ raced \subseteq raced'
  /\ heard' \in Heard
  /\ \A d \in Socket : /\ link'[d] = "open" => link[d] = "open"
                       /\ link'[d] = "new" => link[d] = "new"
  /\ \A s \in Session \ {a} : workers'[s] = workers[s] /\ record'[s] = record[s]
  /\ \A s \in Session \ {a}, d \in Socket : heard'[d][s] = heard[d][s]

\* A task of a session is what its runner has to do for that, and for no other.
LEMMA OfIs ==
  ASSUME NEW k, NEW s
  PROVE  /\ ~Idle(k) /\ k.s = s => Of(k, s) = k
         /\ Idle(k) \/ k.s # s => Of(k, s) = NoTask
         /\ Idle(Of(k, s)) => Of(k, s) = NoTask
         /\ Of(NoTask, s) = NoTask
BY DEF Of, Idle, NoTask

\* The part of a task that is about a session is a task.
LEMMA OfType ==
  ASSUME TasksTyped, NEW c \in Socket, NEW s
  PROVE  Of(task[c], s) \in TaskType /\ Of(reply[c], s) \in TaskType
BY NoTaskType DEF TasksTyped, Of

\* What is kept for the other sessions, when one session changes.
LEMMA SameElse ==
  ASSUME NEW a, Settling, NEW c \in Socket, c \in via[a], Apart(a),
         \A d \in Socket, s \in Session \ {a} :
           Of(task'[d], s) = Of(task[d], s) /\ Of(reply'[d], s) = Of(reply[d], s),
         a \in Session => (Alone(a, c) /\ Alone(a, c)' => Fitting(a, c)')
  PROVE  Settling'
<1> SUFFICES ASSUME NEW s \in Session, NEW d \in Socket, Alone(s, d)' PROVE Fitting(s, d)'
  BY DEF Settling
<1>1. Alone(s, d)
  BY DEF Alone, Apart
<1>2. CASE s = a
  <2>1. d = c
    BY <1>1, <1>2 DEF Alone
  <2> QED
    BY <1>1, <1>2, <2>1
<1>3. CASE s # a
  <2>1. Fitting(s, d)
    BY <1>1 DEF Settling
  <2>2. /\ Of(task[d], s)' = Of(task[d], s) /\ Of(reply[d], s)' = Of(reply[d], s)
        /\ workers'[s] = workers[s] /\ record'[s] = record[s] /\ heard'[d][s] = heard[d][s]
        /\ link'[d] = "open" => link[d] = "open"
    BY <1>3 DEF Apart, Of
  <2> QED
    BY <2>1, <2>2 DEF Fitting, Matches, Creates
<1> QED
  BY <1>2, <1>3

\* Sessions that no socket uses stay as they were created.
LEMMA UnusedElse ==
  ASSUME NEW a, Unused, LetGoInv, Apart(a),
         NEW c \in Socket, c \in via[a]
  PROVE  Unused'
<1>1. ASSUME NEW s \in Session, via'[s] = {}
      PROVE  /\ workers'[s] = None /\ record'[s] \in {None, Fresh}
             /\ \A d \in Socket : heard'[d][s] = "none"
  BY <1>1 DEF Unused, Apart
<1>2. ASSUME NEW s \in Session, s \notin issued' PROVE record'[s] = None
  BY <1>2 DEF Unused, Apart, LetGoInv, Ways
<1> QED
  BY <1>1, <1>2 DEF Unused, Apart, Heard

\* A step of the handler of a socket, or of its reply.
LEMMA PlacesRun ==
  ASSUME ServerInv, LetGoInv, Owned, NEW c \in Socket
  PROVE  /\ ~Idle(task[c]) => task[c].s \in Session /\ c \in via[task[c].s]
         /\ ~Idle(reply[c]) => reply[c].s \in Session /\ c \in via[reply[c].s]
         /\ task[c] \in TaskType /\ reply[c] \in TaskType
         /\ At(<<"task", c>>) = task[c] /\ At(<<"reply", c>>) = reply[c]
         /\ <<"task", c>> \in Runners /\ <<"reply", c>> \in Runners
BY Typed, SocketTasks DEF LetGoInv, Ways, Owned, Runners

\* A reply that goes on is still its session's current one.
LEMMA OwnedStays ==
  ASSUME Owned, UNCHANGED <<current, via>>,
         \A c \in Socket : \/ reply'[c] = reply[c]
                           \/ /\ reply'[c].todo \in Unanswered \cup Answered
                              /\ ~Idle(reply[c]) /\ ~Idle(reply'[c])
                              /\ reply'[c].s = reply[c].s,
         LetGoInv
  PROVE  Owned'
<1>1. ASSUME NEW c \in Socket
      PROVE  /\ reply'[c].todo \in Unanswered \cup Answered
             /\ Idle(reply'[c]) <=> Idle(reply[c])
             /\ ~Idle(reply[c]) => reply'[c].s = reply[c].s
  BY DEF Owned
<1>2. \A s \in Session : current[s] # Nobody => current[s] \in Socket
  BY DEF LetGoInv, Ways
<1>3. \A s \in Session : current'[s] # Nobody =>
        ~Idle(reply'[current'[s]]) /\ reply'[current'[s]].s = s
  BY <1>1, <1>2 DEF Owned
<1> QED
  BY <1>1, <1>3 DEF Owned

\* What the requests have to do stays as it is.
LEMMA AskedStays ==
  ASSUME Asked, LetGoInv, TasksTyped, via' = via,
         \A h \in Request : task'[h] = task[h]
  PROVE  Asked'
BY DEF Asked

\* A step of a handler keeps the invariant if it fits its own session.
LEMMA TaskRuns ==
  ASSUME ServerInv, LetGoInv, SettleInv, NEW c \in Socket, ~Idle(task[c]),
         NEW l \in TaskType, Becomes(<<"task", c>>, l), ~Is(l, "write"),
         Idle(l) \/ l.s = task[c].s, Path(l.todo),
         NEW a, a = task[c].s, Apart(a), UNCHANGED current,
         NEW r, r = Of(reply[c], a),
         (Alone(a, c) /\ a \notin torn' \cup raced' /\ record'[a] # None) =>
           /\ l = NoTask \/ ~Idle(l)
           /\ Fit(l, r, workers'[a], record'[a])
           /\ link'[c] = "open" => Knowing(l, r, workers'[a], heard'[c][a])
  PROVE  SettleInv'
<1>1. a \in Session /\ c \in via[a] /\ TasksTyped /\ c \notin Request
  BY PlacesRun, Typed, ServerAssumption DEF SettleInv
<1>2. task' = [task EXCEPT ![c] = l] /\ reply' = reply
  BY DEF Becomes
<1>3. /\ task'[c] = l /\ \A d \in Socket \cup Request : d # c => task'[d] = task[d]
  BY <1>1, <1>2 DEF TasksTyped
<1>4. Owned'
  <2>1. via' = via
    BY DEF Apart
  <2> QED
    BY <1>2, <2>1, OwnedStays DEF SettleInv
<1>8. Paths'
  BY <1>3 DEF SettleInv, Paths
<1>5. Unused'
  BY <1>1, UnusedElse DEF SettleInv
<1>6. Asked'
  <2>1. \A h \in Request : task'[h] = task[h]
    BY <1>1, <1>3
  <2> QED
    BY <1>1, <2>1, AskedStays DEF SettleInv, Apart
<1>7. Settling'
  <2>1. \A d \in Socket, s \in Session \ {a} :
          Of(task'[d], s) = Of(task[d], s) /\ Of(reply'[d], s) = Of(reply[d], s)
    <3> SUFFICES ASSUME NEW d \in Socket, NEW s \in Session \ {a}
                 PROVE  Of(task'[d], s) = Of(task[d], s)
      BY <1>2
    <3>1. Of(task[c], s) = NoTask /\ Of(l, s) = NoTask
      BY OfIs
    <3> QED
      BY <1>3, <3>1
  <2>2. ASSUME Alone(a, c), Alone(a, c)' PROVE Fitting(a, c)'
    <3>1. Of(reply'[c], a) = r /\ Of(task'[c], a) = IF Idle(l) THEN NoTask ELSE l
      BY <1>2, <1>3, OfIs
    <3>2. ~Is(IF Idle(l) THEN NoTask ELSE l, "write")
      BY NoTaskType DEF Writes
    <3> QED
      BY <2>2, <3>1, <3>2 DEF Fitting, Creates, Matches, Alone
  <2> QED
    BY <1>1, <2>1, <2>2, SameElse DEF SettleInv
<1> QED
  BY <1>4, <1>5, <1>6, <1>7, <1>8 DEF SettleInv

\* So does a step of a reply.
LEMMA ReplyRuns ==
  ASSUME ServerInv, LetGoInv, SettleInv, NEW c \in Socket, ~Idle(reply[c]),
         NEW l \in TaskType, Becomes(<<"reply", c>>, l),
         ~Idle(l) /\ l.s = reply[c].s /\ l.todo \in Unanswered \cup Answered,
         NEW a, a = reply[c].s, Apart(a), UNCHANGED current,
         NEW t, t = Of(task[c], a),
         (Alone(a, c) /\ a \notin torn' \cup raced' /\ record'[a] # None) =>
           /\ Fit(t, l, workers'[a], record'[a])
           /\ link'[c] = "open" => Knowing(t, l, workers'[a], heard'[c][a])
  PROVE  SettleInv'
<1>1. a \in Session /\ c \in via[a] /\ TasksTyped
  BY PlacesRun, Typed DEF SettleInv
<1>2. reply' = [reply EXCEPT ![c] = l] /\ task' = task
  BY DEF Becomes
<1>3. /\ reply'[c] = l /\ \A d \in Socket : d # c => reply'[d] = reply[d]
  BY <1>1, <1>2 DEF TasksTyped
<1>4. Owned'
  <2>1. via' = via
    BY DEF Apart
  <2> QED
    BY <1>3, <2>1, OwnedStays DEF SettleInv
<1>5. Unused'
  BY <1>1, UnusedElse DEF SettleInv
<1>6. Asked'
  BY <1>1, <1>2, AskedStays DEF SettleInv, Apart
<1>9. Paths'
  BY <1>2 DEF SettleInv, Paths
<1>7. ~Is(t, "write")
  <2>1. At(<<"task", c>>) = task[c] /\ At(<<"reply", c>>) = reply[c]
        /\ <<"task", c>> \in Runners /\ <<"reply", c>> \in Runners
    BY PlacesRun DEF SettleInv
  <2>2. <<"task", c>> # <<"reply", c>>
    OBVIOUS
  <2>3. ~(Writes(task[c]) /\ task[c].s = a)
    BY <1>1, <2>1, <2>2 DEF ServerInv, OneCreator
  <2>4. ~Is(NoTask, "write")
    BY NoTaskType DEF Writes
  <2> QED
    BY <2>3, <2>4 DEF Of, Writes
<1>8. Settling'
  <2>1. \A d \in Socket, s \in Session \ {a} :
          Of(task'[d], s) = Of(task[d], s) /\ Of(reply'[d], s) = Of(reply[d], s)
    <3> SUFFICES ASSUME NEW d \in Socket, NEW s \in Session \ {a}
                 PROVE  Of(reply'[d], s) = Of(reply[d], s)
      BY <1>2
    <3>1. Of(reply[c], s) = NoTask /\ Of(l, s) = NoTask
      BY OfIs
    <3> QED
      BY <1>3, <3>1
  <2>2. ASSUME Alone(a, c), Alone(a, c)' PROVE Fitting(a, c)'
    <3>1. Of(task'[c], a) = t /\ Of(reply'[c], a) = l
      BY <1>2, <1>3, OfIs
    <3> QED
      BY <1>7, <2>2, <3>1 DEF Fitting, Creates, Matches, Alone
  <2> QED
    BY <1>1, <2>1, <2>2, SameElse DEF SettleInv
<1> QED
  BY <1>4, <1>5, <1>6, <1>8, <1>9 DEF SettleInv

-----------------------------------------------------------------------------
(* The updates.                                                            *)

\* Where nothing but tasks changes, the other sessions are as they were.
LEMMA StillApart ==
  ASSUME Unused, UNCHANGED <<redis, host, wires, history>>, NEW a
  PROVE  Apart(a) /\ UNCHANGED current
BY DEF Unused, Heard, Apart, redis, host, wires, history

\* A step that no request has is of a handler or a reply.
LEMMA SocketDoes ==
  ASSUME ServerInv, SettleInv, NEW q \in Runners, NEW d, Is(At(q), d), d \notin Asking
  PROVE  \E c \in Socket : q \in PlacesOf(c)
<1>1. ASSUME NEW h \in Request, q = <<"task", h>> PROVE FALSE
  <2>1. At(q) = task[h] /\ task[h].todo # <<>> /\ Head(task[h].todo).do = d
    BY <1>1 DEF At, Is
  <2>2. task[h] \in TaskType
    BY Typed DEF TasksTyped
  <2>3. 1 \in 1..Len(task[h].todo) /\ task[h].todo[1].do = d
    BY <2>1, <2>2, TaskLists
  <2> QED
    BY <2>3 DEF SettleInv, Asked
<1> QED
  BY <1>1 DEF Runners, PlacesOf

\* What the invariant says of a handler and a reply of c in the session a.
Standpoint(c, a, t, r, w, k) ==
  /\ a \in Session /\ t \in TaskType /\ r \in TaskType /\ w \in State /\ k \in State
  /\ (Alone(a, c) /\ k # None) =>
       Fit(t, r, w, k) /\ (link[c] = "open" => Knowing(t, r, w, heard[c][a]))
  /\ k # None => k.status \in Status

\* It holds of the handler that makes a step.
LEMMA TaskFits ==
  ASSUME ServerInv, LetGoInv, SettleInv, NEW c \in Socket, ~Idle(task[c]),
         NEW a, a = task[c].s
  PROVE  /\ Standpoint(c, a, task[c], Of(reply[c], a), workers[a], record[a])
         /\ At(<<"task", c>>) = task[c] /\ Path(task[c].todo)
         /\ Idle(Of(reply[c], a)) => Of(reply[c], a).out = <<>>
         /\ ~Idle(Of(reply[c], a)) => Of(reply[c], a) = reply[c] /\ Of(reply[c], a).s = a
<1>1. /\ a \in Session /\ task[c] \in TaskType /\ At(<<"task", c>>) = task[c]
      /\ Path(task[c].todo)
  BY PlacesRun DEF SettleInv, Paths
<1>2. Of(reply[c], a) \in TaskType /\ workers[a] \in State /\ record[a] \in State
  BY <1>1, OfType, Typed DEF ServerInv, ServerTypes
<1>3. Of(task[c], a) = task[c]
  BY OfIs
<1>4. Idle(Of(reply[c], a)) => Of(reply[c], a).out = <<>>
  BY OfIs DEF NoTask
<1>5. record[a] # None => record[a].status \in Status
  BY <1>1, <1>2 DEF ServerInv, WhatIsReadLives, Live, State
<1>6. ~Idle(Of(reply[c], a)) => Of(reply[c], a) = reply[c] /\ reply[c].s = a
  BY NoTaskType DEF Of
<1> QED
  BY <1>1, <1>2, <1>3, <1>4, <1>5, <1>6 DEF Standpoint, SettleInv, Settling, Fitting, Matches

\* And of a reply that makes one.
LEMMA ReplyFits ==
  ASSUME ServerInv, LetGoInv, SettleInv, NEW c \in Socket, ~Idle(reply[c]),
         NEW a, a = reply[c].s
  PROVE  /\ Standpoint(c, a, Of(task[c], a), reply[c], workers[a], record[a])
         /\ At(<<"reply", c>>) = reply[c] /\ reply[c].todo \in Unanswered \cup Answered
<1>1. /\ a \in Session /\ reply[c] \in TaskType /\ At(<<"reply", c>>) = reply[c]
      /\ reply[c].todo \in Unanswered \cup Answered
  BY PlacesRun DEF SettleInv, Owned
<1>2. Of(task[c], a) \in TaskType /\ workers[a] \in State /\ record[a] \in State
  BY <1>1, OfType, Typed DEF ServerInv, ServerTypes
<1>3. Of(reply[c], a) = reply[c]
  BY OfIs
<1>4. record[a] # None => record[a].status \in Status
  BY <1>1, <1>2 DEF ServerInv, WhatIsReadLives, Live, State
<1> QED
  BY <1>1, <1>2, <1>3, <1>4 DEF Standpoint, SettleInv, Settling, Fitting, Matches

\* The tasks a handler and a reply go on with.
LEMMA DoneRuns ==
  ASSUME NEW k \in TaskType, ~Idle(k)
  PROVE  /\ Done(k) \in TaskType /\ ~Is(Done(k), "write")
         /\ Done(k) = NoTask \/ (~Idle(Done(k)) /\ Done(k).s = k.s)
         /\ Path(k.todo) => Path(Done(k).todo)
<1>1. /\ Done(k) \in TaskType /\ Done(k).todo \in Seq(Further)
      /\ Idle(Done(k)) \/ Done(k).s = k.s
  BY DoneType
<1>2. ~Is(Done(k), "write")
  BY <1>1, FurtherIsTodo DEF Is, Further
<1>3. Idle(Done(k)) => Done(k) = NoTask
  <2>1. CASE Len(k.todo) = 1
    BY <2>1 DEF Done
  <2>2. CASE Len(k.todo) # 1
    <3>1. Done(k).todo = Tail(k.todo)
      BY <2>2 DEF Done, TaskType
    <3>2. Len(Tail(k.todo)) # 0
      BY <2>2, TaskLists DEF Idle
    <3>3. Tail(k.todo) # <<>>
      BY <3>2, EmptySeq
    <3> QED
      BY <3>1, <3>3 DEF Idle
  <2> QED
    BY <2>1, <2>2
<1>4. Path(k.todo) => Path(Done(k).todo)
  <2>1. Path(NoTask.todo)
    BY DEF NoTask, Path
  <2> QED
    BY <2>1, DonePath
<1> QED
  BY <1>1, <1>2, <1>3, <1>4

\* The task a failing handler or reply goes on with.
LEMMA ErrorRuns ==
  ASSUME NEW k \in TaskType,
         NEW l, l = [k EXCEPT !.todo = <<Flush("error")>>, !.phase = "run", !.out = <<>>]
  PROVE  /\ l \in TaskType /\ ~Is(l, "write") /\ ~Idle(l) /\ l.s = k.s
         /\ l.todo = <<Flush("error")>> /\ l.phase = "run" /\ l.out = <<>>
         /\ Path(l.todo)
<1>1. <<Flush("error")>> \in Todo
  BY ShortLists, StepKinds, FurtherIsTodo DEF Events
<1>2. /\ l \in TaskType /\ l.todo = <<Flush("error")>> /\ l.s = k.s
      /\ l.phase = "run" /\ l.out = <<>>
  BY <1>1, EmptySeq DEF TaskType, Phase
<1> QED
  BY <1>2, ErrorPath DEF Is

\* The GET of an update.
LEMMA UpdateGetSettles ==
  ASSUME ServerInv, LetGoInv, SettleInv, NEW q \in Runners, UpdateGet(q)
  PROVE  SettleInv'
<1>1. Is(At(q), "to") /\ At(q).phase = "run"
  BY DEF UpdateGet
<1>2. PICK c \in Socket : q \in PlacesOf(c)
  BY <1>1, SocketDoes DEF Asking
<1>3. PICK a : a = At(q).s
  OBVIOUS
<1>4. Apart(a) /\ UNCHANGED <<current, record, workers, heard, link>>
  BY StillApart DEF UpdateGet, SettleInv, redis, host, wires
<1>5. PICK w, k : w = workers[a] /\ k = record[a]
  OBVIOUS
<1>6. CASE q = <<"task", c>>
  <2>1. PICK t, r : t = task[c] /\ r = Of(reply[c], a)
    OBVIOUS
  <2>2. At(q) = t /\ ~Idle(task[c]) /\ a = task[c].s /\ Is(t, "to") /\ t.phase = "run"
    BY <1>1, <1>3, <1>6, <2>1 DEF At, Is, Idle
  <2>3. /\ a \in Session /\ t \in TaskType /\ r \in TaskType /\ w \in State /\ k \in State
        /\ (Alone(a, c) /\ k # None) =>
             Fit(t, r, w, k) /\ (link[c] = "open" => Knowing(t, r, w, heard[c][a]))
        /\ k # None => k.status \in Status
        /\ Path(t.todo)
    <3>1. Standpoint(c, a, t, r, w, k)
      BY <1>5, <2>1, <2>2, TaskFits
    <3> QED
      BY <1>5, <2>1, <2>2, <3>1, TaskFits DEF Standpoint
  <2>4. /\ workers'[a] = w /\ record'[a] = k /\ heard'[c][a] = heard[c][a]
        /\ link'[c] = "open" => link[c] = "open"
    BY <1>4, <1>5
  <2> DEFINE x == Head(t.todo).arg
  <2>5. CASE ~CanTransition(w.status, x)
    <3>1. Becomes(q, Done(t))
      BY <1>3, <1>5, <2>2, <2>5 DEF UpdateGet
    <3>2. /\ Done(t) \in TaskType /\ ~Is(Done(t), "write")
          /\ Done(t) = NoTask \/ (~Idle(Done(t)) /\ Done(t).s = a)
          /\ Path(Done(t).todo)
      BY <2>1, <2>2, <2>3, DoneRuns
    <3>3. (Alone(a, c) /\ record'[a] # None) =>
            /\ Done(t) = NoTask \/ ~Idle(Done(t))
            /\ Fit(Done(t), r, workers'[a], record'[a])
            /\ link'[c] = "open" => Knowing(Done(t), r, workers'[a], heard'[c][a])
      <4> SUFFICES ASSUME Alone(a, c), k # None
                   PROVE  /\ Fit(Done(t), r, w, k)
                          /\ \A h : Knowing(t, r, w, h) => Knowing(Done(t), r, w, h)
        BY <2>3, <2>4, <3>2
      <4>1. Fit(t, r, w, k)
        BY <2>3
      <4> QED
        BY <4>1, <2>2, <2>3, <2>5, HandlerStays
    <3>4. Idle(Done(t)) \/ Done(t).s = a
      BY <3>2, NoTaskType
    <3> QED
      BY <1>4, <1>6, <2>1, <2>2, <3>1, <3>2, <3>3, <3>4, TaskRuns
  <2>6. CASE CanTransition(w.status, x) /\ (k = None \/ ~CanTransition(k.status, x))
    <3>1. PICK l : l = [t EXCEPT !.todo = <<Flush("error")>>, !.phase = "run", !.out = <<>>]
      OBVIOUS
    <3>2. Becomes(q, l)
      <4>1. Raises(q)
        BY <1>3, <1>5, <2>2, <2>6 DEF UpdateGet, Copy
      <4>2. q[1] = "task" /\ q[2] \in Socket
        BY <1>6
      <4> QED
        BY <2>2, <3>1, <4>1, <4>2 DEF Raises
    <3>3. /\ l \in TaskType /\ ~Is(l, "write") /\ ~Idle(l) /\ l.s = a
          /\ l.todo = <<Flush("error")>> /\ l.phase = "run" /\ l.out = <<>>
          /\ Path(l.todo)
      BY <2>1, <2>2, <2>3, <3>1, ErrorRuns
    <3>4. (Alone(a, c) /\ record'[a] # None) =>
            /\ Fit(l, r, workers'[a], record'[a])
            /\ link'[c] = "open" => Knowing(l, r, workers'[a], heard'[c][a])
      <4> SUFFICES ASSUME Alone(a, c), k # None
                   PROVE  /\ Fit(l, r, w, k)
                          /\ \A h : Knowing(t, r, w, h) => Knowing(l, r, w, h)
        BY <2>3, <2>4
      <4>1. Fit(t, r, w, k)
        BY <2>3
      <4> QED
        BY <4>1, <2>2, <2>3, <2>4, <2>6, <3>3, HandlerFails
    <3> QED
      BY <1>4, <1>6, <2>1, <2>2, <3>2, <3>3, <3>4, TaskRuns
  <2>7. CASE CanTransition(w.status, x) /\ ~(k = None \/ ~CanTransition(k.status, x))
    <3>1. PICK l : l = [t EXCEPT !.phase = "got", !.got = [k EXCEPT !.status = x]]
      OBVIOUS
    <3>2. Becomes(q, l)
      BY <1>3, <1>5, <2>2, <2>7, <3>1 DEF UpdateGet, Copy
    <3>3. /\ l \in TaskType /\ l.todo = t.todo /\ l.s = t.s /\ l.phase = "got"
          /\ l.out = t.out /\ l.got.status = x /\ l.got.active = k.active
      <4>1. x \in Status
        BY <2>3, <2>7 DEF CanTransition, Allowed, Status
      <4> QED
        BY <2>3, <3>1, <4>1 DEF TaskType, State, Phase
    <3>4. ~Is(l, "write") /\ ~Idle(l) /\ l.s = a /\ Path(l.todo)
      BY <2>1, <2>2, <2>3, <3>3 DEF Is, Idle
    <3>5. (Alone(a, c) /\ record'[a] # None) =>
            /\ Fit(l, r, workers'[a], record'[a])
            /\ link'[c] = "open" => Knowing(l, r, workers'[a], heard'[c][a])
      <4> SUFFICES ASSUME Alone(a, c), k # None
                   PROVE  /\ Fit(l, r, w, k)
                          /\ \A h : Knowing(t, r, w, h) => Knowing(l, r, w, h)
        BY <2>3, <2>4
      <4>1. Fit(t, r, w, k)
        BY <2>3
      <4> QED
        BY <4>1, <2>2, <2>3, <2>4, <2>7, <3>3, HandlerCopies
    <3> QED
      BY <1>4, <1>6, <2>1, <2>2, <3>2, <3>3, <3>4, <3>5, TaskRuns
  <2> QED
    BY <2>5, <2>6, <2>7
<1>7. CASE q = <<"reply", c>>
  <2>1. PICK t, r : r = reply[c] /\ t = Of(task[c], a)
    OBVIOUS
  <2>2. At(q) = r /\ ~Idle(reply[c]) /\ a = reply[c].s /\ Is(r, "to") /\ r.phase = "run"
    BY <1>1, <1>3, <1>7, <2>1 DEF At, Is, Idle
  <2>3. /\ a \in Session /\ t \in TaskType /\ r \in TaskType /\ w \in State /\ k \in State
        /\ (Alone(a, c) /\ k # None) =>
             Fit(t, r, w, k) /\ (link[c] = "open" => Knowing(t, r, w, heard[c][a]))
        /\ k # None => k.status \in Status
        /\ r.todo \in Unanswered \cup Answered
    <3>1. Standpoint(c, a, t, r, w, k)
      BY <1>5, <2>1, <2>2, ReplyFits
    <3> QED
      BY <1>5, <2>1, <2>2, <3>1, ReplyFits DEF Standpoint
  <2>4. /\ workers'[a] = w /\ record'[a] = k /\ heard'[c][a] = heard[c][a]
        /\ link'[c] = "open" => link[c] = "open"
    BY <1>4, <1>5
  <2> DEFINE x == Head(r.todo).arg
  <2>5. CASE ~CanTransition(w.status, x)
    <3>1. Becomes(q, Done(r))
      BY <1>3, <1>5, <2>2, <2>5 DEF UpdateGet
    <3>2. ~Idle(r) /\ ~Is(r, "finally")
      BY <2>2 DEF Is, Idle
    <3>3. /\ Done(r) \in TaskType
          /\ ~Idle(Done(r)) /\ Done(r).s = a /\ Done(r).todo \in Unanswered \cup Answered
      BY <2>1, <2>2, <2>3, <3>2, DoneType, ReplyDone
    <3>4. (Alone(a, c) /\ record'[a] # None) =>
            /\ Fit(t, Done(r), workers'[a], record'[a])
            /\ link'[c] = "open" => Knowing(t, Done(r), workers'[a], heard'[c][a])
      BY <2>2, <2>3, <2>4, <2>5, ReplyStays
    <3> QED
      BY <1>4, <1>7, <2>1, <2>2, <3>1, <3>3, <3>4, ReplyRuns
  <2>6. CASE CanTransition(w.status, x) /\ (k = None \/ ~CanTransition(k.status, x))
    <3>1. PICK l : l = Task(a, <<Do("finally")>>)
      OBVIOUS
    <3>2. Becomes(q, l)
      <4>1. Raises(q)
        BY <1>3, <1>5, <2>2, <2>6 DEF UpdateGet, Copy
      <4>2. q[1] # "task" /\ q[1] = "reply"
        BY <1>7
      <4> QED
        BY <1>3, <2>2, <3>1, <4>1, <4>2 DEF Raises
    <3>3. ~Idle(l) /\ l.s = a /\ l.todo \in Unanswered \cup Answered
      BY <3>1, FinallyIs
    <3>4. l \in TaskType
      BY <2>3, <3>1, NewTask, FurtherLists, FurtherIsTodo DEF Name
    <3>5. (Alone(a, c) /\ record'[a] # None) =>
            /\ Fit(t, l, workers'[a], record'[a])
            /\ link'[c] = "open" => Knowing(t, l, workers'[a], heard'[c][a])
      <4> SUFFICES ASSUME Alone(a, c), k # None
                   PROVE  /\ Fit(t, l, w, k)
                          /\ \A h : Knowing(t, r, w, h) => Knowing(t, l, w, h)
        BY <2>3, <2>4
      <4>1. Fit(t, r, w, k)
        BY <2>3
      <4> QED
        BY <4>1, <2>1, <2>2, <2>3, <2>4, <2>6, <3>1, ReplyFails
    <3> QED
      BY <1>4, <1>7, <2>1, <2>2, <3>2, <3>3, <3>4, <3>5, ReplyRuns
  <2>7. CASE CanTransition(w.status, x) /\ ~(k = None \/ ~CanTransition(k.status, x))
    <3>1. PICK l : l = [r EXCEPT !.phase = "got", !.got = [k EXCEPT !.status = x]]
      OBVIOUS
    <3>2. Becomes(q, l)
      BY <1>3, <1>5, <2>2, <2>7, <3>1 DEF UpdateGet, Copy
    <3>3. /\ l \in TaskType /\ l.todo = r.todo /\ l.s = r.s /\ l.phase = "got"
          /\ l.out = r.out /\ l.got.status = x /\ l.got.active = k.active
      <4>1. x \in Status
        BY <2>3, <2>7 DEF CanTransition, Allowed, Status
      <4> QED
        BY <2>3, <3>1, <4>1 DEF TaskType, State, Phase
    <3>4. ~Idle(l) /\ l.s = a /\ l.todo \in Unanswered \cup Answered
      BY <2>1, <2>2, <2>3, <3>3 DEF Idle
    <3>5. (Alone(a, c) /\ record'[a] # None) =>
            /\ Fit(t, l, workers'[a], record'[a])
            /\ link'[c] = "open" => Knowing(t, l, workers'[a], heard'[c][a])
      <4> SUFFICES ASSUME Alone(a, c), k # None
                   PROVE  /\ Fit(t, l, w, k)
                          /\ \A h : Knowing(t, r, w, h) => Knowing(t, l, w, h)
        BY <2>3, <2>4
      <4>1. Fit(t, r, w, k)
        BY <2>3
      <4> QED
        BY <4>1, <2>2, <2>3, <2>4, <2>7, <3>3, ReplyCopies
    <3> QED
      BY <1>4, <1>7, <2>1, <2>2, <3>2, <3>3, <3>4, <3>5, ReplyRuns
  <2> QED
    BY <2>5, <2>6, <2>7
<1> QED
  BY <1>2, <1>6, <1>7 DEF PlacesOf

\* The SET of an update.
LEMMA UpdateSetSettles ==
  ASSUME ServerInv, RegistryInv, LetGoInv, SettleInv, NEW q \in Runners, UpdateSet(q)
  PROVE  SettleInv'
<1>1. Is(At(q), "to") /\ At(q).phase = "got"
  BY DEF UpdateSet
<1>2. PICK c \in Socket : q \in PlacesOf(c)
  BY <1>1, SocketDoes DEF Asking
<1>3. PICK a : a = At(q).s
  OBVIOUS
<1>4. /\ UNCHANGED <<current, workers, heard, link, via, torn, raced, issued>>
      /\ record' = [record EXCEPT ![a] = At(q).got]
  BY <1>3 DEF UpdateSet, host, wires
<1>5. Apart(a)
  <2>1. record \in [Session -> State] /\ heard \in Heard
    BY DEF ServerInv, ServerTypes, SettleInv, Unused, Heard
  <2> QED
    BY <1>4, <2>1 DEF Apart
<1>6. record[a] # None \/ a \in raced
  BY <1>1, <1>3 DEF RegistryInv, StoreInv, WillSet
<1>7. PICK w, k : w = workers[a] /\ k = record[a]
  OBVIOUS
<1>8. CASE q = <<"task", c>>
  <2>1. PICK t, r : t = task[c] /\ r = Of(reply[c], a)
    OBVIOUS
  <2>2. At(q) = t /\ ~Idle(task[c]) /\ a = task[c].s /\ Is(t, "to") /\ t.phase = "got"
    BY <1>1, <1>3, <1>8, <2>1 DEF At, Is, Idle
  <2>3. /\ a \in Session /\ t \in TaskType /\ r \in TaskType /\ w \in State /\ k \in State
        /\ (Alone(a, c) /\ k # None) =>
             Fit(t, r, w, k) /\ (link[c] = "open" => Knowing(t, r, w, heard[c][a]))
        /\ Path(t.todo)
    <3>1. Standpoint(c, a, t, r, w, k)
      BY <1>7, <2>1, <2>2, TaskFits
    <3> QED
      BY <1>7, <2>1, <2>2, <3>1, TaskFits DEF Standpoint
  <2>4. /\ workers'[a] = w /\ record'[a] = t.got /\ heard'[c][a] = heard[c][a]
        /\ link'[c] = "open" => link[c] = "open"
    BY <1>4, <1>7, <2>2, <2>3 DEF ServerInv, ServerTypes
  <2>5. PICK l : l = [t EXCEPT !.phase = "set"]
    OBVIOUS
  <2>6. Becomes(q, l)
    BY <2>2, <2>5 DEF UpdateSet
  <2>7. /\ l \in TaskType /\ l.todo = t.todo /\ l.phase = "set" /\ l.out = t.out
        /\ l.got = t.got /\ l.s = t.s
    BY <2>3, <2>5 DEF TaskType, Phase
  <2>8. ~Is(l, "write") /\ ~Idle(l) /\ l.s = a /\ Path(l.todo)
    BY <2>1, <2>2, <2>3, <2>7 DEF Is, Idle
  <2>9. (Alone(a, c) /\ a \notin raced) =>
          /\ Fit(l, r, workers'[a], record'[a])
          /\ link'[c] = "open" => Knowing(l, r, workers'[a], heard'[c][a])
    BY <1>6, <1>7, <2>2, <2>3, <2>4, <2>7, HandlerWrites
  <2> QED
    BY <1>4, <1>5, <1>8, <2>1, <2>2, <2>6, <2>7, <2>8, <2>9, TaskRuns
<1>9. CASE q = <<"reply", c>>
  <2>1. PICK t, r : r = reply[c] /\ t = Of(task[c], a)
    OBVIOUS
  <2>2. At(q) = r /\ ~Idle(reply[c]) /\ a = reply[c].s /\ Is(r, "to") /\ r.phase = "got"
    BY <1>1, <1>3, <1>9, <2>1 DEF At, Is, Idle
  <2>3. /\ a \in Session /\ t \in TaskType /\ r \in TaskType /\ w \in State /\ k \in State
        /\ (Alone(a, c) /\ k # None) =>
             Fit(t, r, w, k) /\ (link[c] = "open" => Knowing(t, r, w, heard[c][a]))
        /\ r.todo \in Unanswered \cup Answered
    <3>1. Standpoint(c, a, t, r, w, k)
      BY <1>7, <2>1, <2>2, ReplyFits
    <3> QED
      BY <1>7, <2>1, <2>2, <3>1, ReplyFits DEF Standpoint
  <2>4. /\ workers'[a] = w /\ record'[a] = r.got /\ heard'[c][a] = heard[c][a]
        /\ link'[c] = "open" => link[c] = "open"
    BY <1>4, <1>7, <2>2, <2>3 DEF ServerInv, ServerTypes
  <2>5. PICK l : l = [r EXCEPT !.phase = "set"]
    OBVIOUS
  <2>6. Becomes(q, l)
    BY <2>2, <2>5 DEF UpdateSet
  <2>7. /\ l \in TaskType /\ l.todo = r.todo /\ l.phase = "set" /\ l.out = r.out
        /\ l.got = r.got /\ l.s = r.s
    BY <2>3, <2>5 DEF TaskType, Phase
  <2>8. ~Idle(l) /\ l.s = a /\ l.todo \in Unanswered \cup Answered
    BY <2>1, <2>2, <2>3, <2>7 DEF Idle
  <2>9. (Alone(a, c) /\ a \notin raced) =>
          /\ Fit(t, l, workers'[a], record'[a])
          /\ link'[c] = "open" => Knowing(t, l, workers'[a], heard'[c][a])
    BY <1>6, <1>7, <2>2, <2>3, <2>4, <2>7, ReplyWrites
  <2> QED
    BY <1>4, <1>5, <1>9, <2>1, <2>2, <2>6, <2>7, <2>8, <2>9, ReplyRuns
<1> QED
  BY <1>2, <1>8, <1>9 DEF PlacesOf

\* The worker takes the status that was written.
LEMMA UpdatedSettles ==
  ASSUME ServerInv, LetGoInv, SettleInv, NEW q \in Runners, Updated(q)
  PROVE  SettleInv'
<1>1. Is(At(q), "to") /\ At(q).phase = "set"
  BY DEF Updated
<1>2. PICK c \in Socket : q \in PlacesOf(c)
  BY <1>1, SocketDoes DEF Asking
<1>3. PICK a : a = At(q).s
  OBVIOUS
<1>4. /\ UNCHANGED <<current, record, heard, link, via, torn, raced, issued>>
      /\ workers' = [workers EXCEPT ![a] = At(q).got]
  BY <1>3 DEF Updated, redis, wires, history
<1>5. Apart(a)
  <2>1. workers \in [Session -> State] /\ heard \in Heard
    BY DEF ServerInv, ServerTypes, SettleInv, Unused, Heard
  <2> QED
    BY <1>4, <2>1 DEF Apart
<1>6. PICK w, k : w = workers[a] /\ k = record[a]
  OBVIOUS
<1>7. CASE q = <<"task", c>>
  <2>1. PICK t, r : t = task[c] /\ r = Of(reply[c], a)
    OBVIOUS
  <2>2. At(q) = t /\ ~Idle(task[c]) /\ a = task[c].s /\ Is(t, "to") /\ t.phase = "set"
        /\ ~Idle(t)
    BY <1>1, <1>3, <1>7, <2>1 DEF At, Is, Idle
  <2>3. /\ a \in Session /\ t \in TaskType /\ r \in TaskType /\ w \in State /\ k \in State
        /\ (Alone(a, c) /\ k # None) =>
             Fit(t, r, w, k) /\ (link[c] = "open" => Knowing(t, r, w, heard[c][a]))
        /\ Path(t.todo)
    <3>1. Standpoint(c, a, t, r, w, k)
      BY <1>6, <2>1, <2>2, TaskFits
    <3> QED
      BY <1>6, <2>1, <2>2, <3>1, TaskFits DEF Standpoint
  <2>4. /\ workers'[a] = t.got /\ record'[a] = k /\ heard'[c][a] = heard[c][a]
        /\ link'[c] = "open" => link[c] = "open"
    BY <1>4, <1>6, <2>2, <2>3 DEF ServerInv, ServerTypes
  <2>5. PICK d : d = Done(t)
    OBVIOUS
  <2>6. /\ d \in TaskType /\ ~Is(d, "write") /\ (d = NoTask \/ (~Idle(d) /\ d.s = t.s))
        /\ d.phase = "run" /\ Path(d.todo)
    BY <2>2, <2>3, <2>5, DoneRuns, DoneType
  <2>7. PICK l : l = [d EXCEPT !.out = Append(@, t.got.status)]
    OBVIOUS
  <2>8. Becomes(q, l)
    BY <2>2, <2>5, <2>7 DEF Updated
  <2>9. /\ l \in TaskType /\ l.todo = d.todo /\ l.phase = "run" /\ l.got = d.got /\ l.s = d.s
        /\ l.out = Append(d.out, t.got.status)
    <3>1. t.got.status \in Events
      BY <2>2, <2>3, Typed DEF ServerInv, WhatIsReadLives, Holds, Live, TaskType, State, Events
    <3>2. Append(d.out, t.got.status) \in Seq(Events \cup Messages)
      BY <2>6, <3>1, AppendProperties DEF TaskType
    <3> QED
      BY <2>6, <2>7, <3>2 DEF TaskType
  <2>10. ~Is(l, "write") /\ (Idle(l) \/ l.s = task[c].s) /\ Path(l.todo)
    <3>1. Idle(l) <=> Idle(d)
      BY <2>9 DEF Idle
    <3>2. d = NoTask => Idle(d)
      BY NoTaskType
    <3> QED
      BY <2>1, <2>6, <2>9, <3>1, <3>2 DEF Is
  <2>11. (Alone(a, c) /\ record'[a] # None) =>
           /\ l = NoTask \/ ~Idle(l)
           /\ Fit(l, r, workers'[a], record'[a])
           /\ link'[c] = "open" => Knowing(l, r, workers'[a], heard'[c][a])
    <3> SUFFICES ASSUME Alone(a, c), k # None
                 PROVE  /\ ~Idle(l) /\ Fit(l, r, t.got, k)
                        /\ \A h : Knowing(t, r, w, h) => Knowing(l, r, t.got, h)
      BY <2>3, <2>4
    <3>1. Fit(t, r, w, k) /\ Path(t.todo)
      BY <2>3 DEF Fit, Shapes
    <3>2. ~Idle(d) /\ d.got = None /\ d.out = t.out
      BY <2>2, <2>3, <2>5, <3>1, ToPlaces
    <3> QED
      BY <2>2, <2>3, <2>5, <2>9, <3>1, <3>2, HandlerMoves DEF Idle
  <2> QED
    BY <1>4, <1>5, <1>7, <2>1, <2>2, <2>8, <2>9, <2>10, <2>11, TaskRuns
<1>8. CASE q = <<"reply", c>>
  <2>1. PICK t, r : r = reply[c] /\ t = Of(task[c], a)
    OBVIOUS
  <2>2. At(q) = r /\ ~Idle(reply[c]) /\ a = reply[c].s /\ Is(r, "to") /\ r.phase = "set"
        /\ ~Idle(r) /\ ~Is(r, "finally")
    BY <1>1, <1>3, <1>8, <2>1 DEF At, Is, Idle
  <2>3. /\ a \in Session /\ t \in TaskType /\ r \in TaskType /\ w \in State /\ k \in State
        /\ (Alone(a, c) /\ k # None) =>
             Fit(t, r, w, k) /\ (link[c] = "open" => Knowing(t, r, w, heard[c][a]))
        /\ r.todo \in Unanswered \cup Answered
    <3>1. Standpoint(c, a, t, r, w, k)
      BY <1>6, <2>1, <2>2, ReplyFits
    <3> QED
      BY <1>6, <2>1, <2>2, <3>1, ReplyFits DEF Standpoint
  <2>4. /\ workers'[a] = r.got /\ record'[a] = k /\ heard'[c][a] = heard[c][a]
        /\ link'[c] = "open" => link[c] = "open"
    BY <1>4, <1>6, <2>2, <2>3 DEF ServerInv, ServerTypes
  <2>5. PICK d : d = Done(r)
    OBVIOUS
  <2>6. /\ d \in TaskType /\ ~Idle(d) /\ d.s = r.s /\ d.phase = "run" /\ d.out = r.out
        /\ d.todo \in Unanswered \cup Answered
    BY <2>2, <2>3, <2>5, DoneType, ReplyDone
  <2>7. PICK l : l = [d EXCEPT !.out = Append(@, r.got.status)]
    OBVIOUS
  <2>8. Becomes(q, l)
    BY <2>2, <2>5, <2>7 DEF Updated
  <2>9. /\ l \in TaskType /\ l.todo = d.todo /\ l.phase = "run" /\ l.s = d.s
        /\ l.out = Append(d.out, r.got.status)
    <3>1. r.got.status \in Events
      BY <2>2, <2>3, Typed DEF ServerInv, WhatIsReadLives, Holds, Live, TaskType, State, Events
    <3>2. Append(d.out, r.got.status) \in Seq(Events \cup Messages)
      BY <2>6, <3>1, AppendProperties DEF TaskType
    <3> QED
      BY <2>6, <2>7, <3>2 DEF TaskType
  <2>10. ~Idle(l) /\ l.s = a /\ l.todo \in Unanswered \cup Answered
    BY <2>1, <2>2, <2>6, <2>9 DEF Idle
  <2>11. (Alone(a, c) /\ record'[a] # None) =>
           /\ Fit(t, l, workers'[a], record'[a])
           /\ link'[c] = "open" => Knowing(t, l, workers'[a], heard'[c][a])
    <3> SUFFICES ASSUME Alone(a, c), k # None
                 PROVE  /\ Fit(t, l, r.got, k)
                        /\ \A h : Knowing(t, r, w, h) => Knowing(t, l, r.got, h)
      BY <2>3, <2>4
    <3>1. Fit(t, r, w, k)
      BY <2>3
    <3>2. l.todo = Done(r).todo /\ l.out = Append(r.out, r.got.status)
      BY <2>5, <2>6, <2>9
    <3> QED
      BY <2>2, <2>3, <2>9, <3>1, <3>2, ReplyMoves
  <2> QED
    BY <1>4, <1>5, <1>8, <2>1, <2>2, <2>8, <2>9, <2>10, <2>11, ReplyRuns
<1> QED
  BY <1>2, <1>7, <1>8 DEF PlacesOf

-----------------------------------------------------------------------------
(* The emits of the handler and of the reply.                              *)

\* After an emit the task goes on, and the client has heard no more.
LEMMA EmittedRuns ==
  ASSUME NEW k \in TaskType, Is(k, "flush")
  PROVE  /\ Emitted(k) \in TaskType /\ ~Is(Emitted(k), "write")
         /\ Emitted(k) = NoTask \/ (~Idle(Emitted(k)) /\ Emitted(k).s = k.s)
         /\ k.todo \in Unanswered \cup Answered =>
              Emitted(k).todo \in Unanswered \cup Answered /\ ~Idle(Emitted(k))
         /\ Path(k.todo) => Path(Emitted(k).todo)
<1>1. ~Idle(k) /\ ~Is(k, "write") /\ ~Is(k, "finally")
  BY DEF Is, Idle
<1>2. CASE Len(Out(k)) <= 1
  <2> DEFINE j == [k EXCEPT !.out = <<>>]
  <2>1. j \in TaskType /\ j.todo = k.todo /\ j.s = k.s
    BY EmptySeq DEF TaskType
  <2>2. Emitted(k) = Done(j)
    BY <1>2 DEF Emitted
  <2> HIDE DEF j
  <2>3. ~Idle(j) /\ ~Is(j, "finally")
    BY <1>1, <2>1, SamePlace
  <2>4. /\ Done(j) \in TaskType /\ ~Is(Done(j), "write")
        /\ Done(j) = NoTask \/ (~Idle(Done(j)) /\ Done(j).s = k.s)
        /\ Path(k.todo) => Path(Done(j).todo)
    BY <2>1, <2>3, DoneRuns
  <2>5. j.todo \in Unanswered \cup Answered =>
          Done(j).todo \in Unanswered \cup Answered /\ ~Idle(Done(j))
    BY <2>1, <2>3, ReplyDone
  <2> QED
    BY <2>1, <2>2, <2>4, <2>5
<1>3. CASE ~(Len(Out(k)) <= 1)
  <2>1. Out(k) \in Seq(Events \cup Messages) /\ Out(k) # <<>>
    BY <1>1, <1>3, OutType, EmptySeq
  <2>2. Tail(Out(k)) \in Seq(Events \cup Messages)
    BY <2>1, HeadTailProperties
  <2>3. PICK l : l = [k EXCEPT !.out = Tail(Out(k)), !.phase = "more"]
    OBVIOUS
  <2>4. l \in TaskType /\ l.s = k.s /\ l.todo = k.todo
    BY <2>2, <2>3 DEF TaskType, Phase
  <2>5. Emitted(k) = l
    BY <1>3, <2>3 DEF Emitted
  <2>6. ~Idle(l) /\ ~Is(l, "write")
    BY <1>1, <2>4, SamePlace
  <2> QED
    BY <2>4, <2>5, <2>6
<1> QED
  BY <1>2, <1>3

\* A send changes what the client of that socket heard.
LEMMA SendingRuns ==
  ASSUME NEW k \in TaskType, Is(k, "flush"),
         NEW l, l = [k EXCEPT !.phase = "sending", !.out = Out(k)]
  PROVE  /\ l \in TaskType /\ ~Is(l, "write") /\ ~Idle(l)
         /\ l.s = k.s /\ l.todo = k.todo /\ l.phase = "sending" /\ l.out = Out(k)
<1>1. ~Idle(k) /\ ~Is(k, "write")
  BY DEF Is, Idle
<1>2. /\ l \in TaskType /\ l.s = k.s /\ l.todo = k.todo /\ l.phase = "sending"
      /\ l.out = Out(k)
  BY <1>1, OutType DEF TaskType, Phase
<1> QED
  BY <1>1, <1>2, SamePlace

\* An event gets in line for the socket, or is dropped.
LEMMA EmitSettles ==
  ASSUME ServerInv, LetGoInv, SettleInv, NEW c \in Socket, NEW q \in PlacesOf(c), Emit(q, c)
  PROVE  SettleInv'
<1>1. PICK a : a = At(q).s
  OBVIOUS
<1>2. UNCHANGED <<record, workers, heard, link, current>> /\ Apart(a)
  BY DEF Emit, redis, host, history, Apart, SettleInv, Unused, Heard
<1>3. PICK w, k : w = workers[a] /\ k = record[a]
  OBVIOUS
<1>4. CASE q = <<"task", c>>
  <2>1. PICK t, r : t = task[c] /\ r = Of(reply[c], a)
    OBVIOUS
  <2>2. At(q) = t /\ ~Idle(task[c]) /\ a = task[c].s /\ Is(t, "flush") /\ ~Idle(t)
    BY <1>1, <1>4, <2>1 DEF Emit, At, Is, Idle
  <2>3. /\ a \in Session /\ t \in TaskType /\ r \in TaskType /\ w \in State /\ k \in State
        /\ (Alone(a, c) /\ k # None) =>
             Fit(t, r, w, k) /\ (link[c] = "open" => Knowing(t, r, w, heard[c][a]))
        /\ Path(t.todo)
    <3>1. Standpoint(c, a, t, r, w, k)
      BY <1>3, <2>1, <2>2, TaskFits
    <3> QED
      BY <1>3, <2>1, <2>2, <3>1, TaskFits DEF Standpoint
  <2>4. workers'[a] = w /\ record'[a] = k /\ heard'[c][a] = heard[c][a] /\ link'[c] = link[c]
    BY <1>2, <1>3
  <2>5. CASE Out(t) = <<>> \/ link[c] = "closed"
    <3>1. PICK l : l = Emitted(t)
      OBVIOUS
    <3>2. Becomes(q, l)
      BY <2>2, <2>5, <3>1 DEF Emit
    <3>3. /\ l \in TaskType /\ ~Is(l, "write") /\ (l = NoTask \/ (~Idle(l) /\ l.s = t.s))
          /\ (Idle(l) \/ l.s = t.s) /\ Path(l.todo)
      BY <2>2, <2>3, <3>1, EmittedRuns, NoTaskType
    <3>4. (Alone(a, c) /\ record'[a] # None) =>
            /\ l = NoTask \/ ~Idle(l)
            /\ Fit(l, r, workers'[a], record'[a])
            /\ link'[c] = "open" => Knowing(l, r, workers'[a], heard'[c][a])
      <4> SUFFICES ASSUME Alone(a, c), k # None
                   PROVE  /\ Fit(l, r, w, k)
                          /\ link[c] = "open" => Knowing(l, r, w, heard[c][a])
        BY <2>4, <3>3
      <4>1. /\ Fit(l, r, w, k)
            /\ \A h : Knowing(t, r, w, h) => Knowing(l, r, w, Hears(t, h))
        BY <2>2, <2>3, <3>1, HandlerEmits
      <4>2. link[c] = "open" => Hears(t, heard[c][a]) = heard[c][a]
        BY <2>5 DEF Hears
      <4> QED
        BY <2>3, <4>1, <4>2
    <3> QED
      BY <1>2, <1>4, <2>1, <2>2, <3>2, <3>3, <3>4, TaskRuns
  <2>6. CASE ~(Out(t) = <<>> \/ link[c] = "closed")
    <3>1. PICK l : l = [t EXCEPT !.phase = "sending", !.out = Out(t)]
      OBVIOUS
    <3>2. Becomes(q, l)
      BY <2>2, <2>6, <3>1 DEF Emit
    <3>3. /\ l \in TaskType /\ ~Is(l, "write") /\ ~Idle(l) /\ l.s = t.s /\ Path(l.todo)
          /\ l.todo = t.todo /\ l.phase = "sending" /\ l.out = Out(t)
      BY <2>2, <2>3, <3>1, SendingRuns
    <3>4. (Alone(a, c) /\ record'[a] # None) =>
            /\ Fit(l, r, workers'[a], record'[a])
            /\ link'[c] = "open" => Knowing(l, r, workers'[a], heard'[c][a])
      BY <2>2, <2>3, <2>4, <2>6, <3>3, HandlerSends
    <3> QED
      BY <1>2, <1>4, <2>1, <2>2, <3>2, <3>3, <3>4, TaskRuns
  <2> QED
    BY <2>5, <2>6
<1>5. CASE q = <<"reply", c>>
  <2>1. PICK t, r : r = reply[c] /\ t = Of(task[c], a)
    OBVIOUS
  <2>2. At(q) = r /\ ~Idle(reply[c]) /\ a = reply[c].s /\ Is(r, "flush") /\ ~Idle(r)
    BY <1>1, <1>5, <2>1 DEF Emit, At, Is, Idle
  <2>3. /\ a \in Session /\ t \in TaskType /\ r \in TaskType /\ w \in State /\ k \in State
        /\ (Alone(a, c) /\ k # None) =>
             Fit(t, r, w, k) /\ (link[c] = "open" => Knowing(t, r, w, heard[c][a]))
        /\ r.todo \in Unanswered \cup Answered
    <3>1. Standpoint(c, a, t, r, w, k)
      BY <1>3, <2>1, <2>2, ReplyFits
    <3> QED
      BY <1>3, <2>1, <2>2, <3>1, ReplyFits DEF Standpoint
  <2>4. workers'[a] = w /\ record'[a] = k /\ heard'[c][a] = heard[c][a] /\ link'[c] = link[c]
    BY <1>2, <1>3
  <2>5. CASE Out(r) = <<>> \/ link[c] = "closed"
    <3>1. PICK l : l = Emitted(r)
      OBVIOUS
    <3>2. Becomes(q, l)
      BY <2>2, <2>5, <3>1 DEF Emit
    <3>3. l \in TaskType /\ ~Idle(l) /\ l.s = r.s /\ l.todo \in Unanswered \cup Answered
      BY <2>2, <2>3, <3>1, EmittedRuns, NoTaskType
    <3>4. (Alone(a, c) /\ record'[a] # None) =>
            /\ Fit(t, l, workers'[a], record'[a])
            /\ link'[c] = "open" => Knowing(t, l, workers'[a], heard'[c][a])
      <4> SUFFICES ASSUME Alone(a, c), k # None
                   PROVE  /\ Fit(t, l, w, k)
                          /\ link[c] = "open" => Knowing(t, l, w, heard[c][a])
        BY <2>4, <3>3
      <4>1. /\ Fit(t, l, w, k)
            /\ \A h : Knowing(t, r, w, h) => Knowing(t, l, w, Hears(r, h))
        BY <2>2, <2>3, <3>1, ReplyEmits
      <4>2. link[c] = "open" => Hears(r, heard[c][a]) = heard[c][a]
        BY <2>5 DEF Hears
      <4> QED
        BY <2>3, <4>1, <4>2
    <3> QED
      BY <1>2, <1>5, <2>1, <2>2, <3>2, <3>3, <3>4, ReplyRuns
  <2>6. CASE ~(Out(r) = <<>> \/ link[c] = "closed")
    <3>1. PICK l : l = [r EXCEPT !.phase = "sending", !.out = Out(r)]
      OBVIOUS
    <3>2. Becomes(q, l)
      BY <2>2, <2>6, <3>1 DEF Emit
    <3>3. /\ l \in TaskType /\ ~Is(l, "write") /\ ~Idle(l) /\ l.s = r.s
          /\ l.todo = r.todo /\ l.phase = "sending" /\ l.out = Out(r)
      BY <2>2, <2>3, <3>1, SendingRuns
    <3>4. (Alone(a, c) /\ record'[a] # None) =>
            /\ Fit(t, l, workers'[a], record'[a])
            /\ link'[c] = "open" => Knowing(t, l, workers'[a], heard'[c][a])
      BY <2>2, <2>3, <2>4, <2>6, <3>3, ReplySends
    <3> QED
      BY <1>2, <1>5, <2>1, <2>2, <2>3, <3>2, <3>3, <3>4, ReplyRuns
  <2> QED
    BY <2>5, <2>6
<1> QED
  BY <1>4, <1>5 DEF PlacesOf

\* The first of the line sends.
LEMMA SendSettles ==
  ASSUME ServerInv, LetGoInv, SettleInv, NEW c \in Socket, Send(c)
  PROVE  SettleInv'
<1>1. PICK q \in Runners : /\ line[c] # <<>> /\ Head(line[c]) = q /\ At(q).phase = "sending"
                           /\ Becomes(q, Emitted(At(q)))
                           /\ heard' = IF link[c] = "open" /\ Head(At(q).out) \in Status
                                 THEN [heard EXCEPT ![c][At(q).s] = Head(At(q).out)] ELSE heard
  BY DEF Send
<1>2. q \in PlacesOf(c)
  <2>1. line[c] \in Seq(Runners)
    BY DEF LetGoInv, LinesFit
  <2>2. 1 \in DOMAIN line[c] /\ q = line[c][1]
    <3>1. Len(line[c]) >= 1 /\ Len(line[c]) \in Nat
      BY <1>1, <2>1, EmptySeq, LenProperties
    <3> QED
      BY <1>1, <2>1, <3>1
  <2> QED
    BY <2>2 DEF LetGoInv, LinesFit
<1>3. PICK a : a = At(q).s
  OBVIOUS
<1>4. Is(At(q), "flush")
  BY <1>1 DEF ServerInv, WhatIsReadLives, Holds
<1>5. /\ UNCHANGED <<record, workers, current, via, issued, torn, raced>>
      /\ link' = [link EXCEPT ![c] = IF @ = "broken" THEN "closed" ELSE @]
  BY DEF Send, redis, host, history
<1>6. heard \in Heard
  BY DEF SettleInv, Unused, Heard
<1>7. /\ heard' \in Heard
      /\ \A s \in Session \ {a}, d \in Socket : heard'[d][s] = heard[d][s]
      /\ link[c] = "open" /\ a \in Session =>
           heard'[c][a] = IF Head(At(q).out) \in Status THEN Head(At(q).out) ELSE heard[c][a]
  <2> DEFINE e == Head(At(q).out)
  <2>1. CASE link[c] = "open" /\ e \in Status
    <3>1. heard' = [heard EXCEPT ![c][a] = e]
      BY <1>1, <1>3, <2>1
    <3> HIDE DEF e
    <3> QED
      BY <1>6, <2>1, <3>1 DEF Heard, e
  <2>2. CASE ~(link[c] = "open" /\ e \in Status)
    BY <1>1, <1>6, <2>2
  <2> QED
    BY <2>1, <2>2
<1>8. /\ \A d \in Socket : link'[d] = "open" => link[d] = "open"
      /\ \A d \in Socket : link'[d] = "new" => link[d] = "new"
  BY <1>5 DEF Send
<1>9. Apart(a)
  BY <1>5, <1>7, <1>8 DEF Apart
<1>10. PICK w, k : w = workers[a] /\ k = record[a]
  OBVIOUS
<1>11. CASE q = <<"task", c>>
  <2>1. PICK t, r : t = task[c] /\ r = Of(reply[c], a)
    OBVIOUS
  <2>2. /\ At(q) = t /\ ~Idle(task[c]) /\ a = task[c].s /\ Is(t, "flush") /\ ~Idle(t)
        /\ t.phase = "sending"
    BY <1>1, <1>3, <1>4, <1>11, <2>1 DEF At, Is, Idle
  <2>3. /\ a \in Session /\ t \in TaskType /\ r \in TaskType /\ w \in State /\ k \in State
        /\ (Alone(a, c) /\ k # None) =>
             Fit(t, r, w, k) /\ (link[c] = "open" => Knowing(t, r, w, heard[c][a]))
        /\ Path(t.todo)
    <3>1. Standpoint(c, a, t, r, w, k)
      BY <1>10, <2>1, <2>2, TaskFits
    <3> QED
      BY <1>10, <2>1, <2>2, <3>1, TaskFits DEF Standpoint
  <2>4. PICK l : l = Emitted(t)
    OBVIOUS
  <2>5. Becomes(q, l)
    BY <1>1, <2>2, <2>4
  <2>6. /\ l \in TaskType /\ ~Is(l, "write") /\ (l = NoTask \/ (~Idle(l) /\ l.s = t.s))
        /\ (Idle(l) \/ l.s = t.s) /\ Path(l.todo)
    BY <2>2, <2>3, <2>4, EmittedRuns, NoTaskType
  <2>7. (Alone(a, c) /\ record'[a] # None) =>
          /\ l = NoTask \/ ~Idle(l)
          /\ Fit(l, r, workers'[a], record'[a])
          /\ link'[c] = "open" => Knowing(l, r, workers'[a], heard'[c][a])
    <3> SUFFICES ASSUME Alone(a, c), k # None
                 PROVE  /\ Fit(l, r, w, k)
                        /\ link[c] = "open" => Knowing(l, r, w, heard'[c][a])
      BY <1>5, <1>8, <1>10, <2>6
    <3>1. /\ Fit(l, r, w, k)
          /\ \A h : Knowing(t, r, w, h) => Knowing(l, r, w, Hears(t, h))
      BY <2>2, <2>3, <2>4, HandlerEmits
    <3>2. Out(t) = t.out /\ t.out # <<>>
      BY <2>2, <2>3 DEF Out, Fit, Shapes
    <3>3. link[c] = "open" => Hears(t, heard[c][a]) = heard'[c][a]
      BY <1>7, <2>2, <2>3, <3>2 DEF Hears
    <3> QED
      BY <2>3, <3>1, <3>3
  <2> QED
    BY <1>5, <1>9, <1>11, <2>1, <2>2, <2>5, <2>6, <2>7, TaskRuns
<1>12. CASE q = <<"reply", c>>
  <2>1. PICK t, r : r = reply[c] /\ t = Of(task[c], a)
    OBVIOUS
  <2>2. /\ At(q) = r /\ ~Idle(reply[c]) /\ a = reply[c].s /\ Is(r, "flush") /\ ~Idle(r)
        /\ r.phase = "sending"
    BY <1>1, <1>3, <1>4, <1>12, <2>1 DEF At, Is, Idle
  <2>3. /\ a \in Session /\ t \in TaskType /\ r \in TaskType /\ w \in State /\ k \in State
        /\ (Alone(a, c) /\ k # None) =>
             Fit(t, r, w, k) /\ (link[c] = "open" => Knowing(t, r, w, heard[c][a]))
        /\ r.todo \in Unanswered \cup Answered
    <3>1. Standpoint(c, a, t, r, w, k)
      BY <1>10, <2>1, <2>2, ReplyFits
    <3> QED
      BY <1>10, <2>1, <2>2, <3>1, ReplyFits DEF Standpoint
  <2>4. PICK l : l = Emitted(r)
    OBVIOUS
  <2>5. Becomes(q, l)
    BY <1>1, <2>2, <2>4
  <2>6. l \in TaskType /\ ~Idle(l) /\ l.s = r.s /\ l.todo \in Unanswered \cup Answered
    BY <2>2, <2>3, <2>4, EmittedRuns, NoTaskType
  <2>7. (Alone(a, c) /\ record'[a] # None) =>
          /\ Fit(t, l, workers'[a], record'[a])
          /\ link'[c] = "open" => Knowing(t, l, workers'[a], heard'[c][a])
    <3> SUFFICES ASSUME Alone(a, c), k # None
                 PROVE  /\ Fit(t, l, w, k)
                        /\ link[c] = "open" => Knowing(t, l, w, heard'[c][a])
      BY <1>5, <1>8, <1>10, <2>6
    <3>1. /\ Fit(t, l, w, k)
          /\ \A h : Knowing(t, r, w, h) => Knowing(t, l, w, Hears(r, h))
      BY <2>2, <2>3, <2>4, ReplyEmits
    <3>2. Out(r) = r.out /\ r.out # <<>>
      BY <2>2, <2>3 DEF Out, Fit, Shapes
    <3>3. link[c] = "open" => Hears(r, heard[c][a]) = heard'[c][a]
      BY <1>7, <2>2, <2>3, <3>2 DEF Hears
    <3> QED
      BY <2>3, <3>1, <3>3
  <2> QED
    BY <1>5, <1>9, <1>12, <2>1, <2>2, <2>5, <2>6, <2>7, ReplyRuns
<1> QED
  BY <1>2, <1>11, <1>12 DEF PlacesOf

-----------------------------------------------------------------------------
(* The look-up of a worker.                                                *)

\* A step that neither a request nor a reply has is of a handler.
LEMMA HandlerDoes ==
  ASSUME ServerInv, SettleInv, NEW q \in Runners, NEW d, Is(At(q), d),
         d \notin Asking \cup {"flush", "complete", "to", "finally"}
  PROVE  \E c \in Socket : q = <<"task", c>>
<1>1. PICK c \in Socket : q \in PlacesOf(c)
  BY SocketDoes
<1>2. CASE q = <<"reply", c>>
  <2>1. At(q) = reply[c] /\ reply[c].todo \in Unanswered \cup Answered
    BY <1>2 DEF At, SettleInv, Owned
  <2>2. reply[c].todo # <<>> /\ Head(reply[c].todo).do = d
    BY <2>1 DEF Is
  <2>3. d \in {"flush", "complete", "to", "finally"}
    BY <2>1, <2>2, ReplyRest, ReplyFields
  <2> QED
    BY <2>3
<1> QED
  BY <1>1, <1>2 DEF PlacesOf

\* What is not in a handler's path.
LEMMA HandlerDoesNot ==
  ASSUME NEW k \in TaskType, ~Idle(k), Path(k.todo)
  PROVE  ~Is(k, "complete") /\ ~Is(k, "finally")
<1>1. Final(Head(k.todo)) \/ Follows(Head(k.todo), Head(Done(k).todo))
  BY DonePath
<1> QED
  BY <1>1 DEF Final, Follows, Is

\* A message is the last step, and what the worker makes of it takes its place.
LEMMA MessageStarts ==
  ASSUME NEW k \in TaskType, Is(k, "message"), Path(k.todo),
         NEW l, l = [k EXCEPT !.todo = Apply(Head(@).arg, k.s) \o Tail(@),
                              !.phase = "run", !.got = None]
  PROVE  /\ l \in TaskType /\ l.todo = Apply(Head(k.todo).arg, k.s) /\ l.phase = "run"
         /\ l.out = k.out /\ l.s = k.s /\ ~Idle(l) /\ Path(l.todo) /\ ~Is(l, "write")
         /\ Head(k.todo).arg \in Messages
<1>1. k.todo \in Todo /\ k.todo \in Seq(Steps) /\ k.todo # <<>> /\ Head(k.todo).do = "message"
  BY TaskLists DEF TaskType, Is
<1>2. Head(k.todo).arg \in Messages
  BY <1>1, RestOfTodo DEF Steps
<1>3. Tail(k.todo) = <<>>
  <2>1. Final(Head(k.todo))
    BY <1>1, <1>2 DEF Final
  <2> QED
    BY <1>1, <2>1, PathRest, FinalIsLast
<1> DEFINE m == Head(k.todo).arg
           q == Apply(m, k.s)
<1>4. q \in Seq(Further) /\ q # <<>> /\ Path(q)
  BY <1>2, ApplyList, ApplyPath
<1>5. q \o Tail(k.todo) = q
  BY <1>3, <1>4, ConcatEmptySeq
<1>6. Head(q).do # "write"
  BY <1>2, ApplyPath
<1>7. q \in Todo
  BY <1>4, FurtherIsTodo
<1>8. l = [k EXCEPT !.todo = q, !.phase = "run", !.got = None]
  BY <1>5
<1> HIDE DEF q, m
<1>9. l \in TaskType /\ l.todo = q /\ l.phase = "run" /\ l.out = k.out /\ l.s = k.s
  <2>1. None \in State /\ "run" \in Phase
    BY DEF None, State, Phase
  <2> QED
    BY <1>7, <1>8, <2>1 DEF TaskType
<1>10. ~Idle(l) /\ Path(l.todo) /\ ~Is(l, "write")
  BY <1>4, <1>6, <1>9 DEF Idle, Is
<1> QED
  BY <1>2, <1>9, <1>10 DEF q, m

\* A reply that runs for a session of one socket is the active one.
LEMMA ReplyIsActive ==
  ASSUME Owned, NEW c \in Socket, NEW a \in Session, Alone(a, c), ~Idle(Of(reply[c], a))
  PROVE  Active(a) /\ current[a] = c
<1>1. ~Idle(reply[c]) /\ reply[c].s = a
  BY NoTaskType DEF Of
<1>2. current[a] = c /\ c # Nobody
  BY <1>1, ServerAssumption DEF Owned, Alone
<1> QED
  BY <1>1, <1>2 DEF Active

\* The look-up of the worker, and what it makes of the message.
LEMMA LookupSettles ==
  ASSUME ServerInv, LetGoInv, SettleInv, NEW q \in Runners, Lookup(q)
  PROVE  SettleInv'
<1>1. Is(At(q), "message")
  BY DEF Lookup
<1>2. PICK c \in Socket : q = <<"task", c>>
  BY <1>1, HandlerDoes DEF Asking
<1>3. PICK a : a = At(q).s
  OBVIOUS
<1>4. UNCHANGED <<current, record, heard, link, via, issued, torn, raced>>
  BY DEF Lookup, redis, host, wires, history
<1>5. PICK w, k : w = workers[a] /\ k = record[a]
  OBVIOUS
<1>6. PICK t, r : t = task[c] /\ r = Of(reply[c], a)
  OBVIOUS
<1>7. At(q) = t /\ ~Idle(task[c]) /\ a = task[c].s /\ Is(t, "message")
  BY <1>1, <1>2, <1>3, <1>6 DEF At, Is, Idle
<1>8. /\ a \in Session /\ t \in TaskType /\ r \in TaskType /\ w \in State /\ k \in State
      /\ (Alone(a, c) /\ k # None) =>
           Fit(t, r, w, k) /\ (link[c] = "open" => Knowing(t, r, w, heard[c][a]))
      /\ k # None => k.status \in Status
      /\ Path(t.todo) /\ (Idle(r) => r.out = <<>>)
  <2>1. Standpoint(c, a, t, r, w, k)
    BY <1>5, <1>6, <1>7, TaskFits
  <2> QED
    BY <1>5, <1>6, <1>7, <2>1, TaskFits DEF Standpoint
<1>9. /\ record'[a] = k /\ heard'[c][a] = heard[c][a]
      /\ link'[c] = "open" => link[c] = "open"
  BY <1>4, <1>5
<1>10. ASSUME Start(q, t), w # None \/ t.phase = "got",
              workers'[a] = IF w # None THEN w ELSE t.got,
              \A s \in Session \ {a} : workers'[s] = workers[s]
       PROVE  SettleInv'
  <2>1. Apart(a)
    BY <1>4, <1>10 DEF Apart, SettleInv, Unused, Heard
  <2>2. PICK l : l = [t EXCEPT !.todo = Apply(Head(@).arg, t.s) \o Tail(@),
                               !.phase = "run", !.got = None]
    OBVIOUS
  <2>3. Becomes(q, l)
    BY <1>10, <2>2 DEF Start
  <2>4. /\ l \in TaskType /\ l.todo = Apply(Head(t.todo).arg, a) /\ l.phase = "run"
        /\ l.out = t.out /\ l.s = a /\ ~Idle(l) /\ Path(l.todo) /\ ~Is(l, "write")
    <3>1. /\ l \in TaskType /\ l.todo = Apply(Head(t.todo).arg, t.s) /\ l.phase = "run"
          /\ l.out = t.out /\ l.s = t.s /\ ~Idle(l) /\ Path(l.todo) /\ ~Is(l, "write")
      BY <1>7, <1>8, <2>2, MessageStarts
    <3> QED
      BY <1>6, <1>7, <3>1
  <2>5. (Alone(a, c) /\ record'[a] # None) =>
          /\ Fit(l, r, workers'[a], record'[a])
          /\ link'[c] = "open" => Knowing(l, r, workers'[a], heard'[c][a])
    <3> SUFFICES ASSUME Alone(a, c), k # None
                 PROVE  /\ Fit(l, r, workers'[a], k)
                        /\ \A h : Knowing(t, r, w, h) => Knowing(l, r, workers'[a], h)
      BY <1>8, <1>9
    <3>1. Fit(t, r, w, k) /\ k.status # "none"
      BY <1>8 DEF Status
    <3>2. ~Idle(r) => Active(a)
      BY <1>6, <1>8, ReplyIsActive DEF SettleInv
    <3> QED
      BY <1>7, <1>8, <1>10, <2>4, <3>1, <3>2, HandlerStarts
  <2> QED
    BY <1>2, <1>4, <1>6, <1>7, <2>1, <2>3, <2>4, <2>5, TaskRuns
<1>11. CASE t.phase = "run" /\ w # None
  <2>1. UNCHANGED host /\ Start(q, t)
    BY <1>3, <1>5, <1>7, <1>11 DEF Lookup
  <2>2. workers' = workers
    BY <2>1 DEF host
  <2> QED
    BY <1>5, <1>10, <1>11, <2>1, <2>2
<1>12. CASE t.phase = "run" /\ w = None /\ k = None
  <2>1. UNCHANGED host /\ Raises(q)
    BY <1>3, <1>5, <1>7, <1>12 DEF Lookup
  <2>2. Apart(a)
    BY <1>4, <2>1 DEF Apart, SettleInv, Unused, Heard, host
  <2>3. PICK l : l = [t EXCEPT !.todo = <<Flush("error")>>, !.phase = "run", !.out = <<>>]
    OBVIOUS
  <2>4. Becomes(q, l)
    <3>1. q[1] = "task" /\ q[2] \in Socket
      BY <1>2
    <3> QED
      BY <1>7, <2>1, <2>3, <3>1 DEF Raises
  <2>5. l \in TaskType /\ ~Is(l, "write") /\ l.s = a /\ Path(l.todo)
    BY <1>6, <1>7, <1>8, <2>3, ErrorRuns
  <2> QED
    BY <1>2, <1>4, <1>6, <1>7, <1>9, <1>12, <2>2, <2>4, <2>5, TaskRuns
<1>13. CASE t.phase = "run" /\ w = None /\ k # None
  <2>1. /\ UNCHANGED host
        /\ Becomes(q, [t EXCEPT !.got = k, !.phase = "got"])
    BY <1>3, <1>5, <1>7, <1>13 DEF Lookup
  <2>2. Apart(a) /\ workers'[a] = w
    BY <1>4, <1>5, <2>1 DEF Apart, SettleInv, Unused, Heard, host
  <2>3. PICK l : l = [t EXCEPT !.got = k, !.phase = "got"]
    OBVIOUS
  <2>4. Becomes(q, l)
    BY <2>1, <2>3
  <2>5. /\ l \in TaskType /\ l.todo = t.todo /\ l.s = t.s /\ l.phase = "got"
        /\ l.out = t.out /\ l.got = k
    BY <1>8, <2>3 DEF TaskType, Phase
  <2>6. ~Is(l, "write") /\ ~Idle(l) /\ l.s = a /\ Path(l.todo)
    BY <1>6, <1>7, <1>8, <2>5 DEF Is, Idle
  <2>7. (Alone(a, c) /\ record'[a] # None) =>
          /\ Fit(l, r, workers'[a], record'[a])
          /\ link'[c] = "open" => Knowing(l, r, workers'[a], heard'[c][a])
    <3> SUFFICES ASSUME Alone(a, c), k # None
                 PROVE  /\ Fit(l, r, w, k)
                        /\ \A h : Knowing(t, r, w, h) => Knowing(l, r, w, h)
      BY <1>8, <1>9, <2>2
    <3>1. Fit(t, r, w, k)
      BY <1>8
    <3> QED
      BY <1>7, <1>8, <1>13, <2>5, <3>1, HandlerReads
  <2> QED
    BY <1>2, <1>4, <1>6, <1>7, <2>2, <2>4, <2>5, <2>6, <2>7, TaskRuns
<1>14. CASE t.phase = "got"
  <2>1. GetOrCreate(a, t.got) /\ Start(q, t)
    BY <1>3, <1>7, <1>14 DEF Lookup
  <2>2. /\ workers'[a] = IF w # None THEN w ELSE t.got
        /\ \A s \in Session \ {a} : workers'[s] = workers[s]
    BY <1>5, <1>8, <2>1 DEF GetOrCreate, ServerInv, ServerTypes
  <2> QED
    BY <1>10, <1>14, <2>1, <2>2
<1>15. t.phase \in {"run", "got"}
  BY <1>7 DEF Lookup
<1> QED
  BY <1>11, <1>12, <1>13, <1>14, <1>15

-----------------------------------------------------------------------------
(* The turns: their begin and their end, the start and the stop of a reply. *)

\* A turn begins.
LEMMA BeginSettles ==
  ASSUME ServerInv, LetGoInv, SettleInv, NEW q \in Runners, Local(q), Is(At(q), "begin")
  PROVE  SettleInv'
<1>1. PICK c \in Socket : q = <<"task", c>>
  BY HandlerDoes DEF Asking
<1>2. PICK a, w, k : a = At(q).s /\ w = workers[a] /\ k = record[a]
  OBVIOUS
<1>3. PICK t, r : t = task[c] /\ r = Of(reply[c], a)
  OBVIOUS
<1>4. At(q) = t /\ ~Idle(task[c]) /\ a = task[c].s /\ Is(t, "begin")
  BY <1>1, <1>2, <1>3 DEF At, Is, Idle
<1>5. /\ a \in Session /\ t \in TaskType /\ r \in TaskType /\ w \in State /\ k \in State
      /\ (Alone(a, c) /\ k # None) =>
           Fit(t, r, w, k) /\ (link[c] = "open" => Knowing(t, r, w, heard[c][a]))
      /\ Path(t.todo)
  <2>1. Standpoint(c, a, t, r, w, k)
    BY <1>2, <1>3, <1>4, TaskFits
  <2> QED
    BY <1>2, <1>3, <1>4, <2>1, TaskFits DEF Standpoint
<1>6. /\ workers' = [workers EXCEPT ![a] = BeginTurn(@)] /\ Becomes(q, Done(t))
      /\ UNCHANGED <<current, record, heard, link, via, issued, torn, raced>>
  BY <1>2, <1>4 DEF Local, Is, redis, wires, history
<1>7. /\ workers'[a] = BeginTurn(w)
      /\ \A s \in Session \ {a} : workers'[s] = workers[s]
  BY <1>2, <1>5, <1>6 DEF ServerInv, ServerTypes
<1>8. Apart(a)
  BY <1>6, <1>7 DEF Apart, SettleInv, Unused, Heard
<1>9. /\ Done(t) \in TaskType /\ ~Is(Done(t), "write")
      /\ Done(t) = NoTask \/ (~Idle(Done(t)) /\ Done(t).s = a)
      /\ Idle(Done(t)) \/ Done(t).s = a
      /\ Path(Done(t).todo)
  BY <1>3, <1>4, <1>5, DoneRuns, NoTaskType
<1>10. (Alone(a, c) /\ record'[a] # None) =>
         /\ Done(t) = NoTask \/ ~Idle(Done(t))
         /\ Fit(Done(t), r, workers'[a], record'[a])
         /\ link'[c] = "open" => Knowing(Done(t), r, workers'[a], heard'[c][a])
  <2> SUFFICES ASSUME Alone(a, c), k # None
               PROVE  /\ Fit(Done(t), r, BeginTurn(w), k)
                      /\ \A h : Knowing(t, r, w, h) => Knowing(Done(t), r, BeginTurn(w), h)
    BY <1>2, <1>5, <1>6, <1>7, <1>9
  <2>1. Fit(t, r, w, k)
    BY <1>5
  <2> QED
    BY <1>4, <1>5, <2>1, HandlerBegins
<1> QED
  BY <1>1, <1>3, <1>4, <1>6, <1>8, <1>9, <1>10, TaskRuns

\* A turn is completed, and a reply ends, only by a reply.
LEMMA ReplyAt ==
  ASSUME ServerInv, LetGoInv, SettleInv, NEW q \in Runners,
         Is(At(q), "complete") \/ Is(At(q), "finally")
  PROVE  \E c \in Socket : q = <<"reply", c>>
<1>1. PICK c \in Socket : q \in PlacesOf(c)
  BY SocketDoes DEF Asking
<1>2. q # <<"task", c>>
  <2> SUFFICES ASSUME q = <<"task", c>> PROVE FALSE
    OBVIOUS
  <2>1. At(q) = task[c] /\ task[c] \in TaskType /\ Path(task[c].todo)
    BY PlacesRun DEF SettleInv, Paths
  <2>2. ~Idle(task[c])
    BY <2>1 DEF Is, Idle
  <2> QED
    BY <2>1, <2>2, HandlerDoesNot
<1> QED
  BY <1>1, <1>2 DEF PlacesOf

\* A turn is completed.
LEMMA CompleteSettles ==
  ASSUME ServerInv, LetGoInv, SettleInv, NEW q \in Runners, Local(q), Is(At(q), "complete")
  PROVE  SettleInv'
<1>1. PICK c \in Socket : q = <<"reply", c>>
  BY ReplyAt
<1>2. PICK a, w, k : a = At(q).s /\ w = workers[a] /\ k = record[a]
  OBVIOUS
<1>3. PICK t, r : r = reply[c] /\ t = Of(task[c], a)
  OBVIOUS
<1>4. At(q) = r /\ ~Idle(reply[c]) /\ a = reply[c].s /\ Is(r, "complete") /\ ~Is(r, "finally")
  BY <1>1, <1>2, <1>3 DEF At, Is, Idle
<1>5. /\ a \in Session /\ t \in TaskType /\ r \in TaskType /\ w \in State /\ k \in State
      /\ (Alone(a, c) /\ k # None) =>
           Fit(t, r, w, k) /\ (link[c] = "open" => Knowing(t, r, w, heard[c][a]))
      /\ r.todo \in Unanswered \cup Answered
  <2>1. Standpoint(c, a, t, r, w, k)
    BY <1>2, <1>3, <1>4, ReplyFits
  <2> QED
    BY <1>2, <1>3, <1>4, <2>1, ReplyFits DEF Standpoint
<1>6. /\ workers' = [workers EXCEPT ![a] = CompleteTurn(@)] /\ Becomes(q, Done(r))
      /\ UNCHANGED <<current, record, heard, link, via, issued, torn, raced>>
  BY <1>2, <1>4 DEF Local, Is, redis, wires, history
<1>7. /\ workers'[a] = CompleteTurn(w)
      /\ \A s \in Session \ {a} : workers'[s] = workers[s]
  BY <1>2, <1>5, <1>6 DEF ServerInv, ServerTypes
<1>8. Apart(a)
  BY <1>6, <1>7 DEF Apart, SettleInv, Unused, Heard
<1>9. /\ Done(r) \in TaskType
      /\ ~Idle(Done(r)) /\ Done(r).s = a /\ Done(r).todo \in Unanswered \cup Answered
  BY <1>3, <1>4, <1>5, DoneType, ReplyDone
<1>10. (Alone(a, c) /\ record'[a] # None) =>
         /\ Fit(t, Done(r), workers'[a], record'[a])
         /\ link'[c] = "open" => Knowing(t, Done(r), workers'[a], heard'[c][a])
  <2> SUFFICES ASSUME Alone(a, c), k # None
               PROVE  /\ Fit(t, Done(r), CompleteTurn(w), k)
                      /\ \A h : Knowing(t, r, w, h) => Knowing(t, Done(r), CompleteTurn(w), h)
    BY <1>2, <1>5, <1>6, <1>7
  <2>1. Fit(t, r, w, k)
    BY <1>5
  <2> QED
    BY <1>4, <1>5, <2>1, ReplyCompletes
<1> QED
  BY <1>1, <1>3, <1>4, <1>6, <1>8, <1>9, <1>10, ReplyRuns

\* A step of c that starts or ends the reply of a, too.
LEMMA ReplyTurns ==
  ASSUME ServerInv, LetGoInv, SettleInv, NEW c \in Socket, NEW a \in Session, c \in via[a],
         Apart(a), Owned',
         NEW l \in TaskType, task' = [task EXCEPT ![c] = l], Path(l.todo), ~Is(Of(l, a), "write"),
         \A s \in Session \ {a} : Of(l, s) = Of(task[c], s),
         \A d \in Socket, s \in Session \ {a} : Of(reply'[d], s) = Of(reply[d], s),
         (Alone(a, c) /\ a \notin torn' \cup raced' /\ record'[a] # None) =>
           /\ Fit(Of(l, a), Of(reply'[c], a), workers'[a], record'[a])
           /\ link'[c] = "open" => Knowing(Of(l, a), Of(reply'[c], a), workers'[a], heard'[c][a])
  PROVE  SettleInv'
<1>1. TasksTyped /\ c \notin Request
  BY Typed, ServerAssumption
<1>2. task'[c] = l /\ \A d \in Socket \cup Request : d # c => task'[d] = task[d]
  BY <1>1 DEF TasksTyped
<1>3. Paths'
  BY <1>2 DEF SettleInv, Paths
<1>4. Unused'
  BY UnusedElse DEF SettleInv
<1>5. Asked'
  <2>1. \A h \in Request : task'[h] = task[h]
    BY <1>1, <1>2
  <2> QED
    BY <1>1, <2>1, AskedStays DEF SettleInv, Apart
<1>6. Settling'
  <2>1. \A d \in Socket, s \in Session \ {a} :
          Of(task'[d], s) = Of(task[d], s) /\ Of(reply'[d], s) = Of(reply[d], s)
    BY <1>2
  <2>2. ASSUME Alone(a, c), Alone(a, c)' PROVE Fitting(a, c)'
    BY <1>2, <2>2 DEF Fitting, Creates, Matches, Alone
  <2> QED
    BY <2>1, <2>2, SameElse DEF SettleInv
<1> QED
  BY <1>3, <1>4, <1>5, <1>6 DEF SettleInv

\* While a reply of a session runs no handler is about to create it.
LEMMA NotWriting ==
  ASSUME ServerInv, LetGoInv, SettleInv, NEW c \in Socket, ~Idle(reply[c]), NEW a, a = reply[c].s
  PROVE  ~Is(Of(task[c], a), "write")
<1>1. /\ At(<<"task", c>>) = task[c] /\ At(<<"reply", c>>) = reply[c] /\ a \in Session
      /\ <<"task", c>> \in Runners /\ <<"reply", c>> \in Runners
  BY PlacesRun DEF SettleInv
<1>2. <<"task", c>> # <<"reply", c>>
  OBVIOUS
<1>3. ~(Writes(task[c]) /\ task[c].s = a)
  BY <1>1, <1>2 DEF ServerInv, OneCreator
<1>4. ~Is(NoTask, "write")
  BY NoTaskType DEF Writes
<1> QED
  BY <1>3, <1>4 DEF Of, Writes

\* A reply ends.
LEMMA FinallySettles ==
  ASSUME ServerInv, LetGoInv, SettleInv, NEW q \in Runners, Local(q), Is(At(q), "finally")
  PROVE  SettleInv'
<1>1. PICK c \in Socket : q = <<"reply", c>>
  BY ReplyAt
<1>2. PICK a, w, k : a = At(q).s /\ w = workers[a] /\ k = record[a]
  OBVIOUS
<1>3. PICK t, r : r = reply[c] /\ t = Of(task[c], a)
  OBVIOUS
<1>4. At(q) = r /\ ~Idle(reply[c]) /\ a = reply[c].s /\ Is(r, "finally")
  BY <1>1, <1>2, <1>3 DEF At, Is, Idle
<1>5. /\ a \in Session /\ t \in TaskType /\ r \in TaskType /\ w \in State /\ k \in State
      /\ (Alone(a, c) /\ k # None) =>
           Fit(t, r, w, k) /\ (link[c] = "open" => Knowing(t, r, w, heard[c][a]))
  <2>1. Standpoint(c, a, t, r, w, k)
    BY <1>2, <1>3, <1>4, ReplyFits
  <2> QED
    BY <1>2, <1>3, <1>4, <2>1, ReplyFits DEF Standpoint
<1>6. /\ current' = [current EXCEPT ![a] = Nobody] /\ Becomes(q, NoTask)
      /\ UNCHANGED <<workers, record, heard, link, via, issued, torn, raced>>
  BY <1>2, <1>4 DEF Local, Is, redis, wires, history
<1>7. /\ reply' = [reply EXCEPT ![c] = NoTask] /\ task' = [task EXCEPT ![c] = task[c]]
      /\ reply'[c] = NoTask /\ \A d \in Socket : d # c => reply'[d] = reply[d]
      /\ c \in via[a] /\ task[c] \in TaskType /\ Path(task[c].todo)
  <2>1. TasksTyped /\ c \in via[a] /\ task[c] \in TaskType /\ Path(task[c].todo)
    BY <1>4, Typed, PlacesRun DEF SettleInv, Paths
  <2> QED
    BY <1>1, <1>6, <2>1 DEF Becomes, TasksTyped
<1>8. Apart(a)
  BY <1>6 DEF Apart, SettleInv, Unused, Heard
<1>9. current'[a] = Nobody /\ \A s \in Session : s # a => current'[s] = current[s]
  BY <1>5, <1>6 DEF LetGoInv, Ways
<1>10. Owned'
  <2>1. Idle(NoTask) /\ NoTask.todo \in Unanswered \cup Answered
    BY DEF NoTask, Idle, Answered
  <2>2. ASSUME NEW s \in Session, current'[s] # Nobody
        PROVE  ~Idle(reply'[current'[s]]) /\ reply'[current'[s]].s = s
    <3>1. s # a /\ current'[s] = current[s] /\ current[s] \in Socket
      BY <1>9, <2>2 DEF LetGoInv, Ways
    <3>2. ~Idle(reply[current[s]]) /\ reply[current[s]].s = s
      BY <2>2, <3>1 DEF SettleInv, Owned
    <3> QED
      BY <1>4, <1>7, <3>1, <3>2, <1>3
  <2>3. ASSUME NEW s \in Session, NEW d \in Socket, via[s] = {d}, ~Idle(reply'[d]), reply'[d].s = s
        PROVE  current'[s] = d
    <3>1. d # c /\ reply'[d] = reply[d]
      BY <1>7, <2>1, <2>3
    <3>2. s # a /\ current[s] = d
      BY <1>7, <2>3, <3>1 DEF SettleInv, Owned
    <3> QED
      BY <1>9, <3>2
  <2>4. \A d \in Socket : /\ reply'[d].todo \in Unanswered \cup Answered
                          /\ ~Idle(reply'[d]) => reply'[d].s \in Session /\ d \in via[reply'[d].s]
    BY <1>7, <2>1 DEF SettleInv, Owned
  <2> QED
    BY <1>6, <2>2, <2>3, <2>4 DEF Owned
<1>11. \A d \in Socket, s \in Session \ {a} : Of(reply'[d], s) = Of(reply[d], s)
  <2> SUFFICES ASSUME NEW s \in Session \ {a} PROVE Of(reply'[c], s) = Of(reply[c], s)
    BY <1>7
  <2>1. Of(reply[c], s) = NoTask
    BY <1>4, OfIs
  <2> QED
    BY <1>7, <2>1, OfIs
<1>12. ~Is(t, "write")
  BY <1>3, <1>4, NotWriting
<1>13. (Alone(a, c) /\ record'[a] # None) =>
         /\ Fit(t, NoTask, workers'[a], record'[a])
         /\ link'[c] = "open" => Knowing(t, NoTask, workers'[a], heard'[c][a])
  <2> SUFFICES ASSUME Alone(a, c), k # None
               PROVE  /\ Fit(t, NoTask, w, k)
                      /\ \A h : Knowing(t, r, w, h) => Knowing(t, NoTask, w, h)
    BY <1>2, <1>5, <1>6
  <2>1. Fit(t, r, w, k)
    BY <1>5
  <2> QED
    BY <1>4, <1>5, <2>1, ReplyEnds
<1>14. Of(task[c], a) = t /\ Of(reply'[c], a) = NoTask
  BY <1>3, <1>7, OfIs
<1>15. (Alone(a, c) /\ record'[a] # None) =>
         /\ Fit(Of(task[c], a), Of(reply'[c], a), workers'[a], record'[a])
         /\ link'[c] = "open" =>
              Knowing(Of(task[c], a), Of(reply'[c], a), workers'[a], heard'[c][a])
  BY <1>13, <1>14
<1>16. ~Is(Of(task[c], a), "write")
  BY <1>12, <1>14
<1>17. \A s \in Session \ {a} : Of(task[c], s) = Of(task[c], s)
  OBVIOUS
<1>18. PICK l : l = task[c]
  OBVIOUS
<1> QED
  BY <1>5, <1>7, <1>8, <1>10, <1>11, <1>15, <1>16, <1>17, <1>18, ReplyTurns

\* The steps that neither await Redis nor send.
LEMMA LocalSettles ==
  ASSUME ServerInv, LetGoInv, SettleInv, NEW q \in Runners, Local(q)
  PROVE  SettleInv'
<1>1. Is(At(q), "begin") \/ Is(At(q), "complete") \/ Is(At(q), "finally")
  BY DEF Local
<1> QED
  BY <1>1, BeginSettles, CompleteSettles, FinallySettles

\* The handler's task goes on: for the other sessions it had nothing to do.
LEMMA DoneOf ==
  ASSUME NEW k \in TaskType, ~Idle(k)
  PROVE  /\ Of(Done(k), k.s) = Done(k) /\ ~Is(Of(Done(k), k.s), "write")
         /\ \A s : s # k.s => Of(Done(k), s) = Of(k, s)
<1>1. Done(k) = NoTask \/ (~Idle(Done(k)) /\ Done(k).s = k.s)
  BY DoneRuns
<1>2. ~Is(Done(k), "write")
  BY DoneRuns
<1> QED
  BY <1>1, <1>2, OfIs

\* A reply is spawned.
LEMMA SpawnSettles ==
  ASSUME ServerInv, LetGoInv, SettleInv, NEW c \in Socket, Spawn(c)
  PROVE  SettleInv'
<1>1. PICK a, w, k, t, r : /\ t = task[c] /\ a = t.s /\ w = workers[a] /\ k = record[a]
                           /\ r = Of(reply[c], a)
  OBVIOUS
<1>2. Is(t, "spawn") /\ ~Idle(task[c]) /\ a = task[c].s /\ Idle(reply[c]) /\ r = NoTask
  BY <1>1, OfIs DEF Spawn, Is, Idle
<1>3. /\ a \in Session /\ t \in TaskType /\ r \in TaskType /\ w \in State /\ k \in State
      /\ (Alone(a, c) /\ k # None) =>
           Fit(t, r, w, k) /\ (link[c] = "open" => Knowing(t, r, w, heard[c][a]))
      /\ Path(t.todo)
  <2>1. Standpoint(c, a, t, r, w, k)
    BY <1>1, <1>2, TaskFits
  <2> QED
    BY <1>1, <1>2, <2>1, TaskFits DEF Standpoint
<1>4. PICK m : m = Task(a, Replying)
  OBVIOUS
<1>5. /\ reply' = [reply EXCEPT ![c] = m] /\ task' = [task EXCEPT ![c] = Done(t)]
      /\ current' = [current EXCEPT ![a] = c]
      /\ UNCHANGED <<workers, record, heard, link, via, issued, torn, raced>>
  BY <1>1, <1>4 DEF Spawn, redis, wires, history
<1>6. TasksTyped /\ c \in via[a]
  BY <1>2, Typed, PlacesRun DEF SettleInv
<1>7. reply'[c] = m /\ \A d \in Socket : d # c => reply'[d] = reply[d]
  BY <1>5, <1>6 DEF TasksTyped
<1>8. current'[a] = c /\ \A s \in Session : s # a => current'[s] = current[s]
  BY <1>3, <1>5 DEF LetGoInv, Ways
<1>9. Apart(a)
  BY <1>5 DEF Apart, SettleInv, Unused, Heard
<1>10. m.s = a /\ ~Idle(m) /\ m.todo \in Unanswered \cup Answered
  BY <1>4 DEF Task, NoTask, Idle, Unanswered, Replying
<1>11. Owned'
  <2>1. ASSUME NEW s \in Session, current'[s] # Nobody
        PROVE  ~Idle(reply'[current'[s]]) /\ reply'[current'[s]].s = s
    <3>1. CASE s = a
      BY <1>7, <1>8, <1>10, <3>1
    <3>2. CASE s # a
      <4>1. current'[s] = current[s] /\ current[s] \in Socket
        BY <1>8, <2>1, <3>2 DEF LetGoInv, Ways
      <4>2. ~Idle(reply[current[s]]) /\ reply[current[s]].s = s
        BY <2>1, <4>1 DEF SettleInv, Owned
      <4> QED
        BY <1>2, <1>7, <4>1, <4>2
    <3> QED
      BY <3>1, <3>2
  <2>2. ASSUME NEW s \in Session, NEW d \in Socket, via[s] = {d}, ~Idle(reply'[d]), reply'[d].s = s
        PROVE  current'[s] = d
    <3>1. CASE d = c
      BY <1>7, <1>8, <1>10, <2>2, <3>1
    <3>2. CASE d # c
      <4>1. reply'[d] = reply[d] /\ current[s] = d
        BY <1>7, <2>2, <3>2 DEF SettleInv, Owned
      <4>2. s # a
        BY <1>6, <2>2, <3>2
      <4> QED
        BY <1>8, <4>1, <4>2
    <3> QED
      BY <3>1, <3>2
  <2>3. \A d \in Socket : /\ reply'[d].todo \in Unanswered \cup Answered
                          /\ ~Idle(reply'[d]) => reply'[d].s \in Session /\ d \in via[reply'[d].s]
    BY <1>3, <1>6, <1>7, <1>10 DEF SettleInv, Owned
  <2> QED
    BY <1>5, <2>1, <2>2, <2>3 DEF Owned
<1>12. \A d \in Socket, s \in Session \ {a} : Of(reply'[d], s) = Of(reply[d], s)
  <2> SUFFICES ASSUME NEW s \in Session \ {a} PROVE Of(reply'[c], s) = Of(reply[c], s)
    BY <1>7
  <2>1. Of(reply[c], s) = NoTask
    BY <1>2, OfIs
  <2> QED
    BY <1>7, <1>10, <2>1, OfIs
<1>13. /\ Of(Done(t), a) = Done(t) /\ ~Is(Of(Done(t), a), "write")
       /\ \A s \in Session \ {a} : Of(Done(t), s) = Of(task[c], s)
       /\ Of(reply'[c], a) = m
  BY <1>1, <1>2, <1>3, <1>7, <1>10, DoneOf, OfIs
<1>14. Done(t) \in TaskType /\ Path(Done(t).todo)
  BY <1>1, <1>2, <1>3, DoneRuns
<1>15. (Alone(a, c) /\ record'[a] # None) =>
         /\ Fit(Done(t), m, workers'[a], record'[a])
         /\ link'[c] = "open" => Knowing(Done(t), m, workers'[a], heard'[c][a])
  <2> SUFFICES ASSUME Alone(a, c), k # None
               PROVE  /\ Fit(Done(t), m, w, k)
                      /\ \A h : Knowing(t, r, w, h) => Knowing(Done(t), m, w, h)
    BY <1>1, <1>3, <1>5
  <2>1. Fit(t, r, w, k) /\ Idle(r)
    BY <1>2, <1>3, NoTaskType
  <2> QED
    BY <1>2, <1>3, <1>4, <2>1, HandlerSpawns
<1>16. (Alone(a, c) /\ record'[a] # None) =>
         /\ Fit(Of(Done(t), a), Of(reply'[c], a), workers'[a], record'[a])
         /\ link'[c] = "open" =>
              Knowing(Of(Done(t), a), Of(reply'[c], a), workers'[a], heard'[c][a])
  BY <1>13, <1>15
<1>17. task' = [task EXCEPT ![c] = Done(t)]
  BY <1>5
<1> QED
  BY <1>3, <1>6, <1>9, <1>11, <1>12, <1>13, <1>14, <1>16, <1>17, ReplyTurns

\* A reply is cancelled.
LEMMA StopSettles ==
  ASSUME ServerInv, LetGoInv, SettleInv, NEW c \in Socket, Stop(c)
  PROVE  SettleInv'
<1>1. PICK a, w, k, t, r : /\ t = task[c] /\ a = t.s /\ w = workers[a] /\ k = record[a]
                           /\ r = Of(reply[c], a)
  OBVIOUS
<1>2. Is(t, "stop") /\ ~Idle(task[c]) /\ a = task[c].s
  BY <1>1 DEF Stop, Is, Idle
<1>3. /\ a \in Session /\ t \in TaskType /\ r \in TaskType /\ w \in State /\ k \in State
      /\ (Alone(a, c) /\ k # None) =>
           Fit(t, r, w, k) /\ (link[c] = "open" => Knowing(t, r, w, heard[c][a]))
      /\ Path(t.todo)
  <2>1. Standpoint(c, a, t, r, w, k)
    BY <1>1, <1>2, TaskFits
  <2> QED
    BY <1>1, <1>2, <2>1, TaskFits DEF Standpoint
<1>4. PICK d : d = current[a]
  OBVIOUS
<1>5. /\ task' = [task EXCEPT ![c] = Done(t)] /\ current' = [current EXCEPT ![a] = Nobody]
      /\ workers' = [workers EXCEPT ![a] = CompleteTurn(@)]
      /\ IF d = Nobody THEN reply' = reply ELSE reply' = [reply EXCEPT ![d] = NoTask]
      /\ UNCHANGED <<record, heard, link, via, issued, torn, raced>>
  BY <1>1, <1>4 DEF Stop, redis, history
<1>6. TasksTyped /\ c \in via[a] /\ d \in Socket \cup {Nobody}
  BY <1>2, <1>3, <1>4, Typed, PlacesRun DEF SettleInv, LetGoInv, Ways
<1>7. /\ d # Nobody => d \in Socket /\ reply'[d] = NoTask /\ reply[d].s = a
      /\ \A e \in Socket : e # d => reply'[e] = reply[e]
  BY <1>3, <1>4, <1>5, <1>6 DEF TasksTyped, SettleInv, Owned
<1>8. current'[a] = Nobody /\ \A s \in Session : s # a => current'[s] = current[s]
  BY <1>3, <1>5 DEF LetGoInv, Ways
<1>9. /\ workers'[a] = CompleteTurn(w)
      /\ \A s \in Session \ {a} : workers'[s] = workers[s]
  BY <1>1, <1>3, <1>5 DEF ServerInv, ServerTypes
<1>10. Apart(a)
  BY <1>5, <1>9 DEF Apart, SettleInv, Unused, Heard
<1>11. Idle(NoTask) /\ NoTask.todo \in Unanswered \cup Answered
  BY DEF NoTask, Idle, Answered
<1>12. \A e \in Socket : reply'[e] = reply[e] \/ (reply'[e] = NoTask /\ reply[e].s = a)
  BY <1>6, <1>7, ServerAssumption
<1>13. Owned'
  <2>1. ASSUME NEW s \in Session, current'[s] # Nobody
        PROVE  ~Idle(reply'[current'[s]]) /\ reply'[current'[s]].s = s
    <3>1. s # a /\ current'[s] = current[s] /\ current[s] \in Socket
      BY <1>8, <2>1 DEF LetGoInv, Ways
    <3>2. ~Idle(reply[current[s]]) /\ reply[current[s]].s = s
      BY <2>1, <3>1 DEF SettleInv, Owned
    <3> QED
      BY <1>12, <3>1, <3>2
  <2>2. ASSUME NEW s \in Session, NEW e \in Socket, via[s] = {e}, ~Idle(reply'[e]), reply'[e].s = s
        PROVE  current'[s] = e
    <3>1. reply'[e] = reply[e] /\ current[s] = e
      BY <1>11, <1>12, <2>2 DEF SettleInv, Owned
    <3>2. s # a
      <4> SUFFICES ASSUME s = a PROVE FALSE
        OBVIOUS
      <4>1. d = e /\ e # Nobody
        BY <1>4, <3>1, ServerAssumption
      <4> QED
        BY <1>7, <1>11, <2>2, <4>1
    <3> QED
      BY <1>8, <3>1, <3>2
  <2>3. \A e \in Socket : /\ reply'[e].todo \in Unanswered \cup Answered
                          /\ ~Idle(reply'[e]) => reply'[e].s \in Session /\ e \in via[reply'[e].s]
    BY <1>11, <1>12 DEF SettleInv, Owned
  <2> QED
    BY <1>5, <2>1, <2>2, <2>3 DEF Owned
<1>14. \A e \in Socket, s \in Session \ {a} : Of(reply'[e], s) = Of(reply[e], s)
  BY <1>12, OfIs
<1>15. /\ Of(Done(t), a) = Done(t) /\ ~Is(Of(Done(t), a), "write")
       /\ \A s \in Session \ {a} : Of(Done(t), s) = Of(task[c], s)
  BY <1>1, <1>2, <1>3, DoneOf
<1>16. Done(t) \in TaskType /\ Path(Done(t).todo)
  BY <1>1, <1>2, <1>3, DoneRuns
<1>17. Alone(a, c) => Of(reply'[c], a) = NoTask
  <2> SUFFICES ASSUME Alone(a, c), Of(reply'[c], a) # NoTask PROVE FALSE
    OBVIOUS
  <2>1. ~Idle(reply'[c]) /\ reply'[c].s = a
    BY OfIs
  <2>2. current'[a] = c
    BY <1>3, <1>5, <1>13, <2>1 DEF Owned, Alone
  <2> QED
    BY <1>8, <2>2, ServerAssumption
<1>18. (Alone(a, c) /\ record'[a] # None) =>
         /\ Fit(Done(t), Of(reply'[c], a), workers'[a], record'[a])
         /\ link'[c] = "open" => Knowing(Done(t), Of(reply'[c], a), workers'[a], heard'[c][a])
  <2> SUFFICES ASSUME Alone(a, c), k # None
               PROVE  /\ Fit(Done(t), NoTask, CompleteTurn(w), k)
                      /\ \A h : Knowing(t, r, w, h) => Knowing(Done(t), NoTask, CompleteTurn(w), h)
    BY <1>1, <1>3, <1>5, <1>9, <1>17
  <2>1. Fit(t, r, w, k)
    BY <1>3
  <2> QED
    BY <1>2, <1>3, <2>1, HandlerStops
<1>19. (Alone(a, c) /\ record'[a] # None) =>
         /\ Fit(Of(Done(t), a), Of(reply'[c], a), workers'[a], record'[a])
         /\ link'[c] = "open" =>
              Knowing(Of(Done(t), a), Of(reply'[c], a), workers'[a], heard'[c][a])
  BY <1>15, <1>18
<1>20. task' = [task EXCEPT ![c] = Done(t)]
  BY <1>5
<1> QED
  BY <1>3, <1>6, <1>10, <1>13, <1>14, <1>15, <1>16, <1>19, <1>20, ReplyTurns

-----------------------------------------------------------------------------
(* The commands of the store.                                              *)

\* The first write of the key, by the handler that made the session.
LEMMA HandlerCreates ==
  ASSUME NEW t \in TaskType, Is(t, "write"), Path(t.todo), t.out = <<>>
  PROVE  Fit(Done(t), NoTask, None, Fresh)
<1>1. /\ ~Idle(Done(t)) /\ Path(Done(t).todo) /\ Is(Done(t), "enter") /\ Done(t).phase = "run"
      /\ Done(t).out = <<>>
  BY GoesTo
<1>2. ~Is(Done(t), "to") /\ ~Is(Done(t), "message")
  BY <1>1 DEF Is
<1>3. /\ Idle(NoTask) /\ NoTask.todo = <<>> /\ ~Is(NoTask, "to") /\ NoTask.phase = "run"
      /\ Fresh.status = "created" /\ ~Fresh.active
  BY DEF NoTask, Idle, Is, Fresh
<1>4. Shapes(Done(t), NoTask)
  BY <1>1, <1>2, <1>3 DEF Shapes, Answered
<1>5. Unstarted(Done(t), NoTask, None, Fresh)
  BY <1>1, <1>2, <1>3 DEF Unstarted
<1>6. Same(Done(t), NoTask, None, Fresh)
  BY <1>2, <1>3 DEF Same, Copies, Sets, None
<1> QED
  BY <1>4, <1>5, <1>6 DEF Fit, Standing

\* The commands of a handler other than the updates.
LEMMA SocketCommands ==
  ASSUME ServerInv, LetGoInv, SettleInv, NEW c \in Socket, Command(<<"task", c>>)
  PROVE  SettleInv'
<1>1. PICK a, w, k, t, r : /\ t = task[c] /\ a = t.s /\ w = workers[a] /\ k = record[a]
                           /\ r = Of(reply[c], a)
  OBVIOUS
<1>2. At(<<"task", c>>) = t
  BY <1>1 DEF At
<1>3. /\ ~Idle(task[c]) /\ a = task[c].s
      /\ Is(t, "write") \/ Is(t, "enter") \/ Is(t, "fetch") \/ Is(t, "delete") \/ Is(t, "leave")
  BY <1>1, <1>2 DEF Command, Is, Idle
<1>4. /\ a \in Session /\ t \in TaskType /\ r \in TaskType /\ w \in State /\ k \in State
      /\ (Alone(a, c) /\ k # None) =>
           Fit(t, r, w, k) /\ (link[c] = "open" => Knowing(t, r, w, heard[c][a]))
      /\ Path(t.todo)
  <2>1. Standpoint(c, a, t, r, w, k)
    BY <1>1, <1>3, TaskFits
  <2> QED
    BY <1>1, <1>3, <2>1, TaskFits DEF Standpoint
<1>5. /\ UNCHANGED <<current, workers, heard, link, via, issued, torn>>
      /\ raced \subseteq raced' /\ record' \in [Session -> State]
      /\ \A s \in Session : s # a => record'[s] = record[s]
  <2>1. record \in [Session -> State] /\ None \in State /\ Fresh \in State
    BY DEF ServerInv, ServerTypes, None, Fresh, State, Status
  <2>2. /\ UNCHANGED <<current, workers, heard, link, via, issued, torn>>
        /\ raced \subseteq raced'
    BY <1>2 DEF Command, host, wires
  <2>3. \/ record' = record \/ record' = [record EXCEPT ![a] = Fresh]
        \/ record' = [record EXCEPT ![a] = None]
    BY <1>1, <1>2 DEF Command, redis
  <2> QED
    BY <1>4, <2>1, <2>2, <2>3
<1>6. Apart(a)
  BY <1>5 DEF Apart, SettleInv, Unused, Heard
<1>7. /\ Done(t) \in TaskType /\ ~Is(Done(t), "write")
      /\ Done(t) = NoTask \/ (~Idle(Done(t)) /\ Done(t).s = a)
      /\ Idle(Done(t)) \/ Done(t).s = a
      /\ Path(Done(t).todo)
  BY <1>1, <1>3, <1>4, DoneRuns, NoTaskType
<1>8. ASSUME Becomes(<<"task", c>>, Done(t)),
             (Alone(a, c) /\ record'[a] # None) =>
               /\ Fit(Done(t), r, w, record'[a])
               /\ link[c] = "open" => Knowing(Done(t), r, w, heard[c][a])
      PROVE  SettleInv'
  <2>1. (Alone(a, c) /\ record'[a] # None) =>
          /\ Done(t) = NoTask \/ ~Idle(Done(t))
          /\ Fit(Done(t), r, workers'[a], record'[a])
          /\ link'[c] = "open" => Knowing(Done(t), r, workers'[a], heard'[c][a])
    BY <1>1, <1>5, <1>7, <1>8
  <2> QED
    BY <1>1, <1>3, <1>5, <1>6, <1>7, <1>8, <2>1, TaskRuns
<1>9. CASE Is(t, "write")
  <2>1. Becomes(<<"task", c>>, Done(t)) /\ record' = [record EXCEPT ![a] = Fresh]
    BY <1>1, <1>2, <1>9 DEF Command, Is
  <2>2. record'[a] = Fresh
    BY <1>4, <2>1 DEF ServerInv, ServerTypes
  <2>3. Alone(a, c) =>
          /\ Fit(Done(t), r, w, Fresh)
          /\ Knowing(Done(t), r, w, heard[c][a])
    <3> SUFFICES ASSUME Alone(a, c) PROVE Fit(Done(t), r, w, Fresh) /\ Knowing(Done(t), r, w, heard[c][a])
      OBVIOUS
    <3>1. k = None
      <4> SUFFICES ASSUME k # None PROVE FALSE
        OBVIOUS
      <4>1. Unstarted(t, r, w, k)
        BY <1>4 DEF Fit
      <4> QED
        BY <1>9, <4>1 DEF Unstarted, Is, Idle, Faces
    <3>2. Of(task[c], a) = t
      BY <1>1, <1>3, OfIs
    <3>3. w = None /\ heard[c][a] = "none" /\ t.out = <<>> /\ r = NoTask
      BY <1>1, <1>4, <1>9, <3>1, <3>2 DEF SettleInv, Settling, Fitting, Creates
    <3>4. Fit(Done(t), NoTask, None, Fresh)
      BY <1>4, <1>9, <3>3, HandlerCreates
    <3> QED
      BY <3>3, <3>4 DEF Knowing
  <2> QED
    BY <1>8, <2>1, <2>2, <2>3
<1>10. CASE Is(t, "delete")
  <2>1. Becomes(<<"task", c>>, Done(t)) /\ record' = [record EXCEPT ![a] = None]
    BY <1>1, <1>2, <1>10 DEF Command, Is
  <2>2. record'[a] = None
    BY <1>4, <2>1 DEF ServerInv, ServerTypes
  <2> QED
    BY <1>8, <2>1, <2>2
<1>11. CASE Is(t, "fetch") /\ k = None
  <2>1. Raises(<<"task", c>>) /\ record' = record
    BY <1>1, <1>2, <1>11 DEF Command, Is, redis
  <2>2. PICK l : l = [t EXCEPT !.todo = <<Flush("error")>>, !.phase = "run", !.out = <<>>]
    OBVIOUS
  <2>3. Becomes(<<"task", c>>, l)
    BY <1>2, <2>1, <2>2 DEF Raises
  <2>4. l \in TaskType /\ ~Is(l, "write") /\ l.s = a /\ Path(l.todo)
    BY <1>1, <1>3, <1>4, <2>2, ErrorRuns
  <2>5. record'[a] = None
    BY <1>1, <1>11, <2>1
  <2> QED
    BY <1>1, <1>3, <1>5, <1>6, <2>3, <2>4, <2>5, TaskRuns
<1>12. ASSUME NEW d \in {"enter", "fetch", "leave"}, Is(t, d), d = "fetch" => k # None
       PROVE  SettleInv'
  <2>1. Becomes(<<"task", c>>, Done(t)) /\ record' = record
    BY <1>1, <1>2, <1>12 DEF Command, Is, redis
  <2>2. (Alone(a, c) /\ k # None) =>
          /\ Fit(Done(t), r, w, k)
          /\ link[c] = "open" => Knowing(Done(t), r, w, heard[c][a])
    BY <1>4, <1>12, HandlerGoes
  <2>3. record'[a] = k
    BY <1>1, <2>1
  <2> QED
    BY <1>8, <2>1, <2>2, <2>3
<1>13. CASE Is(t, "enter") \/ (Is(t, "fetch") /\ k # None) \/ Is(t, "leave")
  BY <1>12, <1>13
<1> QED
  BY <1>3, <1>9, <1>10, <1>11, <1>13

\* A request: of a session of one socket it changes no more than the key, and
\* it puts nothing there.
LEMMA RequestSettles ==
  ASSUME ServerInv, LetGoInv, SettleInv, NEW h \in Request, NEW l,
         task' = [task EXCEPT ![h] = l], reply' = reply,
         UNCHANGED <<current, workers, heard, link, via>>,
         torn \subseteq torn', raced \subseteq raced', issued \subseteq issued',
         \A i \in 1..Len(l.todo) : l.todo[i].do \in Asking,
         Is(l, "write") => via[l.s] = {},
         \A s \in Session :
           \/ record'[s] = record[s]
           \/ via[s] = {} /\ s \in issued /\ record'[s] \in {None, Fresh}
           \/ record'[s] = None /\ \A c \in Socket : ~Is(Of(task[c], s), "write")
  PROVE  SettleInv'
<1>1. TasksTyped /\ h \notin Socket
  BY Typed, ServerAssumption
<1>2. task'[h] = l /\ \A d \in Socket \cup Request : d # h => task'[d] = task[d]
  BY <1>1 DEF TasksTyped
<1>3. \A c \in Socket : task'[c] = task[c]
  BY <1>1, <1>2
<1>4. Owned'
  <2>1. \A c \in Socket : reply'[c] = reply[c]
    OBVIOUS
  <2> QED
    BY <2>1, OwnedStays DEF SettleInv
<1>5. Paths'
  BY <1>3 DEF SettleInv, Paths
<1>6. Asked'
  <2>1. ASSUME NEW x \in Request
        PROVE  /\ \A i \in 1..Len(task'[x].todo) : task'[x].todo[i].do \in Asking
               /\ Is(task'[x], "write") => via[task'[x].s] = {}
    BY <1>2 DEF SettleInv, Asked
  <2> QED
    BY <2>1 DEF Asked
<1>7. Unused'
  <2>1. ASSUME NEW s \in Session, via[s] = {} PROVE record'[s] \in {None, Fresh}
    BY <2>1 DEF SettleInv, Unused
  <2>2. ASSUME NEW s \in Session, s \notin issued' PROVE record'[s] = None
    BY <2>2 DEF SettleInv, Unused
  <2> QED
    BY <2>1, <2>2 DEF SettleInv, Unused
<1>8. Settling'
  <2> SUFFICES ASSUME NEW s \in Session, NEW c \in Socket, Alone(s, c)' PROVE Fitting(s, c)'
    BY DEF Settling
  <2>1. Alone(s, c) /\ via[s] # {}
    BY DEF Alone
  <2>2. Fitting(s, c)
    BY <2>1 DEF SettleInv, Settling
  <2>3. /\ Of(task'[c], s) = Of(task[c], s) /\ Of(reply'[c], s) = Of(reply[c], s)
    BY <1>3
  <2>4. CASE record'[s] = record[s]
    BY <2>2, <2>3, <2>4 DEF Fitting, Matches, Creates
  <2>5. CASE record'[s] = None /\ ~Is(Of(task[c], s), "write")
    BY <2>3, <2>5 DEF Fitting, Matches, Creates
  <2> QED
    BY <2>1, <2>4, <2>5
<1> QED
  BY <1>4, <1>5, <1>6, <1>7, <1>8 DEF SettleInv

\* What is left of the steps of a request.
LEMMA RequestRest ==
  ASSUME NEW k \in TaskType, ~Idle(k), \A i \in 1..Len(k.todo) : k.todo[i].do \in Asking
  PROVE  /\ \A i \in 1..Len(Done(k).todo) : Done(k).todo[i].do \in Asking
         /\ ~Is(Done(k), "write")
<1>1. ~Is(Done(k), "write")
  BY DoneRuns
<1>2. CASE Len(k.todo) = 1
  <2>1. Done(k).todo = <<>>
    BY <1>2 DEF Done, NoTask
  <2>2. Len(Done(k).todo) = 0
    BY <2>1
  <2> QED
    BY <1>1, <2>2
<1>3. CASE Len(k.todo) # 1
  <2>1. Done(k).todo = Tail(k.todo)
    BY <1>3 DEF Done, TaskType
  <2>2. /\ Len(Tail(k.todo)) = Len(k.todo) - 1 /\ Len(k.todo) \in Nat
        /\ \A i \in 1..(Len(k.todo) - 1) : Tail(k.todo)[i] = k.todo[i + 1]
    BY TaskLists DEF Idle
  <2>3. ASSUME NEW i \in 1..Len(Tail(k.todo)) PROVE Tail(k.todo)[i].do \in Asking
    <3>1. i + 1 \in 1..Len(k.todo) /\ Tail(k.todo)[i] = k.todo[i + 1]
      BY <2>2
    <3> QED
      BY <3>1
  <2> QED
    BY <1>1, <2>1, <2>3
<1> QED
  BY <1>2, <1>3

\* The commands of a request.
LEMMA RequestCommands ==
  ASSUME ServerInv, LetGoInv, SettleInv, NEW h \in Request, Command(<<"task", h>>)
  PROVE  SettleInv'
<1>1. PICK a, t : t = task[h] /\ a = t.s
  OBVIOUS
<1>2. /\ At(<<"task", h>>) = t /\ <<"task", h>> \in Runners /\ t \in TaskType /\ h \notin Socket
  BY <1>1, Typed, ServerAssumption DEF At, TasksTyped
<1>3. /\ ~Idle(t)
      /\ Is(t, "write") \/ Is(t, "enter") \/ Is(t, "fetch") \/ Is(t, "delete") \/ Is(t, "leave")
  BY <1>2 DEF Command, Is, Idle
<1>4. a \in Session /\ a \in issued
  <2>1. a \in Session /\ a # Nobody
    BY <1>1, <1>2, <1>3, InSession
  <2> QED
    BY <1>1, <1>2, <1>3, <2>1 DEF ServerInv, NotIssued
<1>5. \A i \in 1..Len(t.todo) : t.todo[i].do \in Asking
  BY <1>1 DEF SettleInv, Asked
<1>6. PICK l : /\ Becomes(<<"task", h>>, l)
               /\ l = Done(t) \/ l = NoTask
  <2>1. Becomes(<<"task", h>>, Done(t)) \/ Raises(<<"task", h>>)
    BY <1>2 DEF Command
  <2>2. Raises(<<"task", h>>) => Becomes(<<"task", h>>, NoTask)
    BY <1>2 DEF Raises
  <2> QED
    BY <2>1, <2>2
<1>7. task' = [task EXCEPT ![h] = l] /\ reply' = reply
  BY <1>6 DEF Becomes
<1>8. /\ UNCHANGED <<current, workers, heard, link, via, issued, torn>>
      /\ raced \subseteq raced'
  BY <1>2 DEF Command, host, wires
<1>9. /\ \A i \in 1..Len(l.todo) : l.todo[i].do \in Asking
      /\ ~Is(l, "write")
  <2>1. Len(NoTask.todo) = 0 /\ ~Is(NoTask, "write")
    BY NoTaskType DEF NoTask, Writes
  <2> QED
    BY <1>2, <1>3, <1>5, <1>6, <2>1, RequestRest
<1>10. \A s \in Session : s # a => record'[s] = record[s]
  <2>1. \/ record' = record \/ record' = [record EXCEPT ![a] = Fresh]
        \/ record' = [record EXCEPT ![a] = None]
    BY <1>1, <1>2 DEF Command, redis
  <2> QED
    BY <2>1 DEF ServerInv, ServerTypes
<1>11. \/ record'[a] = record[a]
       \/ via[a] = {} /\ record'[a] = Fresh
       \/ record'[a] = None /\ \A c \in Socket : ~Is(Of(task[c], a), "write")
  <2>1. CASE Is(t, "write")
    <3>1. via[a] = {}
      BY <1>1, <2>1 DEF SettleInv, Asked
    <3>2. record' = [record EXCEPT ![a] = Fresh]
      BY <1>1, <1>2, <2>1 DEF Command, Is
    <3> QED
      BY <1>4, <3>1, <3>2 DEF ServerInv, ServerTypes
  <2>2. CASE Is(t, "delete")
    <3>1. record' = [record EXCEPT ![a] = None]
      BY <1>1, <1>2, <2>2 DEF Command, Is
    <3>2. ASSUME NEW c \in Socket, Is(Of(task[c], a), "write") PROVE FALSE
      <4>1. Is(task[c], "write") /\ task[c].s = a
        BY <3>2, NoTaskType DEF Of, Writes
      <4>2. /\ At(<<"task", c>>) = task[c] /\ <<"task", c>> \in Runners
            /\ <<"task", c>> # <<"task", h>>
        BY <1>2, Typed DEF At
      <4> QED
        BY <1>1, <1>2, <1>3, <1>4, <4>1, <4>2 DEF ServerInv, OneCreator, Writes
    <3> QED
      BY <1>4, <3>1, <3>2 DEF ServerInv, ServerTypes
  <2>3. CASE ~Is(t, "write") /\ ~Is(t, "delete")
    BY <1>2, <2>3 DEF Command, redis
  <2> QED
    BY <2>1, <2>2, <2>3
<1>12. \A s \in Session :
         \/ record'[s] = record[s]
         \/ via[s] = {} /\ s \in issued /\ record'[s] \in {None, Fresh}
         \/ record'[s] = None /\ \A c \in Socket : ~Is(Of(task[c], s), "write")
  BY <1>4, <1>10, <1>11
<1> QED
  BY <1>7, <1>8, <1>9, <1>12, RequestSettles

\* All commands but the updates.
LEMMA CommandSettles ==
  ASSUME ServerInv, LetGoInv, SettleInv, NEW q \in Runners, Command(q)
  PROVE  SettleInv'
<1>1. ASSUME NEW c \in Socket, q = <<"reply", c>> PROVE FALSE
  <2>1. At(q) = reply[c] /\ reply[c].todo \in Unanswered \cup Answered
    BY <1>1 DEF At, SettleInv, Owned
  <2>2. reply[c].todo # <<>> /\ Head(reply[c].todo).do \in {"write", "enter", "fetch", "delete", "leave"}
    BY <2>1 DEF Command, Is
  <2> QED
    BY <2>1, <2>2, ReplyRest, ReplyFields
<1>2. \E x \in Socket \cup Request : q = <<"task", x>>
  BY <1>1 DEF Runners
<1> QED
  BY <1>2, SocketCommands, RequestCommands

\* The listing, which writes no key, and the requests that come.
LEMMA ListingSettles ==
  ASSUME ServerInv, LetGoInv, SettleInv, NEW h \in Request, Members(h) \/ Read(h) \/ Drop(h)
  PROVE  SettleInv'
<1>1. PICK t : t = task[h]
  OBVIOUS
<1>2. t \in TaskType /\ \A i \in 1..Len(t.todo) : t.todo[i].do \in Asking
  BY <1>1, Typed DEF TasksTyped, SettleInv, Asked
<1>3. ~Idle(t) /\ ~Is(t, "write")
  BY <1>1 DEF Members, Read, Drop, Is, Idle
<1>4. \E l : /\ task' = [task EXCEPT ![h] = l]
             /\ l.todo = t.todo \/ l.todo = Done(t).todo \/ l.todo = <<>>
  <2>1. CASE Members(h)
    <3> DEFINE l == [Done(t) EXCEPT !.ids = index]
    <3>1. task' = [task EXCEPT ![h] = l]
      BY <1>1, <2>1 DEF Members
    <3>2. l.todo = Done(t).todo
      BY <1>2, <1>3, DoneType DEF TaskType
    <3> QED
      BY <3>1, <3>2
  <2>2. CASE Read(h)
    <3>1. \/ task' = [task EXCEPT ![h] = NoTask]
          \/ \E s : \/ task' = [task EXCEPT ![h] = [t EXCEPT !.phase = "stale", !.s = s]]
                    \/ task' = [task EXCEPT ![h] = [t EXCEPT !.ids = @ \ {s}, !.found = @ \cup {s}]]
      BY <1>1, <2>2 DEF Read
    <3>2. NoTask.todo = <<>>
      BY DEF NoTask
    <3>3. \A s : /\ [t EXCEPT !.phase = "stale", !.s = s].todo = t.todo
                 /\ [t EXCEPT !.ids = @ \ {s}, !.found = @ \cup {s}].todo = t.todo
      BY <1>2 DEF TaskType
    <3> QED
      BY <3>1, <3>2, <3>3
  <2>3. CASE Drop(h)
    <3> DEFINE l == [t EXCEPT !.ids = @ \ {t.s}, !.s = Nobody, !.phase = "run"]
    <3>1. task' = [task EXCEPT ![h] = l]
      BY <1>1, <2>3 DEF Drop
    <3>2. l.todo = t.todo
      BY <1>2 DEF TaskType
    <3> QED
      BY <3>1, <3>2
  <2> QED
    BY <2>1, <2>2, <2>3
<1>5. PICK l : /\ task' = [task EXCEPT ![h] = l]
               /\ l.todo = t.todo \/ l.todo = Done(t).todo \/ l.todo = <<>>
  BY <1>4
<1>6. /\ \A i \in 1..Len(l.todo) : l.todo[i].do \in Asking
      /\ ~Is(l, "write")
  BY <1>2, <1>3, <1>5, RequestRest DEF Is
<1>7. /\ reply' = reply
      /\ UNCHANGED <<current, workers, heard, link, via, torn, raced, issued, record>>
  BY DEF Members, Read, Drop, redis, host, wires, history
<1> QED
  BY <1>5, <1>6, <1>7, RequestSettles

\* The steps of the requests.
LEMMA ShortAsks ==
  ASSUME NEW x, NEW y, NEW z, {x.do, y.do, z.do} \subseteq Asking
  PROVE  /\ \A i \in 1..Len(<<x, y>>) : <<x, y>>[i].do \in Asking
         /\ \A i \in 1..Len(<<x, y, z>>) : <<x, y, z>>[i].do \in Asking
         /\ <<x, y>> # <<>> /\ Head(<<x, y>>) = x
         /\ <<x, y, z>> # <<>> /\ Head(<<x, y, z>>) = x
OBVIOUS

\* A request comes in.
LEMMA AskSettles ==
  ASSUME ServerInv, LetGoInv, SettleInv, NEW h \in Request, Ask(h)
  PROVE  SettleInv'
<1>1. /\ reply' = reply /\ issued \subseteq issued'
      /\ UNCHANGED <<current, workers, heard, link, via, torn, raced, record>>
  BY DEF Ask, redis, host, wires
<1>2. ASSUME NEW s, NEW q, task' = [task EXCEPT ![h] = Task(s, q)],
             \A i \in 1..Len(q) : q[i].do \in Asking,
             q # <<>>, Head(q).do = "write" => via[s] = {}
      PROVE  SettleInv'
  <2>1. PICK l : l = Task(s, q)
    OBVIOUS
  <2>2. l.todo = q /\ l.s = s /\ task' = [task EXCEPT ![h] = l]
    BY <1>2, <2>1 DEF Task, NoTask
  <2>3. Is(l, "write") => via[l.s] = {}
    BY <1>2, <2>2 DEF Is
  <2> QED
    BY <1>1, <1>2, <2>2, <2>3, RequestSettles
<1>3. CASE \E s \in Session \ issued : task' = [task EXCEPT ![h] = Task(s, Create)]
  <2>1. PICK s \in Session \ issued : task' = [task EXCEPT ![h] = Task(s, Create)]
    BY <1>3
  <2>2. via[s] = {}
    BY DEF LetGoInv, Ways
  <2>3. /\ \A i \in 1..Len(Create) : Create[i].do \in Asking
        /\ Create # <<>>
    <3>1. {Do("write").do, Do("enter").do} \subseteq Asking
      BY StepFields DEF Asking
    <3> QED
      BY <3>1, ShortAsks DEF Create
  <2> QED
    BY <1>2, <2>1, <2>2, <2>3
<1>4. CASE \E s \in Known : task' = [task EXCEPT ![h] = Task(s, Delete)]
  <2>1. /\ \A i \in 1..Len(Delete) : Delete[i].do \in Asking
        /\ Delete # <<>> /\ Head(Delete).do # "write"
    <3>1. {Do("fetch").do, Do("delete").do, Do("leave").do} \subseteq Asking
      BY StepFields DEF Asking
    <3>2. Do("fetch").do # "write"
      BY StepFields
    <3> QED
      BY <3>1, <3>2, ShortAsks DEF Delete
  <2> QED
    BY <1>2, <1>4, <2>1
<1>5. CASE task' = [task EXCEPT ![h] = Task(Nobody, <<Do("members"), Do("read")>>)]
  <2> DEFINE q == <<Do("members"), Do("read")>>
  <2>1. /\ \A i \in 1..Len(q) : q[i].do \in Asking
        /\ q # <<>> /\ Head(q).do # "write"
    <3>1. {Do("members").do, Do("read").do} \subseteq Asking
      BY StepFields DEF Asking
    <3>2. Do("members").do # "write"
      BY StepFields
    <3> QED
      BY <3>1, <3>2, ShortAsks
  <2> HIDE DEF q
  <2>2. task' = [task EXCEPT ![h] = Task(Nobody, q)]
    BY <1>5 DEF q
  <2> QED
    BY <1>2, <2>1, <2>2
<1> QED
  BY <1>3, <1>4, <1>5 DEF Ask

-----------------------------------------------------------------------------
(* The sockets and their messages.                                         *)

\* A socket is opened or closed.
LEMMA LinkSettles ==
  ASSUME SettleInv, UNCHANGED <<redis, host, task, reply, heard, history>>,
         \A d \in Socket : /\ link'[d] = "new" => link[d] = "new"
                           /\ link'[d] = "open" => link[d] = "open" \/ link[d] = "new"
  PROVE  SettleInv'
<1>1. UNCHANGED <<record, current, workers, heard, via, issued, torn, raced, task, reply>>
  BY DEF redis, host, history
<1>2. Owned' /\ Paths' /\ Asked'
  BY <1>1 DEF SettleInv, Owned, Paths, Asked
<1>3. Unused'
  BY <1>1 DEF SettleInv, Unused
<1>4. Settling'
  <2> SUFFICES ASSUME NEW s \in Session, NEW c \in Socket, Alone(s, c)' PROVE Fitting(s, c)'
    BY DEF Settling
  <2>1. Alone(s, c) /\ c \in via[s]
    BY <1>1 DEF Alone
  <2>2. Fitting(s, c) /\ (link'[c] = "open" => link[c] = "open")
    BY <2>1 DEF SettleInv, Settling, Unused
  <2> QED
    BY <1>1, <2>2 DEF Fitting, Matches, Creates
<1> QED
  BY <1>2, <1>3, <1>4 DEF SettleInv

\* The steps of a socket.
LEMMA SocketSettles ==
  ASSUME Links, SettleInv, NEW c \in Socket,
         Accept(c) \/ ProtocolError(c) \/ Disconnect(c) \/ Notice(c)
  PROVE  SettleInv'
<1>1. UNCHANGED <<redis, host, task, reply, heard, history>>
  BY DEF Accept, ProtocolError, Disconnect, Notice
<1>2. \A d \in Socket : /\ link'[d] = "new" => link[d] = "new"
                        /\ link'[d] = "open" => link[d] = "open" \/ link[d] = "new"
  BY DEF Links, Accept, ProtocolError, Disconnect, Notice
<1> QED
  BY <1>1, <1>2, LinkSettles

\* The lists of what a socket receives.
LEMMA ReceivedPaths ==
  /\ \A m \in Messages : /\ Path(Message(m)) /\ Message(m) # <<>>
                         /\ Head(Message(m)).do = "message" /\ Head(Message(m)).arg = m
  /\ Path(Create \o Message("start")) /\ Create \o Message("start") # <<>>
<1> DEFINE a == Do("write")
           b == Do("enter")
<1>1. a \in Steps /\ b \in Steps /\ Follows(a, b)
  <2>1. Follows(a, b)
    BY StepFields DEF Follows
  <2> QED
    BY <2>1, StepKinds DEF Kinds, Further
<1>2. ASSUME NEW m \in Messages
      PROVE  /\ Path(Message(m)) /\ Message(m) # <<>>
             /\ Head(Message(m)).do = "message" /\ Head(Message(m)).arg = m
             /\ m = "start" => Path(<<a, b>> \o Message(m)) /\ <<a, b>> \o Message(m) # <<>>
  <2> DEFINE x == Step("message", m)
  <2>1. x.do = "message" /\ x.arg = m /\ x \in Steps
    <3>1. x.do = "message" /\ x.arg = m
      BY DEF Step
    <3>2. x \in Further
      BY StepKinds
    <3>3. Further \subseteq Steps
      BY DEF Further
    <3> QED
      BY <3>1, <3>2, <3>3
  <2>2. Message(m) = <<x>>
    BY DEF Message
  <2> HIDE DEF x, a, b
  <2>3. Final(x) /\ (m = "start" => Follows(b, x))
    <3>1. Final(x)
      BY <2>1 DEF Final
    <3>2. b.do = "enter"
      BY StepFields DEF b
    <3> QED
      BY <2>1, <3>1, <3>2 DEF Follows
  <2>4. Len(<<x>>) = 1 /\ <<x>>[1] = x /\ <<x>> # <<>> /\ Head(<<x>>) = x
    OBVIOUS
  <2>5. Path(<<x>>)
    BY <2>3, <2>4 DEF Path
  <2>6. m = "start" => Path(<<a, b>> \o <<x>>) /\ <<a, b>> \o <<x>> # <<>>
    <3>1. PICK q : q = <<a, b>> \o <<x>>
      OBVIOUS
    <3>2. /\ <<a, b>> \in Seq(Steps) /\ <<x>> \in Seq(Steps)
          /\ Len(<<a, b>>) = 2 /\ <<a, b>>[1] = a /\ <<a, b>>[2] = b
      BY <1>1, <2>1, ShortLists
    <3>3. /\ q \in Seq(Steps) /\ Len(q) = 3
          /\ \A i \in 1..3 : q[i] = IF i <= 2 THEN <<a, b>>[i] ELSE <<x>>[i - 2]
      BY <2>4, <3>1, <3>2, ConcatProperties
    <3>4. q[1] = a /\ q[2] = b /\ q[3] = x
      BY <2>4, <3>2, <3>3
    <3>5. \A i \in 1..Len(q) - 1 : i = 1 \/ i = 2
      BY <3>3
    <3>6. m = "start" => Path(q)
      BY <1>1, <2>3, <3>3, <3>4, <3>5 DEF Path
    <3>7. q # <<>>
      BY <3>3
    <3> QED
      BY <3>1, <3>6, <3>7
  <2> QED
    BY <2>1, <2>2, <2>4, <2>5, <2>6
<1>3. Path(<<a, b>> \o Message("start")) /\ <<a, b>> \o Message("start") # <<>>
  <2>1. "start" \in Messages
    BY DEF Messages
  <2> QED
    BY <1>2, <2>1
<1> QED
  BY <1>2, <1>3 DEF Create

\* A handler that waits takes a message, whatever its reply does.
LEMMA HandlerTakes ==
  ASSUME NEW r \in TaskType, NEW w \in State, NEW k \in State, Fit(NoTask, r, w, k),
         NEW m \in Messages, NEW l, l.todo = Message(m), l.phase = "run", l.out = <<>>
  PROVE  /\ Fit(l, r, w, k)
         /\ \A h : Knowing(NoTask, r, w, h) => Knowing(l, r, w, h)
<1>1. /\ l.todo # <<>> /\ Head(l.todo).do = "message" /\ Path(l.todo)
  BY ReceivedPaths
<1>2. /\ Is(l, "message") /\ ~Is(l, "to") /\ ~Idle(l) /\ Yields(l)
      /\ ~Is(l, "write") /\ ~Is(l, "enter") /\ ~Is(l, "spawn")
      /\ \A x : ~Nears(l, x) /\ ~Faces(l, "flush", x)
  BY <1>1 DEF Is, Idle, Yields, Nears, Faces
<1>3. /\ Idle(NoTask) /\ NoTask.out = <<>> /\ \A x : ~Is(NoTask, x)
      /\ \A x : ~Nears(NoTask, x) /\ ~Faces(NoTask, "flush", x) /\ ~Faces(NoTask, "message", x)
  BY DEF NoTask, Idle, Is, Nears, Faces
<1>4. Shapes(l, r)
  BY <1>1, <1>2, <1>3 DEF Fit, Shapes
<1>5. Unstarted(l, r, w, k)
  BY <1>2, <1>3 DEF Fit, Unstarted
<1>6. Standing(l, r, w)
  BY <1>2, <1>3 DEF Fit, Standing, Expected
<1>7. Same(l, r, w, k)
  BY <1>2, <1>3 DEF Fit, Same, Copies, Sets
<1>8. ASSUME NEW h, Knowing(NoTask, r, w, h) PROVE Knowing(l, r, w, h)
  BY <1>2, <1>3, <1>8 DEF Knowing, Telling
<1> QED
  BY <1>4, <1>5, <1>6, <1>7, <1>8 DEF Fit

\* Or starts a session that was made and never used.
LEMMA HandlerFinds ==
  ASSUME NEW l, l.todo = Message("start"), l.phase = "run", l.out = <<>>
  PROVE  Fit(l, NoTask, None, Fresh)
<1>1. /\ l.todo # <<>> /\ Head(l.todo).do = "message" /\ Head(l.todo).arg = "start"
      /\ Path(l.todo)
  BY ReceivedPaths DEF Messages
<1>2. /\ Is(l, "message") /\ ~Is(l, "to") /\ Faces(l, "message", "start")
  BY <1>1 DEF Is, Faces
<1>3. /\ Idle(NoTask) /\ NoTask.todo = <<>> /\ ~Is(NoTask, "to") /\ NoTask.phase = "run"
      /\ Fresh.status = "created" /\ ~Fresh.active
  BY DEF NoTask, Idle, Is, Fresh
<1>4. Shapes(l, NoTask)
  BY <1>1, <1>2, <1>3 DEF Shapes, Answered
<1>5. Unstarted(l, NoTask, None, Fresh)
  BY <1>1, <1>2, <1>3 DEF Unstarted
<1>6. Same(l, NoTask, None, Fresh)
  BY <1>2, <1>3 DEF Same, Copies, Sets, None
<1> QED
  BY <1>4, <1>5, <1>6 DEF Fit, Standing

\* What comes in for s, by the handler of c.
LEMMA TakenSettles ==
  ASSUME ServerInv, LetGoInv, Links, SettleInv, NEW c \in Socket, link[c] = "open",
         Idle(task[c]), NEW s \in Session, NEW l, l.s = s, ~Idle(l), Path(l.todo),
         task' = [task EXCEPT ![c] = l],
         via' = [via EXCEPT ![s] = @ \cup {c}], issued' = issued \cup {s},
         UNCHANGED <<redis, host, reply, wires, quiet, raced, torn>>,
         \A h \in Request : Is(task[h], "write") => task[h].s # s,
         (via[s] \subseteq {c} /\ s \notin torn \cup raced /\ (via[s] = {c} => Fitting(s, c))) =>
           LET r == Of(reply[c], s)
           IN /\ Matches(l, r, s, c)
              /\ Creates(l, r, s, c)
  PROVE  SettleInv'
<1>1. TasksTyped /\ c \notin Request /\ via \in [Session -> SUBSET Socket]
  BY Typed, ServerAssumption DEF LetGoInv, Ways
<1>2. /\ task'[c] = l /\ \A d \in Socket \cup Request : d # c => task'[d] = task[d]
      /\ reply' = reply
  BY <1>1 DEF TasksTyped
<1>3. /\ via'[s] = via[s] \cup {c} /\ \A x \in Session : x # s => via'[x] = via[x]
      /\ UNCHANGED <<record, current, workers, heard, link, torn, raced>>
  BY <1>1 DEF redis, host, wires
<1>4. Owned'
  <2>1. ASSUME NEW x \in Session, NEW d \in Socket, via'[x] = {d}, ~Idle(reply[d]), reply[d].s = x
        PROVE  current[x] = d
    <3>1. d \in via[x]
      BY <2>1 DEF SettleInv, Owned
    <3>2. via[x] = {d}
      BY <1>3, <2>1, <3>1
    <3> QED
      BY <2>1, <3>2 DEF SettleInv, Owned
  <2>2. \A d \in Socket : ~Idle(reply[d]) => reply[d].s \in Session /\ d \in via'[reply[d].s]
    BY <1>3 DEF SettleInv, Owned
  <2> QED
    BY <1>2, <1>3, <2>1, <2>2 DEF SettleInv, Owned
<1>5. Paths'
  BY <1>2 DEF SettleInv, Paths
<1>6. Unused'
  <2>1. ASSUME NEW x \in Session, via'[x] = {} PROVE via[x] = {}
    BY <1>3, <2>1
  <2>2. ASSUME NEW d \in Socket, link[d] = "new", NEW x \in Session PROVE d \notin via'[x]
    <3>1. d # c /\ d \notin via[x]
      BY <2>2 DEF SettleInv, Unused
    <3> QED
      BY <1>3, <3>1
  <2> QED
    BY <1>3, <2>1, <2>2 DEF SettleInv, Unused
<1>7. Asked'
  <2>1. \A h \in Request : task'[h] = task[h]
    BY <1>1, <1>2
  <2>2. ASSUME NEW h \in Request, Is(task[h], "write") PROVE via'[task[h].s] = {}
    <3>1. via[task[h].s] = {} /\ task[h].s # s
      BY <2>2 DEF SettleInv, Asked
    <3>2. task[h].s \in Session
      <4>1. task[h] = At(<<"task", h>>) /\ <<"task", h>> \in Runners
        BY Typed DEF At
      <4> QED
        BY <2>2, <4>1, InSession
    <3> QED
      BY <1>3, <3>1, <3>2
  <2> QED
    BY <2>1, <2>2 DEF SettleInv, Asked
<1>8. Settling'
  <2> SUFFICES ASSUME NEW x \in Session, NEW d \in Socket, Alone(x, d)' PROVE Fitting(x, d)'
    BY DEF Settling
  <2>1. CASE x # s
    <3>1. Alone(x, d)
      BY <1>3, <2>1 DEF Alone
    <3>2. Fitting(x, d)
      BY <3>1 DEF SettleInv, Settling
    <3>3. Of(task'[d], x) = Of(task[d], x)
      BY <1>2, <2>1, OfIs
    <3> QED
      BY <1>2, <1>3, <3>2, <3>3 DEF Fitting, Matches, Creates
  <2>2. CASE x = s
    <3>1. d = c /\ via[s] \subseteq {c} /\ s \notin torn \cup raced
      BY <1>3, <2>2 DEF Alone
    <3>2. via[s] = {c} => Fitting(s, c)
      BY <3>1 DEF SettleInv, Settling, Alone
    <3>3. PICK r : r = Of(reply[c], s)
      OBVIOUS
    <3>4. Matches(l, r, s, c) /\ Creates(l, r, s, c)
      BY <3>1, <3>2, <3>3
    <3>5. Of(task'[c], s) = l /\ Of(reply'[c], s) = r
      BY <1>2, <3>3, OfIs
    <3> QED
      BY <1>3, <2>2, <3>1, <3>4, <3>5 DEF Fitting, Matches, Creates
  <2> QED
    BY <2>1, <2>2
<1> QED
  BY <1>4, <1>5, <1>6, <1>7, <1>8 DEF SettleInv

\* A message comes in.
LEMMA ReceiveSettles ==
  ASSUME ServerInv, LetGoInv, Links, SettleInv, NEW c \in Socket, Receive(c)
  PROVE  SettleInv'
<1>1. /\ link[c] = "open" /\ Idle(task[c])
      /\ UNCHANGED <<redis, host, reply, wires, quiet, raced, torn>>
  BY DEF Receive
\* What an unused session is.
<1>2. ASSUME NEW s \in Session, via[s] = {}
      PROVE  /\ workers[s] = None /\ heard[c][s] = "none" /\ record[s] \in {None, Fresh}
             /\ Of(reply[c], s) = NoTask
  <2>1. ~(~Idle(reply[c]) /\ reply[c].s = s)
    BY <1>2 DEF SettleInv, Owned
  <2> QED
    BY <1>2, <2>1, OfIs DEF SettleInv, Unused
<1>3. ASSUME NEW s \in Session \ issued,
             task' = [task EXCEPT ![c] = Task(s, Create \o Message("start"))],
             issued' = issued \cup {s}, via' = [via EXCEPT ![s] = {c}]
      PROVE  SettleInv'
  <2>1. PICK l : l = Task(s, Create \o Message("start"))
    OBVIOUS
  <2>2. l.s = s /\ l.todo = Create \o Message("start") /\ l.out = <<>>
    BY <2>1 DEF Task, NoTask
  <2>3. ~Idle(l) /\ Path(l.todo)
    BY <2>2, ReceivedPaths DEF Idle
  <2>4. via[s] = {} /\ record[s] = None /\ via' = [via EXCEPT ![s] = @ \cup {c}]
    <3>1. via[s] = {} /\ {c} = via[s] \cup {c}
      BY DEF LetGoInv, Ways
    <3> QED
      BY <1>3, <3>1 DEF SettleInv, Unused
  <2>5. ASSUME NEW h \in Request, Is(task[h], "write") PROVE task[h].s # s
    <3>1. task[h] = At(<<"task", h>>) /\ <<"task", h>> \in Runners /\ ~Idle(task[h])
      BY <2>5, Typed DEF At, Is, Idle
    <3>2. task[h].s \in issued \cup {Nobody}
      BY <3>1 DEF ServerInv, NotIssued
    <3> QED
      BY <3>2, ServerAssumption
  <2>6. /\ Matches(l, Of(reply[c], s), s, c)
        /\ Creates(l, Of(reply[c], s), s, c)
    BY <1>2, <2>2, <2>3, <2>4 DEF Matches, Creates
  <2> QED
    BY <1>1, <1>3, <2>1, <2>2, <2>3, <2>4, <2>5, <2>6, TakenSettles
<1>4. ASSUME NEW s \in Known, NEW m \in Messages, m # "start" => c \in via[s],
             task' = [task EXCEPT ![c] = Task(s, Message(m))],
             via' = [via EXCEPT ![s] = @ \cup {c}], issued' = issued
      PROVE  SettleInv'
  <2>1. PICK l : l = Task(s, Message(m))
    OBVIOUS
  <2>2. l.s = s /\ l.todo = Message(m) /\ l.out = <<>> /\ l.phase = "run"
    BY <2>1 DEF Task, NoTask
  <2>3. ~Idle(l) /\ Path(l.todo) /\ ~Is(l, "write")
    BY <2>2, ReceivedPaths DEF Idle, Is
  <2>4. s \in Session /\ issued' = issued \cup {s}
    BY <1>4 DEF Known, ServerInv, ServerTypes
  <2>5. ASSUME NEW h \in Request, Is(task[h], "write") PROVE task[h].s # s
    <3>1. task[h] = At(<<"task", h>>) /\ <<"task", h>> \in Runners /\ ~Idle(task[h])
      BY <2>5, Typed DEF At, Is, Idle
    <3> QED
      BY <2>5, <3>1 DEF Known, Uses
  <2>6. ASSUME via[s] \subseteq {c}, s \notin torn \cup raced, via[s] = {c} => Fitting(s, c)
        PROVE  /\ Matches(l, Of(reply[c], s), s, c)
               /\ Creates(l, Of(reply[c], s), s, c)
    <3>1. Creates(l, Of(reply[c], s), s, c)
      BY <2>3 DEF Creates
    <3>2. CASE via[s] = {}
      <4>1. m = "start"
        BY <1>4, <3>2
      <4>2. Fit(l, NoTask, None, Fresh)
        BY <2>2, <4>1, HandlerFinds
      <4> QED
        BY <1>2, <2>4, <3>1, <3>2, <4>2 DEF Matches, Knowing
    <3>3. CASE via[s] = {c}
      <4>1. Of(task[c], s) = NoTask
        BY <1>1, OfIs
      <4>2. PICK r : r = Of(reply[c], s)
        OBVIOUS
      <4>3. Matches(NoTask, r, s, c)
        BY <2>6, <3>3, <4>1, <4>2 DEF Fitting
      <4>4. r \in TaskType /\ workers[s] \in State /\ record[s] \in State
        BY <2>4, <4>2, Typed, OfType DEF ServerInv, ServerTypes
      <4>5. Matches(l, r, s, c)
        <5> SUFFICES ASSUME record[s] # None
                     PROVE  /\ Fit(l, r, workers[s], record[s])
                            /\ \A h : Knowing(NoTask, r, workers[s], h) => Knowing(l, r, workers[s], h)
          BY <4>3 DEF Matches
        <5>1. Fit(NoTask, r, workers[s], record[s])
          BY <4>3 DEF Matches
        <5> QED
          BY <2>2, <4>4, <5>1, HandlerTakes
      <4> QED
        BY <3>1, <4>2, <4>5
    <3> QED
      BY <2>6, <3>2, <3>3
  <2> QED
    BY <1>1, <1>4, <2>1, <2>2, <2>3, <2>4, <2>5, <2>6, TakenSettles
<1>5. CASE \E s \in Session \ issued :
             /\ task' = [task EXCEPT ![c] = Task(s, Create \o Message("start"))]
             /\ issued' = issued \cup {s} /\ via' = [via EXCEPT ![s] = {c}]
  BY <1>3, <1>5
<1>6. CASE \E s \in Known, m \in {"start", "reply", "interrupt", "close"} :
             /\ m # "start" => c \in via[s]
             /\ task' = [task EXCEPT ![c] = Task(s, Message(m))]
             /\ via' = [via EXCEPT ![s] = @ \cup {c}] /\ UNCHANGED issued
  <2>1. PICK s \in Known, m \in {"start", "reply", "interrupt", "close"} :
             /\ m # "start" => c \in via[s]
             /\ task' = [task EXCEPT ![c] = Task(s, Message(m))]
             /\ via' = [via EXCEPT ![s] = @ \cup {c}] /\ UNCHANGED issued
    BY <1>6
  <2>2. m \in Messages
    BY DEF Messages
  <2> QED
    BY <1>4, <2>1, <2>2
<1> QED
  BY <1>5, <1>6 DEF Receive

-----------------------------------------------------------------------------
(* The failures.                                                           *)

\* A command fails.
LEMMA FailureSettles ==
  ASSUME ServerInv, LetGoInv, Links, SettleInv, NEW q \in Runners, RedisFails(q)
  PROVE  SettleInv'
<1>1. PICK a : a = At(q).s
  OBVIOUS
<1>2. PICK d \in {"write", "enter", "fetch", "delete", "leave", "to", "message"} : Is(At(q), d)
  BY DEF RedisFails
<1>3. a \in Session /\ a # Nobody
  BY <1>1, <1>2, InSession
<1>4. /\ UNCHANGED <<current, workers, record, heard, via, issued, raced>>
      /\ torn \subseteq torn' /\ a \in torn'
  BY <1>1, <1>3 DEF RedisFails, Cut, redis, host
<1>5. \A e \in Socket : /\ link'[e] = "open" => link[e] = "open"
                        /\ link'[e] = "new" => link[e] = "new"
  BY DEF Links, RedisFails
<1>6. Apart(a)
  BY <1>4, <1>5 DEF Apart, SettleInv, Unused, Heard
<1>7. ASSUME NEW c \in Socket, q = <<"task", c>> PROVE SettleInv'
  <2>1. Becomes(<<"task", c>>, NoTask)
    BY <1>7 DEF RedisFails
  <2>2. ~Idle(task[c]) /\ a = task[c].s
    BY <1>1, <1>2, <1>7 DEF At, Is, Idle
  <2>3. NoTask \in TaskType /\ Idle(NoTask) /\ ~Is(NoTask, "write") /\ Path(NoTask.todo)
    BY NoTaskType DEF NoTask, Path, Writes
  <2>4. PICK r : r = Of(reply[c], a)
    OBVIOUS
  <2> QED
    BY <1>4, <1>6, <2>1, <2>2, <2>3, <2>4, TaskRuns
<1>8. ASSUME NEW c \in Socket, q = <<"reply", c>> PROVE SettleInv'
  <2>1. PICK l : l = Task(a, <<Do("finally")>>)
    OBVIOUS
  <2>2. Becomes(<<"reply", c>>, l)
    BY <1>1, <1>8, <2>1 DEF RedisFails
  <2>3. ~Idle(reply[c]) /\ a = reply[c].s
    BY <1>1, <1>2, <1>8 DEF At, Is, Idle
  <2>4. ~Idle(l) /\ l.s = a /\ l.todo \in Unanswered \cup Answered
    BY <2>1, FinallyIs
  <2>5. l \in TaskType
    BY <1>3, <2>1, NewTask, FurtherLists, FurtherIsTodo DEF Name
  <2>6. PICK t : t = Of(task[c], a)
    OBVIOUS
  <2> QED
    BY <1>4, <1>6, <2>2, <2>3, <2>4, <2>5, <2>6, ReplyRuns
<1>9. ASSUME NEW h \in Request, q = <<"task", h>> PROVE SettleInv'
  <2>1. task' = [task EXCEPT ![h] = NoTask] /\ reply' = reply
    BY <1>9 DEF RedisFails, Becomes
  <2>2. link' = link
    <3>1. q[2] \notin Socket
      BY <1>9, ServerAssumption
    <3> QED
      BY <3>1 DEF RedisFails
  <2>3. /\ \A i \in 1..Len(NoTask.todo) : NoTask.todo[i].do \in Asking
        /\ ~Is(NoTask, "write")
    <3>1. Len(NoTask.todo) = 0 /\ ~Is(NoTask, "write")
      BY NoTaskType DEF NoTask, Writes
    <3> QED
      BY <3>1
  <2>4. \A s \in Session : record'[s] = record[s]
    BY <1>4
  <2> QED
    BY <1>4, <2>1, <2>2, <2>3, <2>4, RequestSettles
<1> QED
  BY <1>7, <1>8, <1>9 DEF Runners

\* A restart where nothing was under way: the key says that the session listens.
LEMMA QuietListens ==
  ASSUME NEW w, NEW k, Fit(NoTask, NoTask, w, k)
  PROVE  /\ k.status = "listening" /\ ~k.active
         /\ w # None => w.status = "listening" /\ ~w.active
         /\ Fit(NoTask, NoTask, None, k)
<1>1. /\ Idle(NoTask) /\ NoTask.todo = <<>> /\ \A x : ~Is(NoTask, x)
      /\ \A x : ~Nears(NoTask, x)
      /\ \A x, y : ~Faces(NoTask, x, y)
      /\ ~Copies(NoTask) /\ ~Sets(NoTask) /\ NoTask.out = <<>>
  BY DEF NoTask, Idle, Is, Nears, Faces, Copies, Sets
<1>2. NoTask.todo \notin Unanswered
  BY UnansweredRuns, NoTaskType
<1>3. w # None => w.status = "listening"
  BY <1>1, <1>2 DEF Fit, Standing, Expected
<1>4. k.status = "listening" /\ ~k.active /\ (w # None => ~w.active)
  BY <1>1, <1>3 DEF Fit, Same, Unstarted
<1>5. Fit(NoTask, NoTask, None, k)
  <2>1. Shapes(NoTask, NoTask)
    BY DEF Fit
  <2>2. Unstarted(NoTask, NoTask, None, k)
    BY <1>1, <1>4 DEF Unstarted
  <2>3. Same(NoTask, NoTask, None, k)
    BY <1>1, <1>4 DEF Same, None
  <2> QED
    BY <2>1, <2>2, <2>3 DEF Fit, Standing
<1> QED
  BY <1>3, <1>4, <1>5

\* The process restarts: what is left is in the keys.
LEMMA CrashSettles ==
  ASSUME ServerInv, LetGoInv, SettleInv, Crash
  PROVE  SettleInv'
<1>1. /\ \A s \in Session : workers'[s] = None /\ current'[s] = Nobody
      /\ \A t \in Socket \cup Request : task'[t] = NoTask
      /\ \A c \in Socket : reply'[c] = NoTask
      /\ \A c \in Socket : link'[c] # "open" /\ (link'[c] = "new" => link[c] = "new")
      /\ UNCHANGED <<record, heard, issued, via, raced>>
  BY DEF Crash, redis
<1>2. \A q \in Runners : ~Idle(At(q)) => At(q).s = Nobody \/ At(q).s \in torn'
  BY DEF Crash, Cut
<1>3. torn \subseteq torn'
  BY DEF Crash
<1>4. /\ Idle(NoTask) /\ NoTask.todo = <<>> /\ ~Is(NoTask, "write")
      /\ \A s : Of(NoTask, s) = NoTask
  BY OfIs, NoTaskType DEF NoTask, Writes
<1>5. Owned'
  BY <1>1, <1>4 DEF Owned, Answered
<1>6. Paths'
  BY <1>1, <1>4 DEF Paths, Path
<1>7. Unused'
  BY <1>1 DEF SettleInv, Unused
<1>8. Asked'
  <2>1. \A i \in 1..Len(NoTask.todo) : NoTask.todo[i].do \in Asking
    <3>1. Len(NoTask.todo) = 0
      BY DEF NoTask
    <3> QED
      BY <3>1
  <2> QED
    BY <1>1, <1>4, <2>1 DEF Asked
<1>9. Settling'
  <2> SUFFICES ASSUME NEW s \in Session, NEW c \in Socket, Alone(s, c)' PROVE Fitting(s, c)'
    BY DEF Settling
  <2>1. Alone(s, c) /\ s \notin torn'
    BY <1>1, <1>3 DEF Alone
  <2>2. Of(task[c], s) = NoTask /\ Of(reply[c], s) = NoTask
    <3>1. /\ At(<<"task", c>>) = task[c] /\ At(<<"reply", c>>) = reply[c]
          /\ <<"task", c>> \in Runners /\ <<"reply", c>> \in Runners
      BY PlacesRun DEF SettleInv
    <3>2. /\ ~(~Idle(task[c]) /\ task[c].s = s) /\ ~(~Idle(reply[c]) /\ reply[c].s = s)
      BY <1>2, <2>1, <3>1, ServerAssumption
    <3> QED
      BY <3>2, OfIs
  <2>3. record[s] # None => Fit(NoTask, NoTask, workers[s], record[s])
    BY <2>1, <2>2 DEF SettleInv, Settling, Fitting, Matches
  <2>4. record[s] # None => Fit(NoTask, NoTask, None, record[s])
    BY <2>3, QuietListens
  <2> QED
    BY <1>1, <1>4, <2>4 DEF Fitting, Matches, Creates
<1> QED
  BY <1>5, <1>6, <1>7, <1>8, <1>9 DEF SettleInv

-----------------------------------------------------------------------------
(* The theorem.                                                            *)

\* Every step keeps the invariant.
LEMMA SettleKeeps ==
  ASSUME ServerInv, RegistryInv, LetGoInv, Links, SettleInv, [Next]_vars
  PROVE  SettleInv'
<1>1. CASE UNCHANGED vars
  <2>1. /\ UNCHANGED <<redis, host, task, reply, heard, history>>
        /\ link' = link
    BY <1>1 DEF vars, wires
  <2> QED
    BY <2>1, LinkSettles
<1>2. ASSUME NEW c \in Socket,
             Accept(c) \/ Receive(c) \/ ProtocolError(c) \/ Disconnect(c)
               \/ Notice(c) \/ Send(c) \/ Spawn(c) \/ Stop(c)
               \/ Emit(<<"task", c>>, c) \/ Emit(<<"reply", c>>, c)
      PROVE  SettleInv'
  <2>1. <<"task", c>> \in PlacesOf(c) /\ <<"reply", c>> \in PlacesOf(c)
    BY DEF PlacesOf
  <2> QED
    BY <1>2, <2>1, SocketSettles, ReceiveSettles, SendSettles, SpawnSettles, StopSettles,
       EmitSettles
<1>3. ASSUME NEW h \in Request, Ask(h) \/ Members(h) \/ Read(h) \/ Drop(h)
      PROVE  SettleInv'
  BY <1>3, AskSettles, ListingSettles
<1>4. ASSUME NEW q \in Runners,
             Lookup(q) \/ Local(q) \/ UpdateGet(q) \/ UpdateSet(q) \/ Updated(q)
               \/ Command(q) \/ RedisFails(q)
      PROVE  SettleInv'
  BY <1>4, LookupSettles, LocalSettles, UpdateGetSettles, UpdateSetSettles, UpdatedSettles,
     CommandSettles, FailureSettles
<1>5. CASE Crash
  BY <1>5, CrashSettles
<1> QED
  BY <1>1, <1>2, <1>3, <1>4, <1>5 DEF Next

\* At first no session exists.
LEMMA InitSettles == Init => SettleInv
<1> SUFFICES ASSUME Init PROVE SettleInv
  OBVIOUS
<1>1. /\ Idle(NoTask) /\ NoTask.todo = <<>> /\ ~Is(NoTask, "write") /\ Len(NoTask.todo) = 0
  BY NoTaskType DEF NoTask, Writes
<1>2. /\ \A c \in Socket : task[c] = NoTask /\ reply[c] = NoTask
      /\ \A h \in Request : task[h] = NoTask
      /\ \A s \in Session : /\ record[s] = None /\ workers[s] = None /\ current[s] = Nobody
                            /\ via[s] = {}
      /\ heard = [c \in Socket |-> [s \in Session |-> "none"]]
  BY DEF Init
<1>3. Owned
  BY <1>1, <1>2 DEF Owned, Answered
<1>4. Paths
  BY <1>1, <1>2 DEF Paths, Path
<1>5. Unused
  BY <1>2 DEF Unused
<1>6. Asked
  BY <1>1, <1>2 DEF Asked
<1>7. Settling
  BY <1>2 DEF Settling, Alone
<1> QED
  BY <1>3, <1>4, <1>5, <1>6, <1>7 DEF SettleInv

\* Finitely many sockets use a session: each receives one message at a time.
Counted == \A s \in Session : IsFiniteSet(via[s])

\* A session is used through finitely many sockets.
LEMMA CountedKeeps ==
  ASSUME ServerInv, LetGoInv, Counted, [Next]_vars
  PROVE  Counted'
<1>1. ASSUME NEW c \in Socket, Receive(c) PROVE Counted'
  <2> SUFFICES ASSUME NEW s \in Session PROVE IsFiniteSet(via'[s])
    BY DEF Counted
  <2>1. IsFiniteSet(via[s]) /\ IsFiniteSet(via[s] \cup {c}) /\ IsFiniteSet({c})
    BY FS_AddElement, FS_Singleton DEF Counted
  <2>2. via'[s] \in {via[s], via[s] \cup {c}, {c}}
    BY <1>1 DEF Receive, LetGoInv, Ways
  <2> QED
    BY <2>1, <2>2
<1>2. CASE via' = via
  BY <1>2 DEF Counted
<1> QED
  BY <1>1, <1>2 DEF Next, vars, history, Accept, ProtocolError, Disconnect, Notice,
     Send, Spawn, Stop, Emit, Ask, Members, Read, Drop, Lookup, Local, UpdateGet, UpdateSet,
     Updated, Command, RedisFails, Crash

LEMMA SettlingShows == ServerInv /\ LetGoInv /\ SettleInv /\ Counted => SettledAgree
<1> SUFFICES ASSUME ServerInv, LetGoInv, SettleInv, Counted PROVE SettledAgree
  OBVIOUS
<1>1. ASSUME NEW s \in Session, Settled(s)
      PROVE  \E c \in Socket :
               /\ via[s] = {c} /\ workers[s].status = record[s].status /\ ~workers[s].active
               /\ link[c] = "open" => heard[c][s] \in {"none", workers[s].status}
  <2>1. PICK c : via[s] = {c}
    BY <1>1, FS_Singleton DEF Settled, Counted
  <2>2. c \in Socket /\ Alone(s, c)
    BY <1>1, <2>1 DEF LetGoInv, Ways, Settled, Alone
  <2>3. Of(task[c], s) = NoTask /\ Of(reply[c], s) = NoTask
    <3>1. /\ At(<<"task", c>>) = task[c] /\ At(<<"reply", c>>) = reply[c]
          /\ <<"task", c>> \in Runners /\ <<"reply", c>> \in Runners
      BY <2>2, PlacesRun DEF SettleInv
    <3>2. /\ ~(~Idle(task[c]) /\ task[c].s = s) /\ ~(~Idle(reply[c]) /\ reply[c].s = s)
      BY <1>1, <3>1 DEF Settled, Uses
    <3> QED
      BY <3>2, OfIs
  <2>4. PICK w, k : w = workers[s] /\ k = record[s]
    OBVIOUS
  <2>5. w # None /\ k # None
    BY <1>1, <2>4 DEF Settled
  <2>6. /\ Fit(NoTask, NoTask, w, k)
        /\ link[c] = "open" => Knowing(NoTask, NoTask, w, heard[c][s])
    BY <2>2, <2>3, <2>4, <2>5 DEF SettleInv, Settling, Fitting, Matches
  <2>7. k.status = "listening" /\ w.status = "listening" /\ ~w.active
    BY <2>5, <2>6, QuietListens
  <2>8. link[c] = "open" => heard[c][s] \in {"none", w.status}
    <3>1. ~Nears(NoTask, "interrupted") /\ ~Tells(NoTask.out)
      BY DEF NoTask, Nears, Faces, Is, Tells
    <3> QED
      BY <2>5, <2>6, <3>1 DEF Knowing, Telling
  <2> QED
    BY <2>1, <2>2, <2>4, <2>7, <2>8
<1>2. StatusesAgree
  BY <1>1 DEF StatusesAgree
<1>3. ClientsKnowTheStatus
  BY <1>1 DEF ClientsKnowTheStatus
<1>4. NoTurnStaysOpen
  BY <1>1 DEF NoTurnStaysOpen
<1> QED
  BY <1>2, <1>3, <1>4 DEF SettledAgree

\* For any number of sessions, sockets and requests, whatever fails and
\* whenever the runtime restarts: when nothing runs for a session that lives and
\* was used through one socket, its worker (WorkerHost._workers), its key
\* (RedisSessionManager.update) and, if the socket stands, its client agree on
\* its status, and no turn of it is left open (SettledAgree): the interruption
\* of a reply between the GET and the SET of its update, or between its events,
\* loses none of the updates.
THEOREM SettledSessionsAgree == Spec => []SettledAgree
<1>1. Init => ServerInv /\ RegistryInv /\ LetGoInv /\ Links /\ SettleInv /\ Counted
  <2>1. Init => Counted
    BY FS_EmptySet DEF Init, Counted
  <2> QED
    BY <2>1, InitServer, InitRegistry, InitLetsGo, InitSettles
<1>2. ServerInv /\ RegistryInv /\ LetGoInv /\ Links /\ SettleInv /\ Counted /\ [Next]_vars
        => (ServerInv /\ RegistryInv /\ LetGoInv /\ Links /\ SettleInv /\ Counted)'
  BY NextKeeps, RegistryKeeps, LetGoKeeps, LinksKeep, SettleKeeps, CountedKeeps
<1>3. ServerInv /\ LetGoInv /\ SettleInv /\ Counted => SettledAgree
  BY SettlingShows
<1> QED
  BY <1>1, <1>2, <1>3, PTL DEF Spec
=============================================================================
