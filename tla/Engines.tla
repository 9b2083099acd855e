------------------------------- MODULE Engines -------------------------------
(***************************************************************************)
(* The engines a turn goes through - the Moonshine transcriber, the Arch   *)
(* router behind its 1.5 s limit, the OpenCode server it may have to start *)
(* and the Kokoro voice.  Each model is loaded by the first turn that      *)
(* needs it, in a thread of asyncio's default executor, which all of them  *)
(* share; a thread cannot be interrupted, so a load whose turn was         *)
(* cancelled or timed out goes on and its result is thrown away.           *)
(***************************************************************************)
EXTENDS Naturals, Sequences, FiniteSets, SequencesExt

CONSTANTS
  Session,          \* sessions, each with one turn at a time
  Installations,    \* the sets of engines whose packages and assets may be there
  Slow,             \* the engines whose load need never end
  Workers,          \* transcriptions at a time (TranscriptionPool)
  Threads,          \* threads of the default executor
  MaxTurns,         \* bound: turns in all
  MayFail           \* may a thread raise, may the server die

Engine == {"stt", "router", "tts"}

ASSUME EnginesAssumption ==
  /\ {Workers, Threads, MaxTurns} \subseteq Nat /\ MayFail \in BOOLEAN
  /\ Installations \subseteq SUBSET Engine /\ Slow \subseteq Engine
  /\ IsFiniteSet(Session)

VARIABLES
  model, copies,    \* an engine: "missing", "unloaded" or "there"; its models in all
  lock,             \* who has (first) and who awaits the lock of an engine
  at, step, turn,   \* a session: the stage of its turn and the step in it
  answer,           \* a session: the turn of the job that answered last
  decision,         \* a session: who decided its route, asked in which turn
  queue, running,   \* the executor: jobs to start, jobs in its threads
  lost,             \* threads with a job for nobody, by its engine and kind
  server, tracked   \* the OpenCode server; is _process the one that serves

engines  == <<model, copies, lock>>
executor == <<queue, running, lost>>
opencode == <<server, tracked>>
turns    == <<at, step, turn, answer, decision>>
vars     == <<engines, turns, executor, opencode>>

\* The engines that load under an asyncio.Lock; Moonshine has none.
Locked == {"router", "tts"}

NoDecision == [by |-> "none", of |-> 0]
Job(s, do) == [engine |-> at[s], do |-> do, by |-> s, turn |-> turn[s]]
Kind == Engine \X {"load", "run"}
Busy == Cardinality(running) + FoldFunction(+, 0, lost)

\* An idle thread takes a job at once.
Submit(s, do) ==
  /\ UNCHANGED lost
  /\ IF Busy < Threads THEN running' = running \cup {Job(s, do)} /\ UNCHANGED queue
     ELSE queue' = Append(queue, Job(s, do)) /\ UNCHANGED running

\* A line without its only place among "places", if there is one.
Without(line, places) ==
  IF places = {} THEN line ELSE RemoveAt(line, CHOOSE i \in places : TRUE)
LeftLine(q, s) == Without(q, {i \in DOMAIN q : q[i] = s})

-----------------------------------------------------------------------------
Init ==
  /\ \E installed \in Installations :
       model = [e \in Engine |-> IF e \in installed THEN "unloaded" ELSE "missing"]
  /\ copies = [e \in Engine |-> 0]
  /\ lock = [e \in Engine |-> <<>>]
  /\ at = [s \in Session |-> "idle"] /\ step = [s \in Session |-> "ask"]
  /\ turn = [s \in Session |-> 0] /\ answer = turn
  /\ decision = [s \in Session |-> NoDecision]
  /\ queue = <<>> /\ running = {} /\ lost = [k \in Kind |-> 0]
  /\ server = "down" /\ tracked = FALSE

\* The turn of s goes to a stage.
Goes(s, stage) ==
  at' = [at EXCEPT ![s] = stage] /\ step' = [step EXCEPT ![s] = "ask"]
Does(s, what) == step' = [step EXCEPT ![s] = what] /\ UNCHANGED <<at, turn, answer, decision>>

\* route_text: the router's decision, or the configured fallback target.
Decide(s, by, of) ==
  decision' = [decision EXCEPT ![s] = [by |-> by, of |-> of]]
Fallback(s) == Goes(s, "llm") /\ Decide(s, "fallback", turn[s])

Speak(s) ==
  /\ at[s] = "idle" /\ FoldFunction(+, 0, turn) < MaxTurns /\ Goes(s, "queued")
  /\ turn' = [turn EXCEPT ![s] = @ + 1]
  /\ UNCHANGED <<engines, answer, decision, executor, opencode>>
Acquire(s) ==
  /\ at[s] = "queued" /\ Cardinality({r \in Session : at[r] = "stt"}) < Workers
  /\ Goes(s, "stt") /\ UNCHANGED <<engines, turn, answer, decision, executor, opencode>>

\* is_available, or a registry that knows no such engine: an error of the
\* transcription, the fallback route, an answer that is only text.
Skip(s) ==
  /\ at[s] \in Engine /\ model[at[s]] = "missing"
  /\ UNCHANGED <<engines, turn, answer, executor, opencode>>
  /\ IF at[s] = "router" THEN Fallback(s) ELSE Goes(s, "idle") /\ UNCHANGED decision

\* load() up to its first await, and what follows when there is none.
Enter(s, e) ==
  IF model[e] = "there" THEN Submit(s, "run") /\ Does(s, "running") /\ UNCHANGED lock
  ELSE IF e \in Locked /\ lock[e] # <<>>
    THEN /\ lock' = [lock EXCEPT ![e] = Append(@, s)]
         /\ Does(s, "lock") /\ UNCHANGED executor
  ELSE /\ lock' = [lock EXCEPT ![e] = IF e \in Locked THEN <<s>> ELSE <<>>]
       /\ Submit(s, "load") /\ Does(s, "loading")

Load(s) ==
  /\ at[s] \in Engine /\ model[at[s]] # "missing" /\ step[s] = "ask" /\ Enter(s, at[s])
  /\ UNCHANGED <<model, copies, opencode>>

Freed(e, s) == [lock EXCEPT ![e] = LeftLine(@, s)]

\* Faulty variant: it does not look whether the model is there by now.
Recheck_Not(s, e) ==
  Submit(s, "load") /\ Does(s, "loading") /\ UNCHANGED lock

\* A waiter gets the lock and looks again.
Recheck(s, e) ==
  IF model[e] = "there" THEN lock' = Freed(e, s) /\ Submit(s, "run") /\ Does(s, "running")
  ELSE Submit(s, "load") /\ Does(s, "loading") /\ UNCHANGED lock

GotLock(s) ==
  /\ step[s] = "lock" /\ Head(lock[at[s]]) = s /\ Recheck(s, at[s])
  /\ UNCHANGED <<model, copies, opencode>>

\* The load is through: the model is there, and the call goes on with it.
Loaded(s) ==
  /\ step[s] = "loaded" /\ at[s] \in Engine
  /\ model' = [model EXCEPT ![at[s]] = "there"] /\ copies' = [copies EXCEPT ![at[s]] = @ + 1]
  /\ lock' = Freed(at[s], s) /\ Submit(s, "run") /\ Does(s, "running")
  /\ UNCHANGED opencode

\* transcribe_file, route or the synthesis is through; a transcript may be empty.
Ran(s) ==
  /\ step[s] = "ran"
  /\ \/ at[s] = "stt" /\ (Goes(s, "router") \/ Goes(s, "idle")) /\ UNCHANGED decision
     \/ at[s] = "router" /\ Goes(s, "llm") /\ Decide(s, "router", answer[s])
     \/ at[s] = "tts" /\ Goes(s, "idle") /\ UNCHANGED decision
  /\ UNCHANGED <<engines, turn, answer, executor, opencode>>
Failed(s) ==
  /\ step[s] = "failed" /\ at[s] \in Engine /\ lock' = Freed(at[s], s)
  /\ IF at[s] = "router" THEN Fallback(s) ELSE Goes(s, "idle") /\ UNCHANGED decision
  /\ UNCHANGED <<model, copies, turn, answer, executor, opencode>>

-----------------------------------------------------------------------------
(* A turn that gives up.                                                   *)

\* Its job leaves the queue if no thread has it yet; else the thread goes on
\* with it, for nobody.
Cancelled(s) == Without(queue, {i \in DOMAIN queue : queue[i].by = s})
Unheard(s) ==
  /\ queue' = Cancelled(s) /\ running' = {j \in running : j.by # s}
  /\ lost' = [k \in Kind |->
       IF \E j \in running : j.by = s /\ k = <<j.engine, j.do>> THEN lost[k] + 1 ELSE lost[k]]

\* Faulty variant: the place at the locks stays.
Abandon_Locked(s) == Unheard(s) /\ UNCHANGED lock

\* Faulty variant: the thread still answers the session.
Abandon_Heard(s) ==
  /\ queue' = Cancelled(s) /\ UNCHANGED <<running, lost>>
  /\ lock' = [e \in Engine |-> LeftLine(lock[e], s)]

\* What cancelling a call does; its place at the locks is gone.
Abandon(s) == Unheard(s) /\ lock' = [e \in Engine |-> LeftLine(lock[e], s)]

\* wait_for covers the load as well as the classification.
Limited == {"lock", "loading", "loaded", "running", "failed"}

Timeout(s) ==
  /\ at[s] = "router" /\ step[s] \in Limited
  /\ Abandon(s) /\ Fallback(s) /\ UNCHANGED <<model, copies, turn, answer, opencode>>

\* _interrupt cancels the response task wherever it waits.
Interrupt(s) ==
  /\ at[s] # "idle" /\ Abandon(s) /\ Goes(s, "idle")
  /\ UNCHANGED <<model, copies, turn, answer, decision, opencode>>

-----------------------------------------------------------------------------
(* The threads.                                                            *)

\* The thread goes on with the job that waits longest.
Started == IF queue = <<>> THEN {} ELSE {Head(queue)}
TakesNext == queue' = IF queue = <<>> THEN queue ELSE Tail(queue)

Finish(j) ==
  /\ running' = (running \ {j}) \cup Started /\ TakesNext
  /\ answer' = [answer EXCEPT ![j.by] = j.turn]
  /\ \/ step' = [step EXCEPT ![j.by] = IF j.do = "load" THEN "loaded" ELSE "ran"]
     \/ MayFail /\ step' = [step EXCEPT ![j.by] = "failed"]
  /\ UNCHANGED <<engines, at, turn, decision, lost, opencode>>

\* Nobody hears the answer, nor that there is none.
FinishLost(k) ==
  /\ lost[k] > 0 /\ lost' = [lost EXCEPT ![k] = @ - 1]
  /\ running' = running \cup Started /\ TakesNext
  /\ UNCHANGED <<engines, turns, opencode>>

-----------------------------------------------------------------------------
(* ensure_running, and a reply of the server.                              *)

Ensure(s) ==
  /\ at[s] = "llm" /\ step[s] = "ask"
  /\ IF server = "up" THEN Goes(s, "tts") /\ UNCHANGED <<turn, answer, decision, opencode>>
     ELSE /\ server' = "starting" /\ Does(s, "poll")
          \* the port goes to one of the processes, whoever is remembered
          /\ IF server = "down" THEN tracked' = TRUE ELSE tracked' \in BOOLEAN
  /\ UNCHANGED <<engines, executor>>
Poll(s) ==
  /\ step[s] = "poll" /\ server = "up" /\ Goes(s, "tts")
  /\ UNCHANGED <<engines, turn, answer, decision, executor, opencode>>

\* Faulty variant: there is no deadline.
Deadline_Endless(s) == FALSE

\* The startup deadline passes: stop(), and the turn fails.
Deadline(s) == step[s] = "poll"

GivesUp(s) ==
  /\ Deadline(s) /\ Goes(s, "idle") /\ tracked' = FALSE
  /\ server' = IF tracked THEN "down" ELSE server
  /\ UNCHANGED <<engines, turn, answer, decision, executor>>

ServerChanges ==
  /\ \/ server = "starting" /\ server' = "up" /\ UNCHANGED tracked
     \/ MayFail /\ server # "down" /\ server' = "down" /\ tracked' = FALSE
  /\ UNCHANGED <<engines, turns, executor>>

-----------------------------------------------------------------------------
Steps(s) ==
  Acquire(s) \/ Skip(s) \/ Load(s) \/ GotLock(s) \/ Loaded(s) \/ Ran(s) \/ Failed(s)
    \/ Ensure(s) \/ Poll(s)

Next ==
  \/ \E s \in Session :
       Speak(s) \/ Steps(s) \/ Timeout(s) \/ GivesUp(s) \/ Interrupt(s)
  \/ (\E j \in running : Finish(j)) \/ (\E k \in Kind : FinishLost(k)) \/ ServerChanges

\* The event loop runs what is ready, its timers fire, and a thread ends what
\* it does, the loads of slow engines perhaps not.
EndlessLoad(e, do) == do = "load" /\ e \in Slow
FinishesQuick ==
  \/ \E j \in running : ~EndlessLoad(j.engine, j.do) /\ Finish(j)
  \/ \E k \in Kind : ~EndlessLoad(k[1], k[2]) /\ FinishLost(k)
Fairness ==
  /\ \A s \in Session : WF_vars(Steps(s)) /\ WF_vars(Timeout(s)) /\ WF_vars(GivesUp(s))
  /\ WF_vars(FinishesQuick)

Spec == Init /\ [][Next]_vars /\ Fairness

-----------------------------------------------------------------------------
(* Properties.                                                             *)

Jobs == {queue[i] : i \in DOMAIN queue} \cup running

Stage == Engine \cup {"idle", "queued", "llm"}
Step  == {"ask", "lock", "loading", "loaded", "running", "ran", "failed", "poll"}
Work  == [engine : Engine, do : {"load", "run"}, by : Session, turn : Nat]

TypeOK ==
  /\ model \in [Engine -> {"missing", "unloaded", "there"}] /\ copies \in [Engine -> Nat]
  /\ lock \in [Engine -> Seq(Session)]
  /\ at \in [Session -> Stage] /\ step \in [Session -> Step]
  /\ turn \in [Session -> Nat] /\ answer \in [Session -> Nat]
  /\ decision \in [Session -> [by : {"none", "router", "fallback"}, of : Nat]]
  /\ queue \in Seq(Work) /\ running \in SUBSET Work /\ lost \in [Kind -> Nat]
  /\ server \in {"down", "starting", "up"} /\ tracked \in BOOLEAN

\* Whoever has a load lock is loading under it and whoever waits for one waits
\* in that engine: neither a timeout nor an interrupt leaves a lock behind.
LocksHaveHolders ==
  \A e \in Engine : \A i \in DOMAIN lock[e] :
    LET s == lock[e][i] IN
    /\ at[s] = e
    /\ step[s] \in IF i = 1 THEN {"lock", "loading", "loaded", "failed"} ELSE {"lock"}

\* However many turns need an engine first, its model is put in place once -
\* Moonshine's, which has no lock, once by each that transcribes at the time.
OneCopy ==
  \A e \in Engine : copies[e] <= IF e \in Locked THEN 1 ELSE Workers

\* The asserts after load(): nothing runs on a model that is not there.
RunsOnAModel == \A j \in Jobs :
    model[j.engine] = "there" \/ (j.do = "load" /\ model[j.engine] = "unloaded")

\* Models are put in place once, and before they are used.
ModelsAreInPlace == TypeOK /\ OneCopy /\ RunsOnAModel

\* A decision of the router is about the words of its own turn, never the late
\* answer to an earlier one.
OwnDecision ==
  \A s \in Session : decision[s].by = "router" /\ at[s] \in {"llm", "tts"} =>
    decision[s].of = turn[s]

\* An answer is awaited from one job that is queued or runs, of this turn and
\* for this step, and who awaits none has none: cancelling leaves no session
\* waiting for what never comes and none that hears what it did not ask.
Awaiting == {"loading", "running"}
OneJob ==
  \A i \in DOMAIN queue :
    /\ \A k \in DOMAIN queue : queue[i].by = queue[k].by => i = k
    /\ \A j \in running : queue[i].by # j.by
JobsAreAwaited ==
  \A j \in Jobs :
    step[j.by] \in Awaiting /\ j = Job(j.by, IF step[j.by] = "loading" THEN "load" ELSE "run")
AnswersCome ==
  /\ OneJob /\ JobsAreAwaited
  /\ \A s \in Session : step[s] \in Awaiting => \E j \in Jobs : j.by = s

\* Each session has the answer to what it asked, and waits only for one to come.
AnswersAreForTheirTurn == OwnDecision /\ AnswersCome

\* Every turn ends, one whose router never loads included, as long as the loads
\* nobody awaits any more leave a thread free, whether or not the OpenCode
\* server ever comes up.
TurnsEnd == \A s \in Session : at[s] # "idle" ~> at[s] = "idle"
=============================================================================
