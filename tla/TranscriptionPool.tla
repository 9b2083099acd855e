--------------------------- MODULE TranscriptionPool ---------------------------
(***************************************************************************)
(* The TranscriptionCoordinator every session of a host shares             *)
(* (session_worker/transcription.py): a semaphore lets a fixed number of   *)
(* jobs through to the speech recogniser, which runs in a thread of the    *)
(* default executor, and two counters report the load.  A job is one call  *)
(* of transcribe by a response task, so an interrupt may cancel it at any  *)
(* await: in the semaphore's queue, just after it was let through, or      *)
(* while its thread runs, which nothing stops.                             *)
(*                                                                         *)
(* The lock around the counters is never held across a suspension, so it   *)
(* is always free and the counters change together with the step around    *)
(* them.  The semaphore is asyncio's: release hands the permit to the      *)
(* first waiter, which resumes in a later step.                            *)
(***************************************************************************)
EXTENDS Naturals, Sequences, FiniteSets, SequencesExt

CONSTANTS
  Job,       \* bound: the calls of transcribe in a behaviour
  Workers,   \* HostTranscriptionCapacity.configured_workers
  Threads    \* threads of the default executor

ASSUME PoolAssumption == /\ IsFiniteSet(Job)
                         /\ Workers \in Nat \ {0}
                         /\ Threads \in Nat \ {0}

VARIABLES
  permits,   \* Semaphore._value
  waiters,   \* Semaphore._waiters, by their jobs
  ticket,    \* the future of a waiting job
  job,       \* where each call of transcribe stands
  cancelled, \* the jobs whose task was cancelled, CancelledError not delivered
  queued,    \* _capacity.queued_jobs
  active,    \* _capacity.active_jobs
  work       \* the recogniser's run for the job, in the executor

vars == <<permits, waiters, ticket, job, cancelled, queued, active, work>>

Init ==
  /\ permits = Workers
  /\ waiters = <<>>
  /\ ticket = [j \in Job |-> "none"]
  /\ job = [j \in Job |-> "new"]
  /\ cancelled = {}
  /\ queued = 0
  /\ active = 0
  /\ work = [j \in Job |-> "none"]

In(state) == {j \in Job : job[j] = state}
Lower(n) == IF n = 0 THEN 0 ELSE n - 1      \* max(0, n - 1)

-----------------------------------------------------------------------------
(* The semaphore.                                                          *)

Locked == permits = 0 \/ \E i \in DOMAIN waiters : ticket[waiters[i]] # "cancelled"

Pending(q, tk) == {i \in DOMAIN q : tk[q[i]] = "pending"}

\* _wake_up_next with n permits, the waiters q and their tickets tk: the first
\* waiter that still waits gets one of them.
WakeUp(n, q, tk) ==
  \/ Pending(q, tk) = {} /\ permits' = n /\ ticket' = tk
  \/ \E first \in Pending(q, tk) :
       /\ \A i \in Pending(q, tk) : first <= i
       /\ permits' = n - 1
       /\ ticket' = [tk EXCEPT ![q[first]] = "granted"]

\* A job takes its future out of the waiters.
Leaves(j) ==
  \E i \in DOMAIN waiters : waiters[i] = j /\ waiters' = RemoveAt(waiters, i)

\* Faulty variant: the finally block is missing.
Release_NoFinally == WakeUp(permits + 1, waiters, ticket) /\ UNCHANGED active
\* Leaving `async with self._semaphore`, and the finally block inside it.
Release == WakeUp(permits + 1, waiters, ticket) /\ active' = Lower(active)

-----------------------------------------------------------------------------
(* transcribe, from await to await.                                        *)

CountedIn == queued' = queued + 1

\* Faulty variant: a job goes to the recogniser although others wait.
TranscribeAtOnce_Barging(j) ==
  /\ job[j] = "new"
  /\ permits' = Lower(permits)
  /\ active' = active + 1
  /\ job' = [job EXCEPT ![j] = "running"]
  /\ work' = [work EXCEPT ![j] = "submitted"]
  /\ UNCHANGED <<waiters, ticket, cancelled, queued>>

\* A permit is free: the job is counted in and out of the queue and its work
\* goes to the executor, all in one step.
TranscribeAtOnce(j) ==
  /\ job[j] = "new"
  /\ ~Locked
  /\ permits' = permits - 1
  /\ active' = active + 1
  /\ job' = [job EXCEPT ![j] = "running"]
  /\ work' = [work EXCEPT ![j] = "submitted"]
  /\ UNCHANGED <<waiters, ticket, cancelled, queued>>

TranscribeQueued(j) ==
  /\ job[j] = "new"
  /\ Locked
  /\ CountedIn
  /\ waiters' = Append(waiters, j)
  /\ ticket' = [ticket EXCEPT ![j] = "pending"]
  /\ job' = [job EXCEPT ![j] = "waiting"]
  /\ UNCHANGED <<permits, cancelled, active, work>>

\* The job that was let through resumes.
Admitted(j) ==
  /\ job[j] = "waiting" /\ ticket[j] = "granted" /\ j \notin cancelled
  /\ Leaves(j)
  /\ IF permits > 0 THEN WakeUp(permits, waiters', ticket)
                    ELSE UNCHANGED <<permits, ticket>>
  /\ queued' = Lower(queued)
  /\ active' = active + 1
  /\ job' = [job EXCEPT ![j] = "running"]
  /\ work' = [work EXCEPT ![j] = "submitted"]
  /\ UNCHANGED cancelled

\* The recogniser has answered or raised, and the job resumes.
Transcribed(j) ==
  /\ job[j] = "running" /\ work[j] = "finished" /\ j \notin cancelled
  /\ Release
  /\ job' = [job EXCEPT ![j] = "ended"]
  /\ UNCHANGED <<waiters, cancelled, queued, work>>

-----------------------------------------------------------------------------
(* Cancellation, by the interrupt of a session.                            *)

\* task.cancel(): it cancels the future the job awaits, if that is not done.
Cancel(j) ==
  /\ job[j] \in {"waiting", "running"} /\ j \notin cancelled
  /\ cancelled' = cancelled \cup {j}
  /\ ticket' = IF job[j] = "waiting" /\ ticket[j] = "pending"
                 THEN [ticket EXCEPT ![j] = "cancelled"] ELSE ticket
  /\ work' = IF job[j] = "running" /\ work[j] = "submitted"
               THEN [work EXCEPT ![j] = "withdrawn"] ELSE work
  /\ UNCHANGED <<permits, waiters, job, queued, active>>

PassOn(j) == IF ticket[j] = "granted" THEN WakeUp(permits + 1, waiters', ticket)
                                      ELSE UNCHANGED <<permits, ticket>>

\* CancelledError in the semaphore's queue: a permit already handed over is
\* handed on.  queued_jobs was raised before and is not lowered any more.
CancelledWaiting(j) ==
  /\ job[j] = "waiting" /\ j \in cancelled
  /\ Leaves(j)
  /\ PassOn(j)
  /\ job' = [job EXCEPT ![j] = "ended"]
  /\ cancelled' = cancelled \ {j}
  /\ UNCHANGED <<queued, active, work>>

\* Faulty variants: a cancelled job keeps its permit; it waits for its thread.
CancelledRunning_Keeps(j) ==
  /\ job[j] = "running" /\ j \in cancelled
  /\ active' = Lower(active)
  /\ job' = [job EXCEPT ![j] = "ended"]
  /\ cancelled' = cancelled \ {j}
  /\ UNCHANGED <<permits, ticket, waiters, queued, work>>

\* CancelledError at the recogniser: the permit is free again, while the
\* thread, if it had started, runs on for nobody.
CancelledRunning(j) ==
  /\ job[j] = "running" /\ j \in cancelled
  /\ Release
  /\ job' = [job EXCEPT ![j] = "ended"]
  /\ cancelled' = cancelled \ {j}
  /\ UNCHANGED <<waiters, queued, work>>

-----------------------------------------------------------------------------
(* The executor.                                                           *)

Executing == {j \in Job : work[j] = "executing"}

WorkStarts(j) ==
  /\ work[j] = "submitted"
  /\ Cardinality(Executing) < Threads
  /\ work' = [work EXCEPT ![j] = "executing"]
  /\ UNCHANGED <<permits, waiters, ticket, job, cancelled, queued, active>>

WorkFinishes(j) ==
  /\ work[j] = "executing"
  /\ work' = [work EXCEPT ![j] = "finished"]
  /\ UNCHANGED <<permits, waiters, ticket, job, cancelled, queued, active>>

-----------------------------------------------------------------------------
Resumed(j) ==
  \/ Admitted(j) \/ Transcribed(j) \/ CancelledWaiting(j) \/ CancelledRunning(j)

Next ==
  \E j \in Job : \/ TranscribeAtOnce(j) \/ TranscribeQueued(j) \/ Cancel(j)
                 \/ Resumed(j) \/ WorkStarts(j) \/ WorkFinishes(j)

Spec == Init /\ [][Next]_vars

\* The event loop resumes ready tasks; a free thread takes up work, and the
\* recogniser comes to an end.
FairSpec ==
  /\ Spec
  /\ \A j \in Job : WF_vars(Resumed(j)) /\ WF_vars(WorkStarts(j))
                                        /\ WF_vars(WorkFinishes(j))

-----------------------------------------------------------------------------
(* Properties.                                                             *)

TypeOK ==
  /\ permits \in 0..Workers
  /\ waiters \in Seq(Job)
  /\ ticket \in [Job -> {"none", "pending", "granted", "cancelled"}]
  /\ job \in [Job -> {"new", "waiting", "running", "ended"}]
  /\ cancelled \subseteq Job
  /\ queued \in Nat /\ active \in Nat
  /\ work \in [Job -> {"none", "submitted", "executing", "withdrawn", "finished"}]

\* The jobs that hold a permit: those at the recogniser, and those that were
\* let through and have not resumed yet.
Holders == In("running") \cup {j \in In("waiting") : ticket[j] = "granted"}

\* No permit is lost or made up, whenever a job is cancelled: the free permits
\* and the jobs that hold one add up to configured_workers.
PermitsAddUp == permits + Cardinality(Holders) = Workers

\* active_jobs is the number of jobs at the recogniser; its max(0, ...) never
\* hides a missing increment.
ActiveJobsIsExact == active = Cardinality(In("running"))

\* Jobs are let through in the order they came: nobody starts ahead of a job
\* that was waiting before and still wants its turn.
Ahead(j, k) ==
  \E i, l \in DOMAIN waiters : waiters[i] = j /\ waiters[l] = k /\ i < l
FirstComeFirstServed ==
  [][\A j \in Holders' \ Holders, k \in Job :
       k # j /\ ticket[k] = "pending" /\ ticket'[k] = "pending" => Ahead(j, k)]_vars

\* A job that waits is let through at some point, unless it is cancelled, even
\* if threads of cancelled jobs keep the executor busy.
WaitingJobsProceed ==
  \A j \in Job : job[j] = "waiting" ~> job[j] # "waiting"

\* A job at the recogniser ends, however many threads run for nobody.
RunningJobsEnd == \A j \in Job : job[j] = "running" ~> job[j] = "ended"

\* No job waits or runs for ever.
JobsGoOn == WaitingJobsProceed /\ RunningJobsEnd
=============================================================================
