----------------------- MODULE TranscriptionPoolProofs -----------------------
(***************************************************************************)
(* For any finite set of jobs and any number of permits: cancellation at   *)
(* whatever await never loses a permit, and active_jobs is exact.          *)
(***************************************************************************)
EXTENDS TranscriptionPool, FiniteSetTheorems, SequenceTheorems, TLAPS

\* Only a job in the semaphore's queue has a future that is not settled.
PendingWaits == \A j \in Job : ticket[j] = "pending" => job[j] = "waiting"

\* A job that was cancelled has not ended yet, and its future is settled.
CancelledIsSettled ==
  \A j \in cancelled : ticket[j] # "pending" /\ job[j] \in {"waiting", "running"}

PoolInv == /\ TypeOK /\ PendingWaits /\ CancelledIsSettled
           /\ PermitsAddUp /\ ActiveJobsIsExact

-----------------------------------------------------------------------------
(* Proofs.                                                                 *)

LEMMA PoolInit == Init => PoolInv
<1> SUFFICES ASSUME Init PROVE PoolInv
  OBVIOUS
<1>1. TypeOK /\ PendingWaits /\ CancelledIsSettled
  BY PoolAssumption DEF Init, TypeOK, PendingWaits, CancelledIsSettled
<1>2. Holders = {} /\ In("running") = {}
  BY DEF Init, Holders, In
<1>3. QED
  BY <1>1, <1>2, FS_EmptySet, PoolAssumption
  DEF Init, PoolInv, PermitsAddUp, ActiveJobsIsExact

\* Taking one waiter out leaves a sequence of jobs.
LEMMA LeavesType ==
  ASSUME waiters \in Seq(Job), NEW j \in Job, Leaves(j)
  PROVE  waiters' \in Seq(Job)
<1>1. PICK i \in DOMAIN waiters : waiters' = RemoveAt(waiters, i)
  BY DEF Leaves
<1>2. DOMAIN waiters = 1..Len(waiters) /\ Len(waiters) \in Nat
      /\ \A k \in 1..Len(waiters) : waiters[k] \in Job
  BY ElementOfSeq, LenProperties
<1>3. SubSeq(waiters, 1, i - 1) \in Seq(Job)
  <2>1. i \in Nat /\ \A k \in 1..(i - 1) : waiters[k] \in Job
    BY <1>2
  <2>2. QED BY <2>1, SubSeqProperties
<1>4. SubSeq(waiters, i + 1, Len(waiters)) \in Seq(Job)
  <2>1. i \in Nat /\ \A k \in (i + 1)..Len(waiters) : waiters[k] \in Job
    BY <1>2
  <2>2. QED BY <2>1, <1>2, SubSeqProperties
<1>5. QED
  BY <1>1, <1>3, <1>4, ConcatProperties DEF RemoveAt

\* The cardinality of a set of jobs that loses or gains one.
LEMMA JobSets ==
  ASSUME NEW S \in SUBSET Job, NEW j
  PROVE  /\ Cardinality(S) \in Nat
         /\ j \in S => Cardinality(S) = Cardinality(S \ {j}) + 1
         /\ j \notin S => Cardinality(S \cup {j}) = Cardinality(S) + 1
<1>1. IsFiniteSet(S)
  BY FS_Subset, PoolAssumption
<1>2. Cardinality(S) \in Nat
  BY <1>1, FS_CardinalityType
<1>3. ASSUME j \in S PROVE Cardinality(S) = Cardinality(S \ {j}) + 1
  <2>1. Cardinality(S \ {j}) = Cardinality(S) - 1
    BY <1>1, <1>3, FS_RemoveElement
  <2>2. QED BY <1>2, <2>1
<1>4. j \notin S => Cardinality(S \cup {j}) = Cardinality(S) + 1
  BY <1>1, FS_AddElement
<1>5. QED
  BY <1>2, <1>3, <1>4

\* A permit that is passed on goes to a waiting job or stays free.
LEMMA WakeUpMoves ==
  ASSUME NEW n \in Nat, NEW q \in Seq(Job), WakeUp(n, q, ticket)
  PROVE  \/ permits' = n /\ ticket' = ticket
         \/ \E k \in Job : /\ ticket[k] = "pending"
                           /\ permits' = n - 1
                           /\ ticket' = [ticket EXCEPT ![k] = "granted"]
<1>1. \A i \in DOMAIN q : q[i] \in Job
  BY ElementOfSeq, LenProperties
<1>2. QED
  BY <1>1 DEF WakeUp, Pending

LEMMA CancelledNext ==
  ASSUME TypeOK, PendingWaits, CancelledIsSettled, [Next]_vars
  PROVE  CancelledIsSettled'
<1>ty. /\ permits \in Nat /\ waiters \in Seq(Job) /\ cancelled \subseteq Job
       /\ ticket \in [Job -> {"none", "pending", "granted", "cancelled"}]
       /\ job \in [Job -> {"new", "waiting", "running", "ended"}]
  BY PoolAssumption DEF TypeOK
\* The permit that is passed on goes to no cancelled job.
<1>wk. ASSUME NEW n \in Nat, NEW q \in Seq(Job), WakeUp(n, q, ticket)
       PROVE  \A i \in cancelled : ticket'[i] # "pending"
  BY <1>wk, <1>ty, WakeUpMoves DEF CancelledIsSettled
<1>1. ASSUME NEW j \in Job, TranscribeAtOnce(j) \/ TranscribeQueued(j)
      PROVE  CancelledIsSettled'
  BY <1>1, <1>ty DEF TranscribeAtOnce, TranscribeQueued, CancelledIsSettled
<1>2. ASSUME NEW j \in Job, Admitted(j) PROVE CancelledIsSettled'
  <2>1. waiters' \in Seq(Job)
    BY <1>2, <1>ty, LeavesType DEF Admitted
  <2>2. \A i \in cancelled : ticket'[i] # "pending"
    BY <1>2, <2>1, <1>wk, <1>ty DEF Admitted, CancelledIsSettled
  <2>3. QED BY <1>2, <2>2, <1>ty DEF Admitted, CancelledIsSettled
<1>3. ASSUME NEW j \in Job, Transcribed(j) \/ CancelledRunning(j)
      PROVE  CancelledIsSettled'
  <2>1. permits + 1 \in Nat /\ WakeUp(permits + 1, waiters, ticket)
    BY <1>3, <1>ty DEF Transcribed, CancelledRunning, Release
  <2>2. \A i \in cancelled : ticket'[i] # "pending"
    BY <2>1, <1>wk, <1>ty
  <2>3. QED
    BY <1>3, <2>2, <1>ty DEF Transcribed, CancelledRunning, CancelledIsSettled
<1>4. ASSUME NEW j \in Job, Cancel(j) PROVE CancelledIsSettled'
  <2>1. CASE ticket' = ticket /\ ticket[j] # "pending"
    BY <1>4, <2>1, <1>ty DEF Cancel, CancelledIsSettled
  <2>2. CASE ticket' = [ticket EXCEPT ![j] = "cancelled"]
    BY <1>4, <2>2, <1>ty DEF Cancel, CancelledIsSettled
  <2>3. CASE job[j] = "waiting" /\ ticket[j] = "pending"
    BY <1>4, <2>2, <2>3 DEF Cancel
  <2>4. CASE ~(job[j] = "waiting" /\ ticket[j] = "pending")
    BY <1>4, <2>1, <2>4 DEF Cancel, PendingWaits
  <2>5. QED BY <2>3, <2>4
<1>5. ASSUME NEW j \in Job, CancelledWaiting(j) PROVE CancelledIsSettled'
  <2>1. waiters' \in Seq(Job) /\ permits + 1 \in Nat
    BY <1>5, <1>ty, LeavesType DEF CancelledWaiting
  <2>2. \A i \in cancelled : ticket'[i] # "pending"
    BY <1>5, <2>1, <1>wk DEF CancelledWaiting, PassOn, CancelledIsSettled
  <2>3. QED
    BY <1>5, <2>2, <1>ty DEF CancelledWaiting, CancelledIsSettled
<1>6. CASE \/ UNCHANGED vars
           \/ \E j \in Job : WorkStarts(j) \/ WorkFinishes(j)
  BY <1>6 DEF vars, WorkStarts, WorkFinishes, CancelledIsSettled
<1>7. QED
  BY <1>1, <1>2, <1>3, <1>4, <1>5, <1>6 DEF Next, Resumed

LEMMA PoolNext == PoolInv /\ [Next]_vars => PoolInv'
<1> SUFFICES ASSUME PoolInv, [Next]_vars PROVE PoolInv'
  OBVIOUS
<1>ci. CancelledIsSettled'
  BY CancelledNext DEF PoolInv
<1> USE <1>ci DEF PoolInv
<1>ty. /\ permits \in Nat /\ Workers \in Nat /\ active \in Nat /\ queued \in Nat
       /\ waiters \in Seq(Job) /\ cancelled \subseteq Job
       /\ ticket \in [Job -> {"none", "pending", "granted", "cancelled"}]
       /\ job \in [Job -> {"new", "waiting", "running", "ended"}]
       /\ work \in [Job -> {"none", "submitted", "executing", "withdrawn", "finished"}]
  BY PoolAssumption DEF TypeOK
<1>hs. Holders \in SUBSET Job /\ In("running") \in SUBSET Job
  BY DEF Holders, In
<1>pe. permits + Cardinality(Holders) = Workers
       /\ active = Cardinality(In("running"))
  BY DEF PermitsAddUp, ActiveJobsIsExact
\* The bound on the permits follows from the sum.
<1>bo. ASSUME permits' \in Nat, permits' + Cardinality(Holders') = Workers
       PROVE  permits' \in 0..Workers
  <2>1. Holders' \in SUBSET Job
    BY DEF Holders, In
  <2>2. Cardinality(Holders') \in Nat
    BY <2>1, JobSets
  <2>3. QED BY <1>bo, <2>2, <1>ty
\* Job j starts or stops to hold a permit, and one permit of n is passed on.
<1>wk. ASSUME NEW n \in Nat \ {0}, NEW q \in Seq(Job), WakeUp(n, q, ticket),
              NEW j \in Job, ticket[j] # "pending", job[j] \in {"waiting", "running"},
              NEW x \in {"running", "ended"}, job' = [job EXCEPT ![j] = x],
              n + Cardinality(IF x = "running" THEN Holders \cup {j} ELSE Holders \ {j})
                = Workers
       PROVE  /\ permits' \in Nat /\ PermitsAddUp' /\ PendingWaits'
              /\ ticket' \in [Job -> {"none", "pending", "granted", "cancelled"}]
  <2> DEFINE H == IF x = "running" THEN Holders \cup {j} ELSE Holders \ {j}
  <2>1. job'[j] = x /\ \A i \in Job \ {j} : job'[i] = job[i]
    BY <1>wk, <1>ty
  <2>2. H \in SUBSET Job
    BY <1>hs
  <2>3. CASE permits' = n /\ ticket' = ticket
    <3>1. Holders' = H
      BY <1>wk, <2>1, <2>3 DEF Holders, In
    <3>2. PendingWaits'
      BY <1>wk, <2>1, <2>3 DEF PendingWaits
    <3>3. QED BY <1>wk, <2>3, <3>1, <3>2, <1>ty DEF PermitsAddUp
  <2>4. ASSUME NEW k \in Job, ticket[k] = "pending", permits' = n - 1,
               ticket' = [ticket EXCEPT ![k] = "granted"]
        PROVE  /\ permits' \in Nat /\ PermitsAddUp' /\ PendingWaits'
               /\ ticket' \in [Job -> {"none", "pending", "granted", "cancelled"}]
    <3>1. k # j /\ job[k] = "waiting" /\ k \notin H
      BY <1>wk, <2>4 DEF PendingWaits, Holders, In
    <3>2. ticket'[k] = "granted" /\ \A i \in Job \ {k} : ticket'[i] = ticket[i]
      BY <2>4, <1>ty
    <3>3. Holders' = H \cup {k}
      BY <1>wk, <2>1, <3>1, <3>2 DEF Holders, In
    <3> HIDE DEF H
    <3>4. Cardinality(Holders') = Cardinality(H) + 1 /\ Cardinality(H) \in Nat
      BY <2>2, <3>1, <3>3, JobSets
    <3>5. permits' + Cardinality(Holders') = Workers
      BY <1>wk, <2>4, <3>4 DEF H
    <3>6. PendingWaits'
      BY <1>wk, <2>1, <3>1, <3>2 DEF PendingWaits
    <3>7. QED BY <2>4, <3>5, <3>6, <1>ty DEF PermitsAddUp
  <2>5. QED
    BY <1>wk, <2>3, <2>4, WakeUpMoves
\* Job j leaves the recogniser.
<1>le. ASSUME NEW j \in Job, job[j] = "running", Release,
              job' = [job EXCEPT ![j] = "ended"]
       PROVE  /\ permits' \in Nat /\ PermitsAddUp' /\ PendingWaits'
              /\ ticket' \in [Job -> {"none", "pending", "granted", "cancelled"}]
              /\ active' \in Nat /\ ActiveJobsIsExact'
  <2>1. j \in Holders /\ j \in In("running") /\ ticket[j] # "pending"
    BY <1>le DEF Holders, In, PendingWaits
  <2>2. Cardinality(Holders) = Cardinality(Holders \ {j}) + 1
        /\ Cardinality(Holders \ {j}) \in Nat
    <3>1. Holders \ {j} \in SUBSET Job BY <1>hs
    <3>2. QED BY <2>1, <3>1, <1>hs, JobSets
  <2>3. WakeUp(permits + 1, waiters, ticket) /\ permits + 1 \in Nat \ {0}
    BY <1>le, <1>ty DEF Release
  <2>4. (permits + 1) + Cardinality(Holders \ {j}) = Workers
    BY <2>2, <1>pe, <1>ty
  <2>5. /\ permits' \in Nat /\ PermitsAddUp' /\ PendingWaits'
        /\ ticket' \in [Job -> {"none", "pending", "granted", "cancelled"}]
    BY <1>le, <2>1, <2>3, <2>4, <1>wk, <1>ty
  <2>6. In("running")' = In("running") \ {j}
    BY <1>le, <1>ty DEF In
  <2>7. Cardinality(In("running")) = Cardinality(In("running") \ {j}) + 1
        /\ Cardinality(In("running") \ {j}) \in Nat
    <3>1. In("running") \ {j} \in SUBSET Job BY <1>hs
    <3>2. QED BY <2>1, <3>1, <1>hs, JobSets
  <2>8. active' = active - 1
    BY <1>le, <2>7, <1>pe DEF Release, Lower
  <2>9. active' \in Nat /\ ActiveJobsIsExact'
    BY <2>6, <2>7, <2>8, <1>pe DEF ActiveJobsIsExact
  <2>10. QED BY <2>5, <2>9
\* Job j comes to the recogniser.
<1>en. ASSUME NEW j \in Job, job[j] # "running", active' = active + 1,
              job' = [job EXCEPT ![j] = "running"]
       PROVE  active' \in Nat /\ ActiveJobsIsExact'
  <2>1. In("running")' = In("running") \cup {j} /\ j \notin In("running")
    BY <1>en, <1>ty DEF In
  <2>2. QED
    BY <1>en, <2>1, <1>pe, <1>hs, <1>ty, JobSets DEF ActiveJobsIsExact
<1>1. ASSUME NEW j \in Job, TranscribeAtOnce(j) PROVE PoolInv'
  <2> USE <1>1 DEF TranscribeAtOnce
  <2>1. permits' \in Nat /\ permits = permits' + 1
    BY <1>ty DEF Locked
  <2>2. Holders' = Holders \cup {j} /\ j \notin Holders
    BY <1>ty DEF Holders, In
  <2>3. permits' + Cardinality(Holders') = Workers
    BY <2>1, <2>2, <1>pe, <1>hs, JobSets
  <2>4. active' \in Nat /\ ActiveJobsIsExact'
    BY <1>en
  <2>5. PendingWaits'
    BY <1>ty DEF PendingWaits
  <2>6. QED
    BY <2>1, <2>3, <2>4, <2>5, <1>bo, <1>ty DEF TypeOK, PermitsAddUp
<1>2. ASSUME NEW j \in Job, TranscribeQueued(j) PROVE PoolInv'
  <2> USE <1>2 DEF TranscribeQueued, CountedIn
  <2>1. Holders' = Holders /\ In("running")' = In("running")
    BY <1>ty DEF Holders, In
  <2>2. PendingWaits'
    BY <1>ty DEF PendingWaits
  <2>3. waiters' \in Seq(Job)
    BY <1>ty, AppendProperties
  <2>4. QED
    BY <2>1, <2>2, <2>3, <1>ty, <1>pe, <1>bo
    DEF TypeOK, PermitsAddUp, ActiveJobsIsExact
<1>3. ASSUME NEW j \in Job, Admitted(j) PROVE PoolInv'
  <2> USE <1>3 DEF Admitted
  <2>1. waiters' \in Seq(Job)
    BY <1>ty, LeavesType
  <2>2. j \in Holders /\ Holders \cup {j} = Holders
    BY DEF Holders, In
  <2>3. /\ permits' \in Nat /\ PermitsAddUp' /\ PendingWaits'
        /\ ticket' \in [Job -> {"none", "pending", "granted", "cancelled"}]
    <3>1. CASE permits > 0
      <4>1. /\ WakeUp(permits, waiters', ticket) /\ permits \in Nat \ {0}
            /\ ticket[j] # "pending" /\ job[j] \in {"waiting", "running"}
            /\ job' = [job EXCEPT ![j] = "running"]
        BY <3>1, <1>ty
      <4>2. permits + Cardinality(IF "running" = "running" THEN Holders \cup {j}
                                  ELSE Holders \ {j}) = Workers
        BY <2>2, <1>pe
      <4>3. QED BY <4>1, <4>2, <2>1, <1>wk
    <3>2. CASE permits = 0
      <4>1. Holders' = Holders
        BY <3>2, <1>ty DEF Holders, In
      <4>2. PendingWaits'
        BY <3>2, <1>ty DEF PendingWaits
      <4>3. QED BY <3>2, <4>1, <4>2, <1>pe, <1>ty DEF PermitsAddUp
    <3>3. QED BY <3>1, <3>2, <1>ty
  <2>4. active' \in Nat /\ ActiveJobsIsExact'
    BY <1>en
  <2>5. QED
    BY <2>1, <2>3, <2>4, <1>bo, <1>ty DEF TypeOK, PermitsAddUp, Lower
<1>4. ASSUME NEW j \in Job, Transcribed(j) \/ CancelledRunning(j) PROVE PoolInv'
  <2>1. /\ job[j] = "running" /\ Release /\ job' = [job EXCEPT ![j] = "ended"]
        /\ cancelled' \subseteq Job /\ UNCHANGED <<waiters, queued, work>>
    BY <1>4, <1>ty DEF Transcribed, CancelledRunning
  <2>2. QED
    BY <2>1, <1>le, <1>bo, <1>ty DEF TypeOK, PermitsAddUp
<1>5. ASSUME NEW j \in Job, Cancel(j) PROVE PoolInv'
  <2> USE <1>5 DEF Cancel
  <2>1. /\ ticket' \in [Job -> {"none", "pending", "granted", "cancelled"}]
        /\ \A i \in Job : \/ ticket'[i] = ticket[i]
                          \/ ticket[i] = "pending" /\ ticket'[i] = "cancelled"
    <3>1. CASE ticket' = ticket
      BY <3>1, <1>ty
    <3>2. CASE ticket[j] = "pending" /\ ticket' = [ticket EXCEPT ![j] = "cancelled"]
      BY <3>2, <1>ty
    <3>3. QED BY <3>1, <3>2
  <2>w. work' \in [Job -> {"none", "submitted", "executing", "withdrawn", "finished"}]
    BY <1>ty
  <2>2. Holders' = Holders /\ In("running")' = In("running")
    BY <2>1, <1>ty DEF Holders, In
  <2>3. PendingWaits'
    BY <2>1 DEF PendingWaits
  <2>4. QED
    BY <2>1, <2>w, <2>2, <2>3, <1>ty, <1>pe, <1>bo
    DEF TypeOK, PermitsAddUp, ActiveJobsIsExact
<1>6. ASSUME NEW j \in Job, CancelledWaiting(j) PROVE PoolInv'
  <2>1. /\ job[j] = "waiting" /\ j \in cancelled /\ Leaves(j) /\ PassOn(j)
        /\ job' = [job EXCEPT ![j] = "ended"] /\ cancelled' = cancelled \ {j}
        /\ UNCHANGED <<queued, active, work>>
    BY <1>6 DEF CancelledWaiting
  <2>2. waiters' \in Seq(Job)
    BY <2>1, <1>ty, LeavesType
  <2>3. job'[j] = "ended" /\ \A i \in Job \ {j} : job'[i] = job[i]
    BY <2>1, <1>ty
  <2>4. /\ permits' \in Nat /\ PermitsAddUp' /\ PendingWaits'
        /\ ticket' \in [Job -> {"none", "pending", "granted", "cancelled"}]
    <3>1. CASE ticket[j] = "granted"
      <4>1. j \in Holders /\ Holders \ {j} \in SUBSET Job
        BY <2>1, <3>1, <1>hs DEF Holders, In
      <4>2. Cardinality(Holders) = Cardinality(Holders \ {j}) + 1
            /\ Cardinality(Holders \ {j}) \in Nat
        BY <4>1, <1>hs, JobSets
      <4>3. (permits + 1) + Cardinality(IF "ended" = "running" THEN Holders \cup {j}
                                        ELSE Holders \ {j}) = Workers
        BY <4>2, <1>pe, <1>ty
      <4>4. WakeUp(permits + 1, waiters', ticket) /\ permits + 1 \in Nat \ {0}
        BY <2>1, <3>1, <1>ty DEF PassOn
      <4>5. QED BY <2>1, <2>2, <3>1, <4>3, <4>4, <1>wk
    <3>2. CASE ticket[j] # "granted"
      <4>1. permits' = permits /\ ticket' = ticket
        BY <2>1, <3>2 DEF PassOn
      <4>2. Holders' = Holders
        BY <2>1, <2>3, <3>2, <4>1 DEF Holders, In
      <4>3. PendingWaits'
        BY <2>1, <2>3, <4>1 DEF PendingWaits, CancelledIsSettled
      <4>4. QED BY <4>1, <4>2, <4>3, <1>pe, <1>ty DEF PermitsAddUp
    <3>4. QED BY <3>1, <3>2
  <2>5. In("running")' = In("running")
    BY <2>1, <2>3 DEF In
  <2>6. QED
    BY <2>1, <2>2, <2>4, <2>5, <1>bo, <1>pe, <1>ty
    DEF TypeOK, PermitsAddUp, ActiveJobsIsExact
<1>7. ASSUME NEW j \in Job, WorkStarts(j) \/ WorkFinishes(j) PROVE PoolInv'
  <2>1. /\ work' \in [Job -> {"none", "submitted", "executing", "withdrawn", "finished"}]
        /\ UNCHANGED <<permits, waiters, ticket, job, cancelled, queued, active>>
    BY <1>7, <1>ty DEF WorkStarts, WorkFinishes
  <2>2. Holders' = Holders /\ In("running")' = In("running")
    BY <2>1 DEF Holders, In
  <2>3. QED
    BY <2>1, <2>2 DEF TypeOK, PendingWaits, PermitsAddUp, ActiveJobsIsExact
<1>8. CASE UNCHANGED vars
  BY <1>8 DEF vars, TypeOK, PendingWaits, PermitsAddUp, ActiveJobsIsExact,
     Holders, In
<1>9. QED
  BY <1>1, <1>2, <1>3, <1>4, <1>5, <1>6, <1>7, <1>8 DEF Next, Resumed

LEMMA PoolCorrect == Spec => []PoolInv
  BY PoolInit, PoolNext, PTL DEF Spec

\* Every field of the coordinator and of its semaphore keeps its type, and the
\* free permits never exceed configured_workers.
THEOREM PoolTypeCorrect == Spec => []TypeOK
<1>1. PoolInv => TypeOK
  BY DEF PoolInv
<1>2. QED
  BY <1>1, PoolCorrect, PTL

\* However many jobs there are, and at whatever await they are cancelled, the
\* free permits and the jobs that hold one add up to configured_workers.
THEOREM PermitsAlwaysAddUp == Spec => []PermitsAddUp
<1>1. PoolInv => PermitsAddUp
  BY DEF PoolInv
<1>2. QED
  BY <1>1, PoolCorrect, PTL

\* active_jobs is at all times the number of jobs at the recogniser.
THEOREM ActiveJobsAlwaysExact == Spec => []ActiveJobsIsExact
<1>1. PoolInv => ActiveJobsIsExact
  BY DEF PoolInv
<1>2. QED
  BY <1>1, PoolCorrect, PTL

-----------------------------------------------------------------------------
(* The order of the line.                                                  *)

\* Whoever waits for a permit stands in the semaphore's queue.
InLine ==
  \A k \in Job : ticket[k] = "pending" => \E i \in DOMAIN waiters : waiters[i] = k

\* Taking one waiter out keeps the others, in their order.
LEMMA LeavesOrder ==
  ASSUME waiters \in Seq(Job), NEW j \in Job, Leaves(j)
  PROVE  /\ \A k \in Job \ {j} : (\E i \in DOMAIN waiters : waiters[i] = k)
                                 => \E i \in DOMAIN waiters' : waiters'[i] = k
         /\ \A i, l \in DOMAIN waiters' : i < l =>
              Ahead(waiters'[i], waiters'[l])
<1>1. PICK n \in DOMAIN waiters : waiters[n] = j /\ waiters' = RemoveAt(waiters, n)
  BY DEF Leaves
<1>2. /\ DOMAIN waiters = 1..Len(waiters) /\ Len(waiters) \in Nat
      /\ n \in Nat /\ 1 <= n /\ n <= Len(waiters)
  BY LenProperties
<1> DEFINE front == SubSeq(waiters, 1, n - 1)
           back == SubSeq(waiters, n + 1, Len(waiters))
<1>3. /\ front \in Seq(Job) /\ Len(front) = n - 1
      /\ \A i \in 1..(n - 1) : front[i] = waiters[i]
  BY <1>2
<1>4. /\ back \in Seq(Job) /\ Len(back) = Len(waiters) - n
      /\ \A i \in 1..(Len(waiters) - n) : back[i] = waiters[n + i]
  BY <1>2
<1>5. waiters' = front \o back BY <1>1 DEF RemoveAt
<1> HIDE DEF front, back
<1>6. /\ DOMAIN waiters' = 1..(Len(waiters) - 1)
      /\ \A i \in 1..(n - 1) : waiters'[i] = waiters[i]
      /\ \A i \in n..(Len(waiters) - 1) : waiters'[i] = waiters[i + 1]
  <2>1. /\ DOMAIN waiters' = 1..(Len(front) + Len(back))
        /\ \A i \in 1..(Len(front) + Len(back)) :
             waiters'[i] = IF i <= Len(front) THEN front[i] ELSE back[i - Len(front)]
    BY <1>3, <1>4, <1>5
  <2>2. Len(front) + Len(back) = Len(waiters) - 1 BY <1>2, <1>3, <1>4
  <2>3. ASSUME NEW i \in 1..(n - 1) PROVE waiters'[i] = waiters[i]
    <3>1. i \in 1..(Len(front) + Len(back)) /\ i <= Len(front)
      BY <1>2, <1>3, <2>2
    <3> QED BY <3>1, <2>1, <1>3
  <2>4. ASSUME NEW i \in n..(Len(waiters) - 1) PROVE waiters'[i] = waiters[i + 1]
    <3>1. /\ i \in 1..(Len(front) + Len(back)) /\ ~(i <= Len(front))
          /\ i - Len(front) \in 1..(Len(waiters) - n)
          /\ n + (i - Len(front)) = i + 1
      BY <1>2, <1>3, <2>2
    <3> QED BY <3>1, <2>1, <1>4
  <2> QED BY <2>1, <2>2, <2>3, <2>4
<1>7. ASSUME NEW k \in Job \ {j}, NEW i \in DOMAIN waiters, waiters[i] = k
      PROVE  \E l \in DOMAIN waiters' : waiters'[l] = k
  <2>1. i # n BY <1>1, <1>7
  <2>2. CASE i < n
    <3>1. i \in 1..(n - 1) /\ i \in 1..(Len(waiters) - 1) BY <1>2, <2>2
    <3> QED BY <3>1, <1>6, <1>7
  <2>3. CASE i > n
    <3>1. /\ i - 1 \in n..(Len(waiters) - 1) /\ i - 1 \in 1..(Len(waiters) - 1)
          /\ (i - 1) + 1 = i
      BY <1>2, <2>3
    <3> QED BY <3>1, <1>6, <1>7
  <2> QED BY <2>1, <2>2, <2>3, <1>2
\* Where a waiter stood before.
<1> DEFINE old(i) == IF i < n THEN i ELSE i + 1
<1>8. \A i \in DOMAIN waiters' : old(i) \in DOMAIN waiters /\ waiters[old(i)] = waiters'[i]
  BY <1>2, <1>6
<1>9. \A i, l \in DOMAIN waiters' : i < l => old(i) < old(l)
  BY <1>2, <1>6
<1> HIDE DEF old
<1>10. \A i, l \in DOMAIN waiters' : i < l => Ahead(waiters'[i], waiters'[l])
  BY <1>8, <1>9 DEF Ahead
<1> QED BY <1>7, <1>10

\* A permit that is passed on goes to the first in q who still waits.
LEMMA FirstIsServed ==
  ASSUME TypeOK, NEW n \in Nat, NEW q \in Seq(Job), WakeUp(n, q, ticket),
         NEW j \in Job, ticket[j] # "granted", ticket'[j] = "granted",
         NEW k \in Job \ {j}, ticket[k] = "pending",
         \E i \in DOMAIN q : q[i] = k
  PROVE  \E i, l \in DOMAIN q : i < l /\ q[i] = j /\ q[l] = k
<1>1. ticket \in [Job -> {"none", "pending", "granted", "cancelled"}]
  BY DEF TypeOK
<1>2. \A i \in DOMAIN q : q[i] \in Job /\ i \in Nat
  BY ElementOfSeq, LenProperties
<1>3. PICK first \in Pending(q, ticket) :
        /\ \A i \in Pending(q, ticket) : first <= i
        /\ ticket' = [ticket EXCEPT ![q[first]] = "granted"]
  <2>1. ticket' # ticket OBVIOUS
  <2> QED BY <2>1 DEF WakeUp
<1>4. first \in DOMAIN q /\ q[first] = j
  BY <1>1, <1>2, <1>3 DEF Pending
<1>5. PICK l \in DOMAIN q : q[l] = k OBVIOUS
<1>6. l \in Pending(q, ticket) BY <1>5 DEF Pending
<1>7. first <= l /\ first # l BY <1>3, <1>4, <1>5, <1>6
<1>8. first < l BY <1>2, <1>4, <1>5, <1>7
<1> QED BY <1>4, <1>5, <1>8

\* What changes of the line in a step.
LEMMA TicketsPass ==
  ASSUME TypeOK, NEW n \in Nat, NEW q \in Seq(Job), WakeUp(n, q, ticket)
  PROVE  \A k \in Job : ticket'[k] = ticket[k] \/ ticket'[k] = "granted"
<1>1. ticket \in [Job -> {"none", "pending", "granted", "cancelled"}]
  BY DEF TypeOK
<1> QED BY <1>1, WakeUpMoves

\* Job j takes its future out of the queue, and a permit is passed on or not.
LEMMA OneLeaves ==
  ASSUME TypeOK, InLine, NEW j \in Job, Leaves(j), ticket[j] # "pending",
         NEW n \in Nat, WakeUp(n, waiters', ticket) \/ ticket' = ticket
  PROVE  /\ InLine'
         /\ \A i \in Job, k \in Job :
              (ticket[i] # "granted" /\ ticket'[i] = "granted"
               /\ k # i /\ ticket[k] = "pending") => Ahead(i, k)
<1>1. waiters \in Seq(Job) /\ waiters' \in Seq(Job) BY LeavesType DEF TypeOK
<1>2. \A k \in Job : ticket'[k] = ticket[k] \/ ticket'[k] = "granted"
  BY <1>1, TicketsPass
<1>3. \A k \in Job : ticket[k] = "pending" => \E i \in DOMAIN waiters' : waiters'[i] = k
  BY <1>1, LeavesOrder DEF InLine
<1>4. InLine' BY <1>2, <1>3 DEF InLine
<1>5. ASSUME NEW i \in Job, NEW k \in Job, ticket[i] # "granted",
             ticket'[i] = "granted", k # i, ticket[k] = "pending"
      PROVE  Ahead(i, k)
  <2>1. WakeUp(n, waiters', ticket) BY <1>5
  <2>2. k \in Job \ {i} /\ \E l \in DOMAIN waiters' : waiters'[l] = k
    BY <1>3, <1>5
  <2>3. \E a, l \in DOMAIN waiters' : a < l /\ waiters'[a] = i /\ waiters'[l] = k
    BY <1>1, <1>5, <2>1, <2>2, FirstIsServed
  <2> QED BY <1>1, <2>3, LeavesOrder
<1> QED BY <1>4, <1>5

\* The line is kept, and who gets a permit was first in it.
LEMMA LineIsKept ==
  ASSUME PoolInv, InLine, [Next]_vars
  PROVE  /\ InLine'
         /\ \A j \in Holders' \ Holders, k \in Job :
              k # j /\ ticket[k] = "pending" /\ ticket'[k] = "pending" => Ahead(j, k)
<1> DEFINE Fair == \A j \in Holders' \ Holders, k \in Job :
              k # j /\ ticket[k] = "pending" /\ ticket'[k] = "pending" => Ahead(j, k)
<1>ty. /\ TypeOK /\ permits \in Nat /\ waiters \in Seq(Job) /\ cancelled \subseteq Job
       /\ ticket \in [Job -> {"none", "pending", "granted", "cancelled"}]
       /\ job \in [Job -> {"new", "waiting", "running", "ended"}]
  BY PoolAssumption DEF PoolInv, TypeOK
<1>1. ASSUME NEW j \in Job, TranscribeAtOnce(j) PROVE InLine' /\ Fair
  <2>1. UNCHANGED <<waiters, ticket>> /\ ~Locked BY <1>1 DEF TranscribeAtOnce
  <2>2. \A k \in Job : ticket[k] # "pending" BY <2>1 DEF Locked, InLine
  <2> QED BY <2>1, <2>2 DEF InLine
<1>2. ASSUME NEW j \in Job, TranscribeQueued(j) PROVE InLine' /\ Fair
  <2>1. /\ waiters' = Append(waiters, j) /\ job[j] = "new"
        /\ ticket' = [ticket EXCEPT ![j] = "pending"]
        /\ job' = [job EXCEPT ![j] = "waiting"]
    BY <1>2 DEF TranscribeQueued
  <2>2. Holders' = Holders BY <2>1, <1>ty DEF Holders, In
  <2>3. /\ \A i \in DOMAIN waiters : i \in DOMAIN waiters' /\ waiters'[i] = waiters[i]
        /\ Len(waiters) + 1 \in DOMAIN waiters' /\ waiters'[Len(waiters) + 1] = j
    BY <2>1, <1>ty
  <2>4. \A k \in Job \ {j} : ticket'[k] = ticket[k] BY <2>1, <1>ty
  <2>5. ASSUME NEW k \in Job, ticket'[k] = "pending"
        PROVE  \E i \in DOMAIN waiters' : waiters'[i] = k
    <3>1. CASE k = j BY <3>1, <2>3
    <3>2. CASE k # j
      <4>1. PICK i \in DOMAIN waiters : waiters[i] = k
        BY <3>2, <2>4, <2>5 DEF InLine
      <4> QED BY <4>1, <2>3
    <3> QED BY <3>1, <3>2
  <2> QED BY <2>2, <2>5 DEF InLine
<1>3. ASSUME NEW j \in Job, Admitted(j) PROVE InLine' /\ Fair
  <2>1. /\ Leaves(j) /\ job[j] = "waiting" /\ ticket[j] = "granted"
        /\ WakeUp(permits, waiters', ticket) \/ ticket' = ticket
        /\ job' = [job EXCEPT ![j] = "running"]
    BY <1>3 DEF Admitted
  <2>2. /\ InLine'
        /\ \A i \in Job, k \in Job :
              (ticket[i] # "granted" /\ ticket'[i] = "granted"
               /\ k # i /\ ticket[k] = "pending") => Ahead(i, k)
    BY <2>1, <1>ty, OneLeaves
  <2>3. \A i \in Holders' \ Holders : /\ i \in Job
                                      /\ ticket[i] # "granted" /\ ticket'[i] = "granted"
    BY <2>1, <1>ty DEF Holders, In
  <2> QED BY <2>2, <2>3
<1>4. ASSUME NEW j \in Job, Transcribed(j) \/ CancelledRunning(j) PROVE InLine' /\ Fair
  <2>1. /\ WakeUp(permits + 1, waiters, ticket) /\ waiters' = waiters
        /\ job[j] = "running" /\ job' = [job EXCEPT ![j] = "ended"]
    BY <1>4 DEF Transcribed, CancelledRunning, Release
  <2>2. permits + 1 \in Nat BY <1>ty
  <2>3. \A k \in Job : ticket'[k] = ticket[k] \/ ticket'[k] = "granted"
    BY <2>1, <2>2, <1>ty, TicketsPass
  <2>4. InLine' BY <2>1, <2>3 DEF InLine
  <2>5. \A i \in Holders' \ Holders : /\ i \in Job
                                      /\ ticket[i] # "granted" /\ ticket'[i] = "granted"
    BY <2>1, <1>ty DEF Holders, In
  <2>6. ASSUME NEW i \in Holders' \ Holders, NEW k \in Job, k # i, ticket[k] = "pending"
        PROVE  Ahead(i, k)
    <3>1. k \in Job \ {i} /\ \E l \in DOMAIN waiters : waiters[l] = k
      BY <2>6 DEF InLine
    <3>2. \E a, l \in DOMAIN waiters : a < l /\ waiters[a] = i /\ waiters[l] = k
      BY <1>ty, <2>1, <2>2, <2>5, <2>6, <3>1, FirstIsServed
    <3> QED BY <3>2 DEF Ahead
  <2> QED BY <2>4, <2>6
<1>5. ASSUME NEW j \in Job, CancelledWaiting(j) PROVE InLine' /\ Fair
  <2>1. /\ Leaves(j) /\ job[j] = "waiting" /\ j \in cancelled
        /\ WakeUp(permits + 1, waiters', ticket) \/ ticket' = ticket
        /\ job' = [job EXCEPT ![j] = "ended"]
    BY <1>5 DEF CancelledWaiting, PassOn
  <2>2. ticket[j] # "pending" /\ permits + 1 \in Nat
    BY <2>1, <1>ty DEF PoolInv, CancelledIsSettled
  <2>3. /\ InLine'
        /\ \A i \in Job, k \in Job :
              (ticket[i] # "granted" /\ ticket'[i] = "granted"
               /\ k # i /\ ticket[k] = "pending") => Ahead(i, k)
    BY <2>1, <2>2, <1>ty, OneLeaves
  <2>4. \A i \in Holders' \ Holders : /\ i \in Job
                                      /\ ticket[i] # "granted" /\ ticket'[i] = "granted"
    BY <2>1, <1>ty DEF Holders, In
  <2> QED BY <2>3, <2>4
<1>6. ASSUME NEW j \in Job, Cancel(j) PROVE InLine' /\ Fair
  <2>1. /\ waiters' = waiters /\ job' = job
        /\ \/ ticket' = ticket
           \/ ticket[j] = "pending" /\ ticket' = [ticket EXCEPT ![j] = "cancelled"]
    BY <1>6 DEF Cancel
  <2>2. \A k \in Job : \/ ticket'[k] = ticket[k]
                       \/ ticket[k] = "pending" /\ ticket'[k] = "cancelled"
    BY <2>1, <1>ty
  <2>3. Holders' = Holders BY <2>1, <2>2 DEF Holders, In
  <2> QED BY <2>1, <2>2, <2>3 DEF InLine
<1>7. ASSUME UNCHANGED vars \/ \E j \in Job : WorkStarts(j) \/ WorkFinishes(j)
      PROVE  InLine' /\ Fair
  <2>1. UNCHANGED <<waiters, ticket, job>> BY <1>7 DEF vars, WorkStarts, WorkFinishes
  <2>2. Holders' = Holders BY <2>1 DEF Holders, In
  <2> QED BY <2>1, <2>2 DEF InLine
<1> HIDE DEF Fair
<1>8. ASSUME Next PROVE InLine' /\ Fair
  <2>1. PICK j \in Job :
          \/ TranscribeAtOnce(j) \/ TranscribeQueued(j) \/ Cancel(j)
          \/ Resumed(j) \/ WorkStarts(j) \/ WorkFinishes(j)
    BY <1>8 DEF Next
  <2>2. CASE Resumed(j)
    BY <2>2, <1>3, <1>4, <1>5 DEF Resumed
  <2> QED BY <2>1, <2>2, <1>1, <1>2, <1>6, <1>7
<1>9. InLine' /\ Fair BY <1>7, <1>8
<1> QED BY <1>9 DEF Fair

\* Jobs get their permits in the order in which they came to the semaphore
\* (transcription.py, `async with self._semaphore`), for any number of jobs and
\* permits, and at whatever await jobs before or behind them are cancelled.
THEOREM OrderIsKept == Spec => FirstComeFirstServed
<1>1. Init => InLine BY DEF Init, InLine
<1>2. PoolInv /\ InLine /\ [Next]_vars => InLine'
  BY LineIsKept
<1>3. PoolInv /\ InLine /\ [Next]_vars =>
        [\A j \in Holders' \ Holders, k \in Job :
           k # j /\ ticket[k] = "pending" /\ ticket'[k] = "pending" => Ahead(j, k)]_vars
  BY LineIsKept
<1> QED BY <1>1, <1>2, <1>3, PoolCorrect, PTL DEF Spec, FirstComeFirstServed
=============================================================================
