---------------------------- MODULE EnginesProofs ----------------------------
(***************************************************************************)
(* For any finite set of sessions and any number of threads and            *)
(* transcriptions at a time: no load lock is left behind, no model is used *)
(* before it is in place or put there twice, and every job is awaited by   *)
(* the turn it was started for, and by no other.                           *)
(***************************************************************************)
EXTENDS Engines, FiniteSetTheorems, SequenceTheorems, TLAPS

\* A step belongs to the stage it is taken in; only an engine that is
\* installed is waited for.
Inside == Step \ {"ask", "poll"}
StepsFit ==
  \A s \in Session :
    /\ step[s] = "poll" => at[s] = "llm"
    /\ step[s] \in Inside => at[s] \in Engine /\ model[at[s]] # "missing"
    /\ step[s] = "running" => model[at[s]] = "there"

\* Nobody is twice in a line or waits outside it, nobody loads without standing
\* first in it, and Moonshine has no line.
Loads(s) == step[s] \in {"loading", "loaded"}
OncePerLine ==
  \A e \in Engine : \A i, k \in DOMAIN lock[e] : lock[e][i] = lock[e][k] => i = k
LoadersLead ==
  \A s \in Session : at[s] \in Locked /\ Loads(s) =>
    lock[at[s]] # <<>> /\ lock[at[s]][1] = s
WaitersStand ==
  \A s \in Session : step[s] = "lock" =>
    at[s] \in Locked /\ \E i \in DOMAIN lock[at[s]] : lock[at[s]][i] = s
NoSttLine == lock["stt"] = <<>>

\* A locked engine whose model is there is loaded by nobody, one whose model is
\* not there has none.
LockedCopies ==
  /\ \A e \in Locked : copies[e] = IF model[e] = "there" THEN 1 ELSE 0
  /\ \A s \in Session : at[s] \in Locked /\ Loads(s) => model[at[s]] # "there"

\* Moonshine's models are those put in place and those on the way.
InStt == {s \in Session : at[s] = "stt"}
SttLoaders == {s \in InStt : Loads(s)}
SttCopies ==
  /\ Cardinality(InStt) <= Workers
  /\ model["stt"] # "there" => copies["stt"] = 0
  /\ copies["stt"] + Cardinality(SttLoaders) <= Workers

\* An answer that is in is the answer to this turn.
AnswersFit == \A s \in Session : step[s] = "ran" => answer[s] = turn[s]

EnginesInv ==
  /\ TypeOK /\ StepsFit /\ LocksHaveHolders /\ OncePerLine /\ LoadersLead
  /\ WaitersStand /\ NoSttLine /\ LockedCopies /\ SttCopies
  /\ AnswersCome /\ AnswersFit /\ OwnDecision

-----------------------------------------------------------------------------
(* Lines.                                                                  *)

\* A sequence without its p-th element.
LEMMA RemoveAtIs ==
  \A S : \A q \in Seq(S) : \A p \in 1..Len(q) :
    /\ RemoveAt(q, p) \in Seq(S) /\ Len(RemoveAt(q, p)) = Len(q) - 1
    /\ \A i \in 1..(Len(q) - 1) : RemoveAt(q, p)[i] = IF i < p THEN q[i] ELSE q[i + 1]
<1> SUFFICES ASSUME NEW S, NEW q \in Seq(S), NEW n \in Nat, NEW p \in Nat,
                    n = Len(q), 1 <= p, p <= n
             PROVE  /\ RemoveAt(q, p) \in Seq(S) /\ Len(RemoveAt(q, p)) = n - 1
                    /\ \A i \in 1..(n - 1) :
                         RemoveAt(q, p)[i] = IF i < p THEN q[i] ELSE q[i + 1]
  BY LenProperties
<1>1. \A k \in 1..n : q[k] \in S
  BY ElementOfSeq
<1> DEFINE before == SubSeq(q, 1, p - 1)
           after  == SubSeq(q, p + 1, n)
           r      == before \o after
<1>2. before \in Seq(S) /\ Len(before) = p - 1 /\ \A i \in 1..(p - 1) : before[i] = q[i]
  <2>1. /\ 1 \in Nat /\ p - 1 \in Nat /\ 1 <= (p - 1) + 1
        /\ \A i \in 1..(p - 1) : q[i] \in S /\ 1 + i - 1 = i
    BY <1>1
  <2>2. QED BY <2>1, SubSeqProperties
<1>3. after \in Seq(S) /\ Len(after) = n - p /\ \A i \in 1..(n - p) : after[i] = q[p + i]
  <2>1. /\ p + 1 \in Nat /\ p + 1 <= n + 1 /\ (n - (p + 1)) + 1 = n - p
        /\ \A i \in (p + 1)..n : q[i] \in S
    BY <1>1
  <2>2. \A i \in 1..(n - p) : ((p + 1) + i) - 1 = p + i
    OBVIOUS
  <2>3. QED BY <2>1, <2>2, SubSeqProperties
<1>4. r = RemoveAt(q, p)
  BY DEF RemoveAt
<1> HIDE DEF before, after
<1>5. /\ r \in Seq(S) /\ Len(r) = Len(before) + Len(after)
      /\ \A i \in 1..(Len(before) + Len(after)) :
           r[i] = IF i <= Len(before) THEN before[i] ELSE after[i - Len(before)]
  BY <1>2, <1>3, ConcatProperties
<1> HIDE DEF r
<1>6. Len(r) = n - 1
  BY <1>2, <1>3, <1>5
<1>7. ASSUME NEW i \in 1..(n - 1)
      PROVE  r[i] = IF i < p THEN q[i] ELSE q[i + 1]
  <2>1. r[i] = IF i <= p - 1 THEN before[i] ELSE after[i - (p - 1)]
    <3>1. Len(before) + Len(after) = n - 1
      BY <1>2, <1>3
    <3>2. QED BY <1>2, <1>5, <3>1
  <2>2. CASE i < p
    <3>1. i <= p - 1 /\ i \in 1..(p - 1)
      BY <2>2
    <3>2. QED BY <1>2, <2>1, <2>2, <3>1
  <2>3. CASE ~(i < p)
    <3>1. ~(i <= p - 1) /\ i - (p - 1) \in 1..(n - p) /\ p + (i - (p - 1)) = i + 1
      BY <2>3
    <3>2. QED BY <1>3, <2>1, <2>3, <3>1
  <2>4. QED BY <2>2, <2>3
<1>8. QED BY <1>4, <1>5, <1>6, <1>7

\* Who leaves a line lets the others in it keep their order: each is where it
\* was or one place further.
LEMMA WithoutOne ==
  ASSUME NEW S, NEW q \in Seq(S), NEW P \in SUBSET DOMAIN q, NEW r,
         \A i, k \in P : i = k, r = Without(q, P)
  PROVE  /\ r \in Seq(S)
         /\ \A i \in DOMAIN r : \E k \in DOMAIN q : k \notin P /\ i <= k /\ r[i] = q[k]
         /\ \A k \in DOMAIN q : k \notin P => \E i \in DOMAIN r : r[i] = q[k]
         /\ \A i, j \in DOMAIN r : i # j =>
              \E k, l \in DOMAIN q : k # l /\ r[i] = q[k] /\ r[j] = q[l]
         /\ q # <<>> /\ 1 \notin P => r # <<>> /\ r[1] = q[1]
<1>1. PICK n \in Nat : n = Len(q) /\ DOMAIN q = 1..n
  BY LenProperties
<1>2. q # <<>> => 1 \in DOMAIN q
  BY <1>1, EmptySeq
<1>3. CASE P = {}
  <2>1. r = q
    BY <1>3 DEF Without
  <2>2. QED BY <1>1, <1>2, <1>3, <2>1
<1>4. CASE P # {}
  <2>1. PICK p \in P : r = RemoveAt(q, p)
    BY <1>4 DEF Without
  <2>2. P = {p} /\ p \in Nat /\ 1 <= p /\ p <= n
    BY <1>1, <2>1
  <2>3. /\ r \in Seq(S) /\ DOMAIN r = 1..(n - 1)
        /\ \A i \in 1..(n - 1) : r[i] = IF i < p THEN q[i] ELSE q[i + 1]
    <3>1. /\ r \in Seq(S) /\ Len(r) = n - 1
          /\ \A i \in 1..(n - 1) : r[i] = IF i < p THEN q[i] ELSE q[i + 1]
      <4>1. q \in Seq(S) /\ n = Len(q) /\ p \in 1..Len(q)
        BY <1>1, <2>2
      <4>2. /\ RemoveAt(q, p) \in Seq(S) /\ Len(RemoveAt(q, p)) = n - 1
            /\ \A i \in 1..(n - 1) : RemoveAt(q, p)[i] = IF i < p THEN q[i] ELSE q[i + 1]
        BY <4>1, RemoveAtIs
      <4>3. QED BY <2>1, <4>2
    <3>2. QED BY <3>1, LenProperties
  <2> DEFINE was(i) == IF i < p THEN i ELSE i + 1
  <2>4. ASSUME NEW i \in DOMAIN r
        PROVE  was(i) \in DOMAIN q /\ was(i) \notin P /\ i <= was(i) /\ r[i] = q[was(i)]
    <3>1. i \in 1..(n - 1)
      BY <2>3
    <3>2. was(i) \in 1..n /\ was(i) # p /\ i <= was(i)
      BY <2>2, <3>1
    <3>3. QED BY <1>1, <2>2, <2>3, <3>1, <3>2
  <2>5. ASSUME NEW i \in DOMAIN r, NEW j \in DOMAIN r, i # j
        PROVE  was(i) # was(j)
    BY <2>2, <2>3, <2>5
  <2>6. ASSUME NEW k \in DOMAIN q, k \notin P
        PROVE  \E i \in DOMAIN r : r[i] = q[k]
    <3>1. k \in 1..n /\ k # p
      BY <1>1, <2>2, <2>6
    <3>2. CASE k < p
      <4>1. k \in 1..(n - 1)
        BY <2>2, <3>1, <3>2
      <4>2. QED BY <2>3, <3>2, <4>1
    <3>3. CASE k > p
      <4>1. k - 1 \in 1..(n - 1) /\ ~(k - 1 < p) /\ (k - 1) + 1 = k
        BY <2>2, <3>1, <3>3
      <4>2. r[k - 1] = q[k]
        BY <2>3, <4>1
      <4>3. QED BY <2>3, <4>1, <4>2
    <3>4. k < p \/ k > p
      BY <2>2, <3>1
    <3>5. QED BY <3>2, <3>3, <3>4
  <2>7. ASSUME q # <<>>, 1 \notin P
        PROVE  r # <<>> /\ r[1] = q[1]
    <3>1. 1 \in 1..(n - 1) /\ 1 < p
      BY <2>2, <2>7
    <3>2. QED BY <2>3, <3>1
  <2> HIDE DEF was
  <2>8. QED BY <2>3, <2>4, <2>5, <2>6, <2>7
<1>5. QED BY <1>3, <1>4

LEMMA LeavesLine ==
  ASSUME NEW q \in Seq(Session), NEW s, NEW r, r = LeftLine(q, s),
         \A i, k \in DOMAIN q : q[i] = q[k] => i = k
  PROVE  /\ r \in Seq(Session)
         /\ \A i, k \in DOMAIN r : r[i] = r[k] => i = k
         /\ \A i \in DOMAIN r : r[i] # s /\ \E k \in DOMAIN q : i <= k /\ r[i] = q[k]
         /\ \A k \in DOMAIN q : q[k] # s => \E i \in DOMAIN r : r[i] = q[k]
         /\ q # <<>> /\ q[1] # s => r # <<>> /\ r[1] = q[1]
         /\ q = <<>> => r = <<>>
<1> DEFINE P == {i \in DOMAIN q : q[i] = s}
<1>1. P \in SUBSET DOMAIN q /\ (\A i, k \in P : i = k) /\ r = Without(q, P)
  BY DEF LeftLine
<1>2. \A k \in DOMAIN q : k \in P <=> q[k] = s
  OBVIOUS
<1>3. q # <<>> => 1 \in DOMAIN q
  BY LenProperties, EmptySeq
<1>4. q = <<>> => P = {}
  OBVIOUS
<1>5. P = {} => r = q
  BY <1>1 DEF Without
<1> HIDE DEF P
<1>6. /\ r \in Seq(Session)
      /\ \A i \in DOMAIN r : \E k \in DOMAIN q : k \notin P /\ i <= k /\ r[i] = q[k]
      /\ \A k \in DOMAIN q : k \notin P => \E i \in DOMAIN r : r[i] = q[k]
      /\ \A i, j \in DOMAIN r : i # j =>
           \E k, l \in DOMAIN q : k # l /\ r[i] = q[k] /\ r[j] = q[l]
      /\ q # <<>> /\ 1 \notin P => r # <<>> /\ r[1] = q[1]
  BY <1>1, WithoutOne
<1>7. QED BY <1>2, <1>3, <1>4, <1>5, <1>6

-----------------------------------------------------------------------------
(* Jobs.                                                                   *)

Jobbed(s) == \E j \in Jobs : j.by = s
DoneBy(s) == IF step[s] = "loading" THEN "load" ELSE "run"

\* What the jobs in the queue and in the threads are.
LEMMA JobTypes ==
  ASSUME TypeOK
  PROVE  /\ Jobs \in SUBSET Work /\ \A j \in Jobs : j.by \in Session
         /\ \A j \in Jobs : j \in running \/ \E i \in DOMAIN queue : queue[i] = j
         /\ \A i \in DOMAIN queue : queue[i] \in Jobs
<1>1. running \in SUBSET Work /\ \A i \in DOMAIN queue : queue[i] \in Work
  BY ElementOfSeq, LenProperties DEF TypeOK
<1>2. Jobs \in SUBSET Work
  BY <1>1 DEF Jobs
<1>3. \A j \in Work : j.by \in Session
  BY DEF Work
<1>4. QED BY <1>2, <1>3 DEF Jobs

\* The jobs stay those that are awaited when whoever awaits one does nothing.
LEMMA JobsStay ==
  ASSUME EnginesInv, queue' = queue, running' = running,
         \A s \in Session : step[s] \in Awaiting =>
           step'[s] = step[s] /\ at'[s] = at[s] /\ turn'[s] = turn[s],
         \A s \in Session : step'[s] \in Awaiting => step[s] \in Awaiting
  PROVE  AnswersCome'
<1>1. Jobs' = Jobs /\ OneJob'
  BY DEF Jobs, OneJob, EnginesInv, AnswersCome
<1>2. \A j \in Jobs : j.by \in Session
  BY JobTypes DEF EnginesInv
<1>3. JobsAreAwaited'
  <2> SUFFICES ASSUME NEW j \in Jobs
               PROVE  /\ step'[j.by] \in Awaiting
                      /\ j = [engine |-> at'[j.by], by |-> j.by, turn |-> turn'[j.by],
                              do |-> IF step'[j.by] = "loading" THEN "load" ELSE "run"]
    BY <1>1 DEF JobsAreAwaited, Job
  <2>1. step[j.by] \in Awaiting /\ j = Job(j.by, DoneBy(j.by))
    BY DEF EnginesInv, AnswersCome, JobsAreAwaited, DoneBy
  <2>2. step'[j.by] = step[j.by] /\ at'[j.by] = at[j.by] /\ turn'[j.by] = turn[j.by]
    BY <1>2, <2>1
  <2>3. QED BY <2>1, <2>2 DEF Job, DoneBy
<1>4. QED
  BY <1>1, <1>3 DEF EnginesInv, AnswersCome

\* Who starts a job had none, and awaits this one.
LEMMA JobsSubmit ==
  ASSUME EnginesInv, NEW s \in Session, NEW do, NEW what, step[s] \notin Awaiting,
         at[s] \in Engine, <<do, what>> \in {<<"load", "loading">>, <<"run", "running">>},
         Submit(s, do), Does(s, what)
  PROVE  /\ AnswersCome' /\ queue' \in Seq(Work) /\ running' \in SUBSET Work /\ lost' = lost
<1> DEFINE j == Job(s, do)
<1>1. /\ j \in Work /\ j.by = s
      /\ j = [engine |-> at[s], by |-> s, turn |-> turn[s], do |-> do]
  BY DEF EnginesInv, TypeOK, Job, Work
<1>2. /\ step'[s] = what /\ at' = at /\ turn' = turn
      /\ \A r \in Session : r # s => step'[r] = step[r]
  BY DEF Does, EnginesInv, TypeOK
<1>3. do = IF step'[s] = "loading" THEN "load" ELSE "run"
  BY <1>2
<1>4. what \in Awaiting
  BY DEF Awaiting
<1>5. \A k \in Jobs : k.by \in Session /\ k.by # s /\ step[k.by] \in Awaiting
                      /\ k = Job(k.by, DoneBy(k.by))
  BY JobTypes DEF EnginesInv, AnswersCome, JobsAreAwaited, DoneBy
<1>6. \/ running' = running \cup {j} /\ queue' = queue
      \/ queue' = Append(queue, j) /\ running' = running
  BY DEF Submit
<1> HIDE DEF j
<1>7. /\ queue' \in Seq(Work) /\ running' \in SUBSET Work /\ lost' = lost
      /\ Jobs' = Jobs \cup {j} /\ OneJob'
  <2>1. /\ queue \in Seq(Work) /\ running \in SUBSET Work /\ lost' = lost
        /\ OneJob /\ \A i \in DOMAIN queue : queue[i] \in Jobs
    BY JobTypes DEF EnginesInv, TypeOK, Submit, AnswersCome
  <2>2. running \subseteq Jobs
    BY DEF Jobs
  <2>3. CASE running' = running \cup {j} /\ queue' = queue
    BY <1>1, <1>5, <2>1, <2>3 DEF Jobs, OneJob
  <2>4. CASE queue' = Append(queue, j) /\ running' = running
    <3>1. /\ queue' \in Seq(Work) /\ Len(queue') = Len(queue) + 1
          /\ queue'[Len(queue) + 1] = j
          /\ \A i \in 1..Len(queue) : queue'[i] = queue[i]
      BY <1>1, <2>1, <2>4, AppendProperties
    <3>2. DOMAIN queue = 1..Len(queue) /\ DOMAIN queue' = 1..(Len(queue) + 1)
          /\ Len(queue) \in Nat
      BY <2>1, <3>1, LenProperties
    <3>3. Jobs' = Jobs \cup {j}
      BY <2>4, <3>1, <3>2 DEF Jobs
    <3>4. \A i \in DOMAIN queue' :
            \/ i \in DOMAIN queue /\ queue'[i] = queue[i]
            \/ i = Len(queue) + 1 /\ queue'[i] = j
      BY <3>1, <3>2
    <3>5. OneJob'
      BY <1>1, <1>5, <2>1, <2>2, <2>4, <3>4 DEF OneJob
    <3>6. QED BY <2>1, <2>4, <3>1, <3>3, <3>5
  <2>5. QED BY <1>6, <2>3, <2>4
<1>8. JobsAreAwaited'
  <2> SUFFICES ASSUME NEW k \in Jobs'
               PROVE  /\ step'[k.by] \in Awaiting
                      /\ k = [engine |-> at'[k.by], by |-> k.by, turn |-> turn'[k.by],
                              do |-> IF step'[k.by] = "loading" THEN "load" ELSE "run"]
    BY DEF JobsAreAwaited, Job
  <2>1. CASE k = j
    BY <1>1, <1>2, <1>3, <1>4, <2>1
  <2>2. CASE k \in Jobs
    BY <1>2, <1>5, <2>2 DEF Job, DoneBy
  <2>3. QED BY <1>7, <2>1, <2>2
<1>9. \A r \in Session : step'[r] \in Awaiting => \E k \in Jobs' : k.by = r
  BY <1>1, <1>2, <1>7 DEF EnginesInv, AnswersCome
<1>10. QED
  BY <1>7, <1>8, <1>9 DEF AnswersCome

\* Cancelling takes the job of s out of the queue and makes it a stranger's in
\* its thread; all others stay.
LEMMA JobsUnheard ==
  ASSUME EnginesInv, NEW s \in Session, Unheard(s),
         step'[s] \notin Awaiting, UNCHANGED turn,
         \A r \in Session \ {s} : step'[r] = step[r] /\ at'[r] = at[r]
  PROVE  /\ AnswersCome' /\ queue' \in Seq(Work) /\ running' \in SUBSET Work
         /\ lost' \in [Kind -> Nat]
<1>1. /\ TypeOK /\ OneJob /\ JobsAreAwaited
      /\ queue \in Seq(Work) /\ running \in SUBSET Work /\ lost \in [Kind -> Nat]
  BY DEF EnginesInv, AnswersCome, TypeOK
<1> DEFINE P == {i \in DOMAIN queue : queue[i].by = s}
<1>2. /\ P \in SUBSET DOMAIN queue /\ (\A i, k \in P : i = k) /\ queue' = Without(queue, P)
      /\ \A i \in DOMAIN queue : i \in P <=> queue[i].by = s
  BY <1>1 DEF Unheard, Cancelled, OneJob
<1> HIDE DEF P
<1>3. /\ queue' \in Seq(Work)
      /\ \A i \in DOMAIN queue' : \E k \in DOMAIN queue : k \notin P /\ i <= k /\ queue'[i] = queue[k]
      /\ \A k \in DOMAIN queue : k \notin P => \E i \in DOMAIN queue' : queue'[i] = queue[k]
      /\ \A i, j \in DOMAIN queue' : i # j =>
           \E k, l \in DOMAIN queue : k # l /\ queue'[i] = queue[k] /\ queue'[j] = queue[l]
  BY <1>1, <1>2, WithoutOne
<1>4. running' = {j \in running : j.by # s} /\ lost' \in [Kind -> Nat]
  BY <1>1 DEF Unheard
<1>5. Jobs' = {j \in Jobs : j.by # s}
  <2>1. \A j \in Jobs' : j \in Jobs /\ j.by # s
    <3> SUFFICES ASSUME NEW j \in Jobs' PROVE j \in Jobs /\ j.by # s
      OBVIOUS
    <3>1. CASE j \in running'
      BY <1>4, <3>1 DEF Jobs
    <3>2. CASE \E i \in DOMAIN queue' : j = queue'[i]
      BY <1>2, <1>3, <3>2 DEF Jobs
    <3>3. QED BY <3>1, <3>2 DEF Jobs
  <2>2. ASSUME NEW j \in Jobs, j.by # s
        PROVE  j \in Jobs'
    <3>1. CASE j \in running
      BY <1>4, <2>2, <3>1 DEF Jobs
    <3>2. CASE \E i \in DOMAIN queue : j = queue[i]
      <4>1. \E i \in DOMAIN queue' : queue'[i] = j
        BY <1>2, <1>3, <2>2, <3>2
      <4>2. QED BY <4>1 DEF Jobs
    <3>3. QED BY <3>1, <3>2 DEF Jobs
  <2>3. QED BY <2>1, <2>2
<1>6. OneJob'
  <2> SUFFICES ASSUME NEW i \in DOMAIN queue'
               PROVE  /\ \A k \in DOMAIN queue' : queue'[i].by = queue'[k].by => i = k
                      /\ \A j \in running' : queue'[i].by # j.by
    BY DEF OneJob
  <2>1. OneJob
    BY <1>1
  <2>2. ASSUME NEW k \in DOMAIN queue', queue'[i].by = queue'[k].by, i # k PROVE FALSE
    <3>1. PICK a, b \in DOMAIN queue : a # b /\ queue'[i] = queue[a] /\ queue'[k] = queue[b]
      BY <1>3, <2>2
    <3>2. queue[a].by = queue[b].by
      BY <2>2, <3>1
    <3>3. QED BY <2>1, <3>1, <3>2 DEF OneJob
  <2>3. ASSUME NEW j \in running' PROVE queue'[i].by # j.by
    <3>1. PICK a \in DOMAIN queue : queue'[i] = queue[a]
      BY <1>3
    <3>2. j \in running
      BY <1>4, <2>3
    <3>3. QED BY <2>1, <3>1, <3>2 DEF OneJob
  <2>4. QED BY <2>2, <2>3
<1>7. JobsAreAwaited'
  <2> SUFFICES ASSUME NEW k \in Jobs'
               PROVE  /\ step'[k.by] \in Awaiting
                      /\ k = [engine |-> at'[k.by], by |-> k.by, turn |-> turn'[k.by],
                              do |-> IF step'[k.by] = "loading" THEN "load" ELSE "run"]
    BY DEF JobsAreAwaited, Job
  <2>1. k \in Jobs /\ k.by # s /\ k.by \in Session
    BY <1>1, <1>5, JobTypes
  <2>2. step[k.by] \in Awaiting /\ k = Job(k.by, DoneBy(k.by))
    BY <1>1, <2>1 DEF JobsAreAwaited, DoneBy
  <2>3. QED BY <2>1, <2>2 DEF Job, DoneBy
<1>8. \A r \in Session : step'[r] \in Awaiting => \E k \in Jobs' : k.by = r
  BY <1>5 DEF EnginesInv, AnswersCome
<1>9. QED
  BY <1>1, <1>3, <1>4, <1>6, <1>7, <1>8 DEF AnswersCome

\* The thread that is free takes the first of the queue.
LEMMA JobsStart ==
  ASSUME EnginesInv, TakesNext, NEW R \in SUBSET running, running' = R \cup Started
  PROVE  /\ queue' \in Seq(Work) /\ running' \in SUBSET Work /\ OneJob'
         /\ Jobs' = Jobs \ (running \ R)
<1>1. /\ TypeOK /\ OneJob /\ JobsAreAwaited /\ queue \in Seq(Work) /\ running \in SUBSET Work
  BY DEF EnginesInv, AnswersCome, TypeOK
<1>2. CASE queue = <<>>
  <2>1. queue' = queue /\ running' = R
    BY <1>2 DEF TakesNext, Started
  <2>2. DOMAIN queue = {}
    BY <1>2
  <2>3. QED BY <1>1, <2>1, <2>2 DEF OneJob, Jobs
<1>3. CASE queue # <<>>
  <2>1. queue' = Tail(queue) /\ running' = R \cup {queue[1]}
    BY <1>1, <1>3, HeadTailProperties DEF TakesNext, Started
  <2>2. PICK n \in Nat : n = Len(queue) /\ DOMAIN queue = 1..n /\ 1 \in DOMAIN queue
    BY <1>1, <1>3, LenProperties, EmptySeq
  <2>3. /\ queue' \in Seq(Work) /\ DOMAIN queue' = 1..(n - 1)
        /\ \A i \in 1..(n - 1) : queue'[i] = queue[i + 1]
    BY <1>1, <1>3, <2>1, <2>2, HeadTailProperties, LenProperties
  <2>4. \A i \in DOMAIN queue' : i + 1 \in DOMAIN queue /\ i + 1 # 1 /\ queue'[i] = queue[i + 1]
    BY <2>2, <2>3
  <2>5. \A i \in DOMAIN queue : i = 1 \/ (i - 1 \in DOMAIN queue' /\ queue'[i - 1] = queue[i])
    BY <2>2, <2>3
  <2>6. queue[1] \in Work /\ running' \in SUBSET Work
    BY <1>1, <2>1, <2>2, ElementOfSeq
  <2>7. OneJob'
    <3> SUFFICES ASSUME NEW i \in DOMAIN queue'
                 PROVE  /\ \A k \in DOMAIN queue' : queue'[i].by = queue'[k].by => i = k
                        /\ \A j \in running' : queue'[i].by # j.by
      BY DEF OneJob
    <3>1. \A k \in DOMAIN queue' : queue'[i].by = queue'[k].by => i = k
      <4>1. \A k \in DOMAIN queue' : queue'[i].by = queue'[k].by => i + 1 = k + 1
        BY <1>1, <2>4 DEF OneJob
      <4>2. QED BY <4>1, <2>3
    <3>2. \A j \in running' : queue'[i].by # j.by
      <4>1. i + 1 \in DOMAIN queue /\ i + 1 # 1 /\ queue'[i] = queue[i + 1] BY <2>4
      <4>2. \A j \in R : queue[i + 1].by # j.by BY <1>1, <4>1 DEF OneJob
      <4>3. queue[i + 1].by # queue[1].by BY <1>1, <2>2, <4>1 DEF OneJob
      <4>4. QED BY <2>1, <4>1, <4>2, <4>3
    <3>3. QED BY <3>1, <3>2
  <2>8. ASSUME NEW j \in Jobs' PROVE j \in Jobs \ (running \ R)
    <3>1. CASE j \in R
      BY <3>1 DEF Jobs
    <3>2. CASE \E i \in DOMAIN queue : j = queue[i]
      BY <1>1, <3>2 DEF Jobs, OneJob
    <3>3. QED BY <2>1, <2>2, <2>4, <3>1, <3>2 DEF Jobs
  <2>9. ASSUME NEW j \in Jobs, j \notin running \ R PROVE j \in Jobs'
    <3>1. CASE j \in running
      BY <2>1, <2>9, <3>1 DEF Jobs
    <3>2. CASE \E i \in DOMAIN queue : j = queue[i]
      BY <2>1, <2>5, <3>2 DEF Jobs
    <3>3. QED BY <3>1, <3>2 DEF Jobs
  <2>10. QED BY <2>3, <2>6, <2>7, <2>8, <2>9
<1>4. QED BY <1>2, <1>3

-----------------------------------------------------------------------------
(* Steps.                                                                  *)

\* What is true of a session in a line.
LEMMA InLine ==
  ASSUME TypeOK, LocksHaveHolders, NEW e \in Engine, NEW i \in DOMAIN lock[e]
  PROVE  /\ lock[e] \in Seq(Session) /\ lock[e][i] \in Session
         /\ at[lock[e][i]] = e
         /\ step[lock[e][i]] \in {"lock", "loading", "loaded", "failed"}
         /\ i # 1 => step[lock[e][i]] = "lock"
<1>1. lock[e] \in Seq(Session)
  BY DEF TypeOK
<1>2. lock[e][i] \in Session
  BY <1>1, ElementOfSeq, LenProperties
<1>3. QED
  BY <1>1, <1>2 DEF LocksHaveHolders

\* Sets of sessions are finite, and one more or less counts for one.
LEMMA SessionSets ==
  ASSUME NEW S \in SUBSET Session, NEW s
  PROVE  /\ Cardinality(S) \in Nat
         /\ s \in S => Cardinality(S) = Cardinality(S \ {s}) + 1
         /\ s \notin S => Cardinality(S \cup {s}) = Cardinality(S) + 1
         /\ \A T \in SUBSET S : Cardinality(T) <= Cardinality(S)
<1>1. IsFiniteSet(S)
  BY FS_Subset, EnginesAssumption
<1>2. QED
  BY <1>1, FS_CardinalityType, FS_AddElement, FS_RemoveElement, FS_Subset

\* A turn that has nothing under way goes to another stage.
LEMMA MoveKeeps ==
  ASSUME EnginesInv, NEW s \in Session, NEW stage \in Stage, step[s] \in {"ask", "ran", "poll"},
         Goes(s, stage), UNCHANGED <<engines, executor, answer>>,
         turn' \in [Session -> Nat], server' \in {"down", "starting", "up"}, tracked' \in BOOLEAN,
         decision' \in [Session -> [by : {"none", "router", "fallback"}, of : Nat]],
         \A r \in Session \ {s} : turn'[r] = turn[r] /\ decision'[r] = decision[r],
         stage = "stt" => Cardinality(InStt) < Workers,
         stage \in {"llm", "tts"} /\ decision'[s].by = "router" => decision'[s].of = turn'[s]
  PROVE  EnginesInv'
<1>1. /\ at' = [at EXCEPT ![s] = stage] /\ step' = [step EXCEPT ![s] = "ask"]
      /\ at'[s] = stage /\ step'[s] = "ask"
      /\ \A r \in Session \ {s} : at'[r] = at[r] /\ step'[r] = step[r]
      /\ model' = model /\ copies' = copies /\ lock' = lock /\ answer' = answer
      /\ queue' = queue /\ running' = running /\ lost' = lost
  BY DEF Goes, EnginesInv, TypeOK, engines, executor
<1>2. TypeOK'
  BY <1>1 DEF EnginesInv, TypeOK, Step
<1>3. AnswersCome'
  BY <1>1, JobsStay DEF Awaiting
<1>4. StepsFit'
  BY <1>1 DEF EnginesInv, StepsFit, Inside
<1>5. \A e \in Engine : \A i \in DOMAIN lock[e] : lock[e][i] # s
  <2> SUFFICES ASSUME NEW e \in Engine, NEW i \in DOMAIN lock[e], lock[e][i] = s PROVE FALSE
    OBVIOUS
  <2>1. TypeOK /\ LocksHaveHolders
    BY DEF EnginesInv
  <2>2. step[lock[e][i]] \in {"lock", "loading", "loaded", "failed"}
    BY <2>1, InLine
  <2>3. QED BY <2>2
<1>6. LocksHaveHolders'
  <2> SUFFICES ASSUME NEW e \in Engine, NEW i \in DOMAIN lock[e], NEW r, r = lock[e][i]
               PROVE  /\ at'[r] = e
                      /\ step'[r] \in IF i = 1 THEN {"lock", "loading", "loaded", "failed"}
                                      ELSE {"lock"}
    BY <1>1 DEF LocksHaveHolders
  <2>1. r \in Session \ {s}
    BY <1>5, InLine DEF EnginesInv
  <2>2. QED BY <1>1, <2>1 DEF EnginesInv, LocksHaveHolders
<1>7. OncePerLine' /\ LoadersLead' /\ WaitersStand' /\ NoSttLine'
  <2>1. OncePerLine' /\ NoSttLine'
    BY <1>1 DEF EnginesInv, OncePerLine, NoSttLine
  <2>2. LoadersLead'
    BY <1>1 DEF EnginesInv, LoadersLead, Loads
  <2>3. WaitersStand'
    <3>1. \A r \in Session : step[r] = "lock" =>
            at[r] \in Locked /\ \E i \in DOMAIN lock[at[r]] : lock[at[r]][i] = r
      BY DEF EnginesInv, WaitersStand
    <3>2. \A r \in Session : step'[r] = "lock" => step[r] = "lock" /\ at'[r] = at[r]
      BY <1>1
    <3>3. lock' = lock
      BY <1>1
    <3>4. QED BY <3>1, <3>2, <3>3 DEF WaitersStand
  <2>4. QED BY <2>1, <2>2, <2>3
<1>8. LockedCopies'
  BY <1>1 DEF EnginesInv, LockedCopies, Loads
<1>9. SttCopies'
  <2>1. InStt \in SUBSET Session /\ s \notin SttLoaders
    BY DEF InStt, SttLoaders, Loads
  <2>2. SttLoaders' = SttLoaders
    BY <1>1, <2>1 DEF SttLoaders, InStt, Loads
  <2>3. /\ stage = "stt" => InStt' = InStt \cup {s}
        /\ stage # "stt" => InStt' = InStt \ {s}
    BY <1>1 DEF InStt
  <2>4. ASSUME NEW N, N = InStt' PROVE Cardinality(N) <= Workers
    <3>1. Cardinality(InStt) <= Workers /\ Workers \in Nat /\ Cardinality(InStt) \in Nat
      BY <2>1, SessionSets, EnginesAssumption DEF EnginesInv, SttCopies
    <3>2. CASE stage # "stt"
      <4>1. N = InStt \ {s}
        BY <2>3, <2>4, <3>2
      <4>2. Cardinality(N) <= Cardinality(InStt) /\ Cardinality(N) \in Nat
        BY <2>1, <4>1, SessionSets
      <4>3. QED BY <3>1, <4>2
    <3>3. CASE stage = "stt" /\ s \in InStt
      <4>1. N = InStt
        BY <2>3, <2>4, <3>3
      <4>2. QED BY <3>1, <4>1
    <3>4. CASE stage = "stt" /\ s \notin InStt
      <4>1. N = InStt \cup {s}
        BY <2>3, <2>4, <3>4
      <4>2. Cardinality(N) = Cardinality(InStt) + 1
        BY <2>1, <3>4, <4>1, SessionSets
      <4>3. QED BY <3>1, <3>4, <4>2
    <3>5. QED BY <3>2, <3>3, <3>4
  <2>5. QED BY <1>1, <2>2, <2>4 DEF EnginesInv, SttCopies
<1>10. AnswersFit' /\ OwnDecision'
  BY <1>1 DEF EnginesInv, AnswersFit, OwnDecision
<1>11. QED
  BY <1>2, <1>3, <1>4, <1>6, <1>7, <1>8, <1>9, <1>10 DEF EnginesInv

\* Who leaves its line, doing nothing more under the lock, leaves the others
\* as they stood.
LEMMA LineLeft ==
  ASSUME EnginesInv, NEW s \in Session, DOMAIN lock' = Engine, lock' = [e \in Engine |-> lock'[e]],
         \A e \in Engine : \/ lock'[e] = LeftLine(lock[e], s)
                           \/ lock'[e] = lock[e] /\ at[s] # e,
         \A r \in Session \ {s} : at'[r] = at[r] /\ step'[r] = step[r],
         step'[s] \notin {"lock", "loading", "loaded"}
  PROVE  /\ lock' \in [Engine -> Seq(Session)] /\ LocksHaveHolders' /\ OncePerLine'
         /\ LoadersLead' /\ WaitersStand' /\ NoSttLine'
<1>1. ASSUME NEW e \in Engine
      PROVE  /\ lock'[e] \in Seq(Session)
             /\ \A i, k \in DOMAIN lock'[e] : lock'[e][i] = lock'[e][k] => i = k
             /\ \A i \in DOMAIN lock'[e] :
                  lock'[e][i] # s /\ \E k \in DOMAIN lock[e] : i <= k /\ lock'[e][i] = lock[e][k]
             /\ \A k \in DOMAIN lock[e] :
                  lock[e][k] # s => \E i \in DOMAIN lock'[e] : lock'[e][i] = lock[e][k]
             /\ lock[e] # <<>> /\ lock[e][1] # s => lock'[e] # <<>> /\ lock'[e][1] = lock[e][1]
             /\ lock[e] = <<>> => lock'[e] = <<>>
  <2>1. lock[e] \in Seq(Session) /\ \A i, k \in DOMAIN lock[e] : lock[e][i] = lock[e][k] => i = k
    BY DEF EnginesInv, TypeOK, OncePerLine
  <2>2. CASE lock'[e] = LeftLine(lock[e], s)
    BY <2>1, <2>2, LeavesLine
  <2>3. CASE lock'[e] = lock[e] /\ at[s] # e
    <3>1. \A i \in DOMAIN lock[e] : lock[e][i] # s
      BY <2>3 DEF EnginesInv, LocksHaveHolders
    <3>2. \A i \in DOMAIN lock[e] : i <= i
      BY <2>1, LenProperties
    <3>3. QED BY <2>1, <2>3, <3>1, <3>2
  <2>4. QED BY <2>2, <2>3
<1>2. lock' \in [Engine -> Seq(Session)] /\ OncePerLine' /\ NoSttLine'
  BY <1>1 DEF OncePerLine, NoSttLine, EnginesInv, Engine
<1>3. LocksHaveHolders'
  <2> SUFFICES ASSUME NEW e \in Engine, NEW i \in DOMAIN lock'[e], NEW r, r = lock'[e][i]
               PROVE  /\ at'[r] = e
                      /\ step'[r] \in IF i = 1 THEN {"lock", "loading", "loaded", "failed"}
                                      ELSE {"lock"}
    BY DEF LocksHaveHolders
  <2>1. PICK k \in DOMAIN lock[e] : i <= k /\ r = lock[e][k] /\ r # s
    BY <1>1
  <2>2. /\ r \in Session /\ at[r] = e
        /\ step[r] \in {"lock", "loading", "loaded", "failed"}
        /\ k # 1 => step[r] = "lock"
    BY <2>1, InLine DEF EnginesInv
  <2>3. i # 1 => k # 1
    BY <1>1, <2>1, LenProperties
  <2>4. QED BY <2>1, <2>2, <2>3
<1>4. LoadersLead'
  <2> SUFFICES ASSUME NEW r \in Session, at'[r] \in Locked, step'[r] \in {"loading", "loaded"}
               PROVE  lock'[at'[r]] # <<>> /\ lock'[at'[r]][1] = r
    BY DEF LoadersLead, Loads
  <2>1. r # s /\ at'[r] = at[r] /\ at[r] \in Engine
    BY DEF Locked, Engine
  <2>2. lock[at[r]] # <<>> /\ lock[at[r]][1] = r
    BY <2>1 DEF EnginesInv, LoadersLead, Loads
  <2>3. QED BY <1>1, <2>1, <2>2
<1>5. WaitersStand'
  <2> SUFFICES ASSUME NEW r \in Session, step'[r] = "lock"
               PROVE  at'[r] \in Locked /\ \E i \in DOMAIN lock'[at'[r]] : lock'[at'[r]][i] = r
    BY DEF WaitersStand
  <2>1. r # s /\ at'[r] = at[r] /\ step[r] = "lock"
    OBVIOUS
  <2>2. at[r] \in Locked /\ at[r] \in Engine /\ \E i \in DOMAIN lock[at[r]] : lock[at[r]][i] = r
    BY <2>1 DEF EnginesInv, WaitersStand, Locked, Engine
  <2>3. QED BY <1>1, <2>1, <2>2
<1>6. QED BY <1>2, <1>3, <1>4, <1>5

\* A turn that leaves Moonshine leaves its models counted.
LEMMA SttFewer ==
  ASSUME EnginesInv, NEW s \in Session, NEW stage \in {"llm", "idle"}, UNCHANGED <<model, copies>>,
         at' = [at EXCEPT ![s] = stage], step' = [step EXCEPT ![s] = "ask"]
  PROVE  SttCopies'
<1>0. /\ at'[s] = stage /\ step'[s] = "ask"
      /\ \A r \in Session \ {s} : at'[r] = at[r] /\ step'[r] = step[r]
  BY DEF EnginesInv, TypeOK
<1>1. InStt \in SUBSET Session /\ SttLoaders \in SUBSET InStt
  BY DEF InStt, SttLoaders
<1>2. ASSUME NEW N, N = InStt' PROVE Cardinality(N) <= Workers
  <2>1. N \in SUBSET InStt
    BY <1>0, <1>2 DEF InStt
  <2>2. /\ Cardinality(N) \in Nat /\ Cardinality(InStt) \in Nat /\ Workers \in Nat
        /\ Cardinality(N) <= Cardinality(InStt) /\ Cardinality(InStt) <= Workers
    BY <1>1, <2>1, SessionSets, EnginesAssumption DEF EnginesInv, SttCopies
  <2>3. QED BY <2>2
<1>3. ASSUME NEW L, L = SttLoaders' PROVE copies["stt"] + Cardinality(L) <= Workers
  <2>1. L \in SUBSET SttLoaders
    BY <1>0, <1>3 DEF SttLoaders, InStt, Loads
  <2>2. /\ Cardinality(L) \in Nat /\ Cardinality(SttLoaders) \in Nat
        /\ Cardinality(L) <= Cardinality(SttLoaders) /\ copies["stt"] \in Nat /\ Workers \in Nat
        /\ copies["stt"] + Cardinality(SttLoaders) <= Workers
    BY <1>1, <2>1, SessionSets, EnginesAssumption DEF EnginesInv, SttCopies, TypeOK, Engine
  <2>3. QED BY <2>2
<1>4. QED BY <1>2, <1>3 DEF EnginesInv, SttCopies

\* Timeout and Interrupt: the turn leaves everything it had under way.
LEMMA AbandonKeeps ==
  ASSUME EnginesInv, NEW s \in Session, NEW stage \in {"llm", "idle"},
         Abandon(s), Goes(s, stage), UNCHANGED <<model, copies, turn, answer, opencode>>,
         decision' \in [Session -> [by : {"none", "router", "fallback"}, of : Nat]],
         \A r \in Session \ {s} : decision'[r] = decision[r],
         stage = "llm" => decision'[s].by = "fallback"
  PROVE  EnginesInv'
<1>1. /\ at' = [at EXCEPT ![s] = stage] /\ step' = [step EXCEPT ![s] = "ask"]
      /\ at'[s] = stage /\ step'[s] = "ask"
      /\ \A r \in Session \ {s} : at'[r] = at[r] /\ step'[r] = step[r]
      /\ model' = model /\ copies' = copies /\ turn' = turn /\ answer' = answer
      /\ server' = server /\ tracked' = tracked
      /\ Unheard(s) /\ lock' = [e \in Engine |-> LeftLine(lock[e], s)]
  BY DEF Goes, Abandon, EnginesInv, TypeOK, opencode
<1>2. /\ AnswersCome' /\ queue' \in Seq(Work) /\ running' \in SUBSET Work
      /\ lost' \in [Kind -> Nat]
  BY <1>1, JobsUnheard DEF Awaiting
<1>3. /\ lock' \in [Engine -> Seq(Session)] /\ LocksHaveHolders' /\ OncePerLine'
      /\ LoadersLead' /\ WaitersStand' /\ NoSttLine'
  BY <1>1, LineLeft
<1>4. TypeOK'
  BY <1>1, <1>2, <1>3 DEF EnginesInv, TypeOK, Step, Stage
<1>5. StepsFit' /\ LockedCopies' /\ AnswersFit' /\ OwnDecision'
  <2>1. StepsFit'
    BY <1>1 DEF EnginesInv, StepsFit, Inside
  <2>2. LockedCopies'
    BY <1>1 DEF EnginesInv, LockedCopies, Loads
  <2>3. AnswersFit' /\ OwnDecision'
    BY <1>1 DEF EnginesInv, AnswersFit, OwnDecision
  <2>4. QED BY <2>1, <2>2, <2>3
<1>6. SttCopies'
  BY <1>1, SttFewer DEF Loads
<1>7. QED
  BY <1>2, <1>3, <1>4, <1>5, <1>6 DEF EnginesInv

\* A load that begins or ends, and a step that does neither, leave Moonshine's
\* models counted.
LEMMA SttCounted ==
  ASSUME EnginesInv, NEW s \in Session, UNCHANGED at, model' \in [Engine -> {"missing", "unloaded", "there"}],
         copies' \in [Engine -> Nat],
         \A r \in Session \ {s} : step'[r] = step[r],
         \/ /\ model'["stt"] = model["stt"] /\ copies'["stt"] = copies["stt"]
            /\ at[s] = "stt" /\ Loads(s)' => Loads(s) \/ model["stt"] # "there"
         \/ /\ at[s] = "stt" /\ Loads(s) /\ ~Loads(s)'
            /\ model'["stt"] = "there" /\ copies'["stt"] = copies["stt"] + 1
  PROVE  SttCopies'
<1> DEFINE n == Cardinality(InStt)
           c == copies["stt"]
<1>1. /\ InStt' = InStt /\ InStt \in SUBSET Session /\ SttLoaders \in SUBSET InStt
      /\ SttLoaders \in SUBSET Session
  BY DEF InStt, SttLoaders
<1>2. /\ Cardinality(InStt) \in Nat /\ Cardinality(SttLoaders) \in Nat /\ c \in Nat /\ Workers \in Nat
      /\ Cardinality(InStt) <= Workers
      /\ c + Cardinality(SttLoaders) <= Workers
      /\ model["stt"] # "there" => c = 0
  BY <1>1, SessionSets, EnginesAssumption DEF EnginesInv, SttCopies, TypeOK, Engine
<1>3. ASSUME NEW L, L = SttLoaders'
      PROVE  copies'["stt"] + Cardinality(L) <= Workers
  <2>1. L \in SUBSET InStt /\ L \in SUBSET Session
    BY <1>1, <1>3 DEF SttLoaders, InStt
  <2>2. Cardinality(L) \in Nat /\ Cardinality(L) <= Cardinality(InStt)
    BY <1>1, <2>1, SessionSets
  <2>3. CASE /\ model'["stt"] = model["stt"] /\ copies'["stt"] = copies["stt"]
             /\ at[s] = "stt" /\ Loads(s)' => Loads(s) \/ model["stt"] # "there"
    <3>1. CASE model["stt"] # "there"
      BY <1>2, <2>2, <2>3, <3>1
    <3>2. CASE model["stt"] = "there"
      <4>1. L \in SUBSET SttLoaders
        BY <1>3, <2>3, <3>2 DEF SttLoaders, InStt, Loads
      <4>2. Cardinality(L) <= Cardinality(SttLoaders)
        BY <1>1, <4>1, SessionSets
      <4>3. QED BY <1>2, <2>2, <2>3, <4>2
    <3>3. QED BY <3>1, <3>2
  <2>4. CASE /\ at[s] = "stt" /\ Loads(s) /\ ~Loads(s)'
             /\ model'["stt"] = "there" /\ copies'["stt"] = copies["stt"] + 1
    <3>1. s \in SttLoaders /\ L \in SUBSET (SttLoaders \ {s})
      BY <1>3, <2>4 DEF SttLoaders, InStt, Loads
    <3>2. Cardinality(SttLoaders) = Cardinality(SttLoaders \ {s}) + 1
      BY <1>1, <3>1, SessionSets
    <3>3. /\ Cardinality(SttLoaders \ {s}) \in Nat
          /\ Cardinality(L) <= Cardinality(SttLoaders \ {s})
      <4>1. SttLoaders \ {s} \in SUBSET Session
        BY <1>1
      <4>2. QED BY <3>1, <4>1, SessionSets
    <3>4. QED BY <1>2, <2>2, <2>4, <3>2, <3>3
  <2>5. QED BY <2>3, <2>4
<1>4. model'["stt"] # "there" => copies'["stt"] = 0
  BY <1>2
<1>5. QED
  BY <1>1, <1>2, <1>3, <1>4 DEF SttCopies

LEMMA LoadKeeps ==
  ASSUME EnginesInv, NEW s \in Session, Load(s)
  PROVE  EnginesInv'
<1> DEFINE e == at[s]
<1>1. /\ e \in Engine /\ model[e] # "missing" /\ step[s] = "ask"
      /\ model' = model /\ copies' = copies /\ server' = server /\ tracked' = tracked
      /\ lock[e] \in Seq(Session)
  BY DEF Load, opencode, EnginesInv, TypeOK
<1>2. \A f \in Engine : \A i \in DOMAIN lock[f] :
        /\ lock[f][i] # s /\ lock[f][i] \in Session /\ at[lock[f][i]] = f
        /\ step[lock[f][i]] \in {"lock", "loading", "loaded", "failed"}
        /\ i # 1 => step[lock[f][i]] = "lock"
  <2> SUFFICES ASSUME NEW f \in Engine, NEW i \in DOMAIN lock[f]
               PROVE  /\ lock[f][i] # s /\ lock[f][i] \in Session /\ at[lock[f][i]] = f
                      /\ step[lock[f][i]] \in {"lock", "loading", "loaded", "failed"}
                      /\ i # 1 => step[lock[f][i]] = "lock"
    OBVIOUS
  <2>1. TypeOK /\ LocksHaveHolders
    BY DEF EnginesInv
  <2>2. QED BY <1>1, <2>1, InLine
<1>3. CASE model[e] = "there"
  <2>1. Submit(s, "run") /\ Does(s, "running") /\ lock' = lock
    BY <1>3 DEF Load, Enter
  <2>2. /\ step' = [step EXCEPT ![s] = "running"] /\ step'[s] = "running"
        /\ at' = at /\ turn' = turn /\ answer' = answer /\ decision' = decision
        /\ \A r \in Session \ {s} : step'[r] = step[r]
    BY <2>1 DEF Does, EnginesInv, TypeOK
  <2>3. /\ AnswersCome' /\ queue' \in Seq(Work) /\ running' \in SUBSET Work /\ lost' = lost
    BY <1>1, <2>1, JobsSubmit DEF Awaiting
  <2>4. TypeOK'
    BY <1>1, <2>1, <2>2, <2>3 DEF EnginesInv, TypeOK, Step
  <2>5. StepsFit' /\ LockedCopies' /\ AnswersFit' /\ OwnDecision'
    BY <1>1, <1>3, <2>2 DEF EnginesInv, StepsFit, Inside, LockedCopies, Loads, AnswersFit, OwnDecision
  <2>6. LocksHaveHolders'
    BY <1>2, <2>1, <2>2 DEF LocksHaveHolders
  <2>7. OncePerLine' /\ NoSttLine' /\ LoadersLead' /\ WaitersStand'
    BY <2>1, <2>2 DEF EnginesInv, OncePerLine, NoSttLine, LoadersLead, WaitersStand, Loads
  <2>8. SttCopies'
    <3>1. ~Loads(s)' /\ model' \in [Engine -> {"missing", "unloaded", "there"}] /\ copies' \in [Engine -> Nat]
      BY <1>1, <2>2 DEF Loads, EnginesInv, TypeOK
    <3>2. QED BY <1>1, <2>2, <3>1, SttCounted
  <2>9. QED BY <2>3, <2>4, <2>5, <2>6, <2>7, <2>8 DEF EnginesInv
<1>4. CASE model[e] # "there" /\ e \in Locked /\ lock[e] # <<>>
  <2>1. /\ lock' = [lock EXCEPT ![e] = Append(lock[e], s)] /\ Does(s, "lock")
        /\ queue' = queue /\ running' = running /\ lost' = lost
    BY <1>4 DEF Load, Enter, executor
  <2>2. /\ step' = [step EXCEPT ![s] = "lock"] /\ step'[s] = "lock"
        /\ at' = at /\ turn' = turn /\ answer' = answer /\ decision' = decision
        /\ \A r \in Session \ {s} : step'[r] = step[r]
    BY <2>1 DEF Does, EnginesInv, TypeOK
  <2>3. AnswersCome'
    BY <1>1, <2>1, <2>2, JobsStay DEF Awaiting
  <2>4. PICK n \in Nat : n = Len(lock[e]) /\ DOMAIN lock[e] = 1..n /\ n > 0
    BY <1>1, <1>4, LenProperties, EmptySeq
  <2>5. /\ lock'[e] \in Seq(Session) /\ DOMAIN lock'[e] = 1..(n + 1)
        /\ lock'[e][n + 1] = s /\ \A i \in 1..n : lock'[e][i] = lock[e][i]
        /\ lock' \in [Engine -> Seq(Session)]
        /\ \A f \in Engine \ {e} : lock'[f] = lock[f]
    <3>1. lock'[e] = Append(lock[e], s) /\ \A f \in Engine \ {e} : lock'[f] = lock[f]
      BY <1>1, <2>1 DEF EnginesInv, TypeOK
    <3>2. /\ Append(lock[e], s) \in Seq(Session) /\ Len(Append(lock[e], s)) = n + 1
          /\ Append(lock[e], s)[n + 1] = s
          /\ \A i \in 1..n : Append(lock[e], s)[i] = lock[e][i]
      BY <1>1, <2>4, AppendProperties
    <3>3. DOMAIN Append(lock[e], s) = 1..(n + 1)
      BY <3>2, LenProperties
    <3>4. lock' \in [Engine -> Seq(Session)]
      BY <1>1, <2>1, <3>2 DEF EnginesInv, TypeOK
    <3>5. QED BY <3>1, <3>2, <3>3, <3>4
  <2>6. TypeOK'
    BY <1>1, <2>1, <2>2, <2>5 DEF EnginesInv, TypeOK, Step
  <2>7. StepsFit' /\ LockedCopies' /\ AnswersFit' /\ OwnDecision'
    BY <1>1, <2>2 DEF EnginesInv, StepsFit, Inside, LockedCopies, Loads, AnswersFit, OwnDecision
  <2>8. LocksHaveHolders'
    <3> SUFFICES ASSUME NEW f \in Engine, NEW i \in DOMAIN lock'[f], NEW r, r = lock'[f][i]
                 PROVE  /\ at'[r] = f
                        /\ step'[r] \in IF i = 1 THEN {"lock", "loading", "loaded", "failed"}
                                        ELSE {"lock"}
      BY DEF LocksHaveHolders
    <3>1. CASE f = e /\ i = n + 1
      BY <2>2, <2>5, <3>1
    <3>2. CASE ~(f = e /\ i = n + 1)
      <4>1. i \in DOMAIN lock[f] /\ r = lock[f][i]
        BY <2>4, <2>5, <3>2
      <4>2. QED BY <1>2, <2>2, <4>1
    <3>3. QED BY <3>1, <3>2
  <2>9. OncePerLine'
    <3> SUFFICES ASSUME NEW f \in Engine, NEW i \in DOMAIN lock'[f], NEW k \in DOMAIN lock'[f],
                        lock'[f][i] = lock'[f][k]
                 PROVE  i = k
      BY DEF OncePerLine
    <3>1. CASE f # e
      BY <2>5, <3>1 DEF EnginesInv, OncePerLine
    <3>2. CASE f = e
      <4>1. \A j \in 1..n : lock'[e][j] # s
        <5>1. \A j \in 1..n : lock[e][j] # s
          BY <1>1, <1>2, <2>4
        <5>2. QED BY <2>5, <5>1
      <4>2. i \in 1..(n + 1) /\ k \in 1..(n + 1)
        BY <2>5, <3>2
      <4>3. i \in 1..n /\ k \in 1..n => i = k
        <5>1. \A j, l \in 1..n : lock[e][j] = lock[e][l] => j = l
          BY <1>1, <2>4 DEF EnginesInv, OncePerLine
        <5>2. \A j \in 1..n : lock'[e][j] = lock[e][j] BY <2>5
        <5>3. lock'[e][i] = lock'[e][k] BY <3>2
        <5>4. QED BY <5>1, <5>2, <5>3
      <4>4. QED BY <2>5, <3>2, <4>1, <4>2, <4>3
    <3>3. QED BY <3>1, <3>2
  <2>10. NoSttLine' /\ LoadersLead'
    <3>1. NoSttLine'
      BY <1>1, <1>4, <2>5 DEF EnginesInv, NoSttLine, Locked, Engine
    <3>2. lock'[e] # <<>> /\ lock'[e][1] = lock[e][1]
      BY <2>4, <2>5
    <3>3. LoadersLead'
      BY <2>2, <2>5, <3>2 DEF EnginesInv, LoadersLead, Loads, Locked, Engine
    <3>4. QED BY <3>1, <3>3
  <2>11. WaitersStand'
    <3> SUFFICES ASSUME NEW r \in Session, step'[r] = "lock"
                 PROVE  at'[r] \in Locked /\ \E i \in DOMAIN lock'[at'[r]] : lock'[at'[r]][i] = r
      BY DEF WaitersStand
    <3>1. CASE r = s
      <4>1. n + 1 \in DOMAIN lock'[e]
        BY <2>5
      <4>2. QED BY <1>4, <2>2, <2>5, <3>1, <4>1
    <3>2. CASE r # s
      <4>1. step[r] = "lock" /\ at[r] \in Locked /\ at[r] \in Engine
        BY <2>2, <3>2 DEF EnginesInv, WaitersStand, Locked, Engine
      <4>2. PICK i \in DOMAIN lock[at[r]] : lock[at[r]][i] = r
        BY <4>1 DEF EnginesInv, WaitersStand
      <4>3. i \in DOMAIN lock'[at[r]] /\ lock'[at[r]][i] = r
        <5>1. CASE at[r] = e
          <6>1. i \in 1..n /\ i \in 1..(n + 1)
            BY <2>4, <4>2, <5>1
          <6>2. QED BY <2>5, <4>2, <5>1, <6>1
        <5>2. CASE at[r] # e
          BY <2>5, <4>1, <4>2, <5>2
        <5>3. QED BY <5>1, <5>2
      <4>4. QED BY <2>2, <4>1, <4>3
    <3>3. QED BY <3>1, <3>2
  <2>12. SttCopies'
    <3>1. ~Loads(s)' /\ model' \in [Engine -> {"missing", "unloaded", "there"}] /\ copies' \in [Engine -> Nat]
      BY <1>1, <2>2 DEF Loads, EnginesInv, TypeOK
    <3>2. QED BY <1>1, <2>2, <3>1, SttCounted
  <2>13. QED BY <2>3, <2>6, <2>7, <2>8, <2>9, <2>10, <2>11, <2>12 DEF EnginesInv
<1>5. CASE model[e] # "there" /\ ~(e \in Locked /\ lock[e] # <<>>)
  <2>1. /\ lock' = [lock EXCEPT ![e] = IF e \in Locked THEN <<s>> ELSE <<>>]
        /\ Submit(s, "load") /\ Does(s, "loading")
    BY <1>5 DEF Load, Enter
  <2>2. /\ step' = [step EXCEPT ![s] = "loading"] /\ step'[s] = "loading"
        /\ at' = at /\ turn' = turn /\ answer' = answer /\ decision' = decision
        /\ \A r \in Session \ {s} : step'[r] = step[r]
    BY <2>1 DEF Does, EnginesInv, TypeOK
  <2>3. AnswersCome' /\ queue' \in Seq(Work) /\ running' \in SUBSET Work /\ lost' = lost
    BY <1>1, <2>1, JobsSubmit DEF Awaiting
  <2>4. lock[e] = <<>>
    BY <1>1, <1>5 DEF EnginesInv, NoSttLine, Locked, Engine
  <2>5. /\ lock' \in [Engine -> Seq(Session)]
        /\ \A f \in Engine \ {e} : lock'[f] = lock[f]
        /\ e \in Locked => lock'[e] = <<s>>
        /\ e \notin Locked => lock' = lock
    <3>1. lock'[e] = (IF e \in Locked THEN <<s>> ELSE <<>>) /\ <<s>> \in Seq(Session) /\ <<>> \in Seq(Session)
      BY <1>1, <2>1 DEF EnginesInv, TypeOK
    <3>2. QED BY <1>1, <2>1, <2>4, <3>1 DEF EnginesInv, TypeOK
  <2>6. DOMAIN <<s>> = {1} /\ <<s>>[1] = s /\ <<s>> # <<>>
    OBVIOUS
  <2>7. TypeOK'
    BY <1>1, <2>2, <2>3, <2>5 DEF EnginesInv, TypeOK, Step
  <2>8. StepsFit' /\ LockedCopies' /\ AnswersFit' /\ OwnDecision'
    BY <1>1, <1>5, <2>2 DEF EnginesInv, StepsFit, Inside, LockedCopies, Loads, AnswersFit, OwnDecision
  <2>9. LocksHaveHolders'
    <3> SUFFICES ASSUME NEW f \in Engine, NEW i \in DOMAIN lock'[f], NEW r, r = lock'[f][i]
                 PROVE  /\ at'[r] = f
                        /\ step'[r] \in IF i = 1 THEN {"lock", "loading", "loaded", "failed"}
                                        ELSE {"lock"}
      BY DEF LocksHaveHolders
    <3>1. CASE f = e /\ e \in Locked
      BY <2>2, <2>5, <2>6, <3>1
    <3>2. CASE ~(f = e /\ e \in Locked)
      <4>1. i \in DOMAIN lock[f] /\ r = lock[f][i]
        BY <2>5, <3>2
      <4>2. QED BY <1>2, <2>2, <4>1
    <3>3. QED BY <3>1, <3>2
  <2>10. OncePerLine' /\ NoSttLine'
    BY <2>5, <2>6 DEF EnginesInv, OncePerLine, NoSttLine, Locked, Engine
  <2>11. LoadersLead'
    <3> SUFFICES ASSUME NEW r \in Session, at[r] \in Locked, step'[r] \in {"loading", "loaded"}
                 PROVE  lock'[at[r]] # <<>> /\ lock'[at[r]][1] = r
      BY <2>2 DEF LoadersLead, Loads
    <3>1. CASE r = s
      BY <2>5, <2>6, <3>1
    <3>2. CASE r # s
      <4>1. lock[at[r]] # <<>> /\ lock[at[r]][1] = r
        BY <2>2, <3>2 DEF EnginesInv, LoadersLead, Loads
      <4>2. at[r] # e /\ at[r] \in Engine
        BY <2>4, <4>1 DEF Locked, Engine
      <4>3. QED BY <2>5, <4>1, <4>2
    <3>3. QED BY <3>1, <3>2
  <2>12. WaitersStand'
    <3> SUFFICES ASSUME NEW r \in Session, step'[r] = "lock"
                 PROVE  at[r] \in Locked /\ \E i \in DOMAIN lock'[at[r]] : lock'[at[r]][i] = r
      BY <2>2 DEF WaitersStand
    <3>1. r # s /\ step[r] = "lock"
      BY <2>2
    <3>2. at[r] \in Locked /\ \E i \in DOMAIN lock[at[r]] : lock[at[r]][i] = r
      BY <3>1 DEF EnginesInv, WaitersStand
    <3>3. at[r] # e /\ at[r] \in Engine
      BY <2>4, <3>2 DEF Locked, Engine
    <3>4. QED BY <2>5, <3>2, <3>3
  <2>13. SttCopies'
    <3>1. at[s] = "stt" => model["stt"] # "there"
      BY <1>5
    <3>2. model' \in [Engine -> {"missing", "unloaded", "there"}] /\ copies' \in [Engine -> Nat]
      BY <1>1 DEF EnginesInv, TypeOK
    <3>3. QED BY <1>1, <2>2, <3>1, <3>2, SttCounted
  <2>14. QED BY <2>3, <2>7, <2>8, <2>9, <2>10, <2>11, <2>12, <2>13 DEF EnginesInv
<1>6. QED BY <1>3, <1>4, <1>5

LEMMA GotLockKeeps ==
  ASSUME EnginesInv, NEW s \in Session, GotLock(s)
  PROVE  EnginesInv'
<1> DEFINE e == at[s]
<1>1. /\ e \in Engine /\ e \in Locked /\ step[s] = "lock" /\ model[e] # "missing"
      /\ model' = model /\ copies' = copies /\ server' = server /\ tracked' = tracked
      /\ lock[e] \in Seq(Session) /\ lock[e] # <<>>
  <2>1. /\ step[s] = "lock" /\ model' = model /\ copies' = copies
        /\ server' = server /\ tracked' = tracked
    BY DEF GotLock, opencode
  <2>2. e \in Engine /\ model[e] # "missing"
    BY <2>1 DEF EnginesInv, StepsFit, Inside, Step
  <2>3. e \in Locked /\ DOMAIN lock[e] # {} /\ lock[e] \in Seq(Session)
    BY <2>1, <2>2 DEF EnginesInv, WaitersStand, TypeOK
  <2>4. lock[e] # <<>>
    BY <2>3
  <2>5. QED BY <2>1, <2>2, <2>3, <2>4
<1>2. lock[e][1] = s
  BY <1>1, HeadTailProperties DEF GotLock
<1>3. CASE model[e] = "there"
  <2>1. Submit(s, "run") /\ Does(s, "running") /\ lock' = [lock EXCEPT ![e] = LeftLine(lock[e], s)]
    BY <1>3 DEF GotLock, Recheck, Freed
  <2>2. /\ step' = [step EXCEPT ![s] = "running"] /\ step'[s] = "running"
        /\ at' = at /\ turn' = turn /\ answer' = answer /\ decision' = decision
        /\ \A r \in Session \ {s} : at'[r] = at[r] /\ step'[r] = step[r]
    BY <2>1 DEF Does, EnginesInv, TypeOK
  <2>3. AnswersCome' /\ queue' \in Seq(Work) /\ running' \in SUBSET Work /\ lost' = lost
    BY <1>1, <2>1, JobsSubmit DEF Awaiting
  <2>4. /\ DOMAIN lock' = Engine /\ lock' = [f \in Engine |-> lock'[f]]
        /\ \A f \in Engine : lock'[f] = LeftLine(lock[f], s) \/ (lock'[f] = lock[f] /\ at[s] # f)
    BY <2>1 DEF EnginesInv, TypeOK
  <2>5. /\ lock' \in [Engine -> Seq(Session)] /\ LocksHaveHolders' /\ OncePerLine'
        /\ LoadersLead' /\ WaitersStand' /\ NoSttLine'
    BY <2>2, <2>4, LineLeft
  <2>6. TypeOK'
    BY <1>1, <2>2, <2>3, <2>5 DEF EnginesInv, TypeOK, Step
  <2>7. StepsFit' /\ LockedCopies' /\ AnswersFit' /\ OwnDecision'
    BY <1>1, <1>3, <2>2 DEF EnginesInv, StepsFit, Inside, LockedCopies, Loads, AnswersFit, OwnDecision
  <2>8. SttCopies'
    <3>1. ~Loads(s)' /\ model' \in [Engine -> {"missing", "unloaded", "there"}] /\ copies' \in [Engine -> Nat]
      BY <1>1, <2>2 DEF Loads, EnginesInv, TypeOK
    <3>2. QED BY <1>1, <2>2, <3>1, SttCounted
  <2>9. QED BY <2>3, <2>5, <2>6, <2>7, <2>8 DEF EnginesInv
<1>4. CASE model[e] # "there"
  <2>1. Submit(s, "load") /\ Does(s, "loading") /\ lock' = lock
    BY <1>4 DEF GotLock, Recheck
  <2>2. /\ step' = [step EXCEPT ![s] = "loading"] /\ step'[s] = "loading"
        /\ at' = at /\ turn' = turn /\ answer' = answer /\ decision' = decision
        /\ \A r \in Session \ {s} : step'[r] = step[r]
    BY <2>1 DEF Does, EnginesInv, TypeOK
  <2>3. AnswersCome' /\ queue' \in Seq(Work) /\ running' \in SUBSET Work /\ lost' = lost
    BY <1>1, <2>1, JobsSubmit DEF Awaiting
  <2>4. TypeOK'
    BY <1>1, <2>1, <2>2, <2>3 DEF EnginesInv, TypeOK, Step
  <2>5. StepsFit' /\ LockedCopies' /\ AnswersFit' /\ OwnDecision'
    BY <1>1, <1>4, <2>2 DEF EnginesInv, StepsFit, Inside, LockedCopies, Loads, AnswersFit, OwnDecision
  <2>6. \A f \in Engine : \A i \in DOMAIN lock[f] : lock[f][i] = s => f = e /\ i = 1
    <3> SUFFICES ASSUME NEW f \in Engine, NEW i \in DOMAIN lock[f], lock[f][i] = s
                 PROVE  f = e /\ i = 1
      OBVIOUS
    <3>1. f = e
      BY InLine DEF EnginesInv
    <3>2. 1 \in DOMAIN lock[e]
      BY <1>1, EmptySeq, LenProperties
    <3>3. QED BY <1>1, <1>2, <3>1, <3>2 DEF EnginesInv, OncePerLine
  <2>7. LocksHaveHolders'
    <3> SUFFICES ASSUME NEW f \in Engine, NEW i \in DOMAIN lock[f], NEW r, r = lock[f][i]
                 PROVE  /\ at'[r] = f
                        /\ step'[r] \in IF i = 1 THEN {"lock", "loading", "loaded", "failed"}
                                        ELSE {"lock"}
      BY <2>1 DEF LocksHaveHolders
    <3>1. /\ r \in Session /\ at[r] = f
          /\ step[r] \in {"lock", "loading", "loaded", "failed"}
          /\ i # 1 => step[r] = "lock"
      BY InLine DEF EnginesInv
    <3>2. QED BY <2>2, <2>6, <3>1
  <2>8. OncePerLine' /\ NoSttLine' /\ WaitersStand'
    BY <2>1, <2>2 DEF EnginesInv, OncePerLine, NoSttLine, WaitersStand
  <2>9. LoadersLead'
    BY <1>1, <1>2, <2>1, <2>2 DEF EnginesInv, LoadersLead, Loads
  <2>10. SttCopies'
    <3>1. at[s] = "stt" => model["stt"] # "there"
      BY <1>4
    <3>2. model' \in [Engine -> {"missing", "unloaded", "there"}] /\ copies' \in [Engine -> Nat]
      BY <1>1 DEF EnginesInv, TypeOK
    <3>3. QED BY <1>1, <2>2, <3>1, <3>2, SttCounted
  <2>11. QED BY <2>3, <2>4, <2>5, <2>7, <2>8, <2>9, <2>10 DEF EnginesInv
<1>5. QED BY <1>3, <1>4

LEMMA LoadedKeeps ==
  ASSUME EnginesInv, NEW s \in Session, Loaded(s)
  PROVE  EnginesInv'
<1> DEFINE e == at[s]
<1>1. /\ e \in Engine /\ step[s] = "loaded" /\ model[e] # "missing"
      /\ model' = [model EXCEPT ![e] = "there"] /\ copies' = [copies EXCEPT ![e] = copies[e] + 1]
      /\ lock' = [lock EXCEPT ![e] = LeftLine(lock[e], s)]
      /\ server' = server /\ tracked' = tracked /\ Submit(s, "run") /\ Does(s, "running")
  BY DEF Loaded, Freed, opencode, EnginesInv, StepsFit, Inside, Step
<1>2. /\ step' = [step EXCEPT ![s] = "running"] /\ step'[s] = "running"
      /\ at' = at /\ turn' = turn /\ answer' = answer /\ decision' = decision
      /\ \A r \in Session \ {s} : at'[r] = at[r] /\ step'[r] = step[r]
  BY <1>1 DEF Does, EnginesInv, TypeOK
<1>3. /\ model' \in [Engine -> {"missing", "unloaded", "there"}] /\ copies' \in [Engine -> Nat]
      /\ model'[e] = "there" /\ copies'[e] = copies[e] + 1 /\ copies[e] \in Nat
      /\ \A f \in Engine \ {e} : model'[f] = model[f] /\ copies'[f] = copies[f]
  BY <1>1 DEF EnginesInv, TypeOK
<1>4. AnswersCome' /\ queue' \in Seq(Work) /\ running' \in SUBSET Work /\ lost' = lost
  BY <1>1, JobsSubmit DEF Awaiting
<1>5. /\ DOMAIN lock' = Engine /\ lock' = [f \in Engine |-> lock'[f]]
      /\ \A f \in Engine : lock'[f] = LeftLine(lock[f], s) \/ (lock'[f] = lock[f] /\ at[s] # f)
  BY <1>1 DEF EnginesInv, TypeOK
<1>6. /\ lock' \in [Engine -> Seq(Session)] /\ LocksHaveHolders' /\ OncePerLine'
      /\ LoadersLead' /\ WaitersStand' /\ NoSttLine'
  BY <1>2, <1>5, LineLeft
<1>7. TypeOK'
  BY <1>1, <1>2, <1>3, <1>4, <1>6 DEF EnginesInv, TypeOK, Step
<1>8. StepsFit'
  <2> SUFFICES ASSUME NEW r \in Session
               PROVE  /\ step'[r] = "poll" => at[r] = "llm"
                      /\ step'[r] \in Inside => at[r] \in Engine /\ model'[at[r]] # "missing"
                      /\ step'[r] = "running" => model'[at[r]] = "there"
    BY <1>2 DEF StepsFit
  <2>1. \A f \in Engine : /\ model[f] # "missing" => model'[f] # "missing"
                          /\ model[f] = "there" => model'[f] = "there"
    BY <1>3
  <2>2. CASE r = s
    BY <1>1, <1>2, <1>3, <2>2
  <2>3. CASE r # s
    <3>1. step'[r] = step[r] /\ (step[r] = "running" => step[r] \in Inside)
      BY <1>2, <2>3 DEF Inside, Step
    <3>2. /\ step[r] = "poll" => at[r] = "llm"
          /\ step[r] \in Inside => at[r] \in Engine /\ model[at[r]] # "missing"
          /\ step[r] = "running" => model[at[r]] = "there"
      BY DEF EnginesInv, StepsFit
    <3>3. QED BY <2>1, <3>1, <3>2
  <2>4. QED BY <2>2, <2>3
<1>9. LockedCopies'
  <2>1. e \in Locked => model[e] # "there" /\ copies[e] = 0 /\ lock[e][1] = s
    BY <1>1 DEF EnginesInv, LockedCopies, LoadersLead, Loads
  <2>2. \A f \in Locked : copies'[f] = IF model'[f] = "there" THEN 1 ELSE 0
    BY <1>3, <2>1 DEF EnginesInv, LockedCopies, Locked, Engine
  <2>3. ASSUME NEW r \in Session, at[r] \in Locked, step'[r] \in {"loading", "loaded"}
        PROVE  model'[at[r]] # "there"
    <3>1. r # s /\ step[r] \in {"loading", "loaded"} /\ at[r] \in Engine
      BY <1>2, <2>3 DEF Locked, Engine
    <3>2. model[at[r]] # "there" /\ lock[at[r]][1] = r
      BY <2>3, <3>1 DEF EnginesInv, LockedCopies, LoadersLead, Loads
    <3>3. at[r] # e
      BY <2>1, <2>3, <3>1, <3>2
    <3>4. QED BY <1>3, <3>1, <3>2, <3>3
  <2>4. QED BY <1>2, <2>2, <2>3 DEF LockedCopies, Loads
<1>10. SttCopies'
  <2>1. Loads(s) /\ ~Loads(s)'
    BY <1>1, <1>2 DEF Loads
  <2>2. CASE e = "stt"
    BY <1>2, <1>3, <2>1, <2>2, SttCounted
  <2>3. CASE e # "stt"
    <3>1. model'["stt"] = model["stt"] /\ copies'["stt"] = copies["stt"]
      BY <1>3, <2>3 DEF Engine
    <3>2. QED BY <1>2, <1>3, <2>1, <3>1, SttCounted
  <2>4. QED BY <2>2, <2>3
<1>11. AnswersFit' /\ OwnDecision'
  BY <1>2 DEF EnginesInv, AnswersFit, OwnDecision
<1>12. QED
  BY <1>4, <1>6, <1>7, <1>8, <1>9, <1>10, <1>11 DEF EnginesInv

LEMMA FailedKeeps ==
  ASSUME EnginesInv, NEW s \in Session, Failed(s)
  PROVE  EnginesInv'
<1> DEFINE e == at[s]
<1>1. /\ e \in Engine /\ step[s] = "failed" /\ lock' = [lock EXCEPT ![e] = LeftLine(lock[e], s)]
      /\ model' = model /\ copies' = copies /\ turn' = turn /\ answer' = answer
      /\ server' = server /\ tracked' = tracked
      /\ queue' = queue /\ running' = running /\ lost' = lost
  BY DEF Failed, Freed, opencode, executor
<1>2. PICK stage \in {"llm", "idle"} :
        /\ Goes(s, stage)
        /\ decision' \in [Session -> [by : {"none", "router", "fallback"}, of : Nat]]
        /\ \A r \in Session \ {s} : decision'[r] = decision[r]
        /\ stage = "llm" => decision'[s].by = "fallback"
  <2>1. CASE e = "router"
    <3>1. Goes(s, "llm") /\ decision' = [decision EXCEPT ![s] = [by |-> "fallback", of |-> turn[s]]]
      BY <2>1 DEF Failed, Fallback, Decide
    <3>2. [by |-> "fallback", of |-> turn[s]] \in [by : {"none", "router", "fallback"}, of : Nat]
      BY DEF EnginesInv, TypeOK
    <3>3. QED BY <3>1, <3>2 DEF EnginesInv, TypeOK
  <2>2. CASE e # "router"
    BY <2>2 DEF Failed, EnginesInv, TypeOK
  <2>3. QED BY <2>1, <2>2
<1>3. /\ at' = [at EXCEPT ![s] = stage] /\ step' = [step EXCEPT ![s] = "ask"]
      /\ at'[s] = stage /\ step'[s] = "ask"
      /\ \A r \in Session \ {s} : at'[r] = at[r] /\ step'[r] = step[r]
  BY <1>2 DEF Goes, EnginesInv, TypeOK
<1>4. AnswersCome'
  BY <1>1, <1>3, JobsStay DEF Awaiting
<1>5. /\ DOMAIN lock' = Engine /\ lock' = [f \in Engine |-> lock'[f]]
      /\ \A f \in Engine : lock'[f] = LeftLine(lock[f], s) \/ (lock'[f] = lock[f] /\ at[s] # f)
  BY <1>1 DEF EnginesInv, TypeOK
<1>6. /\ lock' \in [Engine -> Seq(Session)] /\ LocksHaveHolders' /\ OncePerLine'
      /\ LoadersLead' /\ WaitersStand' /\ NoSttLine'
  BY <1>3, <1>5, LineLeft
<1>7. TypeOK'
  BY <1>1, <1>2, <1>3, <1>6 DEF EnginesInv, TypeOK, Step, Stage
<1>8. StepsFit' /\ LockedCopies' /\ AnswersFit' /\ OwnDecision'
  <2>1. StepsFit'
    BY <1>1, <1>3 DEF EnginesInv, StepsFit, Inside
  <2>2. LockedCopies'
    BY <1>1, <1>3 DEF EnginesInv, LockedCopies, Loads
  <2>3. AnswersFit' /\ OwnDecision'
    BY <1>1, <1>2, <1>3 DEF EnginesInv, AnswersFit, OwnDecision
  <2>4. QED BY <2>1, <2>2, <2>3
<1>9. SttCopies'
  BY <1>1, <1>3, SttFewer DEF Loads
<1>10. QED
  BY <1>4, <1>6, <1>7, <1>8, <1>9 DEF EnginesInv

LEMMA FinishKeeps ==
  ASSUME EnginesInv, NEW j \in running, Finish(j)
  PROVE  EnginesInv'
<1> DEFINE s == j.by
<1>1. /\ TypeOK /\ JobsAreAwaited /\ j \in Jobs /\ s \in Session
      /\ step[s] \in Awaiting /\ j = Job(s, DoneBy(s))
  BY JobTypes DEF EnginesInv, AnswersCome, JobsAreAwaited, DoneBy, Jobs
<1>2. j.turn = turn[s] /\ j.do = DoneBy(s) /\ j.engine = at[s]
  <2>1. Job(s, DoneBy(s)).turn = turn[s] /\ Job(s, DoneBy(s)).do = DoneBy(s)
        /\ Job(s, DoneBy(s)).engine = at[s]
    BY DEF Job
  <2>2. QED BY <1>1, <2>1
<1>3. PICK done \in {"loaded", "ran", "failed"} :
        /\ step' = [step EXCEPT ![s] = done]
        /\ done = "loaded" => step[s] = "loading"
        /\ done = "ran" => step[s] = "running"
  BY <1>1, <1>2 DEF Finish, DoneBy, Awaiting
<1>4. /\ step'[s] = done /\ \A r \in Session \ {s} : step'[r] = step[r]
      /\ answer' = [answer EXCEPT ![s] = turn[s]] /\ answer'[s] = turn[s]
      /\ \A r \in Session \ {s} : answer'[r] = answer[r]
      /\ model' = model /\ copies' = copies /\ lock' = lock /\ at' = at /\ turn' = turn
      /\ decision' = decision /\ lost' = lost /\ server' = server /\ tracked' = tracked
  BY <1>1, <1>2, <1>3 DEF Finish, TypeOK, engines, opencode
<1>5. /\ queue' \in Seq(Work) /\ running' \in SUBSET Work /\ OneJob'
      /\ Jobs' = Jobs \ {j}
  <2>1. running \ {j} \in SUBSET running /\ running \ (running \ {j}) = {j}
    OBVIOUS
  <2>2. TakesNext /\ running' = (running \ {j}) \cup Started
    BY DEF Finish
  <2>3. QED BY <2>1, <2>2, JobsStart
<1>6. AnswersCome'
  <2>1. ASSUME NEW k \in Jobs' PROVE k \in Jobs /\ k.by \in Session /\ k.by # s
    <3>1. k \in Jobs /\ k.by \in Session /\ k = Job(k.by, DoneBy(k.by))
      BY <1>1, <1>5, JobTypes DEF JobsAreAwaited, DoneBy
    <3>2. QED BY <1>1, <1>5, <3>1
  <2>2. JobsAreAwaited'
    <3> SUFFICES ASSUME NEW k \in Jobs'
                 PROVE  /\ step'[k.by] \in Awaiting
                        /\ k = [engine |-> at'[k.by], by |-> k.by, turn |-> turn'[k.by],
                                do |-> IF step'[k.by] = "loading" THEN "load" ELSE "run"]
      BY DEF JobsAreAwaited, Job
    <3>1. step[k.by] \in Awaiting /\ k = Job(k.by, DoneBy(k.by)) /\ step'[k.by] = step[k.by]
      BY <1>1, <1>4, <2>1 DEF JobsAreAwaited, DoneBy
    <3>2. QED BY <1>4, <3>1 DEF Job, DoneBy
  <2>3. ASSUME NEW r \in Session, step'[r] \in Awaiting PROVE \E k \in Jobs' : k.by = r
    <3>1. r # s /\ step[r] \in Awaiting
      BY <1>3, <1>4, <2>3 DEF Awaiting
    <3>2. PICK k \in Jobs : k.by = r
      BY <3>1 DEF EnginesInv, AnswersCome
    <3>3. QED BY <1>5, <3>1, <3>2
  <2>4. QED BY <1>5, <2>2, <2>3 DEF AnswersCome
<1>7. TypeOK'
  BY <1>1, <1>3, <1>4, <1>5 DEF TypeOK, Step
<1>8. at[s] \in Engine /\ model[at[s]] # "missing"
  BY <1>1 DEF EnginesInv, StepsFit, Inside, Step, Awaiting
<1>9. StepsFit'
  BY <1>3, <1>4, <1>8 DEF EnginesInv, StepsFit, Inside
<1>10. LocksHaveHolders'
  <2> SUFFICES ASSUME NEW e \in Engine, NEW i \in DOMAIN lock[e], NEW r, r = lock[e][i]
               PROVE  /\ at[r] = e
                      /\ step'[r] \in IF i = 1 THEN {"lock", "loading", "loaded", "failed"}
                                      ELSE {"lock"}
    BY <1>4 DEF LocksHaveHolders
  <2>1. /\ r \in Session /\ at[r] = e
        /\ step[r] \in {"lock", "loading", "loaded", "failed"}
        /\ i # 1 => step[r] = "lock"
    BY InLine DEF EnginesInv
  <2>2. r = s => step[s] = "loading" /\ done # "ran"
    BY <1>1, <1>3, <2>1 DEF Awaiting
  <2>3. QED BY <1>4, <2>1, <2>2
<1>11. OncePerLine' /\ NoSttLine' /\ WaitersStand' /\ LoadersLead'
  <2>1. OncePerLine' /\ NoSttLine' /\ WaitersStand'
    BY <1>3, <1>4 DEF EnginesInv, OncePerLine, NoSttLine, WaitersStand
  <2>2. LoadersLead'
    BY <1>3, <1>4 DEF EnginesInv, LoadersLead, Loads
  <2>3. QED BY <2>1, <2>2
<1>12. LockedCopies' /\ AnswersFit' /\ OwnDecision'
  <2>1. LockedCopies'
    BY <1>3, <1>4 DEF EnginesInv, LockedCopies, Loads
  <2>2. AnswersFit' /\ OwnDecision'
    BY <1>3, <1>4 DEF EnginesInv, AnswersFit, OwnDecision
  <2>3. QED BY <2>1, <2>2
<1>13. SttCopies'
  <2>1. Loads(s)' => Loads(s)
    BY <1>3, <1>4 DEF Loads
  <2>2. model' \in [Engine -> {"missing", "unloaded", "there"}] /\ copies' \in [Engine -> Nat]
    BY <1>1, <1>4 DEF TypeOK
  <2>3. UNCHANGED at /\ model'["stt"] = model["stt"] /\ copies'["stt"] = copies["stt"]
    BY <1>4
  <2>4. QED BY <1>1, <1>4, <2>1, <2>2, <2>3, SttCounted
<1>14. QED
  BY <1>6, <1>7, <1>9, <1>10, <1>11, <1>12, <1>13 DEF EnginesInv

\* What depends on the jobs only.
LEMMA SameTurns ==
  ASSUME EnginesInv, UNCHANGED <<engines, turns>>, TypeOK', AnswersCome'
  PROVE  EnginesInv'
<1>1. /\ model' = model /\ copies' = copies /\ lock' = lock /\ at' = at /\ step' = step
      /\ turn' = turn /\ answer' = answer /\ decision' = decision
  BY DEF engines, turns
<1>2. StepsFit' /\ AnswersFit' /\ OwnDecision' /\ LocksHaveHolders'
  BY <1>1 DEF EnginesInv, StepsFit, Inside, AnswersFit, OwnDecision, LocksHaveHolders
<1>3. OncePerLine' /\ NoSttLine' /\ WaitersStand' /\ LoadersLead' /\ LockedCopies'
  BY <1>1 DEF EnginesInv, OncePerLine, NoSttLine, WaitersStand, LoadersLead, LockedCopies, Loads
<1>4. SttCopies'
  BY <1>1 DEF EnginesInv, SttCopies, SttLoaders, InStt, Loads
<1>5. QED
  BY <1>2, <1>3, <1>4 DEF EnginesInv

LEMMA FinishLostKeeps ==
  ASSUME EnginesInv, NEW k \in Kind, FinishLost(k)
  PROVE  EnginesInv'
<1>1. /\ UNCHANGED <<engines, turns>> /\ server' = server /\ tracked' = tracked
      /\ at' = at /\ step' = step /\ turn' = turn /\ TakesNext /\ running' = running \cup Started
  BY DEF FinishLost, opencode, turns
<1>2. lost' \in [Kind -> Nat]
  BY DEF FinishLost, EnginesInv, TypeOK
<1>3. queue' \in Seq(Work) /\ running' \in SUBSET Work /\ OneJob' /\ Jobs' = Jobs
  <2>1. running \in SUBSET running /\ running \ running = {}
    OBVIOUS
  <2>2. /\ queue' \in Seq(Work) /\ running' \in SUBSET Work /\ OneJob'
        /\ Jobs' = Jobs \ (running \ running)
    BY <1>1, <2>1, JobsStart
  <2>3. QED BY <2>1, <2>2
<1>4. TypeOK'
  BY <1>1, <1>2, <1>3 DEF EnginesInv, TypeOK, engines, turns
<1>5. AnswersCome'
  BY <1>1, <1>3 DEF EnginesInv, AnswersCome, JobsAreAwaited, Job
<1>6. QED
  BY <1>1, <1>4, <1>5, SameTurns

-----------------------------------------------------------------------------
LEMMA InitEngines == Init => EnginesInv
<1> SUFFICES ASSUME Init PROVE EnginesInv
  OBVIOUS
<1>1. /\ step = [s \in Session |-> "ask"] /\ at = [s \in Session |-> "idle"]
      /\ lock = [e \in Engine |-> <<>>] /\ copies = [e \in Engine |-> 0]
      /\ queue = <<>> /\ running = {}
      /\ decision = [s \in Session |-> NoDecision]
  BY DEF Init
<1>2. model \in [Engine -> {"missing", "unloaded"}]
  BY DEF Init
<1>3. TypeOK
  <2>1. /\ turn = [s \in Session |-> 0] /\ answer = turn /\ lost = [k \in Kind |-> 0]
        /\ server = "down" /\ tracked = FALSE
    BY DEF Init
  <2>2. queue \in Seq(Work) /\ \A e \in Engine : lock[e] \in Seq(Session)
    BY <1>1
  <2>3. decision \in [Session -> [by : {"none", "router", "fallback"}, of : Nat]]
    BY <1>1 DEF NoDecision
  <2>4. QED BY <1>1, <1>2, <2>1, <2>2, <2>3 DEF TypeOK, Step, Stage
<1>4. AnswersCome
  <2>1. DOMAIN queue = {} /\ Jobs = {}
    BY <1>1 DEF Jobs
  <2>2. QED BY <1>1, <2>1 DEF AnswersCome, OneJob, JobsAreAwaited, Awaiting
<1>5. StepsFit /\ AnswersFit /\ OwnDecision
  BY <1>1 DEF StepsFit, Inside, AnswersFit, OwnDecision, NoDecision
<1>6. LocksHaveHolders /\ OncePerLine /\ NoSttLine /\ WaitersStand /\ LoadersLead
  BY <1>1 DEF LocksHaveHolders, OncePerLine, NoSttLine, WaitersStand, LoadersLead, Loads, Engine
<1>7. LockedCopies
  BY <1>1, <1>2 DEF LockedCopies, Loads, Locked, Engine
<1>8. SttCopies
  <2>1. InStt = {} /\ SttLoaders = {}
    BY <1>1 DEF InStt, SttLoaders
  <2>2. Cardinality(InStt) = 0 /\ Cardinality(SttLoaders) = 0
    BY <2>1, FS_EmptySet
  <2>3. QED BY <1>1, <2>2, EnginesAssumption DEF SttCopies, Engine
<1>9. QED
  BY <1>3, <1>4, <1>5, <1>6, <1>7, <1>8 DEF EnginesInv

LEMMA NextEngines == EnginesInv /\ [Next]_vars => EnginesInv'
<1> SUFFICES ASSUME EnginesInv, [Next]_vars PROVE EnginesInv'
  OBVIOUS
<1>1. ASSUME NEW s \in Session, Speak(s) PROVE EnginesInv'
  <2>1. /\ step[s] = "ask" /\ "queued" \in Stage /\ Goes(s, "queued")
        /\ UNCHANGED <<engines, executor, answer>> /\ decision' = decision
        /\ turn' \in [Session -> Nat] /\ \A r \in Session \ {s} : turn'[r] = turn[r]
        /\ server' = server /\ tracked' = tracked
    <3>1. /\ at[s] = "idle" /\ Goes(s, "queued") /\ turn' = [turn EXCEPT ![s] = turn[s] + 1]
          /\ UNCHANGED <<engines, executor, answer>> /\ decision' = decision
          /\ server' = server /\ tracked' = tracked
      BY <1>1 DEF Speak, opencode
    <3>2. step[s] = "ask"
      BY <3>1 DEF EnginesInv, TypeOK, StepsFit, Inside, Step, Engine
    <3>3. turn' \in [Session -> Nat] /\ \A r \in Session \ {s} : turn'[r] = turn[r]
      BY <3>1 DEF EnginesInv, TypeOK
    <3>4. QED BY <3>1, <3>2, <3>3 DEF Stage
  <2>2. QED BY <2>1, MoveKeeps DEF EnginesInv, TypeOK
<1>2. ASSUME NEW s \in Session, Acquire(s) PROVE EnginesInv'
  <2>1. /\ step[s] = "ask" /\ "stt" \in Stage /\ Goes(s, "stt")
        /\ UNCHANGED <<engines, executor, answer>> /\ decision' = decision
        /\ turn' = turn /\ server' = server /\ tracked' = tracked
        /\ Cardinality(InStt) < Workers
    BY <1>2 DEF Acquire, opencode, InStt, EnginesInv, TypeOK, StepsFit, Inside, Step, Stage, Engine
  <2>2. QED BY <2>1, MoveKeeps DEF EnginesInv, TypeOK
<1>3. ASSUME NEW s \in Session, Skip(s) PROVE EnginesInv'
  <2>1. /\ step[s] = "ask" /\ at[s] \in Engine
        /\ UNCHANGED <<engines, executor, answer>>
        /\ turn' = turn /\ server' = server /\ tracked' = tracked
    BY <1>3 DEF Skip, opencode, EnginesInv, TypeOK, StepsFit, Inside, Step, Engine
  <2>2. CASE at[s] = "router"
    <3>1. /\ "llm" \in Stage /\ Goes(s, "llm")
          /\ decision' = [decision EXCEPT ![s] = [by |-> "fallback", of |-> turn[s]]]
      BY <1>3, <2>2 DEF Skip, Fallback, Decide, Stage
    <3>2. [by |-> "fallback", of |-> turn[s]] \in [by : {"none", "router", "fallback"}, of : Nat]
      BY DEF EnginesInv, TypeOK
    <3>3. /\ decision' \in [Session -> [by : {"none", "router", "fallback"}, of : Nat]]
          /\ decision'[s].by = "fallback" /\ \A r \in Session \ {s} : decision'[r] = decision[r]
      BY <3>1, <3>2 DEF EnginesInv, TypeOK
    <3>4. QED BY <2>1, <3>1, <3>3, MoveKeeps DEF EnginesInv, TypeOK
  <2>3. CASE at[s] # "router"
    <3>1. "idle" \in Stage /\ Goes(s, "idle") /\ decision' = decision
      BY <1>3, <2>3 DEF Skip, Stage
    <3>2. QED BY <2>1, <3>1, MoveKeeps DEF EnginesInv, TypeOK
  <2>4. QED BY <2>2, <2>3
<1>4. ASSUME NEW s \in Session, Ran(s) PROVE EnginesInv'
  <2>1. /\ step[s] = "ran" /\ UNCHANGED <<engines, executor, answer>>
        /\ turn' = turn /\ server' = server /\ tracked' = tracked /\ answer[s] = turn[s]
        /\ {"router", "idle", "llm"} \subseteq Stage
    BY <1>4 DEF Ran, opencode, EnginesInv, AnswersFit, Stage, Engine
  <2>2. CASE (Goes(s, "router") \/ Goes(s, "idle")) /\ decision' = decision
    BY <2>1, <2>2, MoveKeeps DEF EnginesInv, TypeOK
  <2>3. CASE Goes(s, "llm") /\ Decide(s, "router", answer[s])
    <3>1. [by |-> "router", of |-> turn[s]] \in [by : {"none", "router", "fallback"}, of : Nat]
      BY DEF EnginesInv, TypeOK
    <3>2. decision' = [decision EXCEPT ![s] = [by |-> "router", of |-> turn[s]]]
      BY <2>1, <2>3 DEF Decide
    <3>3. /\ decision' \in [Session -> [by : {"none", "router", "fallback"}, of : Nat]]
          /\ decision'[s].of = turn'[s] /\ \A r \in Session \ {s} : decision'[r] = decision[r]
      BY <2>1, <3>1, <3>2 DEF EnginesInv, TypeOK
    <3>4. QED BY <2>1, <2>3, <3>3, MoveKeeps DEF EnginesInv, TypeOK
  <2>4. QED BY <1>4, <2>2, <2>3 DEF Ran
<1>5. ASSUME NEW s \in Session, Ensure(s) \/ Poll(s) \/ GivesUp(s) PROVE EnginesInv'
  <2>1. /\ step[s] \in {"ask", "poll"} /\ at[s] = "llm" /\ UNCHANGED <<engines, executor, answer>>
        /\ turn' = turn /\ decision' = decision
        /\ server' \in {"down", "starting", "up"} /\ tracked' \in BOOLEAN
        /\ {"tts", "idle", "llm"} \subseteq Stage
    BY <1>5 DEF Ensure, Poll, GivesUp, Deadline, Does, opencode, EnginesInv, TypeOK, StepsFit, Stage, Engine
  <2>2. CASE Goes(s, "idle")
    BY <2>1, <2>2, MoveKeeps DEF EnginesInv, TypeOK
  <2>3. CASE Goes(s, "tts")
    BY <2>1, <2>3, MoveKeeps DEF EnginesInv, TypeOK, OwnDecision
  <2>4. CASE Does(s, "poll")
    <3>1. /\ step' = [step EXCEPT ![s] = "poll"] /\ step'[s] = "poll" /\ at' = at
          /\ \A r \in Session \ {s} : step'[r] = step[r]
          /\ model' = model /\ copies' = copies /\ lock' = lock /\ queue' = queue
          /\ running' = running /\ lost' = lost /\ answer' = answer
      BY <2>1, <2>4 DEF Does, engines, executor, EnginesInv, TypeOK
    <3>2. AnswersCome'
      BY <2>1, <3>1, JobsStay DEF Awaiting
    <3>3. TypeOK'
      BY <2>1, <3>1 DEF EnginesInv, TypeOK, Step
    <3>4. StepsFit' /\ LockedCopies' /\ AnswersFit' /\ OwnDecision'
      BY <2>1, <3>1 DEF EnginesInv, StepsFit, Inside, LockedCopies, Loads, AnswersFit, OwnDecision
    <3>5. LocksHaveHolders'
      <4> SUFFICES ASSUME NEW e \in Engine, NEW i \in DOMAIN lock[e], NEW r, r = lock[e][i]
                   PROVE  /\ at[r] = e
                          /\ step'[r] \in IF i = 1 THEN {"lock", "loading", "loaded", "failed"}
                                          ELSE {"lock"}
        BY <3>1 DEF LocksHaveHolders
      <4>1. /\ r \in Session /\ at[r] = e
            /\ step[r] \in {"lock", "loading", "loaded", "failed"}
            /\ i # 1 => step[r] = "lock"
        BY InLine DEF EnginesInv
      <4>2. r # s
        BY <2>1, <4>1
      <4>3. QED BY <3>1, <4>1, <4>2
    <3>6. OncePerLine' /\ NoSttLine' /\ WaitersStand' /\ LoadersLead'
      BY <3>1 DEF EnginesInv, OncePerLine, NoSttLine, WaitersStand, LoadersLead, Loads
    <3>7. SttCopies'
      <4>1. ~Loads(s)' /\ model' \in [Engine -> {"missing", "unloaded", "there"}] /\ copies' \in [Engine -> Nat]
        BY <3>1 DEF Loads, EnginesInv, TypeOK
      <4>2. QED BY <3>1, <4>1, SttCounted
    <3>8. QED BY <3>2, <3>3, <3>4, <3>5, <3>6, <3>7 DEF EnginesInv
  <2>5. QED BY <1>5, <2>2, <2>3, <2>4 DEF Ensure, Poll, GivesUp
<1>6. ASSUME NEW s \in Session, Timeout(s) PROVE EnginesInv'
  <2>1. /\ Abandon(s) /\ Goes(s, "llm") /\ UNCHANGED <<model, copies, turn, answer, opencode>>
        /\ decision' = [decision EXCEPT ![s] = [by |-> "fallback", of |-> turn[s]]]
    BY <1>6 DEF Timeout, Fallback, Decide
  <2>2. [by |-> "fallback", of |-> turn[s]] \in [by : {"none", "router", "fallback"}, of : Nat]
    BY DEF EnginesInv, TypeOK
  <2>3. /\ decision' \in [Session -> [by : {"none", "router", "fallback"}, of : Nat]]
        /\ decision'[s].by = "fallback" /\ \A r \in Session \ {s} : decision'[r] = decision[r]
    BY <2>1, <2>2 DEF EnginesInv, TypeOK
  <2>4. QED BY <2>1, <2>3, AbandonKeeps
<1>7. ASSUME NEW s \in Session, Interrupt(s) PROVE EnginesInv'
  <2>1. /\ Abandon(s) /\ Goes(s, "idle") /\ UNCHANGED <<model, copies, turn, answer, opencode>>
        /\ decision' = decision
    BY <1>7 DEF Interrupt
  <2>2. QED BY <2>1, AbandonKeeps DEF EnginesInv, TypeOK
<1>8. ASSUME ServerChanges \/ UNCHANGED vars PROVE EnginesInv'
  <2>1. /\ UNCHANGED <<engines, turns>> /\ queue' = queue /\ running' = running /\ lost' = lost
        /\ at' = at /\ step' = step /\ turn' = turn
        /\ server' \in {"down", "starting", "up"} /\ tracked' \in BOOLEAN
    BY <1>8 DEF ServerChanges, vars, executor, opencode, turns, EnginesInv, TypeOK
  <2>2. TypeOK'
    BY <2>1 DEF EnginesInv, TypeOK, engines, turns
  <2>3. AnswersCome'
    BY <2>1, JobsStay
  <2>4. QED BY <2>1, <2>2, <2>3, SameTurns
<1>9. QED
  BY <1>1, <1>2, <1>3, <1>4, <1>5, <1>6, <1>7, <1>8, LoadKeeps, GotLockKeeps, LoadedKeeps,
     FailedKeeps, FinishKeeps, FinishLostKeeps
  DEF Next, Steps

-----------------------------------------------------------------------------
LEMMA EnginesAlways == Spec => []EnginesInv
<1>1. QED BY InitEngines, NextEngines, PTL DEF Spec

\* Whoever stands in the line of an engine's load lock is still in a turn that
\* needs that engine, and only the first of a line does anything under the
\* lock: no timeout, interrupt or failed load leaves a lock behind.
THEOREM LocksAreHeldByTurns == Spec => []LocksHaveHolders
<1>1. EnginesInv => LocksHaveHolders
  BY DEF EnginesInv
<1>2. QED BY <1>1, EnginesAlways, PTL

\* However many sessions, threads and installations: the model of an engine
\* that loads under a lock is put in place once, Moonshine's no more often than
\* there are transcriptions at a time, and no job runs on a model that is not
\* there.
THEOREM ModelsAreLoadedFirst == Spec => []ModelsAreInPlace
<1>1. EnginesInv => ModelsAreInPlace
  <2> SUFFICES ASSUME EnginesInv PROVE ModelsAreInPlace
    OBVIOUS
  <2>1. TypeOK
    BY DEF EnginesInv
  <2>2. OneCopy
    <3>1. \A e \in Locked : copies[e] <= 1
      BY DEF EnginesInv, LockedCopies
    <3>2. copies["stt"] <= Workers
      <4>1. InStt \in SUBSET Session /\ SttLoaders \in SUBSET Session
        BY DEF InStt, SttLoaders
      <4>2. /\ Cardinality(SttLoaders) \in Nat /\ copies["stt"] \in Nat /\ Workers \in Nat
            /\ copies["stt"] + Cardinality(SttLoaders) <= Workers
        BY <4>1, SessionSets, EnginesAssumption DEF EnginesInv, SttCopies, TypeOK, Engine
      <4>3. QED BY <4>2
    <3>3. QED BY <3>1, <3>2 DEF OneCopy, Locked, Engine
  <2>3. RunsOnAModel
    <3> SUFFICES ASSUME NEW j \in Jobs
                 PROVE  model[j.engine] = "there" \/ (j.do = "load" /\ model[j.engine] = "unloaded")
      BY DEF RunsOnAModel
    <3>1. /\ j.by \in Session /\ step[j.by] \in Awaiting /\ j = Job(j.by, DoneBy(j.by))
      BY <2>1, JobTypes DEF EnginesInv, AnswersCome, JobsAreAwaited, DoneBy
    <3>2. j.engine = at[j.by] /\ j.do = DoneBy(j.by)
      <4>1. /\ Job(j.by, DoneBy(j.by)).engine = at[j.by]
            /\ Job(j.by, DoneBy(j.by)).do = DoneBy(j.by)
        BY DEF Job
      <4>2. QED BY <3>1, <4>1
    <3>3. at[j.by] \in Engine /\ model[at[j.by]] # "missing"
          /\ (step[j.by] = "running" => model[at[j.by]] = "there")
      BY <3>1 DEF EnginesInv, StepsFit, Inside, Step, Awaiting
    <3>4. QED BY <2>1, <3>1, <3>2, <3>3 DEF TypeOK, DoneBy, Awaiting
  <2>4. QED BY <2>1, <2>2, <2>3 DEF ModelsAreInPlace
<1>2. QED BY <1>1, EnginesAlways, PTL

\* Every job of the executor is awaited by the session and the turn that
\* started it and by nobody else, every wait has its job, and a decision of the
\* router is about the words of its own turn.
THEOREM EveryAnswerIsAwaited == Spec => []AnswersAreForTheirTurn
<1>1. EnginesInv => AnswersAreForTheirTurn
  BY DEF EnginesInv, AnswersAreForTheirTurn
<1>2. QED BY <1>1, EnginesAlways, PTL
=============================================================================
