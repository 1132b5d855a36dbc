----------------------- MODULE MeasurementQueueProofs -----------------------
(***************************************************************************)
(* Proofs about MeasurementQueue, for any number of domains, workers,      *)
(* slots and any queue policy.                                             *)
(***************************************************************************)
EXTENDS MeasurementQueue, FiniteSetTheorems, TLAPS

(* The statements map tables to tables. *)

(* 2^n is a natural number: it counts the subsets of 1..n. *)
LEMMA PowerOfTwoType == ASSUME NEW n \in Nat PROVE 2^n \in Nat
<1>1. IsFiniteSet(1..n) /\ Cardinality(1..n) = n
  <2>1. IsFiniteSet(1..n) /\ Cardinality(1..n) = IF 1 > n THEN 0 ELSE n - 1 + 1
    BY FS_Interval
  <2> QED BY <2>1
<1>2. IsFiniteSet(SUBSET (1..n)) /\ Cardinality(SUBSET (1..n)) = 2^Cardinality(1..n)
  BY <1>1, FS_SUBSET
<1>3. Cardinality(SUBSET (1..n)) \in Nat
  BY <1>2, FS_CardinalityType
<1> QED BY <1>1, <1>2, <1>3

(* The backoff of QueuePolicy.retry_delay is a natural number of seconds. *)
LEMMA RetryDelayType == ASSUME NEW a \in Nat PROVE retry_delay(a) \in Nat
<1> DEFINE e == IF a > 1 THEN a - 1 ELSE 0
<1> DEFINE p == 2^e
<1>1. e \in Nat
  OBVIOUS
<1>2. p \in Nat
  BY <1>1, PowerOfTwoType
<1>3. retry_delay(a) = IF RetryBase * p < RetryMax THEN RetryBase * p ELSE RetryMax
  BY DEF retry_delay
<1> HIDE DEF p
<1>4. RetryBase * p \in Nat
  BY <1>2, PolicyAssumption
<1> QED BY <1>3, <1>4, PolicyAssumption

(* claim() locks the row and counts the attempt. *)
LEMMA ClaimedRowFacts ==
  ASSUME NEW row \in Row, NEW w \in WorkerIds, NEW t \in Int
  PROVE  /\ ClaimedRow(row, w, t) \in Row
         /\ ClaimedRow(row, w, t).state = row.state
         /\ ClaimedRow(row, w, t).attempts = row.attempts + 1
         /\ ClaimedRow(row, w, t).enqueued_at = row.enqueued_at
         /\ ClaimedRow(row, w, t).locked_by = w
         /\ ClaimedRow(row, w, t).locked_at = t
<1> DEFINE n == row.attempts + 1
<1>1. n \in Nat
  BY DEF Row
<1>2. ClaimedRow(row, w, t) = [row EXCEPT !.locked_by = w, !.locked_at = t, !.attempts = n]
  BY DEF ClaimedRow
<1> HIDE DEF n
<1>3. /\ ClaimedRow(row, w, t) \in Row
      /\ ClaimedRow(row, w, t).state = row.state
      /\ ClaimedRow(row, w, t).attempts = n
      /\ ClaimedRow(row, w, t).enqueued_at = row.enqueued_at
      /\ ClaimedRow(row, w, t).locked_by = w
      /\ ClaimedRow(row, w, t).locked_at = t
  BY <1>1, <1>2 DEF Row
<1> QED BY <1>3 DEF n

(* fail() unlocks the row and decides by the job's attempts. *)
LEMMA FailedRowFacts ==
  ASSUME NEW row \in Row, NEW a \in Nat, NEW t \in Int
  PROVE  /\ FailedRow(row, a, t) \in Row
         /\ FailedRow(row, a, t).state = IF a >= MaxAttempts THEN "dead" ELSE "pending"
         /\ FailedRow(row, a, t).attempts = row.attempts
         /\ FailedRow(row, a, t).enqueued_at = row.enqueued_at
         /\ FailedRow(row, a, t).locked_by = Null
         /\ FailedRow(row, a, t).locked_at = Null
<1> DEFINE next == t + (IF Exhausted(a) THEN DeadCooldown ELSE retry_delay(a))
           st == IF Exhausted(a) THEN "dead" ELSE "pending"
<1>1. next \in Int
  BY RetryDelayType, PolicyAssumption
<1>2. st \in {"dead", "pending"} /\ st = IF a >= MaxAttempts THEN "dead" ELSE "pending"
  BY DEF Exhausted
<1>3. FailedRow(row, a, t) = [Unlocked(row) EXCEPT !.state = st, !.next_attempt_at = next]
  BY DEF FailedRow
<1>4. /\ Unlocked(row) \in Row
      /\ Unlocked(row).locked_by = Null
      /\ Unlocked(row).locked_at = Null
      /\ Unlocked(row).attempts = row.attempts
      /\ Unlocked(row).enqueued_at = row.enqueued_at
  BY DEF Unlocked, Row
<1> HIDE DEF next, st
<1>5. /\ FailedRow(row, a, t) \in Row
      /\ FailedRow(row, a, t).state = st
      /\ FailedRow(row, a, t).attempts = row.attempts
      /\ FailedRow(row, a, t).enqueued_at = row.enqueued_at
      /\ FailedRow(row, a, t).locked_by = Null
      /\ FailedRow(row, a, t).locked_at = Null
  BY <1>1, <1>2, <1>3, <1>4 DEF Row
<1> QED BY <1>2, <1>5

(* release() unlocks the row and keeps its state. *)
LEMMA ReleasedRowFacts ==
  ASSUME NEW row \in Row
  PROVE  /\ ReleasedRow(row) \in Row
         /\ ReleasedRow(row).state = row.state
         /\ ReleasedRow(row).enqueued_at = row.enqueued_at
         /\ ReleasedRow(row).locked_by = Null
         /\ ReleasedRow(row).locked_at = Null
<1> DEFINE n == IF row.attempts > 0 THEN row.attempts - 1 ELSE 0
<1>1. n \in Nat
  BY DEF Row
<1>2. /\ Unlocked(row) \in Row
      /\ Unlocked(row).state = row.state
      /\ Unlocked(row).locked_by = Null
      /\ Unlocked(row).locked_at = Null
      /\ Unlocked(row).attempts = row.attempts
      /\ Unlocked(row).enqueued_at = row.enqueued_at
  BY DEF Unlocked, Row
<1>3. ReleasedRow(row) = [Unlocked(row) EXCEPT !.attempts = n]
  BY <1>2 DEF ReleasedRow
<1> HIDE DEF n
<1> QED BY <1>1, <1>2, <1>3 DEF Row

(* A fresh and a missing row are unlocked. *)
LEMMA NewRowFacts ==
  ASSUME NEW t \in Int
  PROVE  /\ FreshRow(t) \in Row /\ NoRow \in Row
         /\ FreshRow(t).state = "pending" /\ NoRow.state = "absent"
         /\ FreshRow(t).locked_by = Null /\ NoRow.locked_by = Null
         /\ FreshRow(t).locked_at = Null /\ NoRow.locked_at = Null
         /\ FreshRow(t).enqueued_at = t /\ NoRow.enqueued_at = 0
  BY DEF FreshRow, NoRow, Row

(* Every statement of pg.py leaves a well-typed table. *)
LEMMA StatementTypes ==
  ASSUME NEW q \in [Domains -> Row], NEW t \in Int, NEW w \in WorkerIds,
         NEW d \in Domains, NEW ds \in SUBSET Domains, NEW a \in Nat
  PROVE  /\ enqueue(q, ds, t) \in [Domains -> Row]
         /\ claim(q, ds, w, t) \in [Domains -> Row]
         /\ complete(q, d, w) \in [Domains -> Row]
         /\ fail(q, d, a, w, t) \in [Domains -> Row]
         /\ release(q, d, w) \in [Domains -> Row]
<1>1. enqueue(q, ds, t) \in [Domains -> Row]
  BY NewRowFacts DEF enqueue
<1>2. claim(q, ds, w, t) \in [Domains -> Row]
  BY ClaimedRowFacts DEF claim
<1>3. complete(q, d, w) \in [Domains -> Row]
  BY NewRowFacts DEF complete
<1>4. fail(q, d, a, w, t) \in [Domains -> Row]
  BY FailedRowFacts DEF fail
<1>5. release(q, d, w) \in [Domains -> Row]
  BY ReleasedRowFacts DEF release
<1> QED BY <1>1, <1>2, <1>3, <1>4, <1>5

-----------------------------------------------------------------------------
(* What Worker._claim may be handed: ready rows, no more than it asked for. *)
LEMMA ClaimableFacts ==
  ASSUME NEW w \in WorkerIds, NEW ds \in Claimable(w)
  PROVE  /\ ds \subseteq ClaimReady(queue, now)
         /\ ds \in SUBSET Domains
         /\ Cardinality(ds) <= free(w)
  BY DEF Claimable, ClaimChoices, ClaimReady

(* The invariant of types is inductive on its own. *)
LEMMA TypeStep == TypeOK /\ [Next]_vars => TypeOK'
<1> SUFFICES ASSUME TypeOK, [Next]_vars PROVE TypeOK'
  OBVIOUS
<1> USE DEF TypeOK
<1>1. CASE UNCHANGED vars
  BY <1>1 DEF vars
<1>2. CASE Tick
  BY <1>2 DEF Tick
<1>3. ASSUME NEW ds \in SUBSET Domains, Enqueue(ds) PROVE TypeOK'
  <2>1. enqueue(queue, ds, now) \in [Domains -> Row]
    BY NewRowFacts DEF enqueue
  <2> QED BY <1>3, <2>1 DEF Enqueue
<1>4. ASSUME NEW w \in WorkerIds, ProcessStep(w) PROVE TypeOK'
  <2>1. CASE Start(w) \/ Stop(w) \/ Exit(w) \/ Crash(w)
    BY <2>1 DEF Start, Stop, Exit, Crash
  <2>2. ASSUME NEW ds \in Claimable(w), queue' = claim(queue, ds, w, now) PROVE queue' \in [Domains -> Row]
    BY <2>2, ClaimableFacts, ClaimedRowFacts DEF claim
  <2>3. CASE Claim(w)
    <3>1. PICK ds \in Claimable(w) :
              /\ queue' = claim(queue, ds, w, now)
              /\ tasks' = tasks \union {TaskFor(w, d) : d \in ds}
      BY <2>3 DEF Claim
    <3>2. \A d \in Domains : TaskFor(w, d) \in Task
      <4> TAKE d \in Domains
      <4>1. queue[d].attempts + 1 \in Nat
        BY DEF Row
      <4> QED BY <4>1 DEF TaskFor, Task
    <3>3. tasks' \subseteq Task
      BY <3>1, <3>2, ClaimableFacts
    <3> QED BY <2>2, <2>3, <3>1, <3>3 DEF Claim
  <2>4. CASE ClaimReplyLost(w)
    BY <2>2, <2>4 DEF ClaimReplyLost
  <2> QED BY <1>4, <2>1, <2>3, <2>4 DEF ProcessStep
<1>5. ASSUME NEW t \in tasks, TaskStep(t) PROVE TypeOK'
  <2>1. t.worker \in WorkerIds /\ t.domain \in Domains /\ t.attempts \in Nat
    BY DEF Task
  <2>2. [t EXCEPT !.phase = "failing"] \in Task
    BY DEF Task
  <2>3. complete(queue, t.domain, t.worker) \in [Domains -> Row]
    BY <2>1, NewRowFacts DEF complete
  <2>4. fail(queue, t.domain, t.attempts, t.worker, now) \in [Domains -> Row]
    BY <2>1, FailedRowFacts DEF fail
  <2>5. release(queue, t.domain, t.worker) \in [Domains -> Row]
    BY <2>1, ReleasedRowFacts DEF release
  <2>6. tasks' \subseteq Task
    BY <1>5, <2>2 DEF TaskStep, Complete, Fail, Raise, RecordReplyLost, RecordError,
                      CancelMeasuring, CancelFailing, ReleaseError, Ended, BeginFailing
  <2>7. queue' \in [Domains -> Row]
    BY <1>5, <2>3, <2>4, <2>5
       DEF TaskStep, Complete, Fail, Raise, RecordReplyLost, RecordError,
           CancelMeasuring, CancelFailing, ReleaseError, CompleteRow, FailRow
  <2>8. UNCHANGED <<now, worker>>
    BY <1>5 DEF TaskStep, Complete, Fail, Raise, RecordReplyLost, RecordError,
                CancelMeasuring, CancelFailing, ReleaseError
  <2> QED BY <2>6, <2>7, <2>8
<1> QED BY <1>1, <1>2, <1>3, <1>4, <1>5 DEF Next

(* Type correctness of the queue and its workers. *)
THEOREM TypeCorrect == Spec => []TypeOK
<1>1. Init => TypeOK
  BY NewRowFacts DEF Init, TypeOK
<1> QED BY <1>1, TypeStep, PTL DEF Spec

-----------------------------------------------------------------------------
(* Why the lock timeout works: a row that claim() may hand out has no task, *)
(* because the lock of a running task has not expired yet.                  *)
LEMMA ReadyHasNoTask ==
  ASSUME IInv, Timely, NEW t \in tasks
  PROVE  t.domain \notin ClaimReady(queue, now)
<1>1. Owns(t) /\ t.since \in Int /\ now \in Int
  BY DEF IInv, ExclusiveProcessing, TypeOK, Task
<1>2. queue[t.domain].locked_at = t.since /\ now <= t.since + MaxRun
  BY <1>1 DEF Owns
<1> QED BY <1>1, <1>2, NullAssumption, PolicyAssumption, WorkerAssumption DEF ClaimReady, Timely

(* A statement that touches a single row leaves the tasks of other domains *)
(* in possession of theirs.                                                *)
LEMMA OwnsElsewhere ==
  ASSUME IInv, TypeOK', now' = now, NEW d \in Domains,
         \A e \in Domains : e # d => queue'[e] = queue[e],
         NEW u \in tasks, u.domain # d
  PROVE  Owns(u)'
<1>1. Owns(u) /\ u.domain \in Domains
  BY DEF IInv, ExclusiveProcessing, TypeOK, Task
<1> QED BY <1>1 DEF Owns

(* A task that ends after its row was unlocked or deleted, or that ends    *)
(* leaving its row alone, keeps the invariant.                             *)
LEMMA EndStep ==
  ASSUME IInv, TypeOK', now' = now, NEW t \in tasks, tasks' = tasks \ {t},
         \A e \in Domains : e # t.domain => queue'[e] = queue[e],
         \/ queue'[t.domain] = queue[t.domain]
         \/ /\ queue'[t.domain].locked_by = Null /\ queue'[t.domain].locked_at = Null
            /\ queue'[t.domain].state = "dead" => queue'[t.domain].attempts >= MaxAttempts
  PROVE  IInv'
<1>1. t.domain \in Domains
  BY DEF IInv, TypeOK, Task
<1>2. LocksPaired'
  BY <1>1 DEF IInv, LocksPaired
<1>3. DeadMeansExhausted'
  BY <1>1 DEF IInv, DeadMeansExhausted
<1>4. ExclusiveProcessing'
  <2>1. ASSUME NEW u \in tasks' PROVE Owns(u)'
    <3>1. u \in tasks /\ u.domain # t.domain
      BY DEF IInv, ExclusiveProcessing
    <3> QED BY <1>1, <3>1, OwnsElsewhere
  <2> QED BY <2>1 DEF IInv, ExclusiveProcessing
<1> QED BY <1>2, <1>3, <1>4 DEF IInv

(* Claiming: rows without a task get a lock, and at most one task each. *)
LEMMA ClaimStep ==
  ASSUME IInv, Timely, TypeOK', NEW w \in WorkerIds, NEW ds \in Claimable(w),
         now' = now, queue' = claim(queue, ds, w, now),
         tasks' = tasks \/ tasks' = tasks \union {TaskFor(w, d) : d \in ds}
  PROVE  IInv'
<1>1. ds \subseteq ClaimReady(queue, now) /\ ds \subseteq Domains
  BY ClaimableFacts
<1>2. /\ queue \in [Domains -> Row] /\ now \in Int
      /\ \A d \in Domains : queue[d] \in Row
  BY DEF IInv, TypeOK
<1>3. \A t \in tasks : t.domain \in Domains /\ t.domain \notin ds
  BY <1>1, ReadyHasNoTask DEF IInv, TypeOK, Task
<1>4. \A d \in Domains : d \notin ds => queue'[d] = queue[d]
  BY DEF claim
<1>5. \A d \in ds : /\ queue'[d] = ClaimedRow(queue[d], w, now)
                    /\ queue'[d].state = "pending"
                    /\ queue'[d].attempts = queue[d].attempts + 1
                    /\ queue'[d].locked_by = w
                    /\ queue'[d].locked_at = now
  BY <1>1, <1>2, ClaimedRowFacts DEF claim, ClaimReady
<1>6. LocksPaired'
  BY <1>2, <1>4, <1>5, NullAssumption DEF IInv, LocksPaired
<1>7. DeadMeansExhausted'
  BY <1>4, <1>5 DEF IInv, DeadMeansExhausted
<1>8. ExclusiveProcessing'
  <2>1. \A t \in tasks : Owns(t)'
    BY <1>3, <1>4 DEF IInv, ExclusiveProcessing, Owns
  <2>2. \A t \in tasks' : t \in tasks \/ \E d \in ds : t = TaskFor(w, d)
    OBVIOUS
  <2>3. ASSUME NEW d \in ds, NEW t, t = TaskFor(w, d) PROVE Owns(t)' /\ t.domain = d
    BY <1>2, <1>5, <2>3, WorkerAssumption DEF Owns, TaskFor
  <2>4. \A t \in tasks' : Owns(t)'
    BY <2>1, <2>2, <2>3
  <2>5. ASSUME NEW t \in tasks', NEW u \in tasks', t.domain = u.domain PROVE t = u
    BY <1>3, <2>2, <2>3, <2>5 DEF IInv, ExclusiveProcessing
  <2> QED BY <2>4, <2>5 DEF ExclusiveProcessing
<1> QED BY <1>6, <1>7, <1>8 DEF IInv

(* Every step preserves the inductive invariant. *)
LEMMA IInvStep == Timely /\ IInv /\ [Next]_vars => IInv'
<1> SUFFICES ASSUME Timely, IInv, [Next]_vars PROVE IInv'
  OBVIOUS
<1> TypeOK /\ TypeOK'
  BY TypeStep DEF IInv
<1>1. CASE UNCHANGED vars
  BY <1>1 DEF vars, IInv, TypeOK, LocksPaired, ExclusiveProcessing, DeadMeansExhausted, Owns
<1>2. CASE Tick
  <2>1. \A t \in tasks : Owns(t)'
    <3> TAKE t \in tasks
    <3>1. Owns(t) /\ t.since \in Int /\ now \in Int /\ now - t.since < MaxRun
      BY <1>2 DEF Tick, IInv, ExclusiveProcessing, TypeOK, Task
    <3> QED BY <1>2, <3>1, WorkerAssumption DEF Tick, Owns
  <2> QED BY <1>2, <2>1 DEF Tick, IInv, LocksPaired, ExclusiveProcessing, DeadMeansExhausted
<1>3. ASSUME NEW ds \in SUBSET Domains, Enqueue(ds) PROVE IInv'
  <2>1. \A d \in Domains :
            \/ queue'[d] = queue[d]
            \/ queue'[d] = FreshRow(now) /\ queue[d].state # "pending"
    BY <1>3 DEF Enqueue, enqueue, Queueable
  <2>2. now \in Int /\ now' = now /\ tasks' = tasks
    BY <1>3 DEF Enqueue, TypeOK
  <2>3. LocksPaired' /\ DeadMeansExhausted'
    BY <2>1, <2>2, NewRowFacts DEF IInv, LocksPaired, DeadMeansExhausted
  <2>4. \A t \in tasks : t.domain \in Domains /\ queue[t.domain].state = "pending"
    BY DEF IInv, ExclusiveProcessing, Owns, TypeOK, Task
  <2>5. ExclusiveProcessing'
    BY <2>1, <2>2, <2>4 DEF IInv, ExclusiveProcessing, Owns
  <2> QED BY <2>3, <2>5 DEF IInv
<1>4. ASSUME NEW w \in WorkerIds, ProcessStep(w) PROVE IInv'
  <2>1. CASE Start(w) \/ Stop(w) \/ Exit(w) \/ Crash(w)
    <3>1. now' = now /\ queue' = queue /\ tasks' \subseteq tasks
      BY <2>1 DEF Start, Stop, Exit, Crash
    <3> QED BY <3>1 DEF IInv, LocksPaired, ExclusiveProcessing, DeadMeansExhausted, Owns
  <2>2. CASE Claim(w)
    <3>1. PICK ds \in Claimable(w) :
              /\ queue' = claim(queue, ds, w, now)
              /\ tasks' = tasks \union {TaskFor(w, d) : d \in ds}
      BY <2>2 DEF Claim
    <3> QED BY <2>2, <3>1, ClaimStep DEF Claim
  <2>3. CASE ClaimReplyLost(w)
    <3>1. PICK ds \in Claimable(w) : queue' = claim(queue, ds, w, now)
      BY <2>3 DEF ClaimReplyLost
    <3> QED BY <2>3, <3>1, ClaimStep DEF ClaimReplyLost
  <2> QED BY <1>4, <2>1, <2>2, <2>3 DEF ProcessStep
<1>5. ASSUME NEW t \in tasks, TaskStep(t) PROVE IInv'
  <2>1. /\ t.worker \in WorkerIds /\ t.domain \in Domains /\ t.attempts \in Nat
        /\ queue \in [Domains -> Row] /\ queue[t.domain] \in Row /\ now \in Int
    BY DEF TypeOK, Task
  <2>2. /\ queue[t.domain].locked_by = t.worker
        /\ queue[t.domain].attempts = t.attempts
        /\ queue[t.domain].state = "pending"
    BY DEF IInv, ExclusiveProcessing, Owns
  <2>3. CASE Complete(t)
    <3>1. queue' = [queue EXCEPT ![t.domain] = NoRow]
      BY <2>2, <2>3 DEF Complete, CompleteRow, complete
    <3> QED BY <2>1, <2>3, <3>1, NewRowFacts, EndStep DEF Complete, Ended
  <2>4. CASE Fail(t)
    <3>1. queue' = [queue EXCEPT ![t.domain] = FailedRow(@, t.attempts, now)]
      BY <2>2, <2>4 DEF Fail, FailRow, fail
    <3> QED BY <2>1, <2>2, <2>4, <3>1, FailedRowFacts, EndStep DEF Fail, Ended
  <2>5. CASE CancelMeasuring(t)
    <3>1. queue' = [queue EXCEPT ![t.domain] = ReleasedRow(@)]
      BY <2>2, <2>5 DEF CancelMeasuring, release
    <3> QED BY <2>1, <2>2, <2>5, <3>1, ReleasedRowFacts, EndStep DEF CancelMeasuring, Ended
  <2>6. CASE RecordError(t) \/ CancelFailing(t) \/ ReleaseError(t)
    BY <2>6, EndStep DEF RecordError, CancelFailing, ReleaseError, Ended
  <2>7. CASE Raise(t)
    <3> DEFINE f == [t EXCEPT !.phase = "failing"]
    <3>1. now' = now /\ queue' = queue /\ tasks' = (tasks \ {t}) \union {f}
      BY <2>7 DEF Raise, BeginFailing
    <3>2. /\ f.domain = t.domain /\ f.worker = t.worker
          /\ f.since = t.since /\ f.attempts = t.attempts
      BY DEF TypeOK, Task
    <3> HIDE DEF f
    <3>3. \A u \in tasks' : Owns(u)'
      BY <3>1, <3>2 DEF IInv, ExclusiveProcessing, Owns
    <3>4. \A u, v \in tasks' : u.domain = v.domain => u = v
      BY <3>1, <3>2 DEF IInv, ExclusiveProcessing
    <3>5. ExclusiveProcessing'
      BY <3>3, <3>4 DEF ExclusiveProcessing
    <3> QED BY <3>1, <3>5 DEF IInv, LocksPaired, DeadMeansExhausted
  <2>8. ~RecordReplyLost(t)
    BY DEF Timely, RecordReplyLost
  <2> QED BY <1>5, <2>3, <2>4, <2>5, <2>6, <2>7, <2>8 DEF TaskStep
<1> QED BY <1>1, <1>2, <1>3, <1>4, <1>5 DEF Next

(* The inductive invariant of the queue, when no task outlives its lock and *)
(* no reply of complete() or fail() is lost.                                *)
THEOREM InductiveInvariant == ASSUME Timely PROVE Spec => []IInv
<1>1. Init => IInv
  <2>1. Init => TypeOK
    BY NewRowFacts DEF Init, TypeOK
  <2> QED BY <2>1, NewRowFacts DEF Init, IInv, LocksPaired, ExclusiveProcessing, DeadMeansExhausted
<1>2. IInv /\ [Next]_vars => IInv'
  BY IInvStep
<1> QED BY <1>1, <1>2, PTL DEF Spec

(* No domain is ever worked on by two tasks, and a task's row is always the *)
(* one it claimed.                                                          *)
THEOREM Exclusive == ASSUME Timely PROVE Spec => []ExclusiveProcessing
<1>1. IInv => ExclusiveProcessing
  BY DEF IInv
<1> QED BY <1>1, InductiveInvariant, PTL

(* A dead letter has used up its attempts and is locked by nobody. *)
THEOREM DeadLettersExhausted == ASSUME Timely PROVE Spec => []DeadMeansExhausted
<1>1. IInv => DeadMeansExhausted
  BY DEF IInv
<1> QED BY <1>1, InductiveInvariant, PTL

-----------------------------------------------------------------------------
(* Without any assumption on timing: the two lock columns agree.            *)
LEMMA LocksStep == TypeOK /\ LocksPaired /\ [Next]_vars => LocksPaired'
<1> SUFFICES ASSUME TypeOK, LocksPaired, [Next]_vars PROVE LocksPaired'
  OBVIOUS
<1>1. \A d \in Domains : queue[d] \in Row
  BY DEF TypeOK
<1>2. now \in Int
  BY DEF TypeOK
<1>3. CASE queue' = queue
  BY <1>3 DEF LocksPaired
<1>4. ASSUME NEW ds \in SUBSET Domains, Enqueue(ds) PROVE LocksPaired'
  BY <1>2, <1>4, NewRowFacts DEF Enqueue, enqueue, LocksPaired
<1>5. ASSUME NEW w \in WorkerIds, NEW ds \in Claimable(w), queue' = claim(queue, ds, w, now)
      PROVE  LocksPaired'
  <2>1. ds \subseteq ClaimReady(queue, now)
    BY ClaimableFacts
  <2>2. \A d \in Domains :
            \/ queue'[d] = queue[d]
            \/ queue'[d] = ClaimedRow(queue[d], w, now) /\ queue[d].state = "pending"
    BY <1>5, <2>1 DEF claim, ClaimReady
  <2> QED BY <1>1, <1>2, <2>2, ClaimedRowFacts, NullAssumption DEF LocksPaired
<1>6. ASSUME NEW t \in tasks, TaskStep(t) PROVE LocksPaired'
  <2>1. t.worker \in WorkerIds /\ t.domain \in Domains /\ t.attempts \in Nat
    BY DEF TypeOK, Task
  <2>2. \A d \in Domains :
            \/ queue'[d] = queue[d]
            \/ queue'[d] = NoRow
            \/ queue'[d] = FailedRow(queue[d], t.attempts, now)
            \/ queue'[d] = ReleasedRow(queue[d]) /\ queue[d].locked_by = t.worker
    BY <1>6, <2>1 DEF TypeOK, TaskStep, Complete, Fail, Raise, RecordReplyLost, RecordError,
                      CancelMeasuring, CancelFailing, ReleaseError, CompleteRow, FailRow,
                      complete, fail, release
  <2>3. NoRow.locked_by = Null /\ NoRow.locked_at = Null
    BY <1>2, NewRowFacts
  <2>4. \A d \in Domains : /\ FailedRow(queue[d], t.attempts, now).locked_by = Null
                           /\ FailedRow(queue[d], t.attempts, now).locked_at = Null
    BY <1>1, <1>2, <2>1, FailedRowFacts
  <2>5. \A d \in Domains : /\ ReleasedRow(queue[d]).locked_by = Null
                           /\ ReleasedRow(queue[d]).locked_at = Null
    BY <1>1, ReleasedRowFacts
  <2> QED BY <2>2, <2>3, <2>4, <2>5 DEF LocksPaired
<1> QED BY <1>3, <1>4, <1>5, <1>6
        DEF Next, vars, Tick, ProcessStep, Start, Stop, Exit, Crash, Claim, ClaimReplyLost

(* What a statement of a task does to the table: nothing, or one change to  *)
(* the task's own row, which then named its worker.                         *)
LEMMA TaskWrites ==
  ASSUME TypeOK, NEW t \in tasks, TaskStep(t), NEW d \in Domains, queue'[d] # queue[d]
  PROVE  t.domain = d /\ queue[d].locked_by = t.worker /\ t \notin tasks'
<1>1. t \in Task /\ t.domain \in Domains /\ queue \in [Domains -> Row]
  BY DEF TypeOK, Task
<1>2. t.domain = d /\ queue[d].locked_by = t.worker
  BY <1>1 DEF TaskStep, Complete, Fail, Raise, RecordReplyLost, RecordError, CancelMeasuring,
              CancelFailing, ReleaseError, CompleteRow, FailRow, complete, fail, release
<1>3. ~Raise(t)
  BY DEF Raise
<1>4. CASE RecordReplyLost(t)
  <2>1. [t EXCEPT !.phase = "failing"].phase = "failing" /\ t.phase = "measuring"
    BY <1>1, <1>4 DEF RecordReplyLost, Task
  <2> QED BY <1>2, <1>4, <2>1 DEF RecordReplyLost, BeginFailing
<1>5. CASE Ended(t)
  BY <1>2, <1>5 DEF Ended
<1>6. RecordReplyLost(t) \/ Ended(t)
  BY <1>3 DEF TaskStep, Complete, Fail, RecordError, CancelMeasuring, CancelFailing, ReleaseError
<1> QED BY <1>2, <1>4, <1>5, <1>6

(* A row under a lock that has not expired is written by a task only. *)
LEMMA LockedWrites ==
  ASSUME TypeOK, LocksPaired, Next, NEW d \in Domains, WritesLocked(d)
  PROVE  \E t \in tasks : TaskStep(t)
<1>1. queue[d] \in Row /\ now \in Int
  BY DEF TypeOK
<1>2. /\ queue[d].state = "pending"
      /\ queue[d].locked_at \in Int
      /\ ~(queue[d].locked_at < now - LockTimeout)
  BY <1>1, PolicyAssumption DEF WritesLocked, LocksPaired, Row
<1>3. d \notin ClaimReady(queue, now)
  BY <1>2, NullAssumption DEF ClaimReady
<1>4. ASSUME NEW ds \in SUBSET Domains, Enqueue(ds) PROVE FALSE
  BY <1>2, <1>4 DEF Enqueue, enqueue, Queueable, WritesLocked
<1>5. ASSUME NEW w \in WorkerIds, NEW ds \in Claimable(w), queue' = claim(queue, ds, w, now) PROVE FALSE
  BY <1>3, <1>5, ClaimableFacts DEF claim, WritesLocked
<1>6. queue' # queue
  BY DEF WritesLocked
<1> QED BY <1>4, <1>5, <1>6 DEF Next, Tick, ProcessStep, Start, Stop, Exit, Crash, Claim, ClaimReplyLost

(* Whatever the timing and the faults, only a task of the process that holds *)
(* an unexpired lock changes the locked row.                                 *)
THEOREM ForeignWritesNever == Spec => NoForeignWrites
<1>1. Init => LocksPaired
  BY NewRowFacts DEF Init, LocksPaired
<1>2. TypeOK /\ LocksPaired /\ [Next]_vars =>
        [\A d \in Domains :
          WritesLocked(d) =>
              \E t \in tasks \ tasks' : t.domain = d /\ t.worker = queue[d].locked_by]_vars
  <2> SUFFICES ASSUME TypeOK, LocksPaired, Next, NEW d \in Domains, WritesLocked(d)
               PROVE  \E t \in tasks \ tasks' : t.domain = d /\ t.worker = queue[d].locked_by
    BY DEF vars
  <2>1. PICK t \in tasks : TaskStep(t)
    BY LockedWrites
  <2> QED BY <2>1, TaskWrites DEF WritesLocked
<1> QED BY <1>1, <1>2, TypeCorrect, LocksStep, PTL DEF Spec, NoForeignWrites

(* When no task outlives its lock, a locked row changes only in the step    *)
(* that ends the task owning it.                                            *)
THEOREM OwnersWrite == ASSUME Timely PROVE Spec => OnlyOwnerWrites
<1>1. IInv /\ [Next]_vars =>
        [\A d \in Domains :
          WritesLocked(d) => \E t \in tasks \ tasks' : t.domain = d /\ Owns(t)]_vars
  <2> SUFFICES ASSUME IInv, Next, NEW d \in Domains, WritesLocked(d)
               PROVE  \E t \in tasks \ tasks' : t.domain = d /\ Owns(t)
    BY DEF vars
  <2>1. PICK t \in tasks : TaskStep(t)
    BY LockedWrites DEF IInv
  <2> QED BY <2>1, TaskWrites DEF WritesLocked, IInv, ExclusiveProcessing
<1> QED BY <1>1, InductiveInvariant, PTL DEF Spec, OnlyOwnerWrites

-----------------------------------------------------------------------------
(* Every row was enqueued before now, and before the task working on it was *)
(* started.                                                                 *)
RequestsPrecede ==
    /\ now >= 0
    /\ \A d \in Domains : queue[d].enqueued_at <= now
    /\ \A t \in tasks : 0 <= t.since /\ queue[t.domain].enqueued_at <= t.since

(* What a step may do to the enqueued_at of a row: keep it, take the row off *)
(* the table, or queue a row that has no task.                               *)
LEMMA EnqueuedAtStep ==
  ASSUME IInv, Next, NEW d \in Domains
  PROVE  \/ queue'[d].enqueued_at = queue[d].enqueued_at
         \/ queue'[d] = NoRow
         \/ queue'[d] = FreshRow(now) /\ queue[d].state # "pending" /\ now' = now /\ tasks' = tasks
<1>1. queue \in [Domains -> Row] /\ queue[d] \in Row /\ now \in Int
  BY DEF IInv, TypeOK
<1>2. CASE queue' = queue
  BY <1>2
<1>3. ASSUME NEW ds \in SUBSET Domains, Enqueue(ds)
      PROVE  \/ queue'[d] = queue[d]
             \/ queue'[d] = FreshRow(now) /\ queue[d].state # "pending" /\ now' = now /\ tasks' = tasks
  BY <1>3 DEF Enqueue, enqueue, Queueable
<1>4. ASSUME NEW w \in WorkerIds, NEW ds \in Claimable(w), queue' = claim(queue, ds, w, now)
      PROVE  queue'[d].enqueued_at = queue[d].enqueued_at
  BY <1>1, <1>4, ClaimedRowFacts DEF claim
<1>5. ASSUME NEW t \in tasks, TaskStep(t)
      PROVE  queue'[d].enqueued_at = queue[d].enqueued_at \/ queue'[d] = NoRow
  <2>1. t.domain \in Domains /\ t.attempts \in Nat
    BY DEF IInv, TypeOK, Task
  <2>2. \/ queue'[d] = queue[d] \/ queue'[d] = NoRow
        \/ queue'[d] = FailedRow(queue[d], t.attempts, now)
        \/ queue'[d] = ReleasedRow(queue[d])
    BY <1>1, <1>5, <2>1
       DEF TaskStep, Complete, Fail, Raise, RecordReplyLost, RecordError, CancelMeasuring,
           CancelFailing, ReleaseError, CompleteRow, FailRow, complete, fail, release
  <2>3. FailedRow(queue[d], t.attempts, now).enqueued_at = queue[d].enqueued_at
    BY <1>1, <2>1, FailedRowFacts
  <2>4. ReleasedRow(queue[d]).enqueued_at = queue[d].enqueued_at
    BY <1>1, ReleasedRowFacts
  <2> QED BY <2>2, <2>3, <2>4
<1> QED BY <1>2, <1>3, <1>4, <1>5
        DEF Next, Tick, ProcessStep, Start, Stop, Exit, Crash, Claim, ClaimReplyLost

(* Where a task of the next state comes from: it was there already, perhaps *)
(* in its other phase, or a claim starts it now.                            *)
LEMMA TaskOrigin ==
  ASSUME IInv, Next, NEW u \in tasks'
  PROVE  \/ \E t \in tasks : u.domain = t.domain /\ u.since = t.since
         \/ u.domain \in Domains /\ u.since = now
<1>1. CASE \E w \in WorkerIds : Claim(w)
  <2> PICK w \in WorkerIds : Claim(w)
    BY <1>1
  <2>1. PICK ds \in Claimable(w) : tasks' = tasks \union {TaskFor(w, d) : d \in ds}
    BY DEF Claim
  <2>2. \A d \in ds : TaskFor(w, d).since = now /\ TaskFor(w, d).domain = d /\ d \in Domains
    BY ClaimableFacts DEF TaskFor
  <2> QED BY <2>1, <2>2
<1>2. ASSUME NEW t \in tasks, BeginFailing(t)
      PROVE  \E v \in tasks : u.domain = v.domain /\ u.since = v.since
  <2>1. t \in Task
    BY DEF IInv, TypeOK
  <2>2. /\ [t EXCEPT !.phase = "failing"].domain = t.domain
        /\ [t EXCEPT !.phase = "failing"].since = t.since
    BY <2>1 DEF Task
  <2> QED BY <1>2, <2>2 DEF BeginFailing
<1>3. CASE tasks' \subseteq tasks
  BY <1>3
<1>4. ASSUME NEW t \in tasks, TaskStep(t) PROVE BeginFailing(t) \/ tasks' \subseteq tasks
  BY <1>4 DEF TaskStep, Complete, Fail, Raise, RecordReplyLost, RecordError,
              CancelMeasuring, CancelFailing, ReleaseError, Ended
<1> QED BY <1>1, <1>2, <1>3, <1>4
        DEF Next, Tick, Enqueue, ProcessStep, Start, Stop, Exit, Crash, ClaimReplyLost

(* Requests keep preceding the measurements that answer them. *)
LEMMA PrecedeStep == Timely /\ IInv /\ RequestsPrecede /\ [Next]_vars => RequestsPrecede'
<1> SUFFICES ASSUME Timely, IInv, RequestsPrecede, Next PROVE RequestsPrecede'
  BY DEF vars, RequestsPrecede
<1>1. /\ now \in Int /\ \A d \in Domains : queue[d].enqueued_at \in Int
      /\ \A t \in tasks : t.domain \in Domains /\ t.since \in Int
      /\ \A t \in tasks : queue[t.domain].state = "pending"
  BY DEF IInv, TypeOK, Task, Row, ExclusiveProcessing, Owns
<1>2. now' \in Int /\ now <= now' /\ (now' = now \/ tasks' = tasks)
  BY <1>1 DEF Next, Tick, Enqueue, ProcessStep, Start, Stop, Exit, Crash, Claim, ClaimReplyLost,
              TaskStep, Complete, Fail, Raise, RecordReplyLost, RecordError,
              CancelMeasuring, CancelFailing, ReleaseError
<1>3. NoRow.enqueued_at = 0 /\ FreshRow(now).enqueued_at = now
  BY <1>1, NewRowFacts
<1>4. \A d \in Domains : queue'[d].enqueued_at <= now
  BY <1>1, <1>3, EnqueuedAtStep DEF RequestsPrecede
<1>5. ASSUME NEW u \in tasks' PROVE 0 <= u.since /\ queue'[u.domain].enqueued_at <= u.since
  <2>1. CASE u.domain \in Domains /\ u.since = now
    BY <1>1, <1>4, <2>1 DEF RequestsPrecede
  <2>2. ASSUME NEW t \in tasks, u.domain = t.domain, u.since = t.since
        PROVE  0 <= u.since /\ queue'[u.domain].enqueued_at <= u.since
    BY <1>1, <1>3, <2>2, EnqueuedAtStep DEF RequestsPrecede
  <2> QED BY <2>1, <2>2, TaskOrigin
<1>6. \A d \in Domains : queue'[d].enqueued_at \in Int
  BY IInvStep DEF IInv, TypeOK, Row
<1> QED BY <1>1, <1>2, <1>4, <1>5, <1>6 DEF RequestsPrecede

(* Only complete() takes a row off the table. *)
LEMMA OnlyCompleteDeletes ==
  ASSUME Timely, IInv, Next, NEW d \in Domains,
         queue[d].state # "absent", queue'[d].state = "absent"
  PROVE  \E t \in tasks : Complete(t) /\ t.domain = d
<1>1. queue \in [Domains -> Row] /\ queue[d] \in Row /\ now \in Int
  BY DEF IInv, TypeOK
<1>2. ASSUME NEW ds \in SUBSET Domains, Enqueue(ds) PROVE FALSE
  BY <1>1, <1>2, NewRowFacts DEF Enqueue, enqueue
<1>3. ASSUME NEW w \in WorkerIds, NEW ds \in Claimable(w), queue' = claim(queue, ds, w, now) PROVE FALSE
  BY <1>1, <1>3, ClaimedRowFacts DEF claim
<1>4. queue' # queue
  OBVIOUS
<1>5. PICK t \in tasks : TaskStep(t)
  BY <1>2, <1>3, <1>4 DEF Next, Tick, ProcessStep, Start, Stop, Exit, Crash, Claim, ClaimReplyLost
<1>6. t.domain \in Domains /\ t.attempts \in Nat
  BY DEF IInv, TypeOK, Task
<1>7. queue'[d] # FailedRow(queue[d], t.attempts, now) /\ queue'[d] # ReleasedRow(queue[d])
  <2>1. FailedRow(queue[d], t.attempts, now).state # "absent"
    BY <1>1, <1>6, FailedRowFacts
  <2>2. ReleasedRow(queue[d]).state = queue[d].state
    BY <1>1, ReleasedRowFacts
  <2> QED BY <2>1, <2>2
<1>8. ~Fail(t) /\ ~CancelMeasuring(t)
  BY <1>1, <1>4, <1>6, <1>7 DEF Fail, FailRow, fail, CancelMeasuring, release
<1>9. Complete(t)
  BY <1>4, <1>5, <1>8 DEF TaskStep, Raise, RecordReplyLost, Timely, RecordError, CancelFailing, ReleaseError
<1> QED BY <1>1, <1>6, <1>9 DEF Complete, CompleteRow, complete

(* When no task outlives its lock, a request is never answered by a         *)
(* measurement that was started before it.                                  *)
THEOREM CompletionsFresh == ASSUME Timely PROVE Spec => FreshCompletion
<1>1. Init => RequestsPrecede
  BY NewRowFacts DEF Init, RequestsPrecede
<1>2. IInv /\ RequestsPrecede /\ [Next]_vars => [\A d \in Domains : CompletedFresh(d)]_vars
  <2> SUFFICES ASSUME IInv, RequestsPrecede, Next, NEW d \in Domains,
                      queue[d].state # "absent", queue'[d].state = "absent"
               PROVE  \E t \in tasks \ tasks' :
                          /\ t.domain = d
                          /\ t.phase = "measuring"
                          /\ t.since >= queue[d].enqueued_at
    BY DEF vars, CompletedFresh
  <2>1. PICK t \in tasks : Complete(t) /\ t.domain = d
    BY OnlyCompleteDeletes
  <2>2. t.since \in Int /\ queue[d].enqueued_at \in Int
    BY DEF IInv, TypeOK, Task, Row
  <2> QED BY <2>1, <2>2 DEF Complete, Ended, RequestsPrecede
<1>3. IInv /\ RequestsPrecede /\ [Next]_vars => RequestsPrecede'
  BY PrecedeStep
<1> QED BY <1>1, <1>2, <1>3, InductiveInvariant, PTL DEF Spec, FreshCompletion

-----------------------------------------------------------------------------
(* The refinement: what the queue and its workers do is what the board of   *)
(* MeasurementJobs allows.                                                  *)
HasTask(d) == \E t \in tasks : t.domain = d

(* The abstract state of a domain, by the state of its row and its task. *)
LEMMA JobStates ==
  ASSUME IInv, NEW d \in Domains
  PROVE  /\ queue[d].state \in {"absent", "pending", "dead"}
         /\ queue[d].state = "absent" => JobState(d) = "idle"
         /\ queue[d].state = "dead" => JobState(d) = "parked"
         /\ queue[d].state = "pending" /\ HasTask(d) => JobState(d) = "running"
         /\ queue[d].state = "pending" /\ ~HasTask(d) => JobState(d) = "waiting"
         /\ HasTask(d) => queue[d].state = "pending"
<1>1. queue[d].state \in {"absent", "pending", "dead"}
  BY DEF IInv, TypeOK, Row
<1>2. HasTask(d) => queue[d].state = "pending"
  BY DEF IInv, HasTask, ExclusiveProcessing, Owns
<1> QED BY <1>1, <1>2 DEF JobState, HasTask

(* The same of the next state. *)
LEMMA NextJobStates ==
  ASSUME IInv', NEW d \in Domains
  PROVE  /\ queue'[d].state = "absent" => JobState(d)' = "idle"
         /\ queue'[d].state = "dead" => JobState(d)' = "parked"
         /\ queue'[d].state = "pending" /\ HasTask(d)' => JobState(d)' = "running"
         /\ queue'[d].state = "pending" /\ ~HasTask(d)' => JobState(d)' = "waiting"
  BY DEF JobState, HasTask

(* A domain whose row keeps its state and which keeps its task, if it has   *)
(* one, stays where it is on the board.                                     *)
LEMMA SameJob ==
  ASSUME NEW d \in Domains, queue'[d].state = queue[d].state, HasTask(d)' <=> HasTask(d)
  PROVE  JobState(d)' = JobState(d)
  BY DEF JobState, HasTask

(* A step of the board, domain by domain. *)
LEMMA MoveStep ==
  ASSUME NEW ds \in SUBSET Domains, NEW from, NEW to,
         \A d \in ds : JobState(d) \in from /\ JobState(d)' = to,
         \A d \in Domains \ ds : JobState(d)' = JobState(d)
  PROVE  Jobs!Move(ds, from, to)
  BY DEF Jobs!Move, jobOf

(* A step that moves no domain. *)
LEMMA StutterStep ==
  ASSUME \A d \in Domains : queue'[d].state = queue[d].state /\ (HasTask(d)' <=> HasTask(d))
  PROVE  UNCHANGED jobOf
<1>1. \A d \in Domains : JobState(d)' = JobState(d)
  BY SameJob
<1> QED BY <1>1 DEF jobOf

(* The end of a task is, for its domain, the end of being measured. *)
LEMMA EndedJob ==
  ASSUME IInv, NEW t \in tasks, Ended(t), NEW d \in Domains
  PROVE  HasTask(d)' <=> HasTask(d) /\ d # t.domain
  BY DEF HasTask, Ended, IInv, ExclusiveProcessing

(* A task that ends and leaves a pending row gives its domain back. *)
LEMMA GiveBackStep ==
  ASSUME IInv, IInv', NEW t \in tasks, Ended(t), queue'[t.domain].state = "pending",
         \A e \in Domains : e # t.domain => queue'[e] = queue[e]
  PROVE  Jobs!GiveBack({t.domain})
<1>1. t.domain \in Domains /\ HasTask(t.domain)
  BY DEF IInv, TypeOK, Task, HasTask
<1>2. JobState(t.domain) = "running"
  BY <1>1, JobStates
<1>3. JobState(t.domain)' = "waiting"
  BY <1>1, EndedJob, NextJobStates
<1>4. \A d \in Domains \ {t.domain} : JobState(d)' = JobState(d)
  BY EndedJob, SameJob
<1> QED BY <1>1, <1>2, <1>3, <1>4, MoveStep DEF Jobs!GiveBack

(* Every step of the queue is a step of the board or leaves it alone. *)
LEMMA JobsStep == Timely /\ IInv /\ IInv' /\ [Next]_vars => [Jobs!JobNext]_jobOf
<1> SUFFICES ASSUME Timely, IInv, IInv', [Next]_vars PROVE Jobs!JobNext \/ UNCHANGED jobOf
  OBVIOUS
<1>1. CASE UNCHANGED <<queue, tasks>>
  BY <1>1, StutterStep DEF HasTask
<1>2. ASSUME NEW ds \in SUBSET Domains, Enqueue(ds) PROVE Jobs!JobNext
  <2> DEFINE Q == Queueable(queue, ds, now)
  <2>1. Q \in SUBSET Domains /\ \A d \in Q : queue[d].state \in {"absent", "dead"}
    BY DEF Queueable
  <2>2. \A d \in Q : queue'[d] = FreshRow(now)
    BY <1>2, <2>1 DEF Enqueue, enqueue
  <2>3. \A d \in Domains \ Q : queue'[d] = queue[d]
    BY <1>2 DEF Enqueue, enqueue
  <2>4. \A d \in Domains : HasTask(d)' <=> HasTask(d)
    BY <1>2 DEF Enqueue, HasTask
  <2> HIDE DEF Q
  <2>5. \A d \in Domains \ Q : JobState(d)' = JobState(d)
    BY <2>3, <2>4, SameJob
  <2>6. FreshRow(now).state = "pending"
    BY NewRowFacts DEF IInv, TypeOK
  <2>7. \A d \in Q : JobState(d) \in {"idle", "parked"} /\ ~HasTask(d)
    BY <2>1, JobStates
  <2>8. \A d \in Q : JobState(d)' = "waiting"
    BY <2>1, <2>2, <2>4, <2>6, <2>7, NextJobStates
  <2>9. Jobs!Request(Q)
    BY <2>1, <2>5, <2>7, <2>8, MoveStep DEF Jobs!Request
  <2> QED BY <2>1, <2>9 DEF Jobs!JobNext
<1>3. ASSUME NEW w \in WorkerIds, NEW ds \in Claimable(w), queue' = claim(queue, ds, w, now)
      PROVE  /\ ds \in SUBSET Domains
             /\ \A d \in Domains : queue'[d].state = queue[d].state
             /\ \A d \in ds : queue[d].state = "pending" /\ ~HasTask(d)
  <2>1. ds \subseteq ClaimReady(queue, now) /\ ds \in SUBSET Domains
    BY ClaimableFacts
  <2>2. now \in Int /\ \A d \in Domains : queue[d] \in Row
    BY DEF IInv, TypeOK
  <2>3. \A d \in Domains : queue'[d].state = queue[d].state
    BY <1>3, <2>2, ClaimedRowFacts DEF claim
  <2>4. \A d \in ds : queue[d].state = "pending"
    BY <2>1 DEF ClaimReady
  <2>5. \A d \in ds : ~HasTask(d)
    BY <2>1, ReadyHasNoTask DEF HasTask
  <2> QED BY <2>1, <2>3, <2>4, <2>5
<1>4. ASSUME NEW w \in WorkerIds, Claim(w) PROVE Jobs!JobNext
  <2>1. PICK ds \in Claimable(w) : /\ queue' = claim(queue, ds, w, now)
                                   /\ tasks' = tasks \union {TaskFor(w, d) : d \in ds}
    BY <1>4 DEF Claim
  <2>2. /\ ds \in SUBSET Domains
        /\ \A d \in Domains : queue'[d].state = queue[d].state
        /\ \A d \in ds : queue[d].state = "pending" /\ ~HasTask(d)
    BY <1>3, <2>1
  <2>3. \A d \in ds : TaskFor(w, d).domain = d
    BY DEF TaskFor
  <2>4. \A d \in Domains : HasTask(d)' <=> HasTask(d) \/ d \in ds
    BY <2>1, <2>3 DEF HasTask
  <2>5. \A d \in Domains \ ds : JobState(d)' = JobState(d)
    BY <2>2, <2>4, SameJob
  <2>6. \A d \in ds : JobState(d) = "waiting"
    BY <2>2, JobStates
  <2>7. \A d \in ds : JobState(d)' = "running"
    BY <2>2, <2>4, NextJobStates
  <2>8. Jobs!Take(ds)
    BY <2>2, <2>5, <2>6, <2>7, MoveStep DEF Jobs!Take
  <2> QED BY <2>2, <2>8 DEF Jobs!JobNext
<1>5. ASSUME NEW w \in WorkerIds, ClaimReplyLost(w) PROVE UNCHANGED jobOf
  <2>1. PICK ds \in Claimable(w) : queue' = claim(queue, ds, w, now)
    BY <1>5 DEF ClaimReplyLost
  <2>2. \A d \in Domains : queue'[d].state = queue[d].state
    BY <1>3, <2>1
  <2> QED BY <1>5, <2>2, StutterStep DEF ClaimReplyLost, HasTask
<1>6. ASSUME NEW w \in WorkerIds, Crash(w) PROVE Jobs!JobNext
  <2> DEFINE ds == {t.domain : t \in TasksOf(w)}
  <2>1. ds \in SUBSET Domains /\ \A d \in ds : HasTask(d)
    BY DEF TasksOf, HasTask, IInv, TypeOK, Task
  <2>2. \A d \in Domains : HasTask(d)' <=> HasTask(d) /\ d \notin ds
    BY <1>6 DEF Crash, HasTask, TasksOf, IInv, ExclusiveProcessing
  <2> HIDE DEF ds
  <2>3. queue' = queue
    BY <1>6 DEF Crash
  <2>4. \A d \in Domains \ ds : JobState(d)' = JobState(d)
    BY <2>2, <2>3, SameJob
  <2>5. \A d \in ds : JobState(d) = "running" /\ queue[d].state = "pending"
    BY <2>1, JobStates
  <2>6. \A d \in ds : JobState(d)' = "waiting"
    BY <2>1, <2>2, <2>3, <2>5, NextJobStates
  <2>7. Jobs!GiveBack(ds)
    BY <2>1, <2>4, <2>5, <2>6, MoveStep DEF Jobs!GiveBack
  <2> QED BY <2>1, <2>7 DEF Jobs!JobNext
<1>7. ASSUME NEW t \in tasks, TaskStep(t) PROVE Jobs!JobNext \/ UNCHANGED jobOf
  <2>1. /\ t.domain \in Domains /\ t.attempts \in Nat /\ now \in Int
        /\ queue \in [Domains -> Row] /\ queue[t.domain] \in Row
        /\ HasTask(t.domain)
    BY DEF IInv, TypeOK, Task, HasTask
  <2>2. queue[t.domain].locked_by = t.worker /\ queue[t.domain].state = "pending"
    BY DEF IInv, ExclusiveProcessing, Owns
  <2>3. JobState(t.domain) = "running"
    BY <2>1, <2>2, JobStates
  <2>4. ASSUME Ended(t), \A e \in Domains : e # t.domain => queue'[e] = queue[e]
        PROVE  /\ \A d \in Domains \ {t.domain} : JobState(d)' = JobState(d)
               /\ ~HasTask(t.domain)'
    BY <2>1, <2>4, EndedJob, SameJob
  <2>5. CASE Complete(t)
    <3>1. Ended(t) /\ queue' = [queue EXCEPT ![t.domain] = NoRow]
      BY <2>2, <2>5 DEF Complete, CompleteRow, complete
    <3>2. queue'[t.domain].state = "absent"
      BY <2>1, <3>1, NewRowFacts
    <3>3. JobState(t.domain)' = "idle"
      BY <2>1, <3>2, NextJobStates
    <3>4. Jobs!Finish(t.domain)
      BY <2>1, <2>3, <2>4, <3>1, <3>3, MoveStep DEF Jobs!Finish
    <3> QED BY <2>1, <3>4 DEF Jobs!JobNext
  <2>6. CASE Fail(t)
    <3>1. Ended(t) /\ queue' = [queue EXCEPT ![t.domain] = FailedRow(@, t.attempts, now)]
      BY <2>2, <2>6 DEF Fail, FailRow, fail
    <3>2. queue'[t.domain].state \in {"dead", "pending"}
      BY <2>1, <3>1, FailedRowFacts
    <3>3. CASE queue'[t.domain].state = "dead"
      <4>1. JobState(t.domain)' = "parked"
        BY <2>1, <3>3, NextJobStates
      <4>2. Jobs!Park(t.domain)
        BY <2>1, <2>3, <2>4, <3>1, <4>1, MoveStep DEF Jobs!Park
      <4> QED BY <2>1, <4>2 DEF Jobs!JobNext
    <3>4. CASE queue'[t.domain].state = "pending"
      <4>1. Jobs!GiveBack({t.domain})
        BY <2>1, <3>1, <3>4, GiveBackStep
      <4> QED BY <2>1, <4>1 DEF Jobs!JobNext
    <3> QED BY <3>2, <3>3, <3>4
  <2>7. CASE CancelMeasuring(t)
    <3>1. Ended(t) /\ queue' = [queue EXCEPT ![t.domain] = ReleasedRow(@)]
      BY <2>2, <2>7 DEF CancelMeasuring, release
    <3>2. queue'[t.domain].state = "pending"
      BY <2>1, <2>2, <3>1, ReleasedRowFacts
    <3>3. Jobs!GiveBack({t.domain})
      BY <2>1, <3>1, <3>2, GiveBackStep
    <3> QED BY <2>1, <3>3 DEF Jobs!JobNext
  <2>8. CASE RecordError(t) \/ CancelFailing(t) \/ ReleaseError(t)
    <3>1. Ended(t) /\ queue' = queue
      BY <2>8 DEF RecordError, CancelFailing, ReleaseError
    <3>2. Jobs!GiveBack({t.domain})
      BY <2>2, <3>1, GiveBackStep
    <3> QED BY <2>1, <3>2 DEF Jobs!JobNext
  <2>9. CASE Raise(t)
    <3> DEFINE f == [t EXCEPT !.phase = "failing"]
    <3>1. f.domain = t.domain
      BY DEF IInv, TypeOK, Task
    <3>2. queue' = queue /\ tasks' = (tasks \ {t}) \union {f}
      BY <2>9 DEF Raise, BeginFailing
    <3> HIDE DEF f
    <3>3. \A d \in Domains : HasTask(d)' <=> HasTask(d)
      BY <3>1, <3>2 DEF HasTask
    <3> QED BY <3>2, <3>3, StutterStep
  <2>10. ~RecordReplyLost(t)
    BY DEF Timely, RecordReplyLost
  <2> QED BY <1>7, <2>5, <2>6, <2>7, <2>8, <2>9, <2>10 DEF TaskStep
<1>8. Tick \/ (\E w \in WorkerIds : Start(w) \/ Stop(w) \/ Exit(w)) => UNCHANGED <<queue, tasks>>
  BY DEF Tick, Start, Stop, Exit
<1> QED BY <1>1, <1>2, <1>4, <1>5, <1>6, <1>7, <1>8 DEF Next, ProcessStep, vars

(* When no task outlives its lock, the queue and its workers implement the *)
(* board: no request is lost, none is taken twice, and a domain leaves the *)
(* board only through a measurement of it.                                 *)
THEOREM QueueImplementsJobs == ASSUME Timely PROVE Spec => ImplementsJobs
<1>1. Init => Jobs!JobInit
  <2> SUFFICES ASSUME Init PROVE jobOf = [d \in Domains |-> "idle"]
    BY DEF Jobs!JobInit
  <2>1. \A d \in Domains : queue[d].state = "absent"
    BY DEF Init, NoRow
  <2> QED BY <2>1 DEF jobOf, JobState
<1>2. IInv /\ IInv' /\ [Next]_vars => [Jobs!JobNext]_jobOf
  BY JobsStep
<1> QED BY <1>1, <1>2, InductiveInvariant, PTL DEF Spec, ImplementsJobs, Jobs!JobSpec
=============================================================================
