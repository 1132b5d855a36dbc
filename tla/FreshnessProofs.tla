-------------------------- MODULE FreshnessProofs --------------------------
(***************************************************************************)
(* Proofs about Freshness, for any settings of the services.               *)
(***************************************************************************)
EXTENDS Freshness, FiniteSetTheorems, TLAPS

(* What a task carries.  An answer is no older than the measurement, and a *)
(* resolved one that was stored renewed the records within it.             *)
TaskInv ==
    \A t \in tasks :
        /\ t.phase # "asking" => t.outcome \in Outcomes
        /\ t.phase # "stored" => t.answered >= -t.age
        /\ t.phase = "stored" /\ t.outcome = "resolved" /\ records # Null =>
              records.until >= Ttl - t.age

(* The records count down from a store; the answer was up to MaxRun older. *)
DataInv ==
    /\ records # Null => domain # Null
    /\ Served => records.answered >= records.until - Ttl - MaxRun

(* The records are as old as measured_at says, or older: then the last     *)
(* store was a failed one.                                                 *)
Behind ==
    records # Null /\ domain.measured_at # Null /\ records.until < Ttl + domain.measured_at

(* A failed store keeps the domain out of MayRetry for longer than the     *)
(* measurements it overlapped may last.                                    *)
BehindInv ==
    Behind => \A t \in tasks : t.phase = "stored" =>
                 /\ domain.retry_after # Null /\ domain.retry_after > 0
                 /\ t.age >= FailedRetry - domain.retry_after

Usual(row) ==
    /\ row.state # "dead"
    /\ row.state = "pending" =>
          /\ row.next_attempt_at <= 0
          /\ row.locked_at # Null => \E t \in tasks : t.worker = row.locked_by

(* While steady nothing fails: what is queued can be claimed or is being   *)
(* measured, and every store renews the records.                           *)
UsualInv ==
    steady =>
        /\ records # Null /\ Active /\ MayRetry /\ ~Behind
        /\ \A t \in tasks : t.phase = "stored" => t.outcome = "resolved"
        /\ Usual(queue[Name])

(* ... and either the records outlast the next scan and a measurement, or  *)
(* the scan has picked the domain, or it is queued, or it is measured.     *)
AheadInv ==
    steady =>
        \/ records.until > MaxRun + ScanPeriod - scan.age
        \/ scan.picked /\ records.until > MaxRun
        \/ Name \in ClaimReady(queue, 0) /\ records.until > MaxRun
        \/ \E t \in tasks : t.phase # "stored" /\ records.until > MaxRun - t.age

IInv == TypeOK /\ TaskInv /\ DataInv /\ BehindInv /\ UsualInv /\ AheadInv
-----------------------------------------------------------------------------
(* The settings are numbers. *)
LEMMA Settings ==
  /\ Name \in Domains /\ \A d \in Domains : d = Name
  /\ Ttl \in Nat /\ Lead \in Nat /\ MinRemeasure \in Nat /\ Window \in Nat
  /\ FailedRetry \in Nat /\ NegativeRetry \in Nat /\ Retention \in Nat
  /\ ScanPeriod \in Nat /\ MaxRun \in Nat /\ FlushDelay \in Nat /\ LockTimeout \in Nat
  /\ MaxAttempts \in Nat
  /\ Null \notin Int /\ Null \notin DomainRow /\ Null \notin Records
BY FreshnessAssumption, PolicyAssumption, NullAssumption

(* 2^n is a natural number: it counts the subsets of 1..n. *)
LEMMA PowerOfTwoType == ASSUME NEW n \in Nat PROVE 2^n \in Nat
<1>1. IsFiniteSet(1..n) /\ Cardinality(1..n) = n
  <2>1. IsFiniteSet(1..n) /\ Cardinality(1..n) = IF 1 > n THEN 0 ELSE n - 1 + 1
    BY FS_Interval
  <2> QED BY <2>1
<1>2. IsFiniteSet(SUBSET (1..n)) /\ Cardinality(SUBSET (1..n)) = 2^Cardinality(1..n)
  BY <1>1, FS_SUBSET
<1>3. Cardinality(SUBSET (1..n)) \in Nat
  BY <1>2, FS_CardinalityType
<1> QED BY <1>1, <1>2, <1>3

(* fail() leaves a row, dead or waiting for its next attempt. *)
LEMMA FailedRowType ==
  ASSUME NEW row \in Row, NEW a \in Nat PROVE FailedRow(row, a, 0) \in Row
<1> DEFINE e == IF a > 1 THEN a - 1 ELSE 0
           p == 2^e
           delay == IF RetryBase * p < RetryMax THEN RetryBase * p ELSE RetryMax
           next == 0 + (IF Exhausted(a) THEN DeadCooldown ELSE delay)
           st == IF Exhausted(a) THEN "dead" ELSE "pending"
<1>1. p \in Nat
  <2>1. e \in Nat
    OBVIOUS
  <2> QED BY <2>1, PowerOfTwoType
<1> HIDE DEF p
<1>2. delay \in Nat
  <2>1. RetryBase * p \in Nat
    BY <1>1, PolicyAssumption
  <2> QED BY <2>1, PolicyAssumption
<1> HIDE DEF delay
<1>3. next \in Int /\ st \in {"dead", "pending"}
  BY <1>2, PolicyAssumption
<1>4. FailedRow(row, a, 0) = [Unlocked(row) EXCEPT !.state = st, !.next_attempt_at = next]
  BY DEF FailedRow, retry_delay, delay, p
<1>5. Unlocked(row) \in Row
  BY DEF Unlocked, Row
<1> HIDE DEF next, st
<1> QED BY <1>3, <1>4, <1>5 DEF Row

(* enqueue() gives a domain without a row a fresh one; a pending row stays *)
(* as it is, locked or not.                                                *)
LEMMA EnqueueFacts ==
  ASSUME queue \in [Domains -> Row]
  PROVE  /\ enqueue(queue, {Name}, 0) \in [Domains -> Row]
         /\ queue[Name].state = "absent" => enqueue(queue, {Name}, 0)[Name] = FreshRow(0)
         /\ queue[Name].state = "pending" => enqueue(queue, {Name}, 0)[Name] = queue[Name]
         /\ FreshRow(0).state = "pending" /\ FreshRow(0).next_attempt_at = 0
         /\ FreshRow(0).locked_at = Null
<1>1. FreshRow(0) \in Row /\ FreshRow(0).state = "pending" /\ FreshRow(0).next_attempt_at = 0
      /\ FreshRow(0).locked_at = Null
  BY DEF FreshRow, Row
<1> QED BY <1>1, Settings DEF enqueue, Queueable

(* The UPDATE of claim() on one row. *)
LEMMA ClaimedRowFacts ==
  ASSUME NEW row \in Row, NEW w \in WorkerIds, NEW t \in Int
  PROVE  /\ ClaimedRow(row, w, t) \in Row
         /\ ClaimedRow(row, w, t).state = row.state
         /\ ClaimedRow(row, w, t).attempts = row.attempts + 1
         /\ ClaimedRow(row, w, t).next_attempt_at = row.next_attempt_at
         /\ ClaimedRow(row, w, t).locked_by = w
<1> DEFINE n == row.attempts + 1
<1>1. n \in Nat
  BY DEF Row
<1>2. ClaimedRow(row, w, t) = [row EXCEPT !.locked_by = w, !.locked_at = t, !.attempts = n]
  BY DEF ClaimedRow
<1> HIDE DEF n
<1>3. /\ ClaimedRow(row, w, t) \in Row
      /\ ClaimedRow(row, w, t).state = row.state
      /\ ClaimedRow(row, w, t).attempts = n
      /\ ClaimedRow(row, w, t).next_attempt_at = row.next_attempt_at
      /\ ClaimedRow(row, w, t).locked_by = w
  BY <1>1, <1>2 DEF Row
<1> QED BY <1>3 DEF n

(* claim() locks the row; nothing else of it changes but the attempts. *)
LEMMA ClaimFacts ==
  ASSUME queue \in [Domains -> Row], NEW w \in WorkerIds
  PROVE  LET q == Capped(claim(queue, {Name}, w, 0))
         IN  /\ q \in [Domains -> Row] /\ q[Name].locked_by = w
             /\ q[Name].state = queue[Name].state
             /\ q[Name].next_attempt_at = queue[Name].next_attempt_at
             /\ NewTask(w) \in Tasks /\ NewTask(w).worker = w /\ NewTask(w).age = 0
             /\ NewTask(w).phase = "asking" /\ NewTask(w).answered = 0
<1> DEFINE r == queue[Name]
           n == r.attempts + 1
           m == IF n > MaxAttempts THEN MaxAttempts ELSE n
           c == claim(queue, {Name}, w, 0)
           q == Capped(c)
<1>1. r \in Row
  BY Settings
<1>2. n \in Nat /\ m \in Nat
  BY <1>1, Settings DEF Row
<1>3. c = [d \in Domains |-> ClaimedRow(queue[d], w, 0)]
  BY Settings DEF claim
<1> DEFINE cr == c[Name]
<1>4. cr = ClaimedRow(r, w, 0)
  BY <1>3, Settings
<1>6. /\ cr \in Row /\ cr.attempts = n /\ cr.locked_by = w /\ cr.state = r.state
      /\ cr.next_attempt_at = r.next_attempt_at
  BY <1>1, <1>4, ClaimedRowFacts
<1> HIDE DEF c, n, m, r, cr
<1>7. q = [c EXCEPT ![Name] = [cr EXCEPT !.attempts = m]]
  BY <1>6, Settings DEF Capped, m, cr
<1>8. q[Name] = [cr EXCEPT !.attempts = m]
  BY <1>3, <1>7, Settings
<1> HIDE DEF q
<1> DEFINE qr == q[Name]
<1>14. qr = [cr EXCEPT !.attempts = m]
  BY <1>8
<1> HIDE DEF qr
<1>15. /\ qr \in Row /\ qr.locked_by = w /\ qr.attempts = m
       /\ qr.state = r.state /\ qr.next_attempt_at = r.next_attempt_at
  BY <1>2, <1>6, <1>14 DEF Row
<1>9. /\ q[Name] \in Row /\ q[Name].locked_by = w /\ q[Name].attempts = m
      /\ q[Name].state = queue[Name].state
      /\ q[Name].next_attempt_at = queue[Name].next_attempt_at
  BY <1>15 DEF qr, r
<1>10. q \in [Domains -> Row]
  <2>1. DOMAIN q = Domains /\ q = [d \in Domains |-> q[d]]
    BY <1>3, <1>7
  <2> QED BY <1>9, <2>1, Settings
<1>11. NewTask(w) = [worker |-> w, attempts |-> m, age |-> 0, phase |-> "asking",
                     outcome |-> "none", answered |-> 0]
  BY <1>9 DEF NewTask, c, q
<1>12. 0 \in 0..MaxRun /\ 0 \in Int
  BY Settings
<1>13. /\ NewTask(w) \in Tasks /\ NewTask(w).worker = w /\ NewTask(w).age = 0
       /\ NewTask(w).phase = "asking" /\ NewTask(w).answered = 0
  BY <1>2, <1>11, <1>12 DEF Tasks
<1> QED BY <1>9, <1>10, <1>13 DEF c, q

(* complete() deletes the row of its worker, and no other. *)
LEMMA CompleteFacts ==
  ASSUME queue \in [Domains -> Row], NEW w
  PROVE  /\ complete(queue, Name, w) \in [Domains -> Row]
         /\ queue[Name].locked_by = w => complete(queue, Name, w)[Name] = NoRow
         /\ queue[Name].locked_by # w => complete(queue, Name, w) = queue
         /\ NoRow.state = "absent" /\ NoRow \in Row
<1>1. NoRow \in Row /\ NoRow.state = "absent"
  BY DEF NoRow, Row
<1> QED BY <1>1, Settings DEF complete

(* fail() and release() leave rows. *)
LEMMA GiveBackTypes ==
  ASSUME queue \in [Domains -> Row], NEW w, NEW a \in Nat
  PROVE  /\ fail(queue, Name, a, w, 0) \in [Domains -> Row]
         /\ release(queue, Name, w) \in [Domains -> Row]
<1>1. queue[Name] \in Row
  BY Settings
<1>2. FailedRow(queue[Name], a, 0) \in Row
  BY <1>1, FailedRowType
<1>3. ReleasedRow(queue[Name]) \in Row
  <2> DEFINE row == queue[Name]
             n == IF row.attempts > 0 THEN row.attempts - 1 ELSE 0
  <2>1. n \in Nat
    BY <1>1 DEF Row
  <2>2. Unlocked(row) \in Row /\ Unlocked(row).attempts = row.attempts
    BY <1>1 DEF Unlocked, Row
  <2>3. ReleasedRow(row) = [Unlocked(row) EXCEPT !.attempts = n]
    BY <2>2 DEF ReleasedRow
  <2> HIDE DEF n
  <2> QED BY <2>1, <2>2, <2>3 DEF Row
<1> QED BY <1>2, <1>3 DEF fail, release

-----------------------------------------------------------------------------
(* A task that a tick made older. *)
Aged(t, u) ==
    /\ u.worker = t.worker /\ u.attempts = t.attempts /\ u.phase = t.phase
    /\ u.outcome = t.outcome /\ u.age = t.age + 1
    /\ u.answered \in {t.answered, t.answered - 1}

(* What a tick does to the measurements. *)
LEMMA TickTasks ==
  ASSUME TypeOK, Tick
  PROVE  /\ \A u \in tasks' : \E t \in tasks : Aged(t, u) /\ t.age < MaxRun
         /\ \A t \in tasks : \E u \in tasks' : Aged(t, u)
         /\ tasks' \subseteq Tasks
<1> DEFINE a(t) == t.age + 1
           x(t) == IF t.phase = "answered" /\ t.outcome = "resolved"
                   THEN t.answered - 1 ELSE t.answered
           f(t) == [t EXCEPT !.age = a(t), !.answered = x(t)]
<1>1. tasks' = {f(t) : t \in tasks} /\ \A t \in tasks : t.age < MaxRun
  BY DEF Tick
<1>2. ASSUME NEW t \in tasks
      PROVE  f(t) \in Tasks /\ Aged(t, f(t))
  <2>1. t \in Tasks
    BY DEF TypeOK
  <2> DEFINE n == a(t)
             y == x(t)
             u == f(t)
  <2>2. n \in 0..MaxRun /\ y \in Int /\ y \in {t.answered, t.answered - 1} /\ n = t.age + 1
    <3>1. t.age \in 0..MaxRun /\ t.answered \in Int
      BY <2>1 DEF Tasks
    <3>2. t.age < MaxRun
      BY <1>1
    <3>3. n \in 0..MaxRun /\ n = t.age + 1
      BY <3>1, <3>2, Settings
    <3> QED BY <3>1, <3>3
  <2>3. u = [t EXCEPT !.age = n, !.answered = y]
    OBVIOUS
  <2> HIDE DEF n, y, u
  <2>4. u \in Tasks
    BY <2>1, <2>2, <2>3 DEF Tasks
  <2>5. /\ u.worker = t.worker /\ u.attempts = t.attempts /\ u.phase = t.phase
        /\ u.outcome = t.outcome /\ u.age = n /\ u.answered = y
    BY <2>1, <2>3 DEF Tasks
  <2>6. Aged(t, u)
    BY <2>2, <2>5 DEF Aged
  <2> QED BY <2>4, <2>6 DEF u
<1> HIDE DEF f
<1> QED BY <1>1, <1>2

(* What a tick does to the records. *)
LEMMA TickRecords ==
  ASSUME TypeOK, Tick
  PROVE  /\ records = Null => records' = Null
         /\ records # Null =>
               /\ records \in Records /\ records' \in Records /\ records' # Null
               /\ records'.until = IF records.until > 0 THEN records.until - 1 ELSE 0
               /\ records.until > 1 => records'.answered = records.answered - 1
<1>1. CASE records = Null
  BY <1>1 DEF Tick
<1>2. CASE records # Null
  <2> DEFINE n == IF records.until > 0 THEN records.until - 1 ELSE 0
             a == IF records.until > 1 THEN records.answered - 1 ELSE 0
  <2>1. records \in Records
    BY <1>2 DEF TypeOK
  <2>2. records.until \in 0..Ttl /\ records.answered \in Int
    BY <2>1 DEF Records
  <2>3. Past(records.until, 0) = n
    BY <2>2, Settings DEF Past, Max2
  <2>4. records' = [until |-> n, answered |-> a]
    BY <1>2, <2>3 DEF Tick, PastRecords
  <2>5. n \in 0..Ttl /\ a \in Int /\ (records.until > 1 => a = records.answered - 1)
    BY <2>2, Settings
  <2> HIDE DEF n, a
  <2>6. records' \in Records /\ records'.until = n /\ records'.answered = a
    BY <2>4, <2>5 DEF Records
  <2> QED BY <1>2, <2>1, <2>5, <2>6, Settings DEF n
<1> QED BY <1>1, <1>2

(* What a tick does to the domain. *)
LEMMA TickDomain ==
  ASSUME TypeOK, Tick
  PROVE  /\ domain = Null => domain' = Null
         /\ domain # Null =>
               /\ domain \in DomainRow /\ domain' \in DomainRow /\ domain' # Null
               /\ domain'.retry_after = PastOrNull(domain.retry_after, 0)
               /\ domain'.measured_at # Null =>
                     domain.measured_at # Null /\ domain'.measured_at = domain.measured_at - 1
<1>1. CASE domain = Null
  BY <1>1 DEF Tick
<1>2. CASE domain # Null
  <2> DEFINE floor == -Max2(MinRemeasure, FlushDelay + 1)
             q == Past(domain.queried, -Retention - 1)
             r == PastOrNull(domain.retry_after, 0)
             m == PastOrNull(domain.measured_at, floor)
  <2>1. domain \in DomainRow
    BY <1>2 DEF TypeOK
  <2>2. /\ domain.queried \in Int /\ domain.retry_after \in Int \union {Null}
        /\ domain.measured_at \in Int \union {Null}
    BY <2>1 DEF DomainRow
  <2>3. q \in Int
    BY <2>2, Settings DEF Past, Max2
  <2>4. floor \in Int
    BY Settings DEF Max2
  <2> HIDE DEF floor
  <2>5. r \in Int \union {Null}
    BY <2>2 DEF PastOrNull
  <2>6. /\ m \in Int \union {Null}
        /\ m # Null => domain.measured_at # Null /\ m = domain.measured_at - 1
    BY <2>2, <2>4 DEF PastOrNull
  <2>7. domain' = [domain EXCEPT !.queried = q, !.retry_after = r, !.measured_at = m]
    BY <1>2 DEF Tick, PastDomain, floor
  <2> HIDE DEF q, r, m
  <2>8. domain' \in DomainRow /\ domain'.retry_after = r /\ domain'.measured_at = m
    BY <2>1, <2>3, <2>5, <2>6, <2>7 DEF DomainRow
  <2> QED BY <1>2, <2>1, <2>6, <2>8, Settings DEF r
<1> QED BY <1>1, <1>2

(* What a tick does to the queue. *)
LEMMA TickQueue ==
  ASSUME TypeOK, Tick
  PROVE  /\ queue' \in [Domains -> Row]
         /\ queue'[Name].state = queue[Name].state
         /\ queue'[Name].locked_by = queue[Name].locked_by
         /\ queue'[Name].locked_at # Null => queue[Name].locked_at # Null
         /\ queue[Name].state = "pending" /\ queue[Name].next_attempt_at <= 0 =>
               queue'[Name].next_attempt_at = 0
<1> DEFINE row == queue[Name]
           e == Past(row.enqueued_at, -Retention - 1)
           n == Past(row.next_attempt_at, 0)
           l == Past(row.locked_at, -LockTimeout - 1)
           new == PastRow(row)
<1>1. row \in Row
  BY Settings DEF TypeOK
<1>2. row.enqueued_at \in Int /\ row.next_attempt_at \in Int /\ row.locked_at \in Int \union {Null}
  BY <1>1 DEF Row
<1>3. /\ e \in Int /\ n \in Int /\ l \in Int \union {Null}
      /\ l # Null => row.locked_at # Null
      /\ row.next_attempt_at <= 0 => n = 0
  BY <1>2, Settings DEF Past, Max2
<1>4. new = IF row.state = "absent" THEN row
            ELSE [row EXCEPT !.enqueued_at = e, !.next_attempt_at = n, !.locked_at = l]
  BY DEF PastRow
<1> HIDE DEF row, e, n, l, new
<1>5. /\ new \in Row /\ new.state = row.state /\ new.locked_by = row.locked_by
      /\ new.locked_at # Null => row.locked_at # Null
      /\ row.state = "pending" /\ row.next_attempt_at <= 0 => new.next_attempt_at = 0
  <2>1. CASE row.state = "absent"
    BY <1>1, <1>4, <2>1
  <2>2. CASE row.state # "absent"
    <3>1. new = [row EXCEPT !.enqueued_at = e, !.next_attempt_at = n, !.locked_at = l]
      BY <1>4, <2>2
    <3>2. new \in Row
      BY <1>1, <1>3, <3>1 DEF Row
    <3>3. /\ new.state = row.state /\ new.locked_by = row.locked_by
          /\ new.locked_at = l /\ new.next_attempt_at = n
      BY <1>1, <3>1 DEF Row
    <3> QED BY <1>3, <3>2, <3>3
  <2> QED BY <2>1, <2>2
<1>6. queue' = [d \in Domains |-> new]
  BY Settings DEF Tick, new, row
<1>7. queue'[Name] = new
  BY <1>6, Settings
<1> QED BY <1>5, <1>6, <1>7 DEF row

-----------------------------------------------------------------------------
(* write_batch moves last_queried_at forward and leaves the rest alone. *)
LEMMA QueriedFacts ==
  ASSUME NEW d \in DomainRow, NEW time \in Int
  PROVE  /\ Queried(d, time) \in DomainRow /\ Queried(d, time).asked = TRUE
         /\ Queried(d, time).measured_at = d.measured_at
         /\ Queried(d, time).retry_after = d.retry_after
         /\ d.asked => Queried(d, time).queried >= d.queried
<1> DEFINE q == IF d.asked THEN Max2(d.queried, time) ELSE time
           new == Queried(d, time)
<1>1. d.queried \in Int
  BY DEF DomainRow
<1>2. q \in Int /\ (d.asked => q >= d.queried)
  BY <1>1 DEF Max2
<1>3. new = [d EXCEPT !.queried = q, !.asked = TRUE]
  BY DEF Queried
<1> HIDE DEF q, new
<1>4. new \in DomainRow
  BY <1>2, <1>3 DEF DomainRow
<1>5. /\ new.queried = q /\ new.asked = TRUE /\ new.measured_at = d.measured_at
      /\ new.retry_after = d.retry_after
  BY <1>3 DEF DomainRow
<1> QED BY <1>2, <1>4, <1>5 DEF new

(* A task in its next phase. *)
Moved(t, u) ==
    u.worker = t.worker /\ u.attempts = t.attempts /\ u.age = t.age

(* Pipeline.measure hands the store an outcome. *)
LEMMA AnswerFacts ==
  ASSUME TypeOK, NEW t \in tasks, NEW o \in Outcomes, Answer(t, o)
  PROVE  \E u \in Tasks : /\ tasks' = (tasks \ {t}) \union {u} /\ Moved(t, u) /\ t.phase = "asking"
                          /\ u.phase = "answered" /\ u.outcome = o /\ u.answered = t.answered
<1> DEFINE u == [t EXCEPT !.phase = "answered", !.outcome = o]
<1>1. t \in Tasks
  BY DEF TypeOK
<1>2. o \in {"none", "resolved", "negative", "failed"}
  BY DEF Outcomes
<1>3. u \in Tasks
  BY <1>1, <1>2 DEF Tasks
<1>4. /\ u.worker = t.worker /\ u.attempts = t.attempts /\ u.age = t.age
      /\ u.phase = "answered" /\ u.outcome = o /\ u.answered = t.answered
  BY <1>1 DEF Tasks
<1>5. tasks' = (tasks \ {t}) \union {u} /\ t.phase = "asking"
  BY DEF Answer, Becomes
<1> HIDE DEF u
<1> QED BY <1>3, <1>4, <1>5 DEF Moved

(* store_measurement: what the transaction leaves of the task ... *)
LEMMA StoreTask ==
  ASSUME TypeOK, NEW t \in tasks, Store(t)
  PROVE  \E u \in Tasks : /\ tasks' = (tasks \ {t}) \union {u} /\ Moved(t, u) /\ t.phase = "answered"
                          /\ u.phase = "stored" /\ u.outcome = t.outcome
<1> DEFINE z == 0
           u == [t EXCEPT !.phase = "stored", !.answered = z]
<1>1. t \in Tasks /\ z \in Int
  BY DEF TypeOK
<1>2. tasks' = (tasks \ {t}) \union {u} /\ t.phase = "answered"
  BY DEF Store, Becomes
<1> HIDE DEF z
<1>3. u \in Tasks
  BY <1>1 DEF Tasks
<1>4. /\ u.worker = t.worker /\ u.attempts = t.attempts /\ u.age = t.age
      /\ u.phase = "stored" /\ u.outcome = t.outcome
  BY <1>1 DEF Tasks
<1> HIDE DEF u
<1> QED BY <1>2, <1>3, <1>4 DEF Moved

(* ... and of the domain and its records. *)
LEMMA StoreFacts ==
  ASSUME TypeOK, TaskInv, NEW t \in tasks, Store(t)
  PROVE  /\ domain' \in DomainRow /\ domain' # Null /\ domain'.measured_at = 0
         /\ domain # Null => domain'.queried = domain.queried /\ domain'.asked = domain.asked
         /\ t.outcome \in Outcomes
         /\ t.outcome = "resolved" =>
               /\ records' \in Records /\ records' # Null /\ domain'.retry_after = Null
               /\ records'.until = Ttl /\ records'.answered = t.answered
         /\ t.outcome = "negative" => records' = Null
         /\ t.outcome = "failed" => records' = records /\ domain'.retry_after = FailedRetry
<1> DEFINE d == IF domain = Null THEN NewDomain ELSE domain
           r == RetryAfter(t.outcome)
           z == 0
<1>1. t \in Tasks /\ z \in Int
  BY DEF TypeOK
<1>2. t.phase = "answered" /\ t.outcome \in Outcomes
  BY DEF Store, TaskInv
<1>3. r \in Int \union {Null}
  BY <1>2, Settings DEF RetryAfter, Outcomes
<1>4. NewDomain \in DomainRow
  BY DEF NewDomain, DomainRow
<1>5. d \in DomainRow /\ (domain # Null => d = domain)
  BY <1>4 DEF TypeOK
<1>6. domain' = [d EXCEPT !.measured_at = z, !.retry_after = r]
  BY DEF Store
<1> HIDE DEF d, r
<1>7. domain'.measured_at = 0 /\ domain'.retry_after = r
      /\ domain'.queried = d.queried /\ domain'.asked = d.asked
  BY <1>5, <1>6 DEF DomainRow
<1> HIDE DEF z
<1>8. domain' \in DomainRow
  BY <1>1, <1>3, <1>5, <1>6 DEF DomainRow
<1>9. domain' # Null
  BY <1>8, Settings
<1>10. records' = StoredRecords(t)
  BY DEF Store
<1>11. CASE t.outcome = "resolved"
  <2>1. records' = [until |-> Ttl, answered |-> t.answered] /\ r = Null
    BY <1>10, <1>11 DEF StoredRecords, RetryAfter, r
  <2>2. Ttl \in 0..Ttl /\ t.answered \in Int
    BY <1>1, Settings DEF Tasks
  <2>3. records' \in Records /\ records'.until = Ttl /\ records'.answered = t.answered
    BY <2>1, <2>2 DEF Records
  <2> QED BY <1>2, <1>5, <1>7, <1>8, <1>9, <1>11, <2>1, <2>3, Settings
<1>12. CASE t.outcome = "negative"
  <2>1. records' = Null
    BY <1>10, <1>12 DEF StoredRecords
  <2> QED BY <1>2, <1>5, <1>7, <1>8, <1>9, <1>12, <2>1
<1>13. CASE t.outcome = "failed"
  <2>1. records' = records /\ r = FailedRetry
    BY <1>10, <1>13 DEF StoredRecords, RetryAfter, r
  <2> QED BY <1>2, <1>5, <1>7, <1>8, <1>9, <1>13, <2>1
<1> QED BY <1>2, <1>11, <1>12, <1>13 DEF Outcomes

-----------------------------------------------------------------------------
(* Steps of the collector, the monitor and time keep the types ... *)
LEMMA ServiceTypes ==
  ASSUME TypeOK,
         \/ Tick \/ Miss \/ WriteMisses \/ DropBatch \/ \E time \in -FlushDelay..0 : WriteHits(time)
         \/ ScanSelect \/ ScanEnqueue \/ ScanFails \/ GcDelete
         \/ \E table \in {"domains", "queue"} : GcSelect(table)
  PROVE  TypeOK'
<1>1. CASE Tick
  <2>1. domain' \in DomainRow \union {Null} /\ records' \in Records \union {Null}
    BY <1>1, TickDomain, TickRecords
  <2>2. queue' \in [Domains -> Row] /\ tasks' \subseteq Tasks
    BY <1>1, TickQueue, TickTasks
  <2>3. miss' \in (-FlushDelay..0) \union {Null}
    <3>1. miss \in (-FlushDelay..0) \union {Null}
      BY DEF TypeOK
    <3>2. miss' = Past(miss, -FlushDelay)
      BY <1>1 DEF Tick
    <3> QED BY <3>1, <3>2, Settings DEF Past, Max2
  <2>4. scan' \in [picked : BOOLEAN, age : 0..ScanPeriod]
    <3> DEFINE n == IF scan.age < ScanPeriod THEN scan.age + 1 ELSE scan.age
    <3>1. scan \in [picked : BOOLEAN, age : 0..ScanPeriod]
      BY DEF TypeOK
    <3>2. n \in 0..ScanPeriod
      BY <3>1, Settings
    <3>3. scan' = [scan EXCEPT !.age = n]
      BY <1>1 DEF Tick
    <3> HIDE DEF n
    <3> QED BY <3>1, <3>2, <3>3
  <2>5. gc' = gc
    BY <1>1 DEF Tick
  <2>6. steady' \in BOOLEAN
    BY <1>1 DEF Tick
  <2> QED BY <2>1, <2>2, <2>3, <2>4, <2>5, <2>6 DEF TypeOK
<1>2. CASE Miss \/ DropBatch
  <2>1. miss' \in (-FlushDelay..0) \union {Null}
    BY <1>2, Settings DEF Miss, DropBatch
  <2> QED BY <1>2, <2>1 DEF TypeOK, Miss, DropBatch
<1>3. CASE WriteMisses
  <2> DEFINE d == IF domain = Null THEN NewDomain ELSE domain
  <2>1. d \in DomainRow
    BY DEF TypeOK, NewDomain, DomainRow
  <2>2. miss \in Int /\ miss' = Null /\ domain' = Queried(d, miss)
    BY <1>3 DEF WriteMisses, TypeOK
  <2> HIDE DEF d
  <2>3. domain' \in DomainRow
    BY <2>1, <2>2, QueriedFacts
  <2>4. queue' \in [Domains -> Row]
    BY <1>3, EnqueueFacts DEF WriteMisses, TypeOK
  <2> QED BY <1>3, <2>2, <2>3, <2>4 DEF TypeOK, WriteMisses
<1>4. ASSUME NEW time \in -FlushDelay..0, WriteHits(time) PROVE TypeOK'
  <2>1. domain \in DomainRow /\ time \in Int /\ domain' = Queried(domain, time)
    BY <1>4, Settings DEF WriteHits, TypeOK
  <2>2. domain' \in DomainRow
    BY <2>1, QueriedFacts
  <2> QED BY <1>4, <2>2 DEF TypeOK, WriteHits
<1>5. CASE ScanSelect
  <2>1. Expiring \in BOOLEAN /\ 0 \in 0..ScanPeriod
    BY Settings DEF Expiring
  <2> QED BY <1>5, <2>1 DEF TypeOK, ScanSelect
<1>6. CASE ScanEnqueue
  BY <1>6, EnqueueFacts DEF TypeOK, ScanEnqueue
<1>7. CASE ScanFails
  BY <1>7 DEF TypeOK, ScanFails
<1>8. CASE GcDelete
  <2>1. queue' \in [Domains -> Row]
    BY <1>8, CompleteFacts DEF TypeOK, GcDelete
  <2>2. domain' \in DomainRow \union {Null} /\ records' \in Records \union {Null}
    BY <1>8 DEF TypeOK, GcDelete
  <2> QED BY <1>8, <2>1, <2>2 DEF TypeOK, GcDelete
<1>9. ASSUME NEW table \in {"domains", "queue"}, GcSelect(table) PROVE TypeOK'
  BY <1>9 DEF TypeOK, GcSelect
<1> QED BY <1>1, <1>2, <1>3, <1>4, <1>5, <1>6, <1>7, <1>8, <1>9

(* ... and so do the workers'. *)
LEMMA WorkerTypes ==
  ASSUME TypeOK, TaskInv,
         \/ \E w \in WorkerIds : Claim(w)
         \/ \E t \in tasks : Store(t) \/ Settle(t) \/ Abort(t) \/ \E o \in Outcomes : Answer(t, o)
  PROVE  TypeOK'
<1>1. ASSUME NEW w \in WorkerIds, Claim(w) PROVE TypeOK'
  <2>1. queue' \in [Domains -> Row] /\ NewTask(w) \in Tasks
    BY <1>1, ClaimFacts DEF Claim, TypeOK
  <2> QED BY <1>1, <2>1 DEF TypeOK, Claim
<1>2. ASSUME NEW t \in tasks, Store(t) PROVE TypeOK'
  <2>1. tasks' \subseteq Tasks
    BY <1>2, StoreTask DEF TypeOK
  <2>2. domain' \in DomainRow /\ records' \in Records \union {Null}
    BY <1>2, StoreFacts DEF TypeOK, Outcomes
  <2>3. steady' \in BOOLEAN
    BY <1>2 DEF Store, TypeOK
  <2> QED BY <1>2, <2>1, <2>2, <2>3 DEF TypeOK, Store
<1>3. ASSUME NEW t \in tasks, Settle(t) PROVE TypeOK'
  <2>1. t.attempts \in Nat
    BY DEF TypeOK, Tasks
  <2>2. queue' \in [Domains -> Row]
    BY <1>3, <2>1, CompleteFacts, GiveBackTypes DEF Settle, TypeOK
  <2>3. gc' \in {"idle", "domains", "queue"} /\ tasks' \subseteq Tasks
    BY <1>3 DEF Settle, Forget, TypeOK
  <2>4. steady' \in BOOLEAN
    BY <1>3 DEF Settle, MayRetry, Active
  <2> QED BY <1>3, <2>2, <2>3, <2>4 DEF TypeOK, Settle
<1>4. ASSUME NEW t \in tasks, Abort(t) PROVE TypeOK'
  <2>1. t.attempts \in Nat
    BY DEF TypeOK, Tasks
  <2>2. queue' \in [Domains -> Row]
    BY <1>4, <2>1, GiveBackTypes DEF Abort, TypeOK
  <2> QED BY <1>4, <2>2 DEF TypeOK, Abort
<1>5. ASSUME NEW t \in tasks, NEW o \in Outcomes, Answer(t, o) PROVE TypeOK'
  <2>1. tasks' \subseteq Tasks
    BY <1>5, AnswerFacts DEF TypeOK
  <2> QED BY <1>5, <2>1 DEF TypeOK, Answer
<1> QED BY <1>1, <1>2, <1>3, <1>4, <1>5

-----------------------------------------------------------------------------
(* A task is no older than a measurement may be. *)
LEMMA TaskNumbers ==
  ASSUME TypeOK, NEW t \in tasks
  PROVE  t.age \in Nat /\ t.age <= MaxRun /\ t.answered \in Int
<1>1. t \in Tasks
  BY DEF TypeOK
<1>2. t.age \in 0..MaxRun /\ t.answered \in Int
  BY <1>1 DEF Tasks
<1> QED BY <1>2, Settings

(* The records are a lifetime and the time of an answer. *)
LEMMA RecordNumbers ==
  ASSUME TypeOK, records # Null
  PROVE  records.until \in Nat /\ records.until <= Ttl /\ records.answered \in Int
<1>1. records.until \in 0..Ttl /\ records.answered \in Int
  BY DEF TypeOK, Records
<1> QED BY <1>1, Settings

(* Steps that neither store, nor start or answer a measurement, nor take time. *)
LEMMA TasksKept ==
  ASSUME TaskInv, tasks' \subseteq tasks, records' = records \/ records' = Null
  PROVE  TaskInv'
BY DEF TaskInv

(* Every step keeps what the tasks carry. *)
LEMMA TaskStep ==
  ASSUME TypeOK, TaskInv, Next
  PROVE  TaskInv'
<1>1. CASE Tick
  <2> SUFFICES ASSUME NEW u \in tasks'
               PROVE  /\ u.phase # "asking" => u.outcome \in Outcomes
                      /\ u.phase # "stored" => u.answered >= -u.age
                      /\ u.phase = "stored" /\ u.outcome = "resolved" /\ records' # Null =>
                            records'.until >= Ttl - u.age
    BY DEF TaskInv
  <2>1. PICK t \in tasks : Aged(t, u)
    BY <1>1, TickTasks
  <2>2. /\ u.phase = t.phase /\ u.outcome = t.outcome /\ u.age = t.age + 1
        /\ u.answered = t.answered \/ u.answered = t.answered - 1
    BY <2>1 DEF Aged
  <2>3. t.age \in Nat /\ t.answered \in Int
    BY TaskNumbers
  <2>4. u.phase # "stored" => u.answered >= -u.age
    BY <2>2, <2>3 DEF TaskInv
  <2>5. u.phase = "stored" /\ u.outcome = "resolved" /\ records' # Null =>
           records'.until >= Ttl - u.age
    <3> SUFFICES ASSUME u.phase = "stored", u.outcome = "resolved", records' # Null
                 PROVE  records'.until >= Ttl - u.age
      OBVIOUS
    <3>1. /\ records # Null
          /\ records'.until = IF records.until > 0 THEN records.until - 1 ELSE 0
      BY <1>1, TickRecords
    <3>2. records.until \in Nat /\ records.until >= Ttl - t.age
      BY <2>2, <3>1, RecordNumbers DEF TaskInv
    <3> QED BY <2>2, <2>3, <3>1, <3>2, Settings
  <2> QED BY <2>2, <2>4, <2>5 DEF TaskInv
<1>2. ASSUME NEW w \in WorkerIds, Claim(w) PROVE TaskInv'
  <2> DEFINE n == NewTask(w)
  <2>1. n.age = 0 /\ n.phase = "asking" /\ n.answered = 0
    BY ClaimFacts DEF TypeOK
  <2>2. tasks' = tasks \union {n} /\ records' = records
    BY <1>2 DEF Claim
  <2> HIDE DEF n
  <2> QED BY <2>1, <2>2 DEF TaskInv
<1>3. ASSUME NEW t \in tasks, NEW o \in Outcomes, Answer(t, o) PROVE TaskInv'
  <2>1. PICK u \in Tasks : /\ tasks' = (tasks \ {t}) \union {u} /\ Moved(t, u)
                           /\ t.phase = "asking" /\ u.phase = "answered"
                           /\ u.outcome = o /\ u.answered = t.answered
    BY <1>3, AnswerFacts
  <2>2. records' = records
    BY <1>3 DEF Answer
  <2> QED BY <2>1, <2>2 DEF TaskInv, Moved
<1>4. ASSUME NEW t \in tasks, Store(t) PROVE TaskInv'
  <2>1. PICK u \in Tasks : /\ tasks' = (tasks \ {t}) \union {u} /\ Moved(t, u)
                           /\ u.phase = "stored" /\ u.outcome = t.outcome
    BY <1>4, StoreTask
  <2>2. u.age \in Nat /\ t.outcome \in Outcomes
    BY <1>4, <2>1, TaskNumbers, StoreFacts DEF Moved
  <2>3. CASE t.outcome = "resolved"
    <3>1. records'.until = Ttl
      BY <1>4, <2>3, StoreFacts
    <3>2. \A v \in tasks : v.age \in Nat
      BY TaskNumbers
    <3>3. \A v \in tasks' : v.age \in Nat
      BY <2>1, <2>2, <3>2
    <3>4. \A v \in tasks' : records'.until >= Ttl - v.age
      BY <3>1, <3>3, Settings
    <3> QED BY <2>1, <2>2, <3>4 DEF TaskInv
  <2>4. CASE t.outcome = "negative"
    <3>1. records' = Null
      BY <1>4, <2>4, StoreFacts
    <3> QED BY <2>1, <2>2, <3>1 DEF TaskInv
  <2>5. CASE t.outcome = "failed"
    <3>1. records' = records
      BY <1>4, <2>5, StoreFacts
    <3> QED BY <2>1, <2>2, <2>5, <3>1 DEF TaskInv
  <2> QED BY <2>2, <2>3, <2>4, <2>5 DEF Outcomes
<1>5. ASSUME NEW t \in tasks, Settle(t) \/ Abort(t) PROVE TaskInv'
  BY <1>5, TasksKept DEF Settle, Abort
<1>6. CASE Miss \/ WriteMisses \/ DropBatch \/ \E time \in -FlushDelay..0 : WriteHits(time)
  BY <1>6, TasksKept DEF Miss, WriteMisses, DropBatch, WriteHits
<1>7. CASE ScanSelect \/ ScanEnqueue \/ ScanFails
  BY <1>7, TasksKept DEF ScanSelect, ScanEnqueue, ScanFails
<1>8. CASE GcDelete \/ \E table \in {"domains", "queue"} : GcSelect(table)
  BY <1>8, TasksKept DEF GcDelete, GcSelect
<1> QED BY <1>1, <1>2, <1>3, <1>4, <1>5, <1>6, <1>7, <1>8 DEF Next

(* Every step keeps the records as young as their lifetime says. *)
LEMMA DataStep ==
  ASSUME TypeOK, TaskInv, DataInv, Next
  PROVE  DataInv'
<1>1. CASE Tick
  <2>1. records' # Null => domain' # Null
    BY <1>1, TickRecords, TickDomain DEF DataInv
  <2>2. ASSUME Served' PROVE records'.answered >= records'.until - Ttl - MaxRun
    <3>1. /\ records # Null /\ records'.until > 0
          /\ records'.until = IF records.until > 0 THEN records.until - 1 ELSE 0
          /\ records.until > 1 => records'.answered = records.answered - 1
      BY <1>1, <2>2, TickRecords DEF Served
    <3>2. records.until \in Nat /\ records.answered \in Int
      BY <3>1, RecordNumbers
    <3>3. /\ records.until > 1 /\ records'.until = records.until - 1
          /\ records'.answered = records.answered - 1
      BY <3>1, <3>2
    <3>4. records.answered >= records.until - Ttl - MaxRun
      BY <3>1, <3>3, <3>2 DEF Served, DataInv
    <3> QED BY <3>2, <3>3, <3>4, Settings
  <2> QED BY <2>1, <2>2 DEF DataInv
<1>2. ASSUME NEW t \in tasks, Store(t) PROVE DataInv'
  <2>1. domain' # Null /\ t.outcome \in Outcomes
    BY <1>2, StoreFacts
  <2>2. CASE t.outcome = "resolved"
    <3>1. records'.until = Ttl /\ records'.answered = t.answered
      BY <1>2, <2>2, StoreFacts
    <3>2. t.age \in Nat /\ t.age <= MaxRun /\ t.answered \in Int /\ t.answered >= -t.age
      BY <1>2, TaskNumbers DEF TaskInv, Store
    <3>3. records'.answered >= records'.until - Ttl - MaxRun
      BY <3>1, <3>2, Settings
    <3> QED BY <2>1, <3>3 DEF DataInv
  <2>3. CASE t.outcome = "negative"
    BY <1>2, <2>1, <2>3, StoreFacts DEF DataInv, Served
  <2>4. CASE t.outcome = "failed"
    BY <1>2, <2>1, <2>4, StoreFacts DEF DataInv, Served
  <2> QED BY <2>1, <2>2, <2>3, <2>4 DEF Outcomes
<1>3. ASSUME records' = records, domain' = domain PROVE DataInv'
  BY <1>3 DEF DataInv, Served
<1>4. CASE WriteMisses \/ \E time \in -FlushDelay..0 : WriteHits(time)
  <2>1. domain' \in DomainRow \union {Null} /\ records' = records
    BY <1>4, ServiceTypes DEF TypeOK, WriteMisses, WriteHits
  <2>2. records # Null => domain' # Null
    <3>1. ASSUME records # Null PROVE domain' # Null
      <4>1. domain \in DomainRow
        BY <3>1 DEF DataInv, TypeOK
      <4>2. ASSUME NEW time \in -FlushDelay..0, WriteHits(time) PROVE domain' \in DomainRow
        <5>1. time \in Int /\ domain' = Queried(domain, time)
          BY <4>2, Settings DEF WriteHits
        <5> QED BY <4>1, <5>1, QueriedFacts
      <4>3. CASE WriteMisses
        <5>1. miss \in Int /\ domain' = Queried(domain, miss)
          BY <3>1, <4>3 DEF WriteMisses, TypeOK, DataInv
        <5> QED BY <4>1, <5>1, QueriedFacts, Settings
      <4> QED BY <1>4, <4>2, <4>3, Settings
    <3> QED BY <3>1
  <2> QED BY <2>1, <2>2 DEF DataInv, Served
<1>5. CASE GcDelete
  BY <1>5 DEF GcDelete, DataInv, Served
<1>6. CASE Miss \/ DropBatch \/ ScanSelect \/ ScanEnqueue \/ ScanFails
  BY <1>3, <1>6 DEF Miss, DropBatch, ScanSelect, ScanEnqueue, ScanFails
<1>7. ASSUME NEW w \in WorkerIds, Claim(w) PROVE DataInv'
  BY <1>3, <1>7 DEF Claim
<1>8. ASSUME NEW t \in tasks, Settle(t) \/ Abort(t) \/ \E o \in Outcomes : Answer(t, o) PROVE DataInv'
  BY <1>3, <1>8 DEF Settle, Abort, Answer
<1>9. CASE \E table \in {"domains", "queue"} : GcSelect(table)
  BY <1>3, <1>9 DEF GcSelect
<1> QED BY <1>1, <1>2, <1>4, <1>5, <1>6, <1>7, <1>8, <1>9 DEF Next

-----------------------------------------------------------------------------
(* A batch of the collector touches last_queried_at only. *)
LEMMA WriteFacts ==
  ASSUME TypeOK, domain # Null,
         WriteMisses \/ \E time \in -FlushDelay..0 : WriteHits(time)
  PROVE  /\ domain' # Null /\ domain'.measured_at = domain.measured_at
         /\ domain'.retry_after = domain.retry_after /\ (Active => Active')
<1>1. domain \in DomainRow
  BY DEF TypeOK
<1>2. PICK time \in Int : domain' = Queried(domain, time)
  <2>1. CASE WriteMisses
    <3>1. miss \in Int /\ domain' = Queried(domain, miss)
      BY <2>1, Settings DEF WriteMisses, TypeOK
    <3> QED BY <3>1
  <2>2. ASSUME NEW time \in -FlushDelay..0, WriteHits(time)
        PROVE  time \in Int /\ domain' = Queried(domain, time)
    BY <2>2, Settings DEF WriteHits
  <2> QED BY <2>1, <2>2
<1>3. /\ domain' \in DomainRow /\ domain'.asked = TRUE
      /\ domain'.measured_at = domain.measured_at /\ domain'.retry_after = domain.retry_after
      /\ domain.asked => domain'.queried >= domain.queried
  BY <1>1, <1>2, QueriedFacts
<1>4. domain.queried \in Int /\ domain'.queried \in Int
  BY <1>1, <1>3 DEF DomainRow
<1>5. domain' # Null
  BY <1>3, Settings
<1>6. ASSUME Active PROVE Active'
  BY <1>3, <1>4, <1>5, <1>6, Settings DEF Active
<1> QED BY <1>3, <1>5, <1>6

(* Steps that leave the records and the two columns alone. *)
LEMMA BehindKept ==
  ASSUME BehindInv, records' = Null \/ (Behind' => Behind),
         records' # Null => domain'.retry_after = domain.retry_after,
         \A u \in tasks' : u.phase = "stored" => u \in tasks
  PROVE  BehindInv'
<1> SUFFICES ASSUME Behind', NEW u \in tasks', u.phase = "stored"
             PROVE  /\ domain'.retry_after # Null /\ domain'.retry_after > 0
                    /\ u.age >= FailedRetry - domain'.retry_after
  BY DEF BehindInv
<1>1. records' # Null
  BY DEF Behind
<1> QED BY <1>1 DEF BehindInv

(* A tick does not put the records behind. *)
LEMMA TickBehind ==
  ASSUME TypeOK, DataInv, Tick, Behind'
  PROVE  Behind
<1>1. records' # Null /\ domain'.measured_at # Null /\ records'.until < Ttl + domain'.measured_at
  BY DEF Behind
<1>2. /\ records # Null
      /\ records'.until = IF records.until > 0 THEN records.until - 1 ELSE 0
  BY <1>1, TickRecords
<1>3. domain \in DomainRow /\ domain.measured_at # Null /\ domain'.measured_at = domain.measured_at - 1
  BY <1>1, <1>2, TickDomain DEF DataInv
<1>4. records.until \in Nat /\ domain.measured_at \in Int
  BY <1>2, <1>3, RecordNumbers DEF DomainRow
<1> QED BY <1>1, <1>2, <1>3, <1>4, Settings DEF Behind

(* Every step keeps it: a store that fails is remembered in retry_after    *)
(* until the measurements it overlapped have ended.                        *)
LEMMA BehindStep ==
  ASSUME InTime, TypeOK, TaskInv, DataInv, BehindInv, Next
  PROVE  BehindInv'
<1>1. CASE Tick
  <2> SUFFICES ASSUME Behind', NEW u \in tasks', u.phase = "stored"
               PROVE  /\ domain'.retry_after # Null /\ domain'.retry_after > 0
                      /\ u.age >= FailedRetry - domain'.retry_after
    BY DEF BehindInv
  <2>1. Behind
    BY <1>1, TickBehind
  <2>2. PICK t \in tasks : Aged(t, u) /\ t.age < MaxRun
    BY <1>1, TickTasks
  <2>3. t.phase = "stored" /\ u.age = t.age + 1 /\ t.age \in Nat
    BY <2>2, TaskNumbers DEF Aged
  <2>4. /\ domain.retry_after # Null /\ domain.retry_after > 0
        /\ t.age >= FailedRetry - domain.retry_after
    BY <2>1, <2>3 DEF BehindInv
  <2>5. /\ domain \in DomainRow
        /\ domain'.retry_after = PastOrNull(domain.retry_after, 0)
    BY <1>1, <2>1, TickDomain DEF Behind, DataInv
  <2>6. domain.retry_after \in Int
    BY <2>4, <2>5 DEF DomainRow
  <2>7. domain.retry_after > 1
    BY <2>2, <2>3, <2>4, <2>6, Settings DEF InTime
  <2>8. domain'.retry_after = domain.retry_after - 1
    BY <2>4, <2>5, <2>6, <2>7 DEF PastOrNull
  <2> QED BY <2>3, <2>4, <2>6, <2>7, <2>8, Settings
<1>2. ASSUME NEW t \in tasks, Store(t) PROVE BehindInv'
  <2>1. t.outcome \in Outcomes /\ domain'.measured_at = 0
    BY <1>2, StoreFacts
  <2>2. CASE t.outcome = "resolved"
    <3>1. records'.until = Ttl
      BY <1>2, <2>2, StoreFacts
    <3>2. ~Behind'
      BY <2>1, <3>1, Settings DEF Behind
    <3> QED BY <3>2 DEF BehindInv
  <2>3. CASE t.outcome = "negative"
    BY <1>2, <2>3, StoreFacts DEF BehindInv, Behind
  <2>4. CASE t.outcome = "failed"
    <3>1. domain'.retry_after = FailedRetry
      BY <1>2, <2>4, StoreFacts
    <3>2. FailedRetry # Null /\ FailedRetry > 0
      BY Settings DEF InTime
    <3>3. \A u \in tasks' : u.age \in Nat
      <4>1. PICK u \in Tasks : tasks' = (tasks \ {t}) \union {u} /\ Moved(t, u)
        BY <1>2, StoreTask
      <4> QED BY <4>1, TaskNumbers DEF Moved
    <3>4. \A u \in tasks' : u.age >= FailedRetry - domain'.retry_after
      BY <3>1, <3>3, Settings
    <3> QED BY <3>1, <3>2, <3>4 DEF BehindInv
  <2> QED BY <2>1, <2>2, <2>3, <2>4 DEF Outcomes
<1>3. ASSUME records' = records, domain' = domain, \A u \in tasks' : u.phase = "stored" => u \in tasks
      PROVE  BehindInv'
  BY <1>3, BehindKept DEF Behind
<1>4. CASE WriteMisses \/ \E time \in -FlushDelay..0 : WriteHits(time)
  <2>1. records' = records /\ tasks' = tasks
    BY <1>4 DEF WriteMisses, WriteHits
  <2>2. records # Null => /\ domain'.measured_at = domain.measured_at
                          /\ domain'.retry_after = domain.retry_after
    BY <1>4, WriteFacts DEF DataInv
  <2> QED BY <2>1, <2>2, BehindKept DEF Behind
<1>5. CASE GcDelete
  <2>1. CASE gc = "domains"
    <3>1. records' = Null
      BY <1>5, <2>1 DEF GcDelete
    <3> QED BY <3>1 DEF BehindInv, Behind
  <2>2. CASE gc = "queue"
    BY <1>3, <1>5, <2>2 DEF GcDelete
  <2> QED BY <1>5, <2>1, <2>2 DEF GcDelete
<1>6. CASE Miss \/ DropBatch \/ ScanSelect \/ ScanEnqueue \/ ScanFails
  BY <1>3, <1>6 DEF Miss, DropBatch, ScanSelect, ScanEnqueue, ScanFails
<1>7. ASSUME NEW w \in WorkerIds, Claim(w) PROVE BehindInv'
  <2>1. NewTask(w).phase = "asking"
    BY ClaimFacts DEF TypeOK
  <2> QED BY <1>3, <1>7, <2>1 DEF Claim
<1>8. ASSUME NEW t \in tasks, Settle(t) \/ Abort(t) PROVE BehindInv'
  BY <1>3, <1>8 DEF Settle, Abort
<1>9. ASSUME NEW t \in tasks, NEW o \in Outcomes, Answer(t, o) PROVE BehindInv'
  <2>1. PICK u \in Tasks : tasks' = (tasks \ {t}) \union {u} /\ u.phase = "answered"
    BY <1>9, AnswerFacts
  <2> QED BY <1>3, <1>9, <2>1 DEF Answer
<1>10. CASE \E table \in {"domains", "queue"} : GcSelect(table)
  BY <1>3, <1>10 DEF GcSelect
<1> QED BY <1>1, <1>2, <1>4, <1>5, <1>6, <1>7, <1>8, <1>9, <1>10 DEF Next

-----------------------------------------------------------------------------
(* enqueue() keeps a usual row usual. *)
LEMMA UsualEnqueue ==
  ASSUME TypeOK, Usual(queue[Name]), tasks' = tasks,
         queue' = queue \/ queue' = enqueue(queue, {Name}, 0)
  PROVE  Usual(queue[Name])'
<1>1. CASE queue' = queue
  BY <1>1 DEF Usual
<1>2. CASE queue' = enqueue(queue, {Name}, 0)
  <2>1. queue[Name].state \in {"absent", "pending"}
    <3>1. queue[Name] \in Row
      BY Settings DEF TypeOK
    <3> QED BY <3>1 DEF Usual, Row
  <2>2. CASE queue[Name].state = "absent"
    <3>1. queue'[Name] = FreshRow(0)
      BY <1>2, <2>2, EnqueueFacts DEF TypeOK
    <3>2. /\ FreshRow(0).state = "pending" /\ FreshRow(0).next_attempt_at = 0
          /\ FreshRow(0).locked_at = Null
      BY EnqueueFacts DEF TypeOK
    <3> QED BY <3>1, <3>2 DEF Usual
  <2>3. CASE queue[Name].state = "pending"
    <3>1. queue'[Name] = queue[Name]
      BY <1>2, <2>3, EnqueueFacts DEF TypeOK
    <3> QED BY <3>1 DEF Usual
  <2> QED BY <2>1, <2>2, <2>3
<1> QED BY <1>1, <1>2

(* A worker that moves on keeps what it holds. *)
LEMMA UsualMoved ==
  ASSUME Usual(queue[Name]), queue' = queue, NEW t \in tasks, NEW u,
         Moved(t, u), tasks' = (tasks \ {t}) \union {u}
  PROVE  Usual(queue[Name])'
<1>1. ASSUME NEW w, \E v \in tasks : v.worker = w
      PROVE  \E v \in tasks' : v.worker = w
  <2>1. PICK v \in tasks : v.worker = w
    BY <1>1
  <2>2. CASE v = t
    BY <2>1, <2>2 DEF Moved
  <2>3. CASE v # t
    BY <2>1, <2>3
  <2> QED BY <2>2, <2>3
<1> QED BY <1>1 DEF Usual

(* Every step keeps the usual course, or ends it. *)
LEMMA UsualStep ==
  ASSUME InTime, TypeOK, TaskInv, DataInv, BehindInv, UsualInv, Next
  PROVE  UsualInv'
<1> SUFFICES ASSUME steady'
             PROVE  /\ records' # Null /\ Active' /\ MayRetry' /\ ~Behind'
                    /\ \A t \in tasks' : t.phase = "stored" => t.outcome = "resolved"
                    /\ Usual(queue[Name])'
  BY DEF UsualInv, Usual
<1>1. steady => /\ records # Null /\ Active /\ MayRetry /\ ~Behind
                /\ \A t \in tasks : t.phase = "stored" => t.outcome = "resolved"
                /\ Usual(queue[Name])
  BY DEF UsualInv
<1>2. CASE Tick
  <2>1. steady /\ Active'
    BY <1>2 DEF Tick
  <2>2. records' # Null
    BY <1>1, <1>2, <2>1, TickRecords
  <2>3. ~Behind'
    BY <1>1, <1>2, <2>1, TickBehind
  <2>4. MayRetry'
    <3>1. domain \in DomainRow /\ domain'.retry_after = PastOrNull(domain.retry_after, 0)
      BY <1>1, <1>2, <2>1, TickDomain DEF Active
    <3>2. domain.retry_after \in Int \union {Null}
      BY <3>1 DEF DomainRow
    <3>3. domain'.retry_after = Null
      BY <1>1, <2>1, <3>1, <3>2 DEF MayRetry, PastOrNull
    <3> QED BY <3>3 DEF MayRetry
  <2>5. \A u \in tasks' : u.phase = "stored" => u.outcome = "resolved"
    BY <1>1, <1>2, <2>1, TickTasks DEF Aged
  <2>6. Usual(queue[Name])'
    <3>1. ASSUME queue'[Name].state = "pending", queue'[Name].locked_at # Null
          PROVE  \E u \in tasks' : u.worker = queue'[Name].locked_by
      <4>1. PICK t \in tasks : t.worker = queue[Name].locked_by
        BY <1>1, <1>2, <2>1, <3>1, TickQueue DEF Usual
      <4>2. PICK u \in tasks' : Aged(t, u)
        BY <1>2, TickTasks
      <4> QED BY <1>2, <4>1, <4>2, TickQueue DEF Aged
    <3>2. /\ queue'[Name].state # "dead"
          /\ queue'[Name].state = "pending" => queue'[Name].next_attempt_at <= 0
      BY <1>1, <1>2, <2>1, TickQueue DEF Usual
    <3> QED BY <3>1, <3>2 DEF Usual
  <2> QED BY <2>1, <2>2, <2>3, <2>4, <2>5, <2>6
<1>3. CASE WriteMisses \/ \E time \in -FlushDelay..0 : WriteHits(time)
  <2>1. steady /\ records' = records /\ tasks' = tasks
    BY <1>3 DEF WriteMisses, WriteHits
  <2>2. /\ domain'.measured_at = domain.measured_at
        /\ domain'.retry_after = domain.retry_after /\ Active'
    BY <1>1, <1>3, <2>1, WriteFacts DEF Active
  <2>3. MayRetry' /\ ~Behind'
    BY <1>1, <2>1, <2>2 DEF MayRetry, Behind
  <2>4. queue' = queue \/ queue' = enqueue(queue, {Name}, 0)
    BY <1>3 DEF WriteMisses, WriteHits
  <2> QED BY <1>1, <2>1, <2>2, <2>3, <2>4, UsualEnqueue
<1>4. CASE ScanSelect \/ ScanEnqueue \/ Miss \/ DropBatch \/ \E table \in {"domains", "queue"} : GcSelect(table)
  <2>1. steady /\ UNCHANGED <<domain, records, tasks>>
    BY <1>4 DEF ScanSelect, ScanEnqueue, Miss, DropBatch, GcSelect
  <2>2. queue' = queue \/ queue' = enqueue(queue, {Name}, 0)
    BY <1>4 DEF ScanSelect, ScanEnqueue, Miss, DropBatch, GcSelect
  <2>3. Active' /\ MayRetry' /\ ~Behind'
    BY <1>1, <2>1 DEF Active, MayRetry, Behind
  <2> QED BY <1>1, <2>1, <2>2, <2>3, UsualEnqueue
<1>5. ASSUME NEW w \in WorkerIds, Claim(w) PROVE UsualInv'
  <2>1. /\ steady /\ UNCHANGED <<domain, records>> /\ Name \in ClaimReady(queue, 0)
        /\ queue' = Capped(claim(queue, {Name}, w, 0)) /\ tasks' = tasks \union {NewTask(w)}
    BY <1>5 DEF Claim
  <2>2. /\ queue'[Name].locked_by = w /\ queue'[Name].state = queue[Name].state
        /\ queue'[Name].next_attempt_at = queue[Name].next_attempt_at
        /\ NewTask(w).worker = w /\ NewTask(w).phase = "asking"
    BY <2>1, ClaimFacts DEF TypeOK
  <2>3. queue[Name].state = "pending" /\ queue[Name].next_attempt_at <= 0
    BY <2>1 DEF ClaimReady
  <2>4. Usual(queue[Name])'
    BY <2>1, <2>2, <2>3 DEF Usual
  <2>5. Active' /\ MayRetry' /\ ~Behind'
    BY <1>1, <2>1 DEF Active, MayRetry, Behind
  <2> QED BY <1>1, <2>1, <2>2, <2>4, <2>5 DEF UsualInv, Usual
<1>6. ASSUME NEW t \in tasks, NEW o \in Outcomes, Answer(t, o) PROVE UsualInv'
  <2>1. PICK u \in Tasks : tasks' = (tasks \ {t}) \union {u} /\ Moved(t, u) /\ u.phase = "answered"
    BY <1>6, AnswerFacts
  <2>2. steady /\ UNCHANGED <<domain, records, queue>>
    BY <1>6 DEF Answer
  <2>3. Active' /\ MayRetry' /\ ~Behind'
    BY <1>1, <2>2 DEF Active, MayRetry, Behind
  <2>4. Usual(queue[Name])'
    BY <1>1, <2>1, <2>2, UsualMoved
  <2> QED BY <1>1, <2>1, <2>2, <2>3, <2>4 DEF UsualInv, Usual
<1>7. ASSUME NEW t \in tasks, Store(t) PROVE UsualInv'
  <2>1. PICK u \in Tasks : /\ tasks' = (tasks \ {t}) \union {u} /\ Moved(t, u)
                           /\ u.phase = "stored" /\ u.outcome = t.outcome
    BY <1>7, StoreTask
  <2>2. steady /\ t.outcome = "resolved" /\ queue' = queue
    BY <1>7 DEF Store
  <2>3. /\ records' # Null /\ records'.until = Ttl /\ domain' # Null
        /\ domain'.measured_at = 0 /\ domain'.retry_after = Null
        /\ domain'.queried = domain.queried /\ domain'.asked = domain.asked
    BY <1>1, <1>7, <2>2, StoreFacts DEF Active
  <2>4. Active' /\ MayRetry'
    BY <1>1, <2>2, <2>3 DEF Active, MayRetry
  <2>5. ~Behind'
    BY <2>3, Settings DEF Behind
  <2>6. Usual(queue[Name])'
    BY <1>1, <2>1, <2>2, UsualMoved
  <2> QED BY <1>1, <2>1, <2>2, <2>3, <2>4, <2>5, <2>6 DEF UsualInv, Usual
<1>8. ASSUME NEW t \in tasks, Settle(t) PROVE UsualInv'
  <2>1. /\ t.phase = "stored" /\ queue'[Name] = NoRow /\ tasks' = {} /\ Active /\ records # Null
        /\ MayRetry /\ UNCHANGED <<domain, records>>
    BY <1>8 DEF Settle
  <2>2. ~Behind
    <3>1. domain.retry_after \in Int \union {Null}
      BY <2>1 DEF TypeOK, Active, DomainRow
    <3> QED BY <2>1, <3>1 DEF BehindInv, MayRetry
  <2>3. Active' /\ MayRetry' /\ ~Behind'
    BY <2>1, <2>2 DEF Active, MayRetry, Behind
  <2>4. NoRow.state = "absent"
    BY DEF NoRow
  <2> QED BY <2>1, <2>3, <2>4 DEF UsualInv, Usual
<1>9. ASSUME NEW t \in tasks, Abort(t) PROVE UsualInv'
  BY <1>9 DEF Abort
<1>10. CASE ScanFails \/ GcDelete
  BY <1>10 DEF ScanFails, GcDelete
<1> QED BY <1>2, <1>3, <1>4, <1>5, <1>6, <1>7, <1>8, <1>9, <1>10 DEF Next, UsualInv, Usual

-----------------------------------------------------------------------------
(* A measurement that has been stored leaves time for a scan and another one. *)
LEMMA StoredAhead ==
  ASSUME InTime, TypeOK, TaskInv, records # Null,
         NEW t \in tasks, t.phase = "stored", t.outcome = "resolved"
  PROVE  records.until > MaxRun + ScanPeriod
<1>1. t.age \in Nat /\ t.age <= MaxRun /\ records.until \in Nat
  BY TaskNumbers, RecordNumbers
<1>2. records.until >= Ttl - t.age
  BY DEF TaskInv
<1> QED BY <1>1, <1>2, Settings DEF InTime

(* Steps that keep the records, the scan and what is queued or measured. *)
LEMMA AheadKept ==
  ASSUME AheadInv, steady, records' = records, scan' = scan,
         Name \in ClaimReady(queue, 0) => Name \in ClaimReady(queue', 0),
         \A t \in tasks : t.phase # "stored" =>
             \E u \in tasks' : u.phase # "stored" /\ u.age = t.age
  PROVE  AheadInv'
<1>1. CASE \E t \in tasks : t.phase # "stored" /\ records.until > MaxRun - t.age
  <2>1. PICK t \in tasks : t.phase # "stored" /\ records.until > MaxRun - t.age
    BY <1>1
  <2>2. PICK u \in tasks' : u.phase # "stored" /\ u.age = t.age
    BY <2>1
  <2> QED BY <2>1, <2>2 DEF AheadInv
<1>2. CASE ~ \E t \in tasks : t.phase # "stored" /\ records.until > MaxRun - t.age
  <2>1. \/ records.until > MaxRun + ScanPeriod - scan.age
        \/ scan.picked /\ records.until > MaxRun
        \/ Name \in ClaimReady(queue, 0) /\ records.until > MaxRun
    BY <1>2 DEF AheadInv
  <2> QED BY <2>1 DEF AheadInv
<1> QED BY <1>1, <1>2

(* A row that can be claimed is not touched by enqueue(). *)
LEMMA ReadyEnqueue ==
  ASSUME TypeOK, queue' = queue \/ queue' = enqueue(queue, {Name}, 0)
  PROVE  Name \in ClaimReady(queue, 0) => Name \in ClaimReady(queue', 0)
<1> SUFFICES ASSUME Name \in ClaimReady(queue, 0) PROVE Name \in ClaimReady(queue', 0)
  OBVIOUS
<1>1. queue[Name].state = "pending"
  BY DEF ClaimReady
<1>2. queue'[Name] = queue[Name]
  BY <1>1, EnqueueFacts DEF TypeOK
<1> QED BY <1>2 DEF ClaimReady

(* Every step keeps the next measurement ahead of the expiry. *)
LEMMA AheadStep ==
  ASSUME InTime, TypeOK, TaskInv, DataInv, UsualInv, AheadInv, Next
  PROVE  AheadInv'
<1> SUFFICES ASSUME steady' PROVE AheadInv'
  BY DEF AheadInv
<1>1. steady => /\ records # Null /\ Active /\ MayRetry /\ ~Behind
                /\ \A t \in tasks : t.phase = "stored" => t.outcome = "resolved"
                /\ Usual(queue[Name])
  BY DEF UsualInv
<1>2. scan.age \in Nat /\ scan.age <= ScanPeriod
  <2>1. scan.age \in 0..ScanPeriod
    BY DEF TypeOK
  <2> QED BY <2>1, Settings
<1>3. records # Null => records.until \in Nat
  BY RecordNumbers
<1>4. CASE Tick
  <2>1. steady /\ ~Late
    BY <1>4 DEF Tick
  <2>2. /\ records # Null /\ records.until \in Nat
        /\ records'.until = IF records.until > 0 THEN records.until - 1 ELSE 0
    BY <1>1, <1>3, <1>4, <2>1, TickRecords
  <2>3. records'.until \in Nat /\ records'.until >= records.until - 1
    BY <2>2
  <2>4. ~scan.picked /\ scan.age < ScanPeriod /\ Name \notin ClaimReady(queue, 0)
    BY <1>2, <2>1, Settings DEF Late
  <2>5. CASE records.until > MaxRun + ScanPeriod - scan.age
    <3>1. scan'.age = scan.age + 1
      BY <1>4, <2>4 DEF Tick, TypeOK
    <3>2. records'.until > MaxRun + ScanPeriod - scan'.age
      BY <1>2, <2>2, <2>3, <2>5, <3>1, Settings
    <3> QED BY <3>2 DEF AheadInv
  <2>6. CASE \E t \in tasks : t.phase # "stored" /\ records.until > MaxRun - t.age
    <3>1. PICK t \in tasks : t.phase # "stored" /\ records.until > MaxRun - t.age
      BY <2>6
    <3>2. PICK u \in tasks' : Aged(t, u)
      BY <1>4, TickTasks
    <3>3. u.phase # "stored" /\ u.age = t.age + 1 /\ t.age \in Nat
      BY <3>1, <3>2, TaskNumbers DEF Aged
    <3>4. records'.until > MaxRun - u.age
      BY <2>2, <2>3, <3>1, <3>3, Settings
    <3> QED BY <3>3, <3>4 DEF AheadInv
  <2> QED BY <2>1, <2>4, <2>5, <2>6 DEF AheadInv
<1>5. CASE Miss \/ DropBatch \/ WriteMisses \/ \E time \in -FlushDelay..0 : WriteHits(time)
  <2>1. steady /\ UNCHANGED <<records, scan, tasks>>
    BY <1>5 DEF Miss, DropBatch, WriteMisses, WriteHits
  <2>2. queue' = queue \/ queue' = enqueue(queue, {Name}, 0)
    BY <1>5 DEF Miss, DropBatch, WriteMisses, WriteHits
  <2> QED BY <2>1, <2>2, ReadyEnqueue, AheadKept
<1>6. ASSUME NEW table \in {"domains", "queue"}, GcSelect(table) PROVE AheadInv'
  <2>1. steady /\ UNCHANGED <<records, scan, tasks, queue>>
    BY <1>6 DEF GcSelect
  <2> QED BY <2>1, AheadKept
<1>7. CASE ScanSelect
  <2>1. /\ steady /\ UNCHANGED <<records, queue, tasks>> /\ ~scan.picked
        /\ scan'.picked = Expiring /\ scan'.age = 0
    BY <1>7 DEF ScanSelect
  <2>2. CASE Expiring
    <3>1. CASE records.until > MaxRun + ScanPeriod - scan.age
      <4>1. records.until > MaxRun
        BY <1>1, <1>2, <1>3, <2>1, <3>1, Settings
      <4> QED BY <2>1, <2>2, <4>1 DEF AheadInv
    <3>2. CASE \/ Name \in ClaimReady(queue, 0) /\ records.until > MaxRun
               \/ \E t \in tasks : t.phase # "stored" /\ records.until > MaxRun - t.age
      BY <2>1, <3>2 DEF AheadInv
    <3> QED BY <2>1, <3>1, <3>2 DEF AheadInv
  <2>3. CASE ~Expiring
    <3>1. \/ records.until >= Lead
          \/ domain.measured_at # Null /\ domain.measured_at > -MinRemeasure
      <4>1. domain.measured_at \in Int \union {Null}
        BY <1>1, <2>1 DEF TypeOK, Active, DomainRow
      <4> QED BY <1>1, <1>3, <2>1, <2>3, <4>1, Settings DEF Expiring
    <3>2. CASE records.until >= Lead
      BY <1>1, <1>3, <2>1, <3>2, Settings DEF AheadInv, InTime
    <3>3. CASE domain.measured_at # Null /\ domain.measured_at > -MinRemeasure
      <4>1. domain.measured_at \in Int
        BY <1>1, <2>1, <3>3 DEF TypeOK, Active, DomainRow
      <4>2. records.until >= Ttl + domain.measured_at
        BY <1>1, <1>3, <2>1, <3>3, <4>1, Settings DEF Behind
      <4>3. records.until > MaxRun + ScanPeriod
        BY <1>1, <1>3, <2>1, <3>3, <4>1, <4>2, Settings DEF InTime
      <4> QED BY <2>1, <4>3, Settings DEF AheadInv
    <3> QED BY <3>1, <3>2, <3>3
  <2> QED BY <2>2, <2>3
<1>8. CASE ScanEnqueue
  <2>1. /\ steady /\ UNCHANGED <<records, tasks>> /\ queue' = enqueue(queue, {Name}, 0)
        /\ scan'.age = scan.age
    BY <1>8 DEF ScanEnqueue, TypeOK
  <2>2. Name \in ClaimReady(queue, 0) => Name \in ClaimReady(queue', 0)
    BY <2>1, ReadyEnqueue
  <2>3. CASE \/ records.until > MaxRun + ScanPeriod - scan.age
             \/ Name \in ClaimReady(queue, 0) /\ records.until > MaxRun
             \/ \E t \in tasks : t.phase # "stored" /\ records.until > MaxRun - t.age
    BY <2>1, <2>2, <2>3 DEF AheadInv
  <2>4. CASE records.until > MaxRun
    <3>1. queue[Name].state \in {"absent", "pending"}
      <4>1. queue[Name] \in Row
        BY Settings DEF TypeOK
      <4> QED BY <1>1, <2>1, <4>1 DEF Usual, Row
    <3>2. CASE queue[Name].state = "absent"
      <4>1. queue'[Name] = FreshRow(0)
        BY <2>1, <3>2, EnqueueFacts DEF TypeOK
      <4>2. /\ FreshRow(0).state = "pending" /\ FreshRow(0).next_attempt_at = 0
            /\ FreshRow(0).locked_at = Null
        BY EnqueueFacts DEF TypeOK
      <4>3. Name \in ClaimReady(queue', 0)
        BY <4>1, <4>2, Settings DEF ClaimReady
      <4> QED BY <2>1, <2>4, <4>3 DEF AheadInv
    <3>3. CASE queue[Name].state = "pending" /\ queue[Name].locked_at = Null
      <4>1. Name \in ClaimReady(queue, 0)
        BY <1>1, <2>1, <3>3, Settings DEF Usual, ClaimReady
      <4> QED BY <2>1, <2>2, <2>4, <4>1 DEF AheadInv
    <3>4. CASE queue[Name].state = "pending" /\ queue[Name].locked_at # Null
      <4>1. PICK t \in tasks : t.worker = queue[Name].locked_by
        BY <1>1, <2>1, <3>4 DEF Usual
      <4>2. CASE t.phase = "stored"
        <5>1. records.until > MaxRun + ScanPeriod
          BY <1>1, <2>1, <4>2, StoredAhead
        <5>2. records.until > MaxRun + ScanPeriod - scan.age
          BY <1>1, <1>2, <1>3, <2>1, <5>1, Settings
        <5> QED BY <2>3, <5>2
      <4>3. CASE t.phase # "stored"
        <5>1. records.until > MaxRun - t.age
          BY <1>1, <1>3, <2>1, <2>4, TaskNumbers, Settings
        <5> QED BY <2>3, <4>3, <5>1
      <4> QED BY <4>2, <4>3
    <3> QED BY <3>1, <3>2, <3>3, <3>4
  <2> QED BY <2>1, <2>3, <2>4 DEF AheadInv
<1>9. ASSUME NEW w \in WorkerIds, Claim(w) PROVE AheadInv'
  <2>1. /\ steady /\ UNCHANGED <<records, scan>> /\ tasks' = tasks \union {NewTask(w)}
    BY <1>9 DEF Claim
  <2>2. NewTask(w).phase = "asking" /\ NewTask(w).age = 0
    BY ClaimFacts DEF TypeOK
  <2>3. CASE records.until > MaxRun
    <3>1. records.until > MaxRun - NewTask(w).age
      BY <1>1, <1>3, <2>1, <2>2, <2>3, Settings
    <3> QED BY <2>1, <2>2, <3>1 DEF AheadInv
  <2>4. CASE \/ records.until > MaxRun + ScanPeriod - scan.age
             \/ \E t \in tasks : t.phase # "stored" /\ records.until > MaxRun - t.age
    BY <2>1, <2>4 DEF AheadInv
  <2> QED BY <2>1, <2>3, <2>4 DEF AheadInv
<1>10. ASSUME NEW t \in tasks, NEW o \in Outcomes, Answer(t, o) PROVE AheadInv'
  <2>1. PICK u \in Tasks : tasks' = (tasks \ {t}) \union {u} /\ Moved(t, u) /\ u.phase = "answered"
    BY <1>10, AnswerFacts
  <2>2. steady /\ UNCHANGED <<records, scan, queue>>
    BY <1>10 DEF Answer
  <2>3. \A v \in tasks : v.phase # "stored" => \E x \in tasks' : x.phase # "stored" /\ x.age = v.age
    BY <2>1 DEF Moved
  <2> QED BY <2>2, <2>3, AheadKept
<1>11. ASSUME NEW t \in tasks, Store(t) PROVE AheadInv'
  <2>1. t.outcome = "resolved" /\ scan' = scan
    BY <1>11 DEF Store
  <2>2. records'.until = Ttl
    BY <1>11, <2>1, StoreFacts
  <2>3. records'.until > MaxRun + ScanPeriod - scan'.age
    BY <1>2, <2>1, <2>2, Settings DEF InTime
  <2> QED BY <2>3 DEF AheadInv
<1>12. ASSUME NEW t \in tasks, Settle(t) PROVE AheadInv'
  <2>1. /\ t.phase = "stored" /\ t.outcome = "resolved" /\ records # Null
        /\ UNCHANGED <<records, scan>>
    BY <1>12 DEF Settle
  <2>2. records.until > MaxRun + ScanPeriod
    BY <2>1, StoredAhead
  <2>3. records.until > MaxRun + ScanPeriod - scan.age
    BY <1>2, <1>3, <2>1, <2>2, Settings
  <2> QED BY <2>1, <2>3 DEF AheadInv
<1>13. ASSUME NEW t \in tasks, Abort(t) PROVE AheadInv'
  BY <1>13 DEF Abort
<1>14. CASE ScanFails \/ GcDelete
  BY <1>14 DEF ScanFails, GcDelete
<1> QED BY <1>4, <1>5, <1>6, <1>7, <1>8, <1>9, <1>10, <1>11, <1>12, <1>13, <1>14 DEF Next

-----------------------------------------------------------------------------
(* The part of the invariant that needs no particular settings. *)
CoreInv == TypeOK /\ TaskInv /\ DataInv

(* At the start nothing is known of the domain. *)
LEMMA InitCore == Init => IInv
<1> SUFFICES ASSUME Init PROVE IInv
  OBVIOUS
<1>1. NoRow \in Row
  BY DEF NoRow, Row
<1>2. scan \in [picked : BOOLEAN, age : 0..ScanPeriod]
  BY Settings DEF Init
<1>3. TypeOK
  BY <1>1, <1>2 DEF Init, TypeOK
<1>4. TaskInv /\ DataInv /\ BehindInv /\ UsualInv /\ AheadInv
  BY DEF Init, TaskInv, DataInv, Served, BehindInv, Behind, UsualInv, AheadInv
<1> QED BY <1>3, <1>4 DEF IInv

(* Every step keeps it. *)
LEMMA CoreStep == CoreInv /\ [Next]_vars => CoreInv'
<1> SUFFICES ASSUME CoreInv, [Next]_vars PROVE CoreInv'
  OBVIOUS
<1> USE DEF CoreInv
<1>1. CASE Next
  <2>1. TypeOK'
    BY <1>1, ServiceTypes, WorkerTypes DEF Next
  <2>2. TaskInv' /\ DataInv'
    BY <1>1, TaskStep, DataStep
  <2> QED BY <2>1, <2>2
<1>2. CASE UNCHANGED vars
  BY <1>2 DEF vars, TypeOK, TaskInv, DataInv, Served
<1> QED BY <1>1, <1>2

(* Every step keeps the whole of it, when the settings leave the time. *)
LEMMA FullStep ==
  ASSUME InTime
  PROVE  IInv /\ [Next]_vars => IInv'
<1> SUFFICES ASSUME IInv, [Next]_vars PROVE IInv'
  OBVIOUS
<1>1. CASE Next
  <2>1. TypeOK' /\ TaskInv' /\ DataInv'
    BY <1>1, CoreStep DEF IInv, CoreInv
  <2>2. BehindInv' /\ UsualInv' /\ AheadInv'
    BY <1>1, BehindStep, UsualStep, AheadStep DEF IInv
  <2> QED BY <2>1, <2>2 DEF IInv
<1>2. CASE UNCHANGED vars
  BY <1>2 DEF vars, IInv, TypeOK, TaskInv, DataInv, Served, BehindInv, Behind,
              UsualInv, Usual, Active, MayRetry, AheadInv
<1> QED BY <1>1, <1>2

-----------------------------------------------------------------------------
(* Rows, records and tasks keep their types, whatever the services do and  *)
(* in whichever order.                                                     *)
THEOREM TypeCorrect == Spec => []TypeOK
<1>1. Init => CoreInv
  BY InitCore DEF IInv, CoreInv
<1>2. CoreInv => TypeOK
  BY DEF CoreInv
<1> QED BY <1>1, <1>2, CoreStep, PTL DEF Spec

(* No client is served an answer older than its lifetime and one           *)
(* measurement, for any settings and any number of overlapping workers.    *)
THEOREM DataNeverTooOld == Spec => []DataAgeBounded
<1>1. Init => CoreInv
  BY InitCore DEF IInv, CoreInv
<1>2. CoreInv => DataAgeBounded
  <2> SUFFICES ASSUME CoreInv, Served PROVE records.answered >= -(Ttl + MaxRun)
    BY DEF DataAgeBounded
  <2>1. records # Null /\ records.answered >= records.until - Ttl - MaxRun
    BY DEF CoreInv, DataInv, Served
  <2>2. records.until \in Nat /\ records.answered \in Int
    BY <2>1, RecordNumbers DEF CoreInv
  <2> QED BY <2>1, <2>2, Settings
<1> QED BY <1>1, <1>2, CoreStep, PTL DEF Spec

(* With settings that leave the time, the expiry scan keeps a domain in    *)
(* service for as long as clients ask for it and nothing fails or is late. *)
THEOREM ActiveDomainsStayServed ==
  ASSUME InTime
  PROVE  Spec => []StaysServed
<1>1. IInv => StaysServed
  <2> SUFFICES ASSUME IInv, steady PROVE Served
    BY DEF StaysServed
  <2>1. records # Null /\ records.until \in Nat
    BY RecordNumbers DEF IInv, UsualInv
  <2>2. scan.age \in Nat /\ scan.age <= ScanPeriod
    <3>1. scan.age \in 0..ScanPeriod
      BY DEF IInv, TypeOK
    <3> QED BY <3>1, Settings
  <2>3. \A t \in tasks : t.age \in Nat /\ t.age <= MaxRun
    BY TaskNumbers DEF IInv
  <2>4. records.until > 0
    BY <2>1, <2>2, <2>3, Settings DEF IInv, AheadInv
  <2> QED BY <2>1, <2>4 DEF Served
<1> QED BY <1>1, InitCore, FullStep, PTL DEF Spec
=============================================================================
