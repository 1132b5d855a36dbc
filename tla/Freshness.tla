----------------------------- MODULE Freshness -----------------------------
(***************************************************************************)
(* The life of one domain, across the services that share the database:    *)
(* the collector's write_batch queues it, workers measure and store it,    *)
(* the expiry scan queues it again before its records expire, and the      *)
(* garbage collector forgets it (collector/service.py, worker/service.py,  *)
(* worker/store.py, monitor/tasks.py).  Every SQL statement or transaction *)
(* is a step; the queue's statements are PgQueue's.                        *)
(*                                                                         *)
(* Times are relative: now is 0, Tick moves every column one into the past *)
(* and stops it at a floor below which no comparison tells it apart.  So   *)
(* time has no end, and liveness can be checked.                           *)
(***************************************************************************)
EXTENDS PgQueue

CONSTANTS
    Name,           \* the domain
    Ttl,            \* lifetime of stored records: max(ttl, min_record_ttl)
    Lead,           \* FreshnessPolicy.lead_seconds
    MinRemeasure,   \* FreshnessPolicy.min_remeasure_seconds
    Window,         \* FreshnessPolicy.activity_window_seconds
    FailedRetry,    \* Settings.failed_retry_seconds
    NegativeRetry,  \* the backoff of a negative answer
    Retention,      \* RetentionPolicy.domain_days
    ScanPeriod,     \* Settings.monitor_scan_seconds
    MaxRun,         \* no measurement takes longer
    FlushDelay,     \* no batch waits longer to be written
    MaxTasks        \* bound of the model: measurements at a time

(* first_seen_at is read only while last_queried_at is NULL, so `queried' is *)
(* coalesce(last_queried_at, first_seen_at) and `asked' tells which.         *)
(* No statement reads the status.                                            *)
DomainRow == [ queried : Int, asked : BOOLEAN,
               measured_at : Int \union {Null}, retry_after : Int \union {Null} ]

(* What dlz_findzone and the scan see of the records: when the last one      *)
(* expires, and when the resolvers gave the answer they are from.            *)
Records == [ until : 0..Ttl, answered : Int ]

ASSUME FreshnessAssumption ==
    /\ Domains = {Name}
    /\ Null \notin DomainRow /\ Null \notin Records
    /\ {Ttl, Lead, MinRemeasure, Window, FailedRetry, NegativeRetry, Retention,
        ScanPeriod, MaxRun, FlushDelay, MaxTasks} \subseteq Nat

VARIABLES
    domain,    \* the row of cadns.domains, or Null
    records,   \* its cadns.rrset_records, or Null
    queue,     \* cadns.measurement_queue
    tasks,     \* measurements in progress
    miss,      \* time of the last miss in the collector's batch, or Null
    scan,      \* [picked: the scan has selected the domain, age: of the last scan]
    gc,        \* the DELETE that has selected the domain, or "idle"
    steady     \* history: completed, and since then queried and no fault

vars == <<domain, records, queue, tasks, miss, scan, gc, steady>>

Tasks == [ worker : WorkerIds, attempts : Nat, age : 0..MaxRun,
           phase : {"asking", "answered", "stored"},
           outcome : {"none", "resolved", "negative", "failed"}, answered : Int ]

Init ==
    /\ domain = Null
    /\ records = Null
    /\ queue = [d \in Domains |-> NoRow]
    /\ tasks = {}
    /\ miss = Null
    /\ scan = [picked |-> FALSE, age |-> 0]
    /\ gc = "idle"
    /\ steady = FALSE

Served == records # Null /\ records.until > 0    \* dlz_findzone
Active == domain # Null /\ domain.asked /\ domain.queried > -Window
MayRetry == domain.retry_after = Null \/ domain.retry_after <= 0

-----------------------------------------------------------------------------
(* Time.  A late scan, claim or statement, or an inactive domain, ends       *)
(* `steady'.                                                                 *)
Max2(a, b) == IF a > b THEN a ELSE b
Past(t, floor) == IF t = Null THEN Null ELSE Max2(t - 1, floor)
PastOrNull(t, floor) == IF t = Null \/ t - 1 <= floor THEN Null ELSE t - 1

(* A retry_after that has passed and an old measured_at read like NULL; how  *)
(* old the answer was matters while it is served.                            *)
PastDomain(d) ==
    [d EXCEPT !.queried = Past(@, -Retention - 1), !.retry_after = PastOrNull(@, 0),
              !.measured_at = PastOrNull(@, -Max2(MinRemeasure, FlushDelay + 1))]

PastRecords(r) ==
    [until |-> Past(r.until, 0), answered |-> IF r.until > 1 THEN r.answered - 1 ELSE 0]

PastRow(row) ==
    IF row.state = "absent" THEN row
    ELSE [row EXCEPT !.enqueued_at = Past(@, -Retention - 1), !.next_attempt_at = Past(@, 0),
                     !.locked_at = Past(@, -LockTimeout - 1)]

Late == ClaimReady(queue, 0) # {} \/ scan.picked \/ scan.age >= ScanPeriod \/ gc # "idle"

Tick ==
    /\ \A t \in tasks : t.age < MaxRun
    /\ miss # Null => miss > -FlushDelay
    /\ domain' = IF domain = Null THEN Null ELSE PastDomain(domain)
    /\ records' = IF records = Null THEN Null ELSE PastRecords(records)
    /\ queue' = [d \in Domains |-> PastRow(queue[d])]
    /\ tasks' = {[t EXCEPT !.age = @ + 1,
                           !.answered = IF t.phase = "answered" /\ t.outcome = "resolved"
                                        THEN @ - 1 ELSE @] : t \in tasks}
    /\ miss' = Past(miss, -FlushDelay)
    /\ scan' = [scan EXCEPT !.age = IF @ < ScanPeriod THEN @ + 1 ELSE @]
    /\ steady' = (steady /\ ~Late /\ Active')
    /\ UNCHANGED gc

-----------------------------------------------------------------------------
(* The collector.  A miss may come at any time: a client also gets no answer  *)
(* from the records when the database does not reply in time.                *)
Miss ==
    /\ miss' = 0
    /\ UNCHANGED <<domain, records, queue, tasks, scan, gc, steady>>

Queried(d, time) ==
    [d EXCEPT !.queried = IF d.asked THEN Max2(@, time) ELSE time, !.asked = TRUE]

(* write_batch: hits are an UPDATE of their own, of a row that may be gone;  *)
(* a batch that is dropped leaves no trace ...                               *)
WriteHits(time) ==
    /\ domain # Null
    /\ time < 0 \/ Served
    /\ domain' = Queried(domain, time)
    /\ UNCHANGED <<records, queue, tasks, miss, scan, gc, steady>>

NewDomain == [queried |-> 0, asked |-> FALSE, measured_at |-> Null, retry_after |-> Null]

(* ... and the misses a transaction that upserts the domain and queues it,   *)
(* unless it is backing off or was measured after the miss.                  *)
(* Variant: only the first miss of a name queues it. *)
DueOnce == domain = Null

Due ==
    \/ domain = Null
    \/ MayRetry /\ (domain.measured_at = Null \/ domain.measured_at < miss)

WriteMisses ==
    /\ miss # Null /\ miss' = Null
    /\ domain' = Queried(IF domain = Null THEN NewDomain ELSE domain, miss)
    /\ queue' = IF Due THEN enqueue(queue, {Name}, 0) ELSE queue
    /\ UNCHANGED <<records, tasks, scan, gc, steady>>

DropBatch ==
    /\ miss # Null /\ miss' = Null
    /\ UNCHANGED <<domain, records, queue, tasks, scan, gc, steady>>

-----------------------------------------------------------------------------
(* Workers.  Nothing tells attempts beyond max_attempts apart. *)
Capped(q) == [q EXCEPT ![Name].attempts = IF @ > MaxAttempts THEN MaxAttempts ELSE @]

NewTask(w) == [worker |-> w, attempts |-> Capped(claim(queue, {Name}, w, 0))[Name].attempts,
               age |-> 0, phase |-> "asking", outcome |-> "none", answered |-> 0]

Claim(w) ==
    /\ Name \in ClaimReady(queue, 0)
    /\ Cardinality(tasks) < MaxTasks /\ NewTask(w) \notin tasks
    /\ queue' = Capped(claim(queue, {Name}, w, 0))
    /\ tasks' = tasks \union {NewTask(w)}
    /\ UNCHANGED <<domain, records, miss, scan, gc, steady>>

Becomes(t, u) == tasks' = (tasks \ {t}) \union {u}

(* Pipeline.measure has the resolvers' answers; geolocation, regions and     *)
(* signals follow before the store.                                          *)
Answer(t, outcome) ==
    /\ t.phase = "asking"
    /\ Becomes(t, [t EXCEPT !.phase = "answered", !.outcome = outcome])
    /\ UNCHANGED <<domain, records, queue, miss, scan, gc, steady>>

(* store_measurement, one transaction that ends before the queue hears of it. *)
(* Variant: a failed measurement renews the records it keeps. *)
StoredRecordsExtended(t) ==
    IF t.outcome = "negative" THEN Null
    ELSE IF t.outcome = "failed"
         THEN IF records = Null THEN Null ELSE [records EXCEPT !.until = Ttl]
         ELSE [until |-> Ttl, answered |-> t.answered]

StoredRecords(t) ==
    CASE t.outcome = "resolved" -> [until |-> Ttl, answered |-> t.answered]
      [] t.outcome = "negative" -> Null
      [] t.outcome = "failed"   -> records

RetryAfter(outcome) ==
    CASE outcome = "resolved" -> Null
      [] outcome = "negative" -> NegativeRetry
      [] outcome = "failed"   -> FailedRetry

Store(t) ==
    /\ t.phase = "answered"
    /\ domain' = [(IF domain = Null THEN NewDomain ELSE domain) EXCEPT
                     !.measured_at = 0, !.retry_after = RetryAfter(t.outcome)]
    /\ records' = StoredRecords(t)
    /\ Becomes(t, [t EXCEPT !.phase = "stored", !.answered = 0])
    /\ steady' = (steady /\ t.outcome = "resolved")
    /\ UNCHANGED <<queue, miss, scan, gc>>

(* A row that is deleted is gone for a DELETE that selected it as well. *)
Forget == gc' = IF gc = "queue" /\ queue'[Name] = NoRow THEN "idle" ELSE gc

(* _process: fail() or complete() after the store. *)
Settle(t) ==
    /\ t.phase = "stored"
    /\ queue' = IF t.outcome = "failed" THEN fail(queue, Name, t.attempts, t.worker, 0)
                ELSE complete(queue, Name, t.worker)
    /\ tasks' = tasks \ {t}
    /\ Forget
    /\ steady' = (t.outcome = "resolved" /\ queue'[Name] = NoRow /\ tasks' = {}
                  /\ Active /\ records # Null /\ MayRetry)
    /\ UNCHANGED <<domain, records, miss, scan>>

(* The measurement raises and fails, is cancelled and released, or dies. *)
Abort(t) ==
    /\ queue' \in {fail(queue, Name, t.attempts, t.worker, 0), release(queue, Name, t.worker), queue}
    /\ tasks' = tasks \ {t}
    /\ steady' = FALSE
    /\ UNCHANGED <<domain, records, miss, scan, gc>>

-----------------------------------------------------------------------------
(* The monitor: expiring_domains, then enqueue (scan_expiring); and the two  *)
(* DELETEs of collect_garbage that concern a domain, each of which chooses   *)
(* its rows in a subquery before it locks them.                              *)
(* Variant: only domains that have expired. *)
ExpiringLate ==
    /\ records # Null /\ Active /\ MayRetry
    /\ domain.measured_at = Null \/ domain.measured_at <= -MinRemeasure
    /\ records.until <= 0

Expiring ==
    /\ records # Null /\ Active /\ MayRetry
    /\ domain.measured_at = Null \/ domain.measured_at <= -MinRemeasure
    /\ records.until < Lead

ScanSelect ==
    /\ ~scan.picked
    /\ scan' = [picked |-> Expiring, age |-> 0]
    /\ UNCHANGED <<domain, records, queue, tasks, miss, gc, steady>>

ScanEnqueue ==
    /\ scan.picked
    /\ queue' = enqueue(queue, {Name}, 0)
    /\ scan' = [scan EXCEPT !.picked = FALSE]
    /\ UNCHANGED <<domain, records, tasks, miss, gc, steady>>

ScanFails ==
    /\ scan.picked
    /\ scan' = [scan EXCEPT !.picked = FALSE]
    /\ steady' = FALSE
    /\ UNCHANGED <<domain, records, queue, tasks, miss, gc>>

GcSelect(table) ==
    /\ gc = "idle"
    /\ \/ table = "domains" /\ domain # Null /\ domain.queried < -Retention
       \/ /\ table = "queue" /\ domain = Null
          /\ queue[Name].state = "dead" /\ queue[Name].enqueued_at < -Retention
    /\ gc' = table
    /\ UNCHANGED <<domain, records, queue, tasks, miss, scan, steady>>

GcDelete ==
    /\ \/ gc = "domains" /\ domain' = Null /\ records' = Null /\ UNCHANGED queue
       \/ gc = "queue" /\ queue' = [queue EXCEPT ![Name] = NoRow] /\ UNCHANGED <<domain, records>>
    /\ gc' = "idle"
    /\ steady' = FALSE
    /\ UNCHANGED <<tasks, miss, scan>>

-----------------------------------------------------------------------------
Outcomes == {"resolved", "negative", "failed"}

Next ==
    \/ Tick \/ Miss \/ WriteMisses \/ DropBatch
    \/ \E time \in -FlushDelay..0 : WriteHits(time)
    \/ \E w \in WorkerIds : Claim(w)
    \/ \E t \in tasks : Store(t) \/ Settle(t) \/ Abort(t) \/ \E o \in Outcomes : Answer(t, o)
    \/ ScanSelect \/ ScanEnqueue \/ ScanFails
    \/ \E table \in {"domains", "queue"} : GcSelect(table)
    \/ GcDelete

(* Clients keep asking, time goes on, every service goes on, and neither     *)
(* every batch nor every measurement comes to grief.                         *)
Fairness ==
    /\ SF_vars(Tick)
    /\ SF_vars(Miss)
    /\ SF_vars(WriteMisses)
    /\ WF_vars(\E w \in WorkerIds : Claim(w))
    /\ SF_vars(\E t \in tasks, o \in Outcomes : Answer(t, o))
    /\ SF_vars(\E t \in tasks : Store(t))
    /\ WF_vars(\E t \in tasks : Settle(t))
    /\ WF_vars(ScanEnqueue) /\ WF_vars(GcDelete)

Spec == Init /\ [][Next]_vars /\ Fairness

-----------------------------------------------------------------------------
TypeOK ==
    /\ domain \in DomainRow \union {Null}
    /\ records \in Records \union {Null}
    /\ queue \in [Domains -> Row]
    /\ tasks \subseteq Tasks
    /\ miss \in (-FlushDelay..0) \union {Null}
    /\ scan \in [picked : BOOLEAN, age : 0..ScanPeriod]
    /\ gc \in {"idle", "domains", "queue"}
    /\ steady \in BOOLEAN

(* A domain that clients keep asking for is re-measured before its records  *)
(* expire: from a completed measurement on it never falls out of service    *)
(* while scans, claims and measurements keep their times and nothing fails, *)
(* whatever the other services do meanwhile (tasks.py:31-74, ADR-10).       *)
StaysServed == steady => Served

(* Settings that leave the time for it: the scan looks far enough ahead,     *)
(* re-measures often enough, and a stored failure outlasts the measurements  *)
(* that overlap it.                                                          *)
InTime ==
    /\ Lead > ScanPeriod + MaxRun
    /\ Ttl >= MinRemeasure + ScanPeriod + MaxRun
    /\ Ttl > ScanPeriod + 2 * MaxRun
    /\ FailedRetry > MaxRun

(* What is served is never older than its lifetime and one measurement,     *)
(* although measurements may overlap and store out of order, failed ones    *)
(* keep the records, and expiry counts from the store and not from the      *)
(* answer (store.py:127-206).                                               *)
DataAgeBounded == Served => records.answered >= -(Ttl + MaxRun)

(* A name that clients keep missing is measured in the end: whatever was    *)
(* dropped, failed, dead-lettered, crashed or collected as garbage, and     *)
(* whichever retry_after it has (collector/service.py:9-11).                *)
MissedNameMeasured == ~Served ~> (Served \/ \E t \in tasks : t.phase = "stored")
=============================================================================
