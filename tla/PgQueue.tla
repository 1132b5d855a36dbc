------------------------------ MODULE PgQueue ------------------------------
(***************************************************************************)
(* The measurement queue of services/src/cadns/queue/pg.py: the table      *)
(* cadns.measurement_queue and the five SQL statements that touch it, as   *)
(* operators from a table and a time to the table the statement leaves.    *)
(* Each statement is one PostgreSQL transaction, so it is atomic here; the *)
(* module has no behaviour of its own.  MeasurementQueue composes it with  *)
(* the workers.                                                            *)
(*                                                                         *)
(* A row keeps the columns the statements read.  `reason' and `last_error' *)
(* are never read by a statement and are left out.                         *)
(***************************************************************************)
EXTENDS Integers, FiniteSets

CONSTANTS
    Domains,       \* domain names, already normalised
    WorkerIds,     \* Worker.id values: one per process, never reused
    Null,          \* SQL NULL
    LockTimeout,   \* QueuePolicy.lock_timeout_seconds
    MaxAttempts,   \* QueuePolicy.max_attempts
    RetryBase,     \* QueuePolicy.retry_base_seconds
    RetryMax,      \* QueuePolicy.retry_max_seconds
    DeadCooldown   \* QueuePolicy.dead_cooldown_seconds

ASSUME PolicyAssumption ==
    /\ LockTimeout \in Nat
    /\ MaxAttempts \in Nat
    /\ RetryBase \in Nat
    /\ RetryMax \in Nat
    /\ DeadCooldown \in Nat

ASSUME DomainsAssumption == IsFiniteSet(Domains)

ASSUME NullAssumption == Null \notin WorkerIds /\ Null \notin Int

(***************************************************************************)
(* Rows.  A domain without a row has the value NoRow.                      *)
(***************************************************************************)
Row == [ state           : {"absent", "pending", "dead"},
         attempts        : Nat,
         enqueued_at     : Int,
         next_attempt_at : Int,
         locked_by       : WorkerIds \union {Null},
         locked_at       : Int \union {Null} ]

NoRow == [ state |-> "absent", attempts |-> 0,
           enqueued_at |-> 0, next_attempt_at |-> 0,
           locked_by |-> Null, locked_at |-> Null ]

FreshRow(t) == [ state |-> "pending", attempts |-> 0,
                 enqueued_at |-> t, next_attempt_at |-> t,
                 locked_by |-> Null, locked_at |-> Null ]

Unlocked(row) == [row EXCEPT !.locked_by = Null, !.locked_at = Null]

-----------------------------------------------------------------------------
(* QueuePolicy.retry_delay: exponential backoff with a ceiling. *)
retry_delay(attempts) ==
    LET delay == RetryBase * 2^(IF attempts > 1 THEN attempts - 1 ELSE 0)
    IN  IF delay < RetryMax THEN delay ELSE RetryMax

(***************************************************************************)
(* enqueue: INSERT ... ON CONFLICT DO UPDATE WHERE dead and cooled down.   *)
(* Queueable is what the statement RETURNs; any other row is left alone.   *)
(***************************************************************************)
(* Variant: ON CONFLICT DO UPDATE without its WHERE. *)
QueueableAlways(queue, ds, t) == ds

Queueable(queue, ds, t) ==
    {d \in ds : \/ queue[d].state = "absent"
                \/ queue[d].state = "dead" /\ queue[d].next_attempt_at <= t}

enqueue(queue, ds, t) ==
    [d \in Domains |-> IF d \in Queueable(queue, ds, t) THEN FreshRow(t) ELSE queue[d]]

(***************************************************************************)
(* claim: the WHERE of the inner SELECT, its ORDER BY and LIMIT, and the   *)
(* UPDATE.  FOR UPDATE SKIP LOCKED passes over any row that another        *)
(* transaction holds at that moment (a concurrent claim, or an enqueue     *)
(* whose ON CONFLICT locks the row), which is the set `skipped'.           *)
(***************************************************************************)
(* Variants: a lock expires one tick early; locks are not looked at. *)
ClaimReadyEarly(queue, t) ==
    {d \in Domains : /\ queue[d].state = "pending"
                     /\ queue[d].next_attempt_at <= t
                     /\ \/ queue[d].locked_at = Null
                        \/ queue[d].locked_at <= t - LockTimeout}

ClaimReadyUnlocked(queue, t) ==
    {d \in Domains : queue[d].state = "pending" /\ queue[d].next_attempt_at <= t}

ClaimReady(queue, t) ==
    {d \in Domains : /\ queue[d].state = "pending"
                     /\ queue[d].next_attempt_at <= t
                     /\ \/ queue[d].locked_at = Null
                        \/ queue[d].locked_at < t - LockTimeout}

ClaimChoices(queue, skipped, limit, t) ==
    LET candidates == ClaimReady(queue, t) \ skipped
    IN  {ds \in SUBSET candidates :
            /\ Cardinality(ds) <= limit
            /\ ds # candidates => Cardinality(ds) = limit
            /\ \A d \in ds, e \in candidates \ ds :
                  queue[d].enqueued_at <= queue[e].enqueued_at}

ClaimedRow(row, w, t) ==
    [row EXCEPT !.locked_by = w, !.locked_at = t, !.attempts = @ + 1]

claim(queue, ds, w, t) ==
    [d \in Domains |-> IF d \in ds THEN ClaimedRow(queue[d], w, t) ELSE queue[d]]

(***************************************************************************)
(* complete, fail and release: WHERE domain = d AND locked_by = w.         *)
(* fail decides with the attempts of the job it was handed at claim time,  *)
(* not with those of the row.                                              *)
(***************************************************************************)
(* Variants: the row is marked instead of deleted; the lock is not checked. *)
CompleteMarks(queue, d, w) ==
    IF queue[d].locked_by = w THEN [queue EXCEPT ![d].state = "done"] ELSE queue

CompleteAnyLock(queue, d, w) == [queue EXCEPT ![d] = NoRow]

complete(queue, d, w) ==
    IF queue[d].locked_by = w THEN [queue EXCEPT ![d] = NoRow] ELSE queue

(* Variant: one attempt too few. *)
ExhaustedEarly(attempts) == attempts + 1 >= MaxAttempts

Exhausted(attempts) == attempts >= MaxAttempts

FailedRow(row, attempts, t) ==
    [Unlocked(row) EXCEPT
        !.state = IF Exhausted(attempts) THEN "dead" ELSE "pending",
        !.next_attempt_at =
            t + (IF Exhausted(attempts) THEN DeadCooldown ELSE retry_delay(attempts))]

fail(queue, d, attempts, w, t) ==
    IF queue[d].locked_by = w
    THEN [queue EXCEPT ![d] = FailedRow(@, attempts, t)]
    ELSE queue

ReleasedRow(row) == [Unlocked(row) EXCEPT !.attempts = IF @ > 0 THEN @ - 1 ELSE 0]

release(queue, d, w) ==
    IF queue[d].locked_by = w THEN [queue EXCEPT ![d] = ReleasedRow(@)] ELSE queue
=============================================================================
