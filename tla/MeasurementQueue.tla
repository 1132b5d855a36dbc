-------------------------- MODULE MeasurementQueue --------------------------
(***************************************************************************)
(* The measurement queue together with the workers that consume it         *)
(* (services/src/cadns/worker/service.py).  A worker process is Worker.run *)
(* with its own id; every claimed job runs as an asyncio task              *)
(* (Worker._process), up to `concurrency' of them at a time.  Producers    *)
(* (collector, monitor) appear as the action Enqueue.                      *)
(*                                                                         *)
(* A task is either measuring or, once an exception was caught, failing:   *)
(* the handler of service.py:128-137 waits for a fresh connection and then *)
(* calls fail().  Every await in between lets the other tasks, workers     *)
(* and the clock go on.                                                    *)
(*                                                                         *)
(* Faults selects what the environment may do to the workers:              *)
(*   "crash"    a process dies, its tasks with it                          *)
(*   "claim"    claim() commits but its reply is lost                      *)
(*   "record"   fail() raises in the exception handler                     *)
(*   "release"  release() raises at shutdown                               *)
(*   "reply"    complete() or fail() commits but its reply is lost         *)
(***************************************************************************)
EXTENDS PgQueue

CONSTANTS
    Concurrency,   \* Worker.concurrency
    MaxRun,        \* no task lives longer than this (nothing in the code bounds it)
    MaxTime,       \* bound of the model: the clock stops here
    Faults         \* what may go wrong, see above

ASSUME WorkerAssumption ==
    /\ Concurrency \in Nat
    /\ MaxRun \in Nat
    /\ MaxTime \in Nat
    /\ Faults \subseteq {"crash", "claim", "record", "release", "reply"}

VARIABLES
    now,      \* database time
    queue,    \* the table: Domains -> Row
    worker,   \* life cycle of each process
    tasks     \* Worker._running of all processes

vars == <<now, queue, worker, tasks>>

Task == [ worker : WorkerIds, domain : Domains, attempts : Nat,
          since : Int, phase : {"measuring", "failing"} ]

TasksOf(w) == {t \in tasks : t.worker = w}

Init ==
    /\ now = 0
    /\ queue = [d \in Domains |-> NoRow]
    /\ worker = [w \in WorkerIds |-> "new"]
    /\ tasks = {}

-----------------------------------------------------------------------------
(* Time passes, but no task outlives MaxRun. *)
Tick ==
    /\ now < MaxTime
    /\ \A t \in tasks : now - t.since < MaxRun
    /\ now' = now + 1
    /\ UNCHANGED <<queue, worker, tasks>>

(* A producer queues a batch of domains. *)
Enqueue(ds) ==
    /\ queue' = enqueue(queue, ds, now)
    /\ UNCHANGED <<now, worker, tasks>>

-----------------------------------------------------------------------------
(* The life of a process: Worker.run up to its loop, the stop event, the end *)
(* of _drain, and a crash at any point.                                      *)
Start(w) ==
    /\ worker[w] = "new"
    /\ worker' = [worker EXCEPT ![w] = "up"]
    /\ UNCHANGED <<now, queue, tasks>>

Stop(w) ==
    /\ worker[w] = "up"
    /\ worker' = [worker EXCEPT ![w] = "draining"]
    /\ UNCHANGED <<now, queue, tasks>>

Exit(w) ==
    /\ worker[w] = "draining"
    /\ TasksOf(w) = {}
    /\ worker' = [worker EXCEPT ![w] = "gone"]
    /\ UNCHANGED <<now, queue, tasks>>

Crash(w) ==
    /\ "crash" \in Faults
    /\ worker[w] \in {"up", "draining"}
    /\ worker' = [worker EXCEPT ![w] = "crashed"]
    /\ tasks' = tasks \ TasksOf(w)
    /\ UNCHANGED <<now, queue>>

-----------------------------------------------------------------------------
(* Worker._claim: `free' slots, one claim() and one task per job returned. *)
free(w) == Concurrency - Cardinality(TasksOf(w))

TaskFor(w, d) ==
    [ worker |-> w, domain |-> d, attempts |-> queue[d].attempts + 1,
      since |-> now, phase |-> "measuring" ]

Claimable(w) ==
    UNION {ClaimChoices(queue, skipped, free(w), now) : skipped \in SUBSET Domains} \ {{}}

(* Tasks that agree in every field would be one: `started' holds new ones only. *)
Claim(w) ==
    /\ worker[w] = "up"
    /\ free(w) > 0
    /\ \E ds \in Claimable(w) :
          LET started == {TaskFor(w, d) : d \in ds}
          IN  /\ started \intersect tasks = {}
              /\ queue' = claim(queue, ds, w, now)
              /\ tasks' = tasks \union started
    /\ UNCHANGED <<now, worker>>

(* The rows are locked in w's name, but w never hears of them. *)
ClaimReplyLost(w) ==
    /\ "claim" \in Faults
    /\ worker[w] = "up"
    /\ free(w) > 0
    /\ \E ds \in Claimable(w) : queue' = claim(queue, ds, w, now)
    /\ UNCHANGED <<now, worker, tasks>>

-----------------------------------------------------------------------------
(* Worker._process.  Ended(t): the task's done callback has run. *)
Ended(t) == tasks' = tasks \ {t}

BeginFailing(t) ==
    LET failing == [t EXCEPT !.phase = "failing"]
    IN  /\ failing \notin tasks
        /\ tasks' = (tasks \ {t}) \union {failing}

CompleteRow(t) == queue' = complete(queue, t.domain, t.worker)

FailRow(t) == queue' = fail(queue, t.domain, t.attempts, t.worker, now)

(* A definitive result: resolved, nxdomain or nodata. *)
Complete(t) ==
    /\ t.phase = "measuring"
    /\ CompleteRow(t)
    /\ Ended(t)
    /\ UNCHANGED <<now, worker>>

(* No definitive answer, or the exception handler recording the failure. *)
Fail(t) ==
    /\ FailRow(t)
    /\ Ended(t)
    /\ UNCHANGED <<now, worker>>

(* measure(), the pool or the database raised before anything was recorded. *)
Raise(t) ==
    /\ t.phase = "measuring"
    /\ BeginFailing(t)
    /\ UNCHANGED <<now, queue, worker>>

(* complete() or fail() took effect, but the connection broke before the reply. *)
RecordReplyLost(t) ==
    /\ "reply" \in Faults
    /\ t.phase = "measuring"
    /\ CompleteRow(t) \/ FailRow(t)
    /\ BeginFailing(t)
    /\ UNCHANGED <<now, worker>>

(* "could not record the failure ...; its lock will expire" *)
RecordError(t) ==
    /\ "record" \in Faults
    /\ t.phase = "failing"
    /\ Ended(t)
    /\ UNCHANGED <<now, queue, worker>>

(* _drain cancels a task whose grace is over.  While it measures, the handler *)
(* for CancelledError releases the job.                                       *)
CancelMeasuring(t) ==
    /\ worker[t.worker] = "draining"
    /\ t.phase = "measuring"
    /\ queue' = release(queue, t.domain, t.worker)
    /\ Ended(t)
    /\ UNCHANGED <<now, worker>>

(* Inside the handler for Exception, CancelledError passes both except clauses. *)
CancelFailing(t) ==
    /\ worker[t.worker] = "draining"
    /\ t.phase = "failing"
    /\ Ended(t)
    /\ UNCHANGED <<now, queue, worker>>

(* "could not release ...; its lock will expire" *)
ReleaseError(t) ==
    /\ "release" \in Faults
    /\ worker[t.worker] = "draining"
    /\ t.phase = "measuring"
    /\ Ended(t)
    /\ UNCHANGED <<now, queue, worker>>

-----------------------------------------------------------------------------
ProcessStep(w) == Start(w) \/ Stop(w) \/ Exit(w) \/ Crash(w) \/ Claim(w) \/ ClaimReplyLost(w)

TaskStep(t) ==
    \/ Complete(t) \/ Fail(t) \/ Raise(t) \/ RecordReplyLost(t) \/ RecordError(t)
    \/ CancelMeasuring(t) \/ CancelFailing(t) \/ ReleaseError(t)

Next ==
    \/ Tick
    \/ \E ds \in SUBSET Domains : Enqueue(ds)
    \/ \E w \in WorkerIds : ProcessStep(w)
    \/ \E t \in tasks : TaskStep(t)

Spec == Init /\ [][Next]_vars

-----------------------------------------------------------------------------
TypeOK ==
    /\ now \in Int
    /\ queue \in [Domains -> Row]
    /\ worker \in [WorkerIds -> {"new", "up", "draining", "gone", "crashed"}]
    /\ tasks \subseteq Task

(* A task owns its row: the lock names its worker and its claim, the row is  *)
(* still the attempt the task was started for, and the lock has not expired. *)
Owns(t) ==
    LET row == queue[t.domain]
    IN  /\ row.state = "pending"
        /\ row.locked_by = t.worker
        /\ row.locked_at = t.since
        /\ row.attempts = t.attempts
        /\ now <= t.since + MaxRun

(***************************************************************************)
(* Safety.  These hold when no task outlives its lock (MaxRun <=           *)
(* LockTimeout) and the replies to complete() and fail() are not lost; the *)
(* run stale_claim shows what happens otherwise.                           *)
(***************************************************************************)

(* Timely: the condition the safety of the design rests on. *)
Timely == MaxRun <= LockTimeout /\ "reply" \notin Faults

(* Two tasks never work on the same domain, whatever the workers, crashes, *)
(* expired locks and shutdowns: the promise of claim() (pg.py:4-6).        *)
ExclusiveProcessing ==
    /\ \A t \in tasks : Owns(t)
    /\ \A t, u \in tasks : t.domain = u.domain => t = u

(* A row is dead-lettered only after max_attempts claims (pg.py:7-8), and  *)
(* a dead row is locked by nobody, so a revived row is claimable at once.  *)
DeadMeansExhausted ==
    \A d \in Domains :
        queue[d].state = "dead" =>
            queue[d].attempts >= MaxAttempts /\ queue[d].locked_by = Null

(* locked_by and locked_at are set and cleared together, and only a        *)
(* pending row is locked.                                                  *)
LocksPaired ==
    \A d \in Domains :
        /\ queue[d].locked_by = Null <=> queue[d].locked_at = Null
        /\ queue[d].state # "pending" => queue[d].locked_by = Null

(* The inductive invariant behind the safety properties. *)
IInv == TypeOK /\ LocksPaired /\ ExclusiveProcessing /\ DeadMeansExhausted

(* A request that is taken off the table was met by a task started after it. *)
CompletedFresh(d) ==
    queue[d].state # "absent" /\ queue'[d].state = "absent" =>
        \E t \in tasks \ tasks' :
            /\ t.domain = d
            /\ t.phase = "measuring"
            /\ t.since >= queue[d].enqueued_at

(* A row leaves the table only through a measurement that started after    *)
(* the row was enqueued: a request is never answered by an older           *)
(* measurement (complete() deletes by domain and worker id, pg.py:94).     *)
FreshCompletion == [][\A d \in Domains : CompletedFresh(d)]_vars

(* A step that changes a row whose lock is held and has not expired. *)
WritesLocked(d) ==
    /\ queue[d].locked_by # Null
    /\ queue[d].locked_at >= now - LockTimeout
    /\ queue'[d] # queue[d]

(* While a lock is held and has not expired, the row changes only in the   *)
(* step that ends the task holding it: complete(), fail() and release()    *)
(* are matched by worker id alone (pg.py:94, 109, 120).                    *)
OnlyOwnerWrites ==
    [][\A d \in Domains :
          WritesLocked(d) => \E t \in tasks \ tasks' : t.domain = d /\ Owns(t)]_vars

(* Whatever happens, also with slow tasks and lost replies: a lock that    *)
(* has not expired is respected by every other process.  Only a task of    *)
(* the process named in locked_by changes the row.                         *)
NoForeignWrites ==
    [][\A d \in Domains :
          WritesLocked(d) =>
              \E t \in tasks \ tasks' : t.domain = d /\ t.worker = queue[d].locked_by]_vars

-----------------------------------------------------------------------------
(* The abstract board: a domain with a task is running; a pending row      *)
(* without one (not yet claimed, released, or locked by a dead process) is *)
(* waiting.                                                                *)
JobState(d) ==
    CASE queue[d].state = "absent" -> "idle"
      [] queue[d].state = "dead" -> "parked"
      [] OTHER -> IF \E t \in tasks : t.domain = d THEN "running" ELSE "waiting"

jobOf == [d \in Domains |-> JobState(d)]

Jobs == INSTANCE MeasurementJobs WITH job <- jobOf

(* The queue and its workers implement the board: a request is never lost  *)
(* and never taken twice, and only a finished or an exhausted measurement  *)
(* takes a domain off the board (pg.py:3-10).                              *)
ImplementsJobs == Jobs!JobSpec
=============================================================================
