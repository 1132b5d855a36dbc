----------------------------- MODULE WorkerLoop -----------------------------
(***************************************************************************)
(* How a worker notices work: the claim loop of Worker.run, its wake event *)
(* and poll, and the listener for NOTIFY (services/src/cadns/worker/       *)
(* service.py).  One asyncio event loop: a step is what runs between two   *)
(* awaits.                                                                 *)
(*                                                                         *)
(* A row of the queue is absent, "new" (queued and announced by NOTIFY),   *)
(* "due" (ready again without one: a retry's backoff or a lost claim's     *)
(* lock is over), "backoff" or "locked".  Attempts, lock owners and times  *)
(* are MeasurementQueue's.                                                 *)
(***************************************************************************)
EXTENDS Integers, FiniteSets

CONSTANTS
    Names,
    Concurrency   \* Worker.concurrency

ASSUME WorkerLoopAssumption == IsFiniteSet(Names) /\ Concurrency \in Nat \ {0}

VARIABLES
    queue,     \* cadns.measurement_queue
    notice,    \* a notification is on its way to the listener
    worker     \* see Workers

workerVars == <<queue, notice, worker>>

Workers == [ pc : {"top", "claim", "return", "waiting", "done"},
             wake : BOOLEAN,            \* Worker._wake
             stop : BOOLEAN,
             listening : BOOLEAN,       \* _listen is connected
             limit : 0..Concurrency,    \* the free slots _claim counted
             jobs : SUBSET Names,       \* what claim() has returned
             tasks : SUBSET Names,      \* _running: tasks that hold a row ...
             ending : 0..Concurrency,   \* ... and tasks about to call _done
             failed : BOOLEAN,          \* history: the last claim raised
             skipped : SUBSET Names ]   \* history: ready rows the last claim passed over

Running == Cardinality(worker.tasks) + worker.ending
Ready == {n \in Names : queue[n] \in {"new", "due"}}

WorkerInit ==
    /\ queue = [n \in Names |-> "absent"]
    /\ notice = FALSE
    /\ worker = [pc |-> "top", wake |-> FALSE, stop |-> FALSE, listening |-> FALSE, limit |-> 0,
                 jobs |-> {}, tasks |-> {}, ending |-> 0, failed |-> FALSE, skipped |-> {}]

SetRows(ns, state) == [n \in Names |-> IF n \in ns THEN state ELSE queue[n]]

-----------------------------------------------------------------------------
(* enqueue: rows that are not in the queue; one notification on commit. *)
Announce(due) ==
    LET queued == {n \in due : queue[n] = "absent"}
    IN  /\ queue' = SetRows(queued, "new")
        /\ notice' = (notice \/ (queued # {} /\ worker.listening))
        /\ UNCHANGED worker

(* Time makes a row ready without a notification. *)
BecomeDue(n) ==
    /\ \/ queue[n] = "backoff"
       \/ queue[n] = "locked" /\ n \notin worker.tasks \union worker.jobs
    /\ queue' = SetRows({n}, "due")
    /\ UNCHANGED <<notice, worker>>

-----------------------------------------------------------------------------
(* _listen: LISTEN, then wake, because jobs may have come in while it was    *)
(* not connected; wake on every notification; start again when disconnected. *)
Listen ==
    /\ ~worker.listening /\ worker.pc # "done"
    /\ worker' = [worker EXCEPT !.listening = TRUE, !.wake = TRUE]
    /\ UNCHANGED <<queue, notice>>

Notified ==
    /\ notice
    /\ notice' = FALSE
    /\ worker' = [worker EXCEPT !.wake = TRUE]
    /\ UNCHANGED queue

Disconnect ==
    /\ worker.listening
    /\ worker' = [worker EXCEPT !.listening = FALSE]
    /\ notice' = FALSE
    /\ UNCHANGED queue

(* The stop event, and _wake_on(stop). *)
StopWorker ==
    /\ ~worker.stop
    /\ worker' = [worker EXCEPT !.stop = TRUE, !.wake = TRUE]
    /\ UNCHANGED <<queue, notice>>

-----------------------------------------------------------------------------
(* Worker.run: leave, or clear the event and count the free slots. *)
Leave ==
    /\ worker.pc = "top" /\ worker.stop
    /\ worker' = [worker EXCEPT !.pc = "done", !.listening = FALSE]
    /\ notice' = FALSE
    /\ UNCHANGED queue

(* Variant: the running tasks are not counted. *)
TopUncounted ==
    /\ worker.pc = "top" /\ ~worker.stop
    /\ worker' = [worker EXCEPT !.wake = FALSE, !.limit = Concurrency, !.pc = "claim", !.failed = FALSE,
                                !.skipped = {}]
    /\ UNCHANGED <<queue, notice>>

Top ==
    /\ worker.pc = "top" /\ ~worker.stop
    /\ worker' = [worker EXCEPT !.wake = FALSE, !.limit = Concurrency - Running,
                                !.pc = IF Running < Concurrency THEN "claim" ELSE "waiting",
                                !.failed = FALSE, !.skipped = {}]
    /\ UNCHANGED <<queue, notice>>

(* claim() commits with as many ready rows as fit, except that SKIP LOCKED   *)
(* passes over the rows another transaction holds at that moment: an enqueue *)
(* locks every row it conflicts with, and announces none of them ...         *)
Claim ==
    /\ worker.pc = "claim"
    /\ \E skipped \in SUBSET Ready : \E ns \in SUBSET (Ready \ skipped) :
          /\ Cardinality(ns) <= worker.limit
          /\ ns # Ready \ skipped => Cardinality(ns) = worker.limit
          /\ queue' = SetRows(ns, "locked")
          /\ worker' = [worker EXCEPT !.jobs = ns, !.limit = 0, !.pc = "return",
                                      !.skipped = skipped]
    /\ UNCHANGED notice

(* ... and its reply arrives: one task per job.  The loop claims again while *)
(* there are free slots and the last claim brought something.                *)
(* Variant: the event is cleared after the claim instead. *)
ReturnClearing ==
    /\ worker.pc = "return"
    /\ worker' = [worker EXCEPT !.tasks = @ \union worker.jobs, !.jobs = {}, !.wake = FALSE,
                     !.pc = IF worker.jobs # {} /\ Running + Cardinality(worker.jobs) < Concurrency
                            THEN "top" ELSE "waiting"]
    /\ UNCHANGED <<queue, notice>>

Return ==
    /\ worker.pc = "return"
    /\ worker' = [worker EXCEPT !.tasks = @ \union worker.jobs, !.jobs = {},
                     !.pc = IF worker.jobs # {} /\ Running + Cardinality(worker.jobs) < Concurrency
                            THEN "top" ELSE "waiting"]
    /\ UNCHANGED <<queue, notice>>

(* claim() raises, before its commit or after it: nothing is started. *)
ClaimError ==
    /\ worker.pc \in {"claim", "return"}
    /\ worker' = [worker EXCEPT !.jobs = {}, !.limit = 0, !.pc = "waiting", !.failed = TRUE]
    /\ UNCHANGED <<queue, notice>>

(* wait_for(wake.wait(), poll_seconds) returns. *)
WakeUp == worker.pc = "waiting" /\ worker.wake /\ worker' = [worker EXCEPT !.pc = "top"]
          /\ UNCHANGED <<queue, notice>>

(* Variant: no timeout. *)
PollNever == worker.pc = "waiting" /\ worker.wake /\ worker' = [worker EXCEPT !.pc = "top"]
             /\ UNCHANGED <<queue, notice>>

Poll == worker.pc = "waiting" /\ worker' = [worker EXCEPT !.pc = "top"]
        /\ UNCHANGED <<queue, notice>>

(* A task settles its row (or cannot: the lock will expire), then ends. *)
Settle(n) ==
    /\ n \in worker.tasks
    /\ \E state \in {"absent", "backoff", "locked"} : queue' = SetRows({n}, state)
    /\ worker' = [worker EXCEPT !.tasks = @ \ {n}, !.ending = @ + 1]
    /\ UNCHANGED notice

Done ==
    /\ worker.ending > 0
    /\ worker' = [worker EXCEPT !.ending = @ - 1, !.wake = TRUE]
    /\ UNCHANGED <<queue, notice>>

Loop == Leave \/ Top \/ Claim \/ Return \/ WakeUp \/ Poll

WorkerStep ==
    \/ Loop \/ ClaimError \/ Listen \/ Notified \/ Disconnect \/ StopWorker \/ Done
    \/ \E n \in Names : Settle(n) \/ BecomeDue(n)

(* The loop and the tasks go on, and no row is left out for ever by claims   *)
(* that succeed: they take the oldest first, a row that was claimed rests    *)
(* for longer than a poll before it is ready again, and the transaction that *)
(* holds a row is short, so that not every claim meets one.                  *)
WorkerFairness ==
    /\ WF_workerVars(Loop)
    /\ WF_workerVars(Done)
    /\ \A n \in Names :
          /\ WF_workerVars(Settle(n))
          /\ SF_workerVars(Claim /\ queue'[n] = "locked")

-----------------------------------------------------------------------------
(* No wake-up is lost.  A worker that sleeps with a free slot, while its    *)
(* listener is connected, has taken every announced row that its last claim *)
(* could lock: only rows that became ready without a notification, rows     *)
(* another transaction held during that claim, and a claim that raised wait *)
(* for the poll (service.py:72-78, pg.py:82).                               *)
NoSleepOverWork ==
    worker.pc = "waiting" /\ ~worker.wake /\ worker.listening /\ ~notice
        /\ Running < Concurrency /\ ~worker.failed
        => \A n \in Names \ worker.skipped : queue[n] # "new"

(* Every ready row is claimed in the end, also after lost notifications,    *)
(* failed claims, claims that passed it over and when retries come due: the *)
(* poll sees to it (service.py:3-5), unless the worker is stopped.          *)
ReadyRowClaimed ==
    \A n \in Names : (n \in Ready) ~> (n \notin Ready \/ worker.stop)
=============================================================================
