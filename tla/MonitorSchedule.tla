-------------------------- MODULE MonitorSchedule --------------------------
(***************************************************************************)
(* The monitor's scheduler, services/src/cadns/monitor/service.py: one     *)
(* task that runs its jobs (scan, metrics, carbon, gc) one after the       *)
(* other, in passes over the list of schedules, and sleeps until the next  *)
(* is due.  A job takes any time up to MaxDuration and may raise: both     *)
(* ends are handled alike (_run_job).  The sleep may end late.             *)
(***************************************************************************)
EXTENDS Integers, Sequences

CONSTANTS
    BootClocks,    \* what the monotonic clock may read when the monitor starts
    NJobs,         \* len(schedules)
    Interval,      \* per job: interval_seconds
    MaxDuration,   \* per job: the longest a run takes
    PassTime,      \* the longest the first j jobs of a pass take together
    MaxOversleep,  \* how late the sleep may return
    MaxTime        \* bound of the model: no pass starts and no sleep ends later

Jobs == 1..NJobs

ASSUME ScheduleAssumption ==
    /\ BootClocks \subseteq Nat
    /\ NJobs \in Nat \ {0} /\ MaxTime \in Nat /\ MaxOversleep \in Nat
    /\ Interval \in [Jobs -> Nat \ {0}]
    /\ MaxDuration \in [Jobs -> Nat]
    /\ PassTime \in [0..NJobs -> Nat]
    /\ \A j \in Jobs : \A i \in 0..(j - 1) : PassTime[i] + MaxDuration[j] <= PassTime[j]

VARIABLES
    clock,     \* clock.monotonic()
    next_run,  \* Schedule.next_run of each job
    stop,      \* the stop event
    pc,        \* "top" (of the while loop), "pass", "running", "sleep" or "done"
    now,       \* the reading the pass decides by
    at,        \* the schedule the pass has come to
    starts,    \* history: the last two starts of each job, newest first
    late,      \* history: how late the last run of each job started
    told       \* history: when stop was set, the jobs started and the time allowed

vars == <<clock, next_run, stop, pc, now, at, starts, late, told>>

Init ==
    /\ clock \in BootClocks
    /\ next_run = [j \in Jobs |-> 0]
    /\ stop = FALSE
    /\ pc = "top"
    /\ now = 0
    /\ at = 1
    /\ starts = [j \in Jobs |-> <<>>]
    /\ late = [j \in Jobs |-> 0]
    /\ told = [starts |-> starts, by |-> 0]

(* A signal handler sets the event.  What is left to wait for is the job   *)
(* that is running, which is not cancelled.                                *)
SetStop ==
    /\ ~stop
    /\ stop' = TRUE
    /\ told' = [starts |-> starts,
               by |-> clock + (IF pc = "running" THEN MaxDuration[at] ELSE 0)]
    /\ UNCHANGED <<clock, next_run, pc, now, at, starts, late>>

-----------------------------------------------------------------------------
(* while not stop.is_set(): read the clock once for the whole pass. *)
BeginPass ==
    /\ pc = "top"
    /\ ~stop
    /\ clock <= MaxTime
    /\ now' = clock
    /\ at' = 1
    /\ pc' = "pass"
    /\ UNCHANGED <<clock, next_run, stop, starts, late, told>>

Leave ==
    /\ pc = "top"
    /\ stop
    /\ pc' = "done"
    /\ UNCHANGED <<clock, next_run, stop, now, at, starts, late, told>>

NotDue(j) == stop \/ next_run[j] > now

Skip ==
    /\ pc = "pass"
    /\ at <= NJobs
    /\ NotDue(at)
    /\ at' = at + 1
    /\ UNCHANGED <<clock, next_run, stop, pc, now, starts, late, told>>

StartJob ==
    /\ pc = "pass"
    /\ at <= NJobs
    /\ ~NotDue(at)
    /\ pc' = "running"
    /\ starts' = [starts EXCEPT ![at] = IF @ = <<>> THEN <<clock>> ELSE <<clock, @[1]>>]
    /\ late' = [late EXCEPT ![at] = clock - (IF starts[at] = <<>> THEN clock ELSE next_run[at])]
    /\ UNCHANGED <<clock, next_run, stop, now, at, told>>

(* Variant: every missed run is made up for. *)
RescheduleFixed(j, end) == next_run[j] + Interval[j]

(* The new next_run of a schedule whose run ended at `end'. *)
Reschedule(j, end) ==
    LET fixed == next_run[j] + Interval[j] IN IF fixed > end THEN fixed ELSE end

EndJob ==
    /\ pc = "running"
    /\ \E duration \in 0..MaxDuration[at] :
          /\ clock' = clock + duration
          /\ next_run' = [next_run EXCEPT ![at] = Reschedule(at, clock + duration)]
    /\ at' = at + 1
    /\ pc' = "pass"
    /\ UNCHANGED <<stop, now, starts, late, told>>

(* The end of a pass: sleep until the next job is due, or the stop event: *)
(* wait_for(stop.wait()) waits out its timeout only while stop is not set. *)
IsNextDue(j) == \A i \in Jobs : next_run[j] <= next_run[i]

BeginSleep ==
    /\ pc = "pass"
    /\ at > NJobs
    /\ pc' = "sleep"
    /\ UNCHANGED <<clock, next_run, stop, now, at, starts, late, told>>

(* Variant: asyncio.sleep, which no event ends. *)
SleepOut(oversleep) ==
    /\ pc = "sleep"
    /\ \E j \in Jobs :
          /\ IsNextDue(j)
          /\ clock' = (IF next_run[j] > clock THEN next_run[j] ELSE clock) + oversleep
    /\ pc' = "top"
    /\ UNCHANGED <<next_run, stop, now, at, starts, late, told>>

EndSleep(oversleep) ==
    /\ pc = "sleep"
    /\ ~stop
    /\ \E j \in Jobs :
          /\ IsNextDue(j)
          /\ clock' = (IF next_run[j] > clock THEN next_run[j] ELSE clock) + oversleep
    /\ pc' = "top"
    /\ UNCHANGED <<next_run, stop, now, at, starts, late, told>>

StopSleep ==
    /\ pc = "sleep"
    /\ stop
    /\ pc' = "top"
    /\ UNCHANGED <<clock, next_run, stop, now, at, starts, late, told>>

-----------------------------------------------------------------------------
Loop ==
    \/ BeginPass \/ Leave \/ Skip \/ StartJob \/ EndJob \/ BeginSleep \/ StopSleep
    \/ \E oversleep \in 0..MaxOversleep : EndSleep(oversleep)

Next == Loop \/ SetStop

(* The event loop keeps running the monitor's task, and jobs end. *)
Spec == Init /\ [][Next]_vars /\ WF_vars(Loop)

-----------------------------------------------------------------------------
(* A job's first run has no due time: next_run = 0 means "run at start".    *)
(* After that, a run starts no earlier than it is due, and late by at most  *)
(* the other jobs of the pass before, one late sleep and the jobs ahead of  *)
(* it in the list: no job is starved by slow ones.                          *)
MaxLate(j) == PassTime[NJobs] - MaxDuration[j] + MaxOversleep + PassTime[j - 1]
LatenessBounded == \A j \in Jobs : late[j] \in 0..MaxLate(j)

(* Missed runs are not made up for in a burst: within one interval a job    *)
(* starts at most twice (service.py:73).                                    *)
StartsApart(j) ==
    starts'[j] # starts[j] /\ Len(starts[j]) = 2 => starts'[j][1] - starts[j][2] >= Interval[j]
AtMostOneCatchUp == [][\A j \in Jobs : StartsApart(j)]_vars

(* Once the stop event is set the monitor starts no job, and no time passes *)
(* but what is left of the job it is in: it waits for no sleep and no       *)
(* other job (service.py:45,65,70).                                         *)
StopWaits == stop => starts = told.starts /\ clock <= told.by

(* And it returns, without having waited for more.                          *)
StopIsPrompt == stop ~> (pc = "done" /\ StopWaits)
=============================================================================
