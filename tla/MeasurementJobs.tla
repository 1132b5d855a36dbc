-------------------------- MODULE MeasurementJobs --------------------------
(***************************************************************************)
(* What the measurement queue promises its producers, without rows, locks, *)
(* workers or clocks: a requested domain stays on the board until a        *)
(* measurement of it finishes; it is measured by one task at a time; it is *)
(* parked only by a measurement that failed.                               *)
(***************************************************************************)
CONSTANT Domains

VARIABLE job

JobTypeOK == job \in [Domains -> {"idle", "waiting", "running", "parked"}]

JobInit == job = [d \in Domains |-> "idle"]

(* Every domain of ds is in one of the states `from' and moves to `to'. *)
Move(ds, from, to) ==
    /\ \A d \in ds : job[d] \in from
    /\ job' = [d \in Domains |-> IF d \in ds THEN to ELSE job[d]]

Request(ds) == Move(ds, {"idle", "parked"}, "waiting")
Take(ds)    == Move(ds, {"waiting"}, "running")
GiveBack(ds) == Move(ds, {"running"}, "waiting")
Finish(d)   == Move({d}, {"running"}, "idle")
Park(d)     == Move({d}, {"running"}, "parked")

JobNext ==
    \/ \E ds \in SUBSET Domains : Request(ds) \/ Take(ds) \/ GiveBack(ds)
    \/ \E d \in Domains : Finish(d) \/ Park(d)

JobSpec == JobInit /\ [][JobNext]_job
=============================================================================
