----------------------- MODULE MonitorScheduleProofs -----------------------
(***************************************************************************)
(* Proofs about MonitorSchedule, for any number of jobs, any intervals and *)
(* durations, and without a bound on time.                                 *)
(***************************************************************************)
EXTENDS MonitorSchedule, TLAPS

TypeInv ==
    /\ clock \in Nat /\ now \in Nat /\ at \in 1..(NJobs + 1)
    /\ next_run \in [Jobs -> Nat]
    /\ starts \in [Jobs -> Seq(Nat)] /\ late \in [Jobs -> Int]
    /\ pc \in {"top", "pass", "running", "sleep", "done"}
    /\ stop \in BOOLEAN
    /\ told \in [starts : [Jobs -> Seq(Nat)], by : Nat]

InPass == pc \in {"pass", "running"}
Running(j) == pc = "running" /\ at = j

(* A pass decides by one reading of the clock, which is older by no more   *)
(* than the jobs that the pass has come past.                              *)
PassInv ==
    /\ InPass => now <= clock /\ clock - now <= PassTime[at - 1]
    /\ pc = "running" => at \in Jobs
    /\ pc = "sleep" => at = NJobs + 1

(* A job is due again no earlier than its last run started, and an         *)
(* interval after the one before.                                          *)
RateInv ==
    \A j \in Jobs :
        /\ Running(j) => starts[j] # <<>> /\ starts[j][1] <= clock
        /\ Running(j) /\ Len(starts[j]) = 2 => next_run[j] >= starts[j][2]
        /\ ~Running(j) /\ starts[j] # <<>> => next_run[j] >= starts[j][1]
        /\ ~Running(j) /\ Len(starts[j]) = 2 => next_run[j] >= starts[j][2] + Interval[j]

(* How far a job that has run before may be behind: after its place in a   *)
(* pass by the other jobs of the pass, before it by a late sleep as well.  *)
Others(j) == PassTime[NJobs] - MaxDuration[j]

LateInv ==
    ~stop => \A j \in Jobs : starts[j] # <<>> =>
        /\ InPass /\ j < at => clock - next_run[j] <= PassTime[at - 1] - MaxDuration[j]
        /\ InPass /\ j >= at /\ ~Running(j) => now - next_run[j] <= Others(j) + MaxOversleep
        /\ pc = "sleep" => clock - next_run[j] <= Others(j)
        /\ pc = "top" => clock - next_run[j] <= Others(j) + MaxOversleep

(* Once stop is set the time allowed covers the job that is running.       *)
StopInv == stop => /\ starts = told.starts
                   /\ clock + (IF pc = "running" THEN MaxDuration[at] ELSE 0) <= told.by

IInv == TypeInv /\ PassInv /\ RateInv /\ LateInv /\ LatenessBounded /\ StopInv

-----------------------------------------------------------------------------
(* The settings are numbers; PassTime grows with every job. *)
LEMMA Settings ==
  /\ NJobs \in Nat /\ NJobs >= 1 /\ MaxOversleep \in Nat /\ BootClocks \subseteq Nat
  /\ 0 \in 0..NJobs /\ NJobs \in 0..NJobs
  /\ \A j \in Jobs :
        /\ j \in Nat /\ j >= 1 /\ j <= NJobs /\ j - 1 \in 0..NJobs /\ j \in 0..NJobs
        /\ Interval[j] \in Nat /\ Interval[j] >= 1 /\ MaxDuration[j] \in Nat
  /\ \A k \in 0..NJobs : PassTime[k] \in Nat
<1>1. NJobs \in Nat /\ NJobs >= 1 /\ MaxOversleep \in Nat /\ BootClocks \subseteq Nat
  BY ScheduleAssumption
<1>2. 0 \in 0..NJobs /\ NJobs \in 0..NJobs
  BY <1>1
<1>3. ASSUME NEW j \in Jobs
      PROVE  j \in Nat /\ j >= 1 /\ j <= NJobs /\ j - 1 \in 0..NJobs /\ j \in 0..NJobs
  BY <1>1 DEF Jobs
<1>4. ASSUME NEW j \in Jobs
      PROVE  Interval[j] \in Nat /\ Interval[j] >= 1 /\ MaxDuration[j] \in Nat
  BY ScheduleAssumption
<1>5. \A k \in 0..NJobs : PassTime[k] \in Nat
  BY ScheduleAssumption
<1> QED BY <1>1, <1>2, <1>3, <1>4, <1>5

(* A job adds its duration; the whole pass takes in every job. *)
LEMMA PassTimes ==
  ASSUME NEW j \in Jobs
  PROVE  /\ PassTime[j - 1] + MaxDuration[j] <= PassTime[j]
         /\ PassTime[j - 1] \in Nat /\ PassTime[j] \in Nat /\ PassTime[NJobs] \in Nat
         /\ MaxDuration[j] \in Nat /\ PassTime[NJobs] >= MaxDuration[j]
<1>1. /\ j \in Nat /\ j >= 1 /\ j <= NJobs /\ j - 1 \in 0..NJobs /\ j \in 0..NJobs
      /\ MaxDuration[j] \in Nat /\ NJobs \in Nat
  BY Settings
<1>2. PassTime[j - 1] \in Nat /\ PassTime[j] \in Nat /\ PassTime[NJobs] \in Nat
  BY <1>1, Settings
<1>3. PassTime[j - 1] + MaxDuration[j] <= PassTime[j]
  <2>1. j - 1 \in 0..(j - 1)
    BY <1>1
  <2> QED BY <2>1, ScheduleAssumption
<1>4. PassTime[j] <= PassTime[NJobs]
  <2>1. CASE j = NJobs
    BY <1>2, <2>1
  <2>2. CASE j < NJobs
    <3>1. NJobs \in Jobs /\ j \in 0..(NJobs - 1)
      BY <1>1, <2>2 DEF Jobs
    <3>2. PassTime[j] + MaxDuration[NJobs] <= PassTime[NJobs]
      BY <3>1, ScheduleAssumption
    <3>3. MaxDuration[NJobs] \in Nat
      BY <3>1, Settings
    <3> QED BY <1>2, <3>2, <3>3
  <2> QED BY <1>1, <2>1, <2>2
<1> QED BY <1>1, <1>2, <1>3, <1>4

(* The numbers of a state. *)
LEMMA StateNumbers ==
  ASSUME TypeInv
  PROVE  /\ clock \in Nat /\ now \in Nat /\ at \in Nat /\ at >= 1 /\ at <= NJobs + 1
         /\ at <= NJobs => at \in Jobs
         /\ at - 1 \in 0..NJobs /\ PassTime[at - 1] \in Nat
         /\ \A j \in Jobs : /\ next_run[j] \in Nat /\ late[j] \in Int /\ starts[j] \in Seq(Nat)
                            /\ starts[j] # <<>> => starts[j][1] \in Nat
                            /\ Len(starts[j]) = 2 => starts[j][2] \in Nat /\ starts[j] # <<>>
<1>1. clock \in Nat /\ now \in Nat /\ at \in Nat /\ at >= 1 /\ at <= NJobs + 1 /\ at - 1 \in 0..NJobs
  BY Settings DEF TypeInv
<1>2. at <= NJobs => at \in Jobs
  BY <1>1, Settings DEF Jobs
<1>3. PassTime[at - 1] \in Nat
  BY <1>1, Settings
<1>4. ASSUME NEW j \in Jobs
      PROVE  /\ next_run[j] \in Nat /\ late[j] \in Int /\ starts[j] \in Seq(Nat)
             /\ starts[j] # <<>> => starts[j][1] \in Nat
             /\ Len(starts[j]) = 2 => starts[j][2] \in Nat /\ starts[j] # <<>>
  BY DEF TypeInv
<1> QED BY <1>1, <1>2, <1>3, <1>4

(* A job that was not due when its pass began, or is behind already, stays  *)
(* within the time of the jobs passed when one more job is passed.          *)
LEMMA BehindArithmetic ==
  ASSUME NEW c \in Int, NEW n \in Int, NEW r \in Int, NEW p \in Int, NEW q \in Int,
         NEW m \in Nat, NEW d \in Nat, p + d <= q
  PROVE  /\ c - n <= p /\ r > n /\ m = d => c - r <= q - m
         /\ c - r <= p - m => (c + d) - r <= q - m /\ c - r <= q - m
OBVIOUS

(* A job that has just ended is due now or later. *)
LEMMA EndedArithmetic ==
  ASSUME NEW c \in Int, NEW r \in Int, NEW p \in Nat, NEW q \in Int, NEW m \in Nat,
         p + m <= q, r >= c
  PROVE  c - r <= q - m
OBVIOUS

(* A sleep lasts until the first job is due, or less than MaxOversleep more. *)
LEMMA SleepArithmetic ==
  ASSUME NEW c \in Int, NEW e \in Int, NEW x \in Int, NEW y \in Int, NEW b \in Nat,
         NEW o \in Nat, NEW s \in Int, s <= b, y <= x, c - x <= o, e = y + s \/ e = c + s
  PROVE  e - x <= o + b
OBVIOUS

(* A pass begins: every job is still ahead. *)
LEMMA BeginPassInv ==
  ASSUME IInv, BeginPass
  PROVE  IInv'
<1>1. /\ pc = "top" /\ ~stop /\ now' = clock /\ at' = 1 /\ pc' = "pass"
      /\ UNCHANGED <<clock, next_run, stop, starts, late, told>>
  BY DEF BeginPass
<1>2. TypeInv'
  BY <1>1, StateNumbers, Settings DEF IInv, TypeInv
<1>3. PassInv'
  <2>1. PassTime[0] \in Nat /\ 1 - 1 = 0
    BY Settings
  <2> QED BY <1>1, <2>1, StateNumbers DEF IInv, PassInv, InPass
<1>4. RateInv'
  BY <1>1 DEF IInv, RateInv, Running
<1>5. LateInv'
  <2>1. \A j \in Jobs : ~(j < 1)
    BY Settings
  <2> QED BY <1>1, <2>1 DEF IInv, LateInv, InPass, Others, Running
<1>6. LatenessBounded'
  BY <1>1 DEF IInv, LatenessBounded, MaxLate
<1>7. StopInv'
  BY <1>1 DEF StopInv
<1> QED BY <1>2, <1>3, <1>4, <1>5, <1>6, <1>7 DEF IInv

(* A job that is not due is passed over. *)
LEMMA SkipInv ==
  ASSUME IInv, Skip
  PROVE  IInv'
<1>1. /\ pc = "pass" /\ at <= NJobs /\ at' = at + 1 /\ (stop \/ next_run[at] > now)
      /\ UNCHANGED <<clock, next_run, stop, pc, now, starts, late, told>>
  BY DEF Skip, NotDue
<1>2. /\ clock \in Nat /\ now \in Nat /\ at \in Nat /\ at \in Jobs /\ at + 1 \in 1..(NJobs + 1)
      /\ (at + 1) - 1 = at
  BY <1>1, StateNumbers, Settings DEF IInv
<1>3. /\ PassTime[at - 1] + MaxDuration[at] <= PassTime[at]
      /\ PassTime[at - 1] \in Nat /\ PassTime[at] \in Nat /\ MaxDuration[at] \in Nat
  BY <1>2, PassTimes
<1>4. now <= clock /\ clock - now <= PassTime[at - 1]
  BY <1>1 DEF IInv, PassInv, InPass
<1>5. TypeInv'
  BY <1>1, <1>2 DEF IInv, TypeInv
<1>6. PassInv'
  <2>1. clock - now <= PassTime[at]
    BY <1>2, <1>3, <1>4
  <2> QED BY <1>1, <1>2, <1>4, <2>1 DEF PassInv, InPass
<1>7. RateInv'
  BY <1>1 DEF IInv, RateInv, Running
<1>8. LateInv'
  <2> SUFFICES ASSUME ~stop, NEW j \in Jobs, starts[j] # <<>>
               PROVE  /\ j < at + 1 => clock - next_run[j] <= PassTime[at] - MaxDuration[j]
                      /\ j >= at + 1 => now - next_run[j] <= Others(j) + MaxOversleep
    BY <1>1, <1>2 DEF LateInv, InPass, Others
  <2>1. j \in Nat /\ next_run[j] \in Nat /\ MaxDuration[j] \in Nat
    BY StateNumbers, Settings DEF IInv
  <2>2. CASE j = at
    <3> DEFINE p == PassTime[at - 1]
               q == PassTime[at]
               m == MaxDuration[at]
               r == next_run[at]
    <3>1. /\ clock \in Int /\ now \in Int /\ r \in Int /\ p \in Int /\ q \in Int /\ m \in Nat
          /\ p + m <= q /\ clock - now <= p
      BY <1>2, <1>3, <1>4, <2>1, <2>2
    <3>4. r > now
      BY <1>1
    <3> HIDE DEF p, q, m, r
    <3>2. clock - r <= q - m
      BY <3>1, <3>4, BehindArithmetic
    <3> USE DEF q, m, r
    <3> QED BY <1>2, <2>1, <2>2, <3>2
  <2>3. CASE j < at
    <3>1. clock - next_run[j] <= PassTime[at - 1] - MaxDuration[j]
      BY <1>1, <2>3 DEF IInv, LateInv, InPass
    <3> DEFINE p == PassTime[at - 1]
               q == PassTime[at]
               m == MaxDuration[j]
               d == MaxDuration[at]
               r == next_run[j]
    <3>2. /\ clock \in Int /\ r \in Int /\ p \in Int /\ q \in Int /\ m \in Nat /\ d \in Nat
          /\ p + d <= q /\ clock - r <= p - m
      BY <1>2, <1>3, <2>1, <3>1
    <3> HIDE DEF p, q, m, d, r
    <3>3. clock - r <= q - m
      BY <3>2, BehindArithmetic
    <3> USE DEF q, m, r
    <3> QED BY <1>2, <2>1, <2>3, <3>3
  <2>4. CASE j > at
    <3>1. now - next_run[j] <= Others(j) + MaxOversleep
      BY <1>1, <1>2, <2>1, <2>4 DEF IInv, LateInv, InPass, Running
    <3> QED BY <1>2, <2>1, <2>4, <3>1
  <2> QED BY <1>2, <2>1, <2>2, <2>3, <2>4
<1>9. LatenessBounded'
  BY <1>1 DEF IInv, LatenessBounded, MaxLate
<1>10. StopInv'
  BY <1>1 DEF IInv, StopInv
<1> QED BY <1>5, <1>6, <1>7, <1>8, <1>9, <1>10 DEF IInv

(* A job starts: it is due, and the jobs ahead of it have run. *)
LEMMA StartJobInv ==
  ASSUME IInv, StartJob
  PROVE  IInv' /\ \A j \in Jobs : StartsApart(j)
<1> DEFINE s == IF starts[at] = <<>> THEN <<clock>> ELSE <<clock, starts[at][1]>>
           l == clock - (IF starts[at] = <<>> THEN clock ELSE next_run[at])
<1>1. /\ pc = "pass" /\ at <= NJobs /\ ~stop /\ ~(next_run[at] > now) /\ pc' = "running"
      /\ starts' = [starts EXCEPT ![at] = s] /\ late' = [late EXCEPT ![at] = l]
      /\ UNCHANGED <<clock, next_run, stop, now, at, told>>
  BY DEF StartJob, NotDue
<1>2. /\ clock \in Nat /\ now \in Nat /\ at \in Jobs /\ next_run[at] \in Nat
      /\ starts[at] \in Seq(Nat) /\ (starts[at] # <<>> => starts[at][1] \in Nat)
      /\ (Len(starts[at]) = 2 => starts[at][2] \in Nat /\ starts[at] # <<>>)
  BY <1>1, StateNumbers DEF IInv
<1>3. /\ now <= clock /\ clock - now <= PassTime[at - 1] /\ next_run[at] <= clock
  BY <1>1, <1>2 DEF IInv, PassInv, InPass
<1>4. /\ s \in Seq(Nat) /\ s # <<>> /\ s[1] = clock
      /\ Len(s) = 2 => starts[at] # <<>> /\ s[2] = starts[at][1]
  <2>1. CASE starts[at] = <<>>
    BY <1>2, <2>1
  <2>2. CASE starts[at] # <<>>
    BY <1>2, <2>2
  <2> QED BY <2>1, <2>2
<1>5. l \in Int /\ l >= 0 /\ (starts[at] = <<>> => l = 0) /\ (starts[at] # <<>> => l = clock - next_run[at])
  BY <1>2, <1>3
<1> HIDE DEF s, l
<1>6. /\ starts'[at] = s /\ late'[at] = l
      /\ \A j \in Jobs \ {at} : starts'[j] = starts[j] /\ late'[j] = late[j]
      /\ starts' \in [Jobs -> Seq(Nat)] /\ late' \in [Jobs -> Int]
  BY <1>1, <1>2, <1>4, <1>5 DEF IInv, TypeInv
<1>7. TypeInv'
  BY <1>1, <1>6 DEF IInv, TypeInv
<1>8. PassInv'
  BY <1>1, <1>2 DEF IInv, PassInv, InPass
<1>9. /\ starts[at] # <<>> => next_run[at] >= starts[at][1]
      /\ Len(starts[at]) = 2 => next_run[at] >= starts[at][2] + Interval[at]
  BY <1>1, <1>2 DEF IInv, RateInv, Running
<1>10. RateInv'
  <2> SUFFICES ASSUME NEW j \in Jobs
               PROVE  /\ j = at => s # <<>> /\ s[1] <= clock /\ (Len(s) = 2 => next_run[j] >= s[2])
                      /\ j # at /\ starts[j] # <<>> => next_run[j] >= starts[j][1]
                      /\ j # at /\ Len(starts[j]) = 2 => next_run[j] >= starts[j][2] + Interval[j]
    BY <1>1, <1>6 DEF RateInv, Running
  <2>1. CASE j = at
    BY <1>2, <1>4, <1>9, <2>1
  <2>2. CASE j # at
    BY <1>1, <2>2 DEF IInv, RateInv, Running
  <2> QED BY <2>1, <2>2
<1>11. LateInv'
  <2> SUFFICES ASSUME NEW j \in Jobs, j # at, starts[j] # <<>>
               PROVE  /\ j < at => clock - next_run[j] <= PassTime[at - 1] - MaxDuration[j]
                      /\ j >= at => now - next_run[j] <= Others(j) + MaxOversleep
    <3>1. ~(at < at)
      BY <1>2, Settings
    <3> QED BY <1>1, <1>6, <3>1 DEF LateInv, InPass, Others, Running
  <2> QED BY <1>1 DEF IInv, LateInv, InPass, Running
<1>12. LatenessBounded'
  <2>1. l \in 0..MaxLate(at)
    <3> DEFINE p == PassTime[at - 1]
               w == PassTime[NJobs]
               m == MaxDuration[at]
    <3>1. p \in Nat /\ w \in Nat /\ m \in Nat /\ w >= m /\ MaxOversleep \in Nat
      BY <1>2, PassTimes, Settings
    <3>2. MaxLate(at) = w - m + MaxOversleep + p
      BY DEF MaxLate
    <3>3. clock - now <= p
      BY <1>3
    <3>4. starts[at] # <<>> => now - next_run[at] <= w - m + MaxOversleep
      <4>1. at >= at
        BY <1>2, Settings
      <4> QED BY <1>1, <1>2, <4>1 DEF IInv, LateInv, InPass, Running, Others
    <3> HIDE DEF p, w, m
    <3>5. CASE starts[at] = <<>>
      BY <1>5, <3>1, <3>2, <3>5
    <3>6. CASE starts[at] # <<>>
      BY <1>2, <1>5, <3>1, <3>2, <3>3, <3>4, <3>6
    <3> QED BY <3>5, <3>6
  <2> QED BY <1>6, <2>1 DEF IInv, LatenessBounded, MaxLate
<1>13. ASSUME NEW j \in Jobs PROVE StartsApart(j)
  <2> SUFFICES ASSUME starts'[j] # starts[j], Len(starts[j]) = 2
               PROVE  starts'[j][1] - starts[j][2] >= Interval[j]
    BY DEF StartsApart
  <2>1. j = at
    BY <1>6
  <2>2. Interval[at] \in Nat
    BY <1>2, Settings
  <2> DEFINE r == next_run[at]
             b == starts[at][2]
             i == Interval[at]
  <2>3. r \in Nat /\ b \in Nat /\ i \in Nat /\ clock \in Nat /\ r <= clock /\ r >= b + i
    BY <1>2, <1>3, <1>9, <2>1, <2>2
  <2>4. starts'[j][1] = clock
    BY <1>4, <1>6, <2>1
  <2> HIDE DEF r, b, i
  <2>5. clock - b >= i
    BY <2>3
  <2> QED BY <2>1, <2>4, <2>5 DEF b, i
<1>14. StopInv'
  BY <1>1 DEF StopInv
<1> QED BY <1>7, <1>8, <1>10, <1>11, <1>12, <1>13, <1>14 DEF IInv

(* A job ends: it is due again now or later, and the others are behind by  *)
(* its duration at most.                                                   *)
LEMMA EndJobInv ==
  ASSUME IInv, EndJob
  PROVE  IInv'
<1> DEFINE p == PassTime[at - 1]
           q == PassTime[at]
           d == MaxDuration[at]
<1>1. PICK duration \in 0..MaxDuration[at] :
        /\ clock' = clock + duration
        /\ next_run' = [next_run EXCEPT ![at] = Reschedule(at, clock + duration)]
  BY DEF EndJob
<1> DEFINE r == Reschedule(at, clock + duration)
<1>2. /\ pc = "running" /\ at' = at + 1 /\ pc' = "pass" /\ next_run' = [next_run EXCEPT ![at] = r]
      /\ clock' = clock + duration /\ UNCHANGED <<stop, now, starts, late, told>>
  BY <1>1 DEF EndJob
<1>3. at \in Jobs
  BY <1>2 DEF IInv, PassInv
<1>4. /\ clock \in Nat /\ now \in Nat /\ at \in Nat /\ next_run[at] \in Nat /\ at + 1 \in 1..(NJobs + 1)
      /\ Interval[at] \in Nat /\ (at + 1) - 1 = at
  BY <1>3, StateNumbers, Settings DEF IInv
<1>5. p \in Nat /\ q \in Nat /\ d \in Nat /\ p + d <= q
  BY <1>3, PassTimes
<1>6. duration \in Nat /\ duration <= d /\ clock' \in Nat /\ clock <= clock'
  BY <1>2, <1>4, <1>5
<1>7. r \in Nat /\ r >= clock' /\ r >= next_run[at] + Interval[at]
  BY <1>2, <1>4, <1>6 DEF Reschedule
<1>8. now <= clock /\ clock - now <= p
  BY <1>2 DEF IInv, PassInv, InPass
<1> HIDE DEF p, q, d, r
<1>9. /\ next_run'[at] = r /\ next_run' \in [Jobs -> Nat]
      /\ \A j \in Jobs \ {at} : next_run'[j] = next_run[j]
  BY <1>2, <1>3, <1>7 DEF IInv, TypeInv
<1>10. TypeInv'
  BY <1>2, <1>4, <1>6, <1>9 DEF IInv, TypeInv
<1>11. PassInv'
  <2>1. now <= clock' /\ clock' - now <= q
    BY <1>2, <1>4, <1>5, <1>6, <1>8
  <2> QED BY <1>2, <1>4, <2>1 DEF PassInv, InPass, q
<1>12. RateInv'
  <2> SUFFICES ASSUME NEW j \in Jobs
               PROVE  /\ starts[j] # <<>> => next_run'[j] >= starts[j][1]
                      /\ Len(starts[j]) = 2 => next_run'[j] >= starts[j][2] + Interval[j]
    BY <1>2 DEF RateInv, Running
  <2>1. CASE j = at
    <3>1. /\ starts[at] # <<>> /\ starts[at][1] <= clock /\ starts[at][1] \in Nat
          /\ Len(starts[at]) = 2 => next_run[at] >= starts[at][2]
      BY <1>2, <1>3, StateNumbers DEF IInv, RateInv, Running
    <3>2. r >= starts[at][1]
      BY <1>4, <1>6, <1>7, <3>1
    <3>3. ASSUME Len(starts[at]) = 2 PROVE r >= starts[at][2] + Interval[at]
      <4>1. starts[at][2] \in Nat
        BY <1>3, <3>3, StateNumbers DEF IInv
      <4> QED BY <1>4, <1>7, <3>1, <3>3, <4>1
    <3> QED BY <1>9, <2>1, <3>2, <3>3
  <2>2. CASE j # at
    BY <1>9, <2>2 DEF IInv, RateInv, Running
  <2> QED BY <2>1, <2>2
<1>13. LateInv'
  <2> SUFFICES ASSUME ~stop, NEW j \in Jobs, starts[j] # <<>>
               PROVE  /\ j < at + 1 => clock' - next_run'[j] <= q - MaxDuration[j]
                      /\ j >= at + 1 => now - next_run'[j] <= Others(j) + MaxOversleep
    BY <1>2, <1>4 DEF LateInv, InPass, Others, q
  <2> DEFINE m == MaxDuration[j]
             x == next_run[j]
  <2>1. j \in Nat /\ x \in Nat /\ m \in Nat
    BY StateNumbers, Settings DEF IInv
  <2>2. CASE j = at
    <3>1. d = m
      BY <2>2 DEF d
    <3> HIDE DEF m, x
    <3>2. clock' \in Int /\ r \in Int /\ q \in Int /\ p + m <= q
      BY <1>5, <1>6, <1>7, <3>1
    <3>3. clock' - r <= q - m
      BY <1>5, <1>7, <2>1, <3>2, EndedArithmetic
    <3> USE DEF m
    <3> QED BY <1>4, <1>9, <2>1, <2>2, <3>3
  <2>3. CASE j < at
    <3>1. clock - x <= p - m
      BY <1>2, <2>3 DEF IInv, LateInv, InPass, p
    <3>2. next_run'[j] = x
      BY <1>4, <1>9, <2>1, <2>3
    <3> HIDE DEF m, x
    <3>3. clock \in Int /\ x \in Int /\ p \in Int /\ q \in Int /\ d \in Nat /\ m \in Nat
      BY <1>4, <1>5, <2>1
    <3>4. (clock + d) - x <= q - m
      BY <1>5, <3>1, <3>3, BehindArithmetic
    <3>5. clock' - x <= q - m
      BY <1>2, <1>4, <1>5, <1>6, <2>1, <3>4
    <3> USE DEF m
    <3> QED BY <1>4, <2>1, <2>3, <3>2, <3>5
  <2>4. CASE j > at
    <3>1. now - next_run[j] <= Others(j) + MaxOversleep
      BY <1>2, <1>4, <2>1, <2>4 DEF IInv, LateInv, InPass, Running
    <3> QED BY <1>4, <1>9, <2>1, <2>4, <3>1
  <2> QED BY <1>4, <2>1, <2>2, <2>3, <2>4
<1>14. LatenessBounded'
  BY <1>2 DEF IInv, LatenessBounded, MaxLate
<1>15. StopInv'
  <2> SUFFICES ASSUME stop PROVE starts = told.starts /\ clock' <= told.by
    BY <1>2, <1>6 DEF StopInv
  <2>1. starts = told.starts /\ clock + d <= told.by
    BY <1>2 DEF IInv, StopInv, d
  <2>2. told.by \in Nat
    BY DEF IInv, TypeInv
  <2> QED BY <1>2, <1>4, <1>5, <1>6, <2>1, <2>2
<1> QED BY <1>10, <1>11, <1>12, <1>13, <1>14, <1>15 DEF IInv

(* The pass is over: it has come past every job. *)
LEMMA BeginSleepInv ==
  ASSUME IInv, BeginSleep
  PROVE  IInv'
<1>1. /\ pc = "pass" /\ at > NJobs /\ pc' = "sleep"
      /\ UNCHANGED <<clock, next_run, stop, now, at, starts, late, told>>
  BY DEF BeginSleep
<1>2. at = NJobs + 1 /\ at - 1 = NJobs /\ \A j \in Jobs : j < at
  BY <1>1, StateNumbers, Settings DEF IInv
<1>3. TypeInv'
  BY <1>1 DEF IInv, TypeInv
<1>4. PassInv'
  BY <1>1, <1>2 DEF PassInv, InPass
<1>5. RateInv'
  BY <1>1 DEF IInv, RateInv, Running
<1>6. LateInv'
  BY <1>1, <1>2 DEF IInv, LateInv, InPass, Others, Running
<1>7. LatenessBounded'
  BY <1>1 DEF IInv, LatenessBounded, MaxLate
<1>8. StopInv'
  BY <1>1 DEF IInv, StopInv
<1> QED BY <1>3, <1>4, <1>5, <1>6, <1>7, <1>8 DEF IInv

(* The sleep ends when the next job is due, or late: no job is due before. *)
LEMMA EndSleepInv ==
  ASSUME IInv, NEW oversleep \in 0..MaxOversleep, EndSleep(oversleep)
  PROVE  IInv'
<1>1. PICK k \in Jobs :
        /\ IsNextDue(k)
        /\ clock' = (IF next_run[k] > clock THEN next_run[k] ELSE clock) + oversleep
  BY DEF EndSleep
<1>2. /\ pc = "sleep" /\ ~stop /\ pc' = "top" /\ UNCHANGED <<next_run, stop, now, at, starts, late, told>>
  BY DEF EndSleep
<1>3. clock \in Nat /\ next_run[k] \in Nat /\ oversleep \in Nat /\ oversleep <= MaxOversleep
  BY StateNumbers, Settings DEF IInv
<1> DEFINE y == next_run[k]
<1>4. clock' \in Nat /\ (clock' = y + oversleep \/ clock' = clock + oversleep)
  BY <1>1, <1>3
<1>5. TypeInv'
  BY <1>2, <1>4 DEF IInv, TypeInv
<1>6. PassInv'
  BY <1>2 DEF PassInv, InPass
<1>7. RateInv'
  BY <1>2 DEF IInv, RateInv, Running
<1>8. LateInv'
  <2> SUFFICES ASSUME ~stop, NEW j \in Jobs, starts[j] # <<>>
               PROVE  clock' - next_run[j] <= Others(j) + MaxOversleep
    BY <1>2 DEF LateInv, InPass, Others
  <2> DEFINE x == next_run[j]
             o == Others(j)
  <2>1. o \in Nat
    BY PassTimes DEF Others
  <2>2. x \in Nat /\ y \in Nat /\ y <= x
    BY <1>1, StateNumbers DEF IInv, IsNextDue
  <2>3. clock - x <= o
    BY <1>2 DEF IInv, LateInv
  <2>4. MaxOversleep \in Nat
    BY Settings
  <2> HIDE DEF x, o, y
  <2>5. clock' - x <= o + MaxOversleep
    <3>1. clock \in Int /\ clock' \in Int /\ x \in Int /\ y \in Int /\ oversleep \in Int
      BY <1>3, <1>4, <2>2
    <3> QED BY <1>3, <1>4, <2>1, <2>2, <2>3, <2>4, <3>1, SleepArithmetic
  <2> QED BY <2>5 DEF x, o
<1>9. LatenessBounded'
  BY <1>2 DEF IInv, LatenessBounded, MaxLate
<1>10. StopInv'
  BY <1>2 DEF StopInv
<1> QED BY <1>5, <1>6, <1>7, <1>8, <1>9, <1>10 DEF IInv

(* Once the monitor is told to stop it starts nothing, so nothing is late. *)
LEMMA StoppingInv ==
  ASSUME IInv, StopSleep \/ Leave \/ SetStop
  PROVE  IInv'
<1>1. /\ stop' /\ UNCHANGED <<clock, next_run, now, at, starts, late>> /\ stop' \in BOOLEAN
      /\ \/ pc' = pc
         \/ pc \in {"sleep", "top"} /\ pc' \in {"top", "done"}
  <2>1. CASE StopSleep
    <3>1. stop' = stop /\ stop /\ pc = "sleep" /\ pc' = "top"
      BY <2>1 DEF StopSleep
    <3>2. UNCHANGED <<clock, next_run, now, at, starts, late>>
      BY <2>1 DEF StopSleep
    <3> QED BY <3>1, <3>2 DEF IInv, TypeInv
  <2>2. CASE Leave
    <3>1. stop' = stop /\ stop /\ pc = "top" /\ pc' = "done"
      BY <2>2 DEF Leave
    <3>2. UNCHANGED <<clock, next_run, now, at, starts, late>>
      BY <2>2 DEF Leave
    <3> QED BY <3>1, <3>2 DEF IInv, TypeInv
  <2>3. CASE SetStop
    BY <2>3 DEF SetStop
  <2> QED BY <2>1, <2>2, <2>3
<1>7. TypeInv' /\ StopInv'
  <2>1. CASE StopSleep \/ Leave
    <3>1. UNCHANGED <<clock, stop, starts, told, at>> /\ pc # "running" /\ pc' # "running"
      BY <2>1 DEF StopSleep, Leave
    <3>2. told' \in [starts : [Jobs -> Seq(Nat)], by : Nat]
      BY <3>1 DEF IInv, TypeInv
    <3> QED BY <1>1, <3>1, <3>2 DEF IInv, TypeInv, StopInv
  <2>2. CASE SetStop
    <3> DEFINE w == IF pc = "running" THEN MaxDuration[at] ELSE 0
    <3>1. told' = [starts |-> starts, by |-> clock + w] /\ UNCHANGED <<clock, starts, pc, at>>
      BY <2>2 DEF SetStop
    <3>2. w \in Nat
      BY Settings DEF IInv, PassInv
    <3>3. clock + w \in Nat /\ clock + w <= clock + w
      BY <3>2 DEF IInv, TypeInv
    <3> HIDE DEF w
    <3>4. told'.starts = starts /\ told'.by = clock + w
      BY <3>1
    <3>5. told' \in [starts : [Jobs -> Seq(Nat)], by : Nat]
      BY <3>1, <3>3 DEF IInv, TypeInv
    <3>6. StopInv'
      BY <3>1, <3>3, <3>4 DEF StopInv, w
    <3> QED BY <1>1, <3>1, <3>5, <3>6 DEF IInv, TypeInv
  <2> QED BY <2>1, <2>2
<1>2. TypeInv'
  BY <1>7
<1>3. PassInv'
  BY <1>1 DEF IInv, PassInv, InPass
<1>4. RateInv'
  <2>1. \A j \in Jobs : Running(j)' = Running(j)
    BY <1>1 DEF Running
  <2> QED BY <1>1, <2>1 DEF IInv, RateInv, Running
<1>5. LateInv'
  BY <1>1 DEF LateInv
<1>6. LatenessBounded'
  BY <1>1 DEF IInv, LatenessBounded, MaxLate
<1> QED BY <1>2, <1>3, <1>4, <1>5, <1>6, <1>7 DEF IInv

(* At the start every job is due and none has run. *)
LEMMA InitInv == Init => IInv
<1> SUFFICES ASSUME Init PROVE IInv
  OBVIOUS
<1>1. TypeInv
  <2>1. <<>> \in Seq(Nat) /\ 1 \in 1..(NJobs + 1) /\ clock \in Nat
    BY Settings DEF Init
  <2>2. starts \in [Jobs -> Seq(Nat)]
    BY <2>1 DEF Init
  <2>3. next_run \in [Jobs -> Nat] /\ late \in [Jobs -> Int]
    BY DEF Init
  <2>4. now \in Nat /\ at \in 1..(NJobs + 1) /\ stop \in BOOLEAN
    BY <2>1 DEF Init
  <2>5. pc \in {"top", "pass", "running", "sleep", "done"}
    BY DEF Init
  <2>6. told \in [starts : [Jobs -> Seq(Nat)], by : Nat]
    BY <2>2 DEF Init
  <2> QED BY <2>1, <2>2, <2>3, <2>4, <2>5, <2>6 DEF TypeInv
<1>2. PassInv
  BY DEF Init, PassInv, InPass
<1>3. RateInv
  <2>1. \A j \in Jobs : starts[j] = <<>> /\ Len(starts[j]) = 0
    BY DEF Init
  <2> QED BY <2>1 DEF Init, RateInv, Running
<1>4. LateInv
  BY DEF Init, LateInv
<1>5. LatenessBounded
  <2> SUFFICES ASSUME NEW j \in Jobs PROVE 0 \in 0..MaxLate(j)
    BY DEF Init, LatenessBounded
  <2> DEFINE w == PassTime[NJobs]
             m == MaxDuration[j]
             p == PassTime[j - 1]
  <2>1. w \in Nat /\ m \in Nat /\ p \in Nat /\ MaxOversleep \in Nat /\ w >= m
    BY PassTimes, Settings
  <2>2. MaxLate(j) = w - m + MaxOversleep + p
    BY DEF MaxLate
  <2> HIDE DEF w, m, p
  <2> QED BY <2>1, <2>2
<1>6. StopInv
  BY DEF Init, StopInv
<1> QED BY <1>1, <1>2, <1>3, <1>4, <1>5, <1>6 DEF IInv

(* Every step keeps the invariant and the distance between starts. *)
LEMMA StepInv == IInv /\ [Next]_vars => IInv' /\ \A j \in Jobs : StartsApart(j)
<1> SUFFICES ASSUME IInv, [Next]_vars PROVE IInv' /\ \A j \in Jobs : StartsApart(j)
  OBVIOUS
<1>1. starts' = starts => \A j \in Jobs : StartsApart(j)
  BY DEF StartsApart
<1>2. CASE BeginPass
  BY <1>1, <1>2, BeginPassInv DEF BeginPass
<1>3. CASE Skip
  BY <1>1, <1>3, SkipInv DEF Skip
<1>4. CASE StartJob
  BY <1>4, StartJobInv
<1>5. CASE EndJob
  BY <1>1, <1>5, EndJobInv DEF EndJob
<1>6. CASE BeginSleep
  BY <1>1, <1>6, BeginSleepInv DEF BeginSleep
<1>7. CASE \E oversleep \in 0..MaxOversleep : EndSleep(oversleep)
  <2>1. PICK oversleep \in 0..MaxOversleep : EndSleep(oversleep)
    BY <1>7
  <2> QED BY <1>1, <2>1, EndSleepInv DEF EndSleep
<1>8. CASE StopSleep \/ Leave \/ SetStop
  <2>1. starts' = starts
    BY <1>8 DEF StopSleep, Leave, SetStop
  <2> QED BY <1>1, <1>8, <2>1, StoppingInv
<1>9. CASE UNCHANGED vars
  BY <1>1, <1>9 DEF vars, IInv, TypeInv, PassInv, RateInv, LateInv, LatenessBounded, MaxLate,
                    InPass, Running, Others, StopInv
<1> QED BY <1>2, <1>3, <1>4, <1>5, <1>6, <1>7, <1>8, <1>9 DEF Next, Loop

(* The invariant holds throughout, whatever the jobs and however long.      *)
THEOREM InductiveInvariant == Spec => []IInv
BY InitInv, StepInv, PTL DEF Spec

(* No job is starved: a run starts late by at most the other jobs of the    *)
(* pass before, one late sleep and the jobs ahead of it (run_forever).      *)
THEOREM NoJobStarved == Spec => []LatenessBounded
<1>1. IInv => LatenessBounded
  BY DEF IInv
<1> QED BY <1>1, InductiveInvariant, PTL

(* A job starts at most twice within its interval: runs that were missed    *)
(* are dropped, not made up for one after the other (service.py:73).        *)
THEOREM CatchUpsBounded == Spec => AtMostOneCatchUp
<1>1. IInv /\ [Next]_vars => [\A j \in Jobs : StartsApart(j)]_vars
  BY StepInv
<1> QED BY <1>1, InductiveInvariant, PTL DEF Spec, AtMostOneCatchUp

(* Once told to stop the monitor starts no job and waits for no more than   *)
(* the job it is in: not for a sleep, not for the rest of the pass          *)
(* (service.py:45,65,70).                                                   *)
THEOREM StopWaitsForOneJob == Spec => []StopWaits
<1>1. IInv => StopWaits
  <2> SUFFICES ASSUME IInv, stop PROVE starts = told.starts /\ clock <= told.by
    BY DEF StopWaits
  <2> DEFINE w == IF pc = "running" THEN MaxDuration[at] ELSE 0
  <2>1. w \in Nat
    BY Settings DEF IInv, PassInv
  <2>2. starts = told.starts /\ clock + w <= told.by
    BY DEF IInv, StopInv
  <2>3. clock \in Nat /\ told.by \in Nat
    BY DEF IInv, TypeInv
  <2> HIDE DEF w
  <2> QED BY <2>1, <2>2, <2>3
<1> QED BY <1>1, InductiveInvariant, PTL
=============================================================================
