-------------------------- MODULE CollectorProofs --------------------------
(***************************************************************************)
(* Proofs about Collector and WorkerLoop, for any set of names, any number *)
(* of slots and of responses.                                              *)
(***************************************************************************)
EXTENDS Collector, FiniteSetTheorems, TLAPS

(* The worker's half of the invariant.  A task or a claimed job holds the    *)
(* lock of its row, so no name is both; claims leave room for the tasks that *)
(* run; and whatever a claim left behind, either it filled all slots or it   *)
(* took every announced row it did not pass over as locked, unless something *)
(* has set the event since.                                                  *)
WorkerTypes ==
    /\ queue \in [Names -> {"absent", "new", "due", "backoff", "locked"}]
    /\ notice \in BOOLEAN
    /\ worker \in [ pc : {"top", "claim", "return", "waiting", "done"},
                    wake : BOOLEAN, stop : BOOLEAN, listening : BOOLEAN, limit : Nat,
                    jobs : SUBSET Names, tasks : SUBSET Names, ending : Nat, failed : BOOLEAN,
                    skipped : SUBSET Names ]

RowsHeld ==
    /\ \A n \in worker.tasks \union worker.jobs : queue[n] = "locked"
    /\ worker.tasks \cap worker.jobs = {}
    /\ worker.pc # "return" => worker.jobs = {}

SlotsKept ==
    /\ Running <= Concurrency
    /\ worker.limit <= Concurrency
    /\ worker.pc = "claim" => worker.limit <= Concurrency - Running
    /\ worker.pc = "return" => Running + Cardinality(worker.jobs) <= Concurrency

NothingNew == \A n \in Names \ worker.skipped : queue[n] # "new"

Undisturbed == ~worker.wake /\ worker.listening /\ ~notice

Attentive ==
    /\ worker.pc = "claim" /\ ~worker.wake => worker.limit = Concurrency - Running
    /\ worker.pc = "return" /\ Undisturbed =>
          NothingNew \/ Running + Cardinality(worker.jobs) = Concurrency
    /\ worker.pc = "waiting" /\ Undisturbed /\ ~worker.failed =>
          NothingNew \/ Running = Concurrency

WorkerInv == WorkerTypes /\ RowsHeld /\ SlotsKept /\ Attentive

(* The collector's half: what is counted, held and being written was         *)
(* received, and from the final flush on the batch holds late names only.    *)
AnyBatch == [hits : [Names -> Nat], misses : SUBSET Names]

CollectorRecord ==
    [batch : AnyBatch, writing : AnyBatch, stop : BOOLEAN,
     pc : {"top", "waiting", "hits", "misses", "done"}, closing : BOOLEAN]

CollectorTypes ==
    /\ session \in {"none", "open", "started"}
    /\ events \in 0..MaxEvents
    /\ late \subseteq Names
    /\ received \in [Names -> Nat]
    /\ hit_count \in [Names -> Int]
    /\ collector \in CollectorRecord

CountsKept ==
    \A n \in Names :
        /\ hit_count[n] >= -1
        /\ received[n] <= events
        /\ collector.writing.hits[n] <= received[n]
        /\ (IF hit_count[n] >= 0 THEN hit_count[n] ELSE 0) + collector.batch.hits[n]
              + (IF collector.pc = "hits" THEN collector.writing.hits[n] ELSE 0) <= received[n]

ClosingKept ==
    /\ collector.closing => /\ collector.pc \in {"hits", "misses", "done"}
                            /\ HitNames(collector.batch) \union collector.batch.misses \subseteq late
    /\ collector.pc = "done" => collector.closing

CollectorInv == CollectorTypes /\ CountsKept /\ ClosingKept

IInv == WorkerInv /\ CollectorInv

-----------------------------------------------------------------------------
(* How many tasks a worker counts when one settles, and when jobs start. *)
LEMMA Counting ==
  ASSUME NEW T \in SUBSET Names, NEW J \in SUBSET Names
  PROVE  /\ Cardinality(T) \in Nat /\ Cardinality(J) \in Nat
         /\ \A n \in T : Cardinality(T \ {n}) = Cardinality(T) - 1
         /\ T \cap J = {} => Cardinality(T \union J) = Cardinality(T) + Cardinality(J)
         /\ Cardinality({}) = 0
<1>1. IsFiniteSet(T) /\ IsFiniteSet(J)
  BY FS_Subset, WorkerLoopAssumption
<1>2. Cardinality(T) \in Nat /\ Cardinality(J) \in Nat
  BY <1>1, FS_CardinalityType
<1>3. \A n \in T : Cardinality(T \ {n}) = Cardinality(T) - 1
  BY <1>1, FS_RemoveElement
<1>4. Cardinality({}) = 0
  BY FS_EmptySet
<1>5. ASSUME T \cap J = {} PROVE Cardinality(T \union J) = Cardinality(T) + Cardinality(J)
  <2>1. Cardinality(T \union J) = Cardinality(T) + Cardinality(J) - Cardinality(T \cap J)
    BY <1>1, FS_Union
  <2>2. Cardinality(T \cap J) = 0
    BY <1>4, <1>5
  <2> QED BY <1>2, <2>1, <2>2
<1> QED BY <1>2, <1>3, <1>4, <1>5

(* Every step of the worker, and every enqueue, preserves its half. *)
LEMMA WorkerStepKeeps ==
  ASSUME WorkerInv, WorkerStep \/ \E due \in SUBSET Names : Announce(due)
  PROVE  WorkerInv'
<1> USE WorkerLoopAssumption DEF WorkerInv
<1>0. /\ Cardinality(worker.tasks) \in Nat /\ Cardinality(worker.jobs) \in Nat
      /\ \A n \in worker.tasks : Cardinality(worker.tasks \ {n}) = Cardinality(worker.tasks) - 1
      /\ Cardinality(worker.tasks \union worker.jobs)
            = Cardinality(worker.tasks) + Cardinality(worker.jobs)
      /\ Cardinality({}) = 0
  BY Counting DEF WorkerTypes, RowsHeld
<1>1. ASSUME NEW due \in SUBSET Names, Announce(due) PROVE WorkerInv'
  BY <1>0, <1>1 DEF WorkerTypes, RowsHeld, SlotsKept, Attentive, NothingNew, Undisturbed, Running,
                  Announce, SetRows
<1>2. ASSUME NEW m \in Names, BecomeDue(m) PROVE WorkerInv'
  BY <1>0, <1>2 DEF WorkerTypes, RowsHeld, SlotsKept, Attentive, NothingNew, Undisturbed, Running,
                  BecomeDue, SetRows
<1>3. CASE Listen
  BY <1>0, <1>3 DEF WorkerTypes, RowsHeld, SlotsKept, Attentive, NothingNew, Undisturbed, Running,
                  Listen
<1>4. CASE Notified
  BY <1>0, <1>4 DEF WorkerTypes, RowsHeld, SlotsKept, Attentive, NothingNew, Undisturbed, Running,
                  Notified
<1>5. CASE Disconnect
  BY <1>0, <1>5 DEF WorkerTypes, RowsHeld, SlotsKept, Attentive, NothingNew, Undisturbed, Running,
                  Disconnect
<1>6. CASE StopWorker
  BY <1>0, <1>6 DEF WorkerTypes, RowsHeld, SlotsKept, Attentive, NothingNew, Undisturbed, Running,
                  StopWorker
<1>7. CASE Leave
  BY <1>0, <1>7 DEF WorkerTypes, RowsHeld, SlotsKept, Attentive, NothingNew, Undisturbed, Running,
                  Leave
<1>8. CASE Top
  <2>1. /\ worker' = [worker EXCEPT !.wake = FALSE, !.limit = Concurrency - Running,
                           !.pc = IF Running < Concurrency THEN "claim" ELSE "waiting",
                           !.failed = FALSE, !.skipped = {}]
        /\ worker.pc = "top" /\ queue' = queue /\ notice' = notice
    BY <1>8 DEF Top
  <2>2. Running \in Nat /\ Concurrency - Running \in Nat
    BY <1>0 DEF WorkerTypes, SlotsKept, Running
  <2>3. WorkerTypes'
    BY <2>1, <2>2 DEF WorkerTypes
  <2>4. /\ worker'.tasks = worker.tasks /\ worker'.jobs = worker.jobs
        /\ worker'.ending = worker.ending /\ worker'.limit = Concurrency - Running
        /\ worker'.pc = IF Running < Concurrency THEN "claim" ELSE "waiting"
    BY <2>1 DEF WorkerTypes
  <2>5. Running' = Running
    BY <2>4 DEF Running
  <2>6. RowsHeld'
    BY <2>1, <2>4 DEF RowsHeld
  <2>7. SlotsKept' /\ Attentive'
    BY <2>2, <2>4, <2>5 DEF SlotsKept, Attentive
  <2> QED BY <2>3, <2>6, <2>7
<1>9. CASE Claim
  <2>1. PICK skipped \in SUBSET Ready : \E ns \in SUBSET (Ready \ skipped) :
           /\ Cardinality(ns) <= worker.limit
           /\ ns # Ready \ skipped => Cardinality(ns) = worker.limit
           /\ queue' = SetRows(ns, "locked")
           /\ worker' = [worker EXCEPT !.jobs = ns, !.limit = 0, !.pc = "return",
                                       !.skipped = skipped]
    BY <1>9 DEF Claim
  <2>2. PICK ns \in SUBSET (Ready \ skipped) :
           /\ Cardinality(ns) <= worker.limit
           /\ ns # Ready \ skipped => Cardinality(ns) = worker.limit
           /\ queue' = SetRows(ns, "locked")
           /\ worker' = [worker EXCEPT !.jobs = ns, !.limit = 0, !.pc = "return",
                                       !.skipped = skipped]
    BY <2>1
  <2>3. /\ worker.pc = "claim" /\ notice' = notice
        /\ ns \subseteq Names /\ skipped \subseteq Names /\ ns \subseteq Ready
    BY <1>9 DEF Claim, Ready
  <2>4. /\ worker'.tasks = worker.tasks /\ worker'.jobs = ns /\ worker'.ending = worker.ending
        /\ worker'.limit = 0 /\ worker'.pc = "return" /\ worker'.wake = worker.wake
        /\ worker'.listening = worker.listening /\ worker'.skipped = skipped
    BY <2>2 DEF WorkerTypes
  <2>5. queue' = [n \in Names |-> IF n \in ns THEN "locked" ELSE queue[n]]
    BY <2>2 DEF SetRows
  <2>6. WorkerTypes'
    BY <2>2, <2>3, <2>5 DEF WorkerTypes
  <2>7. RowsHeld'
    <3>1. worker.tasks \cap ns = {}
      BY <2>3 DEF RowsHeld, Ready
    <3> QED BY <2>3, <2>4, <2>5, <3>1 DEF RowsHeld, WorkerTypes
  <2>8. Cardinality(ns) \in Nat /\ Running' = Running /\ Running \in Nat
    <3>1. Cardinality(ns) \in Nat
      <4>1. ns \in SUBSET Names
        BY <2>3
      <4> QED BY <4>1, Counting
    <3>2. Running' = Running
      BY <2>4 DEF Running
    <3>3. Running \in Nat
      BY <1>0 DEF Running, WorkerTypes
    <3> QED BY <3>1, <3>2, <3>3
  <2>9. SlotsKept'
    BY <2>2, <2>3, <2>4, <2>8 DEF SlotsKept, WorkerTypes
  <2>10. ns = Ready \ skipped => NothingNew'
    BY <2>4, <2>5 DEF NothingNew, Ready
  <2>11. ~worker.wake /\ ns # Ready \ skipped => Running + Cardinality(ns) = Concurrency
    BY <2>2, <2>3, <2>8 DEF Attentive, WorkerTypes
  <2>12. Attentive'
    BY <2>4, <2>8, <2>10, <2>11 DEF Attentive, Undisturbed
  <2> QED BY <2>6, <2>7, <2>9, <2>12
<1>10. CASE Return
  <2> DEFINE more == worker.jobs # {} /\ Running + Cardinality(worker.jobs) < Concurrency
  <2>1. /\ worker' = [worker EXCEPT !.tasks = @ \union worker.jobs, !.jobs = {},
                                   !.pc = IF more THEN "top" ELSE "waiting"]
        /\ worker.pc = "return" /\ queue' = queue /\ notice' = notice
    BY <1>10 DEF Return
  <2>2. /\ worker'.tasks = worker.tasks \union worker.jobs /\ worker'.jobs = {}
        /\ worker'.ending = worker.ending /\ worker'.limit = worker.limit
        /\ worker'.pc = IF more THEN "top" ELSE "waiting"
        /\ worker'.wake = worker.wake /\ worker'.listening = worker.listening
    BY <2>1 DEF WorkerTypes
  <2>3. WorkerTypes' /\ RowsHeld'
    BY <2>1, <2>2 DEF WorkerTypes, RowsHeld
  <2>4. Running' = Running + Cardinality(worker.jobs) /\ Running \in Nat
    BY <1>0, <2>2 DEF Running, WorkerTypes
  <2>5. SlotsKept'
    BY <2>1, <2>2, <2>4 DEF SlotsKept
  <2>6. worker'.pc = "waiting" => Running' = Concurrency \/ worker.jobs = {}
    BY <1>0, <2>1, <2>2, <2>4 DEF SlotsKept
  <2>7. NothingNew' <=> NothingNew
    BY <2>1 DEF NothingNew
  <2>8. Attentive'
    BY <1>0, <2>1, <2>2, <2>4, <2>6, <2>7 DEF Attentive, Undisturbed
  <2> QED BY <2>3, <2>5, <2>8
<1>11. CASE ClaimError
  <2>1. /\ worker' = [worker EXCEPT !.jobs = {}, !.limit = 0, !.pc = "waiting", !.failed = TRUE]
        /\ queue' = queue /\ notice' = notice
    BY <1>11 DEF ClaimError
  <2>2. /\ worker'.tasks = worker.tasks /\ worker'.jobs = {} /\ worker'.ending = worker.ending
        /\ worker'.limit = 0 /\ worker'.pc = "waiting" /\ worker'.failed = TRUE
    BY <2>1 DEF WorkerTypes
  <2>3. WorkerTypes' /\ RowsHeld'
    BY <2>1, <2>2 DEF WorkerTypes, RowsHeld
  <2>4. SlotsKept' /\ Attentive'
    BY <2>2 DEF SlotsKept, Attentive, Running
  <2> QED BY <2>3, <2>4
<1>12. CASE WakeUp
  BY <1>0, <1>12 DEF WorkerTypes, RowsHeld, SlotsKept, Attentive, NothingNew, Undisturbed, Running,
                  WakeUp
<1>13. CASE Poll
  BY <1>0, <1>13 DEF WorkerTypes, RowsHeld, SlotsKept, Attentive, NothingNew, Undisturbed, Running,
                  Poll
<1>14. ASSUME NEW m \in Names, Settle(m) PROVE WorkerInv'
  <2>1. PICK state \in {"absent", "backoff", "locked"} : queue' = SetRows({m}, state)
    BY <1>14 DEF Settle
  <2>2. /\ worker' = [worker EXCEPT !.tasks = @ \ {m}, !.ending = @ + 1]
        /\ m \in worker.tasks /\ notice' = notice
    BY <1>14 DEF Settle
  <2>3. /\ worker'.tasks = worker.tasks \ {m} /\ worker'.jobs = worker.jobs
        /\ worker'.ending = worker.ending + 1 /\ worker'.limit = worker.limit
        /\ worker'.pc = worker.pc /\ worker'.wake = worker.wake
        /\ worker'.listening = worker.listening /\ worker'.failed = worker.failed
        /\ worker'.skipped = worker.skipped
    BY <2>2 DEF WorkerTypes
  <2>4. queue' = [n \in Names |-> IF n = m THEN state ELSE queue[n]]
    BY <2>1 DEF SetRows
  <2>5. WorkerTypes'
    <3> DEFINE e == worker.ending + 1
    <3>1. e \in Nat
      BY DEF WorkerTypes
    <3>2. worker' = [worker EXCEPT !.tasks = @ \ {m}, !.ending = e]
      BY <2>2
    <3> HIDE DEF e
    <3> QED BY <2>2, <2>4, <3>1, <3>2 DEF WorkerTypes
  <2>6. RowsHeld'
    BY <2>2, <2>3, <2>4 DEF RowsHeld, WorkerTypes
  <2>7. Running' = Running
    BY <1>0, <2>2, <2>3 DEF Running, WorkerTypes
  <2>8. NothingNew => NothingNew'
    BY <2>1, <2>3, <2>4 DEF NothingNew
  <2>9. SlotsKept' /\ Attentive'
    BY <2>2, <2>3, <2>7, <2>8 DEF SlotsKept, Attentive, Undisturbed
  <2> QED BY <2>5, <2>6, <2>9
<1>15. CASE Done
  <2>1. /\ worker' = [worker EXCEPT !.ending = @ - 1, !.wake = TRUE]
        /\ worker.ending > 0 /\ queue' = queue /\ notice' = notice
    BY <1>15 DEF Done
  <2>2. /\ worker'.tasks = worker.tasks /\ worker'.jobs = worker.jobs
        /\ worker'.ending = worker.ending - 1 /\ worker'.limit = worker.limit
        /\ worker'.pc = worker.pc /\ worker'.wake = TRUE
    BY <2>1 DEF WorkerTypes
  <2>3. WorkerTypes'
    <3> DEFINE e == worker.ending - 1
    <3>1. e \in Nat
      BY <2>1 DEF WorkerTypes
    <3>2. worker' = [worker EXCEPT !.ending = e, !.wake = TRUE]
      BY <2>1
    <3> HIDE DEF e
    <3> QED BY <2>1, <3>1, <3>2 DEF WorkerTypes
  <2>4. Running' = Running - 1 /\ Running \in Nat
    BY <1>0, <2>2 DEF Running, WorkerTypes
  <2>5. SlotsKept' /\ Attentive'
    BY <1>0, <2>2, <2>4 DEF SlotsKept, Attentive, Undisturbed, WorkerTypes
  <2>6. RowsHeld'
    BY <2>1, <2>2 DEF RowsHeld
  <2> QED BY <2>3, <2>5, <2>6
<1> QED BY <1>1, <1>2, <1>3, <1>4, <1>5, <1>6, <1>7, <1>8, <1>9, <1>10, <1>11, <1>12, <1>13,
           <1>14, <1>15 DEF WorkerStep, Loop

-----------------------------------------------------------------------------
(* A flush takes the batch and leaves an empty one. *)
LEMMA SwapKeeps ==
  ASSUME CollectorInv, NEW c \in BOOLEAN, Swap(c),
         \/ c = FALSE /\ collector.pc = "waiting"
         \/ c = TRUE /\ collector.pc = "top"
  PROVE  CollectorInv'
<1> DEFINE p == IF collector.batch # Empty THEN "hits" ELSE AfterFlush(c)
<1>1. /\ collector' = [collector EXCEPT !.batch = Empty, !.writing = collector.batch,
                                       !.closing = c, !.pc = p]
      /\ hit_count' = hit_count /\ received' = received /\ late' = late /\ events' = events
      /\ session' = IF collector'.pc = "done" THEN "none" ELSE session
  BY DEF Swap, Hangup
<1>2. Empty \in AnyBatch /\ Empty.misses = {} /\ \A n \in Names : Empty.hits[n] = 0
  BY DEF Empty, Zero, AnyBatch
<1>3. p \in {"hits", "top", "done"} /\ (p = "top" => c = FALSE) /\ (p = "done" => c = TRUE)
  BY DEF AfterFlush
<1>4. ~collector.closing
  BY DEF CollectorInv, CollectorTypes, ClosingKept
<1> HIDE DEF p
<1>5. /\ collector' \in CollectorRecord
      /\ collector'.batch = Empty /\ collector'.writing = collector.batch
      /\ collector'.closing = c /\ collector'.pc = p
  BY <1>1, <1>2, <1>3 DEF CollectorInv, CollectorTypes, CollectorRecord
<1>6. CollectorTypes'
  BY <1>1, <1>5 DEF CollectorInv, CollectorTypes
<1>7. CountsKept'
  <2> SUFFICES ASSUME NEW n \in Names
               PROVE  /\ hit_count[n] >= -1 /\ received[n] <= events
                      /\ collector.batch.hits[n] <= received[n]
                      /\ (IF hit_count[n] >= 0 THEN hit_count[n] ELSE 0) + 0
                           + (IF p = "hits" THEN collector.batch.hits[n] ELSE 0) <= received[n]
    BY <1>1, <1>2, <1>5 DEF CountsKept
  <2>1. /\ hit_count[n] \in Int /\ received[n] \in Nat
        /\ collector.batch.hits[n] \in Nat /\ collector.writing.hits[n] \in Nat
    BY DEF CollectorInv, CollectorTypes, CollectorRecord, AnyBatch
  <2> QED BY <2>1 DEF CollectorInv, CountsKept
<1>8. ClosingKept'
  BY <1>1, <1>2, <1>3, <1>5 DEF ClosingKept, HitNames
<1> QED BY <1>6, <1>7, <1>8 DEF CollectorInv

(* The end of a flush, whether it succeeded or not. *)
LEMMA WrittenFacts ==
  ASSUME CollectorTypes, ClosingKept, collector.pc \in {"hits", "misses"},
         collector' = Written, late' = late
  PROVE  /\ collector' \in CollectorRecord
         /\ collector'.batch = collector.batch
         /\ collector'.pc # "hits"
         /\ \A n \in Names : collector'.writing.hits[n] = 0
         /\ ClosingKept'
<1> DEFINE p == AfterFlush(collector.closing)
<1>1. collector' = [collector EXCEPT !.writing = Empty, !.pc = p]
  BY DEF Written
<1>2. Empty \in AnyBatch /\ \A n \in Names : Empty.hits[n] = 0
  BY DEF Empty, Zero, AnyBatch
<1>3. p = IF collector.closing THEN "done" ELSE "top"
  BY DEF AfterFlush
<1> HIDE DEF p
<1>4. /\ collector' \in CollectorRecord
      /\ collector'.batch = collector.batch /\ collector'.writing = Empty
      /\ collector'.closing = collector.closing /\ collector'.pc = p
  BY <1>1, <1>2, <1>3 DEF CollectorTypes, CollectorRecord
<1>5. ClosingKept'
  BY <1>3, <1>4 DEF ClosingKept, HitNames
<1> QED BY <1>2, <1>3, <1>4, <1>5

(* The collector's half, preserved by each of its steps. *)
LEMMA CollectorStepKeeps ==
  ASSUME CollectorInv, OwnStep \/ \E due \in SUBSET Names : WriteMisses(due)
  PROVE  CollectorInv'
<1> USE CollectorAssumption DEF CollectorInv
<1>0. \A n \in Names : /\ hit_count[n] \in Int /\ received[n] \in Nat
                       /\ collector.batch.hits[n] \in Nat /\ collector.writing.hits[n] \in Nat
  BY DEF CollectorTypes, CollectorRecord, AnyBatch
<1>1. CASE Connect
  BY <1>1 DEF CollectorTypes, CollectorRecord, AnyBatch, CountsKept, ClosingKept, HitNames,
               Connect, Session
<1>2. CASE Begin
  BY <1>2 DEF CollectorTypes, CollectorRecord, AnyBatch, CountsKept, ClosingKept, HitNames,
               Begin, Session
<1>3. CASE End
  BY <1>3 DEF CollectorTypes, CollectorRecord, AnyBatch, CountsKept, ClosingKept, HitNames,
               End, Session
<1>4. CASE StopCollector
  BY <1>4 DEF CollectorTypes, CollectorRecord, AnyBatch, CountsKept, ClosingKept, HitNames,
               StopCollector
<1>5. ASSUME NEW m \in Names, Hit(m) PROVE CollectorInv'
  <2> DEFINE h == [collector.batch.hits EXCEPT ![m] = collector.batch.hits[m] + 1]
  <2>1. /\ h \in [Names -> Nat] /\ h[m] = collector.batch.hits[m] + 1
        /\ \A n \in Names \ {m} : h[n] = collector.batch.hits[n]
    BY <1>0 DEF CollectorTypes, CollectorRecord, AnyBatch
  <2>2. /\ collector' = [collector EXCEPT !.batch = [collector.batch EXCEPT !.hits = h]]
        /\ received' = [received EXCEPT ![m] = received[m] + 1]
        /\ events < MaxEvents /\ events' = events + 1
        /\ late' = IF collector.closing THEN late \union {m} ELSE late
        /\ session' = session /\ hit_count' = hit_count
    BY <1>5 DEF Hit, Add, CollectorTypes, CollectorRecord, AnyBatch
  <2> HIDE DEF h
  <2>3. /\ collector' \in CollectorRecord
        /\ collector'.batch.hits = h /\ collector'.batch.misses = collector.batch.misses
        /\ collector'.writing = collector.writing
        /\ collector'.closing = collector.closing /\ collector'.pc = collector.pc
    BY <2>1, <2>2 DEF CollectorTypes, CollectorRecord, AnyBatch
  <2>4. /\ received'[m] = received[m] + 1
        /\ \A n \in Names \ {m} : received'[n] = received[n]
        /\ received' \in [Names -> Nat]
    BY <1>0, <2>2 DEF CollectorTypes
  <2>5. CollectorTypes'
    BY <2>2, <2>3, <2>4 DEF CollectorTypes
  <2>6. CountsKept'
    <3> SUFFICES ASSUME NEW n \in Names
                 PROVE  /\ hit_count[n] >= -1 /\ received'[n] <= events + 1
                        /\ collector.writing.hits[n] <= received'[n]
                        /\ (IF hit_count[n] >= 0 THEN hit_count[n] ELSE 0) + h[n]
                             + (IF collector.pc = "hits" THEN collector.writing.hits[n] ELSE 0)
                             <= received'[n]
      BY <2>2, <2>3 DEF CountsKept
    <3>1. events \in Nat
      BY DEF CollectorTypes
    <3>2. CASE n = m
      BY <1>0, <2>1, <2>4, <3>1, <3>2 DEF CountsKept
    <3>3. CASE n # m
      BY <1>0, <2>1, <2>4, <3>1, <3>3 DEF CountsKept
    <3> QED BY <3>2, <3>3
  <2>7. ClosingKept'
    BY <2>1, <2>2, <2>3 DEF ClosingKept, HitNames
  <2> QED BY <2>5, <2>6, <2>7
<1>6. ASSUME NEW m \in Names, Miss(m) PROVE CollectorInv'
  BY <1>6 DEF CollectorTypes, CollectorRecord, AnyBatch, CountsKept, ClosingKept, HitNames,
               Miss, Add
<1>7. CASE Wait
  BY <1>7 DEF CollectorTypes, CollectorRecord, AnyBatch, CountsKept, ClosingKept, HitNames,
               Wait, Goto, Hangup
<1>8. CASE Flush
  BY <1>8, SwapKeeps DEF Flush
<1>9. CASE FinalFlush
  BY <1>9, SwapKeeps DEF FinalFlush
<1>10. CASE WriteHits
  <2>1. /\ collector.pc = "hits" /\ hit_count' = Counted
        /\ received' = received /\ late' = late /\ events' = events
        /\ session' = IF collector'.pc = "done" THEN "none" ELSE session
    BY <1>10 DEF WriteHits, Hangup
  <2>2. /\ hit_count' \in [Names -> Int]
        /\ \A n \in Names : hit_count'[n] = IF hit_count[n] >= 0
                                            THEN hit_count[n] + collector.writing.hits[n] ELSE -1
    BY <1>0, <2>1 DEF Counted, Known
  <2>3. /\ collector' \in CollectorRecord /\ collector'.batch = collector.batch
        /\ collector'.pc # "hits" /\ ClosingKept'
        /\ \A n \in Names : collector'.writing.hits[n] \in {0, collector.writing.hits[n]}
    <3>1. CASE collector' = Written
      BY <2>1, <3>1, WrittenFacts
    <3>2. CASE collector' = [collector EXCEPT !.pc = "misses"]
      BY <2>1, <3>2 DEF CollectorTypes, CollectorRecord, ClosingKept, HitNames
    <3> QED BY <1>10, <3>1, <3>2 DEF WriteHits
  <2>4. CollectorTypes'
    BY <2>1, <2>2, <2>3 DEF CollectorTypes
  <2>5. CountsKept'
    <3> SUFFICES ASSUME NEW n \in Names
                 PROVE  /\ hit_count'[n] >= -1 /\ received[n] <= events
                        /\ collector'.writing.hits[n] <= received[n]
                        /\ (IF hit_count'[n] >= 0 THEN hit_count'[n] ELSE 0)
                             + collector.batch.hits[n] + 0 <= received[n]
      BY <2>1, <2>3 DEF CountsKept
    <3> QED BY <1>0, <2>1, <2>2, <2>3 DEF CountsKept
  <2> QED BY <2>3, <2>4, <2>5
<1>11. CASE FlushError
  <2>1. /\ collector.pc \in {"hits", "misses"} /\ collector' = Written
        /\ hit_count' = hit_count \/ (collector.pc = "hits" /\ hit_count' = Counted)
        /\ received' = received /\ late' = late /\ events' = events
        /\ session' = IF collector'.pc = "done" THEN "none" ELSE session
    BY <1>11 DEF FlushError, Hangup
  <2>2. /\ collector' \in CollectorRecord /\ collector'.batch = collector.batch
        /\ collector'.pc # "hits" /\ ClosingKept'
        /\ \A n \in Names : collector'.writing.hits[n] = 0
    BY <2>1, WrittenFacts
  <2>3. /\ hit_count' \in [Names -> Int]
        /\ \A n \in Names :
              \/ hit_count'[n] = hit_count[n]
              \/ /\ collector.pc = "hits"
                 /\ hit_count'[n] = IF hit_count[n] >= 0
                                    THEN hit_count[n] + collector.writing.hits[n] ELSE -1
    BY <1>0, <2>1 DEF Counted, Known, CollectorTypes
  <2>4. CollectorTypes'
    BY <2>1, <2>2, <2>3 DEF CollectorTypes
  <2>5. CountsKept'
    <3> SUFFICES ASSUME NEW n \in Names
                 PROVE  /\ hit_count'[n] >= -1 /\ received[n] <= events /\ 0 <= received[n]
                        /\ (IF hit_count'[n] >= 0 THEN hit_count'[n] ELSE 0)
                             + collector.batch.hits[n] + 0 <= received[n]
      BY <2>1, <2>2 DEF CountsKept
    <3> QED BY <1>0, <2>1, <2>3 DEF CountsKept
  <2> QED BY <2>2, <2>4, <2>5
<1>12. ASSUME NEW due \in SUBSET Names, WriteMisses(due) PROVE CollectorInv'
  <2>1. /\ collector.pc = "misses" /\ collector' = Written
        /\ hit_count' = [n \in Names |-> IF n \in collector.writing.misses /\ n \notin Known
                                        THEN 0 ELSE hit_count[n]]
        /\ received' = received /\ late' = late /\ events' = events
        /\ session' = IF collector'.pc = "done" THEN "none" ELSE session
    BY <1>12 DEF WriteMisses, Hangup
  <2>2. /\ collector' \in CollectorRecord /\ collector'.batch = collector.batch
        /\ collector'.pc # "hits" /\ ClosingKept'
        /\ \A n \in Names : collector'.writing.hits[n] = 0
    BY <2>1, WrittenFacts
  <2>3. /\ hit_count' \in [Names -> Int]
        /\ \A n \in Names : \/ hit_count'[n] = hit_count[n]
                            \/ hit_count'[n] = 0 /\ ~(hit_count[n] >= 0)
    BY <1>0, <2>1 DEF Known
  <2>4. CollectorTypes'
    BY <2>1, <2>2, <2>3 DEF CollectorTypes
  <2>5. CountsKept'
    <3> SUFFICES ASSUME NEW n \in Names
                 PROVE  /\ hit_count'[n] >= -1 /\ received[n] <= events /\ 0 <= received[n]
                        /\ (IF hit_count'[n] >= 0 THEN hit_count'[n] ELSE 0)
                             + collector.batch.hits[n] + 0 <= received[n]
      BY <2>1, <2>2 DEF CountsKept
    <3> QED BY <1>0, <2>1, <2>3 DEF CountsKept
  <2> QED BY <2>2, <2>4, <2>5
<1> QED BY <1>1, <1>2, <1>3, <1>4, <1>5, <1>6, <1>7, <1>8, <1>9, <1>10, <1>11, <1>12 DEF OwnStep

-----------------------------------------------------------------------------
(* The two halves together, for the composed system. *)
LEMMA InitInv == Init => IInv
<1> SUFFICES ASSUME Init PROVE IInv
  OBVIOUS
<1>1. Cardinality({}) = 0
  BY FS_EmptySet
<1>2. WorkerInv
  <2>1. /\ WorkerTypes
        /\ worker.pc = "top" /\ worker.tasks = {} /\ worker.jobs = {}
        /\ worker.ending = 0 /\ worker.limit = 0
    BY DEF Init, WorkerInit, WorkerTypes
  <2>2. Running = 0
    BY <1>1, <2>1 DEF Running
  <2> QED BY <2>1, <2>2, WorkerLoopAssumption DEF WorkerInv, RowsHeld, SlotsKept, Attentive
<1>3. Zero \in [Names -> Nat] /\ \A n \in Names : Zero[n] = 0
  BY DEF Zero
<1>4. Empty \in AnyBatch /\ Empty.hits = Zero /\ Empty.misses = {}
  BY <1>3 DEF Empty, AnyBatch
<1>5. /\ hit_count \in [Names -> Int] /\ \A n \in Names : hit_count[n] \in {-1, 0}
      /\ received = Zero /\ late = {} /\ events = 0 /\ session = "none"
      /\ collector = [batch |-> Empty, writing |-> Empty, stop |-> FALSE,
                      pc |-> "top", closing |-> FALSE]
  BY <1>3 DEF Init, CollectorInit
<1>6. CollectorTypes
  BY <1>3, <1>4, <1>5, CollectorAssumption DEF CollectorTypes, CollectorRecord
<1>7. CountsKept /\ ClosingKept
  BY <1>3, <1>4, <1>5 DEF CountsKept, ClosingKept
<1> QED BY <1>2, <1>6, <1>7 DEF IInv, CollectorInv

LEMMA NextInv == IInv /\ [Next]_vars => IInv'
<1> SUFFICES ASSUME IInv, [Next]_vars PROVE IInv'
  OBVIOUS
<1>1. UNCHANGED workerVars => WorkerInv'
  BY DEF IInv, workerVars, WorkerInv, WorkerTypes, RowsHeld, SlotsKept, Attentive, NothingNew,
         Undisturbed, Running
<1>2. UNCHANGED collectorVars => CollectorInv'
  BY DEF IInv, collectorVars, CollectorInv, CollectorTypes, CountsKept, ClosingKept, HitNames
<1>3. CASE OwnStep /\ UNCHANGED workerVars
  <2>1. CollectorInv'
    BY <1>3, CollectorStepKeeps DEF IInv
  <2> QED BY <1>1, <1>3, <2>1 DEF IInv
<1>4. CASE \E due \in SUBSET Names : WriteMisses(due)
  <2>1. PICK due \in SUBSET Names : WriteMisses(due)
    BY <1>4
  <2>2. CollectorInv'
    BY <1>4, CollectorStepKeeps DEF IInv
  <2>3. WorkerInv'
    BY <2>1, WorkerStepKeeps DEF WriteMisses, IInv
  <2> QED BY <2>2, <2>3 DEF IInv
<1>5. CASE WorkerStep /\ UNCHANGED collectorVars
  <2>1. WorkerInv'
    BY <1>5, WorkerStepKeeps DEF IInv
  <2> QED BY <1>2, <1>5, <2>1 DEF IInv
<1>6. CASE UNCHANGED vars
  BY <1>1, <1>2, <1>6 DEF vars, workerVars, collectorVars, IInv
<1> QED BY <1>3, <1>4, <1>5, <1>6 DEF Next, CollectorStep

-----------------------------------------------------------------------------
(* The inductive invariant, for any number of names, slots and responses. *)
THEOREM IntakeInvariant == Spec => []IInv
<1>1. Init => IInv
  BY InitInv
<1>2. IInv /\ [Next]_vars => IInv'
  BY NextInv
<1> QED BY <1>1, <1>2, PTL DEF Spec

(* Types, and with them the bound on the measurements a worker runs at a     *)
(* time: tasks and ending tasks fit in its slots (service.py:91-93).         *)
THEOREM IntakeTypes == Spec => []TypeOK
<1>1. IInv => TypeOK
  <2> SUFFICES ASSUME IInv PROVE TypeOK
    OBVIOUS
  <2>1. worker \in Workers
    <3>1. Cardinality(worker.tasks) \in Nat
      BY Counting DEF IInv, WorkerInv, WorkerTypes
    <3>2. worker.ending \in 0..Concurrency /\ worker.limit \in 0..Concurrency
      BY <3>1, WorkerLoopAssumption DEF IInv, WorkerInv, WorkerTypes, SlotsKept, Running
    <3> QED BY <3>2 DEF IInv, WorkerInv, WorkerTypes, Workers
  <2>2. \A n \in Names : /\ hit_count[n] \in -1..MaxEvents
                         /\ collector.batch.hits[n] \in 0..MaxEvents
                         /\ collector.writing.hits[n] \in 0..MaxEvents
    <3> TAKE n \in Names
    <3>1. /\ hit_count[n] \in Int /\ received[n] \in Nat /\ events \in Nat /\ events <= MaxEvents
          /\ collector.batch.hits[n] \in Nat /\ collector.writing.hits[n] \in Nat
      BY CollectorAssumption
         DEF IInv, CollectorInv, CollectorTypes, CollectorRecord, AnyBatch
    <3> QED BY <3>1, CollectorAssumption DEF IInv, CollectorInv, CountsKept
  <2>3. collector.batch \in Batches /\ collector.writing \in Batches
    BY <2>2 DEF Batches, IInv, CollectorInv, CollectorTypes, CollectorRecord, AnyBatch
  <2>4. collector \in Collectors
    BY <2>3 DEF Collectors, IInv, CollectorInv, CollectorTypes, CollectorRecord
  <2> QED BY <2>1, <2>2, <2>4
         DEF TypeOK, IInv, WorkerInv, WorkerTypes, CollectorInv, CollectorTypes
<1> QED BY <1>1, IntakeInvariant, PTL

(* No wake-up is lost: a worker that sleeps undisturbed, with a free slot,   *)
(* has claimed every announced row, except one that its last claim found     *)
(* locked and passed over (service.py:72-78, pg.py:82).                      *)
THEOREM NoLostWakeUp == Spec => []NoSleepOverWork
<1>1. IInv => NoSleepOverWork
  <2> SUFFICES ASSUME IInv PROVE NoSleepOverWork
    OBVIOUS
  <2>1. Running \in Nat
    BY Counting DEF Running, IInv, WorkerInv, WorkerTypes
  <2> QED BY <2>1, WorkerLoopAssumption
         DEF NoSleepOverWork, IInv, WorkerInv, Attentive, Undisturbed, NothingNew
<1> QED BY <1>1, IntakeInvariant, PTL

(* No hit is counted twice (collector/service.py:53-71). *)
THEOREM CountedOnce == Spec => []HitsAtMostOnce
<1>1. IInv => HitsAtMostOnce
  BY DEF HitsAtMostOnce, Known, IInv, CollectorInv, CountsKept
<1> QED BY <1>1, IntakeInvariant, PTL

(* A stop loses nothing that came before the final flush                     *)
(* (collector/service.py:178-180).                                           *)
THEOREM StopFlushes == Spec => []StopLosesNothing
<1>1. IInv => StopLosesNothing
  BY DEF StopLosesNothing, IInv, CollectorInv, ClosingKept
<1> QED BY <1>1, IntakeInvariant, PTL
=============================================================================
