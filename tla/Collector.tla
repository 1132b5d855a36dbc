----------------------------- MODULE Collector -----------------------------
(***************************************************************************)
(* The collector (services/src/cadns/collector): dnstap sessions, batches  *)
(* of client responses, and the flush that writes them.  One asyncio event *)
(* loop: a step is what runs between two awaits, so frames arrive while a  *)
(* flush waits for the database.                                           *)
(*                                                                         *)
(* The transaction that writes the misses is also the queue's enqueue and  *)
(* NOTIFY, so this module is composed with WorkerLoop: from a client's     *)
(* miss to a running measurement.  Which misses are due is Freshness's     *)
(* concern; here it may be any of them.                                    *)
(***************************************************************************)
EXTENDS WorkerLoop

CONSTANT MaxEvents   \* bound of the model: client responses that count

ASSUME CollectorAssumption == MaxEvents \in Nat

VARIABLES
    session,     \* the dnstap connection: "none", "open" or "started"
    collector,   \* see Collectors
    hit_count,   \* domains.hit_count of the names in cadns.domains
    received,    \* history: hits that arrived
    late,        \* history: names that arrived during the final flush
    events       \* bound of the model: responses so far

collectorVars == <<session, collector, hit_count, received, late, events>>

Batches == [hits : [Names -> 0..MaxEvents], misses : SUBSET Names]
Collectors == [batch : Batches, writing : Batches, stop : BOOLEAN,
               pc : {"top", "waiting", "hits", "misses", "done"}, closing : BOOLEAN]

Zero == [n \in Names |-> 0]
Empty == [hits |-> Zero, misses |-> {}]
HitNames(b) == {n \in Names : b.hits[n] > 0}

Known == {n \in Names : hit_count[n] >= 0}   \* -1: not in cadns.domains

CollectorInit ==
    /\ session = "none"
    /\ collector = [batch |-> Empty, writing |-> Empty, stop |-> FALSE,
                    pc |-> "top", closing |-> FALSE]
    /\ hit_count \in {[n \in Names |-> -1], Zero}
    /\ received = Zero
    /\ late = {}
    /\ events = 0

-----------------------------------------------------------------------------
(* serve_connection.  READY is answered with ACCEPT and changes nothing,     *)
(* START lets data frames in, and a STOP, a disconnect or any frame out of   *)
(* order ends the session.  server.close() keeps new writers out only.       *)
Session(from, to) ==
    /\ session \in from
    /\ session' = to
    /\ UNCHANGED <<collector, hit_count, received, late, events>>

Connect == ~collector.closing /\ Session({"none"}, "open")
Begin   == Session({"open"}, "started")
End     == Session({"open", "started"}, "none")

(* on_frame, for a frame that decodes to a hit or a miss; others are dropped. *)
Add(n, b) ==
    /\ session = "started"
    /\ events < MaxEvents /\ events' = events + 1
    /\ collector' = [collector EXCEPT !.batch = b]
    /\ late' = IF collector.closing THEN late \union {n} ELSE late
    /\ UNCHANGED <<session, hit_count>>

Hit(n) ==
    /\ Add(n, [collector.batch EXCEPT !.hits[n] = @ + 1])
    /\ received' = [received EXCEPT ![n] = @ + 1]

Miss(n) ==
    /\ Add(n, [collector.batch EXCEPT !.misses = @ \union {n}])
    /\ UNCHANGED received

StopCollector ==
    /\ ~collector.stop
    /\ collector' = [collector EXCEPT !.stop = TRUE]
    /\ UNCHANGED <<session, hit_count, received, late, events>>

-----------------------------------------------------------------------------
(* When run() has returned the process ends, its connections with it. *)
Hangup == session' = IF collector'.pc = "done" THEN "none" ELSE session

(* The loop of run().  A wait ends with the stop event, when a full batch     *)
(* sets the other event, or after flush_seconds: it may end at any time.      *)
Goto(pc) ==
    /\ collector' = [collector EXCEPT !.pc = pc]
    /\ Hangup
    /\ UNCHANGED <<hit_count, received, late, events>>

Wait == collector.pc = "top" /\ ~collector.stop /\ Goto("waiting")

AfterFlush(closing) == IF closing THEN "done" ELSE "top"

(* flush() up to its first await: swap the batch. *)
Swap(closing) ==
    /\ collector' =
          [collector EXCEPT
              !.batch = Empty, !.writing = collector.batch, !.closing = closing,
              !.pc = IF collector.batch # Empty THEN "hits" ELSE AfterFlush(closing)]
    /\ Hangup
    /\ UNCHANGED <<hit_count, received, late, events>>

Flush == collector.pc = "waiting" /\ Swap(FALSE)

(* Variant: no flush after the loop. *)
ReturnAtOnce == collector.pc = "top" /\ collector.stop /\ Goto("done")

FinalFlush == collector.pc = "top" /\ collector.stop /\ Swap(TRUE)

(* write_batch: first the hits of names in the table, a transaction of its own; *)
(* then the misses, with the names that are due put in the queue.               *)
Written == [collector EXCEPT !.writing = Empty, !.pc = AfterFlush(collector.closing)]

Counted == [n \in Names |-> IF n \in Known THEN hit_count[n] + collector.writing.hits[n] ELSE -1]

WriteHits ==
    /\ collector.pc = "hits"
    /\ hit_count' = Counted
    /\ collector' = IF collector.writing.misses = {} THEN Written
                    ELSE [collector EXCEPT !.pc = "misses"]
    /\ Hangup
    /\ UNCHANGED <<received, late, events>>

WriteMisses(due) ==
    /\ collector.pc = "misses"
    /\ due \subseteq collector.writing.misses
    /\ hit_count' = [n \in Names |-> IF n \in collector.writing.misses /\ n \notin Known
                                     THEN 0 ELSE hit_count[n]]
    /\ collector' = Written
    /\ Announce(due)
    /\ Hangup
    /\ UNCHANGED <<received, late, events>>

(* A database error drops the batch.  The statement that raised may have been *)
(* rolled back, or committed with its reply lost.                             *)
(* Variant: the batch is kept for the next flush. *)
FlushErrorKeeps ==
    /\ collector.pc \in {"hits", "misses"}
    /\ hit_count' = hit_count
    /\ collector' = [Written EXCEPT !.batch.hits = [n \in Names |-> collector.batch.hits[n] +
                                                                 collector.writing.hits[n]],
                                 !.batch.misses = @ \union collector.writing.misses]
    /\ Hangup
    /\ UNCHANGED <<received, late, events>>

FlushError ==
    /\ collector.pc \in {"hits", "misses"}
    /\ \/ hit_count' = hit_count
       \/ collector.pc = "hits" /\ hit_count' = Counted
    /\ collector' = Written
    /\ Hangup
    /\ UNCHANGED <<received, late, events>>

OwnStep ==
    \/ Connect \/ Begin \/ End \/ StopCollector
    \/ \E n \in Names : Hit(n) \/ Miss(n)
    \/ Wait \/ Flush \/ FinalFlush \/ WriteHits \/ FlushError

CollectorStep ==
    \/ OwnStep /\ UNCHANGED workerVars
    \/ \E due \in SUBSET Names : WriteMisses(due)

vars == <<collectorVars, workerVars>>

Init == CollectorInit /\ WorkerInit

Next == CollectorStep \/ (WorkerStep /\ UNCHANGED collectorVars)

Spec == Init /\ [][Next]_vars /\ WorkerFairness

-----------------------------------------------------------------------------
TypeOK ==
    /\ session \in {"none", "open", "started"}
    /\ collector \in Collectors
    /\ hit_count \in [Names -> -1..MaxEvents]
    /\ queue \in [Names -> {"absent", "new", "due", "backoff", "locked"}]
    /\ worker \in Workers

(* No hit is counted twice, although the hits are committed before the      *)
(* misses and the batch may fail in between (service.py:53-71): what is in  *)
(* the table, in the batch and still to be written was all received.        *)
HitsAtMostOnce ==
    \A n \in Names :
        (IF n \in Known THEN hit_count[n] ELSE 0) + collector.batch.hits[n]
            + (IF collector.pc = "hits" THEN collector.writing.hits[n] ELSE 0) <= received[n]

(* A stop loses nothing that arrived before the final flush, frames that    *)
(* came in while the last regular flush was writing included (service.py:   *)
(* 178-180).                                                                *)
StopLosesNothing ==
    collector.pc = "done" => HitNames(collector.batch) \union collector.batch.misses \subseteq late
=============================================================================
