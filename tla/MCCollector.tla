---------------------------- MODULE MCCollector ----------------------------
(* TLC instance of Collector and WorkerLoop: see intake.cfg. *)
EXTENDS Collector
=============================================================================
