------------------------- MODULE MCMeasurementQueue -------------------------
(* TLC instances of MeasurementQueue. *)
EXTENDS MeasurementQueue, TLC

AllFaultsButReply == {"crash", "claim", "record", "release"}
AllFaults == AllFaultsButReply \union {"reply"}
NoFaults == {}

(* Domains and worker ids are interchangeable: no definition tells them apart. *)
Symmetry == Permutations(Domains) \union Permutations(WorkerIds)
=============================================================================
