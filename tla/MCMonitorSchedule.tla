------------------------ MODULE MCMonitorSchedule ------------------------
(* TLC instances of MonitorSchedule: three jobs of different intervals. *)
EXTENDS MonitorSchedule, FiniteSetsExt

ThreeIntervals == <<2, 3, 5>>
ThreeDurations == <<1, 4, 2>>
ThreePassTimes == [j \in 0..3 |-> MapThenSumSet(LAMBDA i : ThreeDurations[i], 1..j)]
=============================================================================
