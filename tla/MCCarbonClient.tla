--------------------------- MODULE MCCarbonClient ---------------------------
(* TLC instance of CarbonClient. *)
EXTENDS CarbonClient
=============================================================================
