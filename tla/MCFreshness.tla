---------------------------- MODULE MCFreshness ----------------------------
(* TLC instances of Freshness: see freshness.cfg and missed_name.cfg. *)
EXTENDS Freshness
=============================================================================
