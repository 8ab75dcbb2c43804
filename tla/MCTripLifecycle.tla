-------------------------- MODULE MCTripLifecycle --------------------------
(***************************************************************************)
(* TripLifecycle on small instances.                                       *)
(***************************************************************************)
EXTENDS TripLifecycle, TLC
=============================================================================
