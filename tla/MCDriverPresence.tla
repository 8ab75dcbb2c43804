-------------------------- MODULE MCDriverPresence --------------------------
(***************************************************************************)
(* DriverPresence on small instances.                                      *)
(***************************************************************************)
EXTENDS DriverPresence, TLC
=============================================================================
