--------------------------- MODULE MCRiderAccount ---------------------------
(***************************************************************************)
(* RiderAccount on small instances.                                        *)
(***************************************************************************)
EXTENDS RiderAccount, TLC
=============================================================================
