--------------------------- MODULE MCRideRequest ----------------------------
(***************************************************************************)
(* RideRequest on small instances.                                         *)
(***************************************************************************)
EXTENDS RideRequest, TLC

\* Every driver is of the region of the riders.
MCRegionOf == [d \in Drivers |-> Home]
=============================================================================
