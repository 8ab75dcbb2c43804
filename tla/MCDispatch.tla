----------------------------- MODULE MCDispatch -----------------------------
(***************************************************************************)
(* Dispatch on small instances: one driver within five kilometres of the   *)
(* pickup point and the others farther away.                               *)
(***************************************************************************)
EXTENDS Dispatch, TLC

CONSTANTS d1, d2

MCDistance == [d \in Drivers |-> IF d = d1 THEN 3 ELSE 8]
=============================================================================
