--------------------------- MODULE MCPaymentFlow ---------------------------
(***************************************************************************)
(* PaymentFlow on small instances.                                         *)
(***************************************************************************)
EXTENDS PaymentFlow, TLC
=============================================================================
