--------------------------- MODULE MCAuthSessions ---------------------------
(***************************************************************************)
(* AuthSessions on small instances.                                        *)
(***************************************************************************)
EXTENDS AuthSessions, TLC
=============================================================================
