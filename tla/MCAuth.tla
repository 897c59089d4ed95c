------------------------------- MODULE MCAuth -------------------------------
(* AuthSession for TLC: two requests in flight, one call of an administrator *)
EXTENDS AuthSession

CONSTANTS b1, b2
=============================================================================
