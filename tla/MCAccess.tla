------------------------------ MODULE MCAccess ------------------------------
(* Access for TLC: every pair of requests over two users and two spaces *)
EXTENDS Access

CONSTANTS u1, u2, w1, w2, d1, d2, nodept
=============================================================================
