------------------------------ MODULE MCAgent ------------------------------
(* AgentGraph for TLC: one request of each kind the access rules tell apart *)
EXTENDS AgentGraph

CONSTANTS w1, w2, nows, company

MCWorkspaces == {w1, w2}
MCChunks == {[workspace |-> w1, public |-> FALSE], [workspace |-> w2, public |-> FALSE],
             [workspace |-> w2, public |-> TRUE]}
MCRequests ==
  {[bound |-> nows,    enableGraph |-> TRUE,  member |-> {w1}],
   [bound |-> w1,      enableGraph |-> TRUE,  member |-> {w1, w2}],
   [bound |-> w1,      enableGraph |-> FALSE, member |-> {w2}],
   [bound |-> company, enableGraph |-> TRUE,  member |-> {w1}]}
=============================================================================
