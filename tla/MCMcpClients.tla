---------------------------- MODULE MCMcpClients ----------------------------
(* Model-checking instance of McpClients.  Sessions are interchangeable.     *)
EXTENDS McpClients, TLC

Symmetry == Permutations(Session)
=============================================================================
