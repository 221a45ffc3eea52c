-------------------------- MODULE MCMCPConnection --------------------------
(* Two tasks and what they leave in the adapter to each other.              *)
EXTENDS MCPConnection
=============================================================================
