--------------------------- MODULE MCMCPSessions ---------------------------
(* Instances of MCPSessions for TLC: calls of one toolset. *)
EXTENDS MCPSessions, TLC

CONSTANTS a, b, c3

(* One toolset for all the calls, so that they meet at its lock. *)
OneToolset == [c \in Calls |-> "dial"]


=============================================================================
