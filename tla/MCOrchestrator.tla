--------------------------- MODULE MCOrchestrator ---------------------------
(* Instances of Orchestrator for TLC. *)
EXTENDS Orchestrator, TLC

CONSTANTS g, t, x, e, s, w

(* g is a get_content call, t a plain one, x names no tool, e is the client's,
   s is a call of a tool whose stage is suppressed, the arguments of w are malformed. *)
MCToolOf ==
  [c \in CallIds |->
     CASE c = g -> "get_content" [] c \in {t, w} -> "plain" [] c = x -> "unknown"
       [] c = e -> "client" [] c = s -> "quiet"]

=============================================================================
