------------------------------ MODULE ToolTask ------------------------------
(***************************************************************************)
(* The tasks of the tool calls of one request, as StagedBaseTool.arun runs *)
(* them: where each task is, and what the model is told of a tool that     *)
(* failed (__run_tool_body and FallbackProcessor).                         *)
(*                                                                         *)
(* Calls begin when they like: two calls that overlap may be of one answer *)
(* of the model, a call that begins after another has ended is of a later  *)
(* one.                                                                    *)
(***************************************************************************)
EXTENDS Naturals, Sequences, FiniteSets

CONSTANTS
  Calls,     \* the tool calls of the request
  Scripts    \* what a request may be: its calls, the files there are at first, and the
             \* number of changes that others make meanwhile

VARIABLES
  script,    \* this request
  at,        \* the await each call's task is parked at
  answer     \* what came of a call

task == <<at, answer>>

(* The calls there are in this request. *)
Requested == DOMAIN script.calls

(* A call: its tool, the tool's arguments and its fallback strategies. *)
Job(c) == script.calls[c]

(* A strategy has no trigger, or one that matches the text of the tool's error or of
   the timeout error. *)
StrategyType == [kind : {"continue", "stop", "hard_stop"}, on : {"any", "error", "timeout"}]

(* _is_applicable; _process_timeout skips the strategies without a trigger. *)
Applicable(s, outcome) ==
  \/ s.on = outcome
  \/ s.on = "any" /\ outcome = "error"

(* process_fallback: the first strategy that applies decides. *)
Fallback(strategies, outcome) ==
  LET able == {i \in DOMAIN strategies : Applicable(strategies[i], outcome)}
      first == CHOOSE i \in able : \A j \in able : i <= j
  IN CASE able # {} /\ strategies[first].kind = "hard_stop" -> "stopped"
       [] able # {} /\ strategies[first].kind # "hard_stop" -> "advised"
       [] able = {} /\ outcome = "timeout" -> "timed_out"
       [] able = {} /\ outcome = "error" -> "reraised"

(* __run_tool_body: a wrong argument is always answered with a retry instruction; a
   cancellation is no Exception and passes through. *)
Answer(c, outcome) ==
  IF outcome \in {"ok", "cancelled"} THEN outcome
  ELSE IF outcome = "invalid" THEN "advised"
  ELSE Fallback(Job(c).strategies, outcome)

(* The body of the tool ended: the rest of arun has no await. *)
Settle(c, outcome) ==
  /\ at' = [at EXCEPT ![c] = "done"]
  /\ answer' = [answer EXCEPT ![c] = Answer(c, outcome)]

MoveTo(c, place) ==
  /\ at' = [at EXCEPT ![c] = place]
  /\ answer' = answer

Settled(c) == at[c] \in {"done", "absent"}

TaskInit ==
  /\ script \in Scripts
  /\ at = [c \in Calls |-> IF c \in Requested THEN "start" ELSE "absent"]
  /\ answer = [c \in Calls |-> "none"]

Answers == {"none", "ok", "cancelled", "advised", "stopped", "timed_out", "reraised"}

TaskTypeOK ==
  /\ at \in [Calls -> {"absent", "start", "download", "list", "scan", "fetch", "upload", "reply",
                       "load", "body", "history", "promote", "expired", "model", "check", "open",
                       "transfer", "execute", "publish", "auth", "request", "attach", "done"}]
  /\ answer \in [Calls -> Answers]
  /\ \A c \in Calls : answer[c] # "none" <=> at[c] = "done"

=============================================================================
