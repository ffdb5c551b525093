---------------------------- MODULE RequestErrors ----------------------------
(***************************************************************************)
(* How a failed request is explained: ErrorDetails are extracted from the  *)
(* exception, resolve_exception chooses a message and says whether a retry *)
(* may help, _QuickAppCompletion delivers both as a DIAL protocol error    *)
(* with a reference that is in the log too.  A failed tool call has a      *)
(* reference of its own, which its stage shows and the request takes over  *)
(* when a stop fallback ends it.                                           *)
(*                                                                         *)
(* An exception is a record: where it comes from, its HTTP status (0 when  *)
(* it has none), the code of its body, whether the internal message is a   *)
(* known wording, the display message, and whether a field of the body has *)
(* a type ErrorDetails does not accept.  A message is named, not spelled.  *)
(***************************************************************************)
EXTENDS Naturals, Sequences, FiniteSets

CONSTANTS
  Calls,    \* parallel tool calls of one answer of the model
  NoOne,    \* the request did not fail because of a tool
  Errors    \* the exceptions of a model call, a service or a tool

(* An HTTP error has a status, one in the middle of a stream has none, and a code that is
   no number has no number. *)
IsError(e) ==
  /\ e.status \in Nat /\ e.number \in Nat /\ e.odd \in BOOLEAN
  /\ e.kind = "stream" => e.status = 0
  /\ e.kind # "stream" /\ e.code = "number" => e.status # 0
  /\ e.code # "number" => e.number = 0

ASSUME ErrorsAssumption == \A e \in Errors : IsError(e)

VARIABLES
  display,    \* the failing tool's configuration: display_error_in_stage and stage level
  phase,      \* where the request is
  tool,       \* where each tool call is
  stage,      \* what the stage of a failed call shows: a text and a reference
  raised,     \* the exception that ends the request
  stoppedBy,  \* the call whose stop fallback raised it
  given,      \* error_reference of each call that failed
  refs,       \* references handed out
  logged,     \* references in the log, with the call or the request they are about
  wire        \* the protocol error

vars == <<display, phase, tool, stage, raised, stoppedBy, given, refs, logged, wire>>

-----------------------------------------------------------------------------
(* _backfill_status_from_code: a mid-stream error often has its status as the code. *)
Backfilled(e) == IF e.status = 0 /\ e.code = "number" THEN e.number ELSE e.status

None == [status |-> 0, code |-> "none", text |-> "none", display |-> "none"]

(* extract_error_details: a body with a field of the wrong type yields nothing at all. *)
Details(e) ==
  IF e.kind \in {"status", "stream", "core", "service"} /\ ~e.odd
    THEN [status |-> Backfilled(e), code |-> e.code, text |-> e.text, display |-> e.display]
    ELSE None

-----------------------------------------------------------------------------
Unresolved == [message |-> "unresolved", retry |-> FALSE]
Final(m) == [message |-> m, retry |-> FALSE]
Transient(m) == [message |-> m, retry |-> TRUE]

Codes == {"filter", "length"}

(* _is_retryable_from_details *)
RetryFromDetails(d) == d.code \notin Codes /\ (d.status \in {409, 429} \/ d.status >= 500)

(* sanitize_display_message may leave nothing of the text. *)
ByDisplay(d) ==
  IF d.display = "text" THEN [message |-> "display", retry |-> RetryFromDetails(d)]
  ELSE Unresolved

(* _resolve_by_code, _resolve_by_message *)
ByCode(d) == IF d.code \in Codes THEN Final(d.code) ELSE Unresolved
ByMessage(d) == IF d.status = 400 /\ d.text = "too long" THEN Final("length") ELSE Unresolved

(* _resolve_ai_model_status *)
ModelStatus(s) ==
  CASE s = 401 -> Final("model auth")
    [] s = 403 -> Final("model permission")
    [] s = 404 -> Final("model not found")
    [] s = 413 -> Final("payload")
    [] s \in {400, 422} -> Final("invalid request")
    [] s = 409 -> Transient("conflict")
    [] s = 429 -> Transient("rate limit")
    [] s >= 500 -> Transient("model internal")
    [] OTHER -> Unresolved

(* _resolve_httpx_status_or_type: every error of a service is resolved. *)
ServiceStatus(s) ==
  CASE s = 401 -> Final("service auth")
    [] s = 403 -> Final("service permission")
    [] s = 404 -> Final("service not found")
    [] s = 429 -> Transient("service rate limit")
    [] s >= 500 -> Transient("service internal")
    [] OTHER -> Final("unexpected")

(* _resolve_status_or_type *)
ByStatusOrType(e, d) ==
  CASE e.kind = "timeout" -> Transient("model timeout")
    [] e.kind = "connection" -> Final("no connectivity")
    [] e.kind \in {"status", "stream", "core"} -> ModelStatus(d.status)
    [] e.kind = "service" -> ServiceStatus(d.status)
    [] e.kind = "service timeout" -> Transient("service timeout")
    [] e.kind = "network" -> Transient("network")
    [] OTHER -> Unresolved

ByStream(e) == IF e.kind = "stream" THEN Transient("stream failure") ELSE Unresolved

(* _resolve_internal and _resolve_tool_error: conditions of the application itself, and the
   text of a tool's own error. *)
ByOrigin(e) ==
  IF e.kind \in {"stop", "iterations", "model missing", "toolset missing",
                 "toolset forbidden", "tool error"}
    THEN Final(e.kind) ELSE Unresolved

(* Faulty variant: the type of the exception is looked at before its body. *)
BugLadder(e, d) ==
  <<ByDisplay(d), ByStatusOrType(e, d), ByStream(e), ByCode(d), ByMessage(d), ByOrigin(e),
    Final("fallback")>>

(* The rules in the order of resolve_exception. *)
Ladder(e, d) ==
  <<ByDisplay(d), ByCode(d), ByMessage(d), ByStatusOrType(e, d), ByStream(e), ByOrigin(e),
    Final("fallback")>>

(* resolve_exception: the first rule that has an answer. *)
Resolved(e) ==
  LET rules == Ladder(e, Details(e))
      first == CHOOSE i \in DOMAIN rules :
                 rules[i] # Unresolved /\ \A j \in 1..(i - 1) : rules[j] = Unresolved
  IN rules[first]

(* _outgoing_status_code *)
Outgoing(s) == IF s \in {400, 401, 403, 404, 413, 422} THEN s ELSE 500

Known(kind) == [kind |-> kind, status |-> 0, code |-> "none", number |-> 0, text |-> "none",
                display |-> "none", odd |-> FALSE]

-----------------------------------------------------------------------------
Init ==
  /\ display \in [error : BOOLEAN, level : {"info", "none"}]
  /\ phase = "setup"
  /\ tool = [c \in Calls |-> "idle"]
  /\ stage = [c \in Calls |-> [text |-> "none", ref |-> 0]]
  /\ raised = Known("none") /\ stoppedBy = NoOne
  /\ given = [c \in Calls |-> 0]
  /\ refs = 0 /\ logged = {}
  /\ wire = [status |-> 0, message |-> "none", advice |-> FALSE, code |-> "none", ref |-> 0]

Raise(e, c) ==
  /\ phase' = "failing"
  /\ raised' = e
  /\ stoppedBy' = c

(* Setting the request up, or its messages, fails: a service, or something in the
   application's configuration. *)
SetupFails ==
  /\ phase = "setup"
  /\ \E e \in {f \in Errors : f.kind \in {"core", "service", "service timeout", "network"}} \cup
             {Known(k) : k \in {"model missing", "toolset missing", "toolset forbidden", "bug"}} :
       Raise(e, NoOne)
  /\ UNCHANGED <<display, tool, stage, given, refs, logged, wire>>

SetUp ==
  /\ phase = "setup"
  /\ phase' = "model"
  /\ UNCHANGED <<display, tool, stage, raised, stoppedBy, given, refs, logged, wire>>

(* The model call fails, before its answer or in the middle of it, or is one too many. *)
ModelFails ==
  /\ phase = "model"
  /\ \E e \in {f \in Errors : f.kind \in {"status", "stream", "timeout", "connection"}} \cup
             {Known("iterations")} :
       Raise(e, NoOne)
  /\ UNCHANGED <<display, tool, stage, given, refs, logged, wire>>

(* The answer has tool calls, which start together. *)
ModelAnswers ==
  /\ phase = "model"
  /\ phase' = "tools"
  /\ tool' = [c \in Calls |-> "running"]
  /\ UNCHANGED <<display, stage, raised, stoppedBy, given, refs, logged, wire>>

(* DeploymentStageWrapper: only a rate limit is explained. *)
StageText(e) ==
  LET d == Details(e) IN
  CASE d.status = 429 /\ d.display = "text" -> "display"
    [] d.status = 429 /\ d.display # "text" -> "rate limit"
    [] OTHER -> "error"

(* _report_error_to_stage: with its text, if that is to be shown, as a timeout always is. *)
Report(c, e) ==
  stage' = IF display.level = "none" THEN stage
           ELSE [stage EXCEPT ![c] =
                  [text |-> IF display.error \/ e.kind = "tool timeout" THEN StageText(e)
                           ELSE "generic",
                   ref |-> refs + 1]]

(* __run_tool_body: a call fails, perhaps after another one has ended the request; the
   model is told, or the stop fallback or the error itself ends the request. *)
ToolFails(c) ==
  /\ tool[c] = "running"
  /\ refs' = refs + 1
  /\ given' = [given EXCEPT ![c] = refs + 1]
  /\ logged' = logged \cup {<<refs + 1, c>>}
  /\ \E e \in Errors \cup {Known("tool error"), Known("tool timeout")} :
       /\ Report(c, e)
       /\ \/ tool' = [tool EXCEPT ![c] = "told"] /\ UNCHANGED <<phase, raised, stoppedBy>>
          \/ /\ tool' = [tool EXCEPT ![c] = "stopped"]
             /\ IF phase = "tools" THEN Raise(Known("stop"), c)
                ELSE UNCHANGED <<phase, raised, stoppedBy>>
          \/ /\ tool' = [tool EXCEPT ![c] = "raised"]
             /\ IF phase = "tools" THEN Raise(e, NoOne)
                ELSE UNCHANGED <<phase, raised, stoppedBy>>
  /\ UNCHANGED <<display, wire>>

ToolReturns(c) ==
  /\ tool[c] = "running"
  /\ tool' = [tool EXCEPT ![c] = "told"]
  /\ UNCHANGED <<display, phase, stage, raised, stoppedBy, given, refs, logged, wire>>

BatchEnds ==
  /\ phase = "tools"
  /\ \A c \in Calls : tool[c] = "told"
  /\ phase' = "completed"
  /\ UNCHANGED <<display, tool, stage, raised, stoppedBy, given, refs, logged, wire>>

(* Faulty variant: every failure of a request gets a reference of its own. *)
BugReference(n) == n + 1

(* _error_reference_for: the reference of the stop, which __process_fallback put there
   whatever the stage may show, or a new one. *)
Reference(n) == IF stoppedBy # NoOne THEN given[stoppedBy] ELSE n + 1

(* __handle_exception *)
Deliver ==
  /\ phase = "failing"
  /\ LET ref == Reference(refs)
         said == Resolved(raised)
     IN /\ logged' = logged \cup {<<ref, "request">>}
        /\ refs' = IF ref > refs THEN ref ELSE refs
        /\ wire' = [status |-> Outgoing(Details(raised).status), message |-> said.message,
                    advice |-> said.retry /\ said.message # "display",
                    code |-> Details(raised).code, ref |-> ref]
  /\ phase' = "failed"
  /\ UNCHANGED <<display, tool, stage, raised, stoppedBy, given>>

Terminated ==
  /\ phase \in {"failed", "completed"}
  /\ \A c \in Calls : tool[c] # "running"
  /\ UNCHANGED vars

Next ==
  \/ SetupFails \/ SetUp \/ ModelFails \/ ModelAnswers
  \/ \E c \in Calls : ToolFails(c) \/ ToolReturns(c)
  \/ BatchEnds \/ Deliver
  \/ Terminated

Spec == Init /\ [][Next]_vars

-----------------------------------------------------------------------------
(* Properties *)

(* A user's reference finds the failure: the one on the wire is logged for the request and
   shown by no other call's stage; when a stop fallback ended the request it is logged as
   the failure of that very call, even if no stage may show it, and a stage that may shows
   this one (_error_reference_for, __process_fallback, _report_error_to_stage). *)
ReferenceFindsFailure ==
  phase = "failed" =>
    /\ <<wire.ref, "request">> \in logged
    /\ \A c \in Calls \ {stoppedBy} : stage[c].ref # wire.ref
    /\ stoppedBy # NoOne =>
         /\ <<wire.ref, stoppedBy>> \in logged
         /\ stage[stoppedBy].ref = (IF display.level = "none" THEN 0 ELSE wire.ref)

(* What is known of an error by itself: sending the same request again may help. *)
MayPass(e) ==
  LET status == IF e.kind = "stream" THEN e.number ELSE e.status IN
  \/ e.kind \in {"timeout", "service timeout", "network"}
  \/ /\ e.kind \in {"status", "core", "service", "stream"}
     /\ e.code \notin Codes
     /\ \/ status >= 500 \/ status = 429
        \/ status = 409 /\ e.kind # "service"
        \/ e.kind = "stream" /\ status \notin {400, 401, 403, 404, 413, 422}

(* The user is advised to try again only when that may help, and always then unless the
   upstream explained itself or its body was malformed (the retryability mechanism of
   docs/designs/error_message_resolution.md, over every combination of fields). *)
AdviceMayHelp ==
  phase = "failed" /\ ~raised.odd =>
    /\ wire.advice => MayPass(raised)
    /\ wire.message # "display" /\ MayPass(raised) => wire.advice

(* The docstring of _is_retryable_from_details: "Follows the same classification as the
   status ladder"; so a display message does not change the class of a failure. *)
ClassIgnoresDisplay ==
  phase = "failing" /\ Details(raised).status # 0 =>
    Resolved(raised).retry = Resolved([raised EXCEPT !.display = "none"]).retry

=============================================================================
