------------------------------ MODULE Threads -------------------------------
(***************************************************************************)
(* What a deployment tool is told of its earlier calls: BaseDeploymentTool *)
(* rebuilds the exchanges of a conversation thread from the request's      *)
(* messages, finding the thread by the id of the call that began it.       *)
(*                                                                         *)
(* A request is planned as the answers of the model, each a sequence of    *)
(* calls; the results of an answer are messages when all its calls ended.  *)
(* An entry stands for a call of the messages and its result.              *)
(***************************************************************************)
EXTENDS ToolTask, SequencesExt

CONSTANT NoSession   \* the call has no session_id argument

(* tool_call_id of the call, or what the model passed. *)
Session(c) ==
  IF Job(c).mode = "resumable" /\ Job(c).session = NoSession THEN c ELSE Job(c).session

(* The model's answer that asks for the call. *)
Answered(c) == CHOOSE i \in DOMAIN script.plan : \E j \in DOMAIN script.plan[i] :
                                                    script.plan[i][j] = c

Before(c) == {d \in Requested : Answered(d) < Answered(c)}

(* An answer the loop goes on after: see ToolTask!Answer. *)
GoesOn(d) == at[d] = "done" /\ answer[d] \in {"ok", "advised", "timed_out"}

(* The next answer of the model comes when all calls of this one have results. *)
Called(c) == c \in Requested /\ \A d \in Before(c) : GoesOn(d)

(* A result of this request always has a custom_content, even if it has no text. *)
Entry(c) == [id |-> c, tool |-> Job(c).name, session |-> Job(c).session, query |-> Job(c).query,
             links |-> Job(c).links, args |-> "ok", result |-> "text"]

(* messages_mixin.messages while the call runs: those of earlier requests and answers. *)
Messages(c) ==
  script.past \o
    FlattenSeq([i \in 1..(Answered(c) - 1) |->
                  [j \in DOMAIN script.plan[i] |-> Entry(script.plan[i][j])]])

(* Faulty variant: only the calls that passed the id are found. *)
BugOfThread(e, tool, session) ==
  e.tool = tool /\ (session = NoSession \/ (e.args = "ok" /\ e.session = session))

(* The call that began the thread, and those that were given its id; arguments that
   are no JSON have no session. *)
OfThread(e, tool, session) ==
  /\ e.tool = tool
  /\ \/ session = NoSession
     \/ e.id = session
     \/ e.args = "ok" /\ e.session = session

(* The n-th of a set of positions, and what a sequence has at some of its positions. *)
Nth(set, n) == CHOOSE k \in set : Cardinality({j \in set : j <= k}) = n

Pick(s, set) == [n \in 1..Cardinality(set) |-> s[Nth(set, n)]]

(* _resolve_history, _extract_tool_history: calls without a result are left out. *)
History(c) ==
  LET said == Messages(c)
  IN IF Job(c).mode = "single" THEN <<>>
     ELSE Pick(said, {i \in DOMAIN said :
                        OfThread(said[i], Job(c).name, Session(c)) /\ said[i].result # "none"})

(* The attachments of the exchanges are resolved again, one exchange after the other,
   then those of the call itself. *)
Batches(c) ==
  LET linked == SelectSeq(History(c), LAMBDA e : e.args = "ok" /\ e.links # {})
  IN [i \in DOMAIN linked |-> linked[i].links] \o <<Job(c).links>>

(* _build_user_message_from_tool_call: nothing without readable arguments, nor for an empty
   query without attachments. *)
Retold(e) == e.args = "ok" /\ (e.query # "" \/ e.links # {})

(* The messages of one exchange: no assistant message for a result without text and
   custom_content. *)
Exchange(e) ==
  (IF Retold(e) THEN <<[role |-> "user", of |-> e.id]>> ELSE <<>>)
    \o (IF e.result = "empty" THEN <<>> ELSE <<[role |-> "assistant", of |-> e.id]>>)

(* The exchanges before the call. *)
Earlier(c) == FlattenSeq([i \in DOMAIN History(c) |-> Exchange(History(c)[i])])

(* __build_request_messages: the call itself is sent even if its query is empty. *)
Dialogue(c) == Earlier(c) \o <<[role |-> "user", of |-> c]>>

=============================================================================
