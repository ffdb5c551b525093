---------------------------- MODULE RemoteTools -----------------------------
(***************************************************************************)
(* The calls of one request that work at other services, over several      *)
(* answers of the model: deployments in conversation threads, the Python   *)
(* interpreter and REST tools.                                             *)
(***************************************************************************)
EXTENDS Interpreter, RestTools

(* The ids of the calls of a request differ, each call is one of an answer, and a name is the
   name of one tool; no call has the id that stands for no session. *)
ASSUME PlanAssumption ==
  /\ NoSession \notin Calls
  /\ \A s \in Scripts :
       /\ s.past \in Seq(ToSet(s.past)) /\ s.plan \in Seq(Seq(DOMAIN s.calls))
       /\ \A c \in DOMAIN s.calls : \E i \in DOMAIN s.plan : c \in ToSet(s.plan[i])
       /\ \A i, k \in DOMAIN s.plan : \A j \in DOMAIN s.plan[i], l \in DOMAIN s.plan[k] :
            s.plan[i][j] = s.plan[k][l] => i = k /\ j = l
       /\ \A c, d \in DOMAIN s.calls :
            s.calls[c].name = s.calls[d].name =>
              s.calls[c].tool = s.calls[d].tool /\ s.calls[c].mode = s.calls[d].mode

vars == <<script, task, promotions, interpreter>>

Init == TaskInit /\ PromotionsInit /\ InterpreterInit

(* A call that has ended, or is of an answer that the request does not come to. *)
Over(c) == at[c] = "absent" \/ at[c] = "done" \/ \E d \in Before(c) : at[d] = "done" /\ ~GoesOn(d)

Terminated ==
  /\ \A c \in Requested : Over(c)
  /\ UNCHANGED vars

Asking(c) == Called(c) /\ AskStep(c) /\ UNCHANGED interpreter

Coding(c) == Called(c) /\ PythonStep(c)

Requesting(c) == Called(c) /\ RestStep(c) /\ UNCHANGED <<script, promotions, interpreter>>

Transferring(c, f) == TransferStep(c, f)

Promoting(x) == PromotionStep(x) /\ UNCHANGED interpreter

Next ==
  \/ \E c \in Calls : Asking(c) \/ Coding(c) \/ Requesting(c)
  \/ \E c \in Calls, f \in Attachments : Transferring(c, f)
  \/ \E x \in Urls : Promoting(x)
  \/ \E s \in 1..MaxSessions : SessionExpires(s)
  \/ Terminated

Spec == Init /\ [][Next]_vars

-----------------------------------------------------------------------------
(* Properties *)

(* Every variable keeps its type (StagedBaseTool.arun, DialFilePromoter, SessionManager). *)
TypeOK == TaskTypeOK /\ PromotionsTypeOK /\ InterpreterTypeOK

InOneThread(c, d) ==
  /\ Job(c).tool = "ask" /\ Job(d).tool = "ask"
  /\ Job(c).mode = "resumable" /\ Job(d).mode = "resumable"
  /\ Job(c).name = Job(d).name
  /\ Session(c) = Session(d)

(* A query that is sent but not retold. *)
Unsaid(c) == Job(c).query = "" /\ Job(c).links = {}

(* A deployment that is called again in a thread is shown what it was shown before, then
   its own answer, and nothing of another thread or tool (_extract_tool_history); only an
   empty query without attachments, which was sent to it, is not shown again, though the
   answer to it is (_build_user_message_from_tool_call).  That is said of an answer with
   one call of the thread, whose id is no other call's. *)
ThreadContinues ==
  \A c, d \in Requested :
    /\ InOneThread(c, d) /\ Answered(d) = Answered(c) + 1
    /\ at[d] \notin {"start", "absent"}
    /\ \A e \in Requested \ {c} : InOneThread(c, e) \/ e = Session(c) => Answered(e) # Answered(c)
    => Dialogue(d) = (IF Unsaid(c) THEN Earlier(c) ELSE Dialogue(c))
                       \o <<[role |-> "assistant", of |-> c], [role |-> "user", of |-> d]>>

(* Code runs only in a session that has every file the call names: a file that is not
   found or not transferred ends the call before (_prepare_input_files). *)
CodeSeesItsInputs ==
  \A c \in Pythons :
    at[c] = "execute" =>
      \/ service[session[c]].is = "gone"
      \/ \A f \in ToSet(Job(c).inputs) : Name(f) \in service[session[c]].files

(* A call that runs alone works with its own HTTP client to its end: it meets a closed one
   only if another call entered or left the shared _PyInterpreterClient meanwhile. *)
AloneKeepsItsClient == stranded \subseteq overlapped

=============================================================================
