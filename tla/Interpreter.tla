---------------------------- MODULE Interpreter -----------------------------
(***************************************************************************)
(* The Python interpreter tool: sessions that live at the interpreter      *)
(* service and outlive the request (SessionManager), the files that are    *)
(* put into a session before code runs (_prepare_input_files), and the one *)
(* _PyInterpreterClient of the request, whose HTTP client each call        *)
(* replaces when it enters and closes when it leaves.                      *)
(***************************************************************************)
EXTENDS Promotions

CONSTANTS
  Workspace,    \* urls of files of DIAL Core
  MaxSessions   \* bound: sessions the service opens

ASSUME InterpreterAssumption ==
  /\ MaxSessions \in Nat
  /\ \A s \in Scripts :
       /\ DOMAIN s.calls \subseteq Calls
       /\ s.session \in 0..MaxSessions
       /\ s.stored \subseteq STRING
       /\ \A f \in Urls \cup Workspace : s.name[f] \in STRING
       /\ \A c \in DOMAIN s.calls : s.calls[c].inputs \in Seq(Urls \cup Workspace)

VARIABLES
  session,    \* the session each call works in; 0 is none
  saved,      \* the session id in the StateHolder
  validated,  \* SessionManager.__validated_session_id
  service,    \* the sessions at the service, with the names of their files
  transfer,   \* the transfer tasks of each call
  current,    \* _PyInterpreterClient._client, by the call that made it
  closed,     \* the HTTP clients that are closed
  overlapped, \* history: calls that ran together with another
  stranded    \* history: calls that met a closed client

interpreter ==
  <<session, saved, validated, service, transfer, current, closed, overlapped, stranded>>

Pythons == {c \in Requested : Job(c).tool = "python"}
Attachments == Urls \cup Workspace
Nobody == {}

(* The last segment of a url, unquoted. *)
Name(f) == script.name[f]

InterpreterInit ==
  /\ session = [c \in Calls |-> 0]
  /\ saved = 0 /\ validated = 0
  /\ service = [s \in 1..MaxSessions |->
       [is |-> IF s = script.session THEN "open" ELSE "unused", files |-> script.stored]]
  /\ transfer = [c \in Calls |-> [f \in Attachments |-> "none"]]
  /\ current = Nobody
  /\ closed = {}
  /\ overlapped = {}
  /\ stranded = {}

sessions == <<saved, validated>>
entries == <<current, overlapped>>

(* __aexit__ closes the client that is there now, and the tool's coroutine ends. *)
End(c, outcome) ==
  /\ Settle(c, outcome)
  /\ closed' = closed \cup current

(* _make_post_request on the client that is there: a closed one raises at once. *)
Send(c, place, client) ==
  IF client \subseteq closed
    THEN Settle(c, "error") /\ stranded' = stranded \cup {c} /\ closed' = closed
    ELSE MoveTo(c, place) /\ UNCHANGED <<closed, stranded>>

-----------------------------------------------------------------------------
(* Faulty variant: the client of an earlier call is kept. *)
BugEntered(c) == IF current = Nobody THEN {c} ELSE current

(* __aenter__ replaces the client. *)
Entered(c) == {c}

Working == {d \in Pythons : at[d] \notin {"start", "done"}}

(* get_session_id: that of this request, or of the messages or the default. *)
Known == IF saved # 0 THEN saved ELSE script.session

NextPlace(c) == IF Job(c).inputs = <<>> THEN "execute" ELSE "list"

(* _run_in_stage_async up to its first await; a session this request has validated is not
   asked for again. *)
BeginPython(c) ==
  /\ at[c] = "start"
  /\ Job(c).tool = "python"
  /\ current' = Entered(c)
  /\ overlapped' = IF Working = {} THEN overlapped ELSE overlapped \cup Working \cup {c}
  /\ session' = [session EXCEPT ![c] = Known]
  /\ Send(c, IF Known = 0 THEN "open" ELSE IF Known = validated THEN NextPlace(c) ELSE "check",
          Entered(c))
  /\ UNCHANGED <<script, promotions, sessions, service, transfer>>

BadArguments(c) ==
  /\ at[c] = "start"
  /\ Job(c).tool = "python"
  /\ Settle(c, "error")
  /\ UNCHANGED <<script, promotions, interpreter>>

(* _persist_state, __validated_session_id, and on to the files or to the code. *)
Enter(c, s) ==
  /\ session' = [session EXCEPT ![c] = s]
  /\ saved' = s /\ validated' = s
  /\ Send(c, NextPlace(c), current)

(* An error of _make_post: those of the interpreter are the tool's result. *)
RequestFails(c) ==
  /\ at[c] \in {"check", "open", "list", "execute"}
  /\ \E outcome \in {"ok", "timeout", "error"} : End(c, outcome)
  /\ UNCHANGED <<script, promotions, session, sessions, service, transfer, entries, stranded>>

(* check_session_opened: for a session that is gone, or when there are too
   many, another is opened. *)
SessionChecked(c) ==
  /\ at[c] = "check"
  /\ \/ service[session[c]].is = "open" /\ Enter(c, session[c])
     \/ /\ service[session[c]].is = "gone" \/ script.busy
        /\ Send(c, "open", current)
        /\ UNCHANGED <<session, sessions>>
  /\ UNCHANGED <<script, promotions, service, transfer, entries>>

SessionOpened(c) ==
  /\ at[c] = "open"
  /\ \E s \in 1..MaxSessions :
       /\ service[s].is = "unused"
       /\ service' = [service EXCEPT ![s] = [is |-> "open", files |-> {}]]
       /\ Enter(c, s)
  /\ UNCHANGED <<script, promotions, transfer, entries>>

(* The service closes a session that idles. *)
SessionExpires(s) ==
  /\ service[s].is = "open"
  /\ s \in script.expiring
  /\ service' = [service EXCEPT ![s] = [is |-> "gone", files |-> {}]]
  /\ UNCHANGED <<script, task, promotions, session, sessions, transfer, entries, closed, stranded>>

-----------------------------------------------------------------------------
(* _get_attachment_urls_map *)
AttachedUrls == script.attached

(* _match_attachment *)
Matched(f) == f \in AttachedUrls

(* The inputs that are not in the session yet, by name. *)
Missing(c) == {f \in ToSet(Job(c).inputs) : Name(f) \notin service[session[c]].files}

(* list_files: a task for each that is missing and has an attachment. *)
FilesListed(c) ==
  LET sent == {f \in Missing(c) : Matched(f)} IN
  /\ at[c] = "list"
  /\ service[session[c]].is = "open"
  /\ transfer' = [transfer EXCEPT ![c] =
       [f \in Attachments |-> IF f \in sent THEN "ready"
                              ELSE IF f \in Missing(c) THEN "failed" ELSE "none"]]
  /\ MoveTo(c, "transfer")
  /\ UNCHANGED <<script, promotions, session, sessions, service, entries, closed, stranded>>

(* The url of an attachment is known: the next step of its transfer. *)
Sendable ==
  IF script.other THEN "copy" ELSE IF current \subseteq closed THEN "failed" ELSE "put"

(* _transfer_one up to its first await: a file of DIAL Core is asked for directly. *)
TransferBegins(c, f) ==
  /\ transfer[c][f] = "ready"
  /\ IF f \in Urls
       THEN /\ promo' = [promo EXCEPT ![f] = JoinOrCreate(c, f)]
            /\ link' = [link EXCEPT ![c][f] = Told(promo[f])]
            /\ transfer' = [transfer EXCEPT ![c][f] = "promote"]
       ELSE transfer' = [transfer EXCEPT ![c][f] = Sendable] /\ UNCHANGED <<promo, link>>
  /\ UNCHANGED <<script, task, batch, uploads, broken, session, sessions, service,
                 entries, closed, stranded>>

(* promote returns or raises; a task whose promotion was cancelled is cancelled. *)
TransferPromoted(c, f) ==
  /\ transfer[c][f] = "promote"
  /\ link[c][f] # "waiting"
  /\ c \in promo[f].owner => ~Dropped(promo[f])
  /\ transfer' = [transfer EXCEPT ![c][f] =
       CASE link[c][f] = "cancelled" -> "cancelled"
         [] link[c][f] \in {"invalid", "error"} -> "failed"
         [] link[c][f] = "done" -> Sendable]
  /\ UNCHANGED <<script, task, promotions, session, sessions, service, entries, closed, stranded>>

(* get_attachment_url with an API key of the interpreter's own: the file is downloaded and
   stored in the other DIAL Core; either may fail. *)
TransferCopied(c, f) ==
  /\ transfer[c][f] = "copy"
  /\ transfer' = [transfer EXCEPT ![c][f] = IF current \subseteq closed THEN "failed" ELSE "put"]
       \/ transfer' = [transfer EXCEPT ![c][f] = "failed"]
  /\ UNCHANGED <<script, task, promotions, session, sessions, service, entries, closed, stranded>>

(* The service has put the file, or the request failed. *)
TransferEnds(c, f) ==
  /\ transfer[c][f] = "put"
  /\ \/ /\ service[session[c]].is = "open"
        /\ service' = [service EXCEPT ![session[c]].files = @ \cup {Name(f)}]
        /\ transfer' = [transfer EXCEPT ![c][f] = "in"]
     \/ transfer' = [transfer EXCEPT ![c][f] = "failed"] /\ UNCHANGED service
  /\ UNCHANGED <<script, task, promotions, session, sessions, entries, closed, stranded>>

(* Faulty variant: only the last task's error counts. *)
BugFailed(c, tasks) == transfer[c][tasks[Len(tasks)]] = "failed"

(* errors of _prepare_input_files *)
Failed(c, tasks) == \E i \in DOMAIN tasks : transfer[c][tasks[i]] = "failed"

(* The tasks are awaited in order: a cancelled one ends the call and leaves the later ones
   running; the errors of the others are its result. *)
InputsReady(c) ==
  LET inputs == Job(c).inputs
      Over(i) == transfer[c][inputs[i]] \in {"none", "in", "failed"}
  IN
  /\ at[c] = "transfer"
  /\ \/ /\ \E i \in DOMAIN inputs :
             transfer[c][inputs[i]] = "cancelled" /\ \A j \in 1..(i - 1) : Over(j)
        /\ End(c, "cancelled") /\ UNCHANGED stranded
     \/ /\ \A i \in DOMAIN inputs : Over(i)
        /\ IF Failed(c, inputs) THEN End(c, "ok") /\ UNCHANGED stranded
           ELSE Send(c, "execute", current)
  /\ UNCHANGED <<script, promotions, session, sessions, service, transfer, entries>>

(* execute_code returns; what it displays is uploaded by another client. *)
CodeExecuted(c) ==
  /\ at[c] = "execute"
  /\ service[session[c]].is = "open"
  /\ \E place \in {"done", "publish"} :
       IF place = "done" THEN End(c, "ok") ELSE MoveTo(c, place) /\ UNCHANGED closed
  /\ UNCHANGED <<script, promotions, session, sessions, service, transfer, entries, stranded>>

(* process_display_content *)
DisplayPublished(c) ==
  /\ at[c] = "publish"
  /\ \E outcome \in {"ok", "error"} : End(c, outcome)
  /\ UNCHANGED <<script, promotions, session, sessions, service, transfer, entries, stranded>>

PythonStep(c) ==
  \/ BeginPython(c) \/ BadArguments(c) \/ RequestFails(c) \/ SessionChecked(c)
  \/ SessionOpened(c) \/ FilesListed(c) \/ InputsReady(c) \/ CodeExecuted(c)
  \/ DisplayPublished(c)

TransferStep(c, f) == TransferBegins(c, f) \/ TransferPromoted(c, f) \/ TransferCopied(c, f) \/ TransferEnds(c, f)

InterpreterTypeOK ==
  /\ session \in [Calls -> 0..MaxSessions]
  /\ saved \in 0..MaxSessions /\ validated = saved
  /\ service \in [1..MaxSessions -> [is : {"unused", "open", "gone"}, files : SUBSET STRING]]
  /\ transfer \in [Calls -> [Attachments ->
       {"none", "ready", "promote", "copy", "put", "in", "failed", "cancelled"}]]
  /\ current \in SUBSET Calls /\ closed \subseteq Calls
  /\ overlapped \subseteq Calls /\ stranded \subseteq Calls

=============================================================================
