------------------------------ MODULE MCPTools ------------------------------
(***************************************************************************)
(* The tools that call an MCP server through the sessions of MCPSessions:  *)
(* _MCPTool, which shares DIAL files with the toolset before the call and  *)
(* publishes the blocks of the answer after it, and _ReadMcpResourceTool,  *)
(* which finds the client of a resource by the name of its toolset.        *)
(*                                                                         *)
(* Only one file argument is modelled, of the model's or fixed by the      *)
(* configuration, with any reference of FileArguments.  A result is the    *)
(* number of attachments in it that are to be uploaded.                    *)
(***************************************************************************)
EXTENDS MCPSessions, FileArguments

CONSTANTS
  Uris,        \* resources of the servers
  Registries,  \* what the toolsets registered when the request was set up
  MaxBlocks    \* attachments in a result

(* A fixed argument stands in the configuration as a url. *)
ASSUME RegistriesAssumption ==
  /\ \A g \in Registries : \A t \in DOMAIN g.fixed : g.fixed[t] \in Urls
  /\ MaxBlocks \in Nat

VARIABLES
  registry,  \* names of toolsets, their resources, clients by name; fixed file
             \* arguments, and the toolsets whose argument is flagged dial_url
  step,      \* where each tool call is, outside of call_mcp_tool
  sent,      \* the file, or the uri, that goes to the server
  granted,   \* files a toolset was given permission to read
  ran,       \* attempts of a call the server carried out
  reply,     \* what the server said last
  again,     \* history: why a call was attempted once more
  blocks,    \* attachments of the result that are still to be uploaded
  outcome    \* what the agent loop is told of the call

grants == <<sent, granted>>
results == <<reply, again, blocks>>
tools == <<registry, step, grants, ran, results, outcome>>

-----------------------------------------------------------------------------
ToolsInit ==
  /\ Init
  /\ registry \in Registries
  /\ step = [c \in Calls |-> "new"]
  /\ sent = [c \in Calls |-> "none"]
  /\ granted = {}
  /\ ran = [c \in Calls |-> {}]
  /\ reply = [c \in Calls |-> "none"]
  /\ again = [c \in Calls |-> "no"]
  /\ blocks = [c \in Calls |-> 0]
  /\ outcome = [c \in Calls |-> "none"]

MoveOn(c, place) == step' = [step EXCEPT ![c] = place] /\ UNCHANGED outcome

End(c, told) ==
  /\ step' = [step EXCEPT ![c] = "ended"]
  /\ outcome' = [outcome EXCEPT ![c] = told]

(* The file argument: a fixed one wins over the model's. *)
Merged(c, given) ==
  IF ToolsetOf[c] \in DOMAIN registry.fixed
    THEN [prefix |-> "plain", url |-> registry.fixed[ToolsetOf[c]]] ELSE given

Flagged(c) == ToolsetOf[c] \in registry.flagged

(* Faulty variant: only the model's arguments are looked at for files to share. *)
BugToShare(c, u) == Flagged(c) /\ ToolsetOf[c] \notin DOMAIN registry.fixed

(* _collect_dial_url_files looks at the values that are sent. *)
ToShare(c, u) == Flagged(c)

(* The value u is to be sent: under a flagged argument it must be a DIAL file, and the
   toolset one of DIAL, which is then granted access to it. *)
Checked(c, u) ==
  /\ sent' = [sent EXCEPT ![c] = u]
  /\ IF ~ToShare(c, u) THEN MoveOn(c, "ready")
     ELSE IF Scheme(u) = "dial" /\ ToolsetOf[c] \in DialToolsets THEN MoveOn(c, "granting")
     ELSE End(c, "invalid")

(* _pre_process_params up to its first await: transform, then the check. *)
Prepare(c) ==
  /\ c \notin Reads
  /\ step[c] = "new" /\ phase = "running"
  /\ \/ ToolsetOf[c] \notin DOMAIN registry.fixed /\ MoveOn(c, "ready") /\ UNCHANGED sent
     \/ \E given \in References :
          LET file == Merged(c, given) IN
          \/ file.prefix \in {"plain", "url"} /\ Checked(c, file.url)
          \/ file.prefix = "unknown" /\ End(c, "invalid") /\ UNCHANGED sent
          \/ file.prefix \in Loading /\ ~Loadable(file.url) /\ End(c, "invalid") /\ UNCHANGED sent
          \/ /\ file.prefix \in Loading /\ Loadable(file.url)
             /\ MoveOn(c, file.prefix) /\ UNCHANGED sent
  /\ UNCHANGED <<vars, registry, granted, ran, results>>

(* The file was loaded and stands in the place of its reference; or it was not, or is no
   text. *)
Transformed(c) ==
  /\ step[c] \in Loading
  /\ \/ \E u \in Inlined(step[c]) : Checked(c, u)
     \/ \E told \in {"invalid", "failed"} : End(c, told) /\ UNCHANGED sent
  /\ UNCHANGED <<vars, registry, granted, ran, results>>

(* grant_permissions_to_files, before the tool timeout begins. *)
Granted(c) ==
  /\ step[c] = "granting"
  /\ \/ MoveOn(c, "ready") /\ granted' = granted \cup {<<sent[c], ToolsetOf[c]>>}
     \/ End(c, "failed") /\ UNCHANGED granted
  /\ UNCHANGED <<vars, registry, sent, ran, results>>

-----------------------------------------------------------------------------

(* Toolsets that expose the uri, by the name asked for, if any. *)
Candidates(uri, wanted) ==
  {t \in Toolsets : uri \in registry.listed[t] /\ wanted \in {"any", registry.name[t]}}

(* The toolset whose client register_client put under that name last. *)
ClientOf(t) == registry.client[registry.name[t]]

(* _ReadMcpResourceTool up to its request: an unknown or ambiguous uri, and a toolset
   without a client, are told to the model. *)
Look(c) ==
  /\ c \in Reads
  /\ step[c] = "new" /\ phase = "running"
  /\ \E uri \in Uris, wanted \in {"any"} \cup DOMAIN registry.client :
       LET found == Candidates(uri, wanted) IN
       \/ /\ found = {} \/ (Cardinality(found) > 1 /\ wanted = "any")
          /\ End(c, "told") /\ UNCHANGED sent
       \/ /\ found # {} /\ (Cardinality(found) = 1 \/ wanted # "any")
          /\ \E t \in found :
               \/ ClientOf(t) = "none" /\ End(c, "told") /\ UNCHANGED sent
               \/ /\ ClientOf(t) = ToolsetOf[c]
                  /\ MoveOn(c, "ready")
                  /\ sent' = [sent EXCEPT ![c] = uri]
  /\ UNCHANGED <<vars, registry, granted, ran, results>>

(* call_mcp_tool or read_mcp_resource begins *)
Call(c) ==
  /\ step[c] = "ready"
  /\ StartCall(c)
  /\ MoveOn(c, "calling")
  /\ UNCHANGED <<registry, grants, ran, results>>

-----------------------------------------------------------------------------
(* The server carries the request out; whether its answer arrives is another matter. *)
ServerRuns(c) ==
  /\ pc[c] = "calling"
  /\ owner[using[c]] = "parked"
  /\ attempt[c] \notin ran[c]
  /\ ran' = [ran EXCEPT ![c] = @ \cup {attempt[c]}]
  /\ UNCHANGED <<vars, registry, step, grants, results, outcome>>

(* Faulty variant: the answer of a refused sign-in is taken for a result. *)
BugReplied(c, said) ==
  reply' = [reply EXCEPT ![c] = IF said = "challenge" THEN "ok" ELSE said]

Replied(c, said) == reply' = [reply EXCEPT ![c] = said]

(* The server answers: a result with its attachments, an error of the tool, an error with a
   sign-in challenge, or an error of the protocol (its timeout, an invalid request). *)
Answered(c) ==
  /\ Answer(c)
  /\ \/ /\ pc'[c] = "done" /\ attempt[c] \in ran[c]
        /\ \E n \in 0..MaxBlocks : blocks' = [blocks EXCEPT ![c] = n]
        /\ Replied(c, "ok")
        /\ MoveOn(c, "publishing")
        /\ UNCHANGED again
     \/ /\ pc'[c] = "done" /\ attempt[c] \in ran[c] /\ c \notin Reads
        /\ Replied(c, "error")
        /\ MoveOn(c, "publishing")
        /\ UNCHANGED <<again, blocks>>
     \/ /\ pc'[c] = "done"
        /\ Replied(c, "none")
        /\ End(c, "failed")
        /\ UNCHANGED <<again, blocks>>
     \/ /\ pc'[c] = "signin" /\ attempt[c] \in ran[c]
        /\ Replied(c, "challenge")
        /\ again' = [again EXCEPT ![c] = "challenge"]
        /\ UNCHANGED <<step, blocks, outcome>>
  /\ UNCHANGED <<registry, grants, ran>>

(* Going on in get_session, or an exception out of it: it ends the call, or leads to the
   sign-in that has the whole call repeated. *)
Raised(c) ==
  /\ TakeLock(c) \/ Opened(c) \/ Interrupted(c) \/ CallBreaks(c)
  /\ IF pc'[c] = "done" THEN End(c, "failed") ELSE UNCHANGED <<step, outcome>>
  /\ again' = IF pc'[c] = "signin" THEN [again EXCEPT ![c] = "cut"] ELSE again
  /\ UNCHANGED <<registry, grants, ran, reply, blocks>>

SignedIn(c) == SigninSucceeds(c) /\ UNCHANGED tools

(* Without a sign-in a 401 is raised, and a challenge is the tool's error. *)
NotSignedIn(c) ==
  /\ SigninFails(c)
  /\ IF again[c] = "challenge" THEN MoveOn(c, "publishing") ELSE End(c, "failed")
  /\ UNCHANGED <<registry, grants, ran, results>>

(* An attachment is uploaded, or stays in the result as it is. *)
Upload(c) ==
  /\ c \notin Reads /\ step[c] = "publishing" /\ reply[c] = "ok" /\ blocks[c] > 0
  /\ blocks' = [blocks EXCEPT ![c] = @ - 1]
  /\ UNCHANGED <<vars, registry, step, grants, ran, reply, again, outcome>>

(* Faulty variant: an answer that asked for a sign-in is neither an error nor a result. *)
BugPublish(c) ==
  /\ c \notin Reads /\ step[c] = "publishing"
  /\ \/ reply[c] = "error" /\ End(c, "refused")
     \/ reply[c] = "ok" /\ blocks[c] > 0 /\ End(c, "failed")
     \/ reply[c] = "ok" /\ blocks[c] = 0 /\ End(c, "result")
  /\ UNCHANGED <<vars, registry, grants, ran, results>>

(* The rest of _run_in_stage_async: isError is raised, and so is a block that cannot become
   an attachment. *)
Publish(c) ==
  /\ c \notin Reads /\ step[c] = "publishing"
  /\ \/ reply[c] # "ok" /\ End(c, "refused")
     \/ reply[c] = "ok" /\ blocks[c] > 0 /\ End(c, "failed")
     \/ reply[c] = "ok" /\ blocks[c] = 0 /\ End(c, "result")
  /\ UNCHANGED <<vars, registry, grants, ran, results>>

(* A read puts the texts of its contents together, with a note for each other content. *)
ReadEnds(c) ==
  /\ c \in Reads /\ step[c] = "publishing"
  /\ End(c, "result")
  /\ UNCHANGED <<vars, registry, grants, ran, results>>

(* translate_timeout covers the call, its sign-in and the uploads. *)
TimedOut(c) ==
  /\ \/ TimeOut(c)
     \/ MayTimeOut /\ c \notin Reads /\ step[c] = "publishing" /\ UNCHANGED vars
  /\ End(c, "failed")
  /\ UNCHANGED <<registry, grants, ran, results>>

-----------------------------------------------------------------------------
ToolStep(c) ==
  \/ Transformed(c) \/ Granted(c) \/ Call(c) \/ ServerRuns(c) \/ Answered(c) \/ Raised(c)
  \/ SignedIn(c) \/ NotSignedIn(c) \/ Upload(c) \/ Publish(c)
  \/ ReadEnds(c)

SessionStep ==
  /\ \/ \E h \in Handles : OwnerStep(h) \/ OwnerFails(h)
     \/ BeginClose /\ \A c \in Calls : step[c] \in {"new", "ended"}
     \/ EndClose
  /\ UNCHANGED tools

Over == Terminated /\ UNCHANGED tools

ToolsNext ==
  \/ \E c \in Calls : Prepare(c) \/ Look(c) \/ ToolStep(c) \/ TimedOut(c)
  \/ SessionStep
  \/ Over

ToolsSpec == ToolsInit /\ [][ToolsNext]_<<vars, tools>>

(* As in MCPSessions; sharing a file and uploading one end by their client's timeouts. *)
FairTools ==
  /\ ToolsSpec
  /\ \A c \in Calls : WF_<<vars, tools>>(ToolStep(c))
  /\ \A h \in Handles : WF_<<vars, tools>>(OwnerStep(h) /\ UNCHANGED tools)

-----------------------------------------------------------------------------
(* Properties *)

(* Every variable of the tools holds a value the program can give it. *)
ToolsTypeOK ==
  /\ registry \in Registries
  /\ step \in [Calls -> {"new", "granting", "ready", "calling", "publishing", "ended"} \cup Loading]
  /\ sent \in [Calls -> {"none"} \cup Urls \cup Uris]
  /\ granted \subseteq Urls \X Toolsets
  /\ \A c \in Calls : ran[c] \subseteq 1..attempt[c]
  /\ reply \in [Calls -> {"none", "ok", "error", "challenge"}]
  /\ again \in [Calls -> {"no", "cut", "challenge"}]
  /\ blocks \in [Calls -> 0..MaxBlocks]
  /\ outcome \in [Calls -> {"none", "invalid", "failed", "told", "refused", "result"}]

(* A server carries a call out a second time only when its session ended with a 401, or it
   asked for a sign-in, before the answer: no other failure, and no failure of another
   call that shares the session, has a tool run twice (__call_tool_with_signin). *)
RunsOnceUnlessSignedIn ==
  \A c \in Calls :
    Cardinality(ran[c]) > 1 =>
      /\ again[c] # "no" /\ c \notin Reads
      /\ again[c] = "cut" =>
           /\ ToolsetOf[c] \in DialToolsets
           /\ \E h \in Handles : Key(h) = ToolsetOf[c] /\ error[h] = "unauthorized"

(* What reaches the server under an argument flagged dial_url is a DIAL file the toolset was
   given access to, whoever gave the argument and whatever was loaded in its place
   (_pre_process_params, _collect_dial_url_files, _FileArgumentTransformer). *)
SharedBeforeRun ==
  \A c \in Calls \ Reads :
    ran[c] # {} /\ Flagged(c) /\ sent[c] # "none" =>
      Scheme(sent[c]) = "dial" /\ <<sent[c], ToolsetOf[c]>> \in granted

(* The agent loop is told the result of the attempt that counts, and an answer that asked
   for a sign-in is never taken for a result (_run_in_stage_async). *)
ResultIsOfLastRun ==
  \A c \in Calls :
    /\ outcome[c] = "result" => attempt[c] \in ran[c] /\ reply[c] = "ok"
    /\ reply[c] = "challenge" => outcome[c] # "result"
    /\ outcome[c] = "result" /\ again[c] # "no" => attempt[c] = 2

(* Every tool call that began ends, without any tool timeout, while the request runs. *)
ToolCallsEnd ==
  \A c \in Calls : step[c] # "new" ~> step[c] = "ended" \/ phase # "running"

=============================================================================
