---------------------------- MODULE ToolsetSetup ----------------------------
(***************************************************************************)
(* The completion initializers that give a request its tools, in the order *)
(* invoke_initializers runs them: _DialAppResolver, the orchestrator's own *)
(* deployment, _DeploymentToolInitializer and _MCPToolInitializer with     *)
(* interactive login.  A toolset that fails is recorded as an issue and    *)
(* the request goes on without it.  Before them the configuration is       *)
(* resolved against the predefined templates.                              *)
(*                                                                         *)
(* A tool is the rank of its name in the order of names; allowed_tools is  *)
(* applied already.  Toolsets are configured in some order, which the      *)
(* model leaves open where they are processed one by one.                  *)
(***************************************************************************)
EXTENDS Templates, Naturals, FiniteSets

CONSTANTS
  Toolsets,     \* names of toolsets
  Deployments,  \* DIAL deployments behind dial-app toolsets
  Scripts,      \* what a request may be configured with
  MaxPages      \* MAX_ITERATIONS of a listing

(* Tools are hidden by MCP toolsets only, and access is asked for what DIAL hosts. *)
IsToolset(set) ==
  /\ {"kind", "tools", "single", "hidden", "barred"} \subseteq DOMAIN set
  /\ set.tools \cup {set.single} \subseteq Nat \ {0} /\ IsFiniteSet(set.tools)
  /\ set.kind = "deployment" => set.hidden = {}
  /\ set.kind = "mcp" => set.barred = {}

(* No template is missing that the configuration needs. *)
Resolvable(config) ==
  \A file \in Needed(config.settings, config) : IsThere(config.settings, file)

ASSUME ScriptsAssumption ==
  \A s \in Scripts :
    /\ {"asked", "settings", "toolsets"} \subseteq DOMAIN s
    /\ DOMAIN s.toolsets = {} /\ DOMAIN s.asked \subseteq Toolsets
    /\ CanStart(s.settings) /\ Resolvable(s) =>
         LET sets == ResolvedToolsets(s.settings, s)
         IN \A t \in DOMAIN sets : IsToolset(sets[t])

VARIABLES
  script,   \* the configuration of this request, its references resolved in time
  phase,    \* the initializer that runs, or what came of the request
  filter,   \* ToolAccessFilter: off, not asked yet, failed open, or the ids are known
  at,       \* where the initialization of each toolset is
  page,     \* pages of the listing that were read
  memo,     \* _DialAppResolver: what a deployment advertises
  known,    \* DialToolsetCacheService: toolsets whose info was fetched
  todo,     \* tools of a deployment toolset that are still to be built
  got,      \* visible tools of each toolset in the tooling contexts
  times,    \* how often a toolset's tools were appended there
  hidden,   \* model-hidden tools in the context
  deferred, \* names in the DeferredToolsAccumulators
  listed,   \* toolsets whose resources were listed
  reading,  \* toolsets with a client for resource reads
  issues    \* toolsets with an exception to show, and "effort"

setup == <<phase, filter, at, page, memo, known, todo, got, times, hidden, deferred, listed, reading,
           issues>>
tooling == <<got, times, hidden, deferred>>
resources == <<listed, reading>>

-----------------------------------------------------------------------------
Configured == DOMAIN script.toolsets

(* An enabled toolset: its kind, tools and settings. *)
Set(t) == script.toolsets[t]

OfKind(k) == {t \in Configured : Set(t).kind = k}

SetupInit ==
  /\ script \in Scripts
  /\ phase = "start"
  /\ filter = IF script.filtered THEN "idle" ELSE "off"
  /\ at = [t \in Toolsets |-> "absent"]
  /\ page = [t \in Toolsets |-> 0]
  /\ memo = [d \in Deployments |-> "unknown"]
  /\ known = {}
  /\ todo = [t \in Toolsets |-> {}]
  /\ got = [t \in Toolsets |-> {}]
  /\ times = [t \in Toolsets |-> 0]
  /\ hidden = {} /\ deferred = {} /\ listed = {} /\ reading = {} /\ issues = {}

MoveTo(t, place) == at' = [at EXCEPT ![t] = place]

(* append_exception *)
Issue(t) == issues' = issues \cup {t}

-----------------------------------------------------------------------------
(* PredefinedContentProvider, when the application starts. *)
Started ==
  /\ phase = "start"
  /\ phase' = IF CanStart(script.settings) THEN "config" ELSE "down"
  /\ UNCHANGED <<script, filter, at, page, memo, known, todo, tooling, resources, issues>>

(* resolve_config: what is refused is recorded, and the request goes on without it. *)
ConfigResolved ==
  /\ phase = "config"
  /\ Resolvable(script)
  /\ script' = [script EXCEPT !.toolsets = ResolvedToolsets(script.settings, script)]
  /\ at' = [t \in Toolsets |-> IF t \in DOMAIN script'.toolsets THEN "waiting" ELSE "absent"]
  /\ issues' = {t \in DOMAIN script.asked :
                  \/ IsRefused(script.settings, script.asked[t])
                  \/ BringsRefused(script.settings, script.asked[t])}
  /\ phase' = "apps"
  /\ UNCHANGED <<filter, page, memo, known, todo, tooling, resources>>

(* A template that is not there ends the request. *)
TemplateMissing ==
  /\ phase = "config"
  /\ ~Resolvable(script)
  /\ phase' = "failed"
  /\ UNCHANGED <<script, filter, at, page, memo, known, todo, tooling, resources, issues>>

-----------------------------------------------------------------------------
(* ToolAccessFilter: asked once, by whoever needs it first; it fails open. *)

Asked ==
  \/ phase = "apps" /\ \E t \in OfKind("app") : at[t] = "waiting"
  \/ phase = "deployments" /\ \E t \in OfKind("deployment") : todo[t] # {}
  \/ phase = "mcp" /\ \E t \in OfKind("dial") : at[t] = "waiting"

FilterAnswers ==
  /\ filter = "idle"
  /\ Asked
  /\ filter' \in {"open", "known"}
  /\ UNCHANGED <<script, phase, at, page, memo, known, todo, tooling, resources, issues>>

FilterReady == filter # "idle"

(* The tools of t that the user may call. *)
Accessible(t) == Set(t).tools \ (IF filter = "known" THEN Set(t).barred ELSE {})

Barred(t) == filter = "known" /\ Set(t).barred # {}

-----------------------------------------------------------------------------
(* _DialAppResolver *)

Busy == {"metadata", "config"}

SameGroup(t) == {u \in OfKind("app") : Set(u).deployment = Set(t).deployment}

(* The branch that features.mcp and the transport lead to. *)
Route(t, advertises) ==
  \/ advertises = "mcp" /\ MoveTo(t, "routed") /\ UNCHANGED issues
  \/ advertises = "plain" /\ Set(t).transport = "mcp" /\ MoveTo(t, "done") /\ Issue(t)
  \/ advertises = "plain" /\ Set(t).transport # "mcp" /\ MoveTo(t, "config") /\ UNCHANGED issues

(* _resolve_one up to its request; toolsets of one deployment come one after the other. *)
BeginApp(t) ==
  /\ phase = "apps"
  /\ t \in OfKind("app")
  /\ at[t] = "waiting"
  /\ FilterReady
  /\ \A u \in SameGroup(t) : at[u] \notin Busy
  /\ \/ Barred(t) /\ MoveTo(t, "skipped") /\ UNCHANGED issues
     \/ ~Barred(t) /\ Set(t).transport = "chat" /\ MoveTo(t, "config") /\ UNCHANGED issues
     \/ ~Barred(t) /\ Set(t).transport # "chat" /\
          IF memo[Set(t).deployment] = "unknown"
            THEN MoveTo(t, "metadata") /\ UNCHANGED issues
            ELSE Route(t, memo[Set(t).deployment])
  /\ UNCHANGED <<script, phase, filter, page, memo, known, todo, tooling, resources>>

(* _is_mcp_advertised; a failure is not remembered. *)
MetadataArrives(t) ==
  /\ at[t] = "metadata"
  /\ \/ \E advertises \in {"mcp", "plain"} :
          /\ memo' = [memo EXCEPT ![Set(t).deployment] = advertises]
          /\ Route(t, advertises)
     \/ MoveTo(t, "done") /\ Issue(t) /\ UNCHANGED memo
  /\ UNCHANGED <<script, phase, filter, page, known, todo, tooling, resources>>

(* _handle_chat_completion_branch: one synthesized deployment tool. *)
ConfigArrives(t) ==
  /\ at[t] = "config"
  /\ \/ MoveTo(t, "built") /\ UNCHANGED issues
     \/ MoveTo(t, "done") /\ Issue(t)
  /\ UNCHANGED <<script, phase, filter, page, memo, known, todo, tooling, resources>>

AppsResolved ==
  /\ phase = "apps"
  /\ \A t \in OfKind("app") : at[t] \notin Busy \cup {"waiting"}
  /\ phase' = "model"
  /\ UNCHANGED <<script, filter, at, page, memo, known, todo, tooling, resources, issues>>

(* supports_reasoning_effort: a deployment that advertises no values takes none. *)
EffortDropped == script.effort # Unset /\ script.effort \notin script.model.efforts

(* _OrchestratorDeploymentInitializer: without its model the request fails; a reasoning
   effort that the model does not take is an issue. *)
ModelKnown ==
  /\ phase = "model"
  /\ \/ /\ phase' = "deployments"
        /\ todo' = [t \in Toolsets |-> IF t \in OfKind("deployment") THEN Set(t).tools ELSE {}]
        /\ issues' = issues \cup (IF EffortDropped THEN {"effort"} ELSE {})
     \/ phase' = "failed" /\ UNCHANGED <<todo, issues>>
  /\ UNCHANGED <<script, filter, at, page, memo, known, tooling, resources>>

-----------------------------------------------------------------------------
(* is_toolset_deferred; the MCP toolset of a dial-app toolset does not take over its
   deferred setting. *)
Deferred(t, tools) ==
  /\ script.discovery
  /\ Set(t).keep => Set(t).kind = "app"
  /\ Cardinality(tools) >= script.least

(* register_deferred_tools and extend_tools *)
Register(t, tools) ==
  /\ got' = [got EXCEPT ![t] = tools]
  /\ times' = [times EXCEPT ![t] = @ + 1]
  /\ deferred' = IF Deferred(t, tools) THEN deferred \cup tools ELSE deferred

(* __build_toolset_tools, a tool at a time: a tool the user cannot access is left out, and
   so is a simple tool whose configuration cannot be fetched. *)
BuildTool(t, n) ==
  /\ phase = "deployments"
  /\ n \in todo[t]
  /\ FilterReady
  /\ \A u \in OfKind("deployment") \ {t} : at[u] # "building"
  /\ todo' = [todo EXCEPT ![t] = @ \ {n}]
  /\ \/ n \in Accessible(t) /\ got' = [got EXCEPT ![t] = @ \cup {n}] /\ UNCHANGED issues
     \/ n \notin Accessible(t) /\ UNCHANGED <<got, issues>>
     \/ n \in Accessible(t) \cap Set(t).simple /\ Issue(t) /\ UNCHANGED got
  /\ MoveTo(t, "building")
  /\ UNCHANGED <<script, phase, filter, page, memo, known, times, hidden, deferred, resources>>

ToolsetBuilt(t) ==
  /\ phase = "deployments"
  /\ t \in OfKind("deployment")
  /\ at[t] \in {"waiting", "building"}
  /\ todo[t] = {}
  /\ \A u \in OfKind("deployment") \ {t} : at[u] # "building"
  /\ Register(t, got[t])
  /\ MoveTo(t, "done")
  /\ UNCHANGED <<script, phase, filter, page, memo, known, todo, hidden, resources, issues>>

(* The tools synthesized from dial-app toolsets come last and are never deferred. *)
DeploymentsBuilt ==
  /\ phase = "deployments"
  /\ \A t \in OfKind("deployment") : at[t] = "done"
  /\ got' = [t \in Toolsets |-> IF at[t] = "built" THEN {Set(t).single} ELSE got[t]]
  /\ times' = [t \in Toolsets |-> IF at[t] = "built" THEN 1 ELSE times[t]]
  /\ at' = [t \in Toolsets |-> IF at[t] = "built" THEN "done" ELSE at[t]]
  /\ phase' = "mcp"
  /\ UNCHANGED <<script, filter, page, memo, known, todo, hidden, deferred, resources, issues>>

-----------------------------------------------------------------------------
(* _MCPToolInitializer *)

McpToolsets == {t \in Configured : Set(t).kind \in {"mcp", "dial"} \/ at[t] = "routed"}

(* _process_toolset up to its first request *)
Begin(t) == IF Set(t).kind = "dial" /\ t \notin known THEN "info" ELSE "connect"

(* initialize: toolsets the user cannot access are left out, the others start together. *)
McpBegins ==
  /\ phase = "mcp"
  /\ OfKind("dial") # {} => FilterReady
  /\ phase' = "connecting"
  /\ at' = [t \in Toolsets |->
       IF t \notin McpToolsets THEN at[t]
       ELSE IF Set(t).kind = "dial" /\ Barred(t) THEN "skipped"
       ELSE Begin(t)]
  /\ UNCHANGED <<script, filter, page, memo, known, todo, tooling, resources, issues>>

(* get_basic_toolset_config: its result is cached, unless it is None. *)
InfoArrives(t) ==
  /\ at[t] = "info"
  /\ \/ MoveTo(t, "connect") /\ known' = known \cup {t} /\ UNCHANGED issues
     \/ MoveTo(t, "done") /\ Issue(t) /\ UNCHANGED known
  /\ UNCHANGED <<script, phase, filter, page, memo, todo, tooling, resources>>

AfterTools(t) ==
  IF Set(t).resources # "none" /\ "resources" \in Set(t).serves THEN "resources" ELSE "close"

Connected(t) ==
  /\ at[t] = "connect"
  /\ MoveTo(t, IF "tools" \in Set(t).serves THEN "tools" ELSE AfterTools(t))
  /\ UNCHANGED <<script, phase, filter, page, memo, known, todo, tooling, resources, issues>>

Visible(t) == Set(t).tools \ Set(t).hidden

(* _build_tool, _strip_fixed_arguments: a tool whose fixed arguments its schema does not
   know is an issue, and is offered all the same. *)
Built(t) ==
  IF Set(t).stray \cap Set(t).tools # {} THEN Issue(t) ELSE UNCHANGED issues

(* get_tools_list and get_resources_list read page after page; a server that never ends
   its list is given up, and nothing of the list is kept. *)
NextPage(t) ==
  /\ at[t] \in {"tools", "resources"}
  /\ page[t] + 1 < Set(t).pages
  /\ IF page[t] < MaxPages
       THEN page' = [page EXCEPT ![t] = @ + 1] /\ UNCHANGED <<at, issues>>
       ELSE /\ page' = [page EXCEPT ![t] = 0]
            /\ Issue(t)
            /\ MoveTo(t, IF at[t] = "tools" THEN AfterTools(t) ELSE "close")
  /\ UNCHANGED <<script, phase, filter, memo, known, todo, tooling, resources>>

LastPage(t) ==
  /\ page[t] + 1 >= Set(t).pages
  /\ page' = [page EXCEPT ![t] = 0]

(* Faulty variant: hidden tools are deferred with the others. *)
BugToolsListed(t) ==
  /\ at[t] = "tools"
  /\ LastPage(t)
  /\ Register(t, Set(t).tools)
  /\ hidden' = hidden \cup (Set(t).tools \cap Set(t).hidden)
  /\ Built(t)
  /\ MoveTo(t, AfterTools(t))
  /\ UNCHANGED <<script, phase, filter, memo, known, todo, resources>>

(* _load_tools: hidden tools go to the hooks; the others are deferred or not. *)
ToolsListed(t) ==
  /\ at[t] = "tools"
  /\ LastPage(t)
  /\ hidden' = hidden \cup (Set(t).tools \cap Set(t).hidden)
  /\ IF Visible(t) # {} THEN Register(t, Visible(t)) ELSE UNCHANGED <<got, times, deferred>>
  /\ Built(t)
  /\ MoveTo(t, AfterTools(t))
  /\ UNCHANGED <<script, phase, filter, memo, known, todo, resources>>

ResourcesListed(t) ==
  /\ at[t] = "resources"
  /\ LastPage(t)
  /\ listed' = listed \cup {t}
  /\ MoveTo(t, IF Set(t).resources = "eager" THEN "eager" ELSE "close")
  /\ UNCHANGED <<script, phase, filter, memo, known, todo, tooling, reading, issues>>

EagerRead(t) ==
  /\ at[t] = "eager"
  /\ MoveTo(t, "close")
  /\ UNCHANGED <<script, phase, filter, page, memo, known, todo, tooling, resources, issues>>

(* The server answers a request with an error: tools, the list of resources and each eager
   resource have an error scope of their own. *)
RequestRefused(t) ==
  /\ at[t] \in {"tools", "resources", "eager"}
  /\ Issue(t)
  /\ MoveTo(t, IF at[t] = "tools" THEN AfterTools(t) ELSE "close")
  /\ page' = [page EXCEPT ![t] = 0]
  /\ UNCHANGED <<script, phase, filter, memo, known, todo, tooling, resources>>

(* The session was closed: register_client. *)
SessionClosed(t) ==
  /\ at[t] = "close"
  /\ reading' = reading \cup {t}
  /\ MoveTo(t, "done")
  /\ UNCHANGED <<script, phase, filter, page, memo, known, todo, tooling, listed, issues>>

(* The transport fails, at whatever the session was doing: a 401 is raised to the
   initializer, or after a sign-in is an issue like every other failure. *)
TransportFails(t) ==
  /\ at[t] \in {"connect", "tools", "resources", "eager", "close"}
  /\ \/ MoveTo(t, "done") /\ Issue(t)
     \/ phase = "connecting" /\ MoveTo(t, "unauthorized") /\ UNCHANGED issues
  /\ page' = [page EXCEPT ![t] = 0]
  /\ UNCHANGED <<script, phase, filter, memo, known, todo, tooling, resources>>

Unauthorized == {t \in Toolsets : at[t] = "unauthorized"}

(* Faulty variant: a 401 of a toolset without a sign-in is dropped. *)
BugRefused(ts) == {}

(* _classify_initialization_results: only DIAL toolsets can sign in. *)
Refused(ts) == {t \in ts : Set(t).kind # "dial"}

(* gather *)
AllSettled ==
  \A t \in Configured : at[t] \in {"done", "skipped", "unauthorized"}

ResultsClassified ==
  /\ phase = "connecting"
  /\ AllSettled
  /\ LET signIn == {t \in Unauthorized : Set(t).kind = "dial"} IN
     /\ phase' = IF signIn = {} THEN "ready" ELSE "login"
     /\ at' = [t \in Toolsets |-> IF t \in Unauthorized \ signIn THEN "done" ELSE at[t]]
  /\ issues' = issues \cup Refused(Unauthorized)
  /\ UNCHANGED <<script, filter, page, memo, known, todo, tooling, resources>>

(* request_signin_batch: what the channel answers for toolsets ts, entry by entry; without a
   channel, at the timeout and after an error it is nothing. *)
SignInAnswers(ts) ==
  IF script.channel
    THEN BoundedSeq(ts \X {"success", "denied", "error"}, Cardinality(ts) + 1)
    ELSE {<<>>}

(* _parse_batch_response: the last entry of a toolset counts, and who has none failed. *)
Admitted(answer) ==
  {t \in Toolsets : \E i \in DOMAIN answer :
     /\ answer[i] = <<t, "success">>
     /\ \A j \in (i + 1)..Len(answer) : answer[j][1] # t}

(* _interactive_login_and_retry: who was signed in tries again, together. *)
SignedIn ==
  /\ phase = "login"
  /\ \E answer \in SignInAnswers(Unauthorized) :
       LET success == Admitted(answer) IN
         /\ at' = [t \in Toolsets |->
              IF t \in success THEN Begin(t) ELSE IF t \in Unauthorized THEN "done" ELSE at[t]]
         /\ issues' = issues \cup (Unauthorized \ success)
         /\ phase' = IF success = {} THEN "ready" ELSE "retry"
  /\ UNCHANGED <<script, filter, page, memo, known, todo, tooling, resources>>

RetryEnds ==
  /\ phase = "retry"
  /\ AllSettled
  /\ phase' = "ready"
  /\ UNCHANGED <<script, filter, at, page, memo, known, todo, tooling, resources, issues>>

-----------------------------------------------------------------------------
ToolsetStep(t) ==
  \/ BeginApp(t) \/ MetadataArrives(t) \/ ConfigArrives(t)
  \/ \E n \in todo[t] : BuildTool(t, n)
  \/ ToolsetBuilt(t)
  \/ InfoArrives(t) \/ Connected(t) \/ NextPage(t) \/ ToolsListed(t) \/ ResourcesListed(t) \/ EagerRead(t)
  \/ RequestRefused(t) \/ SessionClosed(t) \/ TransportFails(t)

InitializerStep ==
  \/ Started \/ ConfigResolved \/ TemplateMissing
  \/ FilterAnswers \/ AppsResolved \/ ModelKnown \/ DeploymentsBuilt
  \/ McpBegins \/ ResultsClassified \/ SignedIn \/ RetryEnds

=============================================================================
