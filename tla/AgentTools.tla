----------------------------- MODULE AgentTools -----------------------------
(***************************************************************************)
(* What the model is offered: the tools block that                         *)
(* _ChatCompletionConfigBuilder builds for each model call, from the       *)
(* toolsets of ToolsetSetup, the application's and the client's own tools, *)
(* the static tools of the model, and the deferred tools that searches of  *)
(* the turn have discovered.  The static tool whose name has rank n is -n. *)
(***************************************************************************)
EXTENDS ToolsetSetup, SequencesExt

CONSTANTS
  Searches,   \* tool_search calls of one batch
  MaxCalls,   \* bound on model calls
  Invented,   \* a tool name that is in no catalog
  MaxFound    \* names in the answer of a routing call

(* Toolsets are finite in number, and so are the tools and the static tools of a request; a
   tool is a rank. *)
ASSUME OfferAssumption ==
  /\ IsFiniteSet(Toolsets) /\ MaxFound \in Nat
  /\ \A s \in Scripts :
       /\ {"model", "clients", "search", "discovery"} \subseteq DOMAIN s
       /\ s.model.defaults \in Seq([type : STRING, name : {Invalid} \cup (Nat \ {0})])
       /\ s.clients \subseteq Nat \ {0} /\ IsFiniteSet(s.clients)
       /\ s.search \in Nat \ {0}

VARIABLES
  block,      \* the tools of the last request to the model
  calls,      \* model calls so far
  cached,     \* the part of it that the model is asked to cache
  lazy,       \* LazyLoadedToolsHolder, in order
  search      \* the tool_search calls of the running batch

offer == <<block, calls, cached, lazy, search>>
vars == <<script, setup, offer>>

Init ==
  /\ SetupInit
  /\ block = <<>> /\ calls = 0 /\ cached = <<>> /\ lazy = <<>>
  /\ search = [s \in Searches |-> "idle"]

-----------------------------------------------------------------------------
Loaded == UNION {got[t] : t \in Toolsets}

(* The n-th of a set of positions, and what a sequence has at some of its positions. *)
Nth(set, n) == CHOOSE k \in set : Cardinality({j \in set : j <= k}) = n

Pick(s, set) == [n \in 1..Cardinality(set) |-> s[Nth(set, n)]]

(* parse_static_tools_from_info: entries of another type or without a name are skipped. *)
StaticTools ==
  LET defaults == script.model.defaults
      valid == Pick(defaults, {i \in DOMAIN defaults :
                                 defaults[i].type = "static_function" /\ defaults[i].name # Invalid})
  IN [i \in DOMAIN valid |-> -valid[i].name]

(* tool_search, if discovery is enabled. *)
Internal == IF script.discovery THEN {script.search} ELSE {}

(* provide_openai_tools: how often a tool is among those offered from the start. *)
Eager(n) ==
  LET holders == {t \in Toolsets : n \in got[t] /\ n \notin deferred}
      Twice == {t \in holders : times[t] > 1}
  IN Cardinality(holders) + Cardinality(Twice) + (IF n \in script.clients \cup Internal THEN 1 ELSE 0)

Names ==
  (UNION {Set(t).tools \cup {Set(t).single} : t \in Configured}) \cup script.clients \cup Internal

EagerNames == {n \in Names : Eager(n) > 0}

(* The offers from the start: a name with the number of the offer. *)
Offers == UNION {{n} \X (1..Eager(n)) : n \in EagerNames}

(* Tools are compared by their names; which of two with one name comes first is the same. *)
UpTo(p) == {q \in Offers : q[1] < p[1] \/ (q[1] = p[1] /\ q[2] <= p[2])}

(* sorted(self.__tools): a static tool has no name to sort by. *)
SortedEager ==
  StaticTools \o
    [k \in 1..Cardinality(Offers) |-> (CHOOSE p \in Offers : Cardinality(UpTo(p)) = k)[1]]

(* _merge_tools *)
Merged == SortedEager \o Pick(lazy, {i \in DOMAIN lazy : lazy[i] \notin EagerNames})

(* provide_extra_openai_tools: a client's tool may not have the name of a server's. *)
Conflict ==
  script.clients \cap (Loaded \cup hidden \cup Internal \cup {-n : n \in ToSet(StaticTools)}) # {}

StartServing ==
  /\ phase = "ready"
  /\ phase' = IF Conflict THEN "failed" ELSE "serving"
  /\ UNCHANGED <<script, filter, at, page, memo, known, todo, tooling, resources, issues,
                 offer>>

(* _last_function_tool: no static tool is marked. *)
Marked(tools) == SelectLastInSeq(tools, LAMBDA n : n > 0)

(* _place_cache_breakpoints: what ends with the marked tool is cached. *)
ToCache(tools) == IF script.model.caches THEN SubSeq(tools, 1, Marked(tools)) ELSE <<>>

(* _apply_tool_choice: the first call cannot enforce a tool when none is offered. *)
Unenforceable == calls = 0 /\ script.choice = "required" /\ SortedEager = <<>>

ChoiceRefused ==
  /\ phase = "serving"
  /\ Unenforceable
  /\ phase' = "failed"
  /\ UNCHANGED <<script, filter, at, page, memo, known, todo, tooling, resources, issues,
                 offer>>

(* The model is called; of its answer only the searches matter here. *)
CallModel ==
  /\ phase = "serving"
  /\ calls < MaxCalls
  /\ ~Unenforceable
  /\ \A s \in Searches : search[s] = "idle"
  /\ block' = Merged
  /\ cached' = ToCache(block')
  /\ calls' = calls + 1
  /\ search' \in [Searches -> {"idle", "asking"}]
  /\ script.discovery \/ search' = search
  /\ UNCHANGED <<script, setup, lazy>>

(* _AnonymousAgent.route: what the routing model answers, names of the catalog and perhaps
   invented or repeated ones; nothing when the call fails or the answer is no list. *)
Routed == IF deferred = {} THEN {<<>>} ELSE SeqOf(deferred \cup {Invented}, MaxFound)

(* Names without a definition are skipped. *)
Discovered(names) == Pick(names, {i \in DOMAIN names : names[i] \in deferred})

(* Faulty variant: a tool that is found again moves to the end. *)
BugWithFound(s, found) == Pick(s, {i \in DOMAIN s : s[i] \notin ToSet(found)}) \o found

(* LazyLoadedToolsHolder.add: a dict keeps the place of a key it has. *)
WithFound(s, found) ==
  s \o Pick(found, {i \in DOMAIN found :
                      found[i] \notin ToSet(s) /\ \A j \in 1..(i - 1) : found[j] # found[i]})

(* _ToolSearchTool *)
SearchAnswers(s) ==
  /\ search[s] = "asking"
  /\ \E names \in Routed : lazy' = WithFound(lazy, Discovered(names))
  /\ search' = [search EXCEPT ![s] = "idle"]
  /\ UNCHANGED <<script, setup, block, cached, calls>>

Terminated ==
  /\ \/ phase \in {"failed", "down"}
     \/ phase = "serving" /\ calls = MaxCalls /\ \A s \in Searches : search[s] = "idle"
  /\ UNCHANGED vars

Next ==
  \/ \E t \in Configured : ToolsetStep(t) /\ UNCHANGED offer
  \/ InitializerStep /\ UNCHANGED offer
  \/ StartServing
  \/ ChoiceRefused \/ CallModel
  \/ \E s \in Searches : SearchAnswers(s)
  \/ Terminated

Spec == Init /\ [][Next]_vars

-----------------------------------------------------------------------------
(* Properties *)

Phases == {"start", "down", "config", "apps", "model", "deployments", "mcp", "connecting", "login", "retry", "ready",
           "serving", "failed"}

(* Every variable keeps its type; nobody waits for an initializer that has run
   (invoke_initializers). *)
TypeOK ==
  /\ phase \in Phases /\ filter \in {"off", "idle", "open", "known"}
  /\ at \in [Toolsets -> {"absent", "waiting", "metadata", "config", "routed", "built",
                          "building", "info", "connect", "tools", "resources", "eager",
                          "close", "unauthorized", "done", "skipped"}]
  /\ page \in [Toolsets -> 0..MaxPages]
  /\ \A t \in Toolsets : page[t] > 0 => at[t] \in {"tools", "resources"}
  /\ memo \in [Deployments -> {"unknown", "mcp", "plain"}]
  /\ known \subseteq Configured /\ listed \subseteq Configured
  /\ reading \subseteq Configured /\ issues \subseteq DOMAIN script.asked \cup {"effort"}
  /\ todo \in [Toolsets -> SUBSET Names] /\ got \in [Toolsets -> SUBSET Names]
  /\ times \in [Toolsets -> 0..2]
  /\ hidden \subseteq Names /\ deferred \subseteq Loaded
  /\ block \in Seq(Names \cup ToSet(StaticTools)) /\ IsPrefix(cached, block) /\ lazy \in Seq(deferred) /\ calls \in 0..MaxCalls
  /\ search \in [Searches -> {"idle", "asking"}]
  /\ phase \in {"ready", "serving"} =>
       \A t \in Toolsets : at[t] \in {"absent", "done", "skipped"}

(* No toolset disappears silently: when the model is called each one that is configured and
   that the user may access has brought all its tools, or an issue is shown, or its server
   has no tools; and resources that were listed can be read (_resolve_tool_sets, the error
   scopes of _process_toolset, _classify_initialization_results, _retry_process_toolset,
   _resolve_one).  The exception is a template that is a reference itself. *)
IssueOrTools ==
  phase = "serving" =>
    \A t \in DOMAIN script.asked :
      \/ t \in issues
      \/ IsReferenceAgain(script.settings, script.asked[t])
      \/ at[t] = "skipped" /\ Barred(t)
      \/ /\ at[t] = "done"
         /\ \/ got[t] = Accessible(t) \ Set(t).hidden
            \/ Set(t).kind = "app" /\ got[t] = {Set(t).single}
            \/ Set(t).kind # "deployment" /\ "tools" \notin Set(t).serves
         /\ t \in listed => t \in reading

(* The tools a toolset may offer to the model. *)
Shown(t) == Visible(t) \cup (IF Set(t).kind = "app" THEN {Set(t).single} ELSE {})

(* The model's view is what the toolsets say: a tool it may see is offered or can be found
   by a search; a tool that is hidden and that no toolset shows, tool_search aside, is
   neither; and no tool is offered twice unless it was there twice: in two toolsets or under
   the name of tool_search, in a toolset that was loaded again after its sign-in, or in the
   defaults of the model (_load_tools, provide_openai_tools, tool_search). *)
OfferMatchesToolsets ==
  calls > 0 =>
    /\ \A n \in Loaded : n \in ToSet(block) \/ n \in deferred
    /\ \A n \in (hidden \ Internal) \ UNION {Shown(t) : t \in Configured} :
         n \notin ToSet(block) \cup deferred
    /\ \A i, j \in 1..Len(block) : i < j /\ block[i] = block[j] =>
         \/ Cardinality({t \in Toolsets : block[i] \in got[t]}) > 1
         \/ \E t \in Toolsets : block[i] \in got[t] /\ (times[t] > 1 \/ block[i] \in Internal)
         \/ \E k, l \in DOMAIN StaticTools :
              k # l /\ StaticTools[k] = block[i] /\ StaticTools[l] = block[i]

(* A discovery only changes the end of the tools block (the comment in _merge_tools): what
   the model was asked to cache is there again in each later call, and all of it is cached
   again, whatever parallel searches find. *)
BlockGrowsAtEnd == [][calls > 0 => IsPrefix(block, block') /\ IsPrefix(cached, cached')]_vars

=============================================================================
