-------------------------- MODULE AgentTools_proofs --------------------------
(***************************************************************************)
(* Proofs about AgentTools for every set of toolsets, whatever they are    *)
(* configured with: no toolset disappears without an issue, what the model *)
(* is offered is what the toolsets say, and the tools block only grows at  *)
(* its end.                                                                *)
(***************************************************************************)
EXTENDS AgentTools, TLAPS, FiniteSetTheorems, WellFoundedInduction

-----------------------------------------------------------------------------
(* The inductive invariant: of each toolset, what it has brought where it is. *)

McpPlaces == {"info", "connect", "tools", "resources", "eager", "close", "unauthorized"}

AppPlaces == {"metadata", "config", "routed", "built"}

(* The phases in which the toolsets of deployments are built, or after it. *)
Building == {"deployments", "mcp", "connecting", "login", "retry", "ready", "serving"}

(* No tool of the toolset is kept from the user. *)
Clear(t) == Set(t).kind = "mcp" \/ (filter # "idle" /\ ~Barred(t))

(* The server has no tools, or all of them that the model may see are there. *)
Brought(t) == "tools" \notin Set(t).serves \/ got[t] = Visible(t)

(* A deployment toolset has the tools that were built, or an issue. *)
DeploymentInv(t) ==
  Set(t).kind = "deployment" =>
    /\ at[t] \in {"waiting", "building", "done"} /\ t \notin listed
    /\ phase \in {"apps", "model"} => at[t] = "waiting" /\ got[t] = {}
    /\ phase \in Building =>
         /\ t \in issues \/ got[t] = Accessible(t) \ todo[t]
         /\ filter = "idle" => todo[t] = Set(t).tools
         /\ at[t] = "done" => todo[t] = {}

(* Every other toolset has nothing, all of its tools or an issue, by the place where its
   initialization is. *)
ServerInv(t) ==
  Set(t).kind # "deployment" =>
    /\ todo[t] = {} /\ at[t] # "building"
    /\ at[t] = "skipped" => Barred(t)
    /\ at[t] \in AppPlaces => Set(t).kind = "app" /\ Clear(t)
    /\ at[t] \in AppPlaces \cup {"waiting"} => got[t] = {} /\ t \notin listed
    /\ at[t] \in McpPlaces => Clear(t) /\ (got[t] = {} \/ got[t] = Visible(t))
    /\ at[t] \in {"resources", "eager", "close"} => t \in issues \/ Brought(t)
    /\ at[t] = "done" =>
         \/ t \in issues
         \/ Set(t).kind = "app" /\ got[t] = {Set(t).single} /\ t \notin listed
         \/ Clear(t) /\ Brought(t) /\ (t \in listed => t \in reading)

(* Where a toolset can be in each phase. *)
PhaseInv(t) ==
  /\ phase \in {"apps", "model", "deployments", "mcp"} /\ Set(t).kind \in {"mcp", "dial"} =>
       at[t] = "waiting"
  /\ phase = "login" => at[t] \in {"done", "skipped", "unauthorized"}
  /\ phase \in {"ready", "serving"} => at[t] \in {"done", "skipped"}
  /\ at[t] = "unauthorized" => phase \in {"connecting", "login"}

ToolsetInv(t) == DeploymentInv(t) /\ ServerInv(t) /\ PhaseInv(t)

(* What was asked for is configured, refused with an issue, or a reference again. *)
ScriptInv ==
  /\ phase \in {"start", "config"} => script \in Scripts
  /\ phase = "config" => CanStart(script.settings)
  /\ DOMAIN script.asked \subseteq Toolsets /\ Configured \subseteq DOMAIN script.asked
  /\ \A t \in Configured : IsToolset(Set(t))
  /\ phase \in Building \cup {"apps", "model"} =>
       \A t \in DOMAIN script.asked \ Configured :
         t \in issues \/ IsReferenceAgain(script.settings, script.asked[t])

TypeInv ==
  /\ DOMAIN at = Toolsets /\ DOMAIN got = Toolsets /\ DOMAIN todo = Toolsets
  /\ \A t \in Toolsets \ Configured : at[t] = "absent" /\ todo[t] = {}
  /\ phase \in {"start", "config"} => \A t \in Toolsets : got[t] = {} /\ todo[t] = {}
  /\ phase \in {"start", "config"} => listed = {}

IInv == TypeInv /\ ScriptInv /\ \A t \in Configured : ToolsetInv(t)

-----------------------------------------------------------------------------
(* What steps leave alone. *)

LEMMA ScriptKept ==
  ASSUME UNCHANGED script, NEW t
  PROVE  /\ Configured' = Configured
         /\ Set(t)' = Set(t) /\ Visible(t)' = Visible(t)
BY DEF Configured, Set, Visible

LEMMA FilterKept ==
  ASSUME UNCHANGED <<script, filter>>, NEW t
  PROVE  /\ Accessible(t)' = Accessible(t)
         /\ Barred(t)' <=> Barred(t)
         /\ Clear(t)' <=> Clear(t)
<1>1. Set(t)' = Set(t)
  BY ScriptKept
<1>2. Barred(t)' <=> Barred(t)
  BY <1>1 DEF Barred
<1>3. Accessible(t)' = Accessible(t)
  BY <1>1 DEF Accessible
<1> QED
  BY <1>1, <1>2, <1>3 DEF Clear

(* Nothing is configured before the configuration is resolved. *)
LEMMA ConfiguredLater ==
  ASSUME IInv, NEW t \in Configured
  PROVE  phase # "start" /\ phase # "config" /\ t \in Toolsets
BY ScriptsAssumption DEF IInv, ScriptInv, Configured

(* A step of toolset t touches no other toolset. *)
OnlyOf(t) ==
  /\ UNCHANGED <<script, phase, filter>>
  /\ DOMAIN at' = Toolsets /\ DOMAIN got' = Toolsets /\ DOMAIN todo' = Toolsets
  /\ \A u \in Toolsets \ {t} : at'[u] = at[u] /\ got'[u] = got[u] /\ todo'[u] = todo[u]
  /\ listed' \subseteq listed \cup {t} /\ reading \subseteq reading'
  /\ issues \subseteq issues'

LEMMA OthersKept ==
  ASSUME IInv, NEW t \in Configured, OnlyOf(t), NEW u \in Configured, u # t
  PROVE  ToolsetInv(u)'
<1>1. ToolsetInv(u) /\ u \in Toolsets \ {t}
  BY ConfiguredLater DEF IInv
<1>2. /\ at'[u] = at[u] /\ got'[u] = got[u] /\ todo'[u] = todo[u]
      /\ phase' = phase /\ filter' = filter
      /\ u \in listed' => u \in listed
      /\ u \in reading => u \in reading'
      /\ u \in issues => u \in issues'
  BY <1>1 DEF OnlyOf
<1>3. /\ Set(u)' = Set(u) /\ Visible(u)' = Visible(u) /\ Accessible(u)' = Accessible(u)
      /\ Barred(u)' <=> Barred(u)
      /\ Clear(u)' <=> Clear(u)
  BY ScriptKept, FilterKept DEF OnlyOf
<1>4. Brought(u)' <=> Brought(u)
  BY <1>2, <1>3 DEF Brought
<1>5. DeploymentInv(u)'
  BY <1>1, <1>2, <1>3 DEF ToolsetInv, DeploymentInv
<1>6. ServerInv(u)'
  BY <1>1, <1>2, <1>3, <1>4 DEF ToolsetInv, ServerInv
<1>7. PhaseInv(u)'
  BY <1>1, <1>2, <1>3 DEF ToolsetInv, PhaseInv
<1> QED
  BY <1>5, <1>6, <1>7 DEF ToolsetInv

LEMMA OneToolset ==
  ASSUME IInv, NEW t \in Configured, OnlyOf(t), ToolsetInv(t)'
  PROVE  IInv'
<1>1. Configured' = Configured /\ \A u : Set(u)' = Set(u)
  BY ScriptKept DEF OnlyOf
<1>2. phase # "start" /\ phase # "config" /\ phase' = phase /\ script' = script
  BY ConfiguredLater DEF OnlyOf
<1>3. TypeInv'
  BY <1>1, <1>2, ConfiguredLater DEF IInv, TypeInv, OnlyOf
<1>4. ScriptInv'
  <2>1. issues \subseteq issues'
    BY DEF OnlyOf
  <2> QED
    BY <1>1, <1>2, <2>1 DEF IInv, ScriptInv
<1>5. \A u \in Configured' : ToolsetInv(u)'
  BY <1>1, OthersKept
<1> QED
  BY <1>3, <1>4, <1>5 DEF IInv

(* Where a step moves its toolset. *)
LEMMA Moved ==
  ASSUME IInv, NEW t \in Configured, NEW p, MoveTo(t, p)
  PROVE  /\ DOMAIN at' = Toolsets /\ at'[t] = p
         /\ \A u \in Toolsets \ {t} : at'[u] = at[u]
BY ConfiguredLater DEF IInv, TypeInv, MoveTo

(* A step that only moves its toolset, perhaps with an issue. *)
LEMMA MovedOnly ==
  ASSUME IInv, NEW t \in Configured, NEW p, MoveTo(t, p),
         UNCHANGED <<script, phase, filter, todo, got>>,
         listed' \subseteq listed \cup {t}, reading \subseteq reading',
         UNCHANGED issues \/ Issue(t)
  PROVE  /\ OnlyOf(t) /\ at'[t] = p
         /\ todo'[t] = todo[t] /\ got'[t] = got[t]
         /\ t \in issues => t \in issues'
         /\ Issue(t) => t \in issues'
         /\ phase' = phase /\ filter' = filter
         /\ Set(t)' = Set(t) /\ Visible(t)' = Visible(t)
         /\ Clear(t)' <=> Clear(t)
         /\ Brought(t)' <=> Brought(t)
         /\ Barred(t)' <=> Barred(t)
<1>1. issues \subseteq issues' /\ (Issue(t) => t \in issues')
  BY DEF Issue
<1>2. OnlyOf(t) /\ at'[t] = p
  BY <1>1, Moved DEF OnlyOf, IInv, TypeInv
<1>3. /\ Set(t)' = Set(t) /\ Visible(t)' = Visible(t)
      /\ Clear(t)' <=> Clear(t)
      /\ Barred(t)' <=> Barred(t)
  BY ScriptKept, FilterKept
<1>4. Brought(t)' <=> Brought(t)
  BY <1>3 DEF Brought
<1> QED
  BY <1>1, <1>2, <1>3, <1>4

-----------------------------------------------------------------------------
(* The steps of a toolset. *)

(* To wherever a dial-app toolset goes next. *)
LEMMA AppMoved ==
  ASSUME IInv, NEW t \in Configured, NEW p, MoveTo(t, p),
         Set(t).kind = "app", at[t] \in AppPlaces \cup {"waiting"},
         UNCHANGED <<script, phase, filter, todo, got, listed, reading>>,
         UNCHANGED issues \/ Issue(t),
         \/ p \in AppPlaces /\ Clear(t)
         \/ p = "done" /\ Issue(t)
         \/ p = "skipped" /\ Barred(t)
  PROVE  IInv'
<1>1. ToolsetInv(t)
  BY DEF IInv
<1>2. /\ OnlyOf(t) /\ at'[t] = p
      /\ todo'[t] = todo[t] /\ got'[t] = got[t]
      /\ t \in issues => t \in issues'
      /\ Issue(t) => t \in issues'
      /\ phase' = phase /\ filter' = filter
      /\ Set(t)' = Set(t)
      /\ Clear(t)' <=> Clear(t)
      /\ Barred(t)' <=> Barred(t)
  BY MovedOnly
<1>3. /\ todo[t] = {} /\ got[t] = {} /\ t \notin listed
      /\ phase \notin {"login", "ready", "serving"}
  BY <1>1 DEF ToolsetInv, ServerInv, PhaseInv, AppPlaces
<1>4. DeploymentInv(t)'
  BY <1>2 DEF DeploymentInv
<1>5. ServerInv(t)'
  BY <1>2, <1>3 DEF ServerInv, AppPlaces, McpPlaces
<1>6. PhaseInv(t)'
  BY <1>2, <1>3 DEF PhaseInv, AppPlaces
<1> QED
  BY <1>2, <1>4, <1>5, <1>6, OneToolset DEF ToolsetInv

LEMMA BeginAppOK ==
  ASSUME IInv, NEW t \in Configured, BeginApp(t)
  PROVE  IInv'
<1>1. Set(t).kind = "app" /\ at[t] = "waiting" /\ filter # "idle"
  BY DEF BeginApp, OfKind, FilterReady
<1>2. UNCHANGED <<script, phase, filter, todo, got, listed, reading>>
  BY DEF BeginApp, tooling, resources
<1>3. Barred(t) \/ Clear(t)
  BY <1>1 DEF Clear
<1>4. CASE Barred(t) /\ MoveTo(t, "skipped") /\ UNCHANGED issues
  BY <1>1, <1>2, <1>4, AppMoved
<1>5. CASE ~Barred(t) /\ MoveTo(t, "config") /\ UNCHANGED issues
  BY <1>1, <1>2, <1>3, <1>5, AppMoved DEF AppPlaces
<1>6. CASE ~Barred(t) /\ MoveTo(t, "metadata") /\ UNCHANGED issues
  BY <1>1, <1>2, <1>3, <1>6, AppMoved DEF AppPlaces
<1>7. CASE ~Barred(t) /\ Route(t, memo[Set(t).deployment])
  <2>1. \/ MoveTo(t, "routed") /\ UNCHANGED issues
        \/ MoveTo(t, "done") /\ Issue(t)
        \/ MoveTo(t, "config") /\ UNCHANGED issues
    BY <1>7 DEF Route
  <2>2. "routed" \in AppPlaces /\ "config" \in AppPlaces
    BY DEF AppPlaces
  <2> QED
    BY <1>1, <1>2, <1>3, <1>7, <2>1, <2>2, AppMoved
<1> QED
  BY <1>4, <1>5, <1>6, <1>7 DEF BeginApp

LEMMA MetadataArrivesOK ==
  ASSUME IInv, NEW t \in Configured, MetadataArrives(t)
  PROVE  IInv'
<1>1. at[t] = "metadata"
  BY DEF MetadataArrives
<1>2. Set(t).kind = "app" /\ Clear(t)
  BY <1>1 DEF IInv, ToolsetInv, DeploymentInv, ServerInv, AppPlaces
<1>3. UNCHANGED <<script, phase, filter, todo, got, listed, reading>>
  BY DEF MetadataArrives, tooling, resources
<1>4. \/ MoveTo(t, "routed") /\ UNCHANGED issues
      \/ MoveTo(t, "done") /\ Issue(t)
      \/ MoveTo(t, "config") /\ UNCHANGED issues
  BY DEF MetadataArrives, Route
<1>5. "metadata" \in AppPlaces /\ "routed" \in AppPlaces /\ "config" \in AppPlaces
  BY DEF AppPlaces
<1> QED
  BY <1>1, <1>2, <1>3, <1>4, <1>5, AppMoved

LEMMA ConfigArrivesOK ==
  ASSUME IInv, NEW t \in Configured, ConfigArrives(t)
  PROVE  IInv'
<1>1. at[t] = "config"
  BY DEF ConfigArrives
<1>2. Set(t).kind = "app" /\ Clear(t)
  BY <1>1 DEF IInv, ToolsetInv, DeploymentInv, ServerInv, AppPlaces
<1>3. UNCHANGED <<script, phase, filter, todo, got, listed, reading>>
  BY DEF ConfigArrives, tooling, resources
<1>4. \/ MoveTo(t, "built") /\ UNCHANGED issues
      \/ MoveTo(t, "done") /\ Issue(t)
  BY DEF ConfigArrives
<1>5. "config" \in AppPlaces /\ "built" \in AppPlaces
  BY DEF AppPlaces
<1> QED
  BY <1>1, <1>2, <1>3, <1>4, <1>5, AppMoved

(* Only tools of deployment toolsets are still to be built. *)
LEMMA BuildToolOK ==
  ASSUME IInv, NEW t \in Configured, NEW n \in todo[t], BuildTool(t, n)
  PROVE  IInv'
<1>1. ToolsetInv(t) /\ Set(t).kind = "deployment" /\ phase = "deployments" /\ filter # "idle"
  BY DEF IInv, ToolsetInv, ServerInv, BuildTool, FilterReady
<1>2. /\ UNCHANGED <<script, phase, filter, listed, reading>>
      /\ MoveTo(t, "building") /\ todo' = [todo EXCEPT ![t] = @ \ {n}]
  BY DEF BuildTool, resources
<1>3. \/ n \in Accessible(t) /\ got' = [got EXCEPT ![t] = @ \cup {n}] /\ UNCHANGED issues
      \/ n \notin Accessible(t) /\ UNCHANGED <<got, issues>>
      \/ Issue(t) /\ UNCHANGED got
  BY DEF BuildTool
<1>4. /\ DOMAIN got = Toolsets /\ DOMAIN todo = Toolsets /\ t \in Toolsets
      /\ issues \subseteq issues'
  BY <1>3, ConfiguredLater DEF IInv, TypeInv, Issue
<1>5. OnlyOf(t) /\ at'[t] = "building" /\ todo'[t] = todo[t] \ {n}
  BY <1>2, <1>3, <1>4, Moved DEF OnlyOf
<1>6. Set(t)' = Set(t) /\ Accessible(t)' = Accessible(t)
  BY <1>2, ScriptKept, FilterKept
<1>7. t \in issues \/ got[t] = Accessible(t) \ todo[t]
  BY <1>1 DEF ToolsetInv, DeploymentInv, Building
<1>8. t \in issues' \/ got'[t] = Accessible(t) \ todo'[t]
  <2>1. CASE t \in issues
    BY <1>4, <2>1
  <2>2. CASE n \in Accessible(t) /\ got' = [got EXCEPT ![t] = @ \cup {n}] /\ t \notin issues
    <3>1. got'[t] = got[t] \cup {n}
      BY <1>4, <2>2
    <3> QED
      BY <1>5, <1>7, <2>2, <3>1
  <2>3. CASE n \notin Accessible(t) /\ got' = got /\ t \notin issues
    BY <1>5, <1>7, <2>3
  <2>4. CASE Issue(t)
    BY <2>4 DEF Issue
  <2> QED
    BY <1>3, <2>1, <2>2, <2>3, <2>4
<1>9. DeploymentInv(t)'
  BY <1>1, <1>2, <1>5, <1>6, <1>8 DEF ToolsetInv, DeploymentInv, Building
<1>10. ServerInv(t)' /\ PhaseInv(t)'
  BY <1>1, <1>2, <1>5, <1>6 DEF ServerInv, PhaseInv
<1> QED
  BY <1>5, <1>9, <1>10, OneToolset DEF ToolsetInv

LEMMA ToolsetBuiltOK ==
  ASSUME IInv, NEW t \in Configured, ToolsetBuilt(t)
  PROVE  IInv'
<1>1. ToolsetInv(t) /\ Set(t).kind = "deployment" /\ phase = "deployments" /\ todo[t] = {}
  BY DEF IInv, ToolsetBuilt, OfKind
<1>2. /\ UNCHANGED <<script, phase, filter, todo, listed, reading, issues>>
      /\ MoveTo(t, "done") /\ got' = [got EXCEPT ![t] = got[t]]
  BY DEF ToolsetBuilt, resources, Register
<1>3. DOMAIN got = Toolsets /\ DOMAIN todo = Toolsets /\ t \in Toolsets
  BY ConfiguredLater DEF IInv, TypeInv
<1>4. OnlyOf(t) /\ at'[t] = "done" /\ got'[t] = got[t]
  BY <1>2, <1>3, Moved DEF OnlyOf
<1>5. Set(t)' = Set(t) /\ Accessible(t)' = Accessible(t)
  BY <1>2, ScriptKept, FilterKept
<1>6. DeploymentInv(t)'
  BY <1>1, <1>2, <1>4, <1>5 DEF ToolsetInv, DeploymentInv, Building
<1>7. ServerInv(t)' /\ PhaseInv(t)'
  BY <1>1, <1>2, <1>4, <1>5 DEF ServerInv, PhaseInv
<1> QED
  BY <1>4, <1>6, <1>7, OneToolset DEF ToolsetInv

LEMMA Unmoved ==
  ASSUME IInv, UNCHANGED <<script, phase, filter, at, todo, got, listed, reading, issues>>
  PROVE  IInv'
<1>1. Configured' = Configured /\ \A u : Set(u)' = Set(u)
  BY ScriptKept
<1>2. \A u : Visible(u)' = Visible(u)
  BY ScriptKept
<1>3. \A u : /\ Accessible(u)' = Accessible(u)
             /\ Barred(u)' <=> Barred(u)
             /\ Clear(u)' <=> Clear(u)
  BY FilterKept
<1>4. \A u : Brought(u)' <=> Brought(u)
  BY <1>1, <1>2 DEF Brought
<1>5. ASSUME NEW u \in Configured
      PROVE  ToolsetInv(u)'
  <2>1. ToolsetInv(u)
    BY DEF IInv
  <2>2. DeploymentInv(u)'
    BY <1>1, <1>3, <2>1 DEF ToolsetInv, DeploymentInv
  <2>3. ServerInv(u)'
    BY <1>1, <1>2, <1>3, <1>4, <2>1 DEF ToolsetInv, ServerInv
  <2>4. PhaseInv(u)'
    BY <1>1, <2>1 DEF ToolsetInv, PhaseInv
  <2> QED
    BY <2>2, <2>3, <2>4 DEF ToolsetInv
<1>6. TypeInv' /\ ScriptInv'
  BY <1>1 DEF IInv, TypeInv, ScriptInv
<1> QED
  BY <1>1, <1>5, <1>6 DEF IInv

(* To wherever the initialization of an MCP toolset goes next. *)
LEMMA ServerMoved ==
  ASSUME IInv, NEW t \in Configured, NEW p, MoveTo(t, p), at[t] \in McpPlaces \ {"unauthorized"},
         UNCHANGED <<script, phase, filter, todo, got>>,
         listed' \subseteq listed \cup {t}, reading \subseteq reading',
         UNCHANGED issues \/ Issue(t),
         \/ p \in {"connect", "tools"}
         \/ p \in {"resources", "eager", "close"} /\ (t \in issues \/ Issue(t) \/ Brought(t))
         \/ p = "done" /\ (Issue(t) \/ t \in issues \/ (Brought(t) /\ t \in reading'))
         \/ p = "unauthorized" /\ phase = "connecting"
  PROVE  IInv'
<1>1. ToolsetInv(t)
  BY DEF IInv
<1>2. /\ OnlyOf(t) /\ at'[t] = p
      /\ todo'[t] = todo[t] /\ got'[t] = got[t]
      /\ t \in issues => t \in issues'
      /\ Issue(t) => t \in issues'
      /\ phase' = phase /\ filter' = filter
      /\ Set(t)' = Set(t) /\ Visible(t)' = Visible(t)
      /\ Clear(t)' <=> Clear(t)
      /\ Brought(t)' <=> Brought(t)
      /\ Barred(t)' <=> Barred(t)
  BY MovedOnly
<1>3. /\ Set(t).kind # "deployment" /\ todo[t] = {}
      /\ Clear(t) /\ (got[t] = {} \/ got[t] = Visible(t))
  BY <1>1 DEF ToolsetInv, DeploymentInv, ServerInv, McpPlaces
<1>4. /\ phase \notin {"login", "ready", "serving"}
      /\ ~(phase \in {"apps", "model", "deployments", "mcp"} /\ Set(t).kind \in {"mcp", "dial"})
  BY <1>1 DEF ToolsetInv, PhaseInv, McpPlaces
<1>5. DeploymentInv(t)'
  BY <1>2, <1>3 DEF DeploymentInv
<1>6. ServerInv(t)'
  BY <1>2, <1>3 DEF ServerInv, AppPlaces, McpPlaces
<1>7. PhaseInv(t)'
  BY <1>2, <1>4 DEF PhaseInv
<1> QED
  BY <1>2, <1>5, <1>6, <1>7, OneToolset DEF ToolsetInv

LEMMA AfterToolsIs ==
  ASSUME NEW t
  PROVE  AfterTools(t) \in {"resources", "close"}
BY DEF AfterTools

LEMMA InfoArrivesOK ==
  ASSUME IInv, NEW t \in Configured, InfoArrives(t)
  PROVE  IInv'
<1>1. at[t] \in McpPlaces \ {"unauthorized"}
  BY DEF InfoArrives, McpPlaces
<1>2. /\ UNCHANGED <<script, phase, filter, todo, got, listed, reading>>
      /\ \/ MoveTo(t, "connect") /\ UNCHANGED issues
         \/ MoveTo(t, "done") /\ Issue(t)
  BY DEF InfoArrives, tooling, resources
<1> QED
  BY <1>1, <1>2, ServerMoved

LEMMA ConnectedOK ==
  ASSUME IInv, NEW t \in Configured, Connected(t)
  PROVE  IInv'
<1>1. at[t] \in McpPlaces \ {"unauthorized"}
  BY DEF Connected, McpPlaces
<1>2. UNCHANGED <<script, phase, filter, todo, got, listed, reading, issues>>
  BY DEF Connected, tooling, resources
<1>3. CASE "tools" \in Set(t).serves
  <2>1. MoveTo(t, "tools")
    BY <1>3 DEF Connected
  <2> QED
    BY <1>1, <1>2, <2>1, ServerMoved
<1>4. CASE "tools" \notin Set(t).serves
  <2>1. MoveTo(t, AfterTools(t)) /\ Brought(t)
    BY <1>4 DEF Connected, Brought
  <2> QED
    BY <1>1, <1>2, <2>1, AfterToolsIs, ServerMoved
<1> QED
  BY <1>3, <1>4

(* What a toolset has brought when its tools were asked for. *)
LEMMA BroughtBefore ==
  ASSUME IInv, NEW t \in Configured, at[t] \in {"resources", "eager", "close"}
  PROVE  t \in issues \/ Brought(t)
BY DEF IInv, ToolsetInv, DeploymentInv, ServerInv

LEMMA NextPageOK ==
  ASSUME IInv, NEW t \in Configured, NextPage(t)
  PROVE  IInv'
<1>1. at[t] \in McpPlaces \ {"unauthorized"}
  BY DEF NextPage, McpPlaces
<1>2. UNCHANGED <<script, phase, filter, todo, got, listed, reading>>
  BY DEF NextPage, tooling, resources
<1>3. CASE page[t] < MaxPages
  BY <1>2, <1>3, Unmoved DEF NextPage
<1>4. CASE ~(page[t] < MaxPages)
  <2>1. Issue(t) /\ (MoveTo(t, AfterTools(t)) \/ MoveTo(t, "close"))
    BY <1>4 DEF NextPage
  <2> QED
    BY <1>1, <1>2, <2>1, AfterToolsIs, ServerMoved
<1> QED
  BY <1>3, <1>4

LEMMA ToolsListedOK ==
  ASSUME IInv, NEW t \in Configured, ToolsListed(t)
  PROVE  IInv'
<1>1. ToolsetInv(t) /\ at[t] = "tools"
  BY DEF IInv, ToolsListed
<1>2. /\ UNCHANGED <<script, phase, filter, todo, listed, reading>>
      /\ MoveTo(t, AfterTools(t)) /\ (UNCHANGED issues \/ Issue(t))
      /\ \/ got' = [got EXCEPT ![t] = Visible(t)]
         \/ Visible(t) = {} /\ UNCHANGED got
  BY DEF ToolsListed, resources, Register, Built
<1>3. /\ Set(t).kind # "deployment" /\ todo[t] = {}
      /\ Clear(t) /\ (got[t] = {} \/ got[t] = Visible(t))
  BY <1>1 DEF ToolsetInv, DeploymentInv, ServerInv, McpPlaces
<1>4. /\ phase \notin {"login", "ready", "serving"}
      /\ ~(phase \in {"apps", "model", "deployments", "mcp"} /\ Set(t).kind \in {"mcp", "dial"})
  BY <1>1 DEF ToolsetInv, PhaseInv
<1>5. DOMAIN got = Toolsets /\ DOMAIN todo = Toolsets /\ t \in Toolsets
  BY ConfiguredLater DEF IInv, TypeInv
<1>6. got'[t] = Visible(t) /\ todo'[t] = todo[t]
  BY <1>2, <1>3, <1>5
<1>7. OnlyOf(t) /\ at'[t] = AfterTools(t)
  BY <1>2, <1>5, Moved DEF OnlyOf, Issue
<1>8. at'[t] \in {"resources", "close"}
  BY <1>7, AfterToolsIs
<1>9. /\ Set(t)' = Set(t) /\ Visible(t)' = Visible(t)
      /\ Clear(t)' <=> Clear(t)
  BY <1>2, ScriptKept, FilterKept
<1>10. Brought(t)'
  BY <1>6, <1>9 DEF Brought
<1>11. DeploymentInv(t)'
  BY <1>3, <1>9 DEF DeploymentInv
<1>12. ServerInv(t)'
  BY <1>3, <1>6, <1>8, <1>9, <1>10 DEF ServerInv, AppPlaces, McpPlaces
<1>13. PhaseInv(t)'
  BY <1>2, <1>4, <1>8, <1>9 DEF PhaseInv
<1> QED
  BY <1>7, <1>11, <1>12, <1>13, OneToolset DEF ToolsetInv

LEMMA ResourcesListedOK ==
  ASSUME IInv, NEW t \in Configured, ResourcesListed(t)
  PROVE  IInv'
<1>1. at[t] \in McpPlaces \ {"unauthorized"} /\ at[t] = "resources"
  BY DEF ResourcesListed, McpPlaces
<1>2. /\ UNCHANGED <<script, phase, filter, todo, got, reading, issues>>
      /\ listed' = listed \cup {t}
      /\ MoveTo(t, "eager") \/ MoveTo(t, "close")
  BY DEF ResourcesListed, tooling
<1> QED
  BY <1>1, <1>2, BroughtBefore, ServerMoved

LEMMA EagerReadOK ==
  ASSUME IInv, NEW t \in Configured, EagerRead(t)
  PROVE  IInv'
<1>1. at[t] \in McpPlaces \ {"unauthorized"} /\ at[t] = "eager"
  BY DEF EagerRead, McpPlaces
<1>2. /\ UNCHANGED <<script, phase, filter, todo, got, listed, reading, issues>>
      /\ MoveTo(t, "close")
  BY DEF EagerRead, tooling, resources
<1> QED
  BY <1>1, <1>2, BroughtBefore, ServerMoved

LEMMA RequestRefusedOK ==
  ASSUME IInv, NEW t \in Configured, RequestRefused(t)
  PROVE  IInv'
<1>1. at[t] \in McpPlaces \ {"unauthorized"}
  BY DEF RequestRefused, McpPlaces
<1>2. /\ UNCHANGED <<script, phase, filter, todo, got, listed, reading>>
      /\ Issue(t) /\ (MoveTo(t, AfterTools(t)) \/ MoveTo(t, "close"))
  BY DEF RequestRefused, tooling, resources
<1> QED
  BY <1>1, <1>2, AfterToolsIs, ServerMoved

LEMMA SessionClosedOK ==
  ASSUME IInv, NEW t \in Configured, SessionClosed(t)
  PROVE  IInv'
<1>1. at[t] \in McpPlaces \ {"unauthorized"} /\ at[t] = "close"
  BY DEF SessionClosed, McpPlaces
<1>2. /\ UNCHANGED <<script, phase, filter, todo, got, listed, issues>>
      /\ reading' = reading \cup {t} /\ MoveTo(t, "done")
  BY DEF SessionClosed, tooling
<1> QED
  BY <1>1, <1>2, BroughtBefore, ServerMoved

LEMMA TransportFailsOK ==
  ASSUME IInv, NEW t \in Configured, TransportFails(t)
  PROVE  IInv'
<1>1. at[t] \in McpPlaces \ {"unauthorized"}
  BY DEF TransportFails, McpPlaces
<1>2. /\ UNCHANGED <<script, phase, filter, todo, got, listed, reading>>
      /\ \/ MoveTo(t, "done") /\ Issue(t)
         \/ phase = "connecting" /\ MoveTo(t, "unauthorized") /\ UNCHANGED issues
  BY DEF TransportFails, tooling, resources
<1> QED
  BY <1>1, <1>2, ServerMoved

LEMMA ToolsetStepOK ==
  ASSUME IInv, NEW t \in Configured, ToolsetStep(t)
  PROVE  IInv'
BY BeginAppOK, MetadataArrivesOK, ConfigArrivesOK, BuildToolOK, ToolsetBuiltOK, InfoArrivesOK,
   ConnectedOK, NextPageOK, ToolsListedOK, ResourcesListedOK, EagerReadOK, RequestRefusedOK,
   SessionClosedOK, TransportFailsOK
   DEF ToolsetStep

-----------------------------------------------------------------------------
(* The initial states and the steps of the initializers. *)

LEMMA InitOK ==
  ASSUME Init
  PROVE  IInv
<1>1. script \in Scripts /\ phase = "start" /\ listed = {}
  BY DEF Init, SetupInit
<1>2. /\ at = [t \in Toolsets |-> "absent"] /\ got = [t \in Toolsets |-> {}]
      /\ todo = [t \in Toolsets |-> {}]
  BY DEF Init, SetupInit
<1>3. Configured = {} /\ DOMAIN script.asked \subseteq Toolsets
  BY <1>1, ScriptsAssumption DEF Configured
<1>4. TypeInv
  BY <1>1, <1>2 DEF TypeInv
<1>5. ScriptInv
  BY <1>1, <1>3 DEF ScriptInv, Building
<1> QED
  BY <1>3, <1>4, <1>5 DEF IInv

(* A step of an initializer that runs after the configuration was resolved. *)
LEMMA InitializerMoved ==
  ASSUME IInv, UNCHANGED script, issues \subseteq issues',
         phase \notin {"start", "config"}, phase' \notin {"start", "config"},
         phase' \in Building \cup {"apps", "model"} => phase \in Building \cup {"apps", "model"},
         DOMAIN at' = Toolsets, DOMAIN got' = Toolsets, DOMAIN todo' = Toolsets,
         \A t \in Toolsets \ Configured : at'[t] = at[t] /\ todo'[t] = {},
         \A t \in Configured : ToolsetInv(t)'
  PROVE  IInv'
<1>1. Configured' = Configured /\ \A t : Set(t)' = Set(t)
  BY ScriptKept
<1>2. TypeInv'
  BY <1>1 DEF IInv, TypeInv
<1>3. ScriptInv'
  BY <1>1 DEF IInv, ScriptInv
<1> QED
  BY <1>1, <1>2, <1>3 DEF IInv

(* A step that goes on to another phase and does nothing else. *)
LEMMA PhaseMoved ==
  ASSUME IInv, UNCHANGED <<script, filter, at, todo, got, listed, reading, issues>>,
         phase \notin {"start", "config"}, phase' \notin {"start", "config", "connecting", "retry"},
         phase' \in {"apps", "model"} => phase \in {"apps", "model"},
         phase' \in {"deployments", "mcp"} => phase \in {"deployments", "mcp"},
         phase' \in Building => phase \in Building,
         phase' = "login" => phase = "login",
         phase' \in {"ready", "serving"} =>
           \A t \in Configured : at[t] \in {"done", "skipped"},
         \A t \in Configured : at[t] # "unauthorized"
  PROVE  IInv'
<1>1. \A u : /\ Set(u)' = Set(u) /\ Visible(u)' = Visible(u)
             /\ Accessible(u)' = Accessible(u)
             /\ Barred(u)' <=> Barred(u)
             /\ Clear(u)' <=> Clear(u)
  BY ScriptKept, FilterKept
<1>2. \A u : Brought(u)' <=> Brought(u)
  BY <1>1 DEF Brought
<1>3. ASSUME NEW u \in Configured
      PROVE  ToolsetInv(u)'
  <2>1. ToolsetInv(u)
    BY DEF IInv
  <2>2. DeploymentInv(u)'
    BY <1>1, <2>1 DEF ToolsetInv, DeploymentInv
  <2>3. ServerInv(u)'
    BY <1>1, <1>2, <2>1 DEF ToolsetInv, ServerInv
  <2>4. PhaseInv(u)'
    BY <1>1, <2>1 DEF ToolsetInv, PhaseInv
  <2> QED
    BY <2>2, <2>3, <2>4 DEF ToolsetInv
<1>4. DOMAIN at = Toolsets /\ DOMAIN got = Toolsets /\ DOMAIN todo = Toolsets
      /\ \A t \in Toolsets \ Configured : todo[t] = {}
  BY DEF IInv, TypeInv
<1>5. phase' \in Building \cup {"apps", "model"} => phase \in Building \cup {"apps", "model"}
  BY DEF Building
<1> QED
  BY <1>3, <1>4, <1>5, InitializerMoved

LEMMA StartedOK ==
  ASSUME IInv, Started
  PROVE  IInv'
<1>1. /\ UNCHANGED <<script, filter, at, todo, got, listed, reading, issues>>
      /\ phase = "start"
      /\ \/ phase' = "config" /\ CanStart(script.settings)
         \/ phase' = "down"
  BY DEF Started, tooling, resources
<1>2. Configured' = Configured /\ Configured = {} /\ script \in Scripts
  BY <1>1, ScriptKept, ScriptsAssumption DEF IInv, ScriptInv, Configured
<1>3. TypeInv'
  BY <1>1, <1>2 DEF IInv, TypeInv
<1>4. ScriptInv'
  BY <1>1, <1>2 DEF IInv, ScriptInv, Building
<1> QED
  BY <1>2, <1>3, <1>4 DEF IInv

LEMMA TemplateMissingOK ==
  ASSUME IInv, TemplateMissing
  PROVE  IInv'
<1>1. /\ UNCHANGED <<script, filter, at, todo, got, listed, reading, issues>>
      /\ phase = "config" /\ phase' = "failed"
  BY DEF TemplateMissing, tooling, resources
<1>2. Configured' = Configured /\ Configured = {}
  BY <1>1, ScriptKept, ScriptsAssumption DEF IInv, ScriptInv, Configured
<1>3. TypeInv'
  BY <1>1, <1>2 DEF IInv, TypeInv
<1>4. ScriptInv'
  BY <1>1, <1>2 DEF IInv, ScriptInv, Building
<1> QED
  BY <1>2, <1>3, <1>4 DEF IInv

LEMMA ConfigResolvedOK ==
  ASSUME IInv, ConfigResolved
  PROVE  IInv'
<1> DEFINE sets == ResolvedToolsets(script.settings, script)
<1>1. /\ phase = "config" /\ phase' = "apps" /\ Resolvable(script)
      /\ UNCHANGED <<filter, todo, got, listed, reading>>
      /\ script' = [script EXCEPT !.toolsets = sets]
      /\ at' = [t \in Toolsets |-> IF t \in DOMAIN script'.toolsets THEN "waiting" ELSE "absent"]
      /\ issues' = {t \in DOMAIN script.asked :
                      \/ IsRefused(script.settings, script.asked[t])
                      \/ BringsRefused(script.settings, script.asked[t])}
  BY DEF ConfigResolved, tooling, resources
<1>2. script \in Scripts /\ CanStart(script.settings)
  BY <1>1 DEF IInv, ScriptInv
<1>3. /\ {"asked", "settings", "toolsets"} \subseteq DOMAIN script
      /\ DOMAIN script.asked \subseteq Toolsets
      /\ \A t \in DOMAIN sets : IsToolset(sets[t])
  BY <1>1, <1>2, ScriptsAssumption
<1>4. DOMAIN sets = {u \in DOMAIN script.asked :
                       /\ ~IsRefused(script.settings, script.asked[u])
                       /\ ~IsReferenceAgain(script.settings, script.asked[u])}
  BY DEF ResolvedToolsets
<1> HIDE DEF sets
<1>5. script'.asked = script.asked /\ script'.settings = script.settings /\ script'.toolsets = sets
  BY <1>1, <1>3
<1>6. Configured' = DOMAIN sets /\ \A t : Set(t)' = sets[t]
  BY <1>5 DEF Configured, Set
<1>7. Configured' \subseteq DOMAIN script.asked
  BY <1>4, <1>6
<1>8. /\ DOMAIN got = Toolsets /\ DOMAIN todo = Toolsets /\ listed = {}
      /\ \A t \in Toolsets : got[t] = {} /\ todo[t] = {}
  BY <1>1 DEF IInv, TypeInv
<1>9. TypeInv'
  BY <1>1, <1>5, <1>6, <1>8 DEF TypeInv
<1>10. ScriptInv'
  <2>1. \A t \in DOMAIN script.asked \ DOMAIN sets :
          t \in issues' \/ IsReferenceAgain(script.settings, script.asked[t])
    BY <1>1, <1>4
  <2> QED
    BY <1>1, <1>3, <1>5, <1>6, <1>7, <2>1 DEF ScriptInv, Building
<1>11. ASSUME NEW u \in Configured'
       PROVE  ToolsetInv(u)'
  <2>1. at'[u] = "waiting" /\ got'[u] = {} /\ todo'[u] = {} /\ u \notin listed'
    BY <1>1, <1>3, <1>5, <1>6, <1>7, <1>8
  <2>2. DeploymentInv(u)'
    BY <1>1, <2>1 DEF DeploymentInv, Building
  <2>3. ServerInv(u)'
    BY <2>1 DEF ServerInv, McpPlaces, AppPlaces
  <2>4. PhaseInv(u)'
    BY <1>1, <2>1 DEF PhaseInv
  <2> QED
    BY <2>2, <2>3, <2>4 DEF ToolsetInv
<1> QED
  BY <1>9, <1>10, <1>11 DEF IInv

LEMMA AppsResolvedOK ==
  ASSUME IInv, AppsResolved
  PROVE  IInv'
<1>1. /\ UNCHANGED <<script, filter, at, todo, got, listed, reading, issues>>
      /\ phase = "apps" /\ phase' = "model"
  BY DEF AppsResolved, tooling, resources
<1>2. \A t \in Configured : at[t] # "unauthorized"
  BY <1>1 DEF IInv, ToolsetInv, PhaseInv
<1> QED
  BY <1>1, <1>2, PhaseMoved DEF Building

LEMMA RetryEndsOK ==
  ASSUME IInv, RetryEnds
  PROVE  IInv'
<1>1. /\ UNCHANGED <<script, filter, at, todo, got, listed, reading, issues>>
      /\ phase = "retry" /\ phase' = "ready" /\ AllSettled
  BY DEF RetryEnds, tooling, resources
<1>2. \A t \in Configured : at[t] # "unauthorized"
  BY <1>1 DEF IInv, ToolsetInv, PhaseInv
<1>3. \A t \in Configured : at[t] \in {"done", "skipped"}
  BY <1>1, <1>2 DEF AllSettled
<1> QED
  BY <1>1, <1>2, <1>3, PhaseMoved DEF Building

LEMMA StartServingOK ==
  ASSUME IInv, StartServing \/ ChoiceRefused
  PROVE  IInv'
<1>1. /\ UNCHANGED <<script, filter, at, todo, got, listed, reading, issues>>
      /\ phase \in {"ready", "serving"} /\ phase' \in {"failed", "serving"}
  BY DEF StartServing, ChoiceRefused, tooling, resources
<1>2. \A t \in Configured : at[t] \in {"done", "skipped"}
  BY <1>1 DEF IInv, ToolsetInv, PhaseInv
<1> QED
  BY <1>1, <1>2, PhaseMoved DEF Building

(* Before the answer no tool was kept from anybody, and none was built. *)
LEMMA FilterAnswersOK ==
  ASSUME IInv, FilterAnswers
  PROVE  IInv'
<1>1. /\ UNCHANGED <<script, phase, at, todo, got, listed, reading, issues>>
      /\ filter = "idle" /\ filter' # "idle"
      /\ phase \in {"apps", "deployments", "mcp"}
  BY DEF FilterAnswers, Asked, tooling, resources
<1>2. \A u : /\ Set(u)' = Set(u) /\ Visible(u)' = Visible(u)
             /\ Accessible(u) \subseteq Set(u).tools /\ Accessible(u)' \subseteq Set(u).tools
             /\ ~Barred(u)
             /\ Clear(u) => Clear(u)'
  <2>1. \A u : Set(u)' = Set(u) /\ Visible(u)' = Visible(u)
    BY <1>1, ScriptKept
  <2>2. \A u : Accessible(u) \subseteq Set(u).tools /\ Accessible(u)' \subseteq Set(u).tools
    BY <2>1 DEF Accessible
  <2>3. \A u : ~Barred(u)
    BY <1>1 DEF Barred
  <2>4. \A u : Clear(u) => Clear(u)'
    BY <1>1, <2>1 DEF Clear
  <2> QED
    BY <2>1, <2>2, <2>3, <2>4
<1>3. \A u : Brought(u)' <=> Brought(u)
  BY <1>1, <1>2 DEF Brought
<1>4. ASSUME NEW u \in Configured
      PROVE  ToolsetInv(u)'
  <2>1. ToolsetInv(u)
    BY DEF IInv
  <2>2. DeploymentInv(u)'
    BY <1>1, <1>2, <2>1 DEF ToolsetInv, DeploymentInv
  <2>3. ServerInv(u)'
    BY <1>1, <1>2, <1>3, <2>1 DEF ToolsetInv, ServerInv
  <2>4. PhaseInv(u)'
    BY <1>1, <1>2, <2>1 DEF ToolsetInv, PhaseInv
  <2> QED
    BY <2>2, <2>3, <2>4 DEF ToolsetInv
<1>5. DOMAIN at = Toolsets /\ DOMAIN got = Toolsets /\ DOMAIN todo = Toolsets
      /\ \A t \in Toolsets \ Configured : todo[t] = {}
  BY DEF IInv, TypeInv
<1> QED
  BY <1>1, <1>4, <1>5, InitializerMoved

LEMMA ModelKnownOK ==
  ASSUME IInv, ModelKnown
  PROVE  IInv'
<1>1. UNCHANGED <<script, filter, at, got, listed, reading>> /\ phase = "model"
  BY DEF ModelKnown, tooling, resources
<1>2. \A t \in Configured : at[t] # "unauthorized"
  BY <1>1 DEF IInv, ToolsetInv, PhaseInv
<1>3. CASE phase' = "failed" /\ UNCHANGED <<todo, issues>>
  BY <1>1, <1>2, <1>3, PhaseMoved DEF Building
<1>4. CASE /\ phase' = "deployments" /\ issues \subseteq issues'
           /\ todo' = [t \in Toolsets |->
                         IF t \in OfKind("deployment") THEN Set(t).tools ELSE {}]
  <2>1. \A u : /\ Set(u)' = Set(u) /\ Visible(u)' = Visible(u)
               /\ Accessible(u)' = Accessible(u)
               /\ Barred(u)' <=> Barred(u)
               /\ Clear(u)' <=> Clear(u)
    BY <1>1, ScriptKept, FilterKept
  <2>2. \A u : Brought(u)' <=> Brought(u)
    BY <1>1, <2>1 DEF Brought
  <2>3. DOMAIN at = Toolsets /\ DOMAIN got = Toolsets /\ DOMAIN todo' = Toolsets
        /\ \A t \in Toolsets \ Configured : todo'[t] = {}
    BY <1>4 DEF IInv, TypeInv, OfKind
  <2>4. ASSUME NEW u \in Configured
        PROVE  ToolsetInv(u)'
    <3>1. ToolsetInv(u) /\ u \in Toolsets
      BY ConfiguredLater DEF IInv
    <3>2. todo'[u] = IF Set(u).kind = "deployment" THEN Set(u).tools ELSE {}
      BY <1>4, <3>1 DEF OfKind
    <3>3. Accessible(u) \subseteq Set(u).tools
      BY DEF Accessible
    <3>4. DeploymentInv(u)'
      BY <1>1, <1>4, <2>1, <3>1, <3>2, <3>3 DEF ToolsetInv, DeploymentInv
    <3>5. ServerInv(u)'
      BY <1>1, <1>4, <2>1, <2>2, <3>1, <3>2 DEF ToolsetInv, ServerInv
    <3>6. PhaseInv(u)'
      BY <1>1, <1>4, <2>1, <3>1 DEF ToolsetInv, PhaseInv
    <3> QED
      BY <3>4, <3>5, <3>6 DEF ToolsetInv
  <2> QED
    BY <1>1, <1>4, <2>3, <2>4, InitializerMoved
<1> QED
  BY <1>3, <1>4 DEF ModelKnown

LEMMA DeploymentsBuiltOK ==
  ASSUME IInv, DeploymentsBuilt
  PROVE  IInv'
<1>1. /\ UNCHANGED <<script, filter, todo, listed, reading, issues>>
      /\ phase = "deployments" /\ phase' = "mcp"
      /\ got' = [t \in Toolsets |-> IF at[t] = "built" THEN {Set(t).single} ELSE got[t]]
      /\ at' = [t \in Toolsets |-> IF at[t] = "built" THEN "done" ELSE at[t]]
  BY DEF DeploymentsBuilt, resources
<1>2. \A u : /\ Set(u)' = Set(u) /\ Visible(u)' = Visible(u)
             /\ Accessible(u)' = Accessible(u)
             /\ Barred(u)' <=> Barred(u)
             /\ Clear(u)' <=> Clear(u)
  BY <1>1, ScriptKept, FilterKept
<1>3. DOMAIN at' = Toolsets /\ DOMAIN got' = Toolsets /\ DOMAIN todo' = Toolsets
      /\ \A t \in Toolsets \ Configured : at'[t] = at[t] /\ todo'[t] = {}
  BY <1>1 DEF IInv, TypeInv
<1>4. ASSUME NEW u \in Configured
      PROVE  ToolsetInv(u)'
  <2>1. ToolsetInv(u) /\ u \in Toolsets
    BY ConfiguredLater DEF IInv
  <2>2. CASE at[u] = "built"
    <3>1. at'[u] = "done" /\ got'[u] = {Set(u).single}
      BY <1>1, <2>1, <2>2
    <3>2. Set(u).kind = "app" /\ todo[u] = {} /\ u \notin listed
      BY <2>1, <2>2 DEF ToolsetInv, DeploymentInv, ServerInv, AppPlaces
    <3>3. DeploymentInv(u)'
      BY <1>2, <3>2 DEF DeploymentInv
    <3>4. ServerInv(u)'
      BY <1>1, <1>2, <3>1, <3>2 DEF ServerInv, AppPlaces, McpPlaces
    <3>5. PhaseInv(u)'
      BY <1>1, <1>2, <3>1, <3>2 DEF PhaseInv
    <3> QED
      BY <3>3, <3>4, <3>5 DEF ToolsetInv
  <2>3. CASE at[u] # "built"
    <3>1. at'[u] = at[u] /\ got'[u] = got[u]
      BY <1>1, <2>1, <2>3
    <3>2. Brought(u)' <=> Brought(u)
      BY <1>2, <3>1 DEF Brought
    <3>3. DeploymentInv(u)'
      BY <1>1, <1>2, <2>1, <3>1 DEF ToolsetInv, DeploymentInv, Building
    <3>4. ServerInv(u)'
      BY <1>1, <1>2, <2>1, <3>1, <3>2 DEF ToolsetInv, ServerInv
    <3>5. PhaseInv(u)'
      BY <1>1, <1>2, <2>1, <3>1 DEF ToolsetInv, PhaseInv
    <3> QED
      BY <3>3, <3>4, <3>5 DEF ToolsetInv
  <2> QED
    BY <2>2, <2>3
<1> QED
  BY <1>1, <1>3, <1>4, InitializerMoved DEF Building

LEMMA BeginIs ==
  ASSUME NEW t
  PROVE  Begin(t) \in {"info", "connect"}
BY DEF Begin

(* What begins has nothing yet, and the user may access it. *)
LEMMA McpBeginsOK ==
  ASSUME IInv, McpBegins
  PROVE  IInv'
<1>1. /\ UNCHANGED <<script, filter, todo, got, listed, reading, issues>>
      /\ phase = "mcp" /\ phase' = "connecting"
      /\ OfKind("dial") # {} => filter # "idle"
      /\ at' = [t \in Toolsets |->
           IF t \notin McpToolsets THEN at[t]
           ELSE IF Set(t).kind = "dial" /\ Barred(t) THEN "skipped"
           ELSE Begin(t)]
  BY DEF McpBegins, tooling, resources, FilterReady
<1>2. \A u : /\ Set(u)' = Set(u) /\ Visible(u)' = Visible(u)
             /\ Accessible(u)' = Accessible(u)
             /\ Barred(u)' <=> Barred(u)
             /\ Clear(u)' <=> Clear(u)
  BY <1>1, ScriptKept, FilterKept
<1>3. \A u : Brought(u)' <=> Brought(u)
  BY <1>1, <1>2 DEF Brought
<1>4. DOMAIN at' = Toolsets /\ DOMAIN got' = Toolsets /\ DOMAIN todo' = Toolsets
      /\ \A t \in Toolsets \ Configured : at'[t] = at[t] /\ todo'[t] = {}
  BY <1>1 DEF IInv, TypeInv, McpToolsets
<1>5. ASSUME NEW u \in Configured
      PROVE  ToolsetInv(u)'
  <2>1. ToolsetInv(u) /\ u \in Toolsets
    BY ConfiguredLater DEF IInv
  <2>2. CASE u \notin McpToolsets
    <3>1. at'[u] = at[u]
      BY <1>1, <2>1, <2>2
    <3>2. Set(u).kind \notin {"mcp", "dial"}
      BY <2>2 DEF McpToolsets
    <3>3. DeploymentInv(u)'
      BY <1>1, <1>2, <2>1, <3>1 DEF ToolsetInv, DeploymentInv, Building
    <3>4. ServerInv(u)'
      BY <1>1, <1>2, <1>3, <2>1, <3>1 DEF ToolsetInv, ServerInv
    <3>5. PhaseInv(u)'
      BY <1>1, <1>2, <3>2 DEF PhaseInv
    <3> QED
      BY <3>3, <3>4, <3>5 DEF ToolsetInv
  <2>3. CASE u \in McpToolsets
    <3>1. /\ Set(u).kind # "deployment" /\ todo[u] = {} /\ got[u] = {} /\ u \notin listed
          /\ Set(u).kind = "mcp" \/ (Set(u).kind = "dial" /\ filter # "idle") \/ Clear(u)
      <4>1. CASE Set(u).kind \in {"mcp", "dial"}
        <5>1. at[u] = "waiting" /\ (Set(u).kind = "dial" => filter # "idle")
          BY <1>1, <2>1, <4>1 DEF ToolsetInv, PhaseInv, OfKind
        <5> QED
          BY <2>1, <4>1, <5>1 DEF ToolsetInv, ServerInv
      <4>2. CASE at[u] = "routed"
        BY <2>1, <4>2 DEF ToolsetInv, DeploymentInv, ServerInv, AppPlaces
      <4> QED
        BY <2>3, <4>1, <4>2 DEF McpToolsets
    <3>2. \/ at'[u] = "skipped" /\ Barred(u)
          \/ at'[u] \in {"info", "connect"} /\ Clear(u)
      <4>1. at'[u] = IF Set(u).kind = "dial" /\ Barred(u) THEN "skipped" ELSE Begin(u)
        BY <1>1, <2>1, <2>3
      <4>2. CASE Set(u).kind = "dial" /\ Barred(u)
        BY <4>1, <4>2
      <4>3. CASE ~(Set(u).kind = "dial" /\ Barred(u))
        <5>1. Clear(u)
          BY <3>1, <4>3 DEF Clear
        <5> QED
          BY <4>1, <4>3, <5>1, BeginIs
      <4> QED
        BY <4>2, <4>3
    <3>3. DeploymentInv(u)'
      BY <1>2, <3>1 DEF DeploymentInv
    <3>4. ServerInv(u)'
      BY <1>1, <1>2, <3>1, <3>2 DEF ServerInv, AppPlaces, McpPlaces
    <3>5. PhaseInv(u)'
      BY <1>1, <3>2 DEF PhaseInv
    <3> QED
      BY <3>3, <3>4, <3>5 DEF ToolsetInv
  <2> QED
    BY <2>2, <2>3
<1> QED
  BY <1>1, <1>4, <1>5, InitializerMoved DEF Building

LEMMA ResultsClassifiedOK ==
  ASSUME IInv, ResultsClassified
  PROVE  IInv'
<1> DEFINE signIn == {t \in Unauthorized : Set(t).kind = "dial"}
<1>1. /\ UNCHANGED <<script, filter, todo, got, listed, reading>>
      /\ phase = "connecting" /\ AllSettled
      /\ phase' = IF signIn = {} THEN "ready" ELSE "login"
      /\ at' = [t \in Toolsets |-> IF t \in Unauthorized \ signIn THEN "done" ELSE at[t]]
      /\ issues' = issues \cup Refused(Unauthorized)
  BY DEF ResultsClassified, tooling, resources
<1>2. \A u : /\ Set(u)' = Set(u) /\ Visible(u)' = Visible(u)
             /\ Accessible(u)' = Accessible(u)
             /\ Barred(u)' <=> Barred(u)
             /\ Clear(u)' <=> Clear(u)
  BY <1>1, ScriptKept, FilterKept
<1>3. \A u : Brought(u)' <=> Brought(u)
  BY <1>1, <1>2 DEF Brought
<1>4. DOMAIN at' = Toolsets /\ DOMAIN got' = Toolsets /\ DOMAIN todo' = Toolsets
      /\ \A t \in Toolsets \ Configured : at'[t] = at[t] /\ todo'[t] = {}
  BY <1>1 DEF IInv, TypeInv, Unauthorized
<1>5. phase' \in {"ready", "login"}
  BY <1>1
<1>6. ASSUME NEW u \in Configured
      PROVE  ToolsetInv(u)'
  <2>1. ToolsetInv(u) /\ u \in Toolsets
    BY ConfiguredLater DEF IInv
  <2>2. CASE u \in Unauthorized \ signIn
    <3>1. at'[u] = "done" /\ at[u] = "unauthorized" /\ u \in issues'
      BY <1>1, <2>1, <2>2 DEF Unauthorized, Refused
    <3>2. Set(u).kind # "deployment" /\ todo[u] = {}
      BY <2>1, <3>1 DEF ToolsetInv, DeploymentInv, ServerInv
    <3>3. DeploymentInv(u)'
      BY <1>2, <3>2 DEF DeploymentInv
    <3>4. ServerInv(u)'
      BY <1>1, <3>1, <3>2 DEF ServerInv, AppPlaces, McpPlaces
    <3>5. PhaseInv(u)'
      BY <1>5, <3>1 DEF PhaseInv
    <3> QED
      BY <3>3, <3>4, <3>5 DEF ToolsetInv
  <2>3. CASE u \notin Unauthorized \ signIn
    <3>1. at'[u] = at[u]
      BY <1>1, <2>1, <2>3
    <3>2. at[u] \in {"done", "skipped", "unauthorized"}
      BY <1>1 DEF AllSettled
    <3>3. at[u] = "unauthorized" => u \in signIn
      BY <2>1, <2>3 DEF Unauthorized
    <3>4. DeploymentInv(u)'
      BY <1>1, <1>2, <1>5, <2>1, <3>1 DEF ToolsetInv, DeploymentInv, Building
    <3>5. ServerInv(u)'
      BY <1>1, <1>2, <1>3, <2>1, <3>1 DEF ToolsetInv, ServerInv
    <3>6. PhaseInv(u)'
      <4>1. CASE signIn = {}
        BY <1>1, <3>1, <3>2, <3>3, <4>1 DEF PhaseInv
      <4>2. CASE signIn # {}
        <5>1. phase' = "login"
          BY <1>1, <4>2
        <5> QED
          BY <3>1, <3>2, <5>1 DEF PhaseInv
      <4> QED
        BY <4>1, <4>2
    <3> QED
      BY <3>4, <3>5, <3>6 DEF ToolsetInv
  <2> QED
    BY <2>2, <2>3
<1> QED
  BY <1>1, <1>4, <1>5, <1>6, InitializerMoved DEF Building

(* Whoever is signed in was asked for it. *)
LEMMA AdmittedAsked ==
  ASSUME NEW answer \in SignInAnswers(Unauthorized), NEW t \in Admitted(answer)
  PROVE  t \in Unauthorized
<1>1. CASE script.channel
  <2>1. PICK m : answer \in [1..m -> Unauthorized \X {"success", "denied", "error"}]
    BY <1>1 DEF SignInAnswers, BoundedSeq, SeqOf
  <2>2. PICK i \in DOMAIN answer : answer[i] = <<t, "success">>
    BY DEF Admitted
  <2>3. answer[i] \in Unauthorized \X {"success", "denied", "error"}
    BY <2>1, <2>2
  <2> QED
    BY <2>2, <2>3
<1>2. CASE ~script.channel
  <2>1. answer = <<>>
    BY <1>2 DEF SignInAnswers
  <2> QED
    BY <2>1 DEF Admitted
<1> QED
  BY <1>1, <1>2

LEMMA SignedInOK ==
  ASSUME IInv, SignedIn
  PROVE  IInv'
<1>1. UNCHANGED <<script, filter, todo, got, listed, reading>> /\ phase = "login"
  BY DEF SignedIn, tooling, resources
<1>2. \A u : /\ Set(u)' = Set(u) /\ Visible(u)' = Visible(u)
             /\ Accessible(u)' = Accessible(u)
             /\ Barred(u)' <=> Barred(u)
             /\ Clear(u)' <=> Clear(u)
  BY <1>1, ScriptKept, FilterKept
<1>3. \A u : Brought(u)' <=> Brought(u)
  BY <1>1, <1>2 DEF Brought
<1>4. PICK answer \in SignInAnswers(Unauthorized) :
        /\ at' = [t \in Toolsets |->
             IF t \in Admitted(answer) THEN Begin(t)
             ELSE IF t \in Unauthorized THEN "done" ELSE at[t]]
        /\ issues' = issues \cup (Unauthorized \ Admitted(answer))
        /\ phase' = IF Admitted(answer) = {} THEN "ready" ELSE "retry"
  BY DEF SignedIn
<1> DEFINE success == Admitted(answer)
<1>5. success \subseteq Unauthorized
  BY AdmittedAsked
<1>6. phase' \in {"ready", "retry"} /\ (phase' = "ready" => success = {})
  BY <1>4
<1>7. at' = [t \in Toolsets |->
        IF t \in success THEN Begin(t) ELSE IF t \in Unauthorized THEN "done" ELSE at[t]]
  BY <1>4
<1>8. issues' = issues \cup (Unauthorized \ success)
  BY <1>4
<1> HIDE DEF success
<1>9. DOMAIN at' = Toolsets /\ DOMAIN got' = Toolsets /\ DOMAIN todo' = Toolsets
      /\ \A t \in Toolsets \ Configured : at'[t] = at[t] /\ todo'[t] = {}
  BY <1>1, <1>5, <1>7 DEF IInv, TypeInv, Unauthorized
<1>10. ASSUME NEW u \in Configured
       PROVE  ToolsetInv(u)'
  <2>1. ToolsetInv(u) /\ u \in Toolsets
    BY ConfiguredLater DEF IInv
  <2>2. CASE u \notin Unauthorized
    <3>1. at'[u] = at[u] /\ at[u] # "unauthorized"
      BY <1>5, <1>7, <2>1, <2>2 DEF Unauthorized
    <3>2. at[u] \in {"done", "skipped"}
      BY <1>1, <2>1, <3>1 DEF ToolsetInv, PhaseInv
    <3>3. u \in issues => u \in issues'
      BY <1>8
    <3>4. DeploymentInv(u)'
      BY <1>1, <1>2, <1>6, <2>1, <3>1, <3>3 DEF ToolsetInv, DeploymentInv, Building
    <3>5. ServerInv(u)'
      BY <1>1, <1>2, <1>3, <2>1, <3>1, <3>3 DEF ToolsetInv, ServerInv
    <3>6. PhaseInv(u)'
      BY <1>6, <3>1, <3>2 DEF PhaseInv
    <3> QED
      BY <3>4, <3>5, <3>6 DEF ToolsetInv
  <2>3. CASE u \in Unauthorized
    <3>1. at[u] = "unauthorized"
      BY <2>3 DEF Unauthorized
    <3>2. /\ Set(u).kind # "deployment" /\ todo[u] = {}
          /\ Clear(u) /\ (got[u] = {} \/ got[u] = Visible(u))
      BY <2>1, <3>1 DEF ToolsetInv, DeploymentInv, ServerInv, McpPlaces
    <3>3. \/ at'[u] \in {"info", "connect"} /\ phase' = "retry"
          \/ at'[u] = "done" /\ u \in issues'
      <4>1. CASE u \in success
        BY <1>6, <1>7, <2>1, <4>1, BeginIs
      <4>2. CASE u \notin success
        BY <1>7, <1>8, <2>1, <2>3, <4>2
      <4> QED
        BY <4>1, <4>2
    <3>4. DeploymentInv(u)'
      BY <1>2, <3>2 DEF DeploymentInv
    <3>5. ServerInv(u)'
      BY <1>1, <1>2, <3>2, <3>3 DEF ServerInv, AppPlaces, McpPlaces
    <3>6. PhaseInv(u)'
      BY <1>6, <3>3 DEF PhaseInv
    <3> QED
      BY <3>4, <3>5, <3>6 DEF ToolsetInv
  <2> QED
    BY <2>2, <2>3
<1>11. issues \subseteq issues'
  BY <1>8
<1> QED
  BY <1>1, <1>6, <1>9, <1>10, <1>11, InitializerMoved DEF Building

-----------------------------------------------------------------------------
(* Every step, and every behaviour. *)

LEMMA InitializerStepOK ==
  ASSUME IInv, InitializerStep
  PROVE  IInv'
BY StartedOK, ConfigResolvedOK, TemplateMissingOK, FilterAnswersOK, AppsResolvedOK, ModelKnownOK,
   DeploymentsBuiltOK, McpBeginsOK, ResultsClassifiedOK, SignedInOK, RetryEndsOK
   DEF InitializerStep

LEMMA NextOK ==
  ASSUME IInv, [Next]_vars
  PROVE  IInv'
<1>1. CASE \E t \in Configured : ToolsetStep(t)
  BY <1>1, ToolsetStepOK
<1>2. CASE InitializerStep
  BY <1>2, InitializerStepOK
<1>3. CASE StartServing \/ ChoiceRefused
  BY <1>3, StartServingOK
<1>4. CASE CallModel \/ (\E s \in Searches : SearchAnswers(s)) \/ Terminated \/ UNCHANGED vars
  <2>1. UNCHANGED <<script, phase, filter, at, todo, got, listed, reading, issues>>
    BY <1>4 DEF CallModel, SearchAnswers, Terminated, vars, setup
  <2> QED
    BY <2>1, Unmoved
<1> QED
  BY <1>1, <1>2, <1>3, <1>4 DEF Next

LEMMA Invariance == Spec => []IInv
<1>1. Init => IInv
  BY InitOK
<1>2. IInv /\ [Next]_vars => IInv'
  BY NextOK
<1> QED
  BY <1>1, <1>2, PTL DEF Spec

(* The tools that a toolset shows are those that its user may call: nothing is barred. *)
LEMMA ClearShowsAll ==
  ASSUME IInv, NEW t \in Configured, Clear(t)
  PROVE  Visible(t) = Accessible(t) \ Set(t).hidden
<1>1. IsToolset(Set(t))
  BY DEF IInv, ScriptInv
<1>2. CASE filter = "known"
  <2>1. Set(t).barred = {}
    BY <1>1, <1>2 DEF Clear, Barred, IsToolset
  <2> QED
    BY <1>2, <2>1 DEF Visible, Accessible
<1>3. CASE filter # "known"
  BY <1>3 DEF Visible, Accessible
<1> QED
  BY <1>2, <1>3

LEMMA NoneLostNow ==
  ASSUME IInv
  PROVE  IssueOrTools
<1> SUFFICES ASSUME phase = "serving", NEW t \in DOMAIN script.asked,
                    t \notin issues, ~IsReferenceAgain(script.settings, script.asked[t])
             PROVE  \/ at[t] = "skipped" /\ Barred(t)
                    \/ /\ at[t] = "done"
                       /\ \/ got[t] = Accessible(t) \ Set(t).hidden
                          \/ Set(t).kind = "app" /\ got[t] = {Set(t).single}
                          \/ Set(t).kind # "deployment" /\ "tools" \notin Set(t).serves
                       /\ t \in listed => t \in reading
  BY DEF IssueOrTools
<1>1. t \in Configured
  BY DEF IInv, ScriptInv, Building
<1>2. ToolsetInv(t) /\ IsToolset(Set(t))
  BY <1>1 DEF IInv, ScriptInv
<1>3. at[t] \in {"done", "skipped"}
  BY <1>2 DEF ToolsetInv, PhaseInv
<1>4. CASE Set(t).kind = "deployment"
  <2>1. at[t] = "done" /\ t \notin listed /\ todo[t] = {} /\ got[t] = Accessible(t) \ todo[t]
    BY <1>2, <1>3, <1>4 DEF ToolsetInv, DeploymentInv, Building
  <2>2. Set(t).hidden = {}
    BY <1>2, <1>4 DEF IsToolset
  <2> QED
    BY <2>1, <2>2
<1>5. CASE Set(t).kind # "deployment" /\ at[t] = "skipped"
  BY <1>2, <1>5 DEF ToolsetInv, ServerInv
<1>6. CASE Set(t).kind # "deployment" /\ at[t] = "done"
  <2>1. \/ Set(t).kind = "app" /\ got[t] = {Set(t).single} /\ t \notin listed
        \/ Clear(t) /\ Brought(t) /\ (t \in listed => t \in reading)
    BY <1>2, <1>6 DEF ToolsetInv, ServerInv
  <2>2. Clear(t) => Visible(t) = Accessible(t) \ Set(t).hidden
    BY <1>1, ClearShowsAll
  <2> QED
    BY <1>6, <2>1, <2>2 DEF Brought
<1> QED
  BY <1>3, <1>4, <1>5, <1>6

(* No toolset disappears silently: when the model is called, each one that was asked for and
   that the user may access has all its tools, or its server has none, or an issue is shown
   (_resolve_tool_sets, _resolve_one, _process_toolset, _classify_initialization_results,
   _interactive_login_and_retry). *)
THEOREM NoneLost == Spec => []IssueOrTools
<1>1. IInv => IssueOrTools
  BY NoneLostNow
<1> QED
  BY <1>1, Invariance, PTL

-----------------------------------------------------------------------------
(* What the toolsets bring is theirs: the invariant of the tools in the contexts. *)

ScriptTyped ==
  /\ {"model", "clients", "search", "discovery"} \subseteq DOMAIN script
  /\ script.model.defaults \in Seq([type : STRING, name : {Invalid} \cup (Nat \ {0})])
  /\ script.clients \subseteq Nat \ {0} /\ IsFiniteSet(script.clients)
  /\ script.search \in Nat \ {0}

AllShown == UNION {Shown(t) : t \in Configured}

ToolInv ==
  /\ ScriptTyped
  /\ \A t \in Toolsets : t \notin Configured => got[t] = {}
  /\ \A t \in Configured : got[t] \subseteq Shown(t)
  /\ deferred \subseteq AllShown
  /\ hidden \subseteq UNION {Set(t).tools : t \in Configured}

(* The positions of the first k discovered tools that are not offered anyway. *)
Added(k) == {i \in 1..k : lazy[i] \notin EagerNames}

(* The last block is what the first k discovered tools make of it. *)
ServeInv ==
  /\ calls \in Nat /\ (calls > 0 => phase = "serving")
  /\ calls = 0 => lazy = <<>> /\ \A s \in Searches : search[s] # "asking"
  /\ phase = "serving" => ~Conflict
  /\ lazy \in Seq(deferred)
  /\ \A i, j \in DOMAIN lazy : lazy[i] = lazy[j] => i = j
  /\ calls > 0 =>
       /\ \E k \in 0..Len(lazy) : block = SortedEager \o Pick(lazy, Added(k))
       /\ cached = ToCache(block)

(* A step of toolset t brings tools of it only. *)
ToolsOf(t) ==
  /\ UNCHANGED script
  /\ \A u \in Toolsets \ {t} : got'[u] = got[u]
  /\ got'[t] \subseteq got[t] \cup Shown(t)
  /\ deferred' \subseteq deferred \cup Shown(t) /\ hidden' \subseteq hidden \cup Set(t).tools

LEMMA ShownKept ==
  ASSUME UNCHANGED script
  PROVE  /\ Configured' = Configured /\ AllShown' = AllShown
         /\ \A t : Set(t)' = Set(t) /\ Shown(t)' = Shown(t)
         /\ ScriptTyped' <=> ScriptTyped
<1>1. Configured' = Configured /\ \A t : Set(t)' = Set(t) /\ Visible(t)' = Visible(t)
  BY ScriptKept
<1>2. \A t : Shown(t)' = Shown(t)
  BY <1>1 DEF Shown
<1>3. AllShown' = AllShown
  BY <1>1, <1>2 DEF AllShown
<1> QED
  BY <1>1, <1>2, <1>3 DEF ScriptTyped

LEMMA ToolsKept ==
  ASSUME IInv, ToolInv, NEW t \in Configured, ToolsOf(t)
  PROVE  ToolInv'
<1>1. t \in Toolsets /\ got[t] \subseteq Shown(t)
  BY ConfiguredLater DEF ToolInv
<1>2. /\ Configured' = Configured /\ AllShown' = AllShown
      /\ \A u : Set(u)' = Set(u) /\ Shown(u)' = Shown(u)
      /\ ScriptTyped' <=> ScriptTyped
  BY ShownKept DEF ToolsOf
<1>3. \A u \in Toolsets : u \notin Configured => got'[u] = {}
  BY <1>1 DEF ToolInv, ToolsOf
<1>4. \A u \in Configured : got'[u] \subseteq Shown(u)
  <2> SUFFICES ASSUME NEW u \in Configured PROVE got'[u] \subseteq Shown(u)
    OBVIOUS
  <2>1. CASE u = t
    BY <1>1, <2>1 DEF ToolsOf
  <2>2. CASE u # t
    <3>1. u \in Toolsets
      BY ConfiguredLater
    <3> QED
      BY <2>2, <3>1 DEF ToolInv, ToolsOf
  <2> QED
    BY <2>1, <2>2
<1>5. deferred' \subseteq AllShown
  BY DEF ToolInv, ToolsOf, AllShown
<1>6. hidden' \subseteq UNION {Set(u).tools : u \in Configured}
  BY DEF ToolInv, ToolsOf
<1> QED
  BY <1>2, <1>3, <1>4, <1>5, <1>6 DEF ToolInv

LEMMA RegisterBrings ==
  ASSUME IInv, NEW t \in Configured, NEW tools, Register(t, tools), UNCHANGED script
  PROVE  /\ got' = [got EXCEPT ![t] = tools] /\ got'[t] = tools
         /\ \A u \in Toolsets \ {t} : got'[u] = got[u]
         /\ deferred' \subseteq deferred \cup tools
<1>1. t \in Toolsets /\ DOMAIN got = Toolsets
  BY ConfiguredLater DEF IInv, TypeInv
<1> QED
  BY <1>1 DEF Register

LEMMA StepBrings ==
  ASSUME IInv, ToolInv, NEW t \in Configured, ToolsetStep(t)
  PROVE  ToolsOf(t)
<1>1. t \in Toolsets /\ DOMAIN got = Toolsets /\ IsToolset(Set(t)) /\ ToolsetInv(t)
  BY ConfiguredLater DEF IInv, TypeInv, ScriptInv
<1>2. Visible(t) \subseteq Shown(t) /\ got[t] \subseteq Shown(t)
  BY DEF Shown, ToolInv
<1>3. CASE UNCHANGED <<script, got, deferred, hidden>>
  BY <1>3 DEF ToolsOf
<1>4. ASSUME NEW n \in todo[t], BuildTool(t, n) PROVE ToolsOf(t)
  <2>1. Set(t).kind = "deployment"
    BY <1>1 DEF ToolsetInv, ServerInv
  <2>2. Set(t).tools \subseteq Shown(t)
    BY <1>1, <2>1 DEF IsToolset, Shown, Visible
  <2>3. UNCHANGED <<script, deferred, hidden>>
    BY <1>4 DEF BuildTool
  <2>4. \/ n \in Accessible(t) /\ got' = [got EXCEPT ![t] = @ \cup {n}]
        \/ got' = got
    BY <1>4 DEF BuildTool
  <2>5. n \in Accessible(t) => n \in Shown(t)
    BY <2>2 DEF Accessible
  <2>6. /\ \A u \in Toolsets \ {t} : got'[u] = got[u]
        /\ got'[t] \subseteq got[t] \cup Shown(t)
    BY <1>1, <2>4, <2>5
  <2> QED
    BY <2>3, <2>6 DEF ToolsOf
<1>5. CASE ToolsetBuilt(t)
  <2>1. Register(t, got[t]) /\ UNCHANGED <<script, hidden>>
    BY <1>5 DEF ToolsetBuilt
  <2> QED
    BY <1>2, <2>1, RegisterBrings DEF ToolsOf
<1>6. CASE ToolsListed(t)
  <2>1. /\ Register(t, Visible(t)) \/ UNCHANGED <<got, deferred>>
        /\ UNCHANGED script /\ hidden' = hidden \cup (Set(t).tools \cap Set(t).hidden)
    BY <1>6 DEF ToolsListed
  <2> QED
    BY <1>2, <2>1, RegisterBrings DEF ToolsOf
<1>7. ASSUME BeginApp(t) \/ MetadataArrives(t) \/ ConfigArrives(t) \/ InfoArrives(t) \/ Connected(t)
             \/ NextPage(t) \/ ResourcesListed(t) \/ EagerRead(t) \/ RequestRefused(t)
             \/ SessionClosed(t) \/ TransportFails(t)
      PROVE  UNCHANGED <<script, got, deferred, hidden>>
  BY <1>7 DEF BeginApp, MetadataArrives, ConfigArrives, InfoArrives, Connected, NextPage,
              ResourcesListed, EagerRead, RequestRefused, SessionClosed, TransportFails, tooling
<1> QED
  BY <1>3, <1>4, <1>5, <1>6, <1>7 DEF ToolsetStep

LEMMA ToolsUnmoved ==
  ASSUME ToolInv, UNCHANGED <<script, got, deferred, hidden>>
  PROVE  ToolInv'
BY ShownKept DEF ToolInv

LEMMA InitializerBrings ==
  ASSUME IInv, ToolInv, InitializerStep
  PROVE  ToolInv'
<1>1. CASE ConfigResolved
  <2> DEFINE sets == ResolvedToolsets(script.settings, script)
  <2>1. /\ phase = "config" /\ Resolvable(script)
        /\ UNCHANGED <<got, deferred, hidden>>
        /\ script' = [script EXCEPT !.toolsets = sets]
    BY <1>1 DEF ConfigResolved, tooling
  <2>2. Configured = {}
    BY <2>1, ScriptsAssumption DEF IInv, ScriptInv, Configured
  <2>3. deferred = {} /\ hidden = {} /\ \A t \in Toolsets : got[t] = {}
    BY <2>1, <2>2 DEF ToolInv, AllShown, IInv, TypeInv
  <2> HIDE DEF sets
  <2>4. /\ DOMAIN script' = DOMAIN script /\ script'.model = script.model
        /\ script'.clients = script.clients /\ script'.search = script.search
    BY <2>1 DEF ToolInv, ScriptTyped
  <2>5. ScriptTyped'
    BY <2>4 DEF ToolInv, ScriptTyped
  <2>6. \A t \in Configured' : t \in Toolsets
    <3>1. IInv'
      BY <1>1, ConfigResolvedOK
    <3> QED
      BY <3>1 DEF IInv, ScriptInv
  <2>7. \A t \in Configured' : got'[t] = {}
    BY <2>1, <2>3, <2>6
  <2> QED
    BY <2>1, <2>3, <2>5, <2>7 DEF ToolInv
<1>2. CASE DeploymentsBuilt
  <2>1. /\ got' = [t \in Toolsets |-> IF at[t] = "built" THEN {Set(t).single} ELSE got[t]]
        /\ UNCHANGED <<script, hidden, deferred>>
    BY <1>2 DEF DeploymentsBuilt
  <2>2. \A t \in Toolsets : t \notin Configured => at[t] = "absent"
    BY DEF IInv, TypeInv
  <2>3. \A t \in Configured : t \in Toolsets /\ (at[t] = "built" => Set(t).kind = "app")
    BY ConfiguredLater DEF IInv, ToolsetInv, ServerInv, DeploymentInv, AppPlaces
  <2>4. \A t \in Toolsets : t \notin Configured => got'[t] = {}
    BY <2>1, <2>2 DEF ToolInv
  <2>5. \A t \in Configured : got'[t] \subseteq Shown(t)
    BY <2>1, <2>3 DEF ToolInv, Shown
  <2> QED
    BY <2>1, <2>4, <2>5, ShownKept DEF ToolInv
<1>3. ASSUME Started \/ TemplateMissing \/ FilterAnswers \/ AppsResolved \/ ModelKnown \/ McpBegins
             \/ ResultsClassified \/ SignedIn \/ RetryEnds
      PROVE  UNCHANGED <<script, got, deferred, hidden>>
  BY <1>3 DEF Started, TemplateMissing, FilterAnswers, AppsResolved, ModelKnown, McpBegins,
              ResultsClassified, SignedIn, RetryEnds, tooling
<1> QED
  BY <1>1, <1>2, <1>3, ToolsUnmoved DEF InitializerStep

LEMMA InitTools == Init => ToolInv
<1> SUFFICES ASSUME Init PROVE ToolInv
  OBVIOUS
<1>1. /\ script \in Scripts /\ got = [t \in Toolsets |-> {}]
      /\ deferred = {} /\ hidden = {}
  BY DEF Init, SetupInit
<1>2. Configured = {}
  BY <1>1, ScriptsAssumption DEF Configured
<1>3. ScriptTyped
  BY <1>1, OfferAssumption DEF ScriptTyped
<1> QED
  BY <1>1, <1>2, <1>3 DEF ToolInv

LEMMA NextTools == IInv /\ ToolInv /\ [Next]_vars => ToolInv'
<1> SUFFICES ASSUME IInv, ToolInv, [Next]_vars PROVE ToolInv'
  OBVIOUS
<1>1. CASE \E t \in Configured : ToolsetStep(t)
  BY <1>1, StepBrings, ToolsKept
<1>2. CASE InitializerStep
  BY <1>2, InitializerBrings
<1>3. CASE StartServing \/ ChoiceRefused \/ CallModel \/ (\E s \in Searches : SearchAnswers(s))
           \/ Terminated \/ UNCHANGED vars
  <2>1. UNCHANGED <<script, got, deferred, hidden>>
    BY <1>3 DEF StartServing, ChoiceRefused, CallModel, SearchAnswers, Terminated, vars, setup,
                tooling
  <2> QED
    BY <2>1, ToolsUnmoved
<1> QED
  BY <1>1, <1>2, <1>3 DEF Next

-----------------------------------------------------------------------------
(* Sequences, position by position. *)

IsList(s) == s \in Seq(ToSet(s))

LEMMA ListFrom ==
  ASSUME NEW n \in Nat, NEW s, s = [i \in 1..n |-> s[i]]
  PROVE  IsList(s) /\ Len(s) = n
<1>1. DOMAIN s = 1..n
  OBVIOUS
<1>2. ToSet(s) = {s[i] : i \in 1..n}
  BY <1>1 DEF ToSet
<1>3. s \in [1..n -> ToSet(s)]
  BY <1>2
<1> HIDE DEF ToSet
<1>4. s \in Seq(ToSet(s))
  BY <1>3
<1> QED
  BY <1>1, <1>4 DEF IsList

LEMMA ListIs ==
  ASSUME NEW s, IsList(s)
  PROVE  Len(s) \in Nat /\ DOMAIN s = 1..Len(s) /\ s = [i \in 1..Len(s) |-> s[i]]
BY DEF IsList

LEMMA SeqIs ==
  ASSUME NEW E, NEW s \in Seq(E)
  PROVE  Len(s) \in Nat /\ s = [i \in 1..Len(s) |-> s[i]]
OBVIOUS

LEMMA SeqWidens ==
  ASSUME NEW D, NEW E, D \subseteq E, NEW s \in Seq(D)
  PROVE  s \in Seq(E)
<1>1. Len(s) \in Nat /\ s \in [1..Len(s) -> D]
  OBVIOUS
<1>2. s \in [1..Len(s) -> E]
  BY <1>1
<1> QED
  BY <1>1, <1>2

LEMMA Joined ==
  ASSUME NEW s, IsList(s), NEW t, IsList(t)
  PROVE  /\ IsList(s \o t) /\ Len(s \o t) = Len(s) + Len(t)
         /\ \A i \in 1..Len(s) : (s \o t)[i] = s[i]
         /\ \A i \in 1..Len(t) : (s \o t)[Len(s) + i] = t[i]
<1> DEFINE E == ToSet(s) \cup ToSet(t)
           u == s \o t
<1>1. s \in Seq(E) /\ t \in Seq(E)
  <2>1. s \in Seq(ToSet(s)) /\ ToSet(s) \subseteq E /\ t \in Seq(ToSet(t)) /\ ToSet(t) \subseteq E
    BY DEF IsList
  <2> HIDE DEF E
  <2> QED
    BY <2>1, SeqWidens
<1> HIDE DEF E
<1>2. u \in Seq(E) /\ Len(u) = Len(s) + Len(t) /\ Len(s) \in Nat /\ Len(t) \in Nat
  BY <1>1
<1>3. \A i \in 1..Len(s) : u[i] = s[i]
  BY <1>1
<1>4. \A i \in 1..Len(t) : u[Len(s) + i] = t[i]
  BY <1>1
<1> HIDE DEF u
<1>5. u = [i \in 1..Len(u) |-> u[i]] /\ Len(u) \in Nat
  BY <1>2, SeqIs
<1>6. IsList(u)
  BY <1>5, ListFrom
<1> QED
  BY <1>2, <1>3, <1>4, <1>6 DEF u

LEMMA Part ==
  ASSUME NEW s, IsList(s), NEW m \in Nat, NEW n \in Nat, 1 <= m, m <= n + 1, n <= Len(s)
  PROVE  /\ IsList(SubSeq(s, m, n)) /\ Len(SubSeq(s, m, n)) = n - m + 1
         /\ \A i \in 1..(n - m + 1) : SubSeq(s, m, n)[i] = s[m + i - 1]
<1> DEFINE E == ToSet(s)
           t == SubSeq(s, m, n)
<1>1. s \in Seq(E)
  BY DEF IsList
<1> HIDE DEF E
<1>2. Len(t) = n - m + 1 /\ t \in Seq(E) /\ Len(t) \in Nat
  BY <1>1
<1>3. \A i \in 1..(n - m + 1) : t[i] = s[m + i - 1]
  BY <1>1
<1> HIDE DEF t
<1>4. IsList(t)
  BY <1>2, SeqIs, ListFrom
<1> QED
  BY <1>2, <1>3, <1>4 DEF t

(* A set of numbers has a least member, and one that is bounded has a greatest. *)
LEMMA LeastNat ==
  ASSUME NEW I, I \subseteq Nat, I # {}
  PROVE  \E m \in I : \A n \in I : m <= n
<1> DEFINE R == OpToRel(<, Nat)
<1>1. \E m \in I : \A n \in I : ~(<<n, m>> \in R)
  <2>1. IsWellFoundedOn(R, Nat)
    BY NatLessThanWellFounded
  <2> HIDE DEF R
  <2> QED BY <2>1, WFMin
<1>2. \A n, m \in Nat : n < m => <<n, m>> \in R
  BY DEF OpToRel
<1>3. PICK m \in I : \A n \in I : ~(<<n, m>> \in R)
  BY <1>1
<1> HIDE DEF R
<1>4. \A n \in I : ~(n < m)
  BY <1>2, <1>3
<1> QED
  BY <1>4

LEMMA MaxIs ==
  ASSUME NEW I, NEW n \in Nat, I \subseteq 1..n, I # {}
  PROVE  Max(I) \in I /\ \A m \in I : m <= Max(I)
<1> DEFINE U == {b \in Nat : \A m \in I : m <= b}
<1>1. n \in U
  OBVIOUS
<1>2. PICK b \in U : \A c \in U : b <= c
  BY <1>1, LeastNat
<1>3. b \in I
  <2> SUFFICES ASSUME b \notin I PROVE FALSE
    OBVIOUS
  <2>1. \A m \in I : m < b /\ m \in Nat
    BY <1>2
  <2>2. b \in Nat /\ b > 0
    <3>1. PICK m \in I : m < b /\ m \in Nat
      BY <2>1
    <3>2. b \in Nat
      BY <1>2
    <3> QED
      BY <3>1, <3>2
  <2>3. b - 1 \in U
    BY <2>1, <2>2
  <2> QED
    BY <1>2, <2>2, <2>3
<1>4. \E x \in I : \A y \in I : x >= y
  BY <1>2, <1>3
<1>5. Max(I) \in I /\ \A y \in I : Max(I) >= y
  BY <1>4 DEF Max
<1>6. I \subseteq Nat
  OBVIOUS
<1> QED
  BY <1>5, <1>6

LEMMA NthIs ==
  ASSUME NEW n \in Nat, NEW S, S \subseteq 1..n
  PROVE  /\ Cardinality(S) \in Nat
         /\ \A j \in 1..Cardinality(S) : Nth(S, j) \in S
         /\ \A j \in 1..Cardinality(S) : Cardinality({i \in S : i <= Nth(S, j)}) = j
         /\ \A k \in S : /\ Cardinality({i \in S : i <= k}) \in 1..Cardinality(S)
                        /\ Nth(S, Cardinality({i \in S : i <= k})) = k
<1> DEFINE Upto(k) == {j \in S : j <= k}
           place == [k \in S |-> Cardinality(Upto(k))]
           c == Cardinality(S)
<1>1. IsFiniteSet(S) /\ S \subseteq Nat /\ c \in Nat
  <2>1. IsFiniteSet(1..n)
    BY FS_Interval
  <2>2. IsFiniteSet(S)
    BY <2>1, FS_Subset
  <2> QED
    BY <2>2, FS_CardinalityType
<1>2. \A k \in S : IsFiniteSet(Upto(k)) /\ Cardinality(Upto(k)) \in 1..c
  <2> SUFFICES ASSUME NEW k \in S PROVE IsFiniteSet(Upto(k)) /\ Cardinality(Upto(k)) \in 1..c
    OBVIOUS
  <2>1. Upto(k) \in SUBSET S /\ k \in Upto(k)
    BY <1>1
  <2> HIDE DEF Upto
  <2>2. IsFiniteSet(Upto(k)) /\ Cardinality(Upto(k)) <= c
    BY <1>1, <2>1, FS_Subset
  <2>3. Cardinality(Upto(k)) \in Nat /\ Cardinality(Upto(k)) # 0
    BY <2>1, <2>2, FS_CardinalityType, FS_EmptySet
  <2> QED
    BY <1>1, <2>2, <2>3
<1>3. \A k, l \in S : k < l => Cardinality(Upto(k)) # Cardinality(Upto(l))
  <2> SUFFICES ASSUME NEW k \in S, NEW l \in S, k < l, Cardinality(Upto(k)) = Cardinality(Upto(l))
               PROVE  FALSE
    OBVIOUS
  <2>0. k \in Nat /\ l \in Nat /\ S \subseteq Nat
    BY <1>1
  <2>1. Upto(k) \subseteq Upto(l) /\ l \in Upto(l) /\ l \notin Upto(k)
    <3>1. \A j \in S : j <= k => j <= l
      BY <2>0
    <3>2. Upto(k) \subseteq Upto(l)
      BY <3>1
    <3> QED
      BY <2>0, <3>2
  <2>2. IsFiniteSet(Upto(l))
    BY <1>2
  <2> HIDE DEF Upto
  <2>3. Upto(l) = Upto(k)
    BY <2>1, <2>2, FS_Subset
  <2> QED
    BY <2>1, <2>3
<1> HIDE DEF c
<1>4. \A k, l \in S : place[k] = place[l] => k = l
  <2> SUFFICES ASSUME NEW k \in S, NEW l \in S, place[k] = place[l] PROVE k = l
    OBVIOUS
  <2>1. Cardinality(Upto(k)) = Cardinality(Upto(l))
    OBVIOUS
  <2>2. ~(k < l) /\ ~(l < k)
    BY <1>3, <2>1
  <2> QED
    BY <1>1, <2>2
<1>5. place \in [S -> 1..c]
  BY <1>2
<1>6. place \in Surjection(S, 1..c)
  <2>1. place \in Injection(S, 1..c)
    BY <1>4, <1>5 DEF Injection, IsInjective
  <2>2. IsFiniteSet(1..c) /\ Cardinality(1..c) = c
    BY <1>1, FS_Interval
  <2> HIDE DEF place
  <2> QED
    BY <2>1, <2>2, FS_Injection DEF c
<1>7. \A j \in 1..c : \E k \in S : place[k] = j
  BY <1>6 DEF Surjection
<1>8. \A j \in 1..c : \E k \in S : Cardinality(Upto(k)) = j
  BY <1>7
<1>9. \A j \in 1..c : Nth(S, j) \in S /\ Cardinality(Upto(Nth(S, j))) = j
  BY <1>8 DEF Nth
<1>10. \A k \in S : Nth(S, Cardinality(Upto(k))) = k
  <2> SUFFICES ASSUME NEW k \in S PROVE Nth(S, Cardinality(Upto(k))) = k
    OBVIOUS
  <2> DEFINE j == Cardinality(Upto(k))
  <2>1. j \in 1..c
    BY <1>2
  <2>2. Nth(S, j) \in S /\ Cardinality(Upto(Nth(S, j))) = j
    BY <1>9, <2>1
  <2>3. place[Nth(S, j)] = place[k]
    BY <2>2
  <2> HIDE DEF place
  <2> QED
    BY <1>4, <2>2, <2>3
<1> QED
  BY <1>1, <1>2, <1>9, <1>10 DEF c

Places(S, n) == n \in Nat /\ S \subseteq 1..n

NoLater(S, m) == {i \in S : i <= m}

(* The first members of a set have the same numbers in it. *)
LEMMA NthStable ==
  ASSUME NEW n, NEW S, Places(S, n), NEW m \in Nat
  PROVE  /\ Cardinality(NoLater(S, m)) \in Nat
         /\ Cardinality(NoLater(S, m)) <= Cardinality(S)
         /\ \A j \in 1..Cardinality(NoLater(S, m)) : Nth(NoLater(S, m), j) = Nth(S, j)
<1> DEFINE T == NoLater(S, m)
<1>0. n \in Nat /\ S \subseteq 1..n /\ T = NoLater(S, m)
  BY DEF Places
<1> HIDE DEF T
<1>1. T \subseteq S /\ T \subseteq 1..n /\ IsFiniteSet(S)
  <2>1. IsFiniteSet(1..n)
    BY <1>0, FS_Interval
  <2> QED
    BY <1>0, <2>1, FS_Subset DEF NoLater
<1>2. Cardinality(T) \in Nat /\ Cardinality(T) <= Cardinality(S)
  BY <1>1, FS_Subset, FS_CardinalityType
<1>3. ASSUME NEW j \in 1..Cardinality(T) PROVE Nth(T, j) = Nth(S, j)
  <2> DEFINE x == Nth(T, j)
  <2>1. x \in T /\ Cardinality({i \in T : i <= x}) = j
    BY <1>0, <1>1, NthIs
  <2> HIDE DEF x
  <2>2. {i \in T : i <= x} = {i \in S : i <= x}
    <3>1. x \in Nat /\ x <= m /\ S \subseteq Nat
      BY <1>0, <1>1, <2>1 DEF NoLater
    <3>2. \A i \in S : i <= x => i \in T
      BY <1>0, <3>1 DEF NoLater
    <3> QED
      BY <1>1, <3>2
  <2>3. Nth(S, Cardinality({i \in S : i <= x})) = x
    BY <1>0, <1>1, <2>1, NthIs
  <2>4. Nth(S, j) = x
    BY <2>1, <2>2, <2>3
  <2> QED
    BY <2>4 DEF x
<1> QED
  BY <1>2, <1>3 DEF T

LEMMA PickIs ==
  ASSUME NEW n \in Nat, NEW S, S \subseteq 1..n, NEW s
  PROVE  /\ IsList(Pick(s, S)) /\ Len(Pick(s, S)) = Cardinality(S)
         /\ Cardinality(S) \in Nat
         /\ \A j \in 1..Cardinality(S) : Nth(S, j) \in S /\ Pick(s, S)[j] = s[Nth(S, j)]
         /\ \A k \in S : \E j \in 1..Cardinality(S) : Nth(S, j) = k
         /\ \A i, j \in 1..Cardinality(S) : Nth(S, i) = Nth(S, j) => i = j
<1> DEFINE t == Pick(s, S)
           c == Cardinality(S)
<1>1. /\ c \in Nat
      /\ \A j \in 1..c : Nth(S, j) \in S /\ Cardinality({i \in S : i <= Nth(S, j)}) = j
      /\ \A k \in S : \E j \in 1..c : Nth(S, j) = k
  BY NthIs
<1>2. t = [j \in 1..c |-> s[Nth(S, j)]]
  BY DEF Pick
<1> HIDE DEF t, c
<1>3. t = [j \in 1..c |-> t[j]] /\ \A j \in 1..c : t[j] = s[Nth(S, j)]
  BY <1>2
<1>4. IsList(t) /\ Len(t) = c
  BY <1>1, <1>3, ListFrom
<1>5. \A i, j \in 1..c : Nth(S, i) = Nth(S, j) => i = j
  BY <1>1
<1> QED
  BY <1>1, <1>3, <1>4, <1>5 DEF t, c

-----------------------------------------------------------------------------
(* What is offered from the start. *)

Holders(n) == {t \in Toolsets : n \in got[t] /\ n \notin deferred}

Twice(n) == {t \in Holders(n) : times[t] > 1}

LEMMA NamesOK ==
  ASSUME IInv, ToolInv
  PROVE  Names \subseteq Nat \ {0} /\ IsFiniteSet(Names)
<1> DEFINE Of == [t \in Configured |-> Set(t).tools \cup {Set(t).single}]
           all == {Of[t] : t \in Configured}
<1>1. Configured \subseteq Toolsets /\ \A t \in Configured : IsToolset(Set(t))
  BY DEF IInv, ScriptInv
<1>2. Internal \subseteq Nat \ {0} /\ IsFiniteSet(Internal)
  <2>1. Internal = {} \/ Internal = {script.search}
    BY DEF Internal
  <2>2. script.search \in Nat \ {0}
    BY DEF ToolInv, ScriptTyped
  <2>3. IsFiniteSet({}) /\ \A x : IsFiniteSet({x})
    BY FS_EmptySet, FS_Singleton
  <2> QED
    BY <2>1, <2>2, <2>3
<1>3. \A t \in Configured : Of[t] \subseteq Nat \ {0} /\ IsFiniteSet(Of[t])
  <2> SUFFICES ASSUME NEW t \in Configured PROVE Of[t] \subseteq Nat \ {0} /\ IsFiniteSet(Of[t])
    OBVIOUS
  <2>1. Set(t).tools \cup {Set(t).single} \subseteq Nat \ {0} /\ IsFiniteSet(Set(t).tools)
    BY <1>1 DEF IsToolset
  <2>2. IsFiniteSet(Set(t).tools \cup {Set(t).single})
    BY <2>1, FS_Union, FS_Singleton
  <2> QED
    BY <2>1, <2>2
<1>4. Names = (UNION all) \cup script.clients \cup Internal
  BY DEF Names
<1>5. Of \in Surjection(Configured, all)
  BY DEF Surjection
<1> HIDE DEF Of
<1>6. IsFiniteSet(Configured)
  BY <1>1, OfferAssumption, FS_Subset
<1>7. IsFiniteSet(all) /\ \A s \in all : IsFiniteSet(s) /\ s \subseteq Nat \ {0}
  BY <1>3, <1>5, <1>6, FS_Surjection
<1> HIDE DEF all
<1>8. IsFiniteSet(UNION all) /\ UNION all \subseteq Nat \ {0}
  BY <1>7, FS_UNION
<1>9. IsFiniteSet(script.clients) /\ script.clients \subseteq Nat \ {0}
  BY DEF ToolInv, ScriptTyped
<1>10. \A A, B, C : IsFiniteSet(A) /\ IsFiniteSet(B) /\ IsFiniteSet(C) =>
         IsFiniteSet(A \cup B \cup C)
  <2>1. \A A, B : IsFiniteSet(A) /\ IsFiniteSet(B) => IsFiniteSet(A \cup B)
    BY FS_Union
  <2> QED
    BY <2>1
<1>11. IsFiniteSet(Names)
  BY <1>2, <1>4, <1>8, <1>9, <1>10
<1> QED
  BY <1>2, <1>4, <1>8, <1>9, <1>11

(* How often a name is offered: by the toolsets that have it, by those that brought it twice,
   and as a tool of the client or of the application. *)
LEMMA EagerIs ==
  ASSUME NEW n
  PROVE  /\ Eager(n) = Cardinality(Holders(n)) + Cardinality(Twice(n))
                        + (IF n \in script.clients \cup Internal THEN 1 ELSE 0)
         /\ IsFiniteSet(Holders(n)) /\ IsFiniteSet(Twice(n))
         /\ Cardinality(Holders(n)) \in 0..Cardinality(Toolsets)
         /\ Cardinality(Twice(n)) \in 0..Cardinality(Toolsets)
         /\ Cardinality(Toolsets) \in Nat
         /\ Eager(n) \in 0..(2 * Cardinality(Toolsets) + 1)
<1>1. Holders(n) \in SUBSET Toolsets /\ Twice(n) \in SUBSET Toolsets /\ IsFiniteSet(Toolsets)
  BY OfferAssumption DEF Holders, Twice
<1>2. /\ IsFiniteSet(Holders(n)) /\ Cardinality(Holders(n)) <= Cardinality(Toolsets)
      /\ IsFiniteSet(Twice(n)) /\ Cardinality(Twice(n)) <= Cardinality(Toolsets)
  BY <1>1, FS_Subset
<1>3. Cardinality(Holders(n)) \in Nat /\ Cardinality(Twice(n)) \in Nat /\ Cardinality(Toolsets) \in Nat
  BY <1>1, <1>2, FS_CardinalityType
<1>4. Eager(n) = Cardinality(Holders(n)) + Cardinality(Twice(n))
                  + (IF n \in script.clients \cup Internal THEN 1 ELSE 0)
  BY DEF Eager, Holders, Twice
<1>5. \A a, b, c \in Nat : a <= c /\ b <= c =>
         /\ a + b + (IF n \in script.clients \cup Internal THEN 1 ELSE 0) \in 0..(2 * c + 1)
         /\ a \in 0..c /\ b \in 0..c
  OBVIOUS
<1> QED
  BY <1>2, <1>3, <1>4, <1>5

LEMMA OffersOK ==
  ASSUME IInv, ToolInv
  PROVE  /\ EagerNames \subseteq Nat \ {0}
         /\ IsFiniteSet(Offers) /\ Cardinality(Offers) \in Nat
         /\ \A p \in Offers : /\ p = <<p[1], p[2]>> /\ p[1] \in EagerNames
                              /\ p[2] \in Nat /\ 1 <= p[2] /\ p[2] <= Eager(p[1])
                              /\ p[1] \in Nat
         /\ \A n \in EagerNames : <<n, 1>> \in Offers
<1> DEFINE most == 2 * Cardinality(Toolsets) + 1
<1>1. EagerNames \subseteq Nat \ {0} /\ IsFiniteSet(EagerNames)
  BY NamesOK, FS_Subset DEF EagerNames
<1>2. most \in Nat /\ \A n : Eager(n) \in 0..most
  <2>1. Cardinality(Toolsets) \in Nat
    BY OfferAssumption, FS_CardinalityType
  <2>2. \A n : Eager(n) \in 0..most
    BY EagerIs
  <2> QED
    BY <2>1, <2>2
<1> HIDE DEF most
<1>3. IsFiniteSet(EagerNames \X (1..most))
  <2>1. IsFiniteSet(1..most)
    BY <1>2, FS_Interval
  <2> QED
    BY <1>1, <2>1, FS_Product
<1>4. \A p \in Offers : /\ p = <<p[1], p[2]>> /\ p[1] \in EagerNames
                        /\ p[2] \in 1..Eager(p[1])
  BY DEF Offers
<1>5. \A p \in Offers : p[2] \in 1..most /\ p[2] \in Nat /\ 1 <= p[2] /\ p[2] <= Eager(p[1])
  BY <1>2, <1>4
<1>6. Offers \in SUBSET (EagerNames \X (1..most))
  BY <1>4, <1>5
<1>7. IsFiniteSet(Offers) /\ Cardinality(Offers) \in Nat
  BY <1>3, <1>6, FS_Subset, FS_CardinalityType
<1>8. \A n \in EagerNames : <<n, 1>> \in Offers
  <2>1. \A n \in EagerNames : Eager(n) > 0
    BY DEF EagerNames
  <2>2. \A n \in EagerNames : 1 \in 1..Eager(n)
    BY <1>2, <2>1
  <2> QED
    BY <2>2 DEF Offers
<1> QED
  BY <1>1, <1>4, <1>5, <1>7, <1>8

(* The order of the offers numbers them. *)

AtPlace(k) == CHOOSE p \in Offers : Cardinality(UpTo(p)) = k

LEMMA PlacesOK ==
  ASSUME IInv, ToolInv
  PROVE  /\ \A k \in 1..Cardinality(Offers) :
              AtPlace(k) \in Offers /\ Cardinality(UpTo(AtPlace(k))) = k
         /\ \A p \in Offers : /\ Cardinality(UpTo(p)) \in 1..Cardinality(Offers)
                              /\ AtPlace(Cardinality(UpTo(p))) = p
<1> DEFINE c == Cardinality(Offers)
           place == [p \in Offers |-> Cardinality(UpTo(p))]
<1>1. /\ IsFiniteSet(Offers) /\ c \in Nat
      /\ \A p \in Offers : p = <<p[1], p[2]>> /\ p[1] \in Nat /\ p[2] \in Nat
  BY OffersOK
<1>2. \A p \in Offers : UpTo(p) \subseteq Offers /\ p \in UpTo(p) /\ IsFiniteSet(UpTo(p))
  <2>1. \A p \in Offers : UpTo(p) \in SUBSET Offers /\ p \in UpTo(p)
    BY <1>1 DEF UpTo
  <2> QED
    BY <1>1, <2>1, FS_Subset
<1>3. \A p \in Offers : Cardinality(UpTo(p)) \in 1..c
  <2> SUFFICES ASSUME NEW p \in Offers PROVE Cardinality(UpTo(p)) \in 1..c
    OBVIOUS
  <2>1. Cardinality(UpTo(p)) <= c
    BY <1>1, <1>2, FS_Subset
  <2>2. Cardinality(UpTo(p)) \in Nat /\ Cardinality(UpTo(p)) # 0
    BY <1>2, FS_CardinalityType, FS_EmptySet
  <2> QED
    BY <1>1, <2>1, <2>2
<1>4. \A p, q \in Offers : p[1] < q[1] \/ (p[1] = q[1] /\ p[2] < q[2]) =>
        Cardinality(UpTo(p)) # Cardinality(UpTo(q))
  <2> SUFFICES ASSUME NEW p \in Offers, NEW q \in Offers,
                      p[1] < q[1] \/ (p[1] = q[1] /\ p[2] < q[2]),
                      Cardinality(UpTo(p)) = Cardinality(UpTo(q))
               PROVE  FALSE
    OBVIOUS
  <2>1. \A r \in Offers : r[1] < p[1] \/ (r[1] = p[1] /\ r[2] <= p[2]) =>
                          r[1] < q[1] \/ (r[1] = q[1] /\ r[2] <= q[2])
    BY <1>1
  <2>2. UpTo(p) \in SUBSET UpTo(q)
    BY <2>1 DEF UpTo
  <2>3. q \notin UpTo(p)
    BY <1>1 DEF UpTo
  <2>4. UpTo(p) = UpTo(q)
    BY <1>2, <2>2, FS_Subset
  <2> QED
    BY <1>2, <2>3, <2>4
<1> HIDE DEF c
<1>5. \A p, q \in Offers : place[p] = place[q] => p = q
  <2> SUFFICES ASSUME NEW p \in Offers, NEW q \in Offers, place[p] = place[q] PROVE p = q
    OBVIOUS
  <2>1. /\ ~(p[1] < q[1] \/ (p[1] = q[1] /\ p[2] < q[2]))
        /\ ~(q[1] < p[1] \/ (q[1] = p[1] /\ q[2] < p[2]))
    BY <1>4
  <2>2. p[1] = q[1] /\ p[2] = q[2]
    BY <1>1, <2>1
  <2> QED
    BY <1>1, <2>2
<1>6. place \in [Offers -> 1..c]
  BY <1>3
<1>7. place \in Surjection(Offers, 1..c)
  <2>1. place \in Injection(Offers, 1..c)
    BY <1>5, <1>6 DEF Injection, IsInjective
  <2>2. IsFiniteSet(1..c) /\ Cardinality(1..c) = c
    BY <1>1, FS_Interval
  <2> HIDE DEF place
  <2> QED
    BY <2>1, <2>2, FS_Injection DEF c
<1>8. \A k \in 1..c : \E p \in Offers : place[p] = k
  BY <1>7 DEF Surjection
<1>9. \A k \in 1..c : \E p \in Offers : Cardinality(UpTo(p)) = k
  BY <1>8
<1>10. \A k \in 1..c : AtPlace(k) \in Offers /\ Cardinality(UpTo(AtPlace(k))) = k
  BY <1>9 DEF AtPlace
<1>11. \A p \in Offers : AtPlace(Cardinality(UpTo(p))) = p
  <2> SUFFICES ASSUME NEW p \in Offers PROVE AtPlace(Cardinality(UpTo(p))) = p
    OBVIOUS
  <2> DEFINE q == AtPlace(Cardinality(UpTo(p)))
  <2>1. q \in Offers /\ Cardinality(UpTo(q)) = Cardinality(UpTo(p))
    BY <1>3, <1>10
  <2>2. place[q] = place[p]
    BY <2>1
  <2> HIDE DEF place, q
  <2>3. q = p
    BY <1>5, <2>1, <2>2
  <2> QED
    BY <2>3 DEF q
<1> QED
  BY <1>3, <1>10, <1>11 DEF c

LEMMA StaticIs ==
  ASSUME ScriptTyped
  PROVE  /\ IsList(StaticTools) /\ DOMAIN StaticTools = 1..Len(StaticTools)
         /\ Len(StaticTools) \in Nat
         /\ \A i \in 1..Len(StaticTools) : StaticTools[i] \in Int /\ StaticTools[i] < 0
<1> DEFINE defaults == script.model.defaults
           named == {i \in DOMAIN defaults :
                       defaults[i].type = "static_function" /\ defaults[i].name # Invalid}
           valid == Pick(defaults, named)
           tools == [i \in DOMAIN valid |-> -valid[i].name]
<1>1. defaults \in Seq([type : STRING, name : {Invalid} \cup (Nat \ {0})])
  BY DEF ScriptTyped
<1>2. StaticTools = tools
  BY DEF StaticTools
<1> HIDE DEF defaults
<1>3. /\ Len(defaults) \in Nat /\ named \subseteq 1..Len(defaults)
      /\ \A i \in named : defaults[i].name \in Nat \ {0}
  <2>1. Len(defaults) \in Nat /\ DOMAIN defaults = 1..Len(defaults)
    BY <1>1
  <2>2. \A i \in DOMAIN defaults :
          defaults[i] \in [type : STRING, name : {Invalid} \cup (Nat \ {0})]
    <3>1. \A R : defaults \in Seq(R) => \A i \in 1..Len(defaults) : defaults[i] \in R
      OBVIOUS
    <3> QED
      BY <1>1, <2>1, <3>1
  <2>3. \A i \in DOMAIN defaults : defaults[i].name \in {Invalid} \cup (Nat \ {0})
    BY <2>2
  <2> QED
    BY <2>1, <2>3
<1> HIDE DEF named
<1>4. /\ IsList(valid) /\ Len(valid) = Cardinality(named) /\ Cardinality(named) \in Nat
      /\ \A j \in 1..Cardinality(named) : Nth(named, j) \in named /\ valid[j] = defaults[Nth(named, j)]
  BY <1>3, PickIs
<1> HIDE DEF valid
<1>5. DOMAIN valid = 1..Cardinality(named) /\ \A j \in 1..Cardinality(named) : valid[j].name \in Nat \ {0}
  BY <1>3, <1>4, ListIs
<1>6. /\ tools = [j \in 1..Cardinality(named) |-> tools[j]]
      /\ \A j \in 1..Cardinality(named) : tools[j] = -valid[j].name
  BY <1>5
<1> HIDE DEF tools
<1>7. IsList(tools) /\ Len(tools) = Cardinality(named)
  BY <1>4, <1>6, ListFrom
<1>8. \A j \in 1..Cardinality(named) : tools[j] \in Int /\ tools[j] < 0
  BY <1>5, <1>6
<1> QED
  BY <1>2, <1>4, <1>6, <1>7, <1>8

LEMMA SortedIs ==
  ASSUME IInv, ToolInv
  PROVE  /\ IsList(SortedEager) /\ Len(StaticTools) \in Nat /\ Cardinality(Offers) \in Nat
         /\ Len(SortedEager) = Len(StaticTools) + Cardinality(Offers)
         /\ \A i \in 1..Len(StaticTools) : SortedEager[i] = StaticTools[i]
         /\ \A k \in 1..Cardinality(Offers) :
              SortedEager[Len(StaticTools) + k] = AtPlace(k)[1]
<1> DEFINE sorted == [k \in 1..Cardinality(Offers) |-> AtPlace(k)[1]]
<1>1. SortedEager = StaticTools \o sorted
  BY DEF SortedEager, AtPlace
<1>2. /\ sorted = [k \in 1..Cardinality(Offers) |-> sorted[k]]
      /\ \A k \in 1..Cardinality(Offers) : sorted[k] = AtPlace(k)[1]
  OBVIOUS
<1> HIDE DEF sorted
<1>3. Cardinality(Offers) \in Nat
  BY OffersOK
<1>4. IsList(sorted) /\ Len(sorted) = Cardinality(Offers)
  BY <1>2, <1>3, ListFrom
<1>5. IsList(StaticTools) /\ Len(StaticTools) \in Nat
  BY StaticIs DEF ToolInv
<1> QED
  BY <1>1, <1>2, <1>3, <1>4, <1>5, Joined

(* The tools block, position by position. *)
LEMMA BlockIs ==
  ASSUME IInv, ToolInv, lazy \in Seq(deferred), NEW k \in 0..Len(lazy),
         NEW b, b = SortedEager \o Pick(lazy, Added(k))
  PROVE  /\ IsList(b) /\ Len(SortedEager) \in Nat /\ Cardinality(Added(k)) \in Nat
         /\ Added(k) \subseteq 1..Len(lazy)
         /\ Len(b) = Len(SortedEager) + Cardinality(Added(k))
         /\ \A i \in 1..Len(SortedEager) : b[i] = SortedEager[i]
         /\ \A j \in 1..Cardinality(Added(k)) :
              /\ Nth(Added(k), j) \in Added(k)
              /\ b[Len(SortedEager) + j] = lazy[Nth(Added(k), j)]
<1>1. IsList(SortedEager) /\ Len(SortedEager) \in Nat
  BY SortedIs, ListIs
<1>2. Len(lazy) \in Nat /\ Added(k) \subseteq 1..Len(lazy)
  BY DEF Added
<1>3. /\ IsList(Pick(lazy, Added(k))) /\ Len(Pick(lazy, Added(k))) = Cardinality(Added(k))
      /\ Cardinality(Added(k)) \in Nat
      /\ \A j \in 1..Cardinality(Added(k)) :
           /\ Nth(Added(k), j) \in Added(k)
           /\ Pick(lazy, Added(k))[j] = lazy[Nth(Added(k), j)]
  BY <1>2, PickIs
<1> DEFINE added == Pick(lazy, Added(k))
<1>4. IsList(added) /\ Len(added) = Cardinality(Added(k)) /\ b = SortedEager \o added
  BY <1>3
<1>5. \A j \in 1..Cardinality(Added(k)) :
        /\ Nth(Added(k), j) \in Added(k)
        /\ added[j] = lazy[Nth(Added(k), j)]
  BY <1>3
<1> HIDE DEF added
<1>6. /\ IsList(b) /\ Len(b) = Len(SortedEager) + Len(added)
      /\ \A i \in 1..Len(SortedEager) : b[i] = SortedEager[i]
      /\ \A i \in 1..Len(added) : b[Len(SortedEager) + i] = added[i]
  <2> DEFINE s == SortedEager
             t == s \o added
  <2>1. IsList(s) /\ IsList(added) /\ b = t
    BY <1>1, <1>4
  <2> HIDE DEF s
  <2>2. /\ IsList(t) /\ Len(t) = Len(s) + Len(added)
        /\ \A i \in 1..Len(s) : t[i] = s[i]
        /\ \A i \in 1..Len(added) : t[Len(s) + i] = added[i]
    BY <2>1, Joined
  <2> HIDE DEF t
  <2> QED
    BY <2>1, <2>2 DEF s
<1> QED
  BY <1>1, <1>2, <1>3, <1>4, <1>5, <1>6

LEMMA MergedIs ==
  ASSUME lazy \in Seq(deferred)
  PROVE  Merged = SortedEager \o Pick(lazy, Added(Len(lazy)))
<1>1. {i \in DOMAIN lazy : lazy[i] \notin EagerNames} = Added(Len(lazy))
  BY DEF Added
<1> QED
  BY <1>1 DEF Merged

LEMMA OfferKept ==
  ASSUME UNCHANGED <<script, got, times, hidden, deferred>>
  PROVE  /\ EagerNames' = EagerNames /\ SortedEager' = SortedEager
         /\ Conflict' <=> Conflict
<1>1. Internal' = Internal /\ StaticTools' = StaticTools /\ Loaded' = Loaded
  BY DEF Internal, StaticTools, Loaded
<1>2. Names' = Names
  BY <1>1 DEF Names, Set, Configured
<1>3. \A n : Eager(n)' = Eager(n)
  BY <1>1 DEF Eager
<1>4. EagerNames' = EagerNames
  BY <1>2, <1>3 DEF EagerNames
<1>5. Offers' = Offers
  BY <1>3, <1>4 DEF Offers
<1>6. \A p : UpTo(p)' = UpTo(p)
  BY <1>5 DEF UpTo
<1>7. \A k : AtPlace(k)' = AtPlace(k)
  BY <1>5, <1>6 DEF AtPlace
<1>8. SortedEager = StaticTools \o [k \in 1..Cardinality(Offers) |-> AtPlace(k)[1]]
  BY DEF SortedEager, AtPlace
<1>9. SortedEager' = StaticTools' \o [k \in 1..Cardinality(Offers') |-> AtPlace(k)'[1]]
  BY DEF SortedEager, AtPlace
<1>10. SortedEager' = SortedEager
  BY <1>1, <1>5, <1>7, <1>8, <1>9
<1> QED
  BY <1>1, <1>4, <1>10 DEF Conflict

(* Discovered tools are kept in the order in which they were found. *)
LEMMA FoundIs ==
  ASSUME lazy \in Seq(deferred), \A i, j \in DOMAIN lazy : lazy[i] = lazy[j] => i = j,
         NEW names \in Routed, NEW found, found = WithFound(lazy, Discovered(names))
  PROVE  /\ found \in Seq(deferred) /\ Len(lazy) \in Nat /\ Len(found) \in Nat
         /\ Len(lazy) <= Len(found)
         /\ \A i \in 1..Len(lazy) : found[i] = lazy[i]
         /\ \A i, j \in DOMAIN found : found[i] = found[j] => i = j
<1> DEFINE shown == {i \in DOMAIN names : names[i] \in deferred}
           new == Discovered(names)
           first == {i \in DOMAIN new :
                       new[i] \notin ToSet(lazy) /\ \A j \in 1..(i - 1) : new[j] # new[i]}
           added == Pick(new, first)
<1>1. DOMAIN names = 1..Len(names) /\ Len(names) \in Nat
  <2>1. CASE deferred = {}
    BY <2>1 DEF Routed
  <2>2. CASE deferred # {}
    <3>1. PICK m \in 0..MaxFound : names \in [1..m -> deferred \cup {Invented}]
      BY <2>2 DEF Routed, SeqOf
    <3>2. m \in Nat
      BY OfferAssumption
    <3> QED
      BY <3>1, <3>2
  <2> QED
    BY <2>1, <2>2
<1>2. /\ IsList(new) /\ Len(new) \in Nat /\ DOMAIN new = 1..Len(new)
      /\ \A i \in 1..Len(new) : new[i] \in deferred
  <2>1. new = Pick(names, shown) /\ shown \subseteq 1..Len(names)
    BY <1>1 DEF Discovered
  <2>2. \A i \in shown : names[i] \in deferred
    OBVIOUS
  <2> HIDE DEF new, shown
  <2>3. /\ IsList(new) /\ Len(new) = Cardinality(shown)
        /\ \A j \in 1..Cardinality(shown) : Nth(shown, j) \in shown /\ new[j] = names[Nth(shown, j)]
    <3>1. /\ IsList(Pick(names, shown)) /\ Len(Pick(names, shown)) = Cardinality(shown)
          /\ \A j \in 1..Cardinality(shown) :
               Nth(shown, j) \in shown /\ Pick(names, shown)[j] = names[Nth(shown, j)]
      BY <1>1, <2>1, PickIs
    <3> QED
      BY <2>1, <3>1
  <2> QED
    BY <2>2, <2>3, ListIs
<1> HIDE DEF new
<1>3. /\ IsList(added) /\ Len(added) = Cardinality(first) /\ Cardinality(first) \in Nat
      /\ first \subseteq 1..Len(new)
      /\ \A j \in 1..Cardinality(first) : Nth(first, j) \in first /\ added[j] = new[Nth(first, j)]
      /\ \A i, j \in 1..Cardinality(first) : Nth(first, i) = Nth(first, j) => i = j
  <2>1. first \subseteq 1..Len(new)
    BY <1>2
  <2> HIDE DEF first
  <2> QED
    BY <1>2, <2>1, PickIs
<1>4. /\ \A i \in first : new[i] \in deferred /\ \A l \in DOMAIN lazy : lazy[l] # new[i]
      /\ \A i, j \in first : new[i] = new[j] => i = j
  <2>1. \A i \in first : i \in 1..Len(new) /\ new[i] \notin ToSet(lazy)
    BY <1>2
  <2>2. \A i, j \in first : j < i => new[j] # new[i]
    BY <1>2
  <2>3. \A i, j \in first : new[i] = new[j] => i = j
    BY <1>2, <2>1, <2>2
  <2> HIDE DEF first
  <2> QED
    BY <1>2, <2>1, <2>3 DEF ToSet
<1> HIDE DEF first
<1>5. /\ \A j \in 1..Len(added) : added[j] \in deferred /\ \A l \in DOMAIN lazy : lazy[l] # added[j]
      /\ \A i, j \in 1..Len(added) : added[i] = added[j] => i = j
  BY <1>3, <1>4
<1>6. found = lazy \o added
  BY DEF WithFound, first, added, new
<1>7. Len(added) \in Nat /\ added \in Seq(deferred)
  <2>1. Len(added) \in Nat /\ added = [i \in 1..Len(added) |-> added[i]]
    BY <1>3, ListIs
  <2>2. added \in [1..Len(added) -> deferred]
    BY <1>5, <2>1
  <2> HIDE DEF added
  <2> QED
    BY <2>1, <2>2
<1> HIDE DEF added
<1>8. /\ found \in Seq(deferred) /\ Len(lazy) \in Nat /\ Len(found) = Len(lazy) + Len(added)
      /\ DOMAIN lazy = 1..Len(lazy) /\ DOMAIN found = 1..Len(found)
  BY <1>6, <1>7
<1>9. /\ \A i \in 1..Len(lazy) : found[i] = lazy[i]
      /\ \A j \in 1..Len(added) : found[Len(lazy) + j] = added[j]
  BY <1>6, <1>7
<1>10. \A i \in DOMAIN found : \/ i \in 1..Len(lazy)
                               \/ \E j \in 1..Len(added) : i = Len(lazy) + j
  <2> SUFFICES ASSUME NEW i \in DOMAIN found, i \notin 1..Len(lazy)
               PROVE  \E j \in 1..Len(added) : i = Len(lazy) + j
    OBVIOUS
  <2>1. i - Len(lazy) \in 1..Len(added) /\ i = Len(lazy) + (i - Len(lazy))
    BY <1>7, <1>8
  <2> QED
    BY <2>1
<1>11. \A i, j \in DOMAIN found : found[i] = found[j] => i = j
  <2> SUFFICES ASSUME NEW i \in DOMAIN found, NEW j \in DOMAIN found, found[i] = found[j]
               PROVE  i = j
    OBVIOUS
  <2>1. \A l \in 1..Len(lazy), m \in 1..Len(added) : found[l] # found[Len(lazy) + m]
    <3> SUFFICES ASSUME NEW l \in 1..Len(lazy), NEW m \in 1..Len(added)
                 PROVE  found[l] # found[Len(lazy) + m]
      OBVIOUS
    <3>1. found[l] = lazy[l] /\ found[Len(lazy) + m] = added[m]
      BY <1>9
    <3>2. l \in DOMAIN lazy
      BY <1>8
    <3>3. lazy[l] # added[m]
      BY <1>5, <3>2
    <3> QED
      BY <3>1, <3>3
  <2>2. CASE i \in 1..Len(lazy) /\ j \in 1..Len(lazy)
    <3>1. lazy[i] = lazy[j] /\ i \in DOMAIN lazy /\ j \in DOMAIN lazy
      BY <1>8, <1>9, <2>2
    <3> QED
      BY <3>1
  <2>3. CASE i \in 1..Len(lazy) /\ j \notin 1..Len(lazy)
    BY <1>10, <2>1, <2>3
  <2>4. CASE i \notin 1..Len(lazy) /\ j \in 1..Len(lazy)
    BY <1>10, <2>1, <2>4
  <2>5. CASE i \notin 1..Len(lazy) /\ j \notin 1..Len(lazy)
    <3>1. PICK l, m \in 1..Len(added) : i = Len(lazy) + l /\ j = Len(lazy) + m
      BY <1>10, <2>5
    <3>2. added[l] = added[m]
      BY <1>9, <3>1
    <3> QED
      BY <1>5, <3>1, <3>2
  <2> QED
    BY <2>2, <2>3, <2>4, <2>5
<1> QED
  BY <1>7, <1>8, <1>9, <1>11

-----------------------------------------------------------------------------
(* Serving: the block and the discovered tools. *)

LEMMA InitServe == Init => ServeInv
<1> SUFFICES ASSUME Init PROVE ServeInv
  OBVIOUS
<1>1. /\ phase = "start" /\ calls = 0 /\ lazy = <<>> /\ \A s \in Searches : search[s] = "idle"
  BY DEF Init, SetupInit
<1>2. lazy \in Seq(deferred) /\ DOMAIN lazy = {}
  BY <1>1
<1> QED
  BY <1>1, <1>2 DEF ServeInv

(* Before the tools are there nothing is called or found. *)
LEMMA NotServing ==
  ASSUME ServeInv, phase # "serving", phase' # "serving", UNCHANGED <<calls, lazy, search>>
  PROVE  ServeInv'
<1>1. calls = 0 /\ lazy = <<>> /\ \A s \in Searches : search[s] # "asking"
  BY DEF ServeInv
<1>2. lazy' \in Seq(deferred') /\ DOMAIN lazy' = {}
  BY <1>1
<1> QED
  BY <1>1, <1>2 DEF ServeInv

LEMMA StepNotServing ==
  ASSUME IInv, NEW t \in Configured, ToolsetStep(t)
  PROVE  phase # "serving" /\ phase' # "serving"
<1>1. phase # "serving"
  <2> SUFFICES ASSUME phase = "serving" PROVE FALSE
    OBVIOUS
  <2>1. at[t] \in {"done", "skipped"}
    BY DEF IInv, ToolsetInv, PhaseInv
  <2> QED
    BY <2>1 DEF ToolsetStep, BeginApp, MetadataArrives, ConfigArrives, BuildTool, ToolsetBuilt,
                InfoArrives, Connected, NextPage, ToolsListed, ResourcesListed, EagerRead,
                RequestRefused, SessionClosed, TransportFails
<1>2. phase' = phase
  BY DEF ToolsetStep, BeginApp, MetadataArrives, ConfigArrives, BuildTool, ToolsetBuilt,
         InfoArrives, Connected, NextPage, ToolsListed, ResourcesListed, EagerRead,
         RequestRefused, SessionClosed, TransportFails
<1> QED
  BY <1>1, <1>2

LEMMA InitializerNotServing ==
  ASSUME InitializerStep
  PROVE  phase # "serving" /\ phase' # "serving"
<1>1. CASE FilterAnswers
  BY <1>1 DEF FilterAnswers, Asked
<1>2. CASE Started \/ TemplateMissing \/ ConfigResolved \/ AppsResolved \/ ModelKnown \/ DeploymentsBuilt
  BY <1>2 DEF Started, TemplateMissing, ConfigResolved, AppsResolved, ModelKnown, DeploymentsBuilt
<1>3. CASE McpBegins \/ ResultsClassified \/ SignedIn \/ RetryEnds
  BY <1>3 DEF McpBegins, ResultsClassified, SignedIn, RetryEnds
<1> QED
  BY <1>1, <1>2, <1>3 DEF InitializerStep

LEMMA ServeKept ==
  ASSUME ServeInv,
         UNCHANGED <<script, got, times, hidden, deferred, phase, block, calls, cached, lazy>>,
         calls = 0 => search' = search
  PROVE  ServeInv'
<1>1. EagerNames' = EagerNames /\ SortedEager' = SortedEager /\ (Conflict' <=> Conflict)
  BY OfferKept
<1>2. \A k : Added(k)' = Added(k)
  BY <1>1 DEF Added
<1>3. \A k : Pick(lazy, Added(k))' = Pick(lazy, Added(k))
  BY <1>2 DEF Pick
<1>4. ToCache(block)' = ToCache(block)
  BY DEF ToCache, Marked, SelectLastInSeq
<1> QED
  BY <1>1, <1>3, <1>4 DEF ServeInv

LEMMA StartServingServes ==
  ASSUME ServeInv, StartServing
  PROVE  ServeInv'
<1>1. /\ phase = "ready" /\ phase' = (IF Conflict THEN "failed" ELSE "serving")
      /\ UNCHANGED <<script, got, times, hidden, deferred, block, calls, cached, lazy, search>>
  BY DEF StartServing, tooling, offer
<1>2. calls = 0 /\ lazy = <<>> /\ \A s \in Searches : search[s] # "asking"
  BY <1>1 DEF ServeInv
<1>3. Conflict' <=> Conflict
  BY <1>1, OfferKept
<1>4. lazy' \in Seq(deferred') /\ DOMAIN lazy' = {}
  BY <1>1, <1>2
<1> QED
  BY <1>1, <1>2, <1>3, <1>4 DEF ServeInv

LEMMA CallServes ==
  ASSUME IInv, ToolInv, ServeInv, CallModel
  PROVE  ServeInv'
<1>1. /\ phase = "serving" /\ UNCHANGED <<script, got, times, hidden, deferred, phase, lazy>>
      /\ calls' = calls + 1 /\ block' = Merged /\ cached' = ToCache(block')
  BY DEF CallModel, setup
<1>2. /\ EagerNames' = EagerNames /\ SortedEager' = SortedEager /\ (Conflict' <=> Conflict)
  BY <1>1, OfferKept
<1>3. lazy \in Seq(deferred) /\ Len(lazy) \in Nat
  BY DEF ServeInv
<1>4. Added(Len(lazy))' = Added(Len(lazy))
  BY <1>1, <1>2 DEF Added
<1>5. Pick(lazy, Added(Len(lazy)))' = Pick(lazy, Added(Len(lazy)))
  BY <1>1, <1>4 DEF Pick
<1>6. block' = SortedEager' \o Pick(lazy, Added(Len(lazy)))'
  BY <1>1, <1>2, <1>3, <1>5, MergedIs
<1>7. Len(lazy) \in 0..Len(lazy')
  BY <1>1, <1>3
<1>8. cached' = ToCache(block)'
  BY <1>1 DEF ToCache, Marked, SelectLastInSeq
<1>9. calls' \in Nat /\ calls' > 0 /\ calls' # 0
  BY <1>1 DEF ServeInv
<1>10. \E k \in 0..Len(lazy') : block' = SortedEager' \o Pick(lazy', Added(k)')
  BY <1>1, <1>6, <1>7
<1>11. phase' = "serving" /\ ~Conflict'
  BY <1>1, <1>2 DEF ServeInv
<1>12. lazy' \in Seq(deferred') /\ \A i, j \in DOMAIN lazy' : lazy'[i] = lazy'[j] => i = j
  BY <1>1 DEF ServeInv
<1> QED
  BY <1>8, <1>9, <1>10, <1>11, <1>12 DEF ServeInv

LEMMA SearchServes ==
  ASSUME ServeInv, NEW s \in Searches, SearchAnswers(s)
  PROVE  ServeInv'
<1>1. /\ search[s] = "asking"
      /\ UNCHANGED <<script, got, times, hidden, deferred, phase, block, calls, cached>>
      /\ \E names \in Routed : lazy' = WithFound(lazy, Discovered(names))
  BY DEF SearchAnswers, setup
<1>2. calls \in Nat /\ calls # 0 /\ calls > 0 /\ phase = "serving" /\ ~Conflict
  BY <1>1 DEF ServeInv
<1>3. /\ lazy' \in Seq(deferred) /\ Len(lazy) \in Nat /\ Len(lazy') \in Nat
      /\ Len(lazy) <= Len(lazy')
      /\ \A i \in 1..Len(lazy) : lazy'[i] = lazy[i]
      /\ \A i, j \in DOMAIN lazy' : lazy'[i] = lazy'[j] => i = j
  <2>1. lazy \in Seq(deferred) /\ \A i, j \in DOMAIN lazy : lazy[i] = lazy[j] => i = j
    BY DEF ServeInv
  <2> QED
    BY <1>1, <2>1, FoundIs
<1>4. EagerNames' = EagerNames /\ SortedEager' = SortedEager /\ (Conflict' <=> Conflict)
  BY <1>1, OfferKept
<1>5. PICK k \in 0..Len(lazy) : block = SortedEager \o Pick(lazy, Added(k))
  BY <1>2 DEF ServeInv
<1>6. k \in 0..Len(lazy') /\ k \in Nat
  BY <1>3
<1>7. Added(k)' = Added(k)
  <2>1. \A i \in 1..k : lazy'[i] = lazy[i]
    BY <1>3
  <2> QED
    BY <1>4, <2>1 DEF Added
<1>8. Pick(lazy, Added(k))' = Pick(lazy, Added(k))
  <2> DEFINE S == Added(k)
  <2>1. S \subseteq 1..Len(lazy)
    BY <1>3 DEF Added
  <2> HIDE DEF S
  <2>2. \A j \in 1..Cardinality(S) : lazy'[Nth(S, j)] = lazy[Nth(S, j)]
    BY <1>3, <2>1, NthIs
  <2>3. Pick(lazy', S) = Pick(lazy, S)
    BY <2>2 DEF Pick
  <2>4. Pick(lazy, Added(k))' = Pick(lazy', Added(k)')
    BY DEF Pick, Nth
  <2> QED
    BY <1>7, <2>3, <2>4 DEF S
<1>9. ToCache(block)' = ToCache(block)
  BY <1>1 DEF ToCache, Marked, SelectLastInSeq
<1>10. cached' = ToCache(block)'
  BY <1>1, <1>2, <1>9 DEF ServeInv
<1>11. \E l \in 0..Len(lazy') : block' = SortedEager' \o Pick(lazy, Added(l))'
  BY <1>1, <1>4, <1>5, <1>6, <1>8
<1>12. /\ calls' \in Nat /\ calls' # 0 /\ calls' > 0 /\ phase' = "serving" /\ ~Conflict'
       /\ lazy' \in Seq(deferred')
  BY <1>1, <1>2, <1>3, <1>4
<1> QED
  BY <1>3, <1>10, <1>11, <1>12 DEF ServeInv

LEMMA NextServe == IInv /\ ToolInv /\ ServeInv /\ [Next]_vars => ServeInv'
<1> SUFFICES ASSUME IInv, ToolInv, ServeInv, [Next]_vars PROVE ServeInv'
  OBVIOUS
<1>1. ASSUME NEW t \in Configured, ToolsetStep(t) /\ UNCHANGED offer PROVE ServeInv'
  BY <1>1, StepNotServing, NotServing DEF offer
<1>2. CASE InitializerStep /\ UNCHANGED offer
  BY <1>2, InitializerNotServing, NotServing DEF offer
<1>3. CASE StartServing
  BY <1>3, StartServingServes
<1>4. CASE ChoiceRefused
  <2>1. /\ phase' = "failed" /\ calls = 0
        /\ UNCHANGED <<calls, lazy, search>>
    BY <1>4 DEF ChoiceRefused, Unenforceable, offer
  <2>2. lazy' = <<>> /\ \A s \in Searches : search'[s] # "asking"
    BY <2>1 DEF ServeInv
  <2>3. lazy' \in Seq(deferred') /\ DOMAIN lazy' = {}
    BY <2>2
  <2> QED
    BY <2>1, <2>2, <2>3 DEF ServeInv
<1>5. CASE CallModel
  BY <1>5, CallServes
<1>6. CASE \E s \in Searches : SearchAnswers(s)
  BY <1>6, SearchServes
<1>7. CASE Terminated \/ UNCHANGED vars
  <2>1. /\ UNCHANGED <<script, got, times, hidden, deferred, phase, block, calls, cached, lazy>>
        /\ search' = search
    BY <1>7 DEF Terminated, vars, setup, offer
  <2> QED
    BY <2>1, ServeKept
<1> QED
  BY <1>1, <1>2, <1>3, <1>4, <1>5, <1>6, <1>7 DEF Next

LEMMA ServeInvariance == Spec => [](IInv /\ ToolInv /\ ServeInv)
<1>1. Init => IInv /\ ToolInv /\ ServeInv
  BY InitOK, InitTools, InitServe
<1>2. IInv /\ ToolInv /\ ServeInv /\ [Next]_vars => IInv' /\ ToolInv' /\ ServeInv'
  BY NextOK, NextTools, NextServe
<1> QED
  BY <1>1, <1>2, PTL DEF Spec

-----------------------------------------------------------------------------
(* The block of a call is what the toolsets say. *)

(* A tool of the block is a static one, one offered from the start or a discovered one. *)
LEMMA BlockParts ==
  ASSUME IInv, ToolInv, ServeInv, NEW k \in 0..Len(lazy),
         block = SortedEager \o Pick(lazy, Added(k)), NEW i \in 1..Len(block)
  PROVE  \/ /\ i \in 1..Len(StaticTools) /\ block[i] = StaticTools[i]
            /\ block[i] \in Int /\ block[i] < 0
         \/ /\ block[i] \in EagerNames /\ block[i] \in Nat
            /\ \E q \in 1..Cardinality(Offers) :
                 i = Len(StaticTools) + q /\ block[i] = AtPlace(q)[1]
         \/ /\ block[i] \in deferred /\ block[i] \in Nat /\ block[i] \notin EagerNames
            /\ \E j \in 1..Cardinality(Added(k)) :
                 /\ i = Len(SortedEager) + j /\ Nth(Added(k), j) \in Added(k)
                 /\ block[i] = lazy[Nth(Added(k), j)]
<1> DEFINE a == Len(StaticTools)
           c == Cardinality(Offers)
           e == Len(SortedEager)
           d == Cardinality(Added(k))
<1>1. /\ a \in Nat /\ c \in Nat /\ e = a + c
      /\ \A l \in 1..a : SortedEager[l] = StaticTools[l]
      /\ \A q \in 1..c : SortedEager[a + q] = AtPlace(q)[1]
  BY SortedIs
<1>2. lazy \in Seq(deferred) /\ Len(lazy) \in Nat /\ DOMAIN lazy = 1..Len(lazy)
  BY DEF ServeInv
<1>3. /\ d \in Nat /\ Added(k) \subseteq 1..Len(lazy) /\ Len(block) = e + d
      /\ \A l \in 1..e : block[l] = SortedEager[l]
      /\ \A j \in 1..d : Nth(Added(k), j) \in Added(k) /\ block[e + j] = lazy[Nth(Added(k), j)]
  BY <1>2, BlockIs
<1>4. \A l \in 1..a : StaticTools[l] \in Int /\ StaticTools[l] < 0
  BY StaticIs DEF ToolInv
<1>5. \A q \in 1..c : AtPlace(q)[1] \in EagerNames /\ AtPlace(q)[1] \in Nat
  BY PlacesOK, OffersOK
<1>6. \A l \in Added(k) : lazy[l] \in deferred /\ lazy[l] \in Nat /\ lazy[l] \notin EagerNames
  <2>1. \A l \in 1..Len(lazy) : lazy[l] \in deferred
    BY <1>2
  <2>2. deferred \subseteq Nat
    <3>1. \A t \in Configured : IsToolset(Set(t))
      BY DEF IInv, ScriptInv
    <3>2. \A t \in Configured : Set(t).tools \cup {Set(t).single} \subseteq Nat
      BY <3>1 DEF IsToolset
    <3>3. \A t \in Configured : Shown(t) \subseteq Nat
      BY <3>2 DEF Shown, Visible
    <3> QED
      BY <3>3 DEF ToolInv, AllShown
  <2> QED
    BY <1>3, <2>1, <2>2 DEF Added
<1> HIDE DEF a, c, e, d
<1>7. \A x, y, z \in Nat : \A l \in 1..(x + y + z) :
        \/ l \in 1..x /\ l \in 1..(x + y)
        \/ \E q \in 1..y : l = x + q /\ l \in 1..(x + y)
        \/ \E j \in 1..z : l = (x + y) + j
  <2> SUFFICES ASSUME NEW x \in Nat, NEW y \in Nat, NEW z \in Nat, NEW l \in 1..(x + y + z),
                      ~(l \in 1..x /\ l \in 1..(x + y))
               PROVE  \/ \E q \in 1..y : l = x + q /\ l \in 1..(x + y)
                      \/ \E j \in 1..z : l = (x + y) + j
    OBVIOUS
  <2>1. CASE l <= x + y
    <3>1. l - x \in 1..y /\ l = x + (l - x) /\ l \in 1..(x + y)
      BY <2>1
    <3> QED
      BY <3>1
  <2>2. CASE l > x + y
    <3>1. l - (x + y) \in 1..z /\ l = (x + y) + (l - (x + y))
      BY <2>2
    <3> QED
      BY <3>1
  <2> QED
    BY <2>1, <2>2
<1>8. \/ i \in 1..a /\ i \in 1..e
      \/ \E q \in 1..c : i = a + q /\ i \in 1..e
      \/ \E j \in 1..d : i = e + j
  BY <1>1, <1>3, <1>7
<1>9. CASE i \in 1..a /\ i \in 1..e
  BY <1>1, <1>3, <1>4, <1>9 DEF a
<1>10. ASSUME NEW q \in 1..c, i = a + q /\ i \in 1..e
       PROVE  block[i] = AtPlace(q)[1] /\ block[i] \in EagerNames /\ block[i] \in Nat
  BY <1>1, <1>3, <1>5, <1>10
<1>11. ASSUME NEW j \in 1..d, i = e + j
       PROVE  /\ Nth(Added(k), j) \in Added(k) /\ block[i] = lazy[Nth(Added(k), j)]
              /\ block[i] \in deferred /\ block[i] \in Nat /\ block[i] \notin EagerNames
  BY <1>3, <1>6, <1>11
<1>12. CASE \E q \in 1..c : i = a + q /\ i \in 1..e
  BY <1>10, <1>12 DEF a, c
<1>13. CASE \E j \in 1..d : i = e + j
  BY <1>11, <1>13 DEF e, d
<1> QED
  BY <1>8, <1>9, <1>12, <1>13

LEMMA HeldIsEager ==
  ASSUME IInv, ToolInv, NEW t \in Toolsets, NEW n \in got[t], n \notin deferred
  PROVE  n \in EagerNames
<1>1. t \in Configured /\ n \in Shown(t)
  BY DEF ToolInv
<1>2. n \in Names
  BY <1>1 DEF Names, Shown, Visible
<1>3. t \in Holders(n)
  BY DEF Holders
<1>4. IsFiniteSet(Holders(n)) /\ Cardinality(Holders(n)) \in Nat
  BY EagerIs, FS_CardinalityType
<1>5. Cardinality(Holders(n)) # 0
  BY <1>3, <1>4, FS_EmptySet
<1>6. Eager(n) >= Cardinality(Holders(n))
  <2> DEFINE h == Cardinality(Holders(n))
             w == Cardinality(Twice(n))
             o == IF n \in script.clients \cup Internal THEN 1 ELSE 0
  <2>1. Eager(n) = h + w + o /\ w \in Nat
    BY EagerIs, FS_CardinalityType
  <2>2. o \in Nat
    OBVIOUS
  <2> HIDE DEF h, w, o
  <2>3. h \in Nat
    BY <1>4 DEF h
  <2>4. \A x, y, z \in Nat : x + y + z >= x
    OBVIOUS
  <2> QED
    BY <2>1, <2>2, <2>3, <2>4 DEF h
<1> QED
  BY <1>2, <1>4, <1>5, <1>6, EagerIs DEF EagerNames

(* What is offered has been brought, or is a tool of the client or the application. *)
LEMMA EagerComesFrom ==
  ASSUME NEW n \in EagerNames
  PROVE  (\E t \in Toolsets : n \in got[t]) \/ n \in script.clients \cup Internal
<1> SUFFICES ASSUME \A t \in Toolsets : n \notin got[t], n \notin script.clients \cup Internal
             PROVE  FALSE
  OBVIOUS
<1>1. Holders(n) = {} /\ Twice(n) = {}
  BY DEF Holders, Twice
<1>2. Eager(n) = 0 + 0 + 0
  BY <1>1, EagerIs, FS_EmptySet
<1> QED
  BY <1>2 DEF EagerNames

(* A tool that is offered twice from the start is in two toolsets, or was brought twice, or
   has the name of another tool of the client or the application. *)
LEMMA EagerTwice ==
  ASSUME NEW n, Eager(n) >= 2
  PROVE  \/ Cardinality({t \in Toolsets : n \in got[t]}) > 1
         \/ \E t \in Toolsets : n \in got[t] /\ (times[t] > 1 \/ n \in script.clients \cup Internal)
<1> SUFFICES ASSUME \A t \in Toolsets : n \in got[t] =>
                      ~(times[t] > 1) /\ n \notin script.clients \cup Internal
             PROVE  Cardinality({t \in Toolsets : n \in got[t]}) > 1
  OBVIOUS
<1> DEFINE owners == {t \in Toolsets : n \in got[t]}
           h == Cardinality(Holders(n))
<1>1. Twice(n) = {}
  BY DEF Twice, Holders
<1>2. Cardinality(Twice(n)) = 0
  BY <1>1, FS_EmptySet
<1>3. h \in Nat /\ Eager(n) = h + 0 + (IF n \in script.clients \cup Internal THEN 1 ELSE 0)
  BY <1>2, EagerIs, FS_CardinalityType
<1>4. h # 0 /\ n \notin script.clients \cup Internal
  <2>1. h # 0
    BY <1>3
  <2>2. Holders(n) # {}
    BY <2>1, FS_EmptySet
  <2>3. \A t \in Holders(n) : n \notin script.clients \cup Internal
    BY DEF Holders
  <2> QED
    BY <2>1, <2>2, <2>3
<1>5. h >= 2
  BY <1>3, <1>4
<1>6. Holders(n) \in SUBSET owners /\ owners \in SUBSET Toolsets
  BY DEF Holders
<1> HIDE DEF owners
<1>7. IsFiniteSet(owners) /\ Cardinality(owners) \in Nat /\ h <= Cardinality(owners)
  BY <1>6, OfferAssumption, FS_Subset, FS_CardinalityType
<1>8. Cardinality(owners) > 1
  BY <1>3, <1>5, <1>7
<1> QED
  BY <1>8 DEF owners

LEMMA EagerIsOffered ==
  ASSUME IInv, ToolInv, ServeInv, calls > 0, NEW n \in EagerNames
  PROVE  n \in ToSet(block)
<1>1. PICK k \in 0..Len(lazy) : block = SortedEager \o Pick(lazy, Added(k))
  BY DEF ServeInv
<1>2. lazy \in Seq(deferred)
  BY DEF ServeInv
<1>3. <<n, 1>> \in Offers
  BY OffersOK
<1>4. PICK q \in 1..Cardinality(Offers) : AtPlace(q) = <<n, 1>>
  BY <1>3, PlacesOK
<1> DEFINE i == Len(StaticTools) + q
<1>5. /\ Len(StaticTools) \in Nat /\ Cardinality(Offers) \in Nat
      /\ Len(SortedEager) = Len(StaticTools) + Cardinality(Offers)
      /\ SortedEager[i] = n
  BY <1>4, SortedIs
<1>6. i \in 1..Len(SortedEager)
  BY <1>5
<1>7. /\ IsList(block) /\ Len(SortedEager) \in Nat /\ Cardinality(Added(k)) \in Nat
      /\ Len(block) = Len(SortedEager) + Cardinality(Added(k))
      /\ \A l \in 1..Len(SortedEager) : block[l] = SortedEager[l]
  BY <1>1, <1>2, BlockIs
<1>8. i \in 1..Len(block) /\ block[i] = n
  BY <1>5, <1>6, <1>7
<1> QED
  BY <1>7, <1>8, ListIs DEF ToSet

LEMMA TwicePlaced ==
  ASSUME IInv, ToolInv, NEW q \in 1..Cardinality(Offers), NEW r \in 1..Cardinality(Offers),
         q # r, NEW n, AtPlace(q)[1] = n, AtPlace(r)[1] = n
  PROVE  Eager(n) >= 2
<1> DEFINE x == AtPlace(q)
           y == AtPlace(r)
<1>1. x \in Offers /\ y \in Offers /\ x # y
  BY PlacesOK
<1>2. x = <<n, x[2]>> /\ y = <<n, y[2]>>
  BY <1>1, OffersOK
<1>3. /\ x[2] \in Nat /\ 1 <= x[2] /\ x[2] <= Eager(n)
      /\ y[2] \in Nat /\ 1 <= y[2] /\ y[2] <= Eager(n)
  BY <1>1, OffersOK
<1>4. x[2] # y[2]
  BY <1>1, <1>2
<1>5. Eager(n) \in Nat
  <2>1. Eager(n) \in 0..(2 * Cardinality(Toolsets) + 1) /\ Cardinality(Toolsets) \in Nat
    BY EagerIs
  <2> QED
    BY <2>1
<1> HIDE DEF x, y
<1> QED
  BY <1>3, <1>4, <1>5

LEMMA HiddenAreAbsent ==
  ASSUME IInv, ToolInv, ServeInv, calls > 0, NEW n \in (hidden \ Internal) \ AllShown
  PROVE  n \notin ToSet(block) \cup deferred
<1>1. PICK k \in 0..Len(lazy) : block = SortedEager \o Pick(lazy, Added(k))
  BY DEF ServeInv
<1>2. lazy \in Seq(deferred)
  BY DEF ServeInv
<1>3. n \notin deferred
  BY DEF ToolInv
<1>4. n \in Nat
  <2>1. PICK t \in Configured : n \in Set(t).tools
    BY DEF ToolInv
  <2>2. IsToolset(Set(t))
    BY DEF IInv, ScriptInv
  <2> QED
    BY <2>1, <2>2 DEF IsToolset
<1>5. n \notin EagerNames
  <2> SUFFICES ASSUME n \in EagerNames PROVE FALSE
    OBVIOUS
  <2>1. CASE \E t \in Toolsets : n \in got[t]
    <3>1. PICK t \in Toolsets : n \in got[t]
      BY <2>1
    <3>2. t \in Configured /\ n \in Shown(t)
      BY <3>1 DEF ToolInv
    <3> QED
      BY <3>2 DEF AllShown
  <2>2. CASE n \in script.clients
    <3>1. Conflict
      BY <2>2 DEF Conflict
    <3> QED
      BY <3>1 DEF ServeInv
  <2> QED
    BY <2>1, <2>2, EagerComesFrom
<1>6. IsList(block)
  BY <1>1, <1>2, BlockIs
<1>7. \A i \in 1..Len(block) : block[i] # n
  <2> SUFFICES ASSUME NEW i \in 1..Len(block), block[i] = n PROVE FALSE
    OBVIOUS
  <2>1. ~(n \in Int /\ n < 0)
    BY <1>4
  <2> QED
    BY <1>1, <1>3, <1>5, <2>1, BlockParts
<1> QED
  BY <1>3, <1>6, <1>7, ListIs DEF ToSet

LEMMA TwiceOffered ==
  ASSUME IInv, ToolInv, ServeInv, calls > 0,
         NEW i \in 1..Len(block), NEW j \in 1..Len(block), i < j, block[i] = block[j]
  PROVE  \/ Cardinality({t \in Toolsets : block[i] \in got[t]}) > 1
         \/ \E t \in Toolsets : block[i] \in got[t] /\ (times[t] > 1 \/ block[i] \in Internal)
         \/ \E k, l \in DOMAIN StaticTools :
              k # l /\ StaticTools[k] = block[i] /\ StaticTools[l] = block[i]
<1> DEFINE n == block[i]
           a == Len(StaticTools)
<1>1. PICK k \in 0..Len(lazy) : block = SortedEager \o Pick(lazy, Added(k))
  BY DEF ServeInv
<1>2. /\ lazy \in Seq(deferred) /\ \A x, y \in DOMAIN lazy : lazy[x] = lazy[y] => x = y
      /\ ~Conflict
  BY DEF ServeInv
<1>3. a \in Nat /\ DOMAIN StaticTools = 1..a
  BY StaticIs DEF ToolInv
<1>4. ~(n \in Nat /\ n < 0) /\ i # j
  OBVIOUS
<1> DEFINE Static(x) == x \in 1..a /\ n = StaticTools[x] /\ n < 0
           Sorted(x) == /\ n \in EagerNames /\ n \in Nat
                        /\ \E q \in 1..Cardinality(Offers) : x = a + q /\ n = AtPlace(q)[1]
           Found(x) == /\ n \in Nat /\ n \notin EagerNames
                       /\ \E m \in 1..Cardinality(Added(k)) :
                            /\ x = Len(SortedEager) + m /\ Nth(Added(k), m) \in Added(k)
                            /\ n = lazy[Nth(Added(k), m)]
<1>5. Static(i) \/ Sorted(i) \/ Found(i)
  BY <1>1, BlockParts
<1>6. Static(j) \/ Sorted(j) \/ Found(j)
  <2>1. \/ /\ j \in 1..Len(StaticTools) /\ block[j] = StaticTools[j]
           /\ block[j] \in Int /\ block[j] < 0
        \/ /\ block[j] \in EagerNames /\ block[j] \in Nat
           /\ \E q \in 1..Cardinality(Offers) :
                j = Len(StaticTools) + q /\ block[j] = AtPlace(q)[1]
        \/ /\ block[j] \in deferred /\ block[j] \in Nat /\ block[j] \notin EagerNames
           /\ \E m \in 1..Cardinality(Added(k)) :
                /\ j = Len(SortedEager) + m /\ Nth(Added(k), m) \in Added(k)
                /\ block[j] = lazy[Nth(Added(k), m)]
    BY <1>1, BlockParts
  <2> QED
    BY <2>1
<1>7. CASE Static(i) /\ Static(j)
  BY <1>3, <1>4, <1>7
<1>8. CASE Sorted(i) /\ Sorted(j)
  <2>1. PICK q \in 1..Cardinality(Offers) : i = a + q /\ n = AtPlace(q)[1]
    BY <1>8
  <2>2. PICK r \in 1..Cardinality(Offers) : j = a + r /\ n = AtPlace(r)[1]
    BY <1>8
  <2>3. q # r
    BY <1>4, <2>1, <2>2
  <2> HIDE DEF n, a
  <2>4. Eager(n) >= 2
    BY <2>1, <2>2, <2>3, TwicePlaced
  <2>5. \A t \in Toolsets : n \in got[t] /\ n \in script.clients => Conflict
    BY DEF Conflict, Loaded
  <2>6. \/ Cardinality({t \in Toolsets : n \in got[t]}) > 1
        \/ \E t \in Toolsets : n \in got[t] /\ (times[t] > 1 \/ n \in Internal)
    BY <1>2, <2>4, <2>5, EagerTwice
  <2> QED
    BY <2>6 DEF n
<1>9. CASE Found(i) /\ Found(j)
  <2>1. PICK m \in 1..Cardinality(Added(k)) :
          /\ i = Len(SortedEager) + m /\ Nth(Added(k), m) \in Added(k)
          /\ n = lazy[Nth(Added(k), m)]
    BY <1>9
  <2>2. PICK o \in 1..Cardinality(Added(k)) :
          /\ j = Len(SortedEager) + o /\ Nth(Added(k), o) \in Added(k)
          /\ n = lazy[Nth(Added(k), o)]
    BY <1>9
  <2>3. Added(k) \subseteq 1..Len(lazy) /\ Len(lazy) \in Nat /\ DOMAIN lazy = 1..Len(lazy)
    BY <1>2 DEF Added
  <2>4. Nth(Added(k), m) = Nth(Added(k), o)
    BY <1>2, <2>1, <2>2, <2>3
  <2>5. m = o
    BY <2>3, <2>4, PickIs
  <2> QED
    BY <1>4, <2>1, <2>2, <2>5
<1>10. Static(i) => ~Sorted(j) /\ ~Found(j)
  BY <1>4
<1>11. Sorted(i) \/ Found(i) => ~Static(j)
  BY <1>4
<1>12. Sorted(i) => ~Found(j)
  OBVIOUS
<1>13. Found(i) => ~Sorted(j)
  OBVIOUS
<1> HIDE DEF Static, Sorted, Found, n
<1> QED
  BY <1>5, <1>6, <1>7, <1>8, <1>9, <1>10, <1>11, <1>12, <1>13

LEMMA OfferMatchesNow ==
  ASSUME IInv, ToolInv, ServeInv
  PROVE  OfferMatchesToolsets
<1> SUFFICES ASSUME calls > 0 PROVE OfferMatchesToolsets
  BY DEF OfferMatchesToolsets
<1>1. \A n \in Loaded : n \in ToSet(block) \/ n \in deferred
  BY HeldIsEager, EagerIsOffered DEF Loaded
<1>2. \A n \in (hidden \ Internal) \ UNION {Shown(t) : t \in Configured} :
        n \notin ToSet(block) \cup deferred
  BY HiddenAreAbsent DEF AllShown
<1>3. \A i, j \in 1..Len(block) : i < j /\ block[i] = block[j] =>
        \/ Cardinality({t \in Toolsets : block[i] \in got[t]}) > 1
        \/ \E t \in Toolsets : block[i] \in got[t] /\ (times[t] > 1 \/ block[i] \in Internal)
        \/ \E k, l \in DOMAIN StaticTools :
             k # l /\ StaticTools[k] = block[i] /\ StaticTools[l] = block[i]
  BY TwiceOffered
<1> QED
  BY <1>1, <1>2, <1>3 DEF OfferMatchesToolsets

(* What the model may see it is offered or can find, what is hidden everywhere it is not, and
   nothing is offered twice that was not there twice (_load_tools, provide_openai_tools,
   provide_extra_openai_tools, tool_search). *)
THEOREM OfferMatches == Spec => []OfferMatchesToolsets
<1>1. IInv /\ ToolInv /\ ServeInv => OfferMatchesToolsets
  BY OfferMatchesNow
<1> QED
  BY <1>1, ServeInvariance, PTL

-----------------------------------------------------------------------------
(* The block and its cached part only grow at the end. *)

LEMMA PrefixIs ==
  ASSUME NEW s, IsList(s), NEW t, IsList(t), Len(s) <= Len(t),
         \A i \in 1..Len(s) : t[i] = s[i]
  PROVE  IsPrefix(s, t)
<1>1. Len(s) \in Nat /\ Len(t) \in Nat
  BY ListIs
<1> DEFINE n == Len(s)
           u == SubSeq(s, 1, n)
           v == SubSeq(t, 1, n)
<1>2. IsList(u) /\ Len(u) = n - 1 + 1 /\ \A i \in 1..(n - 1 + 1) : u[i] = s[1 + i - 1]
  BY <1>1, Part
<1>3. IsList(v) /\ Len(v) = n - 1 + 1 /\ \A i \in 1..(n - 1 + 1) : v[i] = t[1 + i - 1]
  BY <1>1, Part
<1> HIDE DEF u, v
<1>4. Len(u) = n /\ Len(v) = n /\ \A i \in 1..n : u[i] = v[i]
  BY <1>1, <1>2, <1>3
<1>5. u = [i \in 1..n |-> u[i]] /\ v = [i \in 1..n |-> v[i]]
  BY <1>2, <1>3, <1>4, ListIs
<1>6. u = v
  BY <1>4, <1>5
<1> QED
  BY <1>6 DEF IsPrefix, u, v

LEMMA SelfPrefix ==
  ASSUME NEW s, IsList(s)
  PROVE  IsPrefix(s, s)
<1>1. Len(s) <= Len(s)
  BY ListIs
<1> QED
  BY <1>1, PrefixIs

LEMMA MarkedIs ==
  ASSUME NEW s, IsList(s)
  PROVE  /\ Marked(s) \in 0..Len(s)
         /\ Marked(s) > 0 => s[Marked(s)] > 0
         /\ \A i \in 1..Len(s) : s[i] > 0 => i <= Marked(s)
<1> DEFINE I == {i \in 1..Len(s) : s[i] > 0}
           m == Marked(s)
<1>1. Len(s) \in Nat
  BY ListIs
<1>2. m = IF I # {} THEN Max(I) ELSE 0
  BY DEF Marked, SelectLastInSeq
<1> HIDE DEF m
<1>3. I = {} \/ (Max(I) \in I /\ \A i \in I : i <= Max(I))
  <2>1. I \subseteq 1..Len(s)
    OBVIOUS
  <2> HIDE DEF I
  <2> QED
    BY <1>1, <2>1, MaxIs
<1>4. (m = 0 /\ I = {}) \/ (m \in I /\ \A i \in I : i <= m)
  BY <1>2, <1>3
<1>5. /\ m \in 0..Len(s) /\ (m > 0 => s[m] > 0)
      /\ \A i \in 1..Len(s) : s[i] > 0 => i <= m
  BY <1>1, <1>4
<1> QED
  BY <1>5 DEF m

(* What is cached of a list is cached of every longer one. *)
LEMMA CacheGrows ==
  ASSUME NEW s, IsList(s), NEW t, IsList(t), Len(s) <= Len(t),
         \A i \in 1..Len(s) : t[i] = s[i]
  PROVE  IsPrefix(ToCache(s), ToCache(t))
<1>1. CASE ~script.model.caches
  <2>1. ToCache(s) = <<>> /\ ToCache(t) = <<>>
    BY <1>1 DEF ToCache
  <2>2. IsList(<<>>)
    BY DEF IsList
  <2> QED
    BY <2>1, <2>2, SelfPrefix
<1>2. CASE script.model.caches
  <2> DEFINE m == Marked(s)
             n == Marked(t)
             u == SubSeq(s, 1, m)
             v == SubSeq(t, 1, n)
  <2>1. Len(s) \in Nat /\ Len(t) \in Nat
    BY ListIs
  <2>2. m \in 0..Len(s) /\ (m > 0 => s[m] > 0)
    BY MarkedIs
  <2>3. n \in 0..Len(t) /\ \A i \in 1..Len(t) : t[i] > 0 => i <= n
    BY MarkedIs
  <2>4. ToCache(s) = u /\ ToCache(t) = v
    BY <1>2 DEF ToCache
  <2> HIDE DEF m, n
  <2>5. m <= n
    <3>1. CASE m = 0
      BY <2>1, <2>3, <3>1
    <3>2. CASE m > 0
      <4>1. m \in 1..Len(s) /\ m \in 1..Len(t)
        BY <2>1, <2>2, <3>2
      <4>2. t[m] > 0
        BY <2>2, <3>2, <4>1
      <4> QED
        BY <2>3, <4>1, <4>2
    <3> QED
      BY <2>1, <2>2, <3>1, <3>2
  <2>6. IsList(u) /\ Len(u) = m - 1 + 1 /\ \A i \in 1..(m - 1 + 1) : u[i] = s[1 + i - 1]
    BY <2>1, <2>2, Part
  <2>7. IsList(v) /\ Len(v) = n - 1 + 1 /\ \A i \in 1..(n - 1 + 1) : v[i] = t[1 + i - 1]
    BY <2>1, <2>3, Part
  <2> HIDE DEF u, v
  <2>8. Len(u) = m /\ Len(v) = n /\ \A i \in 1..m : v[i] = u[i]
    BY <2>1, <2>2, <2>3, <2>5, <2>6, <2>7
  <2> QED
    BY <2>4, <2>5, <2>6, <2>7, <2>8, PrefixIs
<1> QED
  BY <1>1, <1>2

LEMMA CallGrows ==
  ASSUME IInv, ToolInv, ServeInv, calls > 0, CallModel
  PROVE  IsPrefix(block, block') /\ IsPrefix(cached, cached')
<1>1. /\ block' = Merged /\ cached' = ToCache(block')
      /\ lazy \in Seq(deferred) /\ Len(lazy) \in Nat /\ cached = ToCache(block)
  BY DEF CallModel, ServeInv
<1>2. PICK k \in 0..Len(lazy) : block = SortedEager \o Pick(lazy, Added(k))
  BY DEF ServeInv
<1> DEFINE new == SortedEager \o Pick(lazy, Added(Len(lazy)))
           a == Len(SortedEager)
           S == Added(Len(lazy))
           T == Added(k)
<1>3. block' = new
  BY <1>1, MergedIs
<1>4. /\ IsList(block) /\ a \in Nat /\ Cardinality(T) \in Nat
      /\ Len(block) = a + Cardinality(T)
      /\ \A i \in 1..a : block[i] = SortedEager[i]
      /\ \A j \in 1..Cardinality(T) : block[a + j] = lazy[Nth(T, j)]
  BY <1>1, <1>2, BlockIs
<1>5. /\ IsList(new) /\ Cardinality(S) \in Nat
      /\ Len(new) = a + Cardinality(S)
      /\ \A i \in 1..a : new[i] = SortedEager[i]
      /\ \A j \in 1..Cardinality(S) : new[a + j] = lazy[Nth(S, j)]
  <2>1. Len(lazy) \in 0..Len(lazy)
    BY <1>1
  <2> QED
    BY <1>1, <2>1, BlockIs
<1>6. /\ Cardinality(T) <= Cardinality(S)
      /\ \A j \in 1..Cardinality(T) : Nth(T, j) = Nth(S, j)
  <2>1. S \subseteq 1..Len(lazy) /\ T = NoLater(S, k) /\ k \in Nat
    <3>1. k \in Nat /\ k <= Len(lazy)
      BY <1>1
    <3>2. \A i : i \in 1..k <=> i \in 1..Len(lazy) /\ i <= k
      BY <1>1, <3>1
    <3> QED
      BY <3>1, <3>2 DEF Added, NoLater
  <2> DEFINE top == Len(lazy)
  <2>2. Places(S, top)
    BY <1>1, <2>1 DEF Places
  <2> HIDE DEF S, T, top
  <2>3. /\ Cardinality(T) \in Nat /\ Cardinality(T) <= Cardinality(S)
        /\ \A j \in 1..Cardinality(T) : Nth(T, j) = Nth(S, j)
    BY <2>1, <2>2, NthStable
  <2> QED
    BY <2>3
<1> HIDE DEF new, a, S, T
<1>7. Len(block) <= Len(new)
  BY <1>4, <1>5, <1>6
<1>8. \A i \in 1..Len(block) : new[i] = block[i]
  <2> SUFFICES ASSUME NEW i \in 1..Len(block) PROVE new[i] = block[i]
    OBVIOUS
  <2>1. CASE i <= a
    <3>1. i \in 1..a
      BY <1>4, <2>1
    <3> QED
      BY <1>4, <1>5, <3>1
  <2>2. CASE ~(i <= a)
    <3> DEFINE j == i - a
    <3>1. j \in 1..Cardinality(T) /\ j \in 1..Cardinality(S) /\ i = a + j
      BY <1>4, <1>5, <1>6, <2>2
    <3> HIDE DEF j
    <3>2. block[i] = lazy[Nth(T, j)] /\ new[i] = lazy[Nth(S, j)]
      BY <1>4, <1>5, <3>1
    <3> QED
      BY <1>6, <3>1, <3>2
  <2> QED
    BY <2>1, <2>2
<1>9. IsPrefix(block, new)
  BY <1>4, <1>5, <1>7, <1>8, PrefixIs
<1>10. IsPrefix(ToCache(block), ToCache(new))
  BY <1>4, <1>5, <1>7, <1>8, CacheGrows
<1> QED
  BY <1>1, <1>3, <1>9, <1>10

LEMMA StepGrows ==
  ASSUME IInv, ToolInv, ServeInv, Next, calls > 0
  PROVE  IsPrefix(block, block') /\ IsPrefix(cached, cached')
<1>1. phase = "serving"
  BY DEF ServeInv
<1>2. ~\E t \in Configured : ToolsetStep(t)
  BY <1>1, StepNotServing
<1>3. ~InitializerStep /\ ~StartServing /\ ~ChoiceRefused
  BY <1>1, InitializerNotServing DEF StartServing, ChoiceRefused, Unenforceable
<1>4. CASE CallModel
  BY <1>4, CallGrows
<1>5. CASE (\E s \in Searches : SearchAnswers(s)) \/ Terminated
  <2>1. UNCHANGED <<block, cached>>
    BY <1>5 DEF SearchAnswers, Terminated, vars, offer
  <2>2. IsList(block) /\ cached = ToCache(block)
    <3>1. PICK k \in 0..Len(lazy) : block = SortedEager \o Pick(lazy, Added(k))
      BY DEF ServeInv
    <3> QED
      BY <3>1, BlockIs DEF ServeInv
  <2>3. IsPrefix(block, block)
    BY <2>2, SelfPrefix
  <2>4. IsPrefix(ToCache(block), ToCache(block))
    <3>1. Len(block) <= Len(block)
      BY <2>2, ListIs
    <3> QED
      BY <2>2, <3>1, CacheGrows
  <2> QED
    BY <2>1, <2>2, <2>3, <2>4
<1> QED
  BY <1>2, <1>3, <1>4, <1>5 DEF Next

(* Whatever parallel searches find, the block of a call begins with the one before it, and
   what the model was asked to cache is cached again (_merge_tools, _place_cache_breakpoints,
   LazyLoadedToolsHolder.add). *)
THEOREM BlockOnlyGrows == Spec => BlockGrowsAtEnd
<1>1. IInv /\ ToolInv /\ ServeInv /\ [Next]_vars =>
        [calls > 0 => IsPrefix(block, block') /\ IsPrefix(cached, cached')]_vars
  BY StepGrows
<1> QED
  BY <1>1, ServeInvariance, PTL DEF Spec, BlockGrowsAtEnd

=============================================================================
