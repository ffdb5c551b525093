---------------------------- MODULE MCAgentTools ----------------------------
(* An instance of AgentTools for TLC: two or three toolsets of each kind. *)
EXTENDS AgentTools

CONSTANTS t, u, v, d, s1, s2

Mcp == [kind |-> "mcp", tools |-> {2, 4}, hidden |-> {}, keep |-> FALSE, resources |-> "none",
        serves |-> {"tools", "resources"}, transport |-> "auto", deployment |-> d,
        barred |-> {}, single |-> 6, simple |-> {}, pages |-> 1, stray |-> {},
        predefined |-> {}]
Dial == [Mcp EXCEPT !.kind = "dial", !.tools = {1, 3}, !.resources = "eager"]
App == [Mcp EXCEPT !.kind = "app", !.tools = {1, 5}]
Deployment == [Mcp EXCEPT !.kind = "deployment", !.tools = {3, 5}, !.simple = {5}]

Hiding(n, set) == [set EXCEPT !.hidden = {n}]
Kept(set) == [set EXCEPT !.keep = TRUE]
BarredFrom(tools, set) == [set EXCEPT !.barred = tools]

Two(p, q) == (t :> p) @@ (u :> q)
Three(p, q, r) == Two(p, q) @@ (v :> r)

Inline(set) == [template |-> Unset, set |-> set]
Reference(name, override) == [template |-> name, override |-> override]
ToolReference(name, override) ==
  [template |-> name, override |-> override, enabled |-> TRUE]

NoSettings == [extra |-> Unset, base |-> Unset]

StaticTool(n) == [type |-> "static_function", name |-> n]
Model == [efforts |-> {}, caches |-> TRUE,
          defaults |-> <<StaticTool(9), [type |-> "other", name |-> 4], StaticTool(Invalid)>>]

Asking(asked) ==
  [asked |-> asked, prompt |-> "default", settings |-> NoSettings, toolsets |-> <<>>,
   filtered |-> TRUE, channel |-> TRUE, discovery |-> TRUE, least |-> 2, clients |-> {7},
   search |-> 8, choice |-> "auto", effort |-> Unset, model |-> Model]

Configuration(toolsets) == Asking([w \in DOMAIN toolsets |-> Inline(toolsets[w])])

(* Templates: of the built-in layer, of one that replaces a toolset, and of a broken one. *)
Dep(tools) == (<<"type">> :> "deployment") @@ (<<"tools">> :> tools)
NamedTool(n) == (<<"type">> :> "tool") @@ (<<"function", "name">> :> n)

MCDirectories ==
  ("builtin" :> ((<<"prompt", "default">> :> "text")
                 @@ (<<"toolset", "basic">> :> Dep({1}))
                 @@ (<<"toolset", "alias">> :> (<<"type">> :> "predefined"))
                 @@ (<<"tool", "search">> :> NamedTool(2))))
  @@ ("site" :> (<<"toolset", "basic">> :> (Dep({3}) @@ (<<"defer", "keep">> :> TRUE))))
  @@ ("broken" :> (<<"tool", "search">> :> Unreadable))

MCToolset(doc) ==
  IF <<"type">> \notin DOMAIN doc THEN Invalid
  ELSE IF doc[<<"type">>] = "predefined" THEN [Deployment EXCEPT !.kind = "predefined"]
  ELSE IF <<"tools">> \notin DOMAIN doc THEN Invalid
  ELSE [Deployment EXCEPT !.tools = doc[<<"tools">>],
                          !.keep = <<"defer", "keep">> \in DOMAIN doc]

MCTool(doc) ==
  IF <<"function", "name">> \in DOMAIN doc THEN doc[<<"function", "name">>] ELSE Invalid

MCScripts ==
  { \* MCP toolsets that need a sign-in, with deferred and hidden tools
    Configuration(Two([Hiding(2, Mcp) EXCEPT !.pages = 2, !.stray = {4}], Kept(Dial))),
    Configuration(Two(Dial, [Hiding(4, Dial) EXCEPT !.tools = {2, 3, 4}])),
    [Configuration(Two(Mcp, BarredFrom({1}, Dial))) EXCEPT !.channel = FALSE, !.least = 1],
    [Configuration(Two([Dial EXCEPT !.serves = {"resources"}, !.resources = "lazy"],
                       [Mcp EXCEPT !.serves = {"tools"}, !.resources = "lazy",
                                   !.pages = 4]))
       EXCEPT !.filtered = FALSE, !.discovery = FALSE],
    \* dial-app toolsets of one deployment, beside one that forces its transport
    Configuration(Two(Kept(App), [Hiding(5, App) EXCEPT !.transport = "mcp"])),
    [Configuration(Three(App, [App EXCEPT !.transport = "chat", !.single = 3], Mcp))
       EXCEPT !.discovery = FALSE, !.clients = {}],
    Configuration(Two(BarredFrom({1}, App), Deployment)),
    \* deployment toolsets, and a client whose tool has the name of a hidden one
    [Configuration(Two(BarredFrom({3}, Deployment), [Deployment EXCEPT !.tools = {2, 4}]))
       EXCEPT !.least = 1],
    [Configuration(Two(Deployment, Hiding(2, Mcp))) EXCEPT !.clients = {2}, !.effort = "high"],
    \* a model without static tools, and a choice that needs a tool
    [Configuration(t :> Mcp)
       EXCEPT !.discovery = FALSE, !.clients = {}, !.choice = "required", !.effort = "high",
              !.model = [Model EXCEPT !.defaults = <<>>, !.caches = FALSE, !.efforts = {"high"}]],
    [Configuration(t :> Mcp) EXCEPT !.clients = {9}],
    \* a tool with the name of tool_search, a static tool that is there twice, and a
    \* synthesized tool with the name of a hidden one
    [Configuration(Two([Hiding(6, Mcp) EXCEPT !.tools = {2, 4, 6}], [App EXCEPT !.transport = "chat"]))
       EXCEPT !.least = 3, !.search = 4, !.model.defaults = <<StaticTool(9), StaticTool(9)>>],
    \* templates, overridden and refused, of one or two layers
    [Asking((t :> Reference("basic", <<>>))
            @@ (u :> Inline([Deployment EXCEPT !.predefined =
                               {ToolReference("search", <<>>),
                                ToolReference("search", <<"function", "name">> :> 4),
                                ToolReference("search", <<"function">> :> Null)}])))
       EXCEPT !.settings.extra = <<Blank, "site">>, !.settings.base = "broken"],
    Asking((t :> Reference("basic", (<<"defer">> :> Null) @@ (<<"tools">> :> {4})))
           @@ (u :> Reference("basic", <<"type">> :> "mcp")) @@ (v :> Reference("alias", <<>>))),
    [Asking((t :> Reference("basic", <<"tools">> :> Null)) @@ (u :> Inline(Dial)))
       EXCEPT !.settings.base = "site"],
    [Configuration(t :> Mcp) EXCEPT !.prompt = "other"],
    Asking(t :> Reference("other", <<>>)),
    [Configuration(t :> Mcp) EXCEPT !.settings.base = "broken"],
    [Configuration(t :> Mcp) EXCEPT !.settings.extra = <<"nowhere">>, !.prompt = Unset] }

=============================================================================
