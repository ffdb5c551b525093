---------------------------- MODULE MCMCPTools ----------------------------
(* An instance of MCPTools for TLC: a tool call and a resource read that share a session,
   and toolsets that may have the same name. *)
EXTENDS MCPTools, TLC

CONSTANTS a, r

SameToolset == [c \in Calls |-> "dial"]

Names(p, q) == ("dial" :> p) @@ ("plain" :> q)

Registered(names, listed, client, fixed, flagged) ==
  [name |-> names, listed |-> ("dial" :> listed[1]) @@ ("plain" :> listed[2]),
   client |-> client, fixed |-> fixed, flagged |-> flagged]

Url(files, scheme, host, segments) ==
  [files |-> files, scheme |-> scheme, host |-> host, segments |-> segments]

(* One url of each class, and two that are DIAL files by another reading. *)
MCParts ==
  ("files/x" :> Url(TRUE, "none", "none", <<"name", "name">>))
  @@ ("http://core/x" :> Url(FALSE, "http", "core", <<>>))
  @@ ("http://web/x" :> Url(FALSE, "http", "web", <<>>))
  @@ ("home/x/" :> Url(FALSE, "none", "none", <<"name", "name", "empty">>))
  @@ ("../x" :> Url(FALSE, "none", "none", <<"dots", "name">>))
  @@ ("data:x" :> Url(FALSE, "data", "none", <<>>))

Nothing == <<>>

MCRegistries ==
  { Registered(Names("n", "m"), <<{"u"}, {"v"}>>, ("n" :> "dial") @@ ("m" :> "plain"),
               Nothing, {"dial"}),
    Registered(Names("n", "m"), <<{"u"}, {"u"}>>, ("n" :> "dial") @@ ("m" :> "plain"),
               "dial" :> "files/x", {"dial"}),
    Registered(Names("n", "n"), <<{"u"}, {"v"}>>, "n" :> "dial", Nothing, {}),
    Registered(Names("n", "m"), <<{"u"}, {}>>, ("n" :> "none") @@ ("m" :> "plain"),
               Nothing, {"dial"}) }

=============================================================================
