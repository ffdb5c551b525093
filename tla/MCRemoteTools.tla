--------------------------- MODULE MCRemoteTools ----------------------------
(* An instance of RemoteTools for TLC: requests of two or three calls, of one answer or of
   one after the other, chosen so that they meet in a thread, a session, the shared client
   or a promotion. *)
EXTENDS RemoteTools, TLC

CONSTANTS a, b, z, old, x, y, doc, far, near, inner, off

MCSite == (x :> far) @@ (y :> far)

Plain == [query |-> "text", links |-> {}, strategies |-> <<>>, name |-> "helper", mode |-> "single",
        session |-> NoSession, inputs |-> <<>>, params |-> {}, auth |-> "none",
        attachable |-> FALSE]

Ask(urls) == [tool |-> "ask"] @@ [Plain EXCEPT !.links = urls]
Talk(urls, id) == [Ask(urls) EXCEPT !.mode = "resumable", !.session = id]
Code(files) == [tool |-> "python"] @@ [Plain EXCEPT !.inputs = files, !.name = "code"]
Fetch(place, auth) ==
  [tool |-> "rest"] @@
    [Plain EXCEPT !.name = "fetch",
                !.params = {[place |-> place, value |-> "plain"], [place |-> "query", value |-> "none"]},
                !.auth = auth, !.attachable = TRUE]

Mute(job) == [job EXCEPT !.query = ""]

Turn(id, thread) ==
  [id |-> id, tool |-> "helper", session |-> thread, query |-> "text", links |-> {},
   args |-> "ok", result |-> "text"]

(* An earlier request's thread: a call of it that has no result, one without a query, one
   whose arguments are no JSON, and a call of another tool. *)
Past ==
  <<[Turn(old, NoSession) EXCEPT !.links = {y}], [Turn("lost", old) EXCEPT !.result = "none"],
    [Turn("mute", old) EXCEPT !.query = ""],
    [Turn("odd", NoSession) EXCEPT !.args = "broken", !.result = "empty"],
    [Turn("other", old) EXCEPT !.tool = "writer"]>>

Base == [past |-> Past, gate |-> "allowed", admin |-> Hosts, builder |-> {far, near, inner},
         redirects |-> {}, session |-> 0, stored |-> {}, expiring |-> {}, busy |-> FALSE,
         attached |-> Urls \cup Workspace, bearer |-> FALSE, other |-> FALSE,
         name |-> (x :> "x") @@ (y :> "y") @@ (doc :> "x")]

Plan(rounds, p, q, s) == [calls |-> (a :> p) @@ (b :> q) @@ (z :> s), plan |-> rounds] @@ Base
Pair(rounds, p, q) == [calls |-> (a :> p) @@ (b :> q), plan |-> rounds] @@ Base
Both == <<<<a, b>>>>
Then == <<<<a>>, <<b>>>>

ThreadScripts ==
  {Plan(<<<<a>>, <<b, z>>>>, Talk({}, id), Talk({}, IF id = NoSession THEN a ELSE id), other) :
     id \in {NoSession, old}, other \in {Talk({}, NoSession), Talk({x}, old), Fetch("url", "none")}}
  \cup {Pair(rounds, [Ask({x}) EXCEPT !.mode = mode], [Ask({y}) EXCEPT !.mode = mode]) :
          rounds \in {Both, Then}, mode \in {"single", "propagated"}}
  \cup {Plan(<<<<a>>, <<b>>, <<z>>>>, first, Mute(Talk({}, a)), Talk({}, a)) :
          first \in {Talk({}, NoSession), Mute(Talk({}, NoSession)), Mute(Talk({x}, NoSession))}}
  \cup {Pair(Then, Talk({x}, NoSession), [Ask({y}) EXCEPT !.name = "writer", !.mode = "propagated"])}

Redirected(s) == [s EXCEPT !.redirects = Hosts]

FetchScripts ==
  {Redirected(Pair(Then, Ask({x}), Fetch("body", auth))) :
     auth \in {"none", "client_id_secret", "forwarded"}}
  \cup {Redirected(Pair(Then, Code(<<x>>), Fetch("url", "forwarded"))),
        [Pair(Both, Ask({x}), Code(<<x>>)) EXCEPT !.gate = "builder"]}

(* The session of an earlier request: none, one that is there, or one that ends. *)
Sessions ==
  {[session |-> 0, stored |-> {}, expiring |-> {}],
   [session |-> 1, stored |-> {"x"}, expiring |-> {1}],
   [session |-> 1, stored |-> {}, expiring |-> {}, busy |-> TRUE]}

CodeScripts ==
  {s @@ Pair(Both, Code(i), Code(<<>>)) : s \in Sessions, i \in {<<>>, <<doc>>}}
  \cup {s @@ Pair(Then, Code(i), Code(j)) : s \in Sessions, i \in {<<>>, <<doc>>}, j \in {<<doc>>, <<y>>}}
  \cup {Pair(Both, Ask({x}), Code(<<x, doc>>)), [Pair(Then, Code(<<x, doc>>), Code(<<y>>)) EXCEPT !.other = TRUE], Pair(Both, Code(<<y>>), Code(<<y>>)),
        [Pair(Then, Code(<<y, x>>), Code(<<doc>>)) EXCEPT !.attached = {x, doc}]}

MCScripts == ThreadScripts \cup FetchScripts \cup CodeScripts

=============================================================================
