---------------------------- MODULE MCToolBatch -----------------------------
(* An instance of ToolBatch for TLC: two or three calls of one request, chosen so that
   they meet at a file, at a load or at a promotion. *)
EXTENDS ToolBatch, TLC

CONSTANTS a, b, z, r, g, h, x, y, w

Blank1 == [path |-> r, dest |-> g, force |-> FALSE, names |-> <<r, g>>, links |-> {},
           strategies |-> <<>>, mode |-> "single"]

Do(tool) == [tool |-> tool] @@ Blank1
On(file, job) == [job EXCEPT !.path = file]
Forced(job) == [job EXCEPT !.force = TRUE]
Ask(urls) == [Do("ask") EXCEPT !.links = urls]
With(strategies, job) == [job EXCEPT !.strategies = strategies]
Strategy(kind, on) == [kind |-> kind, on |-> on]

Two(p, q) == (a :> p) @@ (b :> q)
Three(p, q, s) == Two(p, q) @@ (z :> s)

Changes == {Do("edit"), Do("write"), Forced(Do("write")), Do("move"), Do("delete"), Do("save")}

(* Two changes of one file; a change beside a tool that reads it. *)
Pairs ==
  {Two(Do("edit"), q) : q \in Changes}
  \cup {Two(p, q) : p \in {Do("save"), Do("move")}, q \in {Do("write"), Do("save"), Do("move")}}
  \cup {Two(p, q) : p \in {Do("read"), Do("attach")},
                    q \in Changes \cup {On(g, Do("copy")), Forced(On(g, Do("move")))}}
  \cup {Two(On(g, Do("read")), On(g, Do("attach"))), Two(On(g, Do("edit")), Forced(Do("copy"))),
        Two(Do("scan"), Do("edit")), Two(On(h, Do("read")), On(h, Do("scan")))}

(* Two calls share a load beside a third that changes the file, or comes later; a read, a
   change and a second read. *)
Loads ==
  {Three(Do("attach"), Do("attach"), q) : q \in {Do("attach"), Do("delete")}}
  \cup {Three(Do("read"), q, Do("read")) : q \in {Forced(Do("write")), Do("delete")}}

(* Calls that share promotions; the strategies of a call that fails. *)
Asks ==
  {Three(Ask({x}), Ask({x}), Ask({x})), Two(Ask({x, y}), Ask({x, y})),
   Two(Ask({}), With(<<Strategy("stop", "any"), Strategy("hard_stop", "timeout")>>, Ask({x}))),
   Two(With(<<Strategy("hard_stop", "error")>>, Ask({})),
       With(<<Strategy("continue", "timeout")>>, Do("attach")))}

Request(calls, stored, others) ==
  [calls |-> calls, files |-> stored, others |-> others,
   gate |-> "allowed", admin |-> Hosts, builder |-> Hosts, redirects |-> {}]

MCSite == [u \in Urls |-> CHOOSE h1 \in Hosts : TRUE]

MCScripts ==
  {Request(p, stored, 1) : p \in Pairs, stored \in {{r, h}, {r, g, h}, {g}}}
  \cup {Request(p, {r}, 1) : p \in Loads}
  \cup {Request(p, {r}, 0) : p \in Asks}

=============================================================================
