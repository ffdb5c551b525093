-------------------------- MODULE MCToolCallStream --------------------------
(* An instance of ToolCallStream for TLC: call a streams every object of at most two
   members, call b a small one beside a. *)
EXTENDS ToolCallStream, TLC

CONSTANTS a, b

MCKeyConfig ==
  [k \in {"p", "n", "i", "f", "r"} |->
     CASE k = "p" -> "plain" [] k = "n" -> "none" [] k = "i" -> "ignored"
       [] k = "f" -> "fenced" [] k = "r" -> "replaced"]

MCPresentation ==
  [n \in FunctionNames |->
     CASE n = "python" -> "config_map" [] n = "mcp" -> "json_object" [] OTHER -> "none"]

Str(v, text) == [value |-> v, string |-> TRUE, text |-> <<Quote>> \o text \o <<Quote>>]
Raw(text) == [value |-> text, string |-> FALSE, text |-> text]

Values == {
  Str(<<>>, <<>>),
  Str(<<"x", "}">>, <<"x", "}">>),
  Str(<<Quote, "u">>, <<Backslash, Quote, "u">>),
  Str(<<Backslash>>, <<Backslash, Backslash>>),
  Str(<<"uni", "0">>, <<Backslash, "u", "0", "0", "4", "1", "0">>),
  Raw(<<"0", "1">>),
  Raw(<<"[", "{", Quote, Backslash, Quote, "]", Quote, ":", "[", "]", "}", "]">>),
  Raw(<<"{", "}">>)}

Short == {v \in Values : Len(v.text) <= 4}

Member(k, v) == [key |-> k, value |-> v.value, string |-> v.string, text |-> v.text]

One == {<<Member(k, v)>> : k \in DOMAIN KeyConfig, v \in Values}

Two ==
  {<<Member(k, v), Member(l, w)>> : k \in {"p", "i", "f"}, v \in Short, l \in {"n", "r"}, w \in Short}

Small == {<<>>, <<Member("p", Raw(<<"0">>))>>}

Call(n, o, spaced) == [name |-> n, object |-> o, text |-> JsonText(o, spaced)]

Alone(names, objects, spaced, flaky) ==
  {[calls |-> [c \in {a} |-> Call(n, o, spaced)],
    stages |-> IF flaky THEN StageIndexes ELSE {}, flaky |-> flaky] :
     n \in names, o \in objects}

MCScripts ==
  Alone({"python", "mcp"}, Two, FALSE, FALSE) \cup Alone({"python", "mcp"}, One, TRUE, FALSE)
  \cup Alone(FunctionNames, Small, FALSE, TRUE)
  \cup {[calls |-> [c \in Calls |-> IF c = a THEN Call(n, <<>>, FALSE) ELSE Call(m, <<>>, FALSE)],
         stages |-> StageIndexes, flaky |-> FALSE] :
           n \in {"python", "mcp"}, m \in {"python", "quiet"}}

=============================================================================
