-------------------------- MODULE ArgumentStreamer --------------------------
(***************************************************************************)
(* Tool-call arguments while they stream: JsonObjectArgumentStreamer walks *)
(* the top-level keys of a JSON object character by character, and         *)
(* StreamingArgumentPresenter turns its events into what the tool's stage  *)
(* shows.  Both are values here, with one operator per method.             *)
(*                                                                         *)
(* A character is a string of length one, a piece of stage content a       *)
(* token [is, key, text]: what kind of piece, for which key, and the       *)
(* characters shown.  A \uXXXX escape decodes to the one character "uni".  *)
(***************************************************************************)
EXTENDS Naturals, Sequences, SequencesExt

CONSTANTS
  KeyConfig,  \* display.stage of a parameter: [keys -> Displays]
  NoKey       \* no key has been read yet

Displays == {"none", "plain", "ignored", "fenced", "replaced"}

ASSUME KeyAssumption ==
  /\ \A k \in DOMAIN KeyConfig : KeyConfig[k] \in Displays
  /\ NoKey \notin DOMAIN KeyConfig

Quote == "\""
Backslash == "\\"
Space == {" "}
Opens == {"{", "["}
Closes == {"}", "]"}

-----------------------------------------------------------------------------
(* JsonObjectArgumentStreamer *)

NewStreamer ==
  [phase |-> "seek_object", key |-> <<>>, current |-> NoKey, escape |-> FALSE,
   hex |-> 0, parts |-> <<>>, raw |-> <<>>, depth |-> 0, inString |-> FALSE,
   nestEscape |-> FALSE]

Stay(s) == [s |-> s, events |-> <<>>]
Emit(s, event) == [s |-> s, events |-> <<event>>]

KeyReady(k) == [is |-> "key", key |-> k, value |-> <<>>, string |-> FALSE]
StringChars(k, ch) == [is |-> "chars", key |-> k, value |-> <<ch>>, string |-> TRUE]
ValueComplete(k, v, str) == [is |-> "value", key |-> k, value |-> v, string |-> str]
ObjectDone == [is |-> "done", key |-> NoKey, value |-> <<>>, string |-> FALSE]

(* _consume_string_char: the decoded character, "pending" or the "end" of the string. *)
StringChar(s, ch) ==
  IF s.hex > 0
    THEN [s |-> [s EXCEPT !.hex = @ - 1], got |-> IF s.hex = 1 THEN "uni" ELSE "pending"]
  ELSE IF s.escape
    THEN [s |-> [s EXCEPT !.escape = FALSE, !.hex = IF ch = "u" THEN 4 ELSE 0],
          got |-> IF ch = "u" THEN "pending" ELSE ch]
  ELSE IF ch = Backslash
    THEN [s |-> [s EXCEPT !.escape = TRUE], got |-> "pending"]
  ELSE [s |-> s, got |-> IF ch = Quote THEN "end" ELSE ch]

InKey(s, ch) ==
  LET d == StringChar(s, ch)
      k == Head(s.key)   \* a key is one character in this model
  IN CASE d.got = "end"     -> Emit([d.s EXCEPT !.phase = "after_key", !.current = k], KeyReady(k))
       [] d.got = "pending" -> Stay(d.s)
       [] OTHER             -> Stay([d.s EXCEPT !.key = Append(@, d.got)])

InString(s, ch) ==
  LET d == StringChar(s, ch)
  IN CASE d.got = "end"     -> Emit([d.s EXCEPT !.phase = "between_keys", !.parts = <<>>],
                                    ValueComplete(s.current, s.parts, TRUE))
       [] d.got = "pending" -> Stay(d.s)
       [] OTHER             -> Emit([d.s EXCEPT !.parts = Append(@, d.got)],
                                    StringChars(s.current, d.got))

(* _finish_raw_value: the buffered text of a nested value or a scalar. *)
FinishRaw(s, raw) ==
  Emit([s EXCEPT !.phase = "between_keys", !.raw = <<>>], ValueComplete(s.current, raw, FALSE))

BetweenKeys(s, ch) ==
  CASE ch = "}"   -> Emit([s EXCEPT !.phase = "done"], ObjectDone)
    [] ch = Quote -> Stay([s EXCEPT !.phase = "in_key", !.key = <<>>, !.escape = FALSE, !.hex = 0])
    [] OTHER      -> Stay(s)

(* _consume_raw_char inside an object or an array. *)
InNested(s, ch) ==
  LET t == [s EXCEPT !.raw = Append(@, ch)] IN
  CASE s.inString /\ s.nestEscape -> Stay([t EXCEPT !.nestEscape = FALSE])
    [] s.inString /\ ~s.nestEscape ->
         Stay([t EXCEPT !.nestEscape = (ch = Backslash), !.inString = (ch # Quote)])
    [] ~s.inString /\ ch = Quote -> Stay([t EXCEPT !.inString = TRUE])
    [] ~s.inString /\ ch \in Opens -> Stay([t EXCEPT !.depth = @ + 1])
    [] ~s.inString /\ ch \in Closes ->
         IF s.depth = 1 THEN FinishRaw([t EXCEPT !.depth = 0], t.raw)
         ELSE Stay([t EXCEPT !.depth = @ - 1])
    [] OTHER -> Stay(t)

(* _consume_raw_char in a number, true, false or null: a delimiter ends the value and
   is read again between the keys. *)
InScalar(s, ch) ==
  IF ch \in Space \cup {",", "}"}
    THEN LET done == FinishRaw(s, s.raw)
             more == BetweenKeys(done.s, ch)
         IN [s |-> more.s, events |-> done.events \o more.events]
    ELSE Stay([s EXCEPT !.raw = Append(@, ch)])

SeekValue(s, ch) ==
  CASE ch \in Space -> Stay(s)
    [] ch = Quote   -> Stay([s EXCEPT !.phase = "in_string", !.parts = <<>>, !.escape = FALSE,
                                      !.hex = 0])
    [] OTHER        -> Stay([s EXCEPT !.phase = "in_raw", !.raw = <<ch>>,
                                      !.depth = IF ch \in Opens THEN 1 ELSE 0,
                                      !.inString = FALSE, !.nestEscape = FALSE])

(* _consume *)
Consume(s, ch) ==
  CASE s.phase = "seek_object" ->
         IF ch \in Space THEN Stay(s)
         ELSE Stay([s EXCEPT !.phase = IF ch = "{" THEN "between_keys" ELSE "done"])
    [] s.phase = "between_keys" -> BetweenKeys(s, ch)
    [] s.phase = "in_key"       -> InKey(s, ch)
    [] s.phase = "after_key"    -> Stay(IF ch = ":" THEN [s EXCEPT !.phase = "seek_value"] ELSE s)
    [] s.phase = "seek_value"   -> SeekValue(s, ch)
    [] s.phase = "in_string"    -> InString(s, ch)
    [] s.phase = "in_raw"       -> IF s.depth > 0 THEN InNested(s, ch) ELSE InScalar(s, ch)
    [] s.phase = "done"         -> Stay(s)

-----------------------------------------------------------------------------
(* Pieces of stage content. *)

Tok(kind, k, text) == [is |-> kind, key |-> k, text |-> text]
Chars(k, text) == [i \in DOMAIN text |-> Tok("text", k, <<text[i]>>)]

HasConfig(k) == KeyConfig[k] # "none"

(* parameter_name_markdown and parameter_value_prefix of a configured key, or the plain
   ***key:*** of one without configuration. *)
ParamName(k) == Tok("name", k, <<>>)
(* parameter_value_suffix and the line end. *)
ParamEnd(k) == Tok("end", k, <<>>)
FenceOpen(k) == Tok("fence_open", k, <<>>)
FenceClose(k) == Tok("fence_close", k, <<>>)

(* A value as str() shows it: a string by its characters, the rest as one piece. *)
ValueText(k, v, str) == IF str THEN Chars(k, v) ELSE <<Tok("value", k, v)>>

(* format_parameter_value *)
FormatValue(k, v, str) ==
  CASE KeyConfig[k] = "replaced" -> <<Tok("replacement", k, <<>>)>>
    [] KeyConfig[k] = "fenced"   -> <<FenceOpen(k)>> \o ValueText(k, v, str) \o <<FenceClose(k)>>
    [] OTHER                     -> ValueText(k, v, str)

(* One parameter of render_config_map_parameters. *)
ConfigMapParam(k, v, str) ==
  IF KeyConfig[k] = "ignored" THEN <<>>
  ELSE <<ParamName(k)>> \o FormatValue(k, v, str) \o <<ParamEnd(k)>>

(* One member of json.dumps(parameters, indent=4). *)
JsonMember(k, v, str) ==
  <<Tok("json_key", k, <<>>)>> \o
  (IF str THEN <<Tok("quote", k, <<>>)>> \o Chars(k, v) \o <<Tok("quote", k, <<>>)>>
   ELSE <<Tok("value", k, v)>>)

Header == Tok("header", NoKey, <<>>)
Comma == Tok("comma", NoKey, <<>>)
ObjectEnd == Tok("object_end", NoKey, <<>>)

(* The static dump of a request: render_config_map_parameters (in arrival order), and
   the JSON dump, which shows nothing for an empty object. *)
StaticDump(mode, entries) ==
  IF mode = "config_map"
    THEN <<Header>> \o FlattenSeq([i \in DOMAIN entries |->
           ConfigMapParam(entries[i].key, entries[i].value, entries[i].string)])
  ELSE IF entries = <<>> THEN <<>>
  ELSE <<Header>> \o FlattenSeq([i \in DOMAIN entries |->
           (IF i = 1 THEN <<>> ELSE <<Comma>>)
           \o JsonMember(entries[i].key, entries[i].value, entries[i].string)]) \o <<ObjectEnd>>

-----------------------------------------------------------------------------
(* StreamingArgumentPresenter *)

NewPresenter(m) ==
  [mode |-> m, streamer |-> NewStreamer, header |-> FALSE, skip |-> FALSE,
   stringOpen |-> FALSE, fenceOpen |-> FALSE, firstKey |-> TRUE, jsonString |-> FALSE,
   streamed |-> FALSE, finished |-> FALSE, shown |-> <<>>]

Show(p, tokens) == [p EXCEPT !.shown = @ \o tokens]

(* _ensure_config_map_header, _ensure_json_header *)
EnsureHeader(p) ==
  IF p.header THEN p
  ELSE [Show(p, <<Header>>) EXCEPT !.header = TRUE, !.streamed = TRUE]

(* _on_key *)
OnKey(p, k) ==
  [p EXCEPT !.stringOpen = FALSE, !.fenceOpen = FALSE,
            !.skip = (p.mode = "config_map" /\ KeyConfig[k] = "ignored")]

(* _config_map_string_chars *)
ConfigMapChars(p, k, text) ==
  IF KeyConfig[k] = "replaced" THEN p
  ELSE LET fenced == KeyConfig[k] = "fenced"
           opened == [Show(EnsureHeader(p), <<ParamName(k)>> \o
                           (IF fenced THEN <<FenceOpen(k)>> ELSE <<>>))
                      EXCEPT !.stringOpen = TRUE, !.fenceOpen = (@ \/ fenced)]
       IN Show(IF p.stringOpen THEN p ELSE opened, Chars(k, text))

(* _config_map_value_complete *)
ConfigMapValue(p, k, v, str) ==
  CASE KeyConfig[k] = "ignored" -> p
    [] KeyConfig[k] # "ignored" /\ p.stringOpen ->
         [Show(p, (IF p.fenceOpen THEN <<FenceClose(k)>> ELSE <<>>) \o <<ParamEnd(k)>>)
          EXCEPT !.stringOpen = FALSE, !.fenceOpen = FALSE]
    [] OTHER -> Show(EnsureHeader(p), ConfigMapParam(k, v, str))

(* The comma and the name of a member (json_object mode). *)
StartMember(p, k) ==
  [Show(EnsureHeader(p), (IF p.firstKey THEN <<>> ELSE <<Comma>>) \o <<Tok("json_key", k, <<>>)>>)
   EXCEPT !.firstKey = FALSE]

(* _json_object_string_chars *)
JsonChars(p, k, text) ==
  LET opened == [Show(StartMember(p, k), <<Tok("quote", k, <<>>)>>) EXCEPT !.jsonString = TRUE]
  IN Show(IF p.jsonString THEN p ELSE opened, Chars(k, text))

(* _json_object_value_complete: an empty string is dumped like any other value. *)
JsonValue(p, k, v, str) ==
  IF p.jsonString
    THEN [Show(p, <<Tok("quote", k, <<>>)>>) EXCEPT !.jsonString = FALSE]
    ELSE Show(StartMember(p, k), Tail(JsonMember(k, v, str)))

OnValue(p, k, v, str) ==
  [(IF p.mode = "config_map" THEN ConfigMapValue(p, k, v, str) ELSE JsonValue(p, k, v, str))
   EXCEPT !.skip = FALSE, !.stringOpen = FALSE]

(* _on_object_done *)
OnObjectDone(p) ==
  [(CASE p.mode = "config_map" -> EnsureHeader(p)
      [] p.mode = "json_object" /\ p.header -> Show(p, <<ObjectEnd>>)
      [] p.mode = "json_object" /\ ~p.header -> p)
   EXCEPT !.streamed = TRUE, !.finished = TRUE]

(* _apply_event *)
Apply(p, e) ==
  CASE e.is = "key"   -> OnKey(p, e.key)
    [] e.is = "chars" -> IF p.skip THEN p
                         ELSE IF p.mode = "config_map" THEN ConfigMapChars(p, e.key, e.value)
                         ELSE JsonChars(p, e.key, e.value)
    [] e.is = "value" -> OnValue(p, e.key, e.value, e.string)
    [] e.is = "done"  -> OnObjectDone(p)

(* feed, for one character: it completes at most a value and the object. *)
Feed(p, ch) ==
  LET r == Consume(p.streamer, ch)
      q == [p EXCEPT !.streamer = r.s]
      n == Len(r.events)
  IN CASE p.finished          -> p
       [] ~p.finished /\ n = 0 -> q
       [] ~p.finished /\ n = 1 -> Apply(q, r.events[1])
       [] ~p.finished /\ n = 2 -> Apply(Apply(q, r.events[1]), r.events[2])

FeedAll(p, text) ==
  LET fed[i \in 0..Len(text)] == IF i = 0 THEN p ELSE Feed(fed[i - 1], text[i])
  IN fed[Len(text)]

(* Faulty variant: a fence cut off by the end of the stream stays open. *)
BugFinish(p) == [p EXCEPT !.finished = TRUE]

(* finish: the stream ended inside the object. *)
Finish(p) ==
  CASE p.finished -> p
    [] ~p.finished /\ p.mode = "config_map" /\ p.fenceOpen ->
         [Show(p, <<FenceClose(p.streamer.current)>>)
          EXCEPT !.fenceOpen = FALSE, !.streamed = TRUE, !.finished = TRUE]
    [] ~p.finished /\ p.mode = "json_object" /\ p.header ->
         [Show(p, (IF p.jsonString THEN <<Tok("quote", p.streamer.current, <<>>)>> ELSE <<>>)
                  \o <<ObjectEnd>>)
          EXCEPT !.jsonString = FALSE, !.streamed = TRUE, !.finished = TRUE]
    [] OTHER -> [p EXCEPT !.finished = TRUE]

=============================================================================
