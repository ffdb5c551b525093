--------------------------- MODULE ToolCallStream ---------------------------
(***************************************************************************)
(* The stream of one model answer on the orchestrator path:                *)
(* ChatCompletionStreamHandler._run drives AccumulationSink and            *)
(* ChoiceUiSink.  The model streams tool calls by index; a delta carries   *)
(* any of the call's id, its function name and a piece of its argument     *)
(* text, and custom stages of a deployment by their own index.             *)
(*                                                                         *)
(* A step is the handling of one delta.  A piece of argument text is at    *)
(* most one character: a longer chunk is consumed character by character,  *)
(* and between the characters of a chunk the sink does nothing.            *)
(***************************************************************************)
EXTENDS ArgumentStreamer, FiniteSets

CONSTANTS
  Calls,           \* tool-call indexes of the answer
  Unknown,         \* function_name is None
  FunctionNames,   \* names the model can ask for
  SuppressedNames, \* tools with should_suppress_info_stage()
  Presentation,    \* argument_stream_mode of each name: config_map, json_object or none
  StageIndexes,    \* indexes of custom_content.stages
  Scripts          \* what may happen in a run of the stream, see Init

(* An object with a member: its brace and the quote of its first key come before all but
   white space. *)
OpensAt(text, i, j) ==
  /\ i \in DOMAIN text /\ j \in DOMAIN text /\ i < j
  /\ text[i] = "{" /\ text[j] = Quote
  /\ \A k \in 1..(j - 1) : k = i \/ text[k] \in Space

ASSUME StreamAssumption ==
  /\ SuppressedNames \subseteq FunctionNames
  /\ Unknown \notin FunctionNames
  /\ Presentation \in [FunctionNames -> {"config_map", "json_object", "none"}]
  /\ \A s \in Scripts :
       /\ s.stages \subseteq StageIndexes /\ DOMAIN s.calls \subseteq Calls
       /\ \A c \in DOMAIN s.calls :
            /\ s.calls[c].name \in FunctionNames /\ s.calls[c].text \in Seq(STRING)
            /\ s.calls[c].object # <<>> => \E i, j \in DOMAIN s.calls[c].text : OpensAt(s.calls[c].text, i, j)

VARIABLES
  phase,      \* the stream: running, succeeded or failed
  script,     \* what this run may see: the calls (their name, object and its text), the
              \* custom stages, and whether opening or naming a stage can fail
  sent,       \* characters of each call's arguments streamed so far
  named,      \* calls whose name was streamed (AccumulatedToolCall._name)
  identified, \* calls whose id was streamed (AccumulatedToolCall._id)
  begun,      \* calls the accumulator has an entry for
  hidden,     \* _suppressed_tool_indexes
  stage,      \* the UI stage of each call
  owned,      \* keys of _tool_stages_by_index
  nameSet,    \* name_set of their state
  function,   \* function_name of their state
  waiting,    \* pending_argument_chunks
  presenter,  \* presenter, or NewPresenter("none") for None
  lost,       \* history: argument text arrived while the call had no stage
  streamed,   \* request_body_streamed of an adopted stage
  custom,     \* UI stage of each custom stage index
  tracked     \* keys of _stages_by_index

input == <<script, sent, named, identified, begun>>
state == <<owned, nameSet, function, waiting, presenter>>
tools == <<hidden, stage, state, lost, streamed>>
vars  == <<phase, input, tools, custom, tracked>>

-----------------------------------------------------------------------------
(* What the model writes: the text of a JSON object.  A member is [key, value,
   string, text], text being one of the ways to write value. *)

Sp(spaced) == IF spaced THEN <<" ">> ELSE <<>>

JsonText(o, spaced) ==
  <<"{">> \o FlattenSeq([i \in DOMAIN o |->
     (IF i = 1 THEN <<>> ELSE <<",">> \o Sp(spaced))
     \o <<Quote, o[i].key, Quote, ":">> \o Sp(spaced) \o o[i].text \o Sp(spaced)]) \o <<"}">>

Text(c) == script.calls[c].text
Object(c) == script.calls[c].object
NameOf(c) == script.calls[c].name
Mode(n) == Presentation[n]
Complete(c) == sent[c] = Len(Text(c))

NoPresenter == NewPresenter("none")

-----------------------------------------------------------------------------
Init ==
  /\ phase = "running"
  /\ script \in Scripts
  /\ sent = [c \in Calls |-> 0]
  /\ named = {} /\ identified = {} /\ begun = {}
  /\ hidden = {} /\ owned = {} /\ nameSet = {} /\ lost = {} /\ streamed = {}
  /\ stage = [c \in Calls |-> "none"]
  /\ function = [c \in Calls |-> Unknown]
  /\ waiting = [c \in Calls |-> <<>>]
  /\ presenter = [c \in Calls |-> NoPresenter]
  /\ custom = [i \in StageIndexes |-> "none"]
  /\ tracked = {}

(* _close_all_streaming_stages, _close_all_tool_stages: stages that are let go of. *)
Close(stages, which, status) ==
  [x \in DOMAIN stages |-> IF x \in which THEN status ELSE stages[x]]

(* Faulty variant: what was buffered before the name came is dropped. *)
BugWithPresenter(n, buffered) ==
  IF Mode(n) = "none" THEN NoPresenter ELSE NewPresenter(Mode(n))

(* _ensure_presenter: the buffered text is replayed into the new presenter. *)
WithPresenter(n, buffered) ==
  IF Mode(n) = "none" THEN NoPresenter ELSE FeedAll(NewPresenter(Mode(n)), buffered)

(* _feed_argument_chunk on the state of a call with function name n, buffer buf and
   presenter p. *)
Argument(c, n, buf, p, piece) ==
  /\ function' = [function EXCEPT ![c] = n]
  /\ waiting' = [waiting EXCEPT ![c] = IF n = Unknown THEN buf \o piece ELSE <<>>]
  /\ presenter' = [presenter EXCEPT ![c] = IF n = Unknown \/ Mode(n) = "none" THEN NoPresenter
                                           ELSE FeedAll(p, piece)]

(* _open_new_tool_stage; withName: the delta has the function name. *)
OpenStage(c, withName, piece) ==
  LET n == IF withName THEN NameOf(c) ELSE Unknown IN
  \/ /\ n \in SuppressedNames
     /\ hidden' = hidden \cup {c}
     /\ UNCHANGED <<stage, state, lost>>
  \/ /\ n \notin SuppressedNames
     /\ stage' = [stage EXCEPT ![c] = "open"]
     /\ owned' = owned \cup {c}
     /\ nameSet' = IF withName THEN nameSet \cup {c} ELSE nameSet
     /\ Argument(c, n, <<>>, IF withName THEN WithPresenter(n, <<>>) ELSE NoPresenter, piece)
     /\ UNCHANGED <<hidden, lost>>
  \/ /\ script.flaky
     /\ n \notin SuppressedNames
     /\ lost' = IF piece = <<>> THEN lost ELSE lost \cup {c}
     /\ UNCHANGED <<hidden, stage, state>>

(* _try_apply_late_function_name: the name comes after the stage was opened. *)
LateName(c, piece) ==
  LET n == NameOf(c) IN
  \/ /\ n \in SuppressedNames
     /\ hidden' = hidden \cup {c}
     /\ stage' = [stage EXCEPT ![c] = "completed"]
     /\ owned' = owned \ {c}
     /\ UNCHANGED <<nameSet, function, waiting, presenter, lost>>
  \/ /\ n \notin SuppressedNames
     /\ \/ nameSet' = nameSet \cup {c}
        \/ script.flaky /\ nameSet' = nameSet
     /\ Argument(c, n, <<>>, WithPresenter(n, waiting[c]), piece)
     /\ UNCHANGED <<hidden, stage, owned, lost>>

(* Text of a call whose state is as it was. *)
MoreText(c, piece) ==
  /\ Argument(c, function[c], waiting[c], presenter[c], piece)
  /\ UNCHANGED <<hidden, stage, owned, nameSet, lost>>

(* _stream_tool_call_delta *)
SinkToolCall(c, withName, piece) ==
  \/ /\ c \in hidden
     /\ UNCHANGED <<hidden, stage, state, lost>>
  \/ /\ c \notin hidden /\ c \notin owned
     /\ OpenStage(c, withName, piece)
  \/ /\ c \in owned /\ c \notin nameSet /\ withName
     /\ LateName(c, piece)
  \/ /\ c \in owned /\ (c \in nameSet \/ ~withName)
     /\ MoreText(c, piece)

(* A delta with tool call c: it is accumulated, the custom stages are closed (the
   model is past its reasoning) and the call's stage follows. *)
ToolCallDelta(c) ==
  /\ phase = "running"
  /\ c \in DOMAIN script.calls
  /\ \E withName, withId \in BOOLEAN, n \in 0..1 :
       /\ withName => c \notin named
       /\ withId => c \notin identified
       /\ withName \/ withId \/ n = 1
       /\ sent[c] + n <= Len(Text(c))
       /\ sent' = [sent EXCEPT ![c] = @ + n]
       /\ named' = IF withName THEN named \cup {c} ELSE named
       /\ identified' = IF withId THEN identified \cup {c} ELSE identified
       /\ SinkToolCall(c, withName, SubSeq(Text(c), sent[c] + 1, sent[c] + n))
  /\ begun' = begun \cup {c}
  /\ custom' = Close(custom, tracked, "completed")
  /\ tracked' = {}
  /\ UNCHANGED <<phase, script, streamed>>

(* A delta with message text leaves the reasoning as well. *)
ContentDelta ==
  /\ phase = "running"
  /\ tracked # {}
  /\ custom' = Close(custom, tracked, "completed")
  /\ tracked' = {}
  /\ UNCHANGED <<phase, input, tools>>

(* _stream_stage_delta of a stage nobody knows: it needs a name. *)
CustomStageOpens(i) ==
  /\ phase = "running"
  /\ i \in script.stages \ tracked
  /\ \/ custom' = [custom EXCEPT ![i] = "open"] /\ tracked' = tracked \cup {i}
     \* opened and closed by one delta that has a status
     \/ \E status \in {"completed", "failed"} :
          custom' = [custom EXCEPT ![i] = status] /\ tracked' = tracked
  /\ UNCHANGED <<phase, input, tools>>

(* ... and the status of a stage that is open. *)
CustomStageEnds(i) ==
  /\ phase = "running"
  /\ i \in tracked
  /\ \E status \in {"completed", "failed"} : custom' = [custom EXCEPT ![i] = status]
  /\ tracked' = tracked \ {i}
  /\ UNCHANGED <<phase, input, tools>>

-----------------------------------------------------------------------------
(* Stages _publish_adopted_tool_stages hands over: those of calls with an id. *)
Adopted == owned \cap identified

(* The model's answer ended: on_stream_success. *)
StreamSucceeds ==
  /\ phase = "running"
  /\ phase' = "succeeded"
  /\ stage' = Close(Close(stage, owned, "completed"), Adopted, "adopted")
  /\ presenter' = [c \in Calls |-> IF c \in Adopted THEN Finish(presenter[c]) ELSE presenter[c]]
  /\ streamed' = {c \in Adopted : presenter'[c].streamed}
  /\ owned' = {}
  /\ custom' = Close(custom, tracked, "completed")
  /\ tracked' = {}
  /\ UNCHANGED <<input, hidden, nameSet, function, waiting, lost>>

(* Faulty variant: only the stages of tool calls are closed. *)
BugStreamFails ==
  /\ phase = "running"
  /\ phase' = "failed"
  /\ stage' = Close(stage, owned, "failed")
  /\ owned' = {}
  /\ UNCHANGED <<input, hidden, nameSet, function, waiting, presenter, lost, streamed, custom,
                 tracked>>

(* An error of the transport or of a write to a stage, or the request is cancelled:
   on_stream_failure, from the finally block of _run. *)
StreamFails ==
  /\ phase = "running"
  /\ phase' = "failed"
  /\ stage' = Close(stage, owned, "failed")
  /\ owned' = {}
  /\ custom' = Close(custom, tracked, "failed")
  /\ tracked' = {}
  /\ UNCHANGED <<input, hidden, nameSet, function, waiting, presenter, lost, streamed>>

Terminated == phase # "running" /\ UNCHANGED vars

Next ==
  \/ \E c \in Calls : ToolCallDelta(c)
  \/ ContentDelta
  \/ \E i \in StageIndexes : CustomStageOpens(i) \/ CustomStageEnds(i)
  \/ StreamSucceeds \/ StreamFails
  \/ Terminated

Spec == Init /\ [][Next]_vars

-----------------------------------------------------------------------------
(* Properties *)

StageStatuses == {"none", "open", "completed", "failed", "adopted"}

(* Every variable holds a value the program can give it. *)
TypeOK ==
  /\ phase \in {"running", "succeeded", "failed"}
  /\ script.stages \subseteq StageIndexes
  /\ \A c \in DOMAIN script.calls : sent[c] \in 0..Len(Text(c))
  /\ named \subseteq Calls /\ identified \subseteq Calls /\ begun \subseteq Calls
  /\ hidden \subseteq Calls /\ owned \subseteq Calls /\ nameSet \subseteq Calls
  /\ lost \subseteq Calls /\ streamed \subseteq Calls
  /\ stage \in [Calls -> StageStatuses]
  /\ function \in [Calls -> FunctionNames \cup {Unknown}]
  /\ custom \in [StageIndexes -> StageStatuses \ {"adopted"}]
  /\ tracked \subseteq StageIndexes
  /\ \A c \in Calls : waiting[c] # <<>> => function[c] = Unknown

(* Every open stage has exactly one owner, so none is left open: a stage is open as
   long as the sink holds it, a stage of a call whose tool is suppressed is not held,
   and after the stream the sink holds nothing (ChoiceUiSink). *)
OpenStagesOwned ==
  /\ \A c \in Calls : stage[c] = "open" <=> c \in owned
  /\ \A i \in StageIndexes : custom[i] = "open" <=> i \in tracked
  /\ owned \cap hidden = {}
  /\ phase # "running" => owned = {} /\ tracked = {}

(* What a stage shows of a call's arguments is always the beginning of the static
   dump of the whole object, wherever the text is cut and however late the name
   comes -- no part twice, none missing, and nothing of a parameter that must not be
   shown -- unless text was lost because the stage could not be opened
   (StreamingArgumentPresenter, "Match static config_map dump"). *)
ShowsTheRequest ==
  \A c \in Calls :
    LET p == presenter[c] IN
      p.mode # "none" /\ c \notin lost =>
        LET dump == StaticDump(p.mode, Object(c)) IN
          /\ stage[c] # "adopted" => IsPrefix(p.shown, dump)
          /\ stage[c] = "adopted" /\ Complete(c) => p.shown = dump

(* request_body_streamed tells the tool the truth: the arguments of a stage it adopts
   are dumped again only when nothing of them is shown, and a request that counts as
   rendered is one whole block -- one header, every fence and quote closed, also when
   the stream ended inside the object (finish, __run_tool_body's skip_parameters). *)
StreamedIsHonest ==
  \A c \in Calls : stage[c] = "adopted" =>
    LET shown == presenter[c].shown
        Count(kind) == Cardinality({i \in DOMAIN shown : shown[i].is = kind})
    IN /\ shown # <<>> => c \in streamed
       /\ c \in streamed /\ shown # <<>> =>
            /\ Count("header") = 1
            /\ Count("fence_open") = Count("fence_close")
            /\ Count("quote") % 2 = 0
            /\ presenter[c].mode = "json_object" => Count("object_end") = 1
       /\ c \in streamed /\ shown = <<>> => Object(c) = <<>> \/ c \in lost

=============================================================================
