------------------------ MODULE ConversationHistory ------------------------
(***************************************************************************)
(* A conversation over several requests.  The client keeps the raw         *)
(* messages; the server keeps nothing between requests, it stores what its *)
(* turn added in the state of the assistant message it answers with        *)
(* (tool_execution_history) and unpacks that state from the next request.  *)
(* Every request passes validate_messages_shape and                        *)
(* validate_external_tool_results first; then the messages transformers    *)
(* add pairs of a call and its result that no model made: resources, files *)
(* of the last user message that has any, skills it picks, the time, and   *)
(* what the hook of the request returns.  The ids of such pairs come from  *)
(* hashes of the tool, the arguments and the content, so a set of ids      *)
(* stands here for one tool, with an id for each content it can return.    *)
(*                                                                         *)
(* A turn is abstract here: the model answers, the calls of the server's   *)
(* own tools are run and answered at once (Orchestrator has the detail),   *)
(* the client's calls end the turn.                                        *)
(***************************************************************************)
EXTENDS Naturals, Sequences, SequencesExt, FiniteSets

CONSTANTS
  OwnCalls,     \* tool calls the model can make to tools of the server
  ClientCalls,  \* tool calls it can make to tools of the client
  HookCalls,    \* pairs of the hook: one id for each content
  FileCalls,    \* get_content pairs: one id for each attached file
  Picks,        \* batches of read_skill pairs, one for each state of the picked skills
  Eager,        \* the eager MCP resources, in the order of their toolsets
  StampCalls,   \* pairs with the time of a request; their ids are random
  NoCall,       \* tool_call_id of a message that has none
  MaxBatch,     \* bound of the model: tool calls in one answer
  MaxResults,   \* bound of the model: results the client sends in one request
  MaxMessages   \* bound of the model: messages the client keeps

ASSUME CallsAssumption ==
  /\ OwnCalls \cap ClientCalls = {}
  /\ NoCall \notin OwnCalls \cup ClientCalls
  /\ {MaxBatch, MaxResults, MaxMessages} \subseteq Nat

PickCalls == UNION {ToSet(b) : b \in Picks}

\* Calls of the model, and calls that a transformer made up.
ModelCalls == OwnCalls \cup ClientCalls
Synthetic == HookCalls \cup FileCalls \cup PickCalls \cup ToSet(Eager) \cup StampCalls
Calls == ModelCalls \cup Synthetic

VARIABLES
  conv,     \* the messages the client keeps; the last one is an answer, if any
  phase,    \* "client": the client writes; "turn": the server's loop runs; "refused"
  sent,     \* the request that was accepted last
  prompt,   \* the message list the model gets in this turn
  hook,     \* history: what the hook returned to this request; NoCall: it did not run
  used,     \* ids of calls the model made
  ran,      \* history: own calls run in the turns the client has an answer of
  refused   \* the request that is being answered with HTTP 400

vars == <<conv, phase, sent, prompt, hook, used, ran, refused>>

-----------------------------------------------------------------------------
(* A message; history is the tool_execution_history of an assistant's state; a
   user message may carry a file and may pick skills. *)
Message(role) ==
  [role |-> role, calls |-> <<>>, id |-> NoCall, history |-> <<>>, file |-> NoCall, picks |-> FALSE]

UserMessage(file, picks) == [Message("user") EXCEPT !.file = file, !.picks = picks]

AssistantMessage(calls, history) ==
  [Message("assistant") EXCEPT !.calls = calls, !.history = history]

ToolMessages(calls) == [k \in DOMAIN calls |-> [Message("tool") EXCEPT !.id = calls[k]]]

(* build_synthetic_multi_call_turn *)
Pair(calls) == <<AssistantMessage(calls, <<>>)>> \o ToolMessages(calls)

IsUser(m) == m.role = "user"
IsOwn(c) == c \notin ClientCalls
IsClients(c) == c \in ClientCalls

(* Index of the last message before i that is not a tool message; 0: none. *)
Previous(msgs, i) ==
  SelectLastInSubSeq(msgs, 1, i - 1, LAMBDA m : m.role # "tool")

-----------------------------------------------------------------------------
(* _collect_sequence_violations: user and assistant alternate, tool messages
   only after an assistant message with calls. *)
SequenceOk(msgs) ==
  \A i \in DOMAIN msgs :
    LET j == Previous(msgs, i) IN
      IF msgs[i].role = "tool"
        THEN j # 0 /\ msgs[j].role = "assistant" /\ msgs[j].calls # <<>>
        ELSE msgs[i].role = IF j # 0 /\ msgs[j].role = "user" THEN "assistant" ELSE "user"

(* _collect_tool_message_violations: an answer without calls keeps the ids of the
   one before it, a user message forgets them. *)
ToolIdsOk(msgs) ==
  \A i \in DOMAIN msgs : msgs[i].role = "tool" =>
    LET j == SelectLastInSubSeq(msgs, 1, i - 1,
               LAMBDA m : m.role = "user" \/ (m.role = "assistant" /\ m.calls # <<>>))
    IN j # 0 /\ msgs[i].id \in ToSet(msgs[j].calls)

(* validate_messages_shape *)
ShapeOk(msgs) ==
  /\ msgs # <<>>
  /\ SequenceOk(msgs)
  /\ ToolIdsOk(msgs)
  /\ Last(msgs).role \in {"user", "tool"}

(* _MessagesSetup.validate_external_tool_results: each of the client's calls is
   answered before the next message that is not a tool's. *)
ResultsGiven(msgs) ==
  \A i \in DOMAIN msgs : msgs[i].role = "assistant" =>
    \A c \in ToSet(SelectSeq(msgs[i].calls, IsClients)) :
      \E k \in (i + 1)..Len(msgs) : Previous(msgs, k) = i /\ msgs[k].id = c

(* _MessagesSetup.extract_tool_calls, on the state's message format. *)
Extract(msgs) ==
  FlattenSeq([i \in DOMAIN msgs |->
    Append(msgs[i].history, [msgs[i] EXCEPT !.history = <<>>])])

(* The messages after the last user message. *)
Turn(msgs) ==
  SubSeq(msgs, SelectLastInSubSeq(msgs, 1, Len(msgs), LAMBDA m : m.role = "user") + 1, Len(msgs))

(* Faulty variant: the walk goes back over the whole conversation. *)
BugBuildHistory(msgs) ==
  LET Kept(m) == m.role = "tool" \/ SelectSeq(m.calls, IsOwn) # <<>>
      kept == SelectSeq(msgs, Kept)
  IN [i \in DOMAIN kept |-> [kept[i] EXCEPT !.calls = SelectSeq(@, IsOwn)]]

(* Orchestrator._build_tool_execution_history *)
BuildHistory(msgs) ==
  LET Kept(m) == m.role = "tool" \/ SelectSeq(m.calls, IsOwn) # <<>>
      kept == SelectSeq(Turn(msgs), Kept)
  IN [i \in DOMAIN kept |-> [kept[i] EXCEPT !.calls = SelectSeq(@, IsOwn)]]

-----------------------------------------------------------------------------
(* The messages transformers, in the order in which the modules are installed. *)

Insert(msgs, i, pair) == SubSeq(msgs, 1, i) \o pair \o SubSeq(msgs, i + 1, Len(msgs))

(* after_first_user_idx *)
FirstUser(msgs) == SelectInSeq(msgs, IsUser)

Holds(msgs, ids) == \E i \in DOMAIN msgs : msgs[i].id \in ids

(* _MCPEagerResourceTransformer.transform *)
WithResources(msgs) ==
  LET Unseen(c) == \A i \in DOMAIN msgs : c \notin ToSet(msgs[i].calls)
      new == SelectSeq(Eager, Unseen)
  IN Insert(msgs, FirstUser(msgs), FlattenSeq([k \in DOMAIN new |-> Pair(<<new[k]>>)]))

(* _AttachmentGetContentInjector.transform, for a file that can be delivered;
   _has_pair_in_current_turn looks behind the message that carries it. *)
WithFile(msgs) ==
  LET u == SelectLastInSeq(msgs, LAMBDA m : m.file # NoCall)
      answered == \E i \in (u + 1)..Len(msgs) : \E k \in (i + 1)..Len(msgs) :
                    msgs[u].file \in ToSet(msgs[i].calls) /\ msgs[k].id = msgs[u].file
  IN IF u = 0 \/ answered THEN msgs ELSE Insert(msgs, u, Pair(<<msgs[u].file>>))

(* MultiSyntheticToolCallInjector.transform, for the skills of the last user
   message; batch is what reading them gives now. *)
WithPicks(msgs, batch) ==
  LET u == SelectLastInSeq(msgs, IsUser)
      here == \E i \in DOMAIN msgs : msgs[i].calls = batch
      before == \E i \in DOMAIN msgs : msgs[i].calls # <<>> /\ ToSet(msgs[i].calls) \subseteq PickCalls
  IN IF ~msgs[u].picks \/ here THEN msgs
     ELSE Insert(msgs, IF before THEN Len(msgs) ELSE FirstUser(msgs), Pair(batch))

(* _inject_always, with the random id of the time's pair *)
WithTime(msgs) ==
  IF StampCalls = {} THEN msgs
  ELSE Insert(msgs, Len(msgs), Pair(<<CHOOSE c \in StampCalls : ~Holds(msgs, {c})>>))

(* Faulty variant: a pair is taken to start at its tool message. *)
BugWithHook(msgs, h) ==
  LET i == SelectInSeq(msgs, LAMBDA m : m.id = h) IN
    IF h = NoCall THEN msgs
    ELSE IF i # 0 THEN SubSeq(msgs, 1, i - 1) \o Pair(<<h>>) \o SubSeq(msgs, i + 2, Len(msgs))
    ELSE Insert(msgs, IF Holds(msgs, HookCalls) THEN Len(msgs) ELSE FirstUser(msgs), Pair(<<h>>))

(* _inject_append_if_changed, with the content the hook returned: a pair with that
   content is written anew where it stands. *)
WithHook(msgs, h) ==
  LET i == SelectInSeq(msgs, LAMBDA m : m.id = h) IN
    IF h = NoCall THEN msgs
    ELSE IF i # 0 THEN SubSeq(msgs, 1, i - 2) \o Pair(<<h>>) \o SubSeq(msgs, i + 1, Len(msgs))
    ELSE Insert(msgs, IF Holds(msgs, HookCalls) THEN Len(msgs) ELSE FirstUser(msgs), Pair(<<h>>))

(* A hook without a condition runs at each request; it may fail, and one with a
   refresh condition is skipped while its last pair has not expired. *)
HookRuns == HookCalls \cup {NoCall}

(* _MessagesSetup.run_transformers *)
Transformed(msgs, batch, h) == WithHook(WithTime(WithPicks(WithFile(WithResources(msgs)), batch)), h)

-----------------------------------------------------------------------------
Init ==
  /\ conv = <<>> /\ phase = "client" /\ sent = <<>> /\ prompt = <<>> /\ hook = NoCall
  /\ used = {} /\ ran = {} /\ refused = <<>>

(* The client reads that its request was not accepted, and writes another. *)
RefusalRead ==
  /\ phase = "refused"
  /\ phase' = "client" /\ refused' = <<>>
  /\ UNCHANGED <<conv, sent, prompt, hook, used, ran>>

(* The calls the client was asked to run and has not answered. *)
Asked == IF conv = <<>> THEN <<>> ELSE Last(conv).calls

(* What the client may add: results, right or wrong, some of them more than once, and a
   user message. *)
Additions ==
  {ToolMessages(r) \o tail :
     r \in UNION {[1..n -> used] : n \in 0..MaxResults},
     tail \in {<<>>} \cup {<<UserMessage(f, FALSE)>> : f \in FileCalls \cup {NoCall}}
              \cup {<<UserMessage(NoCall, Picks # {})>>}}

(* It does as it is told: each call is answered, once, and something is said. *)
Compliant(msgs) ==
  LET new == SubSeq(msgs, Len(conv) + 1, Len(msgs))
      results == SelectSeq(new, LAMBDA m : m.role = "tool")
  IN /\ new # <<>>
     /\ Len(results) = Len(Asked)
     /\ {results[k].id : k \in DOMAIN results} = ToSet(Asked)

(* chat_completion checks the shape of the raw messages, setup_messages the
   results in them, and only then is the state unpacked. *)
Accepted(msgs) == ShapeOk(msgs) /\ ResultsGiven(msgs)

(* A request; setup_messages leaves the list the loop starts from. *)
Request ==
  /\ phase = "client"
  /\ \E new \in Additions :
       LET msgs == conv \o new IN
       /\ Len(msgs) < MaxMessages
       /\ IF Accepted(msgs)
            THEN /\ phase' = "turn"
                 /\ sent' = msgs
                 /\ hook' \in HookRuns
                 /\ \E batch \in Picks \cup {<<>>} :
                      /\ Last(SelectSeq(msgs, IsUser)).picks <=> batch # <<>>
                      /\ prompt' = Transformed(Extract(msgs), batch, hook')
                 /\ UNCHANGED refused
            ELSE /\ phase' = "refused"
                 /\ refused' = msgs
                 /\ UNCHANGED <<sent, prompt, hook>>
  /\ UNCHANGED <<conv, used, ran>>

(* _persisting_state stores the turn in the state of its answer. *)
EndTurn(msgs, surfaced) ==
  /\ conv' = Append(sent, AssistantMessage(surfaced, BuildHistory(msgs)))
  /\ ran' = {c \in OwnCalls : \E i \in DOMAIN msgs : msgs[i].id = c}
  /\ phase' = "client"

(* The model answers with the calls of a batch. *)
ModelAnswers(batch) ==
  LET own == SelectSeq(batch, IsOwn)
      ext == SelectSeq(batch, IsClients)
      msgs == prompt \o <<AssistantMessage(batch, <<>>)>> \o ToolMessages(own)
  IN /\ phase = "turn"
     /\ prompt' = msgs
     /\ used' = used \cup ToSet(batch)
     /\ \/ own # <<>> /\ ext = <<>> /\ UNCHANGED <<conv, ran, phase>>
        \/ own = <<>> /\ ext = <<>> /\ EndTurn(msgs, <<>>)
        \/ ext # <<>> /\ EndTurn(msgs, ext)
     /\ UNCHANGED <<sent, hook, refused>>

(* The turn fails; the client regenerates it from the messages it has. *)
TurnFails ==
  /\ phase = "turn"
  /\ phase' = "client"
  /\ UNCHANGED <<conv, sent, prompt, hook, used, ran, refused>>

Batches == UNION {SetToSeqs(S) : S \in {T \in SUBSET (ModelCalls \ used) : Cardinality(T) <= MaxBatch}}

Full == phase = "client" /\ Len(conv) + 1 >= MaxMessages /\ UNCHANGED vars

Next == Request \/ RefusalRead \/ (\E batch \in Batches : ModelAnswers(batch)) \/ TurnFails \/ Full

Spec == Init /\ [][Next]_vars

-----------------------------------------------------------------------------
(* Properties *)

Rows(ids, n) ==
  [role : {"user", "assistant", "tool"}, calls : UNION {[1..k -> ids] : k \in 0..n},
   id : ids \cup {NoCall}, history : {<<>>}, file : FileCalls \cup {NoCall}, picks : BOOLEAN]

(* Every variable holds a value the program can give it. *)
TypeOK ==
  /\ \A msgs \in {conv, sent, refused} : \A i \in DOMAIN msgs :
       /\ [msgs[i] EXCEPT !.history = <<>>] \in Rows(Calls, MaxBatch)
       /\ ToSet(msgs[i].calls) \subseteq ClientCalls
       /\ \A k \in DOMAIN msgs[i].history : msgs[i].history[k] \in Rows(Calls, MaxBatch)
  /\ \A i \in DOMAIN prompt : prompt[i] \in Rows(Calls, MaxBatch)
  /\ phase \in {"client", "turn", "refused"}
  /\ hook \in HookRuns
  /\ used \subseteq ModelCalls /\ ran \subseteq used

(* The calls of each assistant message are answered by the tool messages right after
   it, in any order and, but for some calls, once; a tool message answers nothing else. *)
PairedBut(msgs, some) ==
  /\ \A i \in DOMAIN msgs : \A c \in ToSet(msgs[i].calls) :
       LET results == {k \in (i + 1)..Len(msgs) : msgs[k].id = c /\ Previous(msgs, k) = i}
       IN results # {} /\ (c \in some \/ Cardinality(results) = 1)
  /\ \A j \in DOMAIN msgs : msgs[j].role = "tool" =>
       Previous(msgs, j) # 0 /\ msgs[j].id \in ToSet(msgs[Previous(msgs, j)].calls)

WellPaired(msgs) == PairedBut(msgs, {})

(* Calls that the client answered more than once in the messages it sent. *)
Doubled == {c \in ClientCalls : Cardinality({i \in DOMAIN sent : sent[i].id = c}) > 1}

(* Whatever the client sends, in a list that the model gets each call is answered beside
   it, and once: what was stored over the turns is unpacked between the client's own
   messages, and pairs are added to it (extract_tool_calls, validate_external_tool_results,
   the transformers).  Only a result that the client itself sends twice is in the list
   twice: validate_messages_shape and validate_external_tool_results compare sets of ids. *)
PromptWellPaired == phase = "turn" => PairedBut(prompt, Doubled)

(* The model remembers: each own call run in a turn the client has an answer of is
   in the list, with its result, once (_build_tool_execution_history). *)
OwnResultsKept ==
  phase = "turn" =>
    \A c \in ran : Cardinality({i \in DOMAIN prompt : prompt[i].id = c}) = 1

(* docs/designs/external_tools_passthrough.md, "Valid Follow-up Shape": a request
   that gives each result of the calls it was handed is resumed. *)
CompliantAccepted == refused # <<>> => ~Compliant(refused)

(* _build_tool_execution_history: "external tool calls are stripped so that
   reconstruction produces valid LLM history". *)
StoredHistoryReplays == \A i \in DOMAIN conv : WellPaired(conv[i].history)

(* InjectionFrequency.APPEND_IF_CHANGED: "append new pair only if content changed
   since last injection for same tool+args"; so the last pair of the hook shows
   what it returned now. *)
LatestResultShown ==
  phase = "turn" /\ hook # NoCall =>
    LET shown == SelectLastInSeq(prompt, LAMBDA m : m.id \in HookCalls)
    IN shown # 0 /\ prompt[shown].id = hook

=============================================================================
