---------------------------- MODULE Orchestrator ----------------------------
(***************************************************************************)
(* One request of the agent loop: Orchestrator.invoke together with the    *)
(* objects it drives in the same request scope -- the assistant invoker,   *)
(* the tool-stage part of the stream sink, ToolExecutor and the            *)
(* StagedBaseTool tasks it gathers, DeferredStageCloseRegistry,            *)
(* ChatCompletionRecoveryService and RequestAsyncCloseRegistry.            *)
(*                                                                         *)
(* The program is single threaded: an action is what one asyncio task does *)
(* between two awaits.  pc is the await at which the orchestrator's own    *)
(* task is parked; task[c] is the life of the task asyncio.gather created  *)
(* for tool call c.  The two run interleaved, and a tool's task may        *)
(* outlive the request (gather does not cancel siblings on failure).       *)
(*                                                                         *)
(* messages holds the current turn only: it starts at the last USER        *)
(* message, the place where the history and the recovery both stop.  A     *)
(* turn the client resumes has rows of its earlier request after it.       *)
(***************************************************************************)
EXTENDS Naturals, Sequences, FiniteSets

CONSTANTS
  CallIds,          \* ids of the tool calls of one request
  NoCall,           \* tool_call_id of a message that has none
  Tools,            \* function names the model can ask for
  ToolOf,           \* the function each call names
  RegisteredTools,  \* names ToolExecutor has a tool for
  ExternalTools,    \* EXTERNAL_TOOL_NAMES: run by the client
  SuppressedTools,  \* registered tools whose stage is not shown
  DeferCloseTools,  \* registered tools with display.stage.defer_close
  GetContentTools,  \* internal_attachments_get_content (at most one name)
  MalformedArgs,    \* calls whose streamed arguments are not a JSON object
  Urls,             \* attachment urls a tool can propagate to the choice
  MaxIterations,    \* orchestrator.max_iterations
  MaxBatch,         \* bound of the model: tool calls in one answer
  MaxBrought,       \* bound of the model: client calls, and results, of a resumed turn
  NumHooks,         \* completion hook runners
  NumClosers,       \* closers in RequestAsyncCloseRegistry
  MayCancel,        \* the client may disconnect (the request is cancelled)
  MayHardStop       \* a tool may raise past its fallback strategies

ASSUME CallAssumption ==
  /\ ToolOf \in [CallIds -> Tools]
  /\ NoCall \notin CallIds
  /\ MalformedArgs \subseteq CallIds

(* provide_extra_openai_tools refuses a client tool that shadows one of ours. *)
ASSUME ToolAssumption ==
  /\ RegisteredTools \subseteq Tools
  /\ ExternalTools \subseteq Tools \ RegisteredTools
  /\ SuppressedTools \subseteq RegisteredTools
  /\ DeferCloseTools \subseteq RegisteredTools
  /\ GetContentTools \subseteq DeferCloseTools

ASSUME BoundAssumption ==
  /\ MaxIterations \in Nat \ {0}
  /\ MaxBatch \in Nat
  /\ MaxBrought \in Nat
  /\ NumHooks \in Nat
  /\ NumClosers \in Nat
  /\ MayCancel \in BOOLEAN
  /\ MayHardStop \in BOOLEAN

VARIABLES
  pc,           \* where the orchestrator's task is
  failed,       \* exc_to_reraise is not None
  iteration,    \* __iterations_counter
  kind,         \* __completion_kind
  messages,     \* the canonical message list from the last USER message on
  internal,     \* tool calls of the current answer: the server's ...
  external,     \* ... and the client's
  used,         \* call ids that were seen in a stream or in the history
  attempts,     \* chat completion requests built so far
  choiceHeld,   \* _ToolChoiceHolder still holds the client's tool_choice
  enforced,     \* the request in flight carries that tool_choice
  retryUsed,    \* __recovery_retry_used
  stage,        \* UI stage of each call
  adopted,      \* stream_result.adopted_tool_stages: open stages nobody took
  task,         \* the gathered task of each call
  body,         \* content of the ToolCallResult of a returned task
  produced,     \* propagate_to_choice of a returned task
  pending,      \* DeferredStageCloseRegistry._pending
  ui,           \* its keyed hooks: the content each would add to the stage
  shown,        \* the content a keyed hook added to a stage
  posted,       \* times each url was added to the choice by tool results
  propagated,   \* __propagated_attachment_urls
  surfaced,     \* calls handed to the client with create_function_tool_call
  hooksLeft,    \* completion hook runners still to run
  hooksRun,     \* completion hook runners that ran
  closersLeft,  \* closers aclose_all has still to await
  persisted,    \* choice.set_state was called
  cancelled     \* the request's task was cancelled

control == <<pc, failed, iteration, kind>>
model   == <<attempts, choiceHeld, enforced, retryUsed>>
calls   == <<internal, external, used>>
stages  == <<stage, adopted, pending, ui, shown>>
results == <<body, produced>>
choice  == <<posted, propagated, surfaced>>
ending  == <<hooksLeft, hooksRun, closersLeft, persisted, cancelled>>
vars    == <<control, messages, model, calls, stages, task, results, choice, ending>>

-----------------------------------------------------------------------------
Elems(s) == {s[i] : i \in DOMAIN s}

IsExternal(c)   == ToolOf[c] \in ExternalTools
IsRegistered(c) == ToolOf[c] \in RegisteredTools
IsSuppressed(c) == ToolOf[c] \in SuppressedTools
DefersClose(c)  == ToolOf[c] \in DeferCloseTools
IsGetContent(c) == ToolOf[c] \in GetContentTools

Bodies == {"text", "ok", "error", "rejected"}

(* A message.  calls and ext are its tool calls, held as the two lists the
   orchestrator splits them into; bytes: a tool message carries attachments. *)
Row == [role : {"user", "assistant", "tool"}, calls : Seq(CallIds), ext : Seq(CallIds),
        id : CallIds \cup {NoCall}, content : Bodies, bytes : BOOLEAN]

UserRow == [role |-> "user", calls |-> <<>>, ext |-> <<>>, id |-> NoCall,
            content |-> "text", bytes |-> FALSE]

AssistantRow(int, ext) ==
  [role |-> "assistant", calls |-> int, ext |-> ext, id |-> NoCall,
   content |-> "text", bytes |-> FALSE]

(* Only get_content returns its file as an attachment of the tool message. *)
ToolRow(c, content) ==
  [role |-> "tool", calls |-> <<>>, ext |-> <<>>, id |-> c,
   content |-> content, bytes |-> IsGetContent(c) /\ content = "ok"]

IsGetContentRow(m) == m.role = "tool" /\ IsGetContent(m.id)

Streamed == Elems(internal) \cup Elems(external)

(* StagedBaseTool.arun: the tasks the executor builds for registered tools. *)
Runs(c) == c \in Elems(internal) /\ IsRegistered(c)

-----------------------------------------------------------------------------

(* DeferredStageCloseRegistry.flush, from the stages stg. *)
Flush(stg, status) ==
  /\ stage' = [c \in CallIds |-> IF c \in pending THEN status ELSE stg[c]]
  /\ shown' = [c \in CallIds |-> IF c \in pending /\ ui[c] # "none" THEN ui[c] ELSE shown[c]]
  /\ pending' = {}
  /\ ui' = [c \in CallIds |-> "none"]

(* An exception reaches _persisting_state: flush(failed=True), then aclose_all. *)
Raise(stg) ==
  /\ failed' = TRUE
  /\ pc' = "closing"
  /\ Flush(stg, "failed")
  /\ adopted' = {}

(* One turn of AssistantInvoker.invoke's loop up to the awaited create call. *)
BuildRequest ==
  /\ pc' = "create"
  /\ attempts' = attempts + 1
  /\ enforced' = choiceHeld
  /\ choiceHeld' = FALSE
  /\ internal' = <<>>
  /\ external' = <<>>

(* Faulty variant: the policy does not ask whether the retry was used. *)
BugCanRecover == \E i \in DOMAIN messages : IsGetContentRow(messages[i])

(* _GetContentRecoveryPolicy.try_recover finds a row to rewrite. *)
CanRecover ==
  /\ ~retryUsed
  /\ \E i \in DOMAIN messages : IsGetContentRow(messages[i])

Rejected(m) ==
  IF IsGetContentRow(m) THEN [m EXCEPT !.content = "rejected", !.bytes = FALSE] ELSE m

(* Faulty variant: the queued stage results are not synced after a rewrite. *)
BugSyncedUi(rows) == ui

(* sync_deferred_stage_ui_with_tool_messages: a queued result becomes the row's. *)
SyncedUi(rows) ==
  [c \in CallIds |->
     IF ui[c] # "none" /\ \E i \in DOMAIN rows : rows[i].id = c
     THEN rows[CHOOSE i \in DOMAIN rows : rows[i].id = c].content
     ELSE ui[c]]

(* ChatCompletionRecoveryService.apply_message_recovery, then the retry. *)
RecoverAndRetry ==
  LET rewritten == [i \in DOMAIN messages |-> Rejected(messages[i])] IN
  /\ CanRecover
  /\ messages' = rewritten
  /\ ui' = SyncedUi(rewritten)
  /\ retryUsed' = TRUE
  /\ BuildRequest
  /\ UNCHANGED <<adopted, pending, shown>>

(* ChoiceUiSink.on_stream_failure: the sink still owns every stage it opened. *)
SinkFailed ==
  [c \in CallIds |-> IF c \in Streamed /\ stage[c] = "open" THEN "failed" ELSE stage[c]]

-----------------------------------------------------------------------------
(* A call of ours that has its result before the loop starts; one stands for any number. *)
OwnPair(c, content) == <<AssistantRow(<<c>>, <<>>), ToolRow(c, content)>>

(* The get_content injector prepares the turn. *)
Injected == {OwnPair(c, "ok") : c \in {d \in CallIds : IsGetContent(d)}}

(* extract_tool_calls: what the turn's earlier request stored, the client's calls stripped. *)
Restored ==
  {OwnPair(c, content) : c \in {d \in CallIds \ MalformedArgs : ~IsExternal(d)},
                         content \in {"ok", "error"}}

(* The client's own rows when it resumes a turn: the calls it was handed and their results,
   each at least once. *)
Brought ==
  LET some == {c \in CallIds : IsExternal(c)}
      lists == UNION {[1..n -> some] : n \in 1..MaxBrought}
  IN {<<AssistantRow(<<>>, r[1])>> \o [i \in DOMAIN r[2] |-> ToolRow(r[2][i], "text")] :
        r \in {s \in lists \X lists : Elems(s[1]) = Elems(s[2])}}

Init ==
  /\ pc = "iterate" /\ failed = FALSE /\ iteration = 0 /\ kind = "completed"
  /\ \/ \E own \in {<<>>} \cup Injected : messages = <<UserRow>> \o own
     \/ \E own \in {<<>>} \cup Restored, rows \in Brought : messages = <<UserRow>> \o own \o rows
  /\ used = {c \in CallIds : \E i \in DOMAIN messages : messages[i].id = c}
  /\ internal = <<>> /\ external = <<>>
  /\ attempts = 0 /\ choiceHeld = TRUE /\ enforced = FALSE /\ retryUsed = FALSE
  /\ stage = [c \in CallIds |-> "none"]
  /\ adopted = {}
  /\ task = [c \in CallIds |-> "none"]
  /\ body = [c \in CallIds |-> "text"]
  /\ produced = [c \in CallIds |-> {}]
  /\ pending = {}
  /\ ui = [c \in CallIds |-> "none"]
  /\ shown = [c \in CallIds |-> "none"]
  /\ posted = [u \in Urls |-> 0] /\ propagated = {} /\ surfaced = {}
  /\ hooksLeft = 0 /\ hooksRun = 0 /\ closersLeft = NumClosers
  /\ persisted = FALSE /\ cancelled = FALSE

(* _run_iteration enters and the request of this iteration is built. *)
StartIteration ==
  /\ pc = "iterate"
  /\ iteration < MaxIterations
  /\ iteration' = iteration + 1
  /\ BuildRequest
  /\ UNCHANGED <<failed, kind, messages, retryUsed, used, stages, task, results, choice, ending>>

ExceedIterations ==
  /\ pc = "iterate"
  /\ iteration >= MaxIterations
  /\ iteration' = iteration + 1
  /\ Raise(stage)
  /\ UNCHANGED <<kind, messages, model, calls, task, results, choice, ending>>

CreateSucceeds ==
  /\ pc = "create"
  /\ pc' = "stream"
  /\ UNCHANGED <<failed, iteration, kind, messages, model, calls, stages, task, results,
                 choice, ending>>

(* An attachment error: the rows are rewritten and the request is sent again. *)
CreateRejected ==
  /\ pc = "create"
  /\ RecoverAndRetry
  /\ UNCHANGED <<failed, iteration, kind, used, stage, task, results, choice, ending>>

(* Any other error, or an APIError the recovery does not take. *)
CreateFails ==
  /\ pc = "create"
  /\ Raise(stage)
  /\ UNCHANGED <<iteration, kind, messages, model, calls, task, results, choice, ending>>

(* The model streams a new tool call; the sink opens a stage unless suppressed. *)
StreamToolCall(c) ==
  /\ pc = "stream"
  /\ c \notin used
  /\ Len(internal) + Len(external) < MaxBatch
  /\ used' = used \cup {c}
  /\ internal' = IF IsExternal(c) THEN internal ELSE Append(internal, c)
  /\ external' = IF IsExternal(c) THEN Append(external, c) ELSE external
  /\ stage' = IF IsSuppressed(c) THEN stage ELSE [stage EXCEPT ![c] = "open"]
  /\ UNCHANGED <<control, messages, model, adopted, pending, ui, shown, task, results,
                 choice, ending>>

StreamRejected ==
  /\ pc = "stream"
  /\ RecoverAndRetry
  /\ stage' = SinkFailed
  /\ UNCHANGED <<failed, iteration, kind, used, task, results, choice, ending>>

StreamFails ==
  /\ pc = "stream"
  /\ Raise(SinkFailed)
  /\ UNCHANGED <<iteration, kind, messages, model, calls, task, results, choice, ending>>

-----------------------------------------------------------------------------
(* The stream ended: the rest of _run_iteration up to the next await. *)

FinalAnswer ==
  /\ pc = "stream"
  /\ internal = <<>> /\ external = <<>>
  /\ messages' = Append(messages, AssistantRow(<<>>, <<>>))
  /\ Flush(stage, "completed")
  /\ hooksLeft' = NumHooks
  /\ pc' = "hooks"
  /\ UNCHANGED <<failed, iteration, kind, model, calls, adopted, task, results, choice,
                 hooksRun, closersLeft, persisted, cancelled>>

(* Faulty variant: the stages of the client's calls are left to the client. *)
BugKeepStages(leftover) ==
  /\ Flush(stage, "completed")
  /\ adopted' = {}
  /\ kind' = "external_tool_calls"
  /\ surfaced' = surfaced \cup Elems(external)
  /\ hooksLeft' = 0
  /\ pc' = "hooks"

(* close_remaining_adopted_tool_stages, then _surface_external_tool_calls. *)
SurfaceExternal(leftover) ==
  /\ Flush([c \in CallIds |-> IF c \in leftover THEN "completed" ELSE stage[c]], "completed")
  /\ adopted' = {}
  /\ kind' = "external_tool_calls"
  /\ surfaced' = surfaced \cup Elems(external)
  /\ hooksLeft' = 0     \* _run_completion_hooks returns at once
  /\ pc' = "hooks"

(* Faulty variant: any answer with a client's call ends the turn at once. *)
BugOnlyExternalCalls ==
  /\ pc = "stream"
  /\ external # <<>>
  /\ messages' = Append(messages, AssistantRow(internal, external))
  /\ SurfaceExternal({c \in Streamed : stage[c] = "open"})
  /\ UNCHANGED <<failed, iteration, model, calls, task, results, posted, propagated,
                 hooksRun, closersLeft, persisted, cancelled>>

OnlyExternalCalls ==
  /\ pc = "stream"
  /\ internal = <<>> /\ external # <<>>
  /\ messages' = Append(messages, AssistantRow(<<>>, external))
  /\ SurfaceExternal({c \in Streamed : stage[c] = "open"})
  /\ UNCHANGED <<failed, iteration, model, calls, task, results, posted, propagated,
                 hooksRun, closersLeft, persisted, cancelled>>

(* ToolExecutor.execute raises in json.loads (or in **args) before gather: the
   stages already popped for the batch, and those not popped yet, have no owner. *)
ArgumentsRejected ==
  /\ pc = "stream"
  /\ \E c \in CallIds : Runs(c) /\ c \in MalformedArgs
  /\ messages' = Append(messages, AssistantRow(internal, external))
  /\ Raise(stage)
  /\ UNCHANGED <<iteration, kind, model, calls, task, results, choice, ending>>

(* execute creates one task per internal call; a registered tool takes the
   stage the sink opened for it. *)
DispatchTools ==
  /\ pc = "stream"
  /\ internal # <<>>
  /\ \A c \in CallIds : Runs(c) => c \notin MalformedArgs
  /\ messages' = Append(messages, AssistantRow(internal, external))
  /\ task' = [c \in CallIds |-> IF c \in Elems(internal) THEN "created" ELSE task[c]]
  /\ adopted' = {c \in Streamed : stage[c] = "open" /\ ~Runs(c)}
  /\ pc' = "tools"
  /\ UNCHANGED <<failed, iteration, kind, model, calls, stage, pending, ui, shown, results,
                 choice, ending>>

-----------------------------------------------------------------------------
(* The gathered tasks. *)

(* arun opens its stage unless it is suppressed or was adopted. *)
ToolStarts(c) ==
  /\ task[c] = "created"
  /\ IsRegistered(c)
  /\ task' = [task EXCEPT ![c] = "running"]
  /\ stage' = IF IsSuppressed(c) THEN stage ELSE [stage EXCEPT ![c] = "open"]
  /\ UNCHANGED <<control, messages, model, calls, adopted, pending, ui, shown, results,
                 choice, ending>>

(* Faulty variant: an unknown tool answers with no content at all. *)
BugUnknownTool(c) ==
  /\ task[c] = "created"
  /\ ~IsRegistered(c)
  /\ task' = [task EXCEPT ![c] = "returned"]
  /\ body' = [body EXCEPT ![c] = "none"]
  /\ UNCHANGED <<control, messages, model, calls, stages, produced, choice, ending>>

(* __unknown_tool_result, __model_hidden_tool_result: no await, no stage. *)
UnknownTool(c) ==
  /\ task[c] = "created"
  /\ ~IsRegistered(c)
  /\ task' = [task EXCEPT ![c] = "returned"]
  /\ body' = [body EXCEPT ![c] = "error"]
  /\ UNCHANGED <<control, messages, model, calls, stages, produced, choice, ending>>

(* The tool answers, or fails and a fallback strategy turns that into a result. *)
ToolReturns(c) ==
  /\ task[c] = "running"
  /\ task' = [task EXCEPT ![c] = "returned"]
  /\ \/ body' = [body EXCEPT ![c] = "error"] /\ UNCHANGED <<produced, ui>>
     \/ /\ body' = [body EXCEPT ![c] = "ok"]
        /\ \E urls \in SUBSET Urls : produced' = [produced EXCEPT ![c] = urls]
        /\ ui' = IF IsGetContent(c) /\ ~IsSuppressed(c) THEN [ui EXCEPT ![c] = "ok"] ELSE ui
  /\ IF DefersClose(c) /\ ~IsSuppressed(c)
       THEN pending' = pending \cup {c} /\ stage' = stage
       ELSE /\ stage' = IF stage[c] = "open" THEN [stage EXCEPT ![c] = "completed"] ELSE stage
            /\ pending' = pending
  /\ UNCHANGED <<control, messages, model, calls, adopted, shown, choice, ending>>

(* FallbackAgentStopException, or no strategy gave a message: the exception
   leaves arun through the stage's exit. *)
ToolRaises(c) ==
  /\ MayHardStop
  /\ task[c] = "running"
  /\ task' = [task EXCEPT ![c] = "raised"]
  /\ stage' = IF stage[c] = "open" THEN [stage EXCEPT ![c] = "failed"] ELSE stage
  /\ UNCHANGED <<control, messages, model, calls, adopted, pending, ui, shown, results,
                 choice, ending>>

-----------------------------------------------------------------------------
(* Faulty variant: the first result is enough to go on. *)
BugGatherReturns ==
  /\ pc = "tools"
  /\ \E c \in Elems(internal) : task[c] = "returned"
  /\ pc' = "process"
  /\ UNCHANGED <<failed, iteration, kind, messages, model, calls, stages, task, results,
                 choice, ending>>

(* gather returns when every task has, and raises at the first exception. *)
GatherReturns ==
  /\ pc = "tools"
  /\ \A c \in Elems(internal) : task[c] = "returned"
  /\ pc' = "process"
  /\ UNCHANGED <<failed, iteration, kind, messages, model, calls, stages, task, results,
                 choice, ending>>

GatherRaises ==
  /\ pc = "tools"
  /\ \E c \in Elems(internal) : task[c] = "raised"
  /\ Raise(stage)
  /\ UNCHANGED <<iteration, kind, messages, model, calls, task, results, choice, ending>>

(* A url goes to the choice the first time a result of this request has it. *)
PublishUrls ==
  LET batch == UNION {produced[c] : c \in Elems(internal)} IN
  /\ posted' = [u \in Urls |-> IF u \in batch \ propagated THEN posted[u] + 1 ELSE posted[u]]
  /\ propagated' = propagated \cup batch

(* __process_result: one tool message per result, in the order of the calls. *)
ResultRows == [i \in 1..Len(internal) |-> ToolRow(internal[i], body[internal[i]])]

(* The results are processed and applied; then the leftover stages are closed and
   the turn ends with the client's calls or goes on. *)
ApplyResults ==
  /\ pc = "process"
  /\ messages' = messages \o ResultRows
  /\ PublishUrls
  /\ \/ /\ external # <<>>
        /\ SurfaceExternal(adopted)
     \/ /\ external = <<>>
        /\ stage' = [c \in CallIds |-> IF c \in adopted THEN "completed" ELSE stage[c]]
        /\ adopted' = {}
        /\ pc' = "iterate"
        /\ UNCHANGED <<kind, pending, ui, shown, surfaced, hooksLeft>>
  /\ UNCHANGED <<failed, iteration, model, calls, task, results, hooksRun, closersLeft,
                 persisted, cancelled>>

-----------------------------------------------------------------------------
(* A completion hook runner; an exception of its own is swallowed. *)
RunHook ==
  /\ pc = "hooks"
  /\ hooksLeft > 0
  /\ hooksLeft' = hooksLeft - 1
  /\ hooksRun' = hooksRun + 1
  /\ UNCHANGED <<control, messages, model, calls, stages, task, results, choice, closersLeft,
                 persisted, cancelled>>

LeaveLoop ==
  /\ pc = "hooks"
  /\ hooksLeft = 0
  /\ Flush(stage, "completed")
  /\ pc' = "closing"
  /\ UNCHANGED <<failed, iteration, kind, messages, model, calls, adopted, task, results,
                 choice, ending>>

(* Faulty variant: a closer stays registered while it is awaited. *)
BugCloseResource ==
  /\ pc = "closing"
  /\ closersLeft > 0
  /\ UNCHANGED vars

(* RequestAsyncCloseRegistry.aclose_all awaits the closers one by one. *)
CloseResource ==
  /\ pc = "closing"
  /\ closersLeft > 0
  /\ closersLeft' = closersLeft - 1
  /\ UNCHANGED <<control, messages, model, calls, stages, task, results, choice, hooksLeft,
                 hooksRun, persisted, cancelled>>

(* Faulty variant: the state is stored without waiting for the closers. *)
BugPersistState ==
  /\ pc = "closing"
  /\ persisted' = TRUE
  /\ pc' = "done"
  /\ UNCHANGED <<failed, iteration, kind, messages, model, calls, stages, task, results,
                 choice, hooksLeft, hooksRun, closersLeft, cancelled>>

PersistState ==
  /\ pc = "closing"
  /\ closersLeft = 0
  /\ persisted' = TRUE
  /\ pc' = "done"
  /\ UNCHANGED <<failed, iteration, kind, messages, model, calls, stages, task, results,
                 choice, hooksLeft, hooksRun, closersLeft, cancelled>>

-----------------------------------------------------------------------------
(* The request's task is cancelled at its await. *)

Raised == \E c \in Elems(internal) : task[c] = "raised"

CancelLoop ==
  /\ \/ pc \in {"create", "process"} /\ Raise(stage) /\ task' = task
     \/ pc = "hooks" /\ hooksLeft > 0 /\ Raise(stage) /\ task' = task
     \/ pc = "stream" /\ Raise(SinkFailed) /\ task' = task
     \* A gather that already failed is done: its children are not cancelled.
     \/ pc = "tools" /\ Raised /\ Raise(stage) /\ task' = task
     \* The children are cancelled: one that never ran does not reach arun.
     \/ /\ pc = "tools" /\ ~Raised
        /\ task' = [c \in CallIds |-> IF task[c] \in {"created", "running"}
                                      THEN "cancelled" ELSE task[c]]
        /\ Raise([c \in CallIds |-> IF task[c] = "running" /\ stage[c] = "open"
                                    THEN "failed" ELSE stage[c]])

(* Cancelled inside the finally block: what follows aclose_all is skipped. *)
CancelTeardown ==
  /\ pc = "closing"
  /\ closersLeft > 0
  /\ failed' = TRUE
  /\ pc' = "done"
  /\ UNCHANGED <<stages, task>>

Cancel ==
  /\ MayCancel
  /\ ~cancelled
  /\ cancelled' = TRUE
  /\ CancelLoop \/ CancelTeardown
  /\ UNCHANGED <<iteration, kind, messages, model, calls, results, choice, hooksLeft, hooksRun,
                 closersLeft, persisted>>

-----------------------------------------------------------------------------
MainStep ==
  \/ StartIteration \/ ExceedIterations
  \/ CreateSucceeds \/ CreateRejected \/ CreateFails
  \/ \E c \in CallIds : StreamToolCall(c)
  \/ StreamRejected \/ StreamFails
  \/ FinalAnswer \/ OnlyExternalCalls \/ ArgumentsRejected \/ DispatchTools
  \/ GatherReturns \/ GatherRaises \/ ApplyResults
  \/ RunHook \/ LeaveLoop \/ CloseResource \/ PersistState

TaskStep(c) == ToolStarts(c) \/ UnknownTool(c) \/ ToolReturns(c) \/ ToolRaises(c)

Settled(c) == task[c] \notin {"created", "running"}

(* The request is over and so are the tasks it left behind. *)
Terminated ==
  /\ pc = "done"
  /\ \A c \in CallIds : Settled(c)
  /\ UNCHANGED vars

Next == MainStep \/ (\E c \in CallIds : TaskStep(c)) \/ Cancel \/ Terminated

Spec == Init /\ [][Next]_vars

(* The event loop runs every ready task, and every awaited call ends: model,
   tool, hook and close calls are all under a client timeout. *)
FairSpec ==
  /\ Spec
  /\ WF_vars(MainStep)
  /\ \A c \in CallIds : WF_vars(TaskStep(c))

-----------------------------------------------------------------------------
(* What the orchestrator stores in the choice's state for the next request. *)

LastMessage == messages[Len(messages)]

Terminal == LastMessage.role = "assistant" /\ LastMessage.calls = <<>> /\ LastMessage.ext = <<>>

Kept(m) == m.role = "tool" \/ (m.role = "assistant" /\ m.calls # <<>>)

(* The n-th of a set of positions. *)
Nth(set, n) == CHOOSE k \in set : Cardinality({j \in set : j <= k}) = n

(* Faulty variant: the client's calls are not stripped. *)
BugTurnHistory ==
  LET kept == {i \in DOMAIN messages : Kept(messages[i])}
  IN [n \in 1..Cardinality(kept) |-> messages[Nth(kept, n)]]

(* _build_tool_execution_history: tool messages, and assistant messages with a
   call of ours, without the client's calls. *)
TurnHistory ==
  LET kept == {i \in DOMAIN messages : Kept(messages[i])}
  IN [n \in 1..Cardinality(kept) |-> [messages[Nth(kept, n)] EXCEPT !.ext = <<>>]]

(* ... and _GetContentHistoryPolicy on a turn that ended with an answer. *)
SavedHistory ==
  IF ~failed /\ Terminal
    THEN [i \in DOMAIN TurnHistory |-> [TurnHistory[i] EXCEPT !.bytes = FALSE]]
    ELSE TurnHistory

-----------------------------------------------------------------------------
(* The abstract turn this module implements, and the refinement mapping. *)

OwnCalls == {c \in CallIds : \E i \in DOMAIN messages : c \in Elems(messages[i].calls)}

AnsweredCalls ==
  {c \in CallIds :
     ~IsExternal(c) /\ \E i \in DOMAIN messages : messages[i].role = "tool" /\ messages[i].id = c}

TurnPhase ==
  CASE pc = "iterate" -> "ready"
    [] pc \in {"create", "stream"} -> "asked"
    [] pc \in {"tools", "process"} -> "acting"
    [] pc \in {"hooks", "closing"} -> "ending"
    [] pc = "done" -> "over"

TurnOutcome ==
  CASE failed -> "failed"
    [] ~failed /\ pc \notin {"hooks", "closing", "done"} -> "open"
    [] ~failed /\ pc \in {"hooks", "closing", "done"} /\ kind = "completed" -> "answered"
    [] ~failed /\ pc \in {"hooks", "closing", "done"} /\ kind # "completed" -> "handed"

Turn == INSTANCE AgentTurn WITH
  Calls     <- CallIds,
  MaxRounds <- MaxIterations,
  phase     <- TurnPhase,
  rounds    <- IF iteration > MaxIterations THEN MaxIterations ELSE iteration,
  wanted    <- OwnCalls,
  answered  <- AnsweredCalls,
  offered   <- IF pc \in {"tools", "process"} THEN Elems(external) ELSE {},
  handed    <- surfaced,
  outcome   <- TurnOutcome,
  saved     <- persisted

(* The loop keeps the promise of AgentTurn: the model is asked again only when each
   call of ours it made has its result, the client's calls go out after those, a
   recovery or a retry is no new round, and a finished turn stays as it is
   (Orchestrator.invoke). *)
ImplementsAgentTurn == Turn!Spec

-----------------------------------------------------------------------------
(* Properties *)

Statuses == {"none", "open", "completed", "failed"}

(* Every variable holds a value the program can give it. *)
TypeOK ==
  /\ pc \in {"iterate", "create", "stream", "tools", "process", "hooks", "closing", "done"}
  /\ failed \in BOOLEAN
  /\ iteration \in Nat
  /\ kind \in {"completed", "external_tool_calls"}
  /\ messages \in Seq(Row)
  /\ internal \in Seq(CallIds) /\ external \in Seq(CallIds) /\ used \subseteq CallIds
  /\ attempts \in Nat
  /\ choiceHeld \in BOOLEAN /\ enforced \in BOOLEAN /\ retryUsed \in BOOLEAN
  /\ stage \in [CallIds -> Statuses]
  /\ adopted \subseteq CallIds
  /\ task \in [CallIds -> {"none", "created", "running", "returned", "raised", "cancelled"}]
  /\ body \in [CallIds -> Bodies]
  /\ produced \in [CallIds -> SUBSET Urls]
  /\ pending \subseteq CallIds
  /\ ui \in [CallIds -> Bodies \cup {"none"}]
  /\ shown \in [CallIds -> Bodies \cup {"none"}]
  /\ posted \in [Urls -> Nat] /\ propagated \subseteq Urls /\ surfaced \subseteq CallIds
  /\ hooksLeft \in Nat /\ hooksRun \in Nat /\ closersLeft \in Nat
  /\ persisted \in BOOLEAN /\ cancelled \in BOOLEAN

(* A list of messages the model accepts but for results of the client: the calls of an
   assistant message are answered by the tool messages right after it, in order, and no
   other tool message answers anything else. *)
WellPaired(h) ==
  /\ \A i \in DOMAIN h : h[i].role = "assistant" =>
       \A k \in DOMAIN h[i].calls :
         /\ i + k \in DOMAIN h
         /\ h[i + k].role = "tool"
         /\ h[i + k].id = h[i].calls[k]
  /\ \A j \in DOMAIN h : h[j].role = "tool" /\ ~IsExternal(h[j].id) =>
       \E i \in DOMAIN h :
         /\ h[i].role = "assistant"
         /\ \E k \in DOMAIN h[i].calls : j = i + k /\ h[j].id = h[i].calls[k]

(* The history stored by a turn that did not fail replays to a list the model
   accepts, names no call of the client's and, when the turn ended with an
   answer, carries no file (orchestrator.py _persisting_state).  Excluded: the
   results the client brought to a turn it resumed, whose calls the history
   drops (_build_tool_execution_history keeps every TOOL message, :409-410, and no
   ASSISTANT message with only client calls, :411-415); they stand alone in it,
   and the history of such a turn as a whole does not replay. *)
ReplayableHistory ==
  persisted /\ ~failed =>
    /\ WellPaired(SavedHistory)
    /\ \A i \in DOMAIN SavedHistory :
         /\ SavedHistory[i].ext = <<>>
         /\ kind = "completed" => ~SavedHistory[i].bytes

(* No tool runs beside a model call, a completion hook or the end of a turn that
   did not fail: gather joins its tasks unless one raises. *)
NoToolDuringModelCall ==
  pc \in {"iterate", "create", "stream", "process", "hooks"}
    \/ (pc \in {"closing", "done"} /\ ~failed)
    => \A c \in CallIds : Settled(c)

(* A turn that did not fail leaves no stage open, whoever opened it: the sink,
   a tool's task or the deferred-close registry; and it is so before the
   completion hooks run. *)
StagesClosedOnSuccess ==
  pc = "hooks" \/ (pc \in {"closing", "done"} /\ ~failed)
    => \A c \in CallIds : stage[c] # "open"

(* What a deferred stage shows is what the model was given: a recovery that
   rewrote the tool message also replaced the stage's queued result. *)
StageShowsTheMessage ==
  \A i \in DOMAIN messages :
    LET m == messages[i] IN
      m.role = "tool" /\ shown[m.id] # "none" => shown[m.id] = m.content

(* max_iterations bounds the model calls, recovery included: both scopes of the
   recovery share one retry. *)
ModelCallsBounded == attempts <= MaxIterations + 1

(* However the request ended, its resources were closed and its state was
   stored, unless the client disconnected. *)
StateSaved == pc = "done" /\ ~cancelled => persisted /\ closersLeft = 0

(* The request ends, and so does every tool it started. *)
RequestEnds == <>(pc = "done" /\ \A c \in CallIds : Settled(c))

(* docs/designs/error_message_resolution.md: "every stage must be closed -- with
   the right status -- before the exception propagates". *)
StagesClosedOnExit == pc = "done" => \A c \in CallIds : stage[c] # "open"

(* docs/designs/enforce_tool_call.md: on the first orchestrator iteration the
   model is held to the client's tool_choice. *)
ToolChoiceOnFirstIteration == iteration = 1 /\ pc = "stream" => enforced

=============================================================================
