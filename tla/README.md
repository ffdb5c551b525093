# A TLA+ model of the Quick Apps backend

Quick Apps is a DIAL application: it receives a chat completion request, sets up the
tools the application is configured with, runs an agent loop (model call, tool calls,
model call, ...) and streams the answer and its progress stages to a `choice`.
Everything runs on one asyncio event loop. What is hard about it is the interleaving of
tasks at their awaits, the ownership of objects that several tasks close or share
(stages, MCP sessions, downloads, promotions), errors and cancellations that arrive
half way, and a conversation whose state lives with the client.

This directory models that system: TLA+ modules, configurations that check them with
TLC, and proofs about nine of them that hold for every value of the constants. Paths below
are relative to `src/quickapp/` of the repository unless they start with `docs/`.

## Inventory

| Part | State | Operations | Works with | What is hard | What makes it correct |
|---|---|---|---|---|---|
| Orchestrator loop (`core/agent/orchestrator.py`, `tool_executor.py`, `assistant_invoker.py`) | iteration, messages, gathered tasks, completion kind, urls, state | `invoke`, `_run_iteration`, `execute`, recovery, `_persisting_state` | all below | exits by answer, client calls, error, cancellation; one retry for two scopes | the turn is what `AgentTurn` promises; nothing runs on; state stored |
| Stages (`common/stage_close_registry.py`, `common/chat_completion_stream/`) | stages by index, adopted, deferred | open, adopt, defer, sync, flush | choice, loop | four owners of one stage | one owner at any time, none left open |
| Argument presenter (`json_object_argument_streamer.py`, `argument_stream_presentation.py`) | automaton | feed, finish | sink | text cut anywhere, late names | the stream shows what a static dump shows |
| MCP sessions and tools (`mcp_tooling/`) | handle and lock per toolset, owner tasks | `get_session`, call, sign-in, publish, `aclose_all` | tool timeout, login, files | cancellation at any await, a sibling's 401 | one live session, no double run, every call ends |
| Setup (`mcp_tooling/_mcp_tool_initializer.py`, `dial_app_tooling/`, `dial_deployment_tooling/_deployment_tool_initializer.py`) | tooling contexts, issues | resolve, initialise together, sign in, retry | access filter, DIAL Core | partial failure | usable or reported |
| Tools block (`core/agent/_chat_completion_config_builder.py`, `common/deferred_tools_accumulator.py`, `tool_discovery/`) | deferred, hidden and loaded tools | offer, search, mark for the cache | setup, loop | parallel searches, a cache that needs a stable start | offers what was brought, grows at its end |
| Configuration (`config/predefined_content_provider.py`, `predefined_tooling/`) | templates by layer | load, merge, refuse | setup | layers and patches that disagree | refused means reported |
| Files (`orchestrator_attachment_strategies/`, `attachment_processing/`) | tool messages with files, told entries | prepared pair, `get_content`, rewrite, strip | recovery, history | files change between turns and are refused | told is current, attached is delivered, stored is light |
| Validation, history, injection (`core/application/_messages_*.py`, `common/synthetic_injection/`, `agent_hooks/`) | none: the client keeps messages and state | check, unpack, inject, store | client, loop | several requests make one history | every prompt replays |
| DIAL file tools, web fetch, shared loads (`dial_files_tooling/`, `web_tooling/`, `file_transfer/`, `dial_core_services/`) | cached bytes and metadata, shared tasks by url | read, edit, write, copy, move, load, promote | DIAL Core, its other clients | lost responses, stale caches, cancelled sharers | no lost updates, reads see writes, one upload |
| Deployment, REST and interpreter tools (`dial_deployment_tooling/`, `rest_api_tooling/`, `internal_tooling/`) | threads in the history, a shared client, sessions of the service | ask, request, run code | promotions, services | expiry, parallel calls of one client | threads continue, code sees its inputs |
| Skills (`skills/`) | resolved skills, picks | collect, fetch, merge, list, read | setup, injection | several sources, every fetch may fail | none lost without a word |
| Errors (`core/application/_exception_message_resolver.py`, `common/error_details.py`, `common/staged_base_tool.py`) | references, log | classify, report, stop | all | fields that disagree | the reference finds the failure, the advice helps |
| Statistics, timers, logging, schema scripts | reporting | | | | not modelled |

## Modules

| Module | Models | Extends |
|---|---|---|
| `AgentTurn` | abstract: one turn as the client and the model see it | |
| `Orchestrator`, `Orchestrator_proofs`, `MCOrchestrator` | one request: loop, tool tasks, recovery, stages, end | |
| `ArgumentStreamer` | the two argument presenters, and the static dump | |
| `ToolCallStream`, `ToolCallStream_proofs`, `MCToolCallStream` | the sinks of one model answer | `ArgumentStreamer` |
| `MCPSessions`, `MCMCPSessions` | session manager, borrowing calls, timeout, sign-in, teardown | |
| `FileArguments` | urls and file references in arguments | |
| `MCPTools`, `MCPTools_proofs`, `MCMCPTools` | MCP tool calls and resource reads | `MCPSessions`, `FileArguments` |
| `Templates` | predefined content and its merging | |
| `ToolsetSetup` | the completion initializers | `Templates` |
| `AgentTools`, `AgentTools_proofs`, `MCAgentTools` | the tools of each model call, and searches | `ToolsetSetup` |
| `ConversationHistory`, `MCConversationHistory` | client and server over the requests of one conversation | |
| `ContextEntries` | what the model is told about configured files | |
| `GetContent`, `GetContent_proofs`, `MCGetContent` | how files reach the model and leave the history | `ContextEntries` |
| `ToolTask` | a tool's task and the fallback strategies | |
| `WorkspaceFiles` | DIAL Core, caches, loads, file tools | `ToolTask` |
| `Threads` | conversation threads of a deployment tool | `ToolTask` |
| `Promotions` | external attachments and deployment calls | `Threads` |
| `ToolBatch`, `ToolBatch_proofs`, `MCToolBatch` | the tools that meet at files and promotions | `WorkspaceFiles`, `Promotions` |
| `Interpreter` | the Python interpreter tool | `Promotions` |
| `RestTools` | REST tools | `ToolTask` |
| `RemoteTools`, `RemoteTools_proofs`, `MCRemoteTools` | the tools that work at other services | `Interpreter`, `RestTools` |
| `Skills`, `MCSkills` | skills from the chat, the configuration and the directories | |
| `RequestErrors`, `RequestErrors_proofs`, `MCRequestErrors` | what becomes of an error | |

Definitions that begin with `Bug` are faulty variants of the definition after them; no
specification uses them. They record which slip each property notices. The modules with
variables state a type invariant (that of `RequestErrors` is in its proof module); only
`Orchestrator`'s is a property of a run, the others serve the proofs.

Common conventions: an action is what one task does between two awaits; a variable
`at`, `pc`, `step` or `phase` names the await; a choice in an action is an answer the
code cannot foresee. A variable commented as history is read by properties only.

### Orchestrator and AgentTurn

`pc` is the await of the orchestrator's own task: `create` (the completion call),
`stream`, `tools` (`asyncio.gather`), `process` (result processors), `hooks`, `closing`
(`aclose_all`), `done`. `task[c]` is the task that gather made for call `c`. `messages`
starts at the last user message: the history walk and the recovery stop there. A turn starts
fresh, with a pair that the get_content injector put in, or resumed: then the results of the
turn's earlier request (`Restored`) and the calls the client was handed, with its results
(`Brought`, each at least once), are in it too. One restored pair and `MaxBrought` calls and
results of the client stand for any number.

* One iteration is `StartIteration`, `CreateSucceeds`, `StreamToolCall`*, then one of
  `FinalAnswer`, `OnlyExternalCalls`, `DispatchTools`, `ArgumentsRejected`; after
  `DispatchTools` come the tasks' own steps, `GatherReturns` or `GatherRaises`, and
  `ApplyResults`.
* `Raise` is the `finally` of `_persisting_state`; it is part of every failing action,
  because nothing is awaited between the exception and the flush.
* `CancelLoop` gives a cancellation its effect at each await; gather cancels its
  children only when it has not failed itself.
* A stage belongs to the sink while it streams, to the tool task that adopts it, to the
  leftovers (`adopted`) or to the deferred registry (`pending`).

`AgentTurn` says what a turn is without any of this: answers of the model, results for
its own calls before the next, at most one rewrite of refused files, hooks after a final
answer only, one end. `ImplementsAgentTurn` instantiates it with a refinement mapping
from the loop's variables.

Abstracted: content of messages (kept: ok, error, rejected), statistics, timers, the
response state of the deployment, citations, the size-limit and offload processors, tool
calls without an id. A tool's fallback strategies are a choice here.

### ToolCallStream and ArgumentStreamer

One step is the handling of one delta with any of id, name and one character of argument
text of a call; a chunk is a sequence of characters between which the sink does nothing.
The text is that of a JSON object of the script, in different spacings, with escapes and
nested values. Presenters are values: `FeedAll` consumes text, `Finish` closes what is
open, `StaticDump` is the rendering of `__run_tool_body` they must match. Opening a stage
and naming it can fail; when argument text was lost that way (`lost`), the presenter
starts in mid-text and may take a nested object for the request: `ShowsTheRequest` says
nothing of such a call.

### MCPSessions and MCPTools

`pc[c]` is the await of call `c`: in the lock's queue, opening, calling, in the sign-in. A
handle is named `<<c, n>>` after the call and attempt that made it; `owner[h]` is its owner
task. `TimeOut` is `translate_timeout`: it cancels the call at whatever await it has
reached, the owner lives on. `BeginClose` and `EndClose` are the two halves of `aclose_all`,
around its gather. `outlived` is a call whose sibling's exception ended the request first.

`MCPTools` puts the tools around these sessions: the file argument is transformed, shared
with the toolset, sent, run by the server (`ServerRuns`), and the blocks of the answer
are published. A resource read finds its client by toolset name among what setup
registered. One argument holds at most one file; a load of a reference is atomic here
(`WorkspaceFiles` has its interleavings); the headers and the OAuth token are part of
opening. An upload that fails leaves the attachment inline.

### Templates, ToolsetSetup and AgentTools

A JSON document is a function from paths to leaves; objects are not empty, lists are
leaves. `Content` is what the layers together have for a template, `Patched` the merge patch, with
its refusals (`TouchesType`). What pydantic makes of a document is a constant operator.
References to disabled tools are dropped; the text of a prompt is abstracted.

`ToolsetSetup` runs the initializers in their order. Within the MCP phase the toolsets
initialise together: info, connect, pages of tools, pages of resources, eager reads,
close, with an error scope each as in the code; a 401 before the sign-in goes to the
batch, whose answer may repeat, leave out or deny toolsets. A deployment toolset is built
tool by tool. `AgentTools` adds the client's tools, static tools, the tool search, the
reasoning effort, a `tool_choice` that needs a tool, and the cache mark. The answers of a
search may repeat names and, where the bound allows it, invent them. Not modelled: `allowed_tools` (applied
beforehand), conversion of schemas, deferral of REST and internal providers, a filter
failure that is no HTTP error, `response_format`, stream options. `_handle_mcp_branch` drops
the `deferred` setting of a dial-app toolset
(`docs/designs/dynamic_tool_discovery.md:331` and `:522`); `Deferred` models what it does.

### ConversationHistory

The client holds `conv`. A request is `conv` with additions, right or wrong, a result of the
client possibly more than once; the server
validates raw messages, unpacks them, applies the transformers (`Transformed`: skills,
eager resources, the file of the user, the time, hooks, in their order) and runs an
abstract turn in which own calls are answered at once and client calls end the turn. The
ids of synthetic calls are hashes of tool, arguments and content, so an id stands for
all three. A failed turn is regenerated from the same messages (`docs/error_handling.md`,
section 4). Not modelled: the legacy state format, the system message, templating of hook
arguments, a client that changes its tools. Whether a hook's pair expired is a free choice.

### ContextEntries and GetContent

Entries are built from configured contexts and folders, compared with what the messages
say was told, and only the differences are told. A call and its result are one row. Over
the turns contexts and folders change, listings fail, users attach files, the model
asks for files, the model's deployment refuses them, turns pause, resume and fail. Title,
type and description of an entry are one value `about`. Abstracted: the depth of folder
listings, url normalisation, the default type. The policy on external fetching is a
choice per request; the home resolver keeps its state. A resumed turn ends the
conversation of the model. A failed turn may leave a partial state behind
(`docs/designs/pass_attachments_to_orchestrator.md`, concern 5 (3)).

### ToolTask, WorkspaceFiles, Promotions, ToolBatch

`ToolTask` is the frame of `StagedBaseTool.arun`: an exception or a timeout becomes advice, an
error text or a stop. `WorkspaceFiles` has DIAL Core with etags: a request is handled at one
moment (`Serve`) and its response comes later (`Reply`) or is lost. A stamp stands for
etag and content. Other clients change files named in `Open`. The caches, their
invalidation, shared loads (`FileLoaderService`), and each tool's order of requests
follow the code. `Promotions` has `DialFilePromoter`'s shared tasks, fetches that hop
from host to host, and deployment calls under a timeout. The upload of a promotion to
`files/{bucket}/{name}` is unconditional, as in the code. Loads of the loader are not
under a tool timeout. Other calls of a batch go on after one was cancelled or stopped:
more behaviours than the code has. Tool stages and a cancelled request are
`Orchestrator`'s.

### Threads, Interpreter, RestTools, RemoteTools

A request is planned as the answers of the model, each a set of calls; `Messages(c)` is what
the tool sees of them and of earlier requests. `Entry` is a call with its result, `Exchange` what it
becomes when the thread is rebuilt: the user message is left out (`Retold`) without readable
arguments or for an empty query without attachments, the assistant message for an empty result.
`Interpreter` has the sessions of the
service, which expire; the one client object that calls share (`current`), which each call
replaces on entry and closes on exit; and the transfers of input files. A busy service
(429) at the session check opens another session. Abstracted: equal names of
attachments, `close_session`, the paging of the sanitizer, parameters of deployments,
details of REST parameters.

### Skills

Initializers run one after another, the fetches of one in parallel with any outcome. A
skill is its source, url, name and files; a listing is a script of pages, which may
repeat or never end. Not modelled: texts, XML escaping, byte caps, a failing predefined
directory, the file-transfer instruction; one request.

### RequestErrors

An error is a record of kind, status, code, text and display message, each of which may
be missing. `Details` reads them from the body, `Ladder` is the list of rules in their order, `Resolved` the
first that applies, with its message (a name), status and advice. The error comes from setup, the model call or
tools that fail in parallel, where a stop fallback raises it again. `given` is the reference that
each failed call puts on its stop, at every display level; a stage shows it unless its level is none.

## Runs

| Run | Bounds | States, time | Properties |
|---|---|---|---|
| `orch_turn` | six calls, one of each kind; fresh and resumed turns with 1 call of the client's (`MaxBrought`); 2 iterations; 3 calls an answer; 1 hook, 1 closer, 1 url; cancel and hard stop; fairness | 1,122,176, 174 s | all of the loop, the refinement, `RequestEnds` |
| `stream` | one call streams every object of at most two members (escapes, nesting, every display), small ones beside it; one custom stage; a flaky stage | 96,350, 8 s | `OpenStagesOwned`, `ShowsTheRequest`, `StreamedIsHonest` |
| `mcp_shared` | two calls of one toolset, every failure, timeout, an end that overtakes them | 67,271, 3 s | `SessionShared`, `ClosedUnlessAbandoned`, `GivenLiveSession` |
| `mcp_tools` | a call and a read on one toolset, every file argument, sign-in, timeout; fairness | 515,683, 100 s | `RunsOnceUnlessSignedIn`, `SharedBeforeRun`, `ResultIsOfLastRun`, `ToolCallsEnd` |
| `setup` | 18 configurations of up to three toolsets | 129,806, 21 s | `IssueOrTools`, `OfferMatchesToolsets`, `BlockGrowsAtEnd` |
| `conv_turns` | 2 own, 2 client calls, 2 hooks, a file, skills, an eager resource, 3 times; 6 messages, 3 results a request (`MaxResults`) | 443,441, 39 s | `PromptWellPaired`, `OwnResultsKept` |
| `files` | two turns; five references of every kind and one folder; one call a turn | 667,222, 64 s | `ContextTold`, `ListedCanBeLoaded`, `AttachedIsDelivered`, `HistoryIsLight` |
| `tools_batch` | two or three calls, three files, two urls, lost responses, other clients; fairness | 312,105, 77 s | `ReadsSeeOwnWrites`, `OneUploadPerUrl`, `OnlyWhatWasSeen`, `CallsEnd` |
| `tools_remote` | up to three calls over one to three answers, three sessions, redirects; queries with and without text | 65,769, 8 s | `ThreadContinues`, `CodeSeesItsInputs`, `AloneKeepsItsClient` |
| `skills` | four urls, three names, two calls of the reader, budget 2 | 1,407,640, 53 s | `NoSilentLoss`, `BudgetKept`, `ListedCanBeRead` |
| `errors` | every combination of the fields, two tools | 76,878, 16 s | `ReferenceFindsFailure`, `AdviceMayHelp` |
| `mcp_leak` | as `mcp_shared`, no overtaking end | violated | `SessionsClosedAtEnd` |

Why the bounds are enough. *Loop:* two iterations are the least in which a url, a
deferred stage or a retry meets an earlier one; three calls in an answer let an own call,
a client call and a deferred call meet; calls of one kind are interchangeable. *Sessions:*
two calls race at the lock, share, and overwrite each other's handle; a third repeats a
role. *Conversation:* six messages hold a paused, a resumed and a following turn;
three results answer both client calls and one of them again. *Files:*
the second turn is where a told entry, a stripped file or a refused one of the first is
met again. *Batch:* two calls are what a race needs, the third ends or times out
meanwhile; the scripts enumerate the pairs of tools that share a file, a load or a
promotion. *Setup:* each kind of toolset meets each other kind that it shares state with.
*Skills:* three names over four urls collide within and across sources; the budget is
smaller than the picks. *Errors* is exhaustive over the fields the rules read.

Deadlock is checked except in `files` and `skills`, where a conversation simply ends.

### Fairness

The event loop runs what is ready, so every task's steps are weakly fair. An awaited
request is answered, fails or times out: HTTP clients have timeouts, and streams have the
read timeout of their transport. Never due are cancellation, failures of a session, tool
timeouts, changes by other clients and loss of a response. `ToolCallsEnd` therefore has to
hold by the liveness watch of the session manager alone; under `CallsEnd` the steps that are
due include the failure of a request at its own timeout, never the timeout of the tool. `ConversationHistory`, `GetContent`, `Skills`, `AgentTools` and `RequestErrors` state no
liveness.

### What the properties leave out on purpose

* `ReadsSeeOwnWrites` exempts a read that runs beside the acknowledgement of a change (`racing`)
  and the destination of a copy or move: `copy` and `move` do not invalidate it, although
  `docs/designs/dial_files_tools.md:951` says every change does.
* `OfferMatchesToolsets` allows a toolset that failed with 401 after its tools were appended
  to offer them twice after the sign-in.
* `IssueOrTools` exempts a template that is a reference itself: it is dropped without an issue
  (`_predefined_config_resolver.py:135`).
* `ContextTold` exempts a folder whose listing failed; the failure is kept for the request
  (`_folder_listing_provider.py:28`), and the model is not told.
* `StateSaved` excludes a cancelled request: one that is cancelled inside `aclose_all` does not
  store its state (`orchestrator.py:144`).
* `ReplayableHistory` excludes the results that the client brought to a turn it resumed: the stored
  history keeps them and drops their calls (`orchestrator.py:409`), so they stand alone in it (5 below).
* `PromptWellPaired` allows a call that the client answered twice to have two results in the prompt
  (8 below).
* `ThreadContinues` exempts an empty query without attachments from what a thread is told again
  (9 below).
* `NoSilentLoss` exempts a chip of this message that an earlier message picked too (10 below).
* `RunsOnceUnlessSignedIn` exempts a call when any session of its toolset ended with a 401.
* `AloneKeepsItsClient` says nothing of calls of the interpreter that overlap: they lose each
  other's client.
* `CallsEnd` holds of a call whose shared promotion was cancelled by another call's timeout:
  it ends, with a `CancelledError` that no handler of a tool catches and that ends the batch
  (`tool_executor.py:77`). `docs/designs/configurable_timeouts.md:75` (UC-3) promises the agent a
  timeout message, and `_attachment_resolver.py:33` that one failure lets the other resolutions
  complete.

## What the code does not keep

`mcp_leak` is a run. The other statements below are checked by configurations kept beside the
modules; TLC finds each violated, by the behaviour described. `MCOrchestrator_unkept.cfg` and
`MCConversationHistory_resumed.cfg` have two statements each: run TLC with `-continue` to see both
violated.

1. *An MCP session survives its request* (`mcp_leak`, `SessionsClosedAtEnd`). A timeout while the
   session opens leaves a handle without a session; the next call overwrites it and
   nobody tells its owner to exit. `docs/designs/mcp_within_request_session_reuse.md:143`: "sessions are
   guaranteed to close on both the success and error paths".
2. *A stage stays open* (`MCOrchestrator_unkept.cfg`, `StagesClosedOnExit`). A call with malformed
   arguments makes `ToolExecutor.execute` raise before it gathers; the published stages were not
   adopted yet, the sweep after the tools is skipped, and the final flush knows only deferred
   stages. `docs/error_handling.md:143`: "Any still-open progress stages are closed in a failed
   state".
3. *tool_choice is lost in a retry* (`MCOrchestrator_unkept.cfg`, `ToolChoiceOnFirstIteration`). It is
   consumed when the first request is built; the retry of that request goes out without it.
   `docs/designs/enforce_tool_call.md:18`.
4. *A resumed conversation is refused* (`MCConversationHistory_resumed.cfg`, `CompliantAccepted`). After a
   client-tool turn was resumed and answered, two assistant messages share one user message and
   the shape check refuses every further request. `docs/designs/external_tools_passthrough.md:76`.
5. *A stored history does not replay* (`MCConversationHistory_resumed.cfg`, `StoredHistoryReplays`). The
   history of a resumed turn has the client's result and not the call
   (docstring at `orchestrator.py:402`). What else such a history has does replay, in
   `orch_turn` and for every value of the constants (`HistoryIsReplayable`).
6. *A hook's result that changes back is not shown* (`MCConversationHistory_stale.cfg`,
   `LatestResultShown`). The first pair with the content is replaced where it stands, before the
   newer one (`docs/designs/config_driven_hooks.md:368`: "appended at the end of history").
7. *A display message changes the class of an error* (`MCRequestErrors_class.cfg`,
   `ClassIgnoresDisplay`), against the docstring at `_exception_message_resolver.py:257`: "Follows the same
   classification as the status ladder".

Three more were met while a property was stated, which names the case as one it leaves out; without
that exemption TLC finds it violated on the run's own configuration:

8. *A result sent twice reaches the model twice* (`PromptWellPaired`). `validate_messages_shape` and
   `validate_external_tool_results` compare sets of ids (`_messages_validator.py:107`,
   `_messages_setup.py:107`), so a client that repeats a result makes a list with two results of a call.
9. *An empty query is not told again* (`ThreadContinues`). `dial_completion_service.py:213` sends it
   and `:77` calls empty content normal; a later call of the thread rebuilds the exchange without the
   user message (`base_deployment_tool.py:246`), and the deployment sees an answer to nothing.
10. *A repeated chip is lost* (`NoSilentLoss`). A skill that an earlier message picked is dropped from
    the current picks (`_skill_reference.py:80`), and only those are reported
    (`_skill_invocation_initializer.py:120`): when its fetch fails now, nobody is told.
    `docs/skills.md:352`: "the reason is reported to the user".

Smaller disagreements seen while reading, without a configuration: `_MSG_HTTP_UNEXPECTED` says
"Please try again" for failures that are final; `_mcp_tool.py:136` advises prefixes that the
same function refuses; a prompt template that is missing ends the request with a `KeyError` and not with
the exception the comment in `_quick_app_completion.py` expects.

## Proofs

Each theorem holds for every value of the constants that the named assumptions allow; TLC
evaluates those on every run. In each module the argument is one inductive invariant, `IInv`
(`ToolsIInv` for the tools in `MCPTools_proofs`): it holds initially, every action keeps it, and it implies what the
theorems say. TLC checked each of them on the module's run before it was proved.

| Module | Theorems and what they state | Assumptions |
|---|---|---|
| `Orchestrator_proofs` | `TypeCorrect`; `ToolsJoined`: `NoToolDuringModelCall`; `StagesClosed`: `StagesClosedOnSuccess`; `CallsBounded`: `ModelCallsBounded`; `StateIsSaved`: `StateSaved`; `StagesShowMessages`: `StageShowsTheMessage`; `HistoryIsReplayable`: `ReplayableHistory`; `LoopKeepsTurn`: `ImplementsAgentTurn` | `CallAssumption`, `ToolAssumption`, `BoundAssumption` |
| `MCPTools_proofs`, of the sessions | `SessionsTyped`; `OneSession`: `SessionShared`; `SessionsClosed`: `ClosedUnlessAbandoned`; `LiveSessionGiven`: `GivenLiveSession` | `CallsAssumption` |
| `MCPTools_proofs`, of the tools | `ToolsUseSessions`: `MCPTools` implements `MCPSessions`; `ToolsTyped`; `RunsOnce`: `RunsOnceUnlessSignedIn`; `GrantedBeforeRun`: `SharedBeforeRun`; `LastRunTold`: `ResultIsOfLastRun` | `RegistriesAssumption` and that of `MCPSessions` |
| `ToolBatch_proofs` | `BatchTyped`; `OwnWritesRead`: `ReadsSeeOwnWrites`; `UploadedOnce`: `OneUploadPerUrl`; `OnlySeenDestroyed`: `OnlyWhatWasSeen` | `FilesAssumption`, `PromotionsAssumption` |
| `RemoteTools_proofs` | `RemoteTyped`; `InputsSeen`: `CodeSeesItsInputs`; `OwnClient`: `AloneKeepsItsClient`; `ThreadGrows`: `ThreadContinues` | `InterpreterAssumption`, `PromotionsAssumption`, `PlanAssumption` |
| `ToolCallStream_proofs` | `StreamTyped`; `OpenStagesHaveOwner`: `OpenStagesOwned`; `StreamedTellsTheTruth`: `StreamedIsHonest` | `StreamAssumption` |
| `RequestErrors_proofs` | `ReferenceFinds`: `ReferenceFindsFailure`; `AdviceHelps`: `AdviceMayHelp` | `ErrorsAssumption` |
| `AgentTools_proofs` | `NoneLost`: `IssueOrTools`; `OfferMatches`: `OfferMatchesToolsets`; `BlockOnlyGrows`: `BlockGrowsAtEnd` | `ScriptsAssumption`, `OfferAssumption` |
| `GetContent_proofs` | `GetContentTyped`; `ToldIsCurrent`: `ContextTold`; `ListedLoads`: `ListedCanBeLoaded`; `AttachedReaches`: `AttachedIsDelivered`; `StoredIsLight`: `HistoryIsLight` | `ContextsAssumption`, `RefsAssumption` |

What the invariants add to the properties, and why:

* *Orchestrator.* `NoToolDuringModelCall` is not inductive: it says nothing of the gather, where
  tasks are alive. `TasksOwned` adds that a task that is not settled belongs to the answer in hand
  while the loop is in the gather, and that no other place of a turn that did not fail has one.
  `StagesOwned` says who answers for each open stage at each `pc`: sink, running task, leftovers or
  registry; closing everything the current owner has then closes everything. `RequestsCounted` ties
  the number of requests to the iteration and the used retry. For `ReplayableHistory`, `TurnHistory` is
  stated by positions (`Kept`, `Nth`): where a result stands in the history then follows from
  counting the messages before it. In a resumed turn the client's rows are a gap in that count, at
  one place (`GapShift`, `NthOfGapped`): own calls after it keep their distance to their results. The refinement goes action by
  action: each maps to one action of `AgentTurn` or to none. `ToolAssumption` is what
  `provide_extra_openai_tools` enforces when a client tool has the name of one of ours.
* *MCPSessions.* A lock is held by the call that waits for the session it opens (`LockOfOpener`), an
  attempt opens one handle at most (`HandlesFresh`), only calls in flight have a session, one of
  their toolset (`Borrowed`), and while the request runs the dictionary has the session that live
  calls use (`CurrentWhileRunning`). `OwnersKnown` says who will tell each live owner to exit.
* *MCPTools.* The tools' steps are steps of the sessions, so all of that is there to use. Per call the
  invariant relates its step, its attempt and what the server ran and answered for it.
* *ToolBatch.* `FilesInv` orders stamps: what a cache, a load or a reader has is not newer than the
  file, nor older than the last acknowledged change unless the file raced with it, and an etag is
  not newer than its bytes, which makes If-Match safe. `UploadsInv` counts an upload for the
  promotion that a url has now and one for each that broke.
* *RemoteTools.* `ClientInv`: a call that overlaps no other has the client that is there, open.
  `TransferInv`: a file that a call has no task for, or has put, is in its session or the session
  is gone. An exchange adds its user message unless it is `Unsaid` (`NothingAppended`).
  `ThreadContinues` depends on the request only; its proof is about the operators: joined
  answers grow at their end (`FlattenGrows`), a selection of positions grows by one
  (`PickGrows`), and of the answer with a call only that call is of its thread (`OnlyItself`). The
  last needs `PlanAssumption`, that a name is the name of one tool, and showed a gap in the
  property: the model may pass the id of a sibling call as the thread, so that sibling is excluded as well.
* *ToolCallStream.* `OpenStagesOwned` is inductive with the types: no step needs more than the owners
  before it. `StreamedIsHonest` speaks of the end of a stream only; `SInv` says what leads there.
  `Sound` is about one presenter: what it has shown has one header, as many fences and quotes closed as
  opened but for the one it is inside of, and the end of the object once (`Balanced`, a count per kind of
  piece), with its flags and the streamer's phase in step with that. Every event of the streamer keeps
  it (`OnKeyIs`, `OnValueIs`, `OnObjectDoneIs`), so a character does (`FeedIs`), so a piece of text does
  (`FedAllSound`, by least counterexample). That balance alone does not exclude a request that counts as
  rendered and shows nothing; `Follows` does: the streamer is before the brace, between it and the quote
  of the first key, or inside a member, as the text that came in says. It needs the assumption that the
  text of an object with a member opens with its brace and a quote (`OpensAt`). `SinkSound` ties both to
  the sink's state of a call: the presenter is that of the name, a call without a name has all its text
  in the buffer, and the name comes once.
* *RequestErrors.* `GivenInv`: the reference of a failed call was handed out once and is logged with that
  call, and a stage that may show it does; `StopInv`: the call whose stop ends the request has one. The advice is a case analysis over the
  ladder of rules (`LadderOrder`), in its order.
* *AgentTools.* `ToolsetInv` says of each toolset, by the place of its initialization, what it has
  brought: nothing, everything the model may see, or an issue; and that whoever is asked to
  bring tools is not barred. The attempt to prove it showed that the model's `BeginApp` lacked the
  guard that `_resolve_one` runs for dial-app toolsets only; the guard is there now. For the offer,
  `ToolInv` says that a toolset has brought only what it shows, and `ServeInv` that the last block
  is what `_merge_tools` makes of the names found up to some point, each of them found once; the
  next block is made of more of them. The lists are stated by positions (`Pick`, `UpTo`), and the lemmas
  on them (sorting, filtering, joining) go by least counterexample. This attempt found the property wrong
  as it stood: a hidden name is offered when another toolset shows it or when it is the name of
  tool_search, and a name is offered twice when two toolsets have it, when its toolset was loaded again
  after a sign-in, when a tool has the name of tool_search or when a static tool is listed twice.
  The statement now names these cases.
* *GetContent.* `RowFits` says of each row, in the messages and with the client, that it has a file
  exactly when it says so, and that one of DIAL is of an accepted type. `TurnOpen`: a turn in
  hand, or handed to the client, has its user message and no result whose file was taken out; so
  a pair that the injector finds in a resumed turn delivers, and `AttachedIsDelivered` follows from
  `Reaches`. `LoopOK` ties what was told to the listing of the request, that listing to DIAL where it did
  not break, and the offer of get_content to what was found. `UploadRows`, `Uploaded` and `StoredIs` say
  row by row what the injector and the storing of a turn do to the messages.

What stays with TLC:

* Liveness (`RequestEnds`, `CallsEnd`, `ToolCallsEnd`): the prover has no fairness or ENABLED.
* What a fold or a filter of a sequence computes for every input: `ShowsTheRequest` (that the
  presenter's text is the dump of the parsed object), `NoSilentLoss`, `BudgetKept` and
  `ListedCanBeRead` (the merge of skills), `PromptWellPaired` and `OwnResultsKept` (the transformers).
  The prover has no induction over data. Where an invariant of a recursive function was
  enough (`FeedAll`, the history of a turn, the offered names), a least counterexample takes its place.

## Not modelled

* Statistics, timers, logging, pricing; the schema classes, the configuration builder API and
  the scripts: they report or describe and change nothing the modelled parts read.
* Result processors: the size limit and offloading. The name of an offloaded response has the
  time in milliseconds only, so two calls of one tool may write the same file
  (`dial_files_tooling/_offload_processor.py:47`).
* Schema conversion (`common/json_schema_converter.py`), templating of hook arguments, text
  operations of the file tools (edit, search, glob, truncation), conversion of MCP content.
* The stream of a deployment's own answer, usage and annotations.
* Buttons of starters, the clock, the tool that shows an attachment: single steps without
  state.
* The cache shared between requests (`common/cache.py`): concurrent misses load twice and the
  slower value wins for one ttl.

## Plan

What is left, most useful first:

1. `ConversationHistory`: `OwnResultsKept`, from an invariant over the positions of a history.
2. `ToolCallStream`: `ShowsTheRequest`, from the lemmas on one character and a relation between the
   text that came in and the part of the object that is parsed.
