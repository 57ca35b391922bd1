# A verification of the pi coding agent

The repository is a monorepo of four packages under `src/agent/packages/`
(paths below are relative to it):

| package | what it is |
| --- | --- |
| `ai` | one streaming interface over the providers of models: `EventStream`, the transform of a transcript into a request, one module per provider |
| `agent` | `Agent` (transcript, queues, runs, events) and `agent-loop.ts` (turns, tools, retries, the time budget), `proxy.ts` |
| `coding-agent` | tools, sessions on disk, compaction, settings, credentials, extensions, and the interactive, print and RPC modes |
| `tui` | terminal input, the prompt editor and differential rendering |

There is one thread of JavaScript per process. What makes the system hard is
what happens *between* two awaits: user calls, aborts, timers, tool results and
model replies step in there; plus several processes over one file, crashes
between two writes, a terminal and a network that cut everything into chunks,
and a language model whose replies may be anything.

## 1. Inventory

### Components, their state, and how they meet

| component | state | operations | who calls whom |
| --- | --- | --- | --- |
| `ai/src/utils/event-stream.ts` | `queue`, `waiting`, `done`, the result promise | `push`, `end`, iterator `next`, `result()` | providers push; the agent loop iterates and asks for the result |
| `ai/src/providers/*.ts` | the message so far, the current block or item, retry counters, Codex's `websocketSessionCache` | one stream function each | turn a service's events into one protocol of events; called by the loop's stream function |
| `ai/src/providers/transform-messages.ts` | none (a function of a transcript) | `transformMessages` | every provider, once per request |
| `agent/src/proxy.ts` | the message it rebuilds | `streamProxy`, `processProxyEvent` | a stream function that reads another provider's events over HTTP |
| `agent/src/agent.ts` | `_state.messages`, `pendingToolCalls`, `steeringQueue`, `followUpQueue`, `activeRun` | `prompt`, `continue`, `steer`, `followUp`, `clear*Queue`, `abort`, `waitForIdle` | hands the loop a snapshot of the transcript, its signal, and callbacks that drain the queues; gets events back and applies them (`processEvents`) |
| `agent/src/agent-loop.ts` | `pendingMessages`, `currentContext`, counters, flags and clock of one run | the steps of `runLoop`, `executeToolCalls*` | calls the stream function, the tools, `emit` |
| `coding-agent/src/core/tools/{file-mutation-queue,edit,write,edit-diff}.ts` | `fileMutationQueues`; the files | `withFileMutationQueue`, the bodies of edit and write, `applyEditsToNormalizedContent` | the loop's tool calls, in parallel; the run's abort signal |
| `.../tools/bash.ts`, `bash-executor.ts`, `utils/child-process.ts`, `tools/truncate.ts` | the process, its pipe, the rolling buffer, the file of the full output | `execute`, `executeBash`, abort, timeout | the loop's tool calls; the user's own commands |
| `coding-agent/src/core/session-manager.ts`, `agent-session-runtime.ts` | entries, `byId`, `labelsById`, `leafId`, `flushed`; the JSONL file | append, label, branch, branched session, open, migrate; new, resume, fork | the agent session appends on every `message_end` |
| `coding-agent/src/core/agent-session.ts` | retry and compaction promises and aborts, pending bash messages, queue mirrors, the event chain | `prompt`, `steer`, `compact`, retries, `abort`, tree navigation | listens to the agent; appends to the session; calls compaction |
| `coding-agent/src/core/compaction/` | none | cut points, `prepareCompaction`, branch summaries | the agent session |
| `coding-agent/src/core/settings-manager.ts`, `auth-storage.ts` | settings, modified fields, a write queue; credentials behind a file lock | setters, flush, reload; set, `getApiKey`, token refresh | everything, in several processes |
| `coding-agent/src/modes/interactive/interactive-mode.ts` | the prompt, `compactionQueuedMessages`, the escape handler and two that are saved, indicators | `onSubmit`, `handleFollowUp`, `handleDequeue`, escape, `flushCompactionQueue`, `handleEvent` | the user; calls the agent session and hears its events |
| `coding-agent/src/modes/rpc/` | pending requests, listeners, timers; commands, subscriptions, dialogs | `start`, `send`, `stop`, `waitForIdle`; the commands | an embedding program and the agent's process |
| `tui/src/stdin-buffer.ts` | partial escape sequence, paste state, timer | `process`, `flush` | the terminal, before the editor |
| `tui/src/components/editor.ts`, `kill-ring.ts`, `undo-stack.ts` | lines, cursor, snapshots, kills, prompts browsed | every key's effect on them | keys from the buffer above |
| `tui/src/tui.ts` | lines last written, the believed cursor and viewport | `doRender`, `requestRender` | components, after every change |

The rest (OAuth flows, resource and package discovery, extension loading,
widgets) is listed with reasons in section 7 and under
"components" in `PROJECT.json`.

### What is hard, and what makes each component correct

* **Event stream.** Producer and consumers interleave at microtasks. Correct:
  each accepted event is taken once and in order; an ended stream lets every
  consumer go; nothing follows the completing event.
* **Providers and proxy.** Services number blocks in different ways, interleave
  tool calls, send blocks of kinds the agent does not use, fail at any point;
  requests are made again by five loops in two files; connections are looked up
  before an await and entered after it. Correct: whatever the service, the
  events are one protocol from which a reader can rebuild the message; a reply
  that has begun is not asked for again; connections are neither shared nor lost.
* **Agent and loop.** Users steer, queue, take back and abort between any two
  awaits; the budget's gate and watchdog race a reply; failures are retried;
  parallel tools end in any order; counters are reset in one branch and counted
  in another. Correct: no message is lost or delivered twice, messages of a
  queue stay in order, each request is one a provider accepts and shows the
  model the transcript, tools do not outlive their turn, nothing is requested
  after an abort, the run becomes idle, and the guards against stopping early
  guard.
* **File mutations and edits.** Calls of one file queue behind each other; calls
  fail, are aborted, leave while others arrive; an abort does not stop a file
  operation; the edits of a call are found by offsets in a text that may be
  normalised. Correct: mutual exclusion per key, call order, no lost successful
  edit, an empty map in the end, every call returns; the edits of a call are one
  simultaneous change that leaves the rest of the file alone.
* **Shell commands.** Output beyond every limit, descendants that outlive their
  group and hold the pipe, an abort or timeout at any point. Correct: all output
  is in the buffer or in the file, what is shown is its end, and a command that
  is killed returns.
* **Sessions.** Lines are held back until the first reply; a crash cuts a
  write; branches, labels and forks share entries; old files are migrated.
  Correct: what memory holds is what the file holds once there is a reply,
  labels survive reading, a fork keeps the path it is made of.
* **Agent session.** Events are processed later than they happen; retries,
  compactions and prompts wait for each other through promises. Correct:
  transcript and session agree when all is quiet, every `prompt()` returns, and
  not before its retries.
* **Interactive mode.** Texts are submitted while the agent runs, while a context is
  compacted, and while neither is the case but nobody listens; they are queued in
  two places, sent, refused and taken back, all across awaits; the escape key is
  rebound by events that overlap. Correct: a text is given to the agent once or
  is still in sight, and escape cancels what is under way.
* **Compaction.** Cuts at boundaries, over and over; extensions and a model are asked
  between the choice of a cut and its record, while the path goes on or is left. Correct: no message is in
  neither context nor summary; no result without its call.
* **Settings, credentials.** Read-modify-write of a shared file, locks that go
  stale, tokens that can be exchanged once. Correct: nobody writes back what it
  merely remembers, nothing that was set is forgotten, a token is spent once.
* **RPC.** Processes die, are stopped and started again; two switches overlap.
  Correct: a request that waits can be answered or times out, answers reach
  their own request, a program hears the session in place and hears it once.
* **Terminal.** Chunks cut sequences anywhere; lines scroll out of reach; undo,
  kills, history and completions meet. Correct: each key and paste arrives
  whole, once and in order; the screen shows what a full redraw would; undo
  leads back.

## 2. Modules

| module | models | EXTENDS / INSTANCE |
| --- | --- | --- |
| `Channel` | abstract: what an event stream promises its ends | |
| `EventStream` | `event-stream.ts` | `Channel`, by refinement |
| `Reply` | abstract: what whoever reads a reply may count on | |
| `ReplyStream` | nine providers' streams and `proxy.ts` behind them | `Reply`, by refinement |
| `RequestRetry` | the requests `google-gemini-cli.ts` and `openai-codex-responses.ts` make for one reply | |
| `SocketCache` | Codex's cache of connections | |
| `Interactive` | what becomes of submitted texts and of the escape key in `interactive-mode.ts`, over a small agent session | |
| `MCReplies` | composes the five for TLC | `EventStream`; `ReplyStream`, `RequestRetry`, `SocketCache`, `Interactive` |
| `TransformMessages` | the second pass of `transform-messages.ts`, as a fold; `WellFormed` says what a provider accepts | |
| `AgentEvents` | abstract: what an agent promises its listeners | |
| `AgentLoop` | `agent.ts` and `agent-loop.ts` composed | `TransformMessages`; `AgentEvents`, by refinement |
| `MCAgentLoop` | lists of tool calls for TLC | `AgentLoop` |
| `MCAgentRuns` | one run of the whole loop, or two of a smaller one | `MCAgentLoop`; `AgentLoop` again |
| `FileMutation` | the queue, the edit and the write tool, the files | |
| `MCFileMutation` | two edits and two writes, two runs, one file with two paths | `FileMutation` |
| `EditMatching` | `edit-diff.ts`: what the edits of one call do to a text | |
| `CommandOutput` | a shell command, its pipe, its output | |
| `MCTools` | composes the three | `MCFileMutation`; `EditMatching`, `CommandOutput` |
| `Session` | `session-manager.ts` and new, resume and fork of `agent-session-runtime.ts`, the disk and crashes | |
| `MCSession` | the sessions a program may find at its start | `Session` |
| `Compaction` | `compaction.ts`, and the context of a compacted path | |
| `Settings`, `Credentials` | `settings-manager.ts`, `auth-storage.ts`, over several processes | |
| `MCStores` | composes the four stores | `MCSession`; `Compaction`, `Settings`, `CredentialsProofs` |
| `AgentSession` | `agent-session.ts` over an abstract agent | |
| `StdinBuffer` | `stdin-buffer.ts` and a terminal that sends chunks | |
| `EditBuffer` | abstract: an editor of one text with undo, kills and history | |
| `Editor` | `editor.ts`, `kill-ring.ts`, `undo-stack.ts` | `EditBuffer`, by refinement |
| `TuiRender` | `tui.ts` and a terminal that scrolls and clamps | |
| `Rpc` | `rpc-client.ts` and `rpc-mode.ts`, the process and two pipes | |
| `MCFrontEnds` | composes the four | `StdinBuffer`, `Editor`, `TuiRender`, `Rpc` |
| `AgentLoopProofs`, `AgentSessionProofs`, `CredentialsProofs` | theorems about the module each is named after | that module, `TLAPS` |
| `FileMutationProofs` | theorems about `FileMutation`, and about `CommandOutput` as `MCTools` runs it | `MCTools`, `TLAPS` |
| `RepliesInvariants` | the inductive invariants of the next two | `MCReplies` |
| `InteractiveProofs` | theorems about `Interactive`, as `MCReplies` runs it | `RepliesInvariants`, `TLAPS` |
| `RepliesProofs` | theorems about `EventStream`, `RequestRetry`, `SocketCache` and `ReplyStream`, and those about `Interactive`, beside each other | `InteractiveProofs` |
| `FrontEndsProofs` | theorems about `Editor`, `Rpc` and `TuiRender`, beside each other | `MCFrontEnds`, `TLAPS` |
| `StoresProofs` | theorems about `Compaction`, `Session` and `Settings`, and those about credentials carried over to `MCStores` | `MCStores`, `TLAPS` |

The composing `MC` modules put components beside each other that share nothing;
a variable `part` chooses, in the initial state, which of them a behaviour is
about, so that one run explores each of them in turn. Components that do meet
are one module (`AgentLoop` is agent and loop, `FileMutation` is queue, tools,
files and runs, `Rpc` is both processes, `ReplyStream` is provider and reader).

A definition whose comment begins with "Mutant:" is not part of a model. It is
a plausible bug in the operator that follows it, put in its place to see that
the property named with it in `PROJECT.json` notices.

### 2.1 EventStream

State: the stream's `queue`, its waiting consumers in order, `done`, the result
promise, and per consumer where its iterator is. Actions: `Push`, `End`,
`IteratorNext`, and `IteratorResume` (the microtask in which an awaiting
iterator goes on, which is where another push can come in between). `Complete`
is the set of events on which `isComplete` holds; for
`AssistantMessageEventStream` these are `done` and `error`. Two history
variables, the accepted events and the number taken, are what `Channel` has.

### 2.2 ReplyStream and Reply

One step of a provider handles one event of its service and may emit several
events; the reader (`processProxyEvent`) takes them one by one, later. `family`
chooses among nine providers: `completions`, `mistral`, `google` and `vertex`
(which differ in what ends a block), `gemini` (starts with the first part, asks
again when a stream was empty), `anthropic`, `bedrock`, `responses` and `codex`.
Pieces of text are numbers, so that a delta which reaches the wrong block, twice,
or not at all is seen. A block has two texts: `said`, what went out in deltas, and
`body`, what the provider's message has (of a call, its `partialJson`). They are the same
for most services. They differ where a service gives a text in another way:
Anthropic's redacted reasoning has its text at once (`AnthropicRedacted`); the Responses
services may send a call's arguments with the call (`ItemAdded`) or whole
(`ArgumentsDone`), put a separator behind each part of a reasoning
(`SummaryPartDone`), and set the text of an item at its end to what the item says
(`ItemDone`), which for a reasoning in parts lacks the last separator. `origin` says
whether a body came by deltas only. `ReaderRebuilds` claims `said` of every block, and
`body` of those that did; of the others the reader lacks what was never in a delta. `ConnectionEnds` and `ConnectionFails` cut the proxy at any
point. `Reply` says what a reader may count on (`start` first, blocks numbered in
their order, deltas of open blocks only, one end), and `ReplyStream` implements
it. Left out: how requests are built, usage and cost, signatures, and the parsing
of partial JSON.

### 2.3 RequestRetry and SocketCache

`RequestRetry` is the retry loop of the Gemini CLI provider (attempts, waits, the
endpoint that stands in, the loop for empty streams around them) and of Codex (a
WebSocket first, then requests). `begun` counts what the reader was given.
`SocketCache` is `acquireWebSocket` and its release functions: what is looked up
before the await of a connection may be gone after it, the idle timer is armed
and cleared per entry, and a release function deletes the session's entry
whichever socket is in it by then (`ReleaseDropped`, `Expire`). The socket and its server are external: a
connection may drop at any time.

### 2.4 AgentLoop

One step is a stretch between two awaits that somebody else can tell apart; the
user's calls, `Tick`, replies and tools step in between. `pc` says where the
active run is:

```
idle -> prompts -> inject -> streaming -> decide -> tools -> turnEnd -> turn -> inject ...
                     |                      |                   |
                     +-> ending             +-> followUp -> finish -> ending -> idle
```

* `Prompt`, `Continue`, `Steer`, `FollowUp`, `ClearQueues`, `Abort` are the
  methods of `Agent`; `DropLastReply` is what `AgentSession` does to the
  transcript before it retries: the last message goes if it is a reply, whichever it is by
  then. The session gets there from its own queue of events, after the run it answers, so
  a later run may be active. `parted` is set if one is, and `orphans` follows the
  results of a reply with calls that went: `ModelSeesTranscript` excepts the rest of
  that run, whose context keeps the reply, and `RequestWellFormed` the runs that
  begin with such a transcript.
* `BeginLoop`, `InjectMessage`, `GateShut`, `Request`, `RequestThrows`,
  `StreamReply` are the head of a turn; `RequestThrows` is `handleRunFailure`
  (a stream function throws when there is no credential, `sdk.ts:307`).
* `FinalReply` to `CriteriaTurn` are the branches a reply can take;
  each `continue` of `runLoop` is an action. They are tried in the source's
  order, so each guard holds the negation of those before it.
* `PrepareCall`, `RefuseCall`, `ToolReturns`, `FinalizeCall` are
  `executeToolCallsParallel` or `...Sequential`, chosen by `ToolExecution`.
* `RecordResults`, `GracefulExit`, `TurnEnd`, `TextReply` are the end of a
  turn; `PollFollowUps`, `ReviewPass`, `Finish`, `AgentEnd`, `Settle` the end
  of a run.

Abstractions. The clock has four thresholds, in the order they have with a
budget of 67 s or more (below that GRACEFUL_EXIT_MS comes before the 60 s of the
review pass), and ticks only where the loop will read it before anybody sees
it. A reply is a stop reason and a list of calls, each an edit or a read (a write
is booked like an edit). Which files a task expects, what the tools printed and
which files exist is data: the branches that depend on it are taken
nondeterministically. Nudges pushed one after the other are one message; their
texts are left out. Left out too: `message_update` and
`tool_execution_update`, the branch for protected paths, edits of paths that
`isRealUnixFile` rejects, files the loop itself writes (prefetch, clean-up), and
`reset()`, which nothing calls. Hooks and listeners do not throw: those of this
repository catch their errors. A provider reports the stop reason `toolUse` only
with a tool call, so it is not told apart from `stop`.

`MCAgentRuns` explores two instances in one run of TLC: the whole loop for one run of
the agent, and a loop that retries nothing for two of them over one transcript.

### 2.5 TransformMessages

`Transform(context)` folds `AddMessage` over the messages: assistant messages
that stopped with `error` or `aborted` are skipped, and calls without a result
get a synthetic one, in a loop over the pending calls (`InsertSynthetic`), before the
next assistant or user message. As in the source (98-171), calls of the very last reply get none. The first pass, which rewrites
blocks and ids for another provider's model, is left out.

### 2.6 FileMutation

`Enqueue` is `withFileMutationQueue` up to its await, with the key that
`realpathSync` gives, or the path as it was named when the file does not exist
yet; `Enter` begins the body; `Release` is the finally block. `Opened`,
`ReadDone`, `Truncate`, `Fill` and `WriteFails` are the body's file operations;
`Abort` rejects the promises of the bodies under a run's signal, at once, while
their current operation goes on. A file's content is the sequence of the calls
whose changes are in it, so a lost update is one that is not there. `writeFile`
truncates and then fills, and may fail before or after. A later run starts
when the calls of the run before it have returned, as the loop does; their
bodies may still be at work.

### 2.7 EditMatching

A call with two edits of a file: line endings (every "\r" becomes "\n", and what is put
back is the first end of a line that is not a lone "\r"), the exact and the fuzzy search
(`NormalizeForFuzzyMatch`, with "A" for the characters it maps to "a"), the count
of occurrences, the overlap check, and the application from the last match to
the first (`ApplyEdits`). `EditsAreSimultaneous` compares with a definition that knows no
offsets: `Replaces` says that a text is what the old one becomes when it is cut at
two disjoint places. In the result all lines end alike; that everything else of the file is
kept is said only of files whose lines ended alike before, in "\n" or in "\r\n". It is an
algorithm, so the run's initial states are its inputs.

### 2.8 CommandOutput

`Write`, `Exit`, `LetGo` and `PipeEnds` are the command, its descendant and the
pipe; `Data(n)` is one `data` event of `n` bytes, with the rolling buffer, the file
that is opened when the output grows past the limit, and the chunks that are let
go; `Abort` and `Timeout` kill the group; `Settle` is the end of
`waitForChildProcess`, with or without the 100 ms for a pipe somebody else holds.
`by` tells the tool from `executeBash`, which takes control characters out: byte by byte
here, while `stripAnsi` (`bash-executor.ts:87`) sees a chunk at a time, so that a sequence
that two chunks share stays in.
What is shown is `truncateTail`. A piece of output is the number of its byte.

### 2.9 Session

A call of the session manager is synchronous, so it is one action; the lines it
writes go to `todo` and are written one per step, no other call beginning
before, so that `Crash` can come between two lines, in the middle of one, or
before its newline. A line after one that has no newline is glued to it and both
are lost to a reader. `Fork` writes the branch (when it has a reply) and then
opens it with `SetSessionFile`, as the runtime does. A program that stops
between two calls is covered by `OpenSession` and `NewSession`, which replace
the manager whatever it held. They are one action each, although the runtime has awaits
in `replace` (`agent-session-runtime.ts:192-200`: the new runtime is made, extensions
hear of the end of the old one, which is then disposed of): what the old session
appended to its own file in between is not modelled. Entries that are neither messages nor labels
(model changes, summaries, compactions) are `note`s: to this module they only
have a parent. `append*` are one action over the kind of entry.
`Durable` compares what a reader finds, entries as a set, and speaks of files without a
torn line; that the first reply may append a second header and all entries again
(`session-manager.ts:799-808`) is therefore shown to be harmless, not to be absent.
Left out: in-memory sessions, `forkFrom`, the list of sessions.

### 2.10 AgentSession

The agent emits its events without waiting, so they queue in `events` and are
processed later, one at a time; `handler` says what the one being processed
awaits (an extension, the retry's sleep, a compaction). `Prompt` is cut at its
awaits: the checks before, `agent.prompt()`, `waitForRetry()`. `messages`
(the transcript) and `session` (the entries) are separate, which is what
`ContextAgrees` is about. `compaction` holds one compaction for each who may ask for
one: a prompt, the event queue, and the user; the first two share an abort controller.
The agent below is abstract: a run appends replies that succeed, fail with a
retryable error, overflow, with an error or silently (`oversized`: it stops as it should
and its usage is beyond the window), fail otherwise or call a tool; what it does in detail
is `AgentLoop`'s.

Three histories hold what the code lets happen and the properties therefore
except: `lost` (messages replaced away by a compaction that ran beside a run, or
entered on one side only), `orphaned` (a retry that finds nothing to continue, or
an `agent_end` nobody heard) and `disturbed` (an abort, or a run that began before
the events of the previous one were processed). What they stand for is listed
under "Disagreements"; `lost` in particular excuses the messages of a run under which a
compaction replaces the transcript, so that `ContextAgrees` says that nothing else goes.

### 2.11 Compaction

An entry of the path is known by its position. `NearestCut`, `IncludeNotes` and
`FirstKept` are `findCutPoint`, `TurnStarts` and `IsSplitTurn` the turn it may split.
A compaction is cut at its awaits: `Prepare` chooses the cut and what the new summary
covers (`prepareCompaction`, `compact`), `AppendCompaction` records it or `GiveUp`
does not, and in between the path goes on: messages, another compaction, and
`Navigate`, which is `navigateTree` and asks neither whether a compaction nor
whether a tool is under way. `UpTo` is what a cut that was chosen has to do with the path
after that: its first kept entry may be off the path, and `buildSessionContext` then keeps
nothing from before the compaction (`KeptFrom`). The model's summary is taken at its
word; a cut that an extension chooses is left out.

Three histories of an entry say what the code lets happen and the properties except:
`dropped` is what a split turn without a history lets go of, `missed` what was
written behind the place the session had been taken back to while a summary was being made, and a
result is `astray` if the session had left the reply that asked for it.

### 2.12 Settings and Credentials

Both are read-modify-writes of one file by several processes under
proper-lockfile, which is external and modelled by what it does: a directory is
made, a lock is taken over from a process that died (or, with credentials, from
one that has not touched it for ten or thirty seconds). `Settings`: a setter
changes `memory` and `modified` and queues a task; the task takes the lock, reads
(`view`), merges and writes; a write can be cut short by a crash, and the file may
not exist when `withLock` looks. `Credentials`: what is synchronous in the code
(`sync`) lets nothing else of its process run; `refresh` is `getApiKey` with an
expired token, whose network call is the only await under the lock. The token
endpoint is external: it exchanges a token once. `harmed` and `unanswered`
are the exceptions the code does not handle: a lock taken from a living holder, a
file cut short or created twice, an answer that never reached the file.

### 2.13 StdinBuffer

The terminal sends keys and pastes, any number of characters arrive at once, and
the 10 ms timeout fires in between. The characters are the classes the code tells
apart. `Extract` is a fold over the characters, where the source looks for ever
longer prefixes; `ProcessOnce` is one call of `process`, and `Process` makes the calls
that the source makes from within, each with what the paste left over. `torn` marks a key the timeout cut, which is what the
timeout is for, and `dropped` the one case in which the code throws text away.

### 2.14 Editor and EditBuffer

`Editor` has the lines, cursor, undo stack, kill ring, `lastAction` and history of
`editor.ts`, and an action per key. `EditBuffer` is an editor of one text with a
cursor: what a kill, a yank-pop or an undo means there is one line each. The
refinement joins the lines; it fails when a kill over a line end, a yank of
several lines or a snapshot does not do what the text sees.

### 2.15 TuiRender

TUI's beliefs (`previousLines`, `hardwareCursorRow`, `previousViewportTop`,
`maxLinesRendered`) and a terminal beside them that scrolls and clamps, as
terminals do. `Render` takes the branch of `doRender` that the source takes:
full, with or without clearing, appended, differential, or deleting. `astray`
holds from when the code sends the cursor off the screen until something clears
it, see "Disagreements".

### 2.16 Rpc

The client's map of pending requests, its listeners and timers, `start` and
`stop`; two pipes of lines; and the process with its commands, sessions,
subscriptions and dialogs. A switch of the session is cut at its awaits, so two
can overlap. Commands are of four kinds: answered at once, answered later, a
prompt, a switch. A subscription knows the switch it was made by, and `unsubscribe` is the
one the mode would take back, whose session may be another by then. `cleared` marks requests whose entry `stop` has removed,
`stranded` a session that was disposed of and not replaced.

### 2.17 Interactive

The user's side (`Submit`, `Dequeue`, `Escape`, `EscapeRetry`, `Compact`), the flush of
what was held during a compaction (`FlushNext`, `RestoreQueue`), `/tree` from the choice of an
entry on (`Navigate`, `NavigationMoves`, `NavigationEnds`, `NavigationFails`), `handleEvent` as far as
the escape handler and the indicators go (`AgentStarted` to `RetryEnded`), and below them
the session as this class sees it. `AgentSession` looks at the same session for its
transcript; here texts have names, so that one that is lost or given twice is seen, and
the transcript only says whether it ends with a reply. Replies and compactions may be of any kind, prompts are refused or
compact first, events are processed late. What the session does between two awaits of
microtasks (`Settled`) is not interrupted.

A text is the sequence of the numbers it is made of, since what is taken back is joined
with what the user types next. A session compacts (`isCompacting`) while it does and while there is a
controller for a branch summary, which `navigateTree` makes for any navigation; texts are
held then too. `unheard` says that some were with no compaction under way, and `HeldWhileCompacting`
excepts these, since nothing sends them until a compaction ends. `dropped`, `repeated` and `crossed` name what the code
gives up, keeps although it is gone or in another place as well, and lets overlap (any navigation
among them, since it restores the escape handler of its beginning); each is set where that happens,
and "Disagreements" lists the places. A command of an extension cannot be among the held
texts, so `FlushNext` leaves out its branch for them.

## 3. Runs

| run | instance | what it shows |
| --- | --- | --- |
| `replies` | 2 consumers, 3 kinds of event, 5 pushes; 9 providers, 4 events of the service; 3 retries, 2 for empty streams, 2 endpoints; 3 requests, 4 connections; 3 texts, one of them a command, 2 flushes, 1 retry, 4 steps of trouble (a text, a failing or tool-calling reply, a compaction, a navigation, a refusal, a text taken back) | every consumer of an ended stream returns, `EventStream` implements `Channel`; the reader rebuilds the message, and reads a `Reply`; nothing is asked again once a reply has begun; connections are neither shared nor left open; no text is lost or given twice but where the code gives it up, the list of queued texts is what waits, texts held during a compaction are sent when it ends (`TextsKept`), escape fits what is under way |
| `agent_runs` | one run: 2 requests, 3 user messages, parallel tools, replies with no call or a read and an edit, every limit 1; or two runs of a loop without retries, one request each | messages conserved and in order, tools within their turn, only late messages stranded, the model sees the transcript in requests it accepts; a request under an aborted signal, of which an abort may leave one, is the last |
| `agent_sequential` | sequential tools, short budget, 1 user message: one run of 3 requests; or two runs of a loop without retries | a run that ends by itself has edited; `AgentLoop` implements `AgentEvents`, every run becomes idle |
| `zero_diff`, `force_edit` | parallel tools | **violations**, see below |
| `tools` | an edit and 2 writes of one run, an edit of the next, a link and a real path of one file; two edits of a call on every file of 3 characters out of 5 and of 4 out of 4; 5 bytes of output with limits of 2 bytes and 2 lines | call order, no successful change lost, every call returns; edits of a call are one simultaneous change; no output is lost, a killed command returns |
| `file_aborts` | 2 edits, one per run | **violation**, see below |
| `stores` | session files: 4 entries, 2 files, from a file of version 2 or from nothing; a path of 5 entries with a budget of 1 and one compaction at a time; 2 processes, 2 keys, 3 settings, 2 crashes; 2 processes, 1 change, 3 crashes, network errors or expirations | memory is durable once there is a reply, labels are those of the entries; compactions forget no message and part no result from its call; nobody puts a remembered setting or credential back, nothing set is forgotten, a token is spent once |
| `session_fork` | 4 entries, 2 files | **violation**, see below |
| `agent_session` | 2 prompts, 1 retry, 2 troubles (a failing, overflowing, oversized or tool-calling reply, a compaction, a queued message, a bash result, an abort) | transcript and session agree when all is quiet; a retry is awaited; every prompt returns |
| `front_ends` | 3 keys of 4 kinds, no SGR mouse report and no OSC sequence among them; 2 changes of a prompt in an editor with two kills and two prompts of history; 5 renders of up to 4 lines on 2 or 3 rows; 2 requests, 2 processes, 1 dialog, 1 waiter, 2 stops | keys and pastes arrive whole, once and in order; undo leads back, `Editor` implements `EditBuffer`; the screen shows what a full redraw would; no request is forgotten, the session in place is heard once |
| `proxy_cut` | one provider, one event | **violation**, see below |

Why the bounds are enough.

* *Replies.* Two consumers are the least that can race for an event, and five
  events the least that leave a waiter served, a queue and an end in one
  behaviour. Four events of a service are two blocks with text in each, or one
  block interrupted by another and resumed. Three requests are the least with one
  connection cached, one beside it and one that comes when both are back; with
  four requests the cache alone was checked once as well.
* *Agent.* A reply with two calls is the least in which results can be
  out of order; two requests the least with a retry or a second turn; two runs the
  least in which one inherits what another left; two queued messages the least
  that can change places, and with a steering and a follow-up queue in different
  modes both modes are run. Limits of 0 or 1 put each counter at, below and past
  its limit, where the code's 2 and 100 only repeat.
* *Tools.* Three calls under one key are needed for a deleted key to matter; the
  fourth has the other name. Three characters hold two disjoint matches and
  something else, four also an overlap of two matches of two. Five bytes over a
  limit of two fill the buffer, open the file and let two chunks go.
* *Stores.* Four entries are enough for a message, a label of it, a reply and another
  message, the least for a fork to go wrong; the second file is the fork's. Five
  entries with a budget of one hold a compaction, a second one that starts at what the
  first kept, a split turn, a note at the cut, and a navigation, a call and its result
  while a summary is made; results without a size of their own (`Sizes` with 0) were
  checked in a run of that part alone, and so were paths of five entries on which a
  compaction is begun at the bound (2.2 million states; in the run none is, as its
  entry would have no room unless the session is taken back first). Two compactions
  at once are covered by the theorems only. Two processes race, and three sets are
  the least in which one process overwrites what another has overwritten of it.
* *Agent session.* Two prompts overlap, two troubles combine; with one prompt and
  three troubles liveness, and with four all invariants, were checked once as
  well, before oversized replies were modelled (6.2 million states).
* *Interactive mode.* Two texts are the least of which one can be refused while another is
  queued behind it, the third is a command or comes between; with two texts, two
  troubles are a retry and a compaction, an overflow that repeats, a compaction within a
  flush, or a refusal and a text taken back. Five such steps were checked once as well, before navigation was
  modelled (3.0 million states).
* *Front ends.* Three keys are a paste or a sequence between two others; all
  eleven kinds of key were checked once two at a time, and five kinds three at a
  time. Five renders are growth past the screen, a shrink, a resize, and a change
  after each. Two processes are the least in which an old answer meets a new
  request; that of several waiters one is passed over in the list of listeners is
  covered by the theorem `WaitersStillListen` only.

TLC's coverage of the runs shows every step of every component taken, but for two that the
code guards against and that never come about: an event `processProxyEvent` throws at,
and an idle timer that finds its connection in use.

`CHECK_DEADLOCK FALSE` stands in every configuration because the systems do
stop: a stream that was ended, an agent nobody prompts, calls that have all
returned, and every component at the bounds of its instance.

The types are proved, or, for the modules without a proof,
were checked in runs of their own, which the project does not keep.

### Disagreements between the code and what it says

With a run:

* `zero_diff` (`FinishedRunHasEdited`): the loop reads `results[i]` as the
  result of `toolCalls[i]` (`agent-loop.ts:932`), but parallel execution puts
  refused calls first. An edit that was refused is booked with the read's
  success, and the "unconditional" guard against a run without a change lets the
  run end. With sequential tools the property holds (`agent_sequential`).
* `force_edit` (`ForceEditStays`): the comment says that the demand for an edit
  "always triggers"; the steering poll at the end of the same turn replaces it.
* `file_aborts` (`MutationsSerialized`): an abort releases the key while the
  aborted body's `writeFile` is in flight, and the next run's edit of the same
  file writes beside it.
* `session_fork` (`ForkKeepsPath`): a branched session drops label entries that
  are the parents of entries it keeps, and so loses the path before them.
* `proxy_cut` (`EndedHasResult`): failures "must be encoded in the returned stream"
  (`agent/src/types.ts`), but a proxy's connection that ends without a final
  event calls `end()` without a result, and `result()` never settles.

Met while modelling, in the models as the code does it, and named by the exceptions
of the properties:

* *Agent session.* A retry's `continue()` that throws or finds nothing to
  continue leaves `_retryPromise` unsettled and `prompt()` waiting (`orphaned`).
  The `agent_end` of an earlier run resolves the promise of a later one
  (`disturbed`). What `_handleRetryableError` removes as "the error message" is the last
  message of the transcript at that time, if it is a reply (`agent-session.ts:2439-2443`):
  under a run that began meanwhile it can be a good one, and one whose tools run, which
  leaves their results without a call (`parted`, `orphans`). A compaction that runs from the event queue replaces
  `agent.state.messages` under a run that has begun meanwhile (`lost`). Two automatic
  compactions share one abort controller.
* *Interactive mode.* "Alt+Enter acts like regular Enter" when nothing streams
  (`interactive-mode.ts:2890`), but Enter empties the editor before it calls the submit
  handler, and Alt+Enter leaves the text there, where the next Enter sends it again. A
  text submitted while nothing runs, nothing is compacted and the
  loop does not ask (during the sleep of a retry, or before a prompt has begun its run) is gone
  (2237), and so is one whose prompt is refused. A flush whose prompt is refused restores
  all it was given: the session's queues are emptied, with what was queued since, and what follows
  in the batch is queued twice, as is what was taken back into the editor meanwhile. A prompt that compacts first can be overtaken by the
  flush at the end of its own compaction, and is then refused. Texts taken back include those the agent has, when their message is
  not processed yet, or was sent while `/compact` did not listen. Two
  compactions, or one and a retry, save each other's escape handlers (`crossed`). Texts submitted
  during `/tree` are held as for a compaction (2211-2218), but nothing sends them when the navigation ends;
  and when an extension cancels the navigation (`agent-session.ts:2706`) or its credentials are missing, the
  controller stays set, so that from then on every text is held (`unheard`). The handler of escape that
  is restored after `/tree` is the one of its beginning, whatever has happened since.
* *Compaction.* A split turn with no history before it gets "No prior
  history." and the previous summary is not passed on (`dropped`). A cut that lands
  on a note before a user message counts as splitting a turn. `/tree` may be used while a summary is
  written: if it goes back behind the cut, `firstKeptEntryId` is not on the path, and what is
  written until the compaction is recorded is in neither summary nor context (`missed`). It may be used while a
  tool runs: the result is then appended to another branch, without its call (`astray`).
* *Settings.* A failed write's fields lose their mark when another write succeeds
  (`failed`). A file that a crash left empty is read as no settings and
  overwritten, and two processes that create the file lose one change (`harmed`).
* *Credentials.* The synchronous lock counts as dead after ten seconds, the
  asynchronous one is touched every fifteen, so a refresh under way can be taken for
  dead and the token exchanged twice (`harmed`). A key set during the process's own
  refresh is not written and then forgotten in memory.
* *Commands.* A last line longer than the limit that ends in a newline shows "(no
  output)"; output cut by lines but below the limit of bytes refers to a file of the
  full output that does not exist; output in the pipe 100 ms after the exit is lost
  when a descendant holds the pipe.
* *Edits.* An `oldText` of blanks normalises to nothing and matches at the start of
  a file; overlapping occurrences count once; the fuzzy search normalises the
  whole file; mixed line endings become those of the first line, and a lone "\r" becomes
  a line ending, of the file's own kind, for good.
* *Terminal input.* An incomplete sequence right before a paste in the same chunk is
  dropped (`dropped`).
* *Rendering.* After the content shrank without clearing, a cursor marker above the
  viewport moves the cursor to a clamped row, and the next lines are written to
  wrong rows until something clears the screen (`astray`).
* *RPC.* Removing a listener while the list is walked passes over the next one; a
  second concurrent `stop` that times out kills the process started meanwhile; a
  switch that fails after its disposal leaves a disposed session in place
  (`stranded`); a command that throws is answered without its id and its caller
  waits for its timer.
* *Providers.* Gemini CLI retries failures its own comment calls immediate
  (`ai/src/types.ts:93`); Codex may push `done` with the stop reason "error";
  interleaved deltas of two calls in `openai-completions` make a third block with
  the id of the first; what a reader of the proxy has of a block lacks redacted reasoning and
  arguments sent whole, and keeps the last separator of a reasoning in parts (`origin`); releasing a reused connection may delete another's entry.
* *Editor.* Moves, kills, yanks and undo leave an open list of completions open,
  whose prefix is then replaced elsewhere.

### Fairness

* `EventStream` (and `replies`): weak fairness of a consumer: its loop asks for the
  next event, and a promise that has resolved runs its continuation. Nobody owes a
  push or an end.
* `AgentLoop`: weak fairness of the loop's own steps (awaits that have resolved
  continue; a stream ends, by its own timeout or because the watchdog aborts its
  signal), of the tools (they honour the abort signal, which the watchdog raises)
  and of the clock. The user owes nothing. Without the bound on requests a run
  could only be ended by the clock, since the guard against a run without a
  change retries for ever; the bound `MaxRequests` stands for the requests
  that fit into the budget.
* `FileMutation`: per call, weak fairness of entering, of its file operations and
  of leaving: the file system answers. Aborts are never owed.
* `CommandOutput`: weak fairness of `Settle` only: once a process has exited the
  100 ms timer fires. The command owes nothing, not even an end.
* `AgentSession`: weak fairness of what the system itself does: the agent's run
  goes on (`AgentLoop` shows that it ends), queued events are processed, sleeps
  end, the model answers a compaction. Users, bash commands and aborts are not owed.
* All other modules: none; only safety is stated.

## 4. Proofs

All are checked by TLAPS for every value of the constants, from the named
assumptions about constants only (`EventStreamAssumption`,
`RepliesAssumption`, `AgentLoopAssumption`, `AgentSessionAssumption`, `FileMutationAssumption`,
`FrontEndsAssumption`: an empty row is no line, and a terminal has a row,
`ToolsAssumption`: the limits on output are numbers, and one line may be shown, and
`StoresAssumption`: the value that stands for no process is no process), which say what
the constants are; TLC evaluates them in the runs. The other proofs assume nothing of
the constants.

* **RepliesProofs and InteractiveProofs.** Of the stream the inductive invariant is `TypeOK`, that nobody
  waits beside a queued event, and that the queue is the rest of the accepted events
  after those taken. Neither of the last two is inductive alone: `Push` may hand
  an event over, past the queue, only because a waiter means an empty queue, and
  an empty queue that all accepted events were taken. Proved from it: `TypeCorrect`,
  `NeverWaitsBesideEvent`, `Fifo`, and `RefinesChannel`: each step is a step of
  `Channel` or a stutter. Of the connections (`ConnectionsOwned`) the invariant says
  what an entry of the cache can be: sockets are numbered as they are opened, a
  request that holds one holds it alone, one that is cached was come by through
  an entry, and an entry that is busy and open is being used. `busy` and the timer are kept
  per entry while the cache forgets entries, which is why the property needs all of
  it. Of the requests (`AskedAgainUnseen`): nothing is begun while a request is about
  to be made. Of the escape key (`EscapeAlwaysFits`): until two things overlap that the mode
  does not tell apart (`crossed`) the screen shows one of three things, nothing special, a
  retry or a compaction, and a compaction exactly while one runs. A retry leaves the screen
  when a run begins, and that is an event, processed later: so the invariant speaks of the
  events on their way. While a retry is shown its sleep or its timer is to end or the
  beginning of a run is among them, and what is shown as loading is behind by those that
  begin and end runs (`Retrying`, `Loading`).
  Of the submitted texts (`TextsAlwaysKept`) the invariant is `TextInv`. A number that was
  typed is in some place, the editor, what is held, one of the queues, the hands of a prompt,
  what a flush has still to send, or what was said (`IsPlace`, `Keeps`), unless it was dropped
  (`Found`), and in no two of them but for `repeated` (`Separate`), nor twice in one
  (`AllApart`). That no two places have it is needed for places the property does not speak of,
  since `restoreQueue` brings a whole batch back: `Restored` says that what a flush still
  sends, or has given to a prompt, is of its batch, and `Promised` that no prompt is
  begun for a caller whose text is in hand. Every action then moves numbers from places to
  places, and a few lemmas say once what a move keeps (`Moved`, `Unmoved`, `Submitted...`).
  `/tree` moves none, but brings the text of the chosen prompt into an empty editor, and so
  counts it as `repeated`.
  For the list of what is queued the announcements come in: what is to be announced has been
  said (`Announced`), what is listed is queued or to be announced (`Listed`), and no text is listed
  twice (`ListedOnce`), so that an announcement takes one text off. The attempt to prove it
  found that `RestoreQueue` did not count as `repeated` a text that is brought back while the
  editor, another flush or another prompt has it. The bounds of the run are too small to
  show that, and beyond them `NothingTwice` failed; the code does bring such a text back, so it
  was the history that had to say so, and `ShownIsWaiting` to except a text that waits twice.
  Of a reply (`MessageRebuilt`, `EventsAreAReply`) the invariant `ReplyInv` says that
  the events on their way lead the reader from what it has to what the provider has
  emitted: there is a path of views, each the one before after one event (`Reads`, with
  the checks of `processProxyEvent`), and each is the beginning of what the deltas have said
  (`Beneath`), which is the message's own text as long as nothing else has given it one.
  What the provider has emitted is its content with the blocks that are still open, and which
  those are its own variables tell (`Opens`): the current block, the blocks that still have a
  number, and all of Mistral's calls. Six lemmas about paths (`LeadsOn`, `LeadsAway`, ...)
  make of each provider's step one question, whether what it emits leads from its
  old content to the new. `ReaderRebuilds` is not inductive: an event read next may be
  any number of the provider's steps old. The Responses providers need that the item under
  way is the last block, or was passed over (`ItemFits`), since `response.output_item.done`
  ends a call without a check; Mistral's last step needs that its calls have an order
  (`OrderExists`, by induction on their number, as a set). The same paths show that each event
  read is a step of `Reply`; a block that ends twice, which the reader allows, is a stutter.
* **AgentLoopProofs.** The invariant is `TypeOK`, strengthened by what each `pc`
  says of the last message of the context (the calls that are worked on are
  those of a reply), and that tools are running, or awaited, only in the tool
  phase and only for calls that were prepared. Proved from it: `TypeCorrect`
  (with the limits of the counters, whatever they are), `ToolsEndInTheirTurn`, `AbortIsFinal`, and
  `RefinesEvents`, the safety part of `AgentEvents`. `AbortIsFinal` needs a
  second invariant, `DeadEnds`: a request that began under an aborted signal can
  only be answered `aborted`, because the signal stays aborted until the run is
  settled, and that answer ends the run.

  The others add what each of them needs. `ModelIsShownTheTranscript`:
  `ContextFollows` says by how much the loop's list and the agent's transcript differ
  between two requests: by the prompts that are still to be announced, and by the results
  that are announced while the loop waits for the rest; until a reply leaves the transcript
  under the run (`parted`), of which nothing more is said. `OnlyLateMessagesWait`:
  `LateOnly` says what each of the two polls of a turn has left behind. For
  `MessagesAreConserved` and `QueuesKeepTheirOrder` every step is first shown to be
  one of twelve ways to move messages between the five lists (`NextMoves`), which needs
  that outside the two phases that poll and inject the pending list holds nothing of the
  user's (`PendingByPc`); then each way is shown to keep the count of every message,
  and the order of those of a queue (`InLine`: they stand in the order of their numbers, and whatever is
  submitted gets the highest). `SequentialRunHasEdited` has
  a hypothesis, `ToolExecution = "sequential"`, because the code needs it: the loop
  reads the i-th result as that of the i-th call, which `InCallOrder` shows to be right
  in that mode only; in the other, run `zero_diff` refutes the property.

  `RequestsAreWellFormed` takes two parts. `TransformIsWellFormed` is about one call of
  `Transform`, for a transcript in which each result belongs to the reply before it, once
  per call (`ResultsFit`), and whose last reply is answered (`LastAnswered`): `Tracks` says
  of each prefix what the fold has put out and which calls are pending, and `Half` that what
  it has put out is a request but for those. Then three invariants say that the loop only
  asks for such transcripts: `ContextFollows` again, `ResultsAreIn`, that the results
  collected while tools run are those of the calls that have ended, and
  `RepliesAnswered`, that only the reply being worked on may lack results. The last is about
  two lists, which a dropped reply parts: the transcript, until a reply with calls
  leaves it, and the loop's own, which is not touched, until a run begins from such
  a transcript (`orphans`). The source gives
  the calls of the very last reply no synthetic result, and it is `LastAnswered` that makes
  this harmless.
* **FileMutationProofs.** Mutual exclusion does not follow from "the call before
  me has returned" alone. The invariant says that the calls queued under a key
  form a chain: the history variable `ahead` is the set of calls before a call,
  a call that waits awaits one whose own `ahead` holds all the rest of it, and a
  key's tail is the last call of its chain. Then a call in its body has all of
  `ahead` behind it (`CallOrder`), of two calls of a key one is ahead of the
  other (`MutualExclusion`), and a tail that is left behind belongs to a call
  that is still queued (`MapDrains`). For `NoChangeIsLost` the files come in: between
  bodies a file is what the successful calls made of it, an edit that is about to
  write puts that back with its own change behind it, and it is `MutualExclusion` that
  no other body comes between the two. The exceptions are those of the property: a
  change cut off by an abort, and calls that queued under different keys.
  Of a command's output `OutputInv` says that everything that has arrived is in the
  file or, before there is one, in the buffer and short enough that no chunk has left
  it (`BufferInv`), that the buffer is the end of it at any time, and that what is shown
  is the end of that within both limits. It rests on three lemmas: the text of the bytes
  that arrive is the same however they are cut into chunks (`TextConcat`, which needs
  that `FlattenSeq` of two sequences is one behind the other), `RolledEnds`, that a chunk
  leaves the buffer whole and from the front, and `TailShown`, that `truncateTail` cuts
  within both limits, also when the last line alone is too long.
* **AgentSessionProofs.** A promise for a retry is made when a run ends and resolved
  when whichever `agent_end` is processed next. That the two belong together is an
  order of turns between the agent and the queue of events (`InTurn`): as long as
  nobody aborts and every run waits for the events of the one before, at most one
  `agent_end` is queued, it is the last event, and nothing is queued behind what the
  queue awaits. Hence `RetryAwaited`. `RetriesAreLimited` needs only the types.
  `ContextsAgree` is about a state in which all is quiet; the invariant behind it,
  `Entered`, speaks of every state: the transcript agrees with the context of the
  session followed by what the queued events carry (`Matches`). It is kept only
  because of what else it says: each message is entered under a number of its own
  (`NumberedBy`), so that the entry a compaction kept is found at one place; every
  compaction kept an entry before it (`KeepsKnown`), and one that is being summarized
  will (`Summarizing`), so that the context of a longer session is the old context and
  the new message behind it (`ContextAppend`, `ContextJoin`), although the summary
  hides most of what is before. That two sequences agree (`Agree`: the same
  messages but failures, and but bash results in the same order) is kept when both
  get longer, when the last failure is dropped, and when bash results that waited
  come to stand before what the queue still holds (`AgreeBash`). `Only` is a fold, and what it
  does to `Append` and `\o` is proved from the existence of recursive functions.
* **CredentialsProofs.** Until a lock is taken from a living holder or a file is
  harmed, the holder of the lock has a `view` that is the file, and its lock stays
  younger than the age at which others take it for dead as long as its refresh is at
  work: that is `NothingOverwritten`. For `ExchangedOnce` tokens are followed: one that
  is about to be written is known to nobody else, and the one in the file is
  unspent, or its exchange is under way, or its answer never reached the file. So
  whoever holds the lock and reads a token is the first to present it.
* **StoresProofs.** Of a path and its compactions the invariant `IInv` speaks of what has been
  recorded and of what is being prepared alike: what is before a cut is known to its compaction, as covered, dropped or
  missed (`KnownTo`), and behind a cut that is on the path every result that is not astray has its call
  (`KeepsCalls`). It is kept when the path grows, since only its end changes, and when it
  is left, since `UpTo` moves the cut back with the path (`CompactionsStay`, `KnownStays`,
  `CallsStay`, `NavigateStep`). Where a result is written, its call is kept by every
  compaction, recorded or to come (`RunningInv`). The minima and maxima the cut points are made of
  need lemmas of their own (a non-empty set of numbers has a least element), by
  the library's induction on a well-founded order. Of the other stores: `MCStores`
  changes one store at a time, so each step of it is a step, or a stutter, of
  `Compaction`, of `Settings` and of `Credentials`; what is proved of these holds
  there too, which is how the properties of the run are the ones proved. Of settings: that
  the file is what was written last follows only if the holder of the lock has not been
  overtaken, so the invariant (`KInv`) says that between its read and its write the `view`
  of the holder is the file, or the file was harmed; and, for `NothingLost`, that what a process
  remembers of a field is saved, or among the tasks it has queued, or its write has
  failed (`SInv`). `Session`, which
  `MCStores` extends, is proved about here: `FileHoldsMemory`, `LabelsRebuilt` and
  `SessionTypeCorrect`. `Typed` says more than the types: no line is about an entry that
  has not been made yet, and only a file with lines ends without a newline. For the file,
  the invariant is `Keeps`: the lines that are in it and those a call has still to write
  are, as sets, the entries in memory, which they are while a file grows (`WhileWhole`,
  an equality once the manager has flushed, an inclusion before, when an earlier program
  may have left a part of it) and while it is cut off and written again (`WhileCutOff`:
  everything is still to be written, and what is in the file is in memory); and a call works
  on one file, cuts it off first, and opens it last (`InOneFile`). `WhileWhole` also needs that a
  file that is not empty begins with a header, since otherwise reading it would yield
  nothing. What `Load`, `getBranch` and `_buildIndex` compute is a recursion over a
  sequence; `RecursionExists` and `Steps`, by the least element again, give it a value and
  let it be followed from entry to entry (`ThoseSteps`, `BranchOfEntries`, `LabelsFolded`).
* **FrontEndsProofs.** `MCFrontEnds` changes one front end at a time, so each of
  its steps is a step, or a stutter, of `Editor`, of `Rpc` and of `TuiRender`. An undo stack that is not empty begins with the empty
  prompt: what is typed, killed, put in or browsed takes a snapshot if the text was
  empty, the letters of one word take none only because one was taken before them,
  and undo goes back in order (`UndoReachesEmpty`). A request's id is its place in the order of all requests, so no two
  have one id, whichever process they went to; hence an answer finds its own request,
  and a late one of an earlier process none (`RequestsFound`). `DialogsClosed` is
  the same for the dialogs of extensions. `WaitersStillListen`: the listeners are
  distinct, and of those who hear the end of a run every other one is passed over, and it is
  these who still listen (`ListenInv`); the three together are `NothingWaitsForEver`.
  `OneListener`: whichever of several switches subscribed it, what is output is the
  session of the moment by the listener the mode would take back, and it is missing only
  while another switch has still to subscribe (`SwitchInv`).

  `ScreenFollowsContent` is `ScreenShowsContent` with what it needs to be inductive
  (`RenderInv`): before the first render, and after a forced one, what is kept of the last
  is empty; and after a render that was not off the screen, even the lowest row that was ever
  filled is in reach, which is what overlays are placed by (`FilledInReach`). A render is a
  sequence of moves of the cursor and of lines written, which may scroll. One lemma says
  what each of its ways leaves (`Agrees`: the rows of the terminal are those of the new
  lines, and the cursor is where it is counted to be): `FullAgrees`, `NothingAgrees`,
  `DeleteAgrees` and `DifferentialAgrees`, the last from what is rewritten between the first
  and the last line that changed (`FirstAndLast`) and what is above and below being
  equal before and after.

Proved only, not in a run: `NeverWaitsBesideEvent`, `Fifo`, `MutualExclusion`, `MapDrains`,
`RetriesAreLimited`, `TransformIsWellFormed`, and the types of `EventStream`, `AgentLoop`, `FileMutation`, `Settings`,
`Credentials`, `Compaction` and `Session`.

Only model-checked:

* everything that needs fairness (`EndStopsConsumers`, `EveryCallReturns`,
  `KilledReturns`, `PromptReturns`, the liveness of `ImplementsChannel` and
  `ImplementsEvents`), since the prover has neither ENABLED nor liveness under fairness;
* what rests on what a fold or a recursion computes from data of several kinds:
  `InputArrives` (splitting a chunk), `ImplementsBuffer` (a text as the concatenation of
  its lines), `EditsAreSimultaneous`.

No module declares a RECURSIVE operator.

## 5. Order of the work, and what is left

Done, in the order of their weight for a user: the stream and the loop, files,
sessions; then the agent session and compactions, settings and credentials; then
the providers and connections, tools, terminal and RPC. What is left, in this order:

1. A migration that crashes in its rewrite (`session-manager.ts:773`), the only hazard
   without a property: every entry is lost whatever the rest of the code does.
2. Composition of `AgentSession` with `Session`: what is on disk when the program dies
   between an event and its processing.
3. Project settings beside global ones; several providers of credentials.
4. The interactive mode's other selectors, bash mode and dialogs of extensions; sessions that are
   switched while it holds texts.

## 6. How to run

In this directory, `tlc -config X.cfg M` for a pair of the table in section 3 (the
modules are in `PROJECT.json` under "runs"), and `tlapm M.tla` for a module of
proofs. No run takes more than five minutes with two workers.

## 7. Not modelled

* **OAuth flows**: browser flows over HTTP, one at a time, without state that
  survives them; what is kept of them is a token, in `Credentials`.
* **Extensions**: loading of code and a list of handlers called in order. Where
  handlers take their time the modules let other steps come between.
* **Resources, models and packages**: functions of the file system without
  concurrent state. `models.generated.ts` is data.
* **The rest of the interactive mode, and the print mode**: commands but `/compact` and `/tree`, which are calls that
  `AgentSession` and `Session` make at any time, selectors, and the layout of the chat.
* **Other widgets**: layout. **Key names** (`keys.ts`): a table.
* **read, find, grep, ls**: they change nothing.
* **Requests of the providers**: a translation of data for each service; the part
  that depends on what happened, `transformMessages`, is modelled.
* **Reference and task helpers**: heuristics over repositories and names, which the
  loop takes as data; `AgentLoop` lets them answer anything.
* **`export-html`**: a page made from a session that is not changed by it.
