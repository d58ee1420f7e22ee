# A TLA+ verification of the Pike agent runtime

Pike is a C++23 coding-agent runtime: an agent loop that talks to a model
provider, runs the tools the model asks for, takes input from a host while it
runs, and keeps sessions in files. This directory models the parts of it that
interleave, fail half-way or survive a crash, checks them with TLC on small
instances and proves some of the results with TLAPS for every instance. Source
paths below are relative to the repository (`src/agent/AgentRun.cpp`).

Run one check with `tlc -config AgentLoopQueues.cfg AgentLoop`, one proof with
`tlapm AgentLoopProofs.tla`. `PROJECT.json` lists every run, the source lines of
every definition, the mutant that each property catches, the findings, the
hazards and the theorems.

## The system

| Component | State it keeps | Operations | What makes it hard |
|---|---|---|---|
| Agent turn machine (`src/agent/AgentRun.cpp`, `Agent.cpp`) | transcript, steering and follow-up queues, streaming message, pending call ids, the active run | prompt, continue, steer, follow up, abort, reset, replace messages; one coroutine per run | host calls land at every `co_await` and inside every observer; a dozen early returns; cancellation; the turn cap |
| Tool-call executor (`ToolCallExecutor.cpp`, `ExecutionShared.hpp`) | three permit channels, per-call update gate, errors and results of a batch | execute in order or in parallel | permits on every exit path, updates after return, refused events, order of results |
| Nested tool calls (`RunToolCall.cpp`, `NestedToolCalls.cpp`) | call scopes, recorder | a tool calls a tool | runs hooks outside the executor's permits |
| Tool loadout, registry, argument validation (`src/agent/Tool*.cpp`) | declared tools | declare, resolve, validate | pure, but for deltas against the transcript |
| Agent subscriptions (`AgentSubscription.cpp`) | observer list, diagnostics | subscribe, notify, unsubscribe | observers unsubscribe while notified |
| Storage state (`src/durable/StorageState.cpp`) | conversations, entries, documents with revisions, tasks, submissions, next id and sequence | validate, apply, restore, as-of reads | batches are all or nothing; histories of two kinds |
| JSONL storage (`src/durable/JsonlStorage.cpp`) | `main.jsonl`, one sidecar file per document and live task | open, commit, mint id, close | crash between any two writes, torn lines, reclamation that is retried, in-doubt commits |
| SQLite storage (`SqliteStorage.cpp`) | the same in a database | the same | atomicity is the database's |
| Durable session (`Session.cpp`) | mutation line, staged transaction, trackers | transact, commit, settle, close | commits that settle later, failed sessions |
| Workflow runtime, tasks, harness (`WorkflowRuntime.cpp`, `Task.cpp`, `Harness.cpp`) | tasks running, waiting, completing or terminal, owned children, memos, submissions | schedule, join, abort, submit | restart in any state, exactly-once memos, request deduplication |
| Observation, compaction, codemode (`Observation.cpp`, `Compaction.cpp`, `Codemode.cpp`) | watches, summaries, sandbox requests | watch, compact, run | watches against commits in flight |
| Chord (`src/chord`) | tracked values and operation batches | prepare, apply, accept | drafts against a moving base |
| Codemode sandbox (`src/codemode`) | a JavaScript guest | evaluate, call out | request protocol across the guest boundary |
| Model streams (`src/ai`) | providers, open streams | stream, retry, cancel | cancel against the terminal event |
| MCP stdio client (`src/mcp/StdioClient.cpp`) | request queue, cancelled ids, the child's pipes, one pump coroutine | connect, request, cancel, close, reconnect | late answers, deadlines, a child that dies, close at any suspension |
| MCP HTTP client, OAuth (`HttpClient.cpp`, `OAuth*.cpp`) | pending requests, tokens | call, refresh | one token refresh at a time |
| Coding-agent session, journal, lifecycle (`src/coding_agent`) | journal, event commitment, session in use | persist, fork, replace, close | close against running work |
| Terminal interface (`src/tui`, `src/coding_agent/tui`) | screen, editor | render, keys | not in reach of these tools |

How they interact: the coding-agent session hosts the Agent. The run emits
lifecycle events; each is reduced into the Agent's live state, shown to the
observers and then *committed* by the host, which may refuse it and thereby end
the run. The run calls the executor once per reply with tool calls; the executor
calls hooks and tools, and tools may call tools through the runner they are
handed. In the durable runtime a Session turns a transaction into a batch of
writes for its Storage, settles it when the storage answers, and publishes it to
watches and commit listeners. The Harness is such a listener: each commit wakes
its scheduler, whose worker thread reads the stored task records, commits marks
and reservations, and starts one execution thread per reserved task; a task's
phase code commits through the same Session. A conversation's run is a chain of
generation tasks; submissions wait in the conversation's inbox document, are
placed at the boundaries of a generation and settled by the commit that ends the
run.

## Modules

`AgentLoop` - the turn machine. A step is the code between two suspension
points; `pc` names the point (its comment lists them). Variables carry the names
of the C++ members they stand for. One action per operation of the host
(`Prompt`, `ContinueRun`, `Steer`, `Abort`, `ReplaceMessages`, ...) and per step
of `run_turns` (`StartTurn`, `AppendPending`, `BeginRequest`, `Reply`,
`FinishTurn`, `ContinueAfterTurn`, `PrepareNextTurn`, ...). Host actions are
enabled at every point, because the Agent is confined to one executor and host
code runs exactly there. `CommitFails` is the alternative next step after any
emitted event. The provider stream is external: it yields a reply of any stop
reason with up to `MaxCalls` calls, or fails.

`AgentLoopProofs`, `AgentInputProofs` - the theorems on `AgentLoop`: the turn machine,
then the host's messages and the calls of the replies.

`ToolBatch` - one batch of the executor with its permits, gate, hooks and nested
calls; `phase[c]` is where call `c`'s coroutine is suspended. `trace` is a
history of its events. `ToolBatchProofs` has its theorems.

`ToolBatchContract` - what the turn machine needs of a batch: starts only before
a stop, results in call order after the calls they belong to, no success after a
refused event. `ToolBatch` implements it (`ImplementsContract`), and AgentLoop's
tool phase takes its steps.

`StorageState` - operators for the in-memory state: what a write does, what a
batch is rejected for, what a read sees. Contents are abstracted to the stamp
`<<sequence, position>>` of the write that made them; a document's value is the
sequence of stamps of its newest base and the deltas after it, so that a lost,
doubled or misplaced revision shows.

`AtomicStore` - Storage's contract: what is stored changes by whole batches, or
not at all. `state` is what the committed batches lead to, `shown` what reads of the
current point give whoever reopens the store at this moment; only `Commit` changes
either, both by one batch, and may still be answered by an error. What the contract
leaves open is what the code does not keep: reads of earlier points and the
definition versions.

`JsonlStorage` - the files and the open instance. `Open` is `recover` as a whole,
its result computed from the files by `Recovered`, its refusals by `Rejected`,
(a missing or misplaced line, a tail with confirmed or older records, a delta that cannot
be read or does not continue its document, and any operation `state.restore`
rejects), its reclamations queued in `plan`; `OpenInterrupted` is the same cut short. A
commit is `BeginCommit`, one `AppendSidecar` per file, `AppendMarker`, then one
`Reclaim` per planned file. Every I/O step has a failing variant that leaves any
prefix of its bytes, and `Stop` ends the process anywhere. `ref` is a history
variable: the state every published marker promises. What a loop of the code goes
through is a recursive function over positions (`Applied`, `Lines`, `From`, `Restored`,
`RecoveredTo`), which `JsonlStorageProofs`, with its theorems, unfolds.

`SessionLine` - the durable Session. The mutation line (`pending_line`,
`line_active`, `pumping_commits`) is a queue of commits and reads; `job` is the
one at work and `job.at` how far it is. `RunCommit` is the whole of `commit_now`
up to the call of the storage: it loads, migrates, creates, changes, checkpoints
or retires each document the transaction touches, in any definition version.
`Detach` is a storage that answers later; `Settle` is `CommitState::settle`
(store, cache, watches), `Complete` the caller's completion, from inside which,
as between any two steps, the host may admit, close, watch or stop a watch. A
document is its incarnation, its revision, its stored version and its number of
deltas. `SessionLineProofs` has its theorems.

`Ownership` - operators on task records: who owns whom, what is live below a
task, what an abort or a failure reaches, what a page of a scan shows.

`TaskScheduler` - the Harness's scheduler. `worker` is the scheduler thread, one
action per step of a pass between two commits or scans (`WorkerScan`,
`WorkerMarks`, `WorkerFinalize`, `WorkerReserve`, `WorkerPublish`, ...), holding
the snapshots the code holds, so that every decision may be stale. `exec[t]` is
the execution thread of task `t`; `Phase...` are the commits phase code can make
through `commit_with` (create a child, advance, wait, end), `HandlerEnd` the abort
handler. `Callers` are the public calls: submit, abort a task or a conversation,
wait for idleness, install a definition, close, and `Restart`, the death of the
process anywhere. A commit is one atomic step that sets `dirty`, which
`SessionLine` and `JsonlStorage` justify. `doubled`, `inherited` and `sawIdle` are
history variables. `TaskSchedulerProofs` has its theorems.

`Submissions` - WorkflowRuntime's runs. `db` is what is stored: submissions,
inbox, run, generations, the transcript's placed submissions (`log`) and the
context's head. Each action is one commit of a generation's phase (`Prepare`,
`RequestAnswers`, `RequestTools`, `FinishTools`, `Retry`, ...), of the scheduler on
it (`Reserve`, `Resume`, `Abort`, `Fault`), or of a caller (`Submit`,
`AbortConversation`, ...). `Boundary` is `apply_boundary`: it places the queued
writes and the users the mode selects. `waiting` and `unseen` are the registry's
waiters and the publications still to be observed. `SubmissionsProofs` has the
theorems on runs and waiters, then those on what becomes of the submissions. `Those`
and `PlaceAll` are recursive functions, which the proofs unfold.

`StdioClient` - the MCP client over a child's pipes. `pump` is the pump coroutine
with its locals, `pump.pc` where it is suspended (at the head of its loop, in an
idle or an awaiting `read_line`, in one of four writes, waiting for the rest of
stderr) and `io` the operation it waits for: pending, or how it completed.
Completion (`ReadCompletes`, `WriteCompletes`, `TimerFires`) and resumption
(`PumpLine`, `PumpNoLine`, `PumpWritten`, ...) are two steps, because `close()`, a
stop callback or a new request can run between them. `drains` counts the
`drain_stderr` coroutines: one that was suspended elsewhere than in its read when
the pipe was closed goes on with the next child's pipe. The child is external.
`StdioClientProofs` has its theorems.

## What the runs show

Bounds are constants of the configurations and appear only in guards.

| Run | Instance | Shows |
|---|---|---|
| `agent_queues` | three host messages, no tool calls, one extra turn | no message is lost silently, delivered twice or reordered; at most one steering poll delivers per reply |
| `agent_tools` | a cap of one turn, two calls a reply, transcript replaced in mid-run, fair run and stream | calls are answered before the next request; the invocation window stays inside the transcript; the cap is exceeded by the cancellation turn only; an error reply ends the run; every run settles |
| `tools` | three calls on two lanes, both hooks, updates, nested calls | the permits are never exceeded, nothing outlives the batch, the executor implements the contract (results in call order, no success after a refusal), every batch returns |
| `jsonl` | a current-only and a rewindable document in two versions and a task, three writes in commits of one or two, fsync | the commit protocol, with every crash, failure and recovery, implements `AtomicStore`: a reopen shows exactly the published batches; the store always reopens, memory and files agree, an open store keeps no torn line and no unpublished record, files do not grow |
| `session_line` | three jobs, one document in two versions, one watch, a storage that may answer later | completions once and in order; the storage is closed last; the cache is the storage's; a watch can replay its frames; the line drains |
| `sched_tree` | a task and its child, failures, flagged tasks, one restart | one invocation a task; abort handlers bottom up; outcomes held until the work below has ended; abandoned work is never resumed |
| `sched_live` | the same without restart, fair threads | marked tasks end; a held failure ends; no wake-up is lost |
| `sched_registry` | one task whose definition changes, a waiter, a close | after a close every invocation ends |
| `submissions` | three submissions of the queueing kinds, a tool round, compaction, aborts, faults | every submission in exactly one place; one live generation; placement in order; the head never moves back |
| `submissions_live` | two submissions, a retry, compaction, a crash, a waiter | no settlement passes a waiter by; every submission settles |
| `mcp_stdio` | the handshake and two requests, two child processes, one unsolicited message, a deadline | an answer goes to the request it answers, sent once; the server is told before a caller is given up; close leaves no process; every request settles |

Why the bounds are enough. *Agent:* three messages fill a queue, a pending list
and the transcript at once, the smallest instance in which order can be
disturbed; two calls give one settled before, one after a stop; one turn past
the bound reaches every branch of the loop condition. *Batches:* with three calls
on two lanes one waits for each of the three permits while the other two hold
them. *Storage:* a stale record needs a failed commit and a second one under the
same sequence; a wrong reclamation or cut needs a creation, a base, a later change
and a reopen, for each kind of document: three writes have both. Four are checked
on smaller instances (below). *Session:* one job at work, one queued and one
admitted by a callback are three; a cache gone wrong needs a retirement and a
re-creation between two reads, which three jobs hold. *Scheduler:* the hazards
are between an owner and the work below it, and between the worker's snapshot and
one thread; two tasks have both, and wait cycles too. *Submissions:* an item
overtakes another across a boundary only if one more is ahead of both; three
have that. *MCP:* a late answer needs a request given up and a later one; a
reconnection needs a death; three requests and two processes have both, in either
order. Deadlock checking is off everywhere: an idle agent, a returned batch,
a drained session or harness and a bounded store may stop.

Further configurations are kept beside the runs and pass as well:
`AgentLoopCap.cfg` (`TypeOK`, `RunInv`, `CallsInv`, `TransientStateScoped`, `OneRequestAfterStop`,
`DroppedOnlyOnFailure`, `NoPollAfterStop`, with all the rarer host calls),
`ToolBatchParallel.cfg` (`EventsPaired`, `PermitsConserved`, `ResultsRetainOrder`,
`TerminateUnanimous`, `HooksSerialized` without nested calls) and
`JsonlStorageHistory.cfg` (`AckMeansMarker` and the others on two documents, one of
them rewindable, over four commits). The type invariants and the inductive invariants
of the proofs are checked by `AgentLoopCap.cfg`, `AgentLoopInput.cfg`,
`ToolBatchParallel.cfg`, `SessionLineTypes.cfg`, `TaskSchedulerTypes.cfg`,
`SubmissionsTypes.cfg`, `StdioClientTypes.cfg` and, with module `JsonlStorageProofs`,
`JsonlStorageTypes.cfg`, which also repeats the store's safety properties, and
`CommittedSurvives`, with four writes in batches of one or two on a document and a task.

Fairness. `agent_tools` assumes weak fairness of the run's own steps (the
executor resumes a coroutine whose awaited operation settled) and of the end of
the provider stream (streams have a terminal event; the transport has timeouts).
The host is not assumed to do anything. `tools` assumes weak fairness of the
batch: hooks and tools settle, which the executor itself relies on. The abort is
never assumed. `session_line` assumes that the pump goes on, the storage answers
and callbacks return; nothing of the host. The scheduler's runs assume that both
kinds of threads are scheduled, that an abort handler returns, and that phase
code returns once it was asked to stop or once its record no longer runs (every
further commit of it is then refused); a phase that is not asked to stop may run
for good. `submissions_live` assumes what the scheduler's runs show (a reserved or
woken generation proceeds), that a model stream ends, and that a settled commit
reaches its listeners. `mcp_stdio` assumes that the executor resumes what has
completed, that a pipe takes what is written (`write_frame` has no deadline, so a
child that never reads could hold it up with a full pipe) and delivers what is in
it, and that a timer fires; nothing of the host, of the child or of its
descendants.

### Disagreements

One is a run that TLC refutes; the quoted line is in `PROJECT.json`.

* `sched_waits`: `validate_wait` starts its walk with the waiter already visited
  (`src/durable/Harness.cpp:712`), so two tasks may wait for each other and park
  for good.

The rest are configurations kept for the reader; TLC refutes each.

| Configuration | Property | What the code does | What is said |
|---|---|---|---|
| `AgentLoopFinalTurn.cfg` | `FinalTurnNotPrepared` | prepareNextTurn runs in the final turn of a capped run (`AgentRun.cpp:517`, loop condition at 184) | `AgentRun.cpp:512` "the run's final turn never invokes it" |
| `ToolBatchNested.cfg` | `HooksSerialized` | nested calls run the hooks without the permits (`RunToolCall.cpp:85`) | `docs/adr/0016...:23` "Hooks and event sinks remain serialized" |
| `JsonlStorageCopy.cfg` | `CommittedSurvives` | recovery recomputes a copy from its source (`JsonlStorage.cpp:1558-1574`); once that has a new base the copy comes back empty | `JsonlStorage.cpp:1126` "A copy persists the source's materialized base" |
| `JsonlStorageRewind.cfg` | `HistoryKept` | recovery cuts a rewindable document's history at its newest base (`JsonlStorage.cpp:1532`, 1682-1704) | `JsonlStorage.cpp:1725` "a rewindable one keeps every revision" |
| `JsonlStorageVersions.cfg` | `VersionsKept` | every revision is written as version 1 (`JsonlStorage.cpp:1021`) | `Records.hpp:423` "The definition version the materialized value has." |
| `JsonlStorageLost.cfg` | `AckMeansMarker` | after the cut of a rewindable document, a commit that copies it as of an earlier point is encoded as nothing (`JsonlStorage.cpp:1148`) and returns success without a marker | |
| `JsonlStorageMint.cfg` | `MintedFresh` | ids are minted in memory only | `Storage.hpp:46-47` "also across a reopen" |
| `JsonlStorageRevive.cfg`, `JsonlStorageRewrite.cfg` | `AlwaysReopens` | batches the Storage accepts, though no Session sends them, after which the store refuses to open (a task live again after it was terminal, 1510; a document created and changed by a delta in one batch, 1582) | `Session.cpp:2241-2242` "Session-level unreachability is not Storage equivalence" |
| `SessionLineDeltas.cfg` | `DeltasCounted` | a document acquired and not changed is published and counted as a delta (`Session.cpp:708`, 747) | `Session.cpp:669` "an acquired-but-unchanged incarnation publishes nothing" |
| `SessionLineRetired.cfg` | `RetiredWatchEnds` | a document retired before its watch was started leaves a watch that does not end | `Session.cpp:779` "closes the watch with Retired" |
| `SessionLineFailing.cfg` | `FailingJobAnsweredFirst` | a job rejected by the failure may be told before the failing job | `Session.cpp:889` "once the failing job's own completion has been delivered" |
| `TaskSchedulerHeld.cfg` | `HeldOutcomeStands` | a marked task is reserved "from any live status", so a held outcome is replaced (`Harness.cpp:1947-1954`) | `commit_with`: "A terminal outcome holds as `completing`" |
| `TaskSchedulerPage.cfg` | `ReadyRuns` | a pass looks at the first 256 records, terminal ones included (`Harness.cpp:1817`, 1829); tasks beyond them are never run | |
| `SubmissionsFault.cfg` | `RunNamesLiveTask` | a generation that faults leaves the live run naming it, and the conversation busy | `WorkflowRuntime.cpp:872-875` "no observer sees the run name a terminal task" |
| `StdioClientHang.cfg` | `NeverHangs` | after the child's death the pump waits for the end of stderr without a deadline (`StdioClient.cpp:785-787`): a descendant may hold it open, and `drain_stderr` ends without a word when the pipe is closed between two of its reads | `StdioClientImpl.hpp:47` "the in-flight request fails explicitly (never a silent hang)" |
| `StdioClientCancel.cfg` | `StopResolves` | `cancel_request` ignores a stop while the client is closed or reconnects for the request (`StdioClient.cpp:468`); without a deadline the request may then never end | `Client.hpp:51` "cancellation must resolve the request" |
| `StdioClientConnect.cfg` | `FailedConnectLeavesNoProcess` | an invalid initialize result is reported without `close()` (`StdioClient.cpp:383`), and the pump keeps client and child alive | `StdioClient.cpp:363-364` "no process is left behind" (of a stopped connect) |

The constants `Revive`, `Rewrites`, `Copies`, `FreeWaits` and the page sizes admit
these cases; the passing runs have a Session's batches, no copies, waits on owned
tasks and pages that hold every record.

Seen while modelling, and not stated as a property: a Session is failed by a
storage's commit only, while an error of a read or a mint inside a transaction
rejects the transaction; `close` promises to "stop observers immediately", and
watches still get the frames of admitted commits; the listener lists
(`Session.cpp:803`, 858) are iterated while a listener may change them; the abort
handler's commit on a record that is waiting or completing is refused and the
task faulted (`Harness.cpp:2089-2165`); idleness is decided from a world read
before the lock that resolves the waiters (`Harness.cpp:1448-1471`); a faulted or
orphaned task is terminal while owned work below it is live, which
`HeldUntilDrained` therefore excepts; a reconnection queues
`notifications/initialized` behind the requests that wait, so the new child sees a
request first (`StdioClient.cpp:581`), and tears the process group down before it
closes stdin, so that the grace period has no end of file to act on (551-555).

## What is proved

Every theorem holds for every value of the constants; the bounds of the runs
(messages, calls, jobs, tasks, requests, submissions) are arbitrary numbers in it.
The assumptions are the named `ASSUME`s of the modules, which only give the
constants their types, and two hypotheses (`WorldFits`, `Disciplined`, below)
that are part of the statements that need them. Most of the properties are not inductive; each module
states the invariant that is, TLC checked it on the configurations named above,
and the proofs have one step per action.

*Agent* (`AgentLoopProofs`): `TypeOK`, `WindowInside`, `CapRespected`,
`OneSteeringPollPerReply`, `HardReplyEndsRun`, `OneRequestAfterStop`. That at most one
steering poll delivers depends on which points can be reached with messages
pending, that depends on where a hard reply leads, and so on. `RunInv` says what
the point of the run implies: the turn number is 0 exactly before the first
turn; from the request to TurnEnd nothing is pending; between a reply and the
next poll no poll has delivered; after a hard reply, or once the cancellation
request was sent, only the points that lead to the end are reachable; a turn
above the cap is the cancellation turn.

*The host's messages* (`AgentInputProofs`): `InputConserved` and `QueueOrder`.
`InputInv` splits what the Agent holds into its four vectors: in each, and from
each to those behind it, a message follows another only with another id and,
within one kind, a higher one; queues hold their own kind only; and the ids of
all four with those that are gone are the ids handed out. The proof never speaks
of positions in the whole: one lemma for each way a vector changes (append, move
the head, drain, put in front, clear, replace) shows that the accounts stay
sound, and every action is one or two of these. *The calls* (the same module):
`CallsAnswered`, by `CallsInv`: at each point, the calls of the invocation's replies
have results but those of the batch that runs, unless a stop cut a sequential
batch off, after which the run sends at most the cancelled request, and that is
the only request `CallsAnswered` lets out with calls unanswered.

*Executor* (`ToolBatchProofs`): `TypeOK`, `NothingOutlivesBatch`, `EventsPaired`,
`ResultsRetainOrder`, `TerminateUnanimous`, `PermitsConserved`, and the refinement
`ImplementsContract`, step by step. `BatchInv` ties a call's phase to its events, its
nested calls and its place in the order of results; `ReturnInv` says how a batch
that returned came to its answer; `PermitHolders` who has the preparation permit.

*Session* (`SessionLineProofs`): `AnsweredInOrder`, `StorageClosedLast`,
`CacheCoherent`, `WatchFollows`. `LineInv` ties the line's flags to the active job;
`QueueInv` says that ids are queued in admission order behind what was answered
and that only a job that failed the Session is overtaken; `StagedInv` that a batch
in the storage's hands was staged from what the storage has; `FramesInv` that the
frames waiting for a watch to start form a chain of revisions.

*Scheduler* (`TaskSchedulerProofs`): `OneInvocation` and `RequestStands` (no commit takes
an abort request back; `TaskSchedulerTypes.cfg` checks it) for every page size;
`AbortBottomUp`, `HeldUntilDrained` and `AbandonedNotResumed` under `WorldFits`, that
the records fit one page of `reconcile`'s scan. Without it they are false of the
code, which decides by that page what is live below a task. `SchedulerInv` says
what stays true between the worker's scan and the commit it leads to: what was
ready stays so, a handler's task has no live work below, an inherited task is
marked before anything is reserved. The attempt at `AbandonedNotResumed` found
that it holds only of flagged tasks that were not orphaned in the meantime: once
a registry without their definition has orphaned one, what it owned is taken up
again. The property now says so (`Heirs`).

*Submissions* (`SubmissionsProofs`): `NoMissedSettlement`, by `WaitersInv`, and
`OneGeneration`, by `TasksInv`: tasks are created in order, a live generation is the
one the run names, and a run names a task that is live or faulted. Each helper
(`Boundary`, `StartRun`, `HandOver`, `EndRun`, ...) has a lemma on what it leaves of this.

*What becomes of submissions* (the same module): `SubmissionsAccounted`,
`PlacementOrder` and `HeadNeverRetreats`, by `BooksInv`: ids are given without gaps and
in order; the inbox holds exactly the queued submissions, rising; the run's inputs
are exactly the placed ones, without repetition; the head is a position of the
transcript and no pin lies beyond its end; and nothing in the transcript had to come
after what is still queued, which is what makes the placement order inductive. A
boundary places any number of items, each where those before it left the head, so
`ThoseFx` and `PlaceAllFx` go by induction on how many were looked at or placed.
The library's induction theorems take the statement as an operator, which the
provers cannot instantiate; `SetInduction` takes it as a set, from the library's
theorem that the finite subsets of a set are well-founded under inclusion, and
`ThoseUnfolds` and `PlaceAllUnfolds` show in the same way that the recursions have a
solution. The proof for a commit puts together what the helpers do to the books:
`BoundaryBooks` for a boundary, `EndRunBooks` for the end of a run whose successor's
users were just placed, `QueueBooks` and `DirectBooks` for an admission.

*MCP client* (`StdioClientProofs`): `OwnAnswer`, `CloseLeavesNoProcess` and
`ServerToldFirst`. `ClientInv` says that a request waits in the queue once and
unwritten (`QueueInv`), that the pump awaits the id of the unsettled request it
serves (`PumpInv`), that an id is used once, so that whatever the server still
has or the pipe still holds with the id of an unsettled request answers that
request (`IdInv`), that a live child has its pipes and a closing client none
(`LinkInv`), and what a cancellation that went out implies (`ToldInv`).

*JSONL store* (`JsonlStorageProofs`): `AlwaysReopens`, `CommittedSurvives`,
`MemoryMatchesFiles`, `SidecarsReclaimed`, `OpenStoreClean`, `AckMeansMarker` and the
refinement `ImplementsAtomicStore`. The hypothesis `Disciplined` says that no document
is copied, no terminal task written again and no document written twice in a batch
but to create and retire it. No Session does the last two; copies are what a fork
makes, and of stores with copies the theorems are false (`JsonlStorageCopy.cfg`).
Documents of both kinds and any number of versions are covered. Recovery cuts the
history of a rewindable document and forgets versions (`JsonlStorageRewind.cfg`,
`JsonlStorageVersions.cfg`), which is why the contract is about reads of the current
point.

What recovery does with one line depends on the whole of `main.jsonl` (is the task
live in the end, is there a later base in the file), so nothing about it is
inductive in the state. `Inv` therefore describes the files by the positions
`<<marker, write>>` of the operations they stand for. `MainFits`: markers are numbered
without gaps, the published state is what applying them one by one gives, a document
is created first and retired last, a task's status is that of its last write.
`SideFits`: a sidecar's lines are in order, each is the line of its published write or
carries the one sequence no marker has yet, and none is missing that recovery
needs: for a live document its newest base and what follows, for a live task all.
`InstanceFits`: a reclamation in the plan drops only lines before the newest base or of
a dead file; a file with none planned or put off is already cut; the commit under way
has in each file all of its lines or, while the file is still to do, none; and
memory and published state cannot be told apart by a read (`Like`).

The argument has three parts. Files that fit give recovery what it looks for: nothing
missing or out of order, and `Latest(Bases(d))` is the newest base or, of a retired
document, does not matter (part 7). Then recovery follows the published state by
induction over the markers and over the writes in a marker: before a
position the two agree on who is created and retired and on the entries, on the
contents of a document once its newest base is behind, and on a task that ends once
its last write is (`Sim`); at the end of the file all of that is behind (part 8). And every step keeps `Inv` (part 9): a marker
adds its positions to `Ops` and turns the commit's lines into those of published
writes; recovery's truncation keeps a prefix that ends before the first line without
a marker; a reclamation's file still covers what is needed. For the refinement the published
state is the contract's: only a completed marker changes it, by a batch that was
accepted when the commit began; and the recovered state shows the same to every
current read at each moment, so that what a reopen shows changes with the marker
and with nothing else. That nothing `state.restore` would reject is ever
replayed, a delta of another version least of all, is part of `AlwaysReopens`
(`NoUnrestorable`): lines carry version 1 whatever was committed, and so
does the newest recovered revision of a document that lives (`Renumbered`).

Only model-checked: the bound on retries in `Submissions`' `TypeOK`, and all liveness properties (`RunSettles`, `BatchReturns`, `LineDrains`,
`AbortSettles`, `HeldFailureEnds`, `ReadyRuns`, `CloseDrains`, `SubmissionsSettle`,
`RequestsSettle`), which are out of the prover's reach, as is ENABLED.

## What is not modelled

In the modelled parts:

* agent: prefix messages, tool declarations added to the transcript, plain setters;
* executor: the recorder of nested calls, nesting below the first level, tools
  that leave nested calls behind;
* state: conversations, entries and submissions as separate kinds, document
  addresses and scans;
* JSONL: symbolic links, substituted files, the scratch files of a replacement,
  power loss that reorders flushed and unflushed bytes, and empty batches. A
  delta's operations always apply to the value they were made for; that recovery
  also tries them on an older value when a batch writes a document twice is only
  modelled for a document that does not exist yet;
* session: the staged tables and entries beyond their being there, scans, forks,
  the operations inside a revision, listener lists;
* scheduler: explicit `open_tasks()` under a live process (which demotes running
  tasks), memos, hooks, the contents of checkpoints;
* submissions: the contents of requests and entries, `recover_tool_round` inside
  a recovered request, request-id duplicates beyond their early return, several
  conversations (a run touches its own only);
* stdio client: message contents, frames over the size limit, server-request
  handlers that suspend, progress beyond its restarting the deadline. A write fails
  only when the child is dead: that a live child may have closed its stdin, which
  fails the write as well (`StdioClient.cpp:665-674`), is left out.

Not at all, so far: everything listed as `not_modelled` in `PROJECT.json`.
Rendering, argument parsing, wire formats and schema validation (most of the
repository's lines) will stay out: they are conversions that tests cover better.

## Plan

In this order; each step is a module with its runs, then its theorems.

1. `EventCommitment` and `SessionJournal`: the coding agent's persistence as the
   host that refuses events; composition with `AgentLoop`.
2. The MCP HTTP client beside `StdioClient`; `TokenRefresh`: one refresh at a time.
3. `Subscriptions`, `ToolLoadout`, `FileMutations`, `StreamBridge`: the small
   concurrent helpers.
4. `SqliteStorage` as a second implementation of `AtomicStore`; chord's batches as
   operators checked against a reference on small trees.
5. `Submissions` over several conversations, with forks.

Theorems to add: `TypeOK` of `Submissions`, whose bound on attempts needs what the retry
phase implies; for `JsonlStorage`, that with copies the documents which are not
copies survive as before.
