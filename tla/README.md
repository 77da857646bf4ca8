# Verification of opencode-forgecode

TLA+ models of the parts of the plugin where several actors share state, or an
algorithm makes a promise: the autonomous loop, the code graph with its leader,
calls, indexing and queries, background agent tasks, and the hooks, stores and
processes around them. Paths are relative to the repository's `src/`
(`hooks/loop.ts` is `src/src/hooks/loop.ts` in `PROJECT.json`).

`PROJECT.json` lists the components, the runs, the mutants (a plausible bug for
each checked property, written next to the definition it changes), the source
lines of each definition, the hazards, the findings and the theorems.

Sections: [1 Inventory](#1-inventory), [2 Modules and plan](#2-modules-and-plan),
[3 Loops](#3-loops), [4 The code graph](#4-the-code-graph),
[5 Background tasks](#5-background-tasks), [6 Around them](#6-around-them),
[7 Runs](#7-runs), [8 Findings](#8-findings), [9 Proofs](#9-proofs),
[10 Seen while modelling](#10-seen-while-modelling), [11 Not modelled](#11-not-modelled).

## 1. Inventory

| Component | State it keeps | Operations | Talks to |
| --- | --- | --- | --- |
| **Loop engine** (`hooks/loop.ts`, `services/loop.ts`) | `loop:<name>` and `loop-session:<id>` in the KV store; in memory: retry timers, stall watchdogs and their counters, a lock chain per loop | event handler, coding and auditing phase, session rotation, error retry, watchdog, termination with commit and removal of the worktree | opencode server (sessions, prompts, status), KV store, git, sandbox |
| **Loop tools** (`tools/loop.ts`, `services/fresh-loop-launcher.ts`, `cli/commands/*`, `tui.tsx`) | none | launch, cancel, restart, status; CLI and TUI write the store of another process | loop engine, KV store, sandbox |
| **Graph leader election** (`graph/leader-lock.ts`) | `graph.lock`, `graph.lock.tmp` | acquire, heartbeat, validate, release | other processes, through the file system |
| **Graph service** (`graph/service.ts`, `ipc-server.ts`) | role, leader handle, IPC server, queue of changed files, flags | initialize, failover, abdicate, close, scan, flush | lock, client, worker, socket |
| **Graph client and RPC** (`graph/client.ts`, `rpc.ts`, `ipc-*.ts`, `worker.ts`) | calls in flight, transport, failover in progress; the worker's write chain | call, failover, read-only fast path, forwarding | worker, socket |
| **Graph index** (`graph/repo-map.ts`, `communities.ts`, `dir-merkle.ts`, `database.ts`, `tree-sitter.ts`, ...) | the graph database | scan, incremental update, queries, cycles, impact, communities, rollups | worker |
| **Graph tools hooks** (`hooks/graph-tools.ts`) | branch snapshots per call | report changed files after tools | graph service, git |
| **Background tasks** (`runtime/background/*`, `tools/background.ts`) | `background_tasks` in SQLite; poll timer, output hashes | spawn, start, poll, cancel, continue, wait, shutdown | opencode server |
| **KV store** (`services/kv.ts`, `storage/*`) | rows with expiry; an in-memory fallback | get, set, delete, list, cleanup | everyone |
| **Session recovery, model fallback** (`runtime/session-recovery.ts`, `utils/model-fallback.ts`) | retry counters of a call | classify, retry, back off, compact, fall back | loop engine, background tasks |
| **Session retry hook** (`hooks/session-retry.ts`), **agent budget** (`hooks/budget.ts`), **agents as tools** (`runtime/agent-as-tool.ts`) | last prompt per session, messages already retried; counters | re-send once after a timeout; count, warn, block; prompt and poll a child session | opencode server |
| **Sandbox** (`sandbox/*`) | containers per loop | start, stop, sweep, restore, exec | docker, loop engine, tool hooks |
| **Prompt and tool hooks** (`hooks/sandbox-tools.ts`, `host-tools.ts`, `restricted-shell.ts`, `tool-archive.ts`, `index.ts`) | results that wait for their after hook | replace, block, redirect, cut, archive tool calls | opencode, sandbox, ripgrep |
| **Harness** (`harness/*`, `hooks/harness.ts`) | call signatures, todos, checkpoints, snapshots | doom-loop detection, reminders, compaction, undo | tool hooks, TUI |
| **Delta read, patch** (`hooks/delta-read.ts`, `tools/patch.ts`) | what a session has read | answer "unchanged" or with a diff; hash-anchored edits | file system |
| **Plans and reviews** (`tools/plan-*.ts`, `tools/review.ts`) | plans and findings in the KV store | write, approve, execute; findings hold back a loop's completion | loop engine, TUI |
| **LSP pool** (`runtime/lsp/*`) | server processes, requests in flight | start, share, request, replace, close | language servers |
| **Embeddings** (`runtime/embeddings/*`) | chunks and vectors | cut, embed, search; not wired into the plugin | provider |
| **Telemetry, tool archive** (`runtime/telemetry.ts`, `hooks/tool-archive.ts`) | a buffer and a table; archived results | record, flush, sum; archive, expand, expire | SQLite, KV store |
| **Worktree log, graph seed** (`services/worktree-log.ts`, `utils/worktree-graph-seed.ts`) | log file; copied graph cache | append, seed | file system |
| **MCP, TUI, CLI, configuration, agent definitions** | tokens, none, none | exchange, present, text | external servers, KV store |

What is hard in it: JavaScript callbacks that keep a copy of a record across an
`await` while others change it; a lock file that several processes inspect,
unlink and recreate in separate calls; events that are lost, duplicated or
late; answers that arrive after their caller, their link or their container has
gone; timers that fire after the thing they were armed for; process restarts
with state left in SQLite; tables that must stay consistent through incremental
updates; limits that are checked before they are consumed. `PROJECT.json` lists
each at its line under `hazards`.

What makes the components correct:

- *Loops*: one session drives a loop and resolves to it; iterations count up one
  by one to at most `maxIterations`; a loop ends, once, for good, and without
  losing work; a lost idle event does not hang it; its container is not lost.
- *Election*: one leader, whom the lock names; a leader that lost the lock steps
  down; a dead leader is replaced.
- *Calls*: a write runs once, a read survives a failover, everyone gets his own
  answer or an error.
- *Index*: no edit is forgotten; incremental updates end where a scan would; the
  queries return what they promise.
- *Background tasks*: a task goes through its life cycle forwards only, except
  for a continuation; pending tasks start.
- *Hooks*: a command runs once, and where its shown result comes from; a short
  reply says enough; a reminder comes once; an edit reaches the graph.
- *Stores, plans, recovery*: both stores agree; a plan starts once; retries are
  bounded, and a message is sent again once.

## 2. Modules and plan

| Module | What it is | Checked in |
| --- | --- | --- |
| `LoopEngine` | one loop, from `setupLoop` to its end, callback segment by callback segment | `LoopSafety`, `LoopQuiet`, `LoopCancelled` |
| `LoopContract` | what a loop promises its user; `LoopEngine` implements it | `LoopQuiet` |
| `LoopEnding` | what becomes of the work when a loop ends | `Control` |
| `LoopControl` | starts, cancels, restarts, plugin start and end; records, registrations, containers | `Control` |
| `LeaderLock` | `graph.lock` and the services of several processes, file system call by call | `LockCalm`, `LockFaults`, `LockRace` |
| `GraphCalls` | calls between clients, leader, followers and worker, and the failover | `Graph` |
| `GraphIndexing` | watcher, queue, flush, scan, freshness at startup | `Graph`, `GraphStale` |
| `GraphTables` | the tables of the index through scans and updates | `GraphIndex` |
| `GraphWalks` | breadth-first walks over the edges, and the impact of a change | `GraphIndex` |
| `CallWalks` | the traversal of the calls under budgets | `GraphIndex` |
| `GraphQueries` | cycles, bridges, communities, and the other queries over edges and calls | `GraphIndex` |
| `DirRollup` | the hashes of the directories, and what may be skipped | `GraphIndex` |
| `GraphHooks` | how the graph learns of changed files | `Graph` |
| `BackgroundTasks` | the task table, its limits, starts, poll cycles and `bg_*` tools | `Tasks`, `TasksStuck` |
| `ModelCalls` | retries, recovery and fallback of one prompt | `Control` |
| `Plans` | writing and handing over a plan | `Control` |
| `KvStore` | both key-value stores side by side | `Control` |
| `Sessions` | retry hook, agent as a tool, budget | `GraphIndex` |
| `ToolCalls` | delta reads, patch, snapshots of a file | `Control` |
| `Diffs` | the diff that a read is answered with | `Control` |
| `Harness` | doom-loop detection, todo reminders | `Control` |
| `ToolHooks` | the hooks around a tool call | `GraphIndex` |
| `LspServers` | language servers | `GraphIndex` |
| `Telemetry` | the collector | `Control` |
| `Chunks` | the chunker of the embeddings | `GraphIndex` |
| `*Proofs` | theorems about `LoopEngine`, `GraphCalls`, `BackgroundTasks`; `LeaderLock` and `GraphTables` (`GraphWorkerProofs`); `GraphHooks` and `GraphIndexing` (`GraphFilesProofs`); `Plans` and `LoopControl` (`PlansProofs`); `ModelCalls`, `Sessions`, `ToolHooks`, `Harness` and `ToolCalls` (`ModelCallsProofs`); `KvStore`, `LoopEnding`, `Telemetry`, `LspServers`, `Chunks`, `DirRollup`, `GraphWalks` and `CallWalks` (`KeptProofs`) | |
| `MC*` | instances for TLC | |

Composition. `LoopEngine` takes the answers of the server and of
`retryWithModelFallback` as they come; `ModelCalls` has that call alone.
`LoopControl` has several loops, with what `LoopEngine` does between start and
end as two steps (`LoopRotates`, `LoopTerminates`), and `LoopEnding` opens up the
end. `GraphCalls` takes the election of `LeaderLock` as one step on `owner`;
`GraphIndexing` looks at one leader and at what reaches its worker;
`GraphTables` opens up what a flush or a scan of it does to the rows, and
`GraphWalks`, `CallWalks` and `GraphQueries`, each extending the one before, start
from rows.

`MCGraph`, `MCGraphIndex` and `MCControl` hold several modules that
share no variable *side by side*: the variable `part`, chosen at the start, says which of
them the behaviour is of, and the others rest. Their state spaces add up and do
not multiply, and each is what it would be alone; a run asks the questions of a
neighbourhood at once.

What is left, in order: the byte streams of the two RPC protocols (partial
frames, lengths); overlapping `initialize` calls of one process, composed with
`LeaderLock`; a composition of `LoopEngine` and `LoopControl` over the contract.

## 3. Loops

### LoopEngine

The engine is a set of callbacks over one KV record. JavaScript runs a callback
without interruption up to its next `await`, so **an action is the code between
two awaits**: it starts with the answer of the awaited call.

| State | Code |
| --- | --- |
| `kv`, `mapped` | the entry `loop:<name>` (fields that control the loop), the sessions with an entry `loop-session:<id>` |
| `queue`, `h` | the promise chain of `withStateLock`; the phase handler that holds the lock, where it is, and **its snapshot `h.cur` of the record** |
| `watch`, `tick` | the stall interval, its stall counter and `watchdogRunning`; its callbacks in flight with the record they read |
| `timer`, `strays`, `resend` | the retry timer `retryTimeouts` knows, timers it overwrote without clearing, retry callbacks that wait for their prompt |
| `setup` | how far `setupLoop` is |
| `worktree`, `tails` | the git worktree; terminations whose part after the abort is still to run |
| `srv`, `findings` | the server's sessions, review findings |

| Actions | Code |
| --- | --- |
| `Launch`, `LaunchPrompted`, `LaunchFailed` | `setupLoop` |
| `TurnEnds`, `SessionError` | the server; the idle event may be lost |
| `GrantLock`, `ReadMessage` (`CodingStep`, `AuditingStep`), `NothingToRead` | `onEvent`, `handleCodingPhase`, `handleAuditingPhase` with their bookkeeping and terminations |
| `AuditPrompted`, `AuditFailed` | the audit subtask and `handlePromptError` |
| `SessionRotated`, `RotationFailed`, `ContinuationPrompted`, `ContinuationFailed`, `ContextOverflow`, `Recovered`, `NotRecovered` | `rotateAndSendContinuation` |
| `WatchdogFires`, `SessionBusy`, `Stalled`, `StallTimeout`, `StallReturns` | the interval of `startWatchdog` |
| `RetryFires`, `RetryPrompted`, `RetryFailed` | the timeout of `handlePromptError` |
| `Cancel`, `UserAbort`, `WorktreeFailed`, `ProcessRestart` | endings outside the lock; a crash or an orderly end followed by `reconcileStale` |
| `Cleanup`, `HandlerReturns` | the rest of `terminateLoop`, `commitAndCleanupWorktree` |

Abstractions. A message is its completion signal and the class of its error. A
model is only "the model failed or not"; `retryWithModelFallback` is the
outcome of its chain, except for the context-window recovery, which rotates the
session and is modelled. Prompts, titles, permissions, toasts and time stamps
are left out. Loops have a completion signal (every launch gives them one) and a
worktree directory.

Properties: `OnlyCurrentSessionDrives`, `IterationBound`, `IterationNeverDrops`,
`LoopEnds`, and `KeepsContract`, the refinement of `LoopContract` (one iteration
at a time, bounded, ended for good).

### LoopEnding

`terminateLoop` from its first await to its last, any number of times, by a
handler, an interruption, `loop-cancel` or a stale handler; with the worktree's
edits as sets: in the worktree, on the branch, or lost. Git may refuse the
commit, the removal or both; the container may not stop; the process may end.
`WorkKept`: an edit is lost only with one of three excuses, each of which is a
path of the code: the commit was refused and the forced removal went on, the
session went on after the commit, or a handler had revived the loop.

### LoopControl

Records, `loop-session:` registrations, containers and the sandbox manager's map
of several loops; `SetupBegins` ... `LaunchSession` are `setupLoop`,
`launchFreshLoop`, the restart tool and the TUI's and CLI's operations between
their awaits, several at a time; `CloseBegins` ... `BootCleans` the cleanup and the
start of `index.ts`. Docker and the server may refuse each call. `LoopsResolve`
and `ContainersAccounted` say which record, registration and container may be
without the others, and name the paths of the code that leave them so
(`unhooked`: a forced restart took the registration and failed; `doubtful`: two
operations, or one and the restore of a boot, met on one loop, or docker failed).

## 4. The code graph

### LeaderLock

Processes synchronise through the file system only, so **an action is one file
system call** with the code up to the next. `lock` is the file (creator, payload
written or not, heartbeat fresh or not), `tmp` the shared `graph.lock.tmp`,
`sock` whose server is bound to the socket path. Per process: where its graph
service is (`pc`), the attempt of `acquireLeader`, where its heartbeat is, and
`held` (a leader handle whose heartbeat runs), `inited`, `conn`, `abdicated`,
`quit` for the variables of `createGraphService`.

| Actions | Code |
| --- | --- |
| `Start`, `Create`, `Write`, `Inspect`, `Unlink`, `Read` | `acquireLeader` with its three attempts |
| `Bind`, `SetupFails` | `setupLeader`, called by `initialize` (releases the lock on failure) or `runFailover` (keeps it) |
| `Refresh`, `WriteTmp`, `Rename` | the heartbeat; it runs wherever the process awaits |
| `Abdicate`, `Close`, `StopServer`, `Release`, `UnlinkOwn` | the ownership watchdog, `abdicate`, `close`, `release` |
| `Connect`, `ConnectFails`, `ConnectionLost` | `setupFollower`, `runFailover`, the transport's exit |
| `Crash`, `HeartbeatAges` | the environment: a kill, `staleMs` without a heartbeat |

Time is abstracted: a heartbeat is fresh or not, and `Suspends` says whether the
lock of a live process can go stale. A process is one pid and holds at most one
live leader handle, so the pair (pid, startedAt) that `validateOwnership`
compares is the process. Signal handlers that release the lock are `Close`;
pid reuse is left out.

### GraphCalls

Callbacks here call each other: a transport that closes rejects pending calls,
which starts a failover, which installs a worker. Such a chain is an operator
from a state record to a state record, and an action ends in `Become`. `link` are
RPC clients with their transports, old ones included, whose handlers stay
attached; `pend` their `pendingCalls` by id; `wire` requests and answers under
way, in no order; `call` how far `invoke` is for each caller. Faults: a crash, a cut
connection, an error event, a close. `ran` counts executions by a worker.

`WritesRunOnce`, `AnswersMatch`, `NobodyWaitsInVain` (whoever waits has a timer
or a failover in progress), `ReadsSurvive` (its precondition names what the code
does not survive; with three processes that includes the crash of the leader, after
which two followers race for the lead and one may use up its attempts first).

### GraphIndexing

A file is its modification time. `disk`, the watcher's `events`, `pendingQueue`
(`queue`), `timer` and `flush` of the service, `scan`, the worker's write `chain`,
the files a batch has given up on and that finish `late`, the `index`, and the
fingerprint `meta`, which survive a restart. Troubles: a failing call, a failing
or slow file, a scan that stays incomplete. `EditsAccounted`: at rest and
healthy, the index lacks only edits the code has given up (`dropped`), each drop
being a line of it. `FreshIsFresh` is violated (section 8).

### GraphTables, GraphWalks, CallWalks, GraphQueries, DirRollup

`GraphTables`: what indexing a file stores, import resolution and the derived
tables, rebuilt step by step (`steps` is the list of steps of the operation in
hand), while files change and a file whose indexing was given up is stored
`late`. `RefsMatchDisk`: after any order of writes, deletions and
updates, imports lead where they would after a scan. `DerivedIsBuilt`: edges,
ranks and calls are those of the rows.

`GraphWalks`, `CallWalks` and `GraphQueries` have the loops of the code on tables
that grow a row at a time, so that every graph up to the bound is a state, and
compare each with a definition: distance (`ImpactIsDistance`), a prefix
(`BudgetsCut`), strongly connected components (`CyclesAreComponents`),
reachability without an edge (`BridgesDisconnect`), a fixed point
(`CommunitiesSettle`), other walks (`TraversalsAgree`). In the first two modules a
`while` loop is a function of the number of turns taken (`Turned`, `Walked`), up to
as many turns as there are rows; a turn with nothing left to do changes nothing.
That these turns are enough is proved: section 9, `Counted` and `TraversalsEnd`.
`GraphQueries` has the loops with a stack, as recursive operators and folds.

`DirRollup` has two scans of a tree of paths and the hash of each directory,
which is the text it is taken of: the names and contents of its files, the names
and hashes of its subdirectories. `SkipsOnlyUnchanged`: the hash of a directory is
the one of the last scan exactly when everything below it is.

### GraphHooks

Commands between their before and after hooks, two at a time, that edit files or
move `HEAD` between branches and commits. `EditsReported`: when no call is open,
a file that the graph does not have as it is has been reported, or is one of
those no hook can see (`missed`, whose ways the property's comment lists).

## 5. Background tasks

**An action is the code between two awaits.** `row` is the SQLite table; `call`
is `startTask` for each caller, `bg_spawn` or a poll cycle; `poll` are the
cycles, each with the tasks and the session ids it read; `timer` is `pollTimer`;
`tracked` stands for `lastOutputHash`; `spawned` are the `bg_spawn` calls that
have returned; `asked` and `refreshed` are `bg_continue` calls and lite-mode
refreshes between their awaits; `created`, `busy` are the server.

| Actions | Code |
| --- | --- |
| `Spawn`, `Cancel`, `Continue`, `Continued`, `RefreshLite`, `Refreshed` | the tools, in full and in lite mode |
| `SessionCreated`, `StartFails`, `Prompted` | `startTask` |
| `PollFires` ... `PollEnds` | `pollCycle`: drain, status, one check per task, stop |
| `TurnEnds`, `Restart` | the server; a crash or the cleanup, which does not wait for `shutdown` |

Time is abstracted: unchanged output completes a task at some check. `bg_wait`,
summaries and listings change no state that is modelled. One poll cycle at a
time is in flight in the runs: two are possible in the code and in the theorems
(`Poll` is any set), and one is enough for the races with the tools.

## 6. Around them

- `ModelCalls`: one `retryWithModelFallback`, with or without a recovery manager
  and a compaction callback; every order of error kinds. `CallsBounded`.
- `Plans`: nine ways to take a plan, each with its read, its awaits and its
  delete where the code has them. `PlanStartsOnce` separates the ways that
  delete in the turn in which they read from those that let the plan linger
  over an await.
- `KvStore`: the same calls at the same times to the SQLite service and the
  in-memory one. `StoresAgree`.
- `Sessions`: user, retry hook and agent tool prompt one session. `RetriedOnce`.
- `ToolCalls`: reads answered from the cache, edits in between, patch, undo.
  `ReadsReplay`, but where the cache is `blurred` by one of four paths its comment
  names. What a diff lets its reader put together again is computed by `Diffs`,
  for every two small texts.
- `Harness`: the bounded list of signatures against the whole history, and the
  todo reminder. `LoopsWarned`.
- `ToolHooks`: up to two calls through before hooks, opencode, sandbox or ripgrep,
  and after hooks, with container deaths and restarts. `RunsWhereShown`.
- `LspServers`: calls that share, start and replace a server; exits, failed
  initialisations, close. `ServersAccounted`.
- `Chunks`: `chunkFile` on every small file with every set of symbols.
  `ChunksCover`.
- `Telemetry`: batches, failures half way, restarts. `EventsKept`.

Constructs shared by these modules: an operation under way is a record with its
program point and what it read before its await; a variable named for an excuse
(`blurred`, `doubtful`, `unhooked`, `missed`, `strays`, `excuse`, `dropped`) records
that one of the paths of the code has been taken for which the promise is known
not to hold. Without those variables the properties are false, and section 10
says for which inputs; with them they say that *nothing else* breaks the promise.

## 7. Runs

| Run | Instance | Shows | Time |
| --- | --- | --- | --- |
| `LoopSafety` | every interrupt, slow calls, audits | `OnlyCurrentSessionDrives`, `IterationBound`, `IterationNeverDrops` | 50 s |
| `LoopQuiet` | 3 iterations; no ending outside the lock but a shutdown, answers within a stall timeout | `LoopEnds`, `KeepsContract` | 1 min |
| `LoopCancelled` | cancel only | violates `EndedStaysEnded` | |
| `LockCalm` | 3 processes, atomic creation, no fault | `OneLeader`, `EveryoneServed` | 5 s |
| `LockFaults` | 2 processes, 1 crash, suspensions, slow creation, closes, failed start-ups | `LoserAbdicates`, `LeaderElected` | 10 s |
| `LockRace` | 2 processes, slow creation only | violates `OneLeader` | |
| `Graph` | *calls*: 2 processes, a read and a flush, 2 faults. *indexing*: 2 files, 3 edits, 2 starts, 1 trouble. *hooks*: 1 file, 2 branches, 2 open calls | `WritesRunOnce`, `AnswersMatch`, `NobodyWaitsInVain`, `ReadsSurvive`, `EditsAccounted`, `EditsReported` | 4 min |
| `GraphStale` | indexing without troubles | violates `FreshIsFresh` | |
| `GraphIndex` | *edges*: 4 files, 5 edges; *calls*: 4 functions, 3 calls; *tree*: 4 files in 3 directories; *tables*: 3 files, 2 edits, 1 given up; *sessions*: 3 messages; *pipe*: 2 calls; *chunks*: 4 lines, 2 symbols; *servers*: 4 processes, 2 callers | the thirteen properties of these modules | 3 min |
| `Control` | *control*: 1 name, 2 sessions, 2 operations; *ending*: 2 edits, 2 ends; *model*: 2 candidates, 2 attempts, 2 of each counter or 1; *plans*: 1 session, 2 plans, 2 handovers; *kv*: 2 keys, 2 values, 5 ticks; *files*: 2 versions, 2 reads; *diffs*: 2 letters, 5 lines; *harness*: 2 signatures, 8 calls, cap 6; *telemetry*: 3 events, batches of 2 | the nine properties of these modules | 3.5 min |
| `Tasks` | both modes, 2 tasks of different models or not, limit 1, 1 continuation, 1 restart | `PendingIsPolled`, `LifecycleStep`, `PendingLeaves` | 30 s |
| `TasksStuck` | full, 2 tasks | violates `RunningEnds` | |

Why the bounds are enough. Each is the smallest value at which its limit is
reached and can be passed by a wrong step; the mutants confirm it, since each is
found under the bounds of the run.

- *Loops*: three sessions (a launch, a rotation, a recovery), two watchdog
  callbacks (an old one and one of the new interval), two iterations, one audit,
  two errors or stalls before giving up, a queue of two requests. Messages in
  `LoopSafety` are a signal or a model error; the other kinds add no step and are
  in the other runs. In `LoopControl` two operations under way on one loop
  are every pair of them; nothing is shared between loops but the server.
- *Lock*: two processes are enough for each race (one holds, one takes over);
  three are used where followers compete. A crashed process does not come back: a
  restart is a new pid.
- *Calls*: a read, a flush and two faults allow a failover in the middle of the
  failover of another process. *Indexing*: two files make a queue and a batch
  that is not the whole; three edits, one in the middle of a flush, of a scan
  and while the process is away.
- *Tables*: an importer and two files that export one name, one of them a test,
  are the smallest program with an ambiguous import, a test link and a rescue.
  *Queries*: four files have two cycles, a bridge between them and a longer way
  round; three calls have a cycle, a chain of the full depth and an ambiguous name.
- *KV*: a lifetime of two and five ticks let a row expire, be renewed and be
  cleaned late. *Harness*: a cap of twice the threshold, and histories longer
  than the cap. *Chunks*: sizes chosen so that splitting, overlap and merging
  all occur on four lines.
- *Tasks*: two tasks at limits of one.

Deadlock is not checked: loops end, processes exit, tasks and bounds run out.

Fairness is stated where a liveness property needs it, and only for what the
event loop or the environment gives. Loops: ready callbacks run, calls to the
server are answered, turns end, timers fire; idle events are *not* assumed to
arrive, since the watchdog is what ends the loop. `LoopQuiet` also takes handler
calls to be answered within a stall timeout of minutes (`SlowCalls = FALSE`), and
no retry callback to give the loop up: otherwise either may end the loop under a
handler, whose snapshot revives it, which is `LoopCancelled` again. Two iterations
are too few to see that, since the handler that has read the record of the last
iteration ends the loop itself; hence three. Lock: a running process goes on;
queries keep arriving, so that a service that failed to initialize tries again;
the watchdog fires; a worker that is started again and again comes up at some
point (strong fairness of `Bind`); heartbeats do not keep the other callbacks
from running. Tasks: calls are answered, turns end, the interval fires, the
checks of a task do not fail for ever, and its output does not change for ever
(the two strong conditions).

Running: `tlc -workers 2 -config LoopSafety.cfg MCLoopEngine` and
`tlapm LoopEngineProofs.tla`; the module of a run is in `PROJECT.json`.

## 8. Findings

Each is the only property of its run, and quoted with its lines in
`PROJECT.json`.

- **A cancelled loop comes back** (`LoopCancelled`). A handler that awaits the
  server when the loop is cancelled, aborted, fails or is given up by a retry
  callback writes `{ ...snapshot }`, `active: true` included, over the ended record. README:
  "`loop-cancel` | Cancel a running loop".
- **Two leaders** (`LockRace`): `openSync('wx')` and the write of the payload are
  two calls; an empty lock is taken for stale and unlinked.
  `leader-lock.ts` 4 and 17-19 say it is safe.
- **A stale index taken for fresh** (`GraphStale`): the fingerprint is taken after
  the scan, so it covers an edit the scan has missed, and the queue that holds it
  is dropped by `close`. `service.ts` 377-380: "fingerprint matches last scan".
- **A running task nobody completes** (`TasksStuck`): the end of a poll cycle stops
  the timer on what it read before its awaits. `spawner.ts` 8.

## 9. Proofs

Every theorem is for all values of the constants that satisfy the named
assumption of its module.

| Theorem | Says | Argument |
| --- | --- | --- |
| `LoopEngineProofs!TypeCorrect` | `Spec => []TypeOK` | per action |
| `LoopEngineProofs!CurrentSessionOnly` | `[]OnlyCurrentSessionDrives` | `ControlInv` |
| `LoopEngineProofs!IterationBounded` | `[]IterationBound` | `ControlInv` |
| `LoopEngineProofs!IterationMonotone` | `IterationNeverDrops` | `ControlInv` |
| `LoopEngineProofs!ImplementsContract` | `Spec => KeepsContract`, assuming `Quiet` | `ControlInv`, `QuietInv` |
| `GraphWorkerProofs!LockTypeCorrect` | `Spec => []TypeOK` | per action |
| `GraphWorkerProofs!CalmElection` | `[]OneLeader`, assuming `Calm` | `CalmInv` |
| `BackgroundTasksProofs!TasksTypeCorrect` | `Spec => []TypeOK` | per action |
| `BackgroundTasksProofs!TaskLifecycle` | `LifecycleStep` | `TaskInv` |
| `BackgroundTasksProofs!PendingPolled` | `[]PendingIsPolled` | `TaskInv` |
| `ModelCallsProofs!CallsTyped` | `[]CallTypeOK` | per action |
| `ModelCallsProofs!CallsAreBounded` | `[]CallsBounded` | `CallInv` |
| `GraphCallsProofs!WritesRunAtMostOnce` | `[]WritesRunOnce` | `CallsInv` |
| `GraphCallsProofs!AnswersReachTheirCaller` | `[]AnswersMatch` | `CallsInv` |
| `GraphCallsProofs!EveryWaitIsServed` | `[]NobodyWaitsInVain` | `CallsInv` |
| `GraphCallsProofs!ReadsSurviveOneFault` | `[]ReadsSurvive`, for finitely many processes and a link to spare | `ReadsInv` |
| `GraphFilesProofs!HooksTypeCorrect` | `[]HooksTypeOK` | `HooksInv` |
| `GraphFilesProofs!EditsAreReported` | `[]EditsReported` | `HooksInv` |
| `GraphFilesProofs!EditsAreAccounted` | `[]EditsAccounted` | `IndexingInv` |
| `PlansProofs!PlansTypeCorrect` | `[]PlansTypeOK` | per action |
| `PlansProofs!PlansStartOnce` | `[]PlanStartsOnce` | `PlanInv` |
| `KeptProofs!StoresAlwaysAgree` | `[]StoresAgree` | `KvInv` |
| `KeptProofs!EndsKeepWork` | `[]WorkKept` | `EndingInv` |
| `KeptProofs!EventsAreKept` | `[]EventsKept` | `TelemetryInv` |
| `KeptProofs!ServersAreAccounted` | `[](LspTypeOK /\ ServersAccounted)` | `LspInv` |
| `ModelCallsProofs!PromptsRetriedOnce` | `[](SessionsTypeOK /\ RetriedOnce)` | `RetryInv` |
| `ModelCallsProofs!ResultsAreOfRuns` | `[](PipeTypeOK /\ RunsWhereShown)` | `PipeInv` |
| `ModelCallsProofs!LoopsAreWarnedOf` | `[]LoopsWarned` | `HarnessInv`, `DetectsLoops` |
| `GraphWorkerProofs!IndexKeepsUp` | `[]RefsMatchDisk` | `TablesInv` |
| `GraphWorkerProofs!DerivedTablesAreBuilt` | `[]DerivedIsBuilt` | `TablesInv` |
| `PlansProofs!LoopsAlwaysResolve` | `[](ControlTypeOK /\ LoopsResolve)` | `LoopsInv` |
| `PlansProofs!ContainersAreAccounted` | `[]ContainersAccounted` | `LoopsInv` |
| `KeptProofs!EveryLineIsCovered` | `[]ChunksCover` | `SplitCovers`, `CutsJoin`, `RollupCovers` |
| `KeptProofs!SkippedIsUnchanged` | `[]SkipsOnlyUnchanged` | `SameBelow`, `HashTells` |
| `KeptProofs!ImpactAtItsDistance` | `[]ImpactIsDistance` | `WalkInv`, `Counted` |
| `KeptProofs!BudgetsOnlyCut` | `[]BudgetsCut` | `CutShort` |
| `KeptProofs!TraversalsEnd` | the loop of `traverse` is over after `Cardinality(Symbols)` turns | `QueuedOnce` |
| `ModelCallsProofs!ShortRepliesSuffice` | `[](ToolsTypeOK /\ RepliesSuffice /\ UnchangedIsTrue)` | `ToolsInv` |
| `ModelCallsProofs!ReadsReplayed` | `[]ReadsReplay` | `ToolsInv`, `Leaves`, `DiffInv` |

`ControlInv` (loop engine). None of the first three properties is inductive: they
depend on the snapshots the callbacks hold. `SidInv` and `MapInv` follow the
registered session through a rotation: what is registered is at most the session
of the handler's snapshot, then the one it has just created, and of the record
whenever the loop is active. `IterInv` extends the bound to every snapshot that
may still be written back, and puts a handler about to start the next iteration
strictly below it. `FreshInv` says that the snapshot of a handler is never behind
an active record.

`QuietInv` (loop engine implements `LoopContract`). The refinement mapping is the
identity on the record's `st`, `iter` and `reason`; a step of the engine is a step
of the contract or leaves these alone. That needs every record written back to be
the loop as it is: whoever holds the lock works on an active loop, with the
iteration the store has (`Undisturbed`); a watchdog callback that asks for the
status was the only one in flight, nothing has queued since, and once a handler
has started no stall counts against it (`StatusCurrent`); and nothing moves
between `Launch` and the answer to the first prompt (`Beginning`), so that what is
withdrawn is the first iteration. `Quiet` is the assumption of `LoopQuiet`: no
ending outside the lock but a shutdown, and calls answered within a stall timeout.
Without it the refinement is false: `LoopCancelled` for a cancel, and the same
with three iterations and a retry callback that gives up, or a stall timeout under
a slow handler.

`CalmInv` (leader lock). Under `Calm` (the file appears with its payload, nobody
dies, sleeps, closes or fails to come up) nobody is ever on a path that ends in
an unlink: a lock that is there is complete, fresh and of a live process. Whoever
leads created it, and the heartbeat of the leader rewrites it with itself.
`LockRace` shows that the first assumption cannot be dropped.

`TaskInv` (background tasks). `LifecycleStep` needs to know what a late answer
may still do: whatever a start, a poll cycle or a refresh holds is a task whose
row exists and, where its session was created, is no longer pending, so that
`markCompleted` and `markRunning` can only take the steps of `Changes`; the rows
and the calls in flight that are continued or checked have a session. `SpawnInv`
says that in lite mode no task is left pending, where there is no poller.

`CallInv` (model calls). How many prompts have been sent says nothing of how many
may follow. The invariant ties `sends` to the position of the call: the candidates
left behind have used `PerCandidate` prompts each, the attempts left behind
`PerAttempt` each, and the running attempt as many as its counters say;
`compactions` is 1 for the current candidate only if the call remembers it
(`recovered`). The products need a lemma that multiplication is monotone, which the
solver does not find by itself.

`CallsInv` (calls of the graph). The model computes a step with operators on a
record of the state, as the code calls one function after the other, and so does
the proof: `Good` is stated of such a record, a lemma per operator says that it is
kept, and an action is a chain of them. It is the numbering that is hard: ids
start again with every link, so a late answer could meet a pending call of the
same id. `Numbered` says that a place (link, id) belongs to one call from the
moment it is handed out. `Once` says of a write that was sent that it is one
request on one wire, or has run, never both; `Answered` that an answer with a
result is of a request that ran. `Served` (whoever waits for a failover has one)
is broken while an action gives up the calls of a process that fails over;
`ServedBut` is what holds of the others meanwhile.

`ReadsInv` (reads of the graph). The precondition of `ReadsSurvive` is about what
has gone wrong so far, so the invariant has two parts. A run is `Doomed` once
what the precondition excludes has happened, and stays so: errors, closes, faults
and failed flushes are never taken back (`Marks`). Until then it is `Calm`: the
first process leads while it lives; every open socket leads to it; a link is
closed only because it was cut; at most one living process is cut off
(`CalmLead`); a caller learns of a lost link only on its first sending, while its
process fails over, and is sent again only on a link that lasts (`CalmCall`).
From this it follows that no attempt of a failover fails. The theorem takes two
things of the constants: the processes are finitely many, since the other of two
is only one; and `MaxLinks` exceeds their number, since a failover opens one link,
for which the code has no bound.

`HooksInv` (graph tools hooks). `EditsReported` says nothing while a call is
between its command and its after hook. In between, a file unlike the graph is one
the call will name (`Named`), or one that HEAD took along and that is as HEAD has
it (`TakenAlong`); the second condition is what lets another command commit or
switch the branch meanwhile. Two ways
in which an after hook misses a file came up in the proof and are given up in the
model, as in the code: HEAD moves while another call is between its command and
its hook, which then compares with another place (`Overtaken`), and HEAD moves
from one commit to another without a branch, or from another place than the call
remembers (`Unnoticed`).

`IndexingInv` (indexing). `EditsAccounted` speaks of a process at rest. While it
works, a file whose row is not the file is one the service will get to
(`Reached`: a change on its way, a scan that has not come to it, an indexing that
goes on after its batch gave it up), and one that a start would notice if the
process stopped now (`Noticed`: no row, or newer than the fingerprint). Both have
to hold at every step: the first is lost with the process, the second by the next
scan. `ScanOK` gives the reason why a scan may clear the tables: whoever asked
still waits for it, or the service does not pass for healthy. `StaleSeen` says of
the file being indexed that, if it has changed since the worker looked, the change
is on its way or was given up: this is what makes a row written too late harmless.
Modification times must not run backwards (`RowsOK`): a rename that preserves an
old time is outside the model, and outside the theorem (section 10).

`PlanInv` (plans). How often a plan has started says nothing of the places it
could still be sent from. A plan that nobody has taken is under one key of the
store at most and nowhere else; one taken by a way that deletes it is under no
session's key, and is one pending execution, one handover or one start.

`KvInv` (key-value stores). Two rows may differ for as long as one store has
deleted what the other only does not show any more; the invariant adds that both
have expired, and that a cleanup never runs with a time to come.

`EndingInv` (ends of a loop). That no work is lost depends on what several ends,
each between two of its calls, still hold. A worktree that was removed held
nothing uncommitted; and as long as nothing has gone wrong, a cancelled loop stays
inactive, its session stopped and its work committed from the abort on, so that
the second removal, by `loop-cancel`, finds nothing to lose, and `loop-cancel`
never goes unheard.

`TelemetryInv` (telemetry). No event is twice in the buffer, what is in it was
recorded, and only recorded events have rows. The proof needs how often an event
is in a concatenation or a suffix of a buffer, which is a lemma on cardinalities.

`LspInv` (language servers). What may be let go depends on who still remembers it:
a server that runs is the pool's, that of a caller who has not finished starting
it, or a stray; a caller that waits does so for one that runs. Clients are started
one after the other, so that a new one is nobody's yet.

`RetryInv` (session retry). A text is sent again by a retry scheduled earlier, so
the retries sent and those that still wait are counted together against the
messages marked as retried: a mark is made once and pays for one retry. The proof
is about cardinalities of sets of messages that grow by one.

`PipeInv` (hooks around a tool call). What the after hook shows is decided when the
before hook rewrites the arguments. For every point a call can be at, the
invariant says what has run, what the arguments have become, and that the result
of a neutralised tool is in one of the two maps until it is five minutes old.

`LoopsInv` (control of loops). For `LoopsResolve`: a session belongs to one loop,
whoever names it (a record, an operation under way, what a boot remembers), and
a record that a boot will write back resolves already, while neither the present
record nor an operation has its session. For `ContainersAccounted`: a container
in the map is of a stored loop or of an operation that still decides about it,
alone on its loop; a setup without a container has none; while the plugin boots,
what docker has not listed is doubtful. The proof showed that the property was too
strong as the runs had it, with two sessions: a restore writes an old record back
over a loop that a setup has just stored under the same name, and when the first
prompt of that setup is refused, the record goes and the container that was
restored stays in the map. `doubtful` has that meeting now.

`TablesInv` (index). Both invariants hold at rest only. In between, what is not
derived yet has the step that derives it still to come, or a scan under way that
will end in one, or a late store that no operation has followed. Edges come after
imports in every list but that of a deletion, which is why `DerivedIsBuilt` speaks
of scans and changes. `RefsMatchDisk` needs one thing more, which is no matter of
steps: a ref that leads somewhere leads to the file it names or to one that exports
its name *now*. Replacing a row unhooks the refs that led to it, so that no ref
outlives the export it was led to, and in a well-formed program only the right file
is left.

`HarnessInv` (reminders). The detector counts how often the last calls follow one
another, block by block, in the calls it remembers; `Loops` is a pattern that each
call repeats, in all calls since the reset. `CountReaches` turns the count into
`Threshold` equal blocks, `BlocksFollow` equal blocks into calls that repeat one
another (division with remainder one way, a least counterexample the other), and
`DetectsLoops` carries that from what is remembered to all calls: a loop reaches no
further back than `Cap`.

`EveryLineIsCovered` (chunks) is about what the loops of the chunker compute, which
are recursive functions here. No induction theorem can be instantiated, so the
proof takes the least argument at which a function would have no value, or a
claim would fail, and shows that there is none (`Recurses`, `Inducts`). What is
claimed of a cut is about the lines it starts from and ends with, so that cuts of
neighbouring pieces join (`CutsJoin`); merging two small chunks adds up their
lengths with a line break between them (`TextLengthAdds`) and rounds to tokens
once instead of twice.

`HashTells` (directory rollup). A hash is what `Rollup` computes, a recursive
function on the directories of a scan. It has a value everywhere because the
directories get longer downwards and no path of a finite tree is longer than some
number (`PathsEnd`, `RollupExists`). That two hashes are equal exactly when
everything below is (`SameBelow`) is shown of a directory from its subdirectories
(`HashTellsUp`), and fails nowhere because it fails at no deepest directory. A path
is its directory and its name (`SamePath`), so equal lines of two scans are of the
same file or subdirectory; and whatever is below a directory is one of its files or
below one of its subdirectories (`DirAbove`), which is what a rollup without them
would break.

`ToolsInv` (delta reads). `RepliesSuffice`, the first half of `ReadsReplay`, says
nothing of a read before its reply waits. The invariant follows the reads: while
nothing is blurred one read runs at a time; the cache is what the session was
shown, unless that read is about to show what the cache has already (`Ahead`); a
cached text with the time of the file is the text of the file (`Current`), which is
why "unchanged" is true of the disk at the stat (`UnchangedIsTrue`, which no run
checks separately).

`DiffInv` (the diff of a read). The second half of `ReadsReplay` says that the
hunks of `UnifiedDiff` follow one another, fit both texts where they say they
begin, and make the new text of the old one: `DiffExplains`, here for every two
texts and every `DiffContext` and `DiffLookAhead`. The pass over the texts is a
recursive function on pairs of lines. From the end backwards (`LinesAhead` goes
down with every pass), what it writes from a place on is what is left of the old
text without its `+` entries and what is left of the new one without its `-`
entries (`Leaves`); from the first place on, the script is both texts (`ScriptIs`).
The hunks are gathered by a second recursive function along the script. Its
invariant `DiffInv` splits the entries passed so far: those the finished hunks
tell of (`Explained`), then either kept lines only, the last few of them held as
context, or the lines of the open hunk, which begins where they do. `Explained`
has to be stronger than the property to survive another hunk: each hunk is a part
of the script that begins where its two numbers say (`Placed`), and patching works
in front of any text that may follow (`PatchesFront`), since the last hunk is
replaced first (`PatchedLast`) and the ones before it then patch a text whose end
is new already.

`ImpactAtItsDistance` (walks). A breadth-first loop is right because of an order its
code never mentions. `WalkInv`: the depths along the queue never fall and differ by
one at most, so that what is met next is not nearer than what was met before; a row
seen within the limit either waits in the queue or has met all its dependents, one
step further at most. With the queue empty every row is therefore as near as it can
be (`WalkSees`). `Counted`: the turns taken and the rows in the queue add up to the
rows met, so the queue is empty after as many turns as there are files.

`BudgetsOnlyCut` (traversal). `CutShort` runs two traversals side by side, turn by
turn and neighbour by neighbour: under the smaller budget the state is the same
until it is stopped, and afterwards the other one only appends to what had been
emitted (`PrefixGrows`). Both take the rows of a statement in one order, whichever
it is. `TraversalsEnd` needs a count again: a function is visited before it is
queued, the root included, and nothing is visited twice (`QueuedOnce`).

The assumptions are those the modules name: bounds are numbers, sets of names are
disjoint or finite, a key without a value has 0 (`KvAssumption`), a flush takes at
least one event (`BatchAssumption`), no session is a loop (`PlanAssumption`), no
branch is called "none" (`HooksAssumption`), an import leads to a path, and what is
beneath a directory of a directory is beneath it (`TablesAssumption`), a loop takes
two calls (`HarnessAssumption`), a chunk holds a line (`ChunkAssumption`), the file
has a version to begin with (`ToolAssumption`), a tree is a finite set of paths
with names in them (`PathAssumption`), a name has a length (`CallsAssumption`). TLC evaluates them in every run.

Only model-checked:

- everything under fairness (`LoopEnds`, `LoserAbdicates`, `LeaderElected`,
  `EveryoneServed`, `PendingLeaves`): liveness and `ENABLED` are beyond TLAPS here;
- what the queries with a stack, the sweeps over labels and the comparison of the
  call queries compute (`CyclesAreComponents`, `BridgesDisconnect`,
  `CommunitiesSettle`, `TraversalsAgree` of `GraphQueries`): they are RECURSIVE
  operators, which a module with a theorem may not reach.

## 10. Seen while modelling

What the code does that a reader of its documents may not expect, found while
translating it. The models do what the code does; a run exists only for section 8.

**Ends of loops.** A refused commit does not stop the forced removal of the
worktree: uncommitted work is lost (`hooks/loop.ts` 106-131). `cleanupWorktree:
false` (README 280, 474; `types.ts` 93) is not looked at: a completed or cancelled
loop's worktree goes. The auditing phase counts an audit whenever it runs, also
when the watchdog runs it before the auditor has answered, and reads the coder's
completion signal (`types.ts` 102-103 against `hooks/loop.ts` 878-925).
`cancelBySessionId` returns false for a revived loop with an unregistered
session, and the tool reports "Cancelled" all the same and with
`cleanupWorktree` removes the worktree uncommitted (`tools/loop.ts` 456-488). A
restart during the abort of an end gets its worktree removed under it. A stale
handler's `completed` end of a cancelled loop overwrites its reason and logs a
completion. The budget and success criteria of `types.ts` 117-129 are not
enforced.

**Control of loops.** The restarts of the CLI (`cli/commands/restart.ts`
235-237) and of the TUI (`tui.tsx` 214-216) INSERT without `created_at`, which is
NOT NULL (`database.ts` 214-222): they always throw, after the abort and, in the
TUI, the deletion of the mapping (README 189). The restart tool deletes the state
before the sandbox is started: a failed restart has no loop any more; a forced
restart whose `session.create` fails leaves an active loop that no event reaches;
one that meets a loop completing during the abort restarts it. `setupLoop` on a
sandbox failure leaves worktree and session; two at once can take one name, and
the refused prompt of one deletes the record and container of the other.
`launchFreshLoop` leaves an active state when its prompt fails and never starts
a container though it says `sandbox: true`. CLI cancel writes back the state it
read before its confirmation. TUI and CLI cancel leave the container running. A
container that exists but is stopped makes `docker run` fail for ever; the
cleanup stops containers of active loops (`index.ts` 406-421); the sweep's filter
can forget a container that started while booting; restore reactivates a loop
from the boot snapshot, without watchdog or prompt (`index.ts` 164-181), and may
overwrite a restart made meanwhile, or a new loop of the same name, whose refused
prompt then deletes the record and leaves the restored container; `reconcileStale` of a second instance stops
live loops. Mappings live 30 days, states 7.

**Leader lock.** A loss after a second initialisation goes unnoticed, since
`abdicated` is never reset (`service.ts` 1160-1162 against 1264). `runFailover`
keeps the handle of a promotion whose `setupLeader` failed: its heartbeat keeps
the lock fresh and everyone waits for it (1296-1297 against 1315-1338);
`LockFaults` has `PromotionFails = FALSE` therefore. An abdicating loser unlinks
the winner's socket (`ipc-server.ts` 200). `initialize` has no guard against a
second call in progress (1043).

**Calls.** The late close event of an old link makes a reconnected follower not
ready; `ready` is never restored after a follower reconnects (`service.ts`
1320-1330). A leader whose worker died connects to its own socket. A follower's
flush that starts a failover kills the new worker's link. A close during a
failover leaves the new transport and server. Forwarded scan calls use the
120 s timeout. `getSymbolBlastRadius` and `getCallGraphCycles` are not registered
in `worker.ts`.

**Indexing.** The fingerprint is not updated by incremental flushes and not
invalidated before a rescan: an interrupted rescan's partial index is taken for
fresh. A recovery scan while unhealthy drops the queue; a flush that ends
unhealthy strands it; a flush emits `ready` although a concurrent scan failed or
is running; a flush timeout during the fingerprint leaves `ready` with a dead
client. A rename that preserves the modification time is not seen. The worker's
`onFileChanged` swallows errors.

**Tables and queries.** A deleted file's edges are rebuilt before the refs are
resolved again (`repo-map.ts` 2213). Incremental updates never rebuild test links,
rescue edges or co-changes. An ambiguous import may be led to the other exporter.
`rescueOrphans` depends on the order of rows. `getFileBlastRadius` counts
dependencies where `service.ts` 91-95 speaks of affected files. The stop reason
`maxDepth` is unreachable and `truncated` is not set by depth (`types.ts` 466).
`getCallGraphCycles` does not look for cycles behind those of a start it has
visited. `getKnowledgeGaps` is documented as transitive and is direct. The second
condition of `makeSkippablePredicate`'s comment is missing (`dir-merkle.ts`
190-209). `communities.ts` calls its propagation synchronous; it is not.

**Graph hooks.** opencode's `write` passes `filePath`, which is not among the keys
looked for, and `edit` is not handled: neither is reported. Redirections, `touch`,
`cp`, `mv`, `sed` and ast-rewrite are reported only if the tool printed
something, and of each pattern the first match. A move from a detached `HEAD` to
another commit, `git pull`, `reset`, `merge`, `stash` and compound commands go
unnoticed; overlapping moves hide changes.

**Background tasks.** Limits are exceeded: a task counts as running only once its
session is there, and `drainPending` picks two tasks of one model
(`concurrency.ts` 2-4 against `spawner.ts` 147-159). A task may be started by
`bg_spawn` and by a poll cycle at once, with two sessions (`spawner.ts` 144);
`markError` turns a cancelled task into a failed one (`Changes` allows it); a
cancel while the session is created leaves the prompt to be sent; `bg_continue`
neither asks the limits nor starts the poller; a lite refresh whose status call
fails completes a busy task; pending tasks found after a restart wait for the
next `bg_spawn`.

**Plans.** "New session", the loop tool and the TUI read the plan and delete it by
key only after an awaited create: a second taker starts it twice, and a plan
rewritten meanwhile is deleted unread. The TUI's "Execute here" never deletes it,
and its save overwrites the agent's edits.

**Sessions.** A retry is a new message, whose timeout is retried again: the chain
ends with the outage (`session-retry.ts` 15-16 speaks of one retry per message).
Its header says abort errors are never retried; those that mention a timeout
are. It is sent even if the user has gone on. The budgets of a turn are never
reset. `sendAndPoll` on a continued session whose model failed returns the
previous text, and may prompt a session that is still busy.

**Reads and patches.** A partial read, or a preview of an archived one, is
remembered as the whole file: a later read is told "unchanged"
(`delta-read.ts` 285, 354); the file is stat-ed after it was read; a large diff is
remembered as shown; a compaction does not clear the cache. A patch compares,
writes and renames: an edit in between is overwritten (`patch.ts` 110-120). A
handler of the event chain that throws skips those behind it (`index.ts`
586-600).

**Tool hooks.** A sandboxed loop's bash runs on the *host* while its container is
not registered, as after a restart. Searches in a sandbox also run the builtin on
the host, and one in a dead container, or stopped by its timeout, says "No files
found". A command killed by its timeout goes on inside the container. A result
that waited five minutes (a permission dialog) is dropped by its own after hook.
The restricted shell checks the first command of a chain only. A text with long
lines below the archive's threshold is cut and not retrievable. Archives live 7
days, 24 hours are documented.

**Harness.** opencode's messages are `{info, parts}` and `toForgeMessage` reads a
top-level role: the summary frame is never applied. A reminder that fails is not
repeated. `compute()` sets `lastScore` before `shouldNudge` compares with it, and
no feeder but `recordMessage('', true)` is called: the nudge for a dropped score
never fires. Checkpoints promise 24 h and are stored for 7 days.

**Others.** LSP: an exited server stays `alive`, so "Handles crash recovery"
(`pool.ts` 4-5) does not happen; a failed initialisation leaves its process;
lengths are counted in characters, the header in bytes (`client.ts` 264-281).
Embeddings: the last chunk may lie inside the one before; a failing batch leaves
a file partly indexed. Graph seed: fingerprints contain modification times, so
seeding hardly ever matches; a failed copy blocks later ones. Telemetry: a failing
batch is written again from its start, and an event that cannot be serialised
makes every later flush fail. KV: the two services list in different orders.
`forge graph` and the plugin use different keys for the status (`index.ts` 254
against `cli/commands/graph.ts` 226).

## 11. Not modelled

- **MCP**: an OAuth exchange with external servers and a token file, one
  sequential call each.
- **Configuration and setup, agent definitions**: merging of files, prompts.
- Of the **graph index**: tree-sitter parsing, ranking numbers, full-text search,
  near duplicates (hashing), surprise edges, snapshots, knowledge gaps,
  rendering: numerics and text, without a promise that can be stated apart from
  their definition.
- Of **RPC and LSP**: the byte streams; a message arrives or does not.
- Of the **harness**: quality scores and checkpoints, which nothing feeds.
- Of **embeddings**: stores and provider, which the plugin does not use yet.
- Of **TUI and CLI**: all that does not write the store.
- **Graph seed of a worktree**: best-effort copying of files; see section 10.
- **Overlapping initialisations** of one graph service; see section 2.
