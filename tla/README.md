# stop-wasting-tokens: a TLA+ model

`swt` drives a coding agent through the phases of a project. Several operating
system processes share one `.swt-planning/` directory: `swt cook` runs (one
agent session each), `swt cleanup`, and the dashboard's server. Nothing but the
file system and the dashboard's HTTP routes is between them: JSON records, lock files,
journals, one-word signal files, requests and event streams. Inside a process,
promises interleave at every `await`. The
modules here model the parts whose correctness depends on the order in which
those steps happen. TLC checks small instances of them, and TLAPS proves every
safety property that a run checks for every value of the constants that section 4 allows.

Paths below are relative to `src/packages/`.

## 1. Inventory

### Modelled

| component | state | operations | what is hard | what must be true |
|---|---|---|---|---|
| worktree manager and lock files (`orchestration/src/worktree-manager.ts`, `lock-files.ts`), used by `cook.ts` | per task: the git worktree, `task-<id>.lock`, `wt-<id>.jsonl`; per process: the manager's state map | create, claim, dispatch, markAgentRunning, markAgentComplete, harvest, remove, fail; acquire, update and release of a lock; purge | the lock's probe and its write are separate awaits; a crash leaves any prefix of the steps; a write is not atomic for a reader | two cooks never work in one worktree; a live owner's lock is there; the lock is never behind the journal, and at most one step ahead |
| worktree cleanup (`cli/src/commands/cleanup.ts`) | the same files | `--prune-locks`, `--force` | runs next to cooks; reads, judges, then unlinks | stale locks go; isolation survives |
| claim registry and dispatcher (`orchestration/src/claim-registry.ts`, `dispatcher.ts`, `result-harvest.ts`) | two maps of identifiers and tasks; per batch: where it awaits | register, release; dispatch, dispatchBatch | batches interleave at the awaits; there are six ways out of a dispatch | no two running sessions claim one file; a task gets all it asks for or nothing; the maps agree; nothing waits for a claim |
| DAG resolver (`orchestration/src/dag-resolver.ts`) | in-degrees, batches, a counter | resolveDag | repeated and missing dependencies, cycles; the loop counts one thing and computes another | each task once, after its dependencies, as early as possible; the loop ends |
| resume probe, execution state and run mode (`cli/src/commands/cook.ts`, `methodology/src/state/execution-state.ts`) | `.execution-state.json`, one event journal per session | probeForResume, the handler up to runMode, recordRunModeStart, markCompleted, markCrashed | a cook may die between any two accesses; the clean-up after a crash may crash; a write of the record may fail unnoticed; record and probe are far apart | of the cooks that the record can keep apart one runs; a completed session is not resumed; a crashed one is noticed before another runs |
| atomic JSON write (`execution-state.ts`) | the file, `<file>.tmp`, open descriptors | atomicWriteJSON | errors and crashes at each system call; a shared temporary name | a reader sees a whole text; a temporary file is left only by a process that was killed or could not unlink it |
| control signals (`methodology/src/state/cook-controls.ts`, `dashboard/src/server/routes/cook-control.ts`, `budget-routes.ts`) | one `<session>.pending` file per session | writePendingSignal, readPendingSignal, waitForResumeOrCancel, checkBoundarySignal | overwriting, truncating and unlinking by two processes without a lock | each signal is handed over once at most and in order; a paused cook comes out |
| budget gate and file meter (`runtime/src/budget/gate.ts`, `methodology/src/meters/`, `dashboard/src/server/routes/budget.ts`) | running totals in files, snapshots of them, spent, ceiling, status | recordUsage, the watcher's add and change, tick, bumpCeiling | files vanish and return, watcher events merge, reads fail, one tick may cross two thresholds | the status is the one the thresholds give; one event per crossing; nobody is charged twice |
| ask-user and prompts (`runtime/src/ask-user/ask-user.ts`, `dashboard/src/server/routes/prompts.ts`, `dashboard/src/client/state/prompts.ts`) | where the call is; the server's map of open prompts; each stream's queue; each tab's cards and posts | askUser: publish, listen, time out; publish, respond, pending; a tab's GET, stream, submit | published before anybody listens; several tabs answer; connections break, full queues drop events and the server restarts | the first answer decides, and the call returns it or throws; a tab shows what is open; a call ends |
| event pipeline and snapshotter (`dashboard/src/server/lib/tail-file.ts`, `snapshot/`, `event-bus.ts`, `routes/events.ts`), with the main store of a tab (`client/state/dashboard-store.ts`) | the tailer's offset and reads; a rate limit; a cached snapshot; per client a queue and a connection; the tab's snapshot | change, read, hand over lines; rebuild; connect, subscribe, send; fetch again | overlapping reads that come mid-line; a queue that drops; three sources of one snapshot | no line is skipped or torn; a loss is announced; a tab shows the newest snapshot |
| provider chain, orchestrator spawn and hook dispatcher (`orchestration/src/provider-fallback.ts`, `spawn-orchestrator-session.ts`, `spawn-agent.ts`, `runtime/src/hooks/dispatcher.ts`, `runSpawnWithFallback` in `cook.ts`) | cursor and two budgets; a session; the awaited hook call and those that are not | select, recordFailure; credential, hooks, create, prompt, dispose, hooks; time-out and kill | a failure at each step; the time runs out between two steps; scripts that hang | hooks bracket an attempt; the ending tells which budget ran out; the spawn ends |
| chat sessions (`dashboard/src/server/chat-session-registry.ts`, `routes/chat.ts`) | a session per chat and what it is bound to; per turn: where it awaits | a turn: resolve, look up, create, register, prompt; sweep; close | turns overlap at the awaits; the user switches models; sessions age in use | no session leaks; a turn talks to the model that was selected when it began |

They interact through files and through HTTP. Cook creates and removes worktrees
(the step from `spawn` in `CookExecution` is where `WorktreeLifecycle` and
`SpawnChain` take place), writes the record by `atomicWriteJSON`, polls its signal file, adds to its
metrics file, appends to an events file and asks questions at the dashboard. The
dashboard writes signals, tails the events, watches the metrics files, and turns
what it sees into budget events, which become signals to the session of the record,
and into frames for the browser's tabs, which bring answers back. `resolveDag` makes
the batches that `dispatchBatch` runs.

### Not modelled

| component | why |
|---|---|
| phase detection and routing, QA, audit, discussion, memory, profiles | functions of the files of a project, in one process; the decision they come to is a choice in `CookExecution`. What they read is written by the external agent, by prompts |
| credentials and provider set-up | key chain, environment and one shared `config.json`; see the hazard at `update-config-file.ts:62` and section 6 |
| runtime session adapter, result protocol | an adapter of the external agent; what callers need of it is a choice in `ClaimDispatch` and `SpawnChain` |
| token meter, cost aggregation | sums in the memory of one process |
| planning artifacts, core, shared schemas | parsing, rendering and types |
| other CLI commands, verification checks | one-shot, sequential |
| telemetry, agent scripts and prompts | network output; text that the external agent reads or runs |

`PROJECT.json` has a row for each, and for the parts of a modelled component that
are left out.

## 2. Plan

Done: the eleven component modules of section 3, and the proofs of all their invariants,
action properties and refinements.

Next, most important first:

1. **ProviderSetup** (`dashboard/src/server/lib/update-config-file.ts`,
   `routes/provider-auth*.ts`, the credential resolver): overlapping
   read-modify-writes of `config.json` next to the key chain.
2. **PhaseRouting** (`methodology/src/state/`, `routeFromPhaseDetect` and
   `evaluateQaGate` in `cook.ts`): the routing decision as a function of the state of a
   project, and what a mode leaves behind as the actions.
3. Compositions: `CookExecution` with `AtomicWrite`, in which `OneWriter` takes the place of
   the assumption `Alone` and cooks that are astray write at once; `EventFeed` with several files and several clients;
   truncated and removed events files.

## 3. Modules

| component module | abstract specification | model checking | proofs |
|---|---|---|---|
| `WorktreeLifecycle` | `WorktreeSlots` | `MCWorktreeLifecycle` | `WorktreeLifecycleProofs` |
| `ClaimDispatch` | `ClaimTable` | `MCClaimDispatch` | `ClaimDispatchProofs` |
| `DagResolver` | (its properties are the reference definition) | `MCDagResolver` | `OrchestrationProofs` |
| `CookExecution` | `CookSessions` | `MCCookExecution` | `CookExecutionProofs` |
| `AtomicWrite` | `AtomicRegister` | `MCAtomicWrite` | `AtomicWriteProofs` |
| `CookControls` | `SignalSlot` | `MCCookControls` | `CookControlsProofs` |
| `BudgetGate` | (its properties) | `MCBudgetGate` | `DashboardProofs` |
| `UserPrompts` | `Question` | `MCUserPrompts` | `UserPromptsProofs` |
| `EventFeed` | (its properties) | `MCEventFeed` | `DashboardProofs` |
| `SpawnChain` | `Failover` | `MCSpawnChain` | `OrchestrationProofs` |
| `ChatSessions` | (its properties) | `MCChatSessions` | `DashboardProofs` |

A module of proofs may stand on several components of one part of the system, which share
lemmas; where they do, the later ones name their specification `ChatSpec`, `FeedSpec` or
`SpawnSpec`.

An action is what the code does between two points at which another actor can
get in: two awaits, or two calls into the file system. A definition
`...Blind`, `...Forgotten` and the like that is marked *Seeded fault* is never part
of `Next`; it is the definition below it with a plausible mistake, used to
show that a property notices.

**WorktreeLifecycle.** `worktree`, `lock` and `journal` are on disk; `pc`,
`task`, `mstate` (the manager's `states` map), `from` and `env` (the envelope
between the two halves of `LockHandle.update`) belong to a process. `GitAddOk` to
`WriteJournal` is `create`; `Advance`, `UpdateRead`, `UpdateWrite`,
`WriteJournal` is each of claim ... harvest; `GitRemoveOk`, `Unlink`,
`WriteJournal` is `remove`; `SpawnFails` leads into `fail`. A read that overlaps a
write of a live process may fail to parse, and a crash in a write may leave a
file that does not (`TornLock`). `PurgeRead`/`PurgeUnlink` and
`ForceGit`/`ForceJournal`/`ForceLock` are the operator.

**ClaimDispatch.** `claims` are the paths that the tasks ask for; `byIdentifier` and `byTask`
are the registry's maps; a lane is a caller of `dispatchBatch`. `Begin` is `dispatch` up to the await of the session
factory; what follows the factory or the prompt runs through the `finally`
without yielding, and is one action per way out. `IdentifierFor` is the
normalisation of paths; it maps several spellings to one identifier. `ClaimTable` has the
same `wants`, so that a task that is given a part of what it asks for makes no step of it.

**DagResolver.** The input is a variable that never changes, so that one run
covers many plans. A step is a pass of the `while` loop.

**CookExecution.** A process is its session. `record` is the execution state,
`journal[p]` the rows of p's session that matter to the probe, `seen[p]` what p has
read. `ProbeFresh`, `ProbeAbort`, `ProbeCompleted` and `ProbeCrashed` are the outcomes of
`probeForResume`; `ResumeEmit`, `FlipRead`, `FlipWrite` is what the handler does
with the last two; `Route` to `Cancel` leads to `runMode`; `RecordStart` to
`MarkWrite` is `runMode`. The spawn is one step with any outcome. What the code swallows are
`RecordFails`, `FlipFails` and `MarkFails`.

Only the record keeps cooks apart, and some it cannot: cooks that are started while
another one is between its entry and its record, a cook whose own record could not be
written (`cook.ts:2541`), and those that are started while that one is alive. A history
variable, `astray`, holds them; everything else may be started at any time. What is claimed
of a cook that is not astray is claimed next to any number that are: they do
whatever the code lets them, to the record and the journals too.

**AtomicWrite.** Names (`tmp`, `target`) point to inodes, which open descriptors
keep alive when the name is gone. The mkdir, open, write, rename and unlink can each fail,
and the process can be killed in each. An unlink that fails leaves the temporary file, and
the call `littered`.

**CookControls.** `sent[s]` numbers the signals written for session s; `file[s]`
is the number in the file, `Empty` between open and write, or `Absent`; `hand` is the
dashboard between its two calls, with the name of its file gone once
the cook has unlinked it.

**BudgetGate.** `file` holds each session's total, `known` and `dirty` is what
the watcher has yet to report, `lastSeen` is the adapter's snapshot; `spent`,
`ceiling`, `status`, `events` are the gate's. The read in either callback may fail (`AddFails`,
`ChangeFails`). `leftover` and `inherited` are history: what an earlier milestone left in a
file nobody has told of yet, and what of that came to be charged because the
event that would have made it the baseline could not be read. Money is integral and thresholds are
per cent, compared without division.

**UserPrompts.** `asker[q]` is where the call of `askUser` is: it publishes
(`Publish`), then opens its stream (`OpenStream`, `Subscribe`), and its timer runs
from before that (`TimesOut`). `pending` is the server's map; `Published` is
`bus.publish`, which reaches the streams that have subscribed and whose session
matches. A tab fills `cards` from a GET (`Mount`, `ReadPending`, `ApplyPending`) and
from its stream (`Deliver`), and answers with a POST whose failure leaves the card
(`Submit`, `Respond`, `PostDone`, `PostFails`). `Break` is a connection that is lost with
what was on it, `Restart` the server. `Overflow` is a queue at its limit of 1000, which loses
an event: the bus carries more than prompts, so that a limit on the prompt events of a
queue would say nothing, and any of them may be the one that goes. `accepted`, `unheard`
and `missed` are history: the first answer, and which events found nobody listening or
were dropped.

**EventFeed.** The events file is counted in halves of lines, so that a read may end
mid-line. `StartRead` and `EndRead` are the two halves of `readNewLines`; `OnLine` is the
tailer's callback with its rate limit, `HandedOn` its calls for the lines of a read; `Rebuild`
and `RebuildFails` are the snapshotter's debounced rebuild; `Pushed` is the handler of one
client's subscription with its bounded queue, `Sent` its loop. `view` is the snapshot of the tab, which three things set: the
first frame of a connection, `state.changed`, and the request a reconnection starts
(`FetchAnswered`, `FetchApplied`). A snapshot is the length of the file it was built from.

**SpawnChain.** `Select` to `Stopped` is an attempt of `runSpawnWithFallback`:
the chain hands out a provider, a credential is resolved, the `SubagentStart` scripts are
awaited, a session is created, prompted and disposed of, the `SubagentStop` scripts are
awaited. `Caught` is the `catch` with `recordFailure`. A call of the hook dispatcher runs
its scripts in sequence, each with a time-out, SIGTERM and SIGKILL (`AfterTimer`); the
calls in `loose` are those that the session's listener starts and nobody awaits.

**ChatSessions.** A turn is one POST, and a session is named for the turn that created it.
`Reuse`, `Miss` and `Refuse` are `getMatching` after the configuration has been read;
`Create` and `CreateClosed` what follows `createSession`; `Age`, `Sweep` and `Close` belong
to the registry.

## 4. Runs

| run | bounds | states | shows |
|---|---|---|---|
| `worktree_cooks` | 3 processes, 1 task, no operator | 54 thousand | `LiveOwnerLocked`, `JournalLagsLock`, `JournalIsFsmPath`, `NoLockLeak`, under crashes at every step |
| `worktree_cleanup` | 2 processes, 1 task, operator prunes and forces | 270 thousand | `WorktreeIsolation`, `ImplementsSlots`, `StaleLocksGo` |
| `claims` | 3 tasks in 2 lanes, 3 paths, 2 identifiers, any claims | 291 thousand | `NoSharedFile`, `ClaimsAccounted`, `ImplementsClaimTable`, `BatchesEnd` |
| `dag` | plans of up to 4 tasks with any sets of dependencies, missing ones included, or with one that is repeated next to another | 534 thousand | `DepsFirst`, `Earliest`, `ResidualIsBlocked`, `AllScheduled` |
| `cooks` | 3 processes, not all of them astray | 442 thousand | `OneCook`, `CompletedNotResumed`, `LiveRecordKept`, `ImplementsSessions`, `StaleRecordYields` |
| `atomic` | 2 writers, 2 texts, 4 inodes | 18 thousand | `NoOrphan`, `ImplementsRegister` |
| `controls` | 2 sessions, 2 signals each | 301 thousand | `ImplementsSlot`, `PausedCookObeys` |
| `budget` | 2 sessions, costs 3 and 7 up to 14, ceiling 10, bumps of 5 and 40, at most 2 | 961 thousand | `StatusIsPressure`, `OncePerCrossing`, `NeverOvercharged` |
| `asks` | 1 question, 2 answers, 2 tabs, one of which is open from the start, 1 break or overflow | 214 thousand | `PendingShown`, `AnswerOnItsWay`, `ImplementsQuestion`, `AsksEnd` |
| `events` | 2 lines in 4 halves, 2 reads at a time, a queue of 1, 1 line per window, 1 fault, 1 window | 409 thousand | `NoLineSkipped`, `LossAnnounced`, `ViewCurrent`, `LinesGetOut` |
| `spawns` | 3 providers in a chain of 4, 3 attempts, 2 scripts, 2 calls nobody awaits | 22 thousand | `Bracketed`, `ImplementsFailover`, `SpawnEnds` |
| `chat` | 3 turns in 2 chats, 2 models | 32 thousand | `SessionsAccounted`, `BindingHonoured` |

The type invariants of all modules are theorems (DagResolver's is part
of its invariant), so are `RegistryConsistent`, `OnceOnly`, `OneWriter` and `NeverTorn`.

Why the bounds are enough. *Worktrees*: tasks share nothing but the operator, so
one task is where processes meet; with three processes one can be a live owner,
one dead, one starting. *Claims*: a lane with two tasks next to a lane with one
covers a batch that goes on after each outcome; three paths with two identifiers
cover both a clash of spellings and a partial overlap. *DAG*: four tasks hold a
diamond, a chain with a short cut, a cycle with a tail on either side, two cycles.
*Cooks*: one that crashes, one that crashes while it cleans up after the first, one
that comes after both; or two that are astray next to one that is not. The processes are
alike, so that `InOrder` starts them in one order; `SomeKept` stops where all three
are astray, of which nothing is claimed but that they get on (`StaleRecordYields`).
TLC has also checked the invariants and action properties of three cooks and all properties of
two without `SomeKept`. *Atomic*: a writer and an earlier one that died, with an
inode for the file, one for the left-over, one to create and one to spare.
*Controls*: the second signal overwrites, overtakes or follows the first.
*Budget*: costs of 3 and 7 cross one threshold or both in a tick, 14 exceeds the
ceiling; a cost of 0 changes no total; a bump of 5 moves from paused to warning, or two
levels, one of 40 always to ok. *Asks*: questions share no state, as each has a session of its own; one tab that
listens and one that is just starting can answer differently, and one break hits a stream,
a queue, a POST or the server. *Events*: with four halves two reads overlap by a whole line or by
half of one; a queue of one overflows with the second event while a write is awaited, so
that an event in hand, one in the queue, a drop and its announcement meet; the one
fault is a read, a rebuild or a connection, not two of them in one behaviour. *Spawns*: the chain is longer than
the budget of attempts, and a provider comes twice in it; a second script comes after one
that hangs. *Chat*: two turns that create for one chat, and one that comes after or
belongs to the other chat.

`MaxWritten`, `MaxTotal`, `MaxBumps`, `MaxBreaks`, `MaxReads`, `MaxLines`, `MaxFaults`,
`MaxWindows` and `MaxEvents` are bounds of the checking, as guards; but for the constraint
`SomeKept` of `cooks`, nothing else is capped. `MaxQueue`, `LogLimit` and `RetryBudget` are the program's own limits, made small.
`worktree_cooks`, `atomic`, `budget` and `chat` use symmetry, and check no liveness.
`CHECK_DEADLOCK FALSE` stands in all runs but `atomic`: their processes, calls or bounded
inputs come to an end.

### Fairness

- `StaleLocksGo`: an operator who prunes again and again looks at every lock
  (strong fairness of `PurgeRead`), and a cleanup that has begun
  comes to its end. Nothing is assumed of cooks, nor that anybody forces.
- `BatchesEnd`: the event loop runs what is ready; a session factory
  answers; prompts end (`maxTurns` and the provider's time-outs).
- `StaleRecordYields`: a cook goes on up to its routing decision. It may
  wait for a confirmation, or be paused, for ever.
- `PausedCookObeys`: the dashboard writes what it has opened, and the cook polls.
  Nobody is made to send a signal.
- `AsksEnd`: the request that publishes settles, and the call's timer fires. That a
  stream opens or ends, that anybody answers, or that an answer arrives is not assumed.
- `LinesGetOut`: the watcher reports a change, the oldest read ends or fails, the debounce
  timer fires. Nothing is assumed
  of the client, nor that a rate-limit window ends.
- `SpawnEnds`: key chain, session factory and prompt settle; timers fire. That a hook script
  ever exits is not assumed.

### Assumptions

- A pid is not used again (the probes of locks and records rest on that).
- One `swt cleanup` at a time; `ForceLive = FALSE`: nobody forces away a worktree
  some cook works in. The command does not look at the lock before it removes the
  worktree, so that this is up to the operator; with `TRUE`, isolation is lost. The theorems
  that need it say so by `Disciplined`; `JournalIsFsmPath` does not need it.
- `Alone = TRUE` in `AtomicWrite`: no two processes write the record at once. This is
  what `OneWriter` establishes for cooks that are not astray. With
  `Alone = FALSE`, TLC finds `NeverTorn` violated: all writers use one temporary name.
- In `CookExecution` an access to the record is one step, by `AtomicWrite`. A record that is
  there can be read (`probeForResume` takes an unreadable one for none, `cook.ts:263`); only two
  writers at once, so cooks astray, could leave one that does not parse. Reading a journal and
  appending a row to it succeed: `emitCookEvent` swallows a failure (`cook.ts:148`), and the
  probe then knows no more than the rows that are there.
- In `WorktreeLifecycle`, what fails in `create()` is git or the probe of the lock. Writing a lock
  and appending a journal row succeed, unless the process dies in the middle.
- Lanes hold different task ids (`resolveDag` rejects a plan that repeats one).
- `session.dispose()` does not throw (`session.ts` catches what it calls).
- `StatusIsPressure` takes thresholds in order and bumps that raise the ceiling.
  `OncePerCrossing` takes neither.
- The cost of a result is the argument of `recordUsage`. (`cook.ts:3405-3414` passes
  none at present, so the file's cost stays 0.)
- A question has a session of its own, as every caller leaves `sessionId` out, and nobody
  posts an answer but the tabs.
- The events file only grows; one client and one file. Lines are JSON, so that the second
  half of one by itself is not.
- Only the creation of a session and the credential fail in the retryable way, as in
  the code: what fails in a prompt is a result (section 6).

## 5. Proofs

`tlapm` checks every proof to its leaves. For each component: its types
(`TypeCorrect`, `SpawnTypes`, `ChatTypes`, `FeedTypes`), and

- **WorktreeLifecycleProofs**: `Isolation`, `LockHeld`, `JournalPath`, `LocksReleased`,
  `LockLagsJournal`, `SlotsImplemented`.
  Isolation rests on git, not on the lock: `WorktreeIsolation` is inductive as it
  stands, next to the types and `PcState` (what the in-memory state can be at each
  point). Its one hypothesis, `Disciplined`, is that nobody forces away what a cook works
  in. `LockHeld` needs more, and that there is no operator: `LockInv` says that
  the lock names the cook until it has unlinked it, that nobody else gets past the
  probe between a cook's `git worktree remove` and its unlink, and that what
  `update` writes back is the cook's own envelope. With an operator a lock may go at
  any time; what stays is `OwnLock`: the lock of a working cook names that cook or nobody.
  `LocksReleased` follows from it. `JournalPath` holds whatever the operator does: `PathInv`
  has the last row of each cook end in the state it is in (`Tip`). `LockLagsJournal` puts
  the two together, for an operator who prunes: `LagInv` gives for each point of a
  cook's program what its lock may say, and that no force is under way. `SlotFacts`
  gives the slot of the abstract specification without its CHOOSE.
- **ClaimDispatchProofs**: `Consistent`, `DisjointFiles`, `Accounted`, `TableImplemented`.
  `NoSharedFile` is not inductive; `HoldsClaims` is added: a task that is being
  dispatched is recorded for all its identifiers. This uses that no other lane
  has the task, or its release would take the claims away. `ClaimsAccounted` is inductive
  next to the types, by the same fact. `TableImplemented` maps `wants` to the identifiers
  of each task's claims: a step of a lane takes all of them, drops all, or changes no owner.
- **OrchestrationProofs**, DAG resolver: `DependenciesFirst`, `ScheduledOnce`,
  `NoNeedlessWait`, `ResidualExact`, `Complete`, for every plan. The invariant says what an
  in-degree is: the number of *positions* of `depends_on` whose task is not
  scheduled yet (`DegreesRight`), that -1 marks what is in a batch
  (`DoneInBatch`), that the counter is the number of marks (`CountRight`), and that a
  ready task has just become so (`ReadySince`). `NothingBlockedDone` gives the
  exactness of the residual.
- **OrchestrationProofs**, spawn: `AttemptsBracketed`, `FailoverImplemented`, for every chain,
  both budgets and any scripts. `SpawnInv` ties the point an attempt has reached to the
  number of script calls begun and finished and to the session (`Brackets`), and to the cursor,
  the hops and the providers tried (`Progress`). With it each action is a step of `Failover`
  or a stutter.
- **CookExecutionProofs**: `OneCookRuns`, `OneWriterAtATime`,
  `NoResumeOfCompleted`, `RecordIsKept`, `SessionsImplemented`, for cooks started at any
  time and with any write of the record failing. The heart of the invariant is
  `GuardedAlone`: a cook that is not astray and runs, or has crashed unnoticed, has its record in
  place, and everybody who starts has read that record or has yet to read one, but for the one
  that is about to notice the crash. It needs that starters who are not astray
  are alone (`OneStarting`, `NoneBeside`), that an owner has been in `runMode` (`OwnersRan`),
  that a journal's rows belong to its phase (`JournalPhases`), and that a starter still
  knows the record it has read (`StarterKnows`). A step is first brought into one of twelve
  shapes (`Shapes`), by what it does to the record, to the sets of journals with a completion or
  a resume row, and to `astray`; the invariant and the refinement are proved by shape.
- **AtomicWriteProofs**: `Readable`, `NothingLeft`, `RegisterImplemented`, from
  who may own the temporary name (`TmpOwned`) and whom a left-over is from (`TmpExplained`: a
  writer that is dead or has `littered`).
- **CookControlsProofs**: `SlotImplemented`: what is in the file or the buffer is newer
  than all that has been taken (`Fresh`), for every interleaving.
- **DashboardProofs**, budget: `Announcements` for every sequence of ticks and bumps,
  negative ones included (`Rearmed` says what separates the current status from the last
  announcement); `Status` for raising bumps; `NotOvercharged`: what the gate may still charge
  is what each file has grown by since the adapter's snapshot, without the leftovers that the
  next event makes a baseline, and `ChargeInv` bounds the
  sum of that and of what is spent by what is recorded and inherited. The sum over sessions is the cardinality of the set
  `Owed`, which each step changes at one session.
- **DashboardProofs**, chat: `SessionsKept`, `SelectionHonoured`, for any turns, chats and
  bindings. They are inductive together, with `CreatedOnce`: a session that is open or
  used belongs to a turn that is past its creation, so that its binding is fixed.
- **DashboardProofs**, events: `NothingSkipped`, `LossesTold`, `ViewsCurrent`, for any number
  of lines and reads and any length of the queue. Every read began where the offset was
  once, between two lines, and all that ends before that has been handed on
  (`Stretches`): so the offset may go back to where any read ends. `Announced` adds the
  flag that guards the announcement of an overflow. `UpToDate` says that a live client
  shows the newest snapshot, or that the last of those on their way is it (`Newest`), or that it
  has missed it; this needs that none of them is ahead of the server (`NotAhead`).
- **UserPromptsProofs**: `QuestionImplemented`, `AnswersReach`, `PromptsShown`. The core of
  the invariant is that a response on an asker's stream carries the accepted answer
  (`Heard`), that the server holds published prompts only (`PendingAsked`), and that one it
  holds has no answer yet (`Undecided`): a late answer bears the session `Unknown` and so
  reaches no asker. `Listening` follows one call's stream from the request to
  the answer, or to the drop that made it `unheard`. `PendingShown` needs that tabs know published prompts only (`Seen`), and that
  a response on its way to a tab, or a POST that is done, concerns a prompt that
  is no longer held (`Settled`): what a tab removes was not pending. `OverflowFacts` says
  what a queue that loses one event still holds.

What a read hands on is a recursive function of its lines. The library's induction
theorems take an operator as a parameter, which the provers here cannot instantiate;
`Least`, the least-number principle for a *set* of numbers, takes their place: the lines
after which the fact fails would have a first one (`TraceExists`, `HandedOnGood`). The
invariants `ChatInv`, `SpawnInv` and `FeedInv` were model-checked on the instances of
section 4 before they were proved.

Only model-checked are the liveness properties: `StaleLocksGo`, `BatchesEnd`,
`StaleRecordYields`, `PausedCookObeys`, `AsksEnd`, `LinesGetOut` and `SpawnEnds`. They rest on
fairness, so on ENABLED, which is out of the prover's reach here.

## 6. Where code and comments differ

Comments promise the properties below. The modules state all but the last as *claims the
code does not keep*. They are in no configuration; named
as an invariant or a property of one, TLC finds a counterexample to each.

- `PurgeDeletesDeadOnly` (`WorktreeLifecycle`): `purgeStaleLocks` says that locks of dead
  processes go (`orchestration/src/lock-files.ts:240`), but line 284 unlinks a path it judged
  before further awaits. The lock of a live cook may be there by then.
- `ClaimsReleased` (`ClaimDispatch`): `orchestration/src/dispatcher.ts:155` awaits the
  session factory outside the `try`; if it rejects, the claims stay, though line 73 has
  them released "in the `finally`".
- `BudgetSignalReaches` (`CookControls`): the budget gate signals the recorded
  session (`dashboard/src/server/budget-routes.ts:19`), which has passed its only boundary when it is
  recorded (`cook.ts:3008`); the signal is never read.
- `JournalReflectsOwner` (two owners' journal rows out of order), `EveryWorktreeListed` (a
  crash between `git worktree add` and the lock), `ResidualOnCycle` (the residual holds
  tasks that merely depend on a cycle), `ResumePoint` (a completed task without commit is
  resumed), `ExactlyOnce` (a signal lost between truncate and write), `EveryUsageCharged`
  (the first total of a file is never charged).
- `cook.ts:171` has the probe "refuse to race two cooks against the same execution-state".
  `OneCook` says how far that goes. Two cooks that are started before either has written
  its record (`cook.ts:3027`, after a confirmation by the user) both pass the probe. So
  does one that is started while another runs whose record could not be written: by
  `cook.ts:2541` a crash of it then goes undetected; not said there is that its end flips
  whatever record it finds (`execution-state.ts:154`), the live one of the other cook included.
  And the handler reads the record again before it writes the resume row (`cook.ts:1760`), so
  that of two cooks that notice one crash, the later may put the row into the journal of a
  session, the other one's, that has completed since; `CompletedNotResumed` excepts that.

What the model of the later components has as the code has it:

- *Provider chain.* `provider-fallback.ts:6` lets a hop follow an `auto_retry_503`, `_429` or
  `_500` of the provider. No such error reaches the chain from a prompt: `dispatch` turns
  it into a result with status `failed`. Only a credential or a `createSession` that fails so
  makes a hop. Lines 21 to 24 count `other` among the reasons for one; `cook.ts:2572` does
  not. A `round-robin` router is made anew for each spawn, and picks the first provider.
- *Questions.* `runtime/src/ask-user/swt-ask-user-tool.ts:131` says that production callers
  pass `sessionId`; none does. `dashboard/src/server/routes/prompts.ts:144` says that a
  response without a pending prompt "works gracefully": its session is `unknown`, so that
  the stream of the call filters it out, which is what makes `ImplementsQuestion` hold.
  Line 164 of the same file has tabs read the open prompts again when their stream
  reconnects; they do so on mount only (`client/state/prompts.ts:161`), which is `missed`. An answer given before the call's stream is
  open is never heard (`unheard`), and the call times out.
- *Snapshots in a tab.* `ViewCurrent` excepts three ways to stay behind: an event between the
  first frame and the subscription (`dashboard/src/server/routes/events.ts:54`; the comment at
  line 43 takes the frame for enough), a `state.changed` that the queue has
  dropped, and the answer of a reconnection's request that comes after a newer event
  (`client/state/dashboard-store.ts:2035`). Each lasts until the next change.
- *Chat.* `dashboard/src/server/routes/chat.ts:38` promises `chat.error` and `chat.complete`
  for any error; a `createSession` that rejects (line 317) yields neither. A session in
  use may be disposed of, by the sweep, by another turn that creates one for the same
  chat, or by one that has switched models. Two turns on one session each relay the
  events of both. A session that is created after `close()` is disposed of by nobody.

Read, and not modelled:

- `dashboard/src/server/lib/update-config-file.ts:23-39` guarantees that keys a request does not
  touch survive, and writes "atomically via `writeFile`". There is no lock: of two
  overlapping requests the later write takes away the keys of the earlier, and a read that
  meets a truncated file starts from `{}`.
- `methodology/src/state/qa-freshness.ts:23` compares with "the current product-code HEAD",
  and uses `git rev-parse HEAD`; `commands/verify.md:144` leaves `.swt-planning` out. A
  commit of planning files, or of another phase, makes a phase's QA stale.
- `methodology/src/state/scan-phases.ts:146` reads `stage=` lines where
  `artifacts/src/qa/remediation-state.ts` writes JSON.
- The QA fallback of priority 11 in `routeFromPhaseDetect` (`cook.ts:951`) is not reached: a
  phase that wants QA keeps the project from being `all_done`.

Noticed while modelling, and left as the code has it: the comment at
`cook.ts:3463` speaks of a "stale in_progress" where the status is `crashed`, and the
next cook takes that as a fresh run; `paused_on_entry` (`cook.ts:3085-3130`) cannot
occur, since the gate is made anew with nothing spent; a bump in the dashboard does
not reach the gate in a cook's process.

## 7. What is not modelled

The components of section 1 that are marked so; the prompts, the external agent, git's
internals, time (a time-out is a step that may happen), the contents of documents.
Within the modelled components:

- token counts and texts of results; the rules by which cook chooses a mode; the gate's
  `project()`; the phase aggregate of the metrics, which nothing watches;
- calls of one `WorktreeManager` for one task at the same time, which no caller in the
  repository makes;
- the router's strategies (any provider may come first) and the projection of costs that may
  refuse a spawn before its chain begins; matchers and verdicts of hook scripts;
- an events file that is truncated or removed, and the discovery of new ones; what
  `buildSnapshot` makes of the files; the log, the meters and the layout of a tab;
- the deltas a chat turn relays, and the projection of a chat's history;
- `POST /api/cook/respond`, to which nothing in the repository sends.
