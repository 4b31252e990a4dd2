# A TLA+ model of alineo

alineo runs coding agents in sandboxes. The parts of the repository with state
that several actors share are **alineod** (`apps/alineod`), a daemon that keeps a
tree of agents per *run*, drives their turns, and survives being killed; the
**SDKs** it is built on (`packages/core`, `packages/agent`,
`packages/sdks/typescript`), which make sandboxes, start agents in them and bring
back what was lost; and the **bridges** (`packages/agent/src/bridge`), a process in
each sandbox between the daemon and the agent's harness. This directory models
them, module by module, checks each module with TLC on small instances and proves
the results that matter most with TLAPS.

Everything below refers to `src/apps/alineod/src/` unless a path says otherwise
(`packages/` is `src/packages/`).
The exact lines behind every definition are in `PROJECT.json` ("map").

## 1. Inventory

### How alineod works

One Bun process, one thread: code between two `await`s runs without
interruption, so an action of the models is one such stretch. Everything that
happens is an *event*: `emit()` appends it to the ledger (SQLite), folds it into
the tables (`agents`, `handles`, `runs`, `inbox`), publishes it on the bus and
calls its listeners, all before it returns. Process memory (registered SDK
handles, sets of agents being followed, timers, queues, promises) is lost in a
crash; the tables, and the sandboxes with the bridge process inside each, are
not. At boot the daemon takes the instance lease, refolds the tables and
*rehydrates* what was open.

| component | state | operations | hard behaviour |
|---|---|---|---|
| admission (`engine/admission.ts`) | `inUse`, `waiters` | `acquireAdmission`, `release` | a timer and a grant settle one promise race in the same tick |
| agent turns (`engine/stream.ts`, `supervision.ts`) | `driving`, `catchingUp`, `backingOff`, timers, retry counters | `driveTurn`, `catchUpTurn`, retries, `resolveTurnFailure` | overlapping turns of one agent; stops and crashes during each await; polling that must end |
| commands (`engine/lifecycle.ts`, `pause.ts`, `agent-lock.ts`) | the lock's queue | `stopAgent`, `pauseAgent`, `resumeAgent` | the row is read before an await and written after it |
| run close (`engine/lifecycle.ts`, `quiescence.ts`, `runs.ts`) | `runs.closing_at`, the registry | `deleteRun`, `finalizeRun`, the reactive close, `createRun` | several closers, members that end, fork and are stopped meanwhile, crash between claim and close |
| spawn (`engine/spawn.ts`, `fork-lock.ts`, `hold.ts`) | fork queues, `spawn_idempotency` | `spawnAgent`, `provisionChild`, `forkFromParent`, `injectInputs` | minutes-long fork against stop, pause of the parent, DELETE and crash |
| wait regimes (`engine/waitfor.ts`) | `agents.wait_for`, `handles` | `evaluateWait`, `atDeadline`, `waitForRegime` | handles that settle twice, deadlines, restarts |
| notifications (`engine/notify.ts`) | `inbox`, the delivery chain | `queueNotification`, `deliverPending`, `withInbox` | a steer in flight against prompts, pauses, stops and crashes |
| lease (`state/lease.ts`, `server.ts`) | `instance_lease` | `acquireLease`, heartbeat, `release` | two daemons on one database; late timers, refused writes, kill -9 |
| rehydrate (`engine/rehydrate.ts`, `sdk.ts`, `registry.ts`) | all of the above | `rehydrate`, `reattachOne`, `reattachPaused`, `retryProvision` | every intermediate state of every operation is one a boot may find |
| ledger and projection (`engine/emit.ts`, `state/projection.ts`, `state/db.ts`) | ledger, tables | `emit`, `apply`, `rebuild` | columns written outside the ledger are not rebuilt |
| subtree sweeps (`engine/subtree.ts`, `pause.ts`, `agent-lock.ts`) | the locks' queues, `paused_from` | `pauseSubtree`, `resumeSubtree`, `stopSubtree` | sweeps that overlap, agents spawned into the tree meanwhile |
| command idempotency (`engine/idempotency.ts`) | `command_idempotency`, `spawn_idempotency` | `withIdempotency` | a crash between reservation and completion; keys that are wiped under a command |
| event stream (`routes/sse.ts`, `bus.ts`) | a queue per connection | replay, subscribe, backpressure | replay and live events, force-close, reconnect |
| await, quiescence waits (`routes/await.ts`, `quiescence.ts`) | subscriptions | long polls | missed wake-ups |
| operations (`ops/`) | backup directories | backups, restore, leak sweep | partial failure |
| Pi bridge (`packages/agent/src/bridge/pi-bridge.ts`) | `state`: queue, active prompt, pending commands, held permissions | prompts, injections, commands, abort, reload-env, permission stream | Pi exits, lines of one turn read in the next, ids that clash |
| Codex bridge (`codex-bridge.ts`) | thread, active turn, RPCs, parked approvals | prompts, forks, abort, approvals, restart | answers after timeouts, completions before answers, forks in later turns |
| Claude bridge (`claude-bridge.ts`) | session, active turn, parked tool calls | prompts, forks, abort, approvals | the end of a turn against approvals and forks |
| sandbox session (`packages/core/src/sandbox`) | the ledger of a sandbox, the replay cache | `exec`, `checkpoint`, egress rules, credentials, `resume` | what was under way when the disk was snapshotted |
| a command as it runs (`packages/core/src/exec-handle.ts`, `packages/opensandbox/src/exec.ts`) | `_chunks`, `_wakeup`, `pendingReaders`, the cached channel | `exec`, `stdout`, `pipe`, `pause`, `resume`, `close`, `AbortSignal` | streams that are cut off, readers that must be woken |
| the stream of a prompt (`packages/agent/src/harness/bridge.ts`, `agent/session-control.ts`) | `pendingStreams`, `pendingPermissions`, the inactivity clock | `prompt`, `onPermission`, `dispose` | a timer races a read, while humans decide and sandboxes are paused |
| sandbox client (`packages/sdks/typescript`) | slots, waiters, environments | `sandbox`, `fork`, `environment.sandbox`, builds | a failure at any await must return its slot, and one slot only |
| agent start (`packages/agent/src/agent/factory.ts`, `snapshots.ts`) | `agent-snapshots.json` | `start`, `spawn`, `restoreFromCheckpoint` | bad snapshots, failures at any await, concurrent writes |
| checkpoints (`packages/agent/src/checkpoint.ts`, `restore.ts`) | tarballs, blobs, ledger entries | `takeCheckpoint`, pruning, `pickRestorable` | losses during a checkpoint; pruning against a trailing replica |
| egress approval (`egress-approval.ts`, `session-control.ts`) | `held`, `onceApproved`, `inFlight`, `seen` | `onDenied`, `endTurn` | grants against reversals, streams that overlap |
| workflow (`packages/workflow`) | stages, `ctx.vars`, `idx` of a forEach() | `result`, `pipe`, `retry`, `forEach` | sandboxes and workers that outlive what failed beside them |
| memory (`packages/memory`, `adapters/sqlite-memory`) | facts, their vector index | `remember`, `compactSemanticMemory`, `fork` | compactions that overlap, two writes per fact |
| `packages/opensandbox`, other `adapters/*`, `apps/sandbox` | HTTP adapters, stores | | readiness loops |

What makes them correct, component by component, is the list of properties in
section 3. What is hard to test, line by line, is "hazards" in `PROJECT.json`.

Interaction: routes call the engine; spawn calls wait regimes, admission and
turns; the end of a turn is an event that notifications and the reactive close
listen to, in that order; a boot re-enters all of them. The daemon reaches an agent
through the bridge in its sandbox, and starts, restores and checkpoints it with the
SDK, which the programs of others use as well. The modules below cut
this web where one component sees another only through an event or a row, and
model the other side by every event it can produce at any time.

## 2. Plan

Done, in this order (the behaviour that loses work or leaks sandboxes first):

1. `Admission` with `AdmissionSlots` (abstract) and `AdmissionProofs`
2. `AgentTurn` with `AgentTurnProofs`: turns, supervision, commands, crash of one agent
3. `RunClose`: the close of a run with all of its members; its proofs are in `AdmissionProofs`
4. `Lease` with `LeaseProofs`
5. `WaitRegime`: the regimes as operators, and the wait as a protocol; its proofs are in
   `LeaseProofs`
6. `Inbox` with `Mailbox` (abstract) and `DurableProofs`: delivery to one recipient
7. `SseStream` with `StreamProofs`: what a reader of the event stream receives
8. `Spawn` with `SpawnProofs`: forks under admission (the abstract pool), paused parents, the
   per-parent lock and budgets

9. `Subtree`: pause, resume and stop of a subtree under the locks of its members
10. `Commands` with `CommandsProofs`: idempotency keys, with crashes and the release of the agent
11. `PiBridge`, `CodexBridge`, `ClaudeBridge`: the harness bridges
12. `SandboxSession`, `SandboxClient`: the sandbox SDK
13. `AgentStart`, `AgentCheckpoint`, `EgressGate`: the agent SDK
14. `ExecStream`, `PromptStream`: what a caller of the SDKs reads of a command and of a
    prompt
15. `Workflow`, `Memory`, `Backup`: stages with retries, the facts of a memory, backups

`SdkProofs` has the proofs about `EgressGate`, `SandboxClient`, `AgentStart`, `ExecStream` and
`Workflow`, `StreamProofs` those about `PromptStream`, `DurableProofs` those about
`SandboxSession`, `AgentCheckpoint`, `Memory` and `Backup` too.

Next, in this order:

16. `Projection`: `rebuild()` against the live fold; `waitQuiescent` and the await route
17. the provider's readiness loops, interactive sessions, the vault credential broker
18. Proofs: the abstract specification of a command with a key (one effect, one
    answer) and that `Commands` implements it

Abstract specifications: `AdmissionSlots` (a pool of slots that never idles under a queue)
and `Mailbox` (messages that leave it in order, and are read at least once until the reader
is closed, but for what a prompt takes along) are stated, and `Admission` and `Inbox` are proved to implement them. Next: a "closed
exactly once" run for `RunClose`.

## 3. Modules, runs and what they show

An `MC*` module instantiates a specification for TLC; each run's constants are in
its `.cfg`. Each property has a mutant in `PROJECT.json`: a plausible bug in one
mapped definition that makes TLC find the property violated.

Two conventions. A **mix** is a choice of the initial state: which requests,
messages and faults there are. Each mix is one question, small enough to be
explored in full; the `MC` module lists them, and a specification proved about or
checked elsewhere may take any set. A run with a **selector** (`signal`, `part`, `boot`,
`kept`, `harness`) checks several components, one of them in each behaviour: the others
stay in an initial state in which nothing can happen, and in which fairness owes
nothing. Where behaviours are bounded, "nobody waits for ever" is stated as
`[]<>(nobody waits)`. A property in a run may be the conjunction of named parts.

### Tree: Admission, RunClose, Subtree

**Admission.** `inUse`, `waiters` are the variables of the code, `race` is what settled a
caller's `Promise.race`, `pc` where the caller is. `ResumeTimedOut` and
`ResumeGranted` are the two ways out of the `idx !== -1` test; `HandOver` and
`Free` the two branches of `release()`.

**RunClose.** `rows` are the `agents` and `handles` columns that matter, `run` the row of
`runs`, `reg` the registry, `fin` the loop of `finalizeRun` (members are numbered in the
order of the loop, which is closing the least of those left), `del` the `DELETE` calls, `busy` the one that has not reached an
await. `turns` counts the turns of an agent that alineod follows: a prompt is taken while one
runs, and a turn settles what its own stream said, whatever became of the agent (`TurnEnds`),
unless its follower polls, looks, and yields (`FollowerYields`). `EndAgent` is an `agent.ended` with its fold, its notifications and the
reactive close, in that order, as `emit()` runs them. `Restart` is kill -9 and
rehydrate; it assumes every reconnect of an open sandbox succeeds (the failing ones are in
`AgentTurn`), and that one which a stop closed may be restored from a checkpoint.

**Subtree.** `sweep` is `sweepSubtree()` of each request (`todo` its level in progress, `res` what
each member answered, `late` the members of its second look); `lock` the promise chain
of `agent-lock.ts` at each agent and `step` what its head awaits, with the state it
read first; `spawn` is `provisionChild()` of the agents that are not there yet,
reduced to what a sweep can meet; `frozen` the sandboxes the provider has paused.
A member's command that times out goes on behind the sweep's back. The turn of an agent that is
stopped goes on too: `TurnOver` settles it over `aborted`, as `driveTurn()` does not look,
`TurnGivenUp` is `catchUpTurn()`, which does.

Run `tree` (selector `part`; 5 callers and 2 slots, so that three can queue, and a hand-over
meets a timed-out head, a timed-out middle and a live tail; seven mixes of runs of one to
three members, the root subscribed to the others, up to two DELETEs, a stop, a prompt, which
may come during a turn, and a restart; ten mixes of one or two sweeps over a root, two children and a grandchild,
with agents spawned meanwhile and a failure):

- `WaitersServedInOrder`: slots are handed over in arrival order (`QueueIsFifo`),
  and whoever queues is granted or told it timed out (`EveryWaiterAnswered`);
  fairness of resumptions and releases only (each caller releases in a
  `finally`), none of the timer.
- `ImplementsSlots`: `Admission` implements `AdmissionSlots`.
- `CloseLeavesNothing`: however closers race, `run.closed` is emitted once between restarts
  (`ClosedOnce`); the claim lists every ended registered member, and a member leaves the
  list only when out of the registry; a released agent is not registered, nor reconnected
  by a boot (`ReleasedIsGone`).
- `SweepsReach`: a sweep that is over has reached the whole subtree: no turn runs
  in a paused one while its root is paused (`PauseHolds`), nothing is left paused in a resumed one
  (`ResumeReaches`), nothing alive in a stopped one (`StopReaches`), except what the
  comments there name.
- `StopIsOrderly`: no agent is closed under a descendant that was there
  (`NoParentClosedUnderChild`); nothing brings a stopped agent back, no turn is started for
  it, and only the turn that ran may still write its row, once (`StoppedIsFinal`).
- `CommandsConclude`: every sweep returns, and a DELETE that claimed the run closes it.
  Fairness: network calls return, fail or time out, scheduled deliveries run, levels are
  started and awaited.

### AgentTurn

`row`, `handle`, `counters` are SQLite state; `driving`, `catchingUp`, `backoff`,
`transient` the module-level sets and maps of `stream.ts` (for one agent); `fol`
the calls of `driveTurn` and `catchUpTurn` in progress, each at one of its
awaits; `cmd` the command that holds the agent lock; `box`, `bridge`, `piQueue`
the container, the bridge process and the prompts it holds, which outlive the
daemon. `Crash` forgets the process memory, `Boot...` are the paths of
`rehydrate()`. Two followers allow overlapping turns.

Run `agent_turn` (four mixes: a loss during retries, prompts and pauses of a held
agent, an agent that fails at once, one without a prompt; a loss is that of the
daemon, the bridge or the container; `MAX_UNREACHABLE_PROBES = 2`, one transient
retry, one policy retry, a breaker at two failures: every path of the retry logic
needs at most that):

- `NoTurnOutOfSight`: the handle of an agent that ended is settled
  (`HandleSettledWhenEnded`), and no agent says `running` that nothing will ever
  conclude, until its first end (`RunningIsFollowed`).
- `StoppedStaysStopped`: no late timer, crash or boot revives a stopped agent.
- `BreakerTrips`: automatic re-sends stop at the breaker.
- `EveryTurnConcludes`. Fairness: each follower goes on (its streams end or time
  out, its timers fire), the command in progress returns, a crashed daemon is
  started again. `GiveUp` is strongly fair: it becomes possible once `TURN_MAX_MS`
  is over and then stays so at each probe, however the probes before were answered;
  weak fairness would let answers alternate for ever.

### Lease, and the waits of a boot

One row, a clock, and processes whose timers fire at most `Late[i]` late and whose
heartbeats SQLite may refuse `MaxSkips` times in a row. `WaitRegime` is described with
the signals below; here it is decided again after a restart.

Run `lease` (selector `boot`; two processes that keep time and one that may stall for
a whole TTL, `TtlMs = 5`, so a beat is 1; `MaxTime = 8` covers a claim, its expiry, a
take-over and the bound of a boot that began after it; every wait for three dependencies
that has a deadline, one without being one whose deadline does not pass, with a restart):

- `DriverOwnsRow`: a holder whose heartbeats are in time owns the row.
- `DisplacedKeepsOff`: whoever lost the row never takes it back, renews it or
  deletes its successor's.
- `WaitKeepsItsWord`: a wait resolves as its mode, its failure policy and its
  deadline promise, and no settlement is missed.
- `BootIsDecided`: a boot is decided within a TTL and two beats (`BootIsBounded`),
  and refused only by a process that beat after it began (`RefusedByTheLiving`).

### Spawn

`call` is `provisionChild()` of each child, at one of its awaits, with the
locals that matter (`held`, `retries`, the budget it passes on); `slot` is
admission, by its abstract specification `AdmissionSlots`, which `Admission` is
proved to implement; `forkQueue` the promise chains of `fork-lock.ts`; `cmd` the
command that holds an agent's lock; `box` the sandbox, which is paused before the
row says so; `orphan` marks a parent at which the fork of a dead daemon still runs, `stray` a
sandbox whose close failed, which is swallowed. A fork goes from "forking" to "copied" when the
provider has copied the parent; from there it does not need it any more, and a failure closes
the copy. `Restart` is kill -9, the reattach of the agents there are, of which any may be lost or
come back with a bridge started anew, and `retryProvision()` of every child without a sandbox
whose parent is back.
`row[a].cap` is an auxiliary: the level down to which the budget that a lineage
was last given reaches (a request may override the inherited one).

Run `spawn` (two agents below the root, in any tree; one mix with both slots free,
so that two forks run at once, one with a slot taken by another run, so that they
queue, and a request that overrides its budget; a pause, a stop and a restart
in each, or two of them where they queue; at each restart any of the agents may come back):

- `SpawnsAreSafe`: forks of one parent run one at a time (`ForksAreSerialized`); a child
  that ended before its fork returned is never registered, and its sandbox is closed, or was
  tried to (`CancelledNeverJoins`); no agent is, or may spawn, deeper than its `cap`
  (`DepthIsBounded`).
- `SpawnConcludes`: a spawn past its wait ends unless its parent is paused.
  Fairness: network calls, timers (the admission timeout is on, the default) and
  commands in progress; none of waits, pauses, resumes or the operator.

### The harness bridges

Each bridge is one thread: an action is a callback of its server, its child
process or a timer, and where promises matter (`CodexBridge`, `ClaudeBridge`)
their continuations are queued in `jobs` and run first. `PiBridge` has the object
`state` of the code, Pi's stdin and stdout as sequences of lines, and the responses
`res`. `CodexBridge` has where each `runTurn` awaits (`pc`), the JSON-RPC requests
whose answer is awaited, the app-server with its threads and their history, and the file
that names the thread, whose write may fail unnoticed (`unsaved`). `ClaudeBridge` has one
`query()` of the SDK and the sessions on its disk. A fork names the turn up to which it copies,
and both bridges may be started anew. The harness itself is outside `src/` and does whatever
the bridge's code and comments expect it to be able to do.

Run `bridges` (selector `harness`; eight mixes of up to three turns, a fork, two approvals, a
timeout and a restart for Codex; five of up to three turns, two forks, three approvals and a
restart for Claude; seven of three requests, two dialogs and two operators, two requests of one
millisecond among them, for Pi: two turns are needed to confuse a bridge, the third to see what
is left):

- `TurnsEndOnce`: a turn's stream is sent one conclusion, its own (`OneOwnConclusion`,
  `OneConclusion`), and no approval outlives the turn that asked (`IdleHoldsNothing`,
  `AsksEndWithTurn`).
- `ConversationCarriesOn`: a turn goes on from exactly the turns before it, less what a fork cut
  off, across forks that fail and restarts (`NothingForgotten`, `SessionCarriesOn`), but for what
  `broken` and `overlapped` name (section 4).
- `EveryTurnEnds`, for Codex and Claude. Fairness: the bridge handles what arrives, its timers fire, the harness
  reads its requests and ends a turn that waits for nothing, has a result or was told to
  abort; nobody has to answer an approval. That Codex's turn ends when it was not aborted is
  the app-server's part; that an aborted one does is the bridge's, which names it the turn.
- `HeldIsWaitedFor`: what the Pi bridge holds is an open response (`HeldIsOpen`), and no prompt
  waits behind an idle Pi (`NoPromptBehindIdlePi`).
- `ClockRunsUnlessWatched`: the clock of a held dialog runs exactly when no operator is
  attached.
- `LinesReachTheirTurn`: Pi's lines reach the stream of their own turn, across
  exits and restarts, until a turn is cut off.
- `ResponsesEnd`: while Pi stays up and nobody is attached every open response comes to its
  end, but for those the bridge lost sight of (`forgotten`, section 4). Fairness as above.

### Signals: SseStream, WaitRegime, Commands, PromptStream

**SseStream.** `rows` is the run's ledger, `conn` one SSE connection (`queue` and
`backedUp` are the stream's internal queue and `backedUpPersistedCount`), `got`
the ids the client has read. `Connect` is replay and subscription, which no await
separates; `Send` is `send()` once `cleanup` is set, `Replay` the loop before.
`waiter` is a bus listener that emits while it handles an event, ahead of or
behind the stream among the listeners: `PersistNested`. `clipped` and `overtook`
remember the two situations in which the stream is not what the docs say
(`NothingMissed`, `IdsAscend`).

**WaitRegime.** `evaluateWait` and `atDeadline` are operators on a wait and a table
of handles, who settled being listed by rank (how many settled before); the protocol decides, forks, and writes `/inputs.json` from the handles
as they are by then. Dependencies settle in any order, may settle in the same
millisecond, and settle again when prompted again. Every valid wait is an initial
state.

**Commands.** `table` is `command_idempotency` (and, under "spawn",
`spawn_idempotency`), `queue` the agent's lock, `pc` where each request is, `polls`
how often it found its key pending; `effects` counts how often the command of a key
took effect. `Wipe` is `forgetIdempotentCommandsFor()`; `Crash` keeps the table.

**PromptStream.** `race` is the `Promise.race` of a read and a timer, `dropped` the reads
that lost theirs, which are pending still, `idle` the time since `lastEventAt`; `wire` is
what nobody has read. The bridge writes text, permissions and a ping per tick; the proxy
may lose the end of the response, and the sandbox may be paused, which no ping survives.
The caller may take its time, leave its loop, or close the agent.

Run `signals` (selector `signal`; a stream with a limit of 2, so that it holds 3 frames,
and 7 rows: a full buffer, a disconnection, a replay of the rest and one too long, with 2
lost connections and 2 nested events; a wait for two that may settle twice; four
requests in five mixes with a crash, `MaxPolls = 2`; a prompt in three mixes, with an
inactivity window of two ticks, one or two permissions, and at most two timers that a
permission outlasts):

- `StreamIsFaithful`: what the client has read is the ledger from row 1 on,
  without gap, repetition or swap, unless `clipped` or `overtook`; and one that does not
  read costs a bounded buffer (`BufferIsBounded`).
- `CommandsAreIdempotent`: a key takes effect once (`ActsOnce`), and its requests
  are answered alike (`OneOutcome`), until it is wiped.
- `PromptsAreFaithful`: a caller that reads on is given what the bridge wrote, but for one
  chunk per timer that a permission outlasted (`Faithful`); it is timed out only after a
  window without an event, or by its own slowness (`TimeoutIsEarned`); `dispose()` reaches
  every stream that is open (`DisposeReaches`).
- `SignalsArrive`: the client gets every row (fairness of the client only, which
  reads and reconnects), a wait with a deadline is over (timers fire, a crashed daemon
  is started), no request stays in flight (locks are handed on, calls return), a prompt
  comes to an end (time passes, a permission is decided in the end, a pause ends; the turn
  itself may hang).

### Sdk: SandboxClient, AgentStart, EgressGate, ExecStream, Workflow

**SandboxClient.** `active` and `waiters` are `_activeCount` and `_waiters`; `granted`
the waiters whose promise is resolved and who have not resumed: between the two
`_releaseSlot` and the increment others may run. `Build` is the build that concurrent
calls of `environment.sandbox()` share; `record` and `snaps` the recorded snapshot and
what the provider has of it.

**AgentStart.** `pc` is where each `loadAgent`, `restoreFromCheckpoint` or `spawnChild`
is, with its container (`boxes`), its egress listener (`gates`) and the snapshot it came
from; `file` is `agent-snapshots.json`, `io` the write each call has under way: every
`loadAgent` makes its own store, so that reads and writes of several interleave. A
snapshot may be gone or hold nothing, any call may fail. A call of the client that fails may
have made its container by then, which it does not delete (`MakingFails`); `unclosed` has
those, and the containers whose close failed.

**EgressGate.** `rule` and `vault` are the sidecar's, `held`, `seen`, `once` and
`ask` (`inFlight`) the gate's; `revert` is what each `endTurn()` has still to revert, one
step per call of the sidecar.

**ExecStream.** `cmd` is where each `exec()` waits, `handle` its `ExecHandle` (how many
`_chunks`, `_done`, `_hasErr`, the one `_wakeup`), `reader` each generator of `stdout()`;
`pendingReaders` are the streams a channel can cancel, `channel` the cached one, which
`pause()` forgets; `wire` is what a response holds, `proc` the command in the container.
`cut` remembers what ended a stream other than its command.

**Workflow.** `flowBox` is where each sandbox of a stage is in `_runSandbox`, `attempt` that of
its `retry()`, `idx` and `worker` the shared index of each attempt's `forEach()` and what
each worker is at; `bad` the attempts that failed, whose other workers go on; `ran` and
`vars_` what was done, and by which attempt the values of `ctx.vars` were written.
A stage without a sandbox is left out, and so is a configuration that two stages share.

Run `sdk` (selector `part`; four calls and a build in six mixes of restores, builds and
forks on one or two slots; two or three starts, one of them possibly a restore or a
spawn, in five mixes; two hosts and two streams in three mixes; two commands and two
readers of one of them in four mixes, with a signal, a pause and a close; workflows of one
or two stages, up to three items, one to three workers and two attempts in five mixes; most
with one or two faults of a kind):

- `SlotsAreCounted`: the count is that of the sandboxes there are, whatever fails, and
  no slot is free while somebody queues.
- `StartsAreClean`: a failed start leaves no container that it was handed and nobody tried to
  close (`FailuresLeaveNothing`; `NothingIsLeft` in section 4 is about the others); a bad
  record is never worse than none (`HitIsNoWorse`).
- `OpenIsAccounted`: an open host is one the gate will close or was told to leave open.
- `ExecsAreTrue`: what is told to have succeeded did so in the sandbox, with all of its
  output, unless the stream was cut off (`ResultsAreTrue`); a reader that waits alone will
  be woken (`NoReaderForgotten`), and at the end has had everything (`ReadersSeeAll`).
- `WorkflowsAreTrue`: a workflow that resolves has closed every sandbox and done every item
  once in its last attempt; no attempt does an item twice; no stage begins before those
  above it are through.
- `SdkReturns`: nobody queues for ever, no start goes round for ever, every request of
  the gate is resolved, every command, every reader that is alone and every sandbox of a
  workflow comes to an end. Fairness: calls of the provider, the file, the sidecar and
  execd return or fail; commands exit, and pauses end; programs close their sandboxes, end
  their streams and answer the gate. The last is the program's duty: `onDenied` waits for
  its handler without a limit.

### Durable: Inbox, AgentCheckpoint, SandboxSession, Memory, Backup

**Inbox.** `status` is the `inbox` table, `told` what the agent has read, `chain` the
`deliverPending` calls queued for the agent, `steer` the steer in flight, whose call may throw
before the agent reads it, or after (`SteerAnswerLost`): its messages are marked when it returns.
A prompt marks them as it sets out; `prompts` are those on their way, `cut` what failed or crashed
prompts took along, and a failed turn may send the same text again. `Mailbox` is what a sender may
rely on.

**AgentCheckpoint.** `ckptPc` is where the checkpoint of each turn is in `maybeCheckpoint`
and `takeCheckpoint`; `files` and `blobs` the tarballs on the disk and in the object store, by
age, `entries` the ledger entries, of which `shipped` reached the replica; `sandbox` numbers the
sandboxes of the agent, `conv` is its conversation; `tarball` says which turns a tarball holds,
none when it was taken under a turn that wrote or beside another (`mixed`).

**SandboxSession.** `ledger` has the entries of each sandbox of a lineage, `cache` what
`resume()` answers from it, `disk` how often each command ran, `config` the sidecar's
settings and `changes` those that are applied and not logged. A stream that is cut, by `pause()`
or a lost connection, is logged as the end of its command, which may still run (`StreamCut`,
`GoesOn`; `cutOff` remembers it).

**Memory.** `made` is every fact there ever was, `facts` and `index` the rows that are in the
table and in the vector index, `factPc` where each `remember()`, compaction or `fork()` is, `todo`
what it listed before it awaited; `blanked` and `factTorn` remember the two ways in which a fact
is lost, or missing from the index or left in it (`SummariesAreKept`, `RecallSeesAll`). A crash may come
between the two statements of a `remember()`, of that of a summary, or of a `forget()`, for each
of them a place of its own (`FactCrash`).

**Backup.** `daemon` counts what the daemon has settled (`db`) and written to its work dir
(`work`); `staging` and `local` are the directories on the host, `stored` the keys of the
store, `jobPc` where each run of `scripts/backup.ts` is, `listed` and `doomed` what its prune
found, `restore` a restore. `since` is the `now` that `pruneOffsite` takes when it is called,
before its first listing: by a later clock a job could take for abandoned a backup whose manifest
came between its two listings. A copy, and an upload up to its prune, is assumed to take no
longer than the hour after which prunes take it for abandoned.

Run `durable` (selector `kept`; two messages, one waking, and a prompt, a pause, a delivery, a
restart, a lost answer and a retry, at most one of each and four in all, which the proofs do not
bound: two messages are enough for one to overtake the other; checkpoints of four turns, two kept, one tick of margin, in
five mixes: the disk alone or with the object store, a crash, one or two reboots, a lost
disk, failed uploads, entries and prunings, two slots; a session of two commands, one
after the other or at once, or of settings that change, with two checkpoints and two
resumes, a failure or a cut stream among them; four calls on a memory in four mixes, with
compactions that overlap each other, a remember and a fork, failures and a crash; two
backups in six mixes, of which one is kept, both, or all, with writes, a prune, restores, failures and a
crash):

- `InboxKeepsItsWord`: what the ledger calls delivered the agent was given, or a prompt has it
  or lost it, and in the order queued (`ToldAsRecorded`); deliveries of the chain alone give
  each message at most once (`ChainTellsOnce`).
- `ImplementsMailbox`: `Inbox` implements `Mailbox`. That no steer is started, and nothing
  new read, while paused (`NothingSentToPaused`) is proved, and not a property of a run.
- `SessionSurvives`: what a resumed program is told has happened is on its disk, once, or not at
  all if its stream was cut (`AnswersMatchDisk`), and its settings are what it last made of them.
- `SomeCopyIsFound`: while the ledger, or its replica, names checkpoints, a copy of one is
  found, whatever pruning deleted, unless as many newer ones as are kept are not named yet.
- `TurnsComeBack`: a container comes back with every turn its ledger had a checkpoint of.
- `FactsAreKept`: compactions that overlap keep the newest facts (`NewestAreKept`), with a
  summarizer nothing is lost (`NothingIsLost`), the index has the facts there are, but for those
  whose own two statements were cut in two (`IndexIsFacts`): no crash touches another fact.
- `BackupsAreWhole`: a backup directory is whole or not there (`VisibleIsWhole`), the newest
  that is offered is whole, and there is one (`NewestIsWhole`), and what a restore brings back
  is one backup in which no handle dangles (`RestoredIsOne`).

### The runs that expect a violation

Each checks one sentence of the docs that the code does not meet; the finding in
`PROJECT.json` quotes it.

- `ClosedMeansReleased` (RunClose, `engine/runs.ts:86`): provisionRoot registers
  the root and starts its first turn without checking whether the run was deleted
  while Alineo.start() was in flight (provisionChild does check), so a closed run
  keeps a sandbox; apps/docs/content/docs/alineod/api-reference/events.mdx:27 says
  of run.closed "The run finalized and its sandboxes were released."
- `NoTurnIsLost` (AgentCheckpoint, `engine/rehydrate.ts:148`): a container that is lost
  twice, with no turn in between, comes back blank: the row names the second sandbox, and
  the restore looks for checkpoints in the ledger of that one alone
  (packages/agent/src/restore.ts:34);
  apps/docs/content/docs/alineod/concepts/durability-contract.mdx:24 says of a container
  loss or machine reboot that the work survives "yes, to the last completed turn", for
  specs with `"checkpoint": true`.
- `FramesReachTheCaller` (PromptStream, `packages/agent/src/harness/bridge.ts:240`): a
  timer that fires while a permission is open drops the read it raced with, and the next
  chunk, often the `permission_resolved` itself, goes to that read, which nobody looks at;
  packages/agent/src/agent/session-control.ts:17-18 (and
  apps/docs/content/docs/agent/concepts/permissions.mdx:104) says "The `permission_request`
  / `permission_resolved` events still flow through the stream."
- `PendingExecsThrow` (ExecStream, `packages/core/src/sandbox/lifecycle.ts:31`): `pause()`
  cancels the streams of running commands, `parseSSE` takes that for their end, and
  `exec()` resolves with exit code 0; packages/core/src/sandbox/lifecycle.ts:22 says "All
  pending exec calls will throw `SandboxError` until `resume()` is called."

## 4. Other divergences

The properties below are stated at the end of their modules. The code does not
satisfy them; add one to a run's `.cfg` (as INVARIANT or PROPERTY) to see TLC's
counterexample.

- `CatchUpKeepsAborted` (AgentTurn, `engine/stream.ts:442`): catchUpTurn checks
  for a stop at stream.ts:438-440, then awaits safeLastText and safeTurnError and
  settles without looking again, so a stop in between is overwritten with done,
  failed or blocked; stream.ts:381-382 says "Exits without settling if the agent
  is stopped meanwhile, so it never overwrites `aborted`".
- `ActiveWhileFollowed` (AgentTurn, `engine/stream.ts:322`): `driving` is a set of
  agent ids, and the first of two overlapping driveTurn calls deletes the id in
  its finally while the second is still reading its stream, so isTurnActive says
  false; stream.ts:116 says "True while alineod is following a turn on this agent,
  by stream or by polling."
- `PromptQueuesBehindRetry` (AgentTurn, `routes/agents.ts:56`): The prompt route
  refuses only while isCatchingUp, so a prompt during a backoff starts driveTurn
  at once and the retry fires beside it; stream.ts:193-194 says "a prompt that
  arrives now must queue behind this retry, not start a second turn beside it."
- `BreakerBound` (AgentTurn, `engine/supervision.ts:95`): A blocked agent that is
  prompted again and fails again is blocked with a consecutive_failures above
  maxConsecutiveFailures; test/fault/invariants.ts:85 says the breaker's "own
  bound actually holds — no agent sitting in `blocked` has a
  `consecutive_failures` count ... past its own spec's `maxConsecutiveFailures`".
- `FirstPromptNotLost` (AgentTurn, `engine/rehydrate.ts:174`): An agent
  provisioned before the crash whose first prompt had not been started (its inputs
  were still being written) is reattached and left in `provisioning`: nothing
  sends the prompt or records an interruption;
  apps/docs/content/docs/alineod/concepts/durability-contract.mdx:60 says work is
  "either redone or explicitly reported as interrupted ... never silently lost".
- `StoppedSandboxGone` (AgentTurn, `engine/stream.ts:249`): driveTurn settles
  without looking for a stop: its failure decision can write `blocked` over a
  stopped agent, which the next boot then counts as live and reconnects, or
  restores onto a new container;
  apps/docs/content/docs/alineod/concepts/crash-recovery.mdx:20 says "`aborted`
  and `lost` agents are skipped: `stop`/`DELETE /runs/:id` already closed their
  sandbox".
- `SandboxIdUpdated` (AgentTurn, `engine/sdk.ts:56`): restartBridge registers the
  handle sdkResume returns without recording its sandboxId, although resume
  restores onto a fresh container when the old one is gone; rehydrate.ts:145 says
  "The persisted row must learn about the new sandboxId -- otherwise it keeps
  pointing at a deleted sandbox".
- `ReleasedOnce` (RunClose, `engine/lifecycle.ts:57`): stopAgent closes a finished
  agent and emits agent.released without looking whether the finalizer released it
  during the await, so the ledger has two; lifecycle.ts:153-155 says "closing it
  again would be a no-op, but emitting a second `agent.released` for it would not
  be."
- `ClosedStaysClosed` (RunClose, `state/projection.ts:345`): claimRunClose tests
  closing_at, which no event records, so the boot rebuild of the runs table clears
  it and a second DELETE after a restart emits run.closed again;
  lifecycle.ts:112-113 says "a second DELETE on an already-closed run is a clean
  no-op, not a double abort."
- `ClaimFindsAllEnded` (RunClose, `engine/lifecycle.ts:61`): stopAgent writes
  state `aborted` before its awaits and agent.ended after them, so quiescence()
  counts the member as terminal and the run is claimed, and may be closed, with a
  member that has not ended; lifecycle.ts:134-136 says "By the time this runs,
  every member is terminal by construction", and 150 calls the opposite
  "unreachable in practice".
- `SuccessStands` (RunClose, `engine/lifecycle.ts:126`): deleteRun takes one
  snapshot and emits agent.ended(aborted) for every member not ended in it, after
  an await in which the member may have finished: a recorded success becomes
  aborted; lifecycle.ts:111-112 says "A member that's already ended (including one
  a prior DELETE or an auto-close already finished) is left alone".
- `QuiescentRunCloses` (RunClose, `engine/lifecycle.ts:148`): After a crash
  between the claim and run.closed the boot rebuilds the run as open, and the
  reactive close only looks again on the next agent.ended, agent.released or
  inbox.dropped, which a quiescent run never produces;
  apps/docs/content/docs/alineod/api-reference/http-api.mdx:60 says "the run
  closes itself once every agent in it has ended and has nothing left to deliver".
- `InputsAreSuccesses` (WaitRegime, `engine/spawn.ts:319`): injectInputs reads
  outcome and text of each selected handle when the fork has returned, and a
  re-prompted dependency may have settled again as failed by then;
  apps/docs/content/docs/alineod/concepts/coordination.mdx:37 says `all` resolves
  when "every agent succeeded" and line 39 that `quorum` writes "the first `k`
  successes".
- `RestoredSelectionIsTheSame` (WaitRegime, `engine/rehydrate.ts:170`):
  onContainerRestored evaluates the wait on the handles of now: a first-of-any or
  quorum selection can differ from the one the child was started with, and a wait
  decided by its deadline writes none; rehydrate.ts:165-167 says "Re-derive the
  same dependency selection the original wait already settled on (evaluateWait is
  pure over the dependencies' own already-settled handles)".
- `ClosesUnderNoTurn` (RunClose, `engine/lifecycle.ts:201`): a prompt is accepted while a turn
  runs (routes/agents.ts:50-64), and the first of the two turns to end writes a terminal state
  and emits agent.ended (stream.ts:275): the reactive close looks at states and the inbox, claims
  the run and closes its sandboxes under the other turn. lifecycle.ts:183-189 says its checks are
  there so as not to "incorrectly close the run out from under a turn that had already begun" and
  that "That turn's own eventual `agent.ended` is what correctly re-triggers this".
- `MarkedReachesIt` (Inbox, `engine/notify.ts:224`): withInbox(), and deliverNow() for an idle
  agent (notify.ts:210), emit inbox.delivered before driveTurn() sends the prompt; one that throws
  (stream.ts:304-319) or that a crash cuts off takes its messages with it, and nothing puts them
  back. notify.ts:216-218 says "take everything pending and return the prompt with it prepended
  (marking it delivered), so a notification that arrived while the agent was idle reaches it with
  its next turn".
- `ClosedDrops` (Inbox, `engine/lifecycle.ts:77`): stopAgent does not look at the
  inbox, so a message held for a stopped agent stays pending;
  apps/docs/content/docs/alineod/concepts/coordination.mdx:157 says of a stopped
  or lost recipient "Dropped." (a self-closing run with such a member never
  becomes quiescent).
- `WakeDelivers` (Inbox, `engine/notify.ts:195`): A steer that throws leaves the
  message "retried at the next delivery point", but the end of a turn is not one,
  so an idle agent with wake: true is not woken;
  apps/docs/content/docs/alineod/concepts/coordination.mdx:155 says of an idle
  recipient "With `wake: true`, or `POST /agents/:id/inbox/deliver`, it starts a
  new turn instead."
- `InterruptedTurnFollowed` (AgentTurn, `engine/rehydrate.ts:196`): reattachOne
  calls catchUpTurn without afterStream, a no-op when the handle is settled from
  an earlier turn (stream.ts:393), so a re-prompted agent stays `running` with
  nobody following it;
  apps/docs/content/docs/alineod/concepts/crash-recovery.mdx:35 says "alineod then
  polls it until the turn finishes and records its result".
- `ToldOnce` (Inbox, `engine/notify.ts:224`): withInbox takes the pending messages
  without joining the delivery chain, so a prompt (or a restart) while a steer is
  awaited gives the agent the same messages again; notify.ts:159 says "Deliveries
  to one agent run one at a time, so nothing is delivered twice."
- `IdsAscend` (SseStream, `engine/quiescence.ts:48`): a listener of the bus that
  emits (observe(), and wait.blocked in waitfor.ts:206) does so before the bus has
  given the first event to the listeners behind it, so their streams carry the
  larger seq first; schema and docs resume by the last id read, and
  engine/emit.ts:68 says `seq` "is monotone within one, which is exactly what SSE
  hands back as `Last-Event-ID`".
- `NothingMissed` (SseStream, `routes/sse.ts:40`): during start() the replay calls
  send() while `cleanup` is still the no-op of sse.ts:30, so a replay of more than
  501 rows leaves the rest out, and the stream stays open and goes on with live
  events, past the gap; apps/docs/content/docs/alineod/api-reference/events.mdx:75
  says "Ephemeral events emitted while you were disconnected are lost; persisted
  events are not", sse.ts:16 "Persisted messages are never dropped".
- `CancelledStaysAborted` (Spawn, `engine/spawn.ts:180`): a child stopped while it
  queues for a provisioning slot is not taken out of the queue, and when its wait
  times out agent.ended(admission_timeout) is emitted without looking, so `aborted`
  becomes failed; setState at spawn.ts:289 does the same to a held child that is
  stopped while its fork is in flight. spawn.ts:230 says of the catch block "already
  ended (stopped) — don't overwrite `aborted`".
- `SlotOnlyForForks` (Spawn, `engine/spawn.ts:280`): forkFromParent waits for the
  resume of a paused parent inside the admission slot, so children of paused parents
  can hold every slot and others end as admission_timeout; spawn.ts:175-176 says
  "Held for the fork itself only".
- `BudgetAsPromised` (Spawn, `engine/rehydrate.ts:373`): retryProvision passes the
  child's persisted spawn_budget, from which one was taken already, as the parent's,
  so the retried child gets one level less than its row says, or is refused; db.ts:67-68
  says the budget comes "from its spec / the run budget; each child gets parent - 1".
- `ForkHasParentToItself` (Spawn, `engine/fork-lock.ts:19`): the queues are in
  memory, so a fork in flight at a crash still runs at the provider when the boot
  retries it at the same parent; fork-lock.ts:12-13 says "alineod queues fork() calls
  per parent instead of racing them".
- A cancelled child (Spawn, `engine/spawn.ts:199`), not a property: provisionChild() swallows a close of a cancelled child
  that fails (spawn.ts:199-204), and nobody knows its sandbox any more (`stray` in
  `CancelledNeverJoins`).
- `PromptedOnce` (Subtree, `engine/pause.ts:146`): a child that joined a pause while
  its inputs were being written is given its first prompt by resumeAgent, which finds
  the paused_from of an agent not started yet, and once more by provisionChild, which
  goes on after injectInputs (spawn.ts:228); pause.ts:143-144 describes the first as
  the prompt of an agent "never started".
- `PausedIsNotStarted` (Subtree, `engine/spawn.ts:220`): a child that is itself the
  target of a pause while it is given its inputs is started by provisionChild(), whose
  hasPausedAncestor() looks at its ancestors only (projection.ts:368-369): its row says
  running over a frozen sandbox, and resumeAgent() then answers 409;
  apps/docs/content/docs/alineod/concepts/steering-and-pausing.mdx:104 says "Resume
  returns the agent to the state it had before the pause."
- `ResumeReachesAll` (Subtree, `engine/spawn.ts:220`): a new child looks for a paused
  ancestor, and joins the pause under its own lock afterwards; a resume of the subtree
  in between has been to the child already, which then stays paused.
- `StopReachesAll` (Subtree, `engine/subtree.ts:38`): the sweep looks once more for
  late members, once; what a late member spawned before it was stopped survives.
  subtree.ts:5 says "anything spawned into the subtree meanwhile gets the same
  treatment".
- `SpawnedOnce` (Commands, `engine/spawn.ts:123`): the key of a spawn is written after
  the child's events, so a daemon that dies between leaves a child without its key, and
  the repeated request spawns another;
  apps/docs/content/docs/alineod/concepts/crash-recovery.mdx:103 promises the key.
- `LockedNeverPends` (Commands, `engine/idempotency.ts:9`): a command under the agent's
  lock can find its key pending: a crash left it, and every repetition is told 409 until
  the agent is released; idempotency.ts:11-12 calls a concurrent pending hit of
  pause, resume and stop "unreachable in practice", and does not speak of crashes.
- `OneOutcomeEver` (Commands, `state/projection.ts:197`): agent.released wipes the keys
  of the agent, so one key may be answered in two ways; the comment there knows it of
  stop ("no double side effect"), it also holds of a pause or resume that is repeated.
- `FailedDidNothing` (Commands, `engine/idempotency.ts:56`): a command that threw after
  it had taken effect is recorded, and replayed for ever, as failed.
- `NeverRunTwice`, `CachedIsOnDisk` (SandboxSession,
  `packages/sdks/typescript/src/client.ts:465`): resume() answers from the ledger what
  was logged complete before the checkpoint was logged, not what was on the disk when
  its snapshot was taken; a command that was under way meanwhile is answered although
  its effects are missing, or runs again although they are there. A command whose stream was cut
  is logged as completed too (core.ts:304-305), and answered although it never ended
  (`cutOff`). client.ts:323-324 says
  "Execs that completed before the checkpoint are returned from ledger cache without
  re-running".
- `SettingsSurviveOverlap` (SandboxSession, `packages/core/src/sandbox/egress.ts:32`):
  two overlapping changes of one host or credential reach the sidecar and the ledger in
  different orders, and a resume reconstructs the one that lost.
- `ResourcesSurvive` (SandboxSession, `packages/sdks/typescript/src/client.ts:527`): a
  session that is resumed twice comes back with the default resources: the entry that a
  resume writes does not carry them.
- `LimitIsKept` (SandboxClient, `packages/sdks/typescript/src/client.ts:1164`):
  _releaseSlot lowers the count and resolves a waiter, which raises it when it
  resumes; a newcomer in between takes the slot as well, so that there is one sandbox
  more than maxConcurrency. types.ts:80-84 calls it the "Maximum number of sandboxes that
  may be active simultaneously".
- `ForksGetSlots` (SandboxClient, `client.ts:239`): programs that hold every slot and
  fork wait for ever; there is no timeout.
- `NothingLeft` (SandboxClient, `client.ts:1033`): a sandbox whose start fails is not
  deleted when the container was made, and one whose delete fails is given up.
- `SlotsComeBack` (SandboxClient, `packages/core/src/sandbox/lifecycle.ts:172`): a
  close() whose ledger entry cannot be written never calls onClose, which gives the slot
  back, and a second close() does nothing. Not a property: "Concurrent first calls share a
  single build" (environment.ts:90) does not hold for a caller that read no record before
  the build was saved, nor for rebuild().
- `SavesAreKept` (AgentStart, `packages/agent/src/agent/factory.ts:175`): each loadAgent
  makes a store, and with it a chain, of its own, so that two starts read and rewrite
  agent-snapshots.json at once and one record is lost; snapshots.ts:87-92 says "This
  chain runs them one at a time".
- `NothingIsLeft` (AgentStart, `factory.ts:334`): a start whose sandbox() or whose
  deletion of a record throws leaves its egress listener up; a restore that cannot
  read the ledger for checkpoints, outside the try, leaves its fresh container; and a call of
  the client that fails after the container was made leaves that (`unclosed`): client.ts:252-319
  and 743-797 wait for it and write it down, and give back only the slot.
- `EventNamesAFile` (AgentCheckpoint, `packages/agent/src/checkpoint.ts:229`): pruning by
  a later checkpoint may delete the tarball of an earlier one whose upload is slow,
  before it is logged; checkpoint.ts:156-157 says "A checkpoint event is never written
  pointing at a tarball that doesn't actually exist on disk". Overlapping checkpoints of
  one agent may be logged in the wrong order as well.
- `MarginKeepsNamed` (AgentCheckpoint, `checkpoint.ts:142`): the age of a blob counts from
  its creation, not from when it was superseded, so that with an agent that pauses
  between turns the margin (config.ts:117) protects nothing.
- `NothingTorn` (AgentCheckpoint, `engine/stream.ts:80`): a checkpoint that waits for the
  limiter, or is slow, reads the container while the next turn writes to it; the guard
  of turnsStarted looks once, before.
- `OnceEndsWithTurn` (EgressGate, `packages/agent/src/agent/egress-approval.ts:217`): a
  host approved once is noted only when its credential is bound, after two awaits; a turn
  that ends meanwhile does not revert it, and it stays open through the next.
  examples/agent-egress-approval/README.md:37 says `allow-once` "is reverted to `deny`
  when the turn ends".
- `AlwaysStays` (EgressGate, `egress-approval.ts:188`): a host approved for good while the
  end of a turn is reverting an earlier once is denied by that reversal.
- `NoCredentialBehindDenial` (EgressGate, `egress-approval.ts:222`): the same race the
  other way leaves the credential in the vault of a denied host. A rule or credential
  that cannot be set makes onDenied throw, and as it is called with `void` (line 136),
  that is an unhandled rejection of the host program.

The bridges have limits that no property names; the properties of section 3 are stated
so that they say where these begin:

- Pi (`packages/agent/src/bridge/pi-bridge.ts`): `/abort` empties the queue without
  ending the responses of the prompts queued in it; after Pi exited, a probe line that it
  left sets `ready` with no process, and queued prompts hang until reload-env; a rejected
  injection ends the stream of the prompt that runs; lines of an aborted turn can
  reach, or end, the stream of the next (`Cut` in LinesReachTheirTurn); ids from
  `Date.now()` may collide (`forgotten` in ResponsesEnd, for these and for the prompts that
  `/abort` drops); a dialog raised just as `/abort` passes is held until it
  expires.
- Codex (`codex-bridge.ts`): a fork that lands in a later turn moves `state.threadId`, so
  that history is left behind and an interrupt names the wrong thread (`broken`); a
  turn/start that timed out may still run, without a stream (`Ghost`); the server is never
  restarted after an exit; a thread that cannot be resumed is only logged, and the
  conversation starts over; a thread whose file cannot be written (codex-bridge.ts:482-484,
  639-641, where the error is swallowed) is lost to the next bridge, which resumes an older one
  or none (`unsaved`, then `broken`); a resume that failed because the server died asks the dead
  server and hangs until the RPC times out; an exit of the server while its answer is
  awaited writes two error frames.
- Claude (`claude-bridge.ts`): a fork that overlaps a turn loses the history of one of the
  two (`overlapped`); an ask that arrives after the abort is told of no abort and waits
  for the end of the turn or its 5-minute timeout; requests that the end of a turn settles
  are never announced as permission_resolved.
- The stream of a prompt (`packages/agent/src/harness/bridge.ts`): a caller that takes longer
  than the window over one event is told PromptTimeoutError (`slept` in TimeoutIsEarned),
  while packages/agent/src/errors.ts:5-7 says it is thrown when the stream "goes quiet";
  `dispose()` misses a stream whose fetch is not answered yet, and one that is opened
  after it (`early` in DisposeReaches); a `[DONE]` that goes to a dropped read ends a turn
  that finished as BridgeDisconnectedError; a generator whose `permission_resolved` went
  to one waits as long as pings come (`Stranded` in Concludes).
- Commands (`packages/opensandbox/src/exec.ts`, `packages/core/src`): a connection that is
  lost, like one that is cancelled, is a success with exit code 0 (`cut` in
  ResultsAreTrue); a command with a signal runs on a channel of its own, whose streams
  `disposeConnections()` does not reach (exec.ts:146-162), so that a pause leaves it
  hanging until resume; a signal that aborts one of two commands may interrupt the other,
  as core.ts:277-281 knows of a command that is over; `stdout()` of two readers of one
  handle keeps one `_wakeup`, and the first waits for ever (`Companions` in
  NoReaderForgotten); `stdout()` and `pipe()` of a strict command that fails end normally,
  as the CommandError of onDone never gets to `_err` (exec-handle.ts:194).
- Workflow (`packages/workflow/src/sandbox-builder.ts`): the workers of an attempt that
  failed go on beside those of the next, so that more than `concurrency` run ("Parallel
  with concurrency cap", sandbox-builder.ts:311; `CapIsKept`), and may write `ctx.vars` after
  it (`LastAttemptWins`); a workflow that rejects does so while other sandboxes of its
  stage are created, run and close (`SettledIsClosed`). Each worker gets a copy of the
  context (sandbox-builder.ts:319), so the stdout of a parallel forEach() is in no result.
- Memory (`packages/memory/src/compaction.ts`, `adapters/sqlite-memory/src/semantic.ts`): a fact
  that was written while the extension was not loaded, or torn by a crash between its two
  rows, is never in the index that recall() uses later, and one that forget() was deleting at a
  crash may stay without its row in the index (semantic.ts:295-307 has no transaction), while semantic.ts:68 says of the
  fallback "slower, but still correct" (`RecallSeesAll`); a summary whose embedding has no
  vector is left out without a word and its originals are forgotten, while
  compaction.ts:18 says it "consolidates information instead of throwing it away"
  (`SummariesAreKept`); with summaries, a compaction ends above `maxFacts` (`CountIsKept`).
- Backup (`ops/`): a prune that is interrupted leaves the manifest of a backup whose files
  are gone, as its deletions run in any order, while offsite.ts:9-10 offers what has a
  manifest (`OfferedIsWhole`); a prune races a restore, which has removed the machine's state
  by then (`RestoreFinds`); two jobs in one second share a staging directory, while
  backup.ts:145 says "all or nothing" (`AllOrNothing`); an upload that takes longer than an
  hour may lose its first files to the prune of another.

## 5. Proofs

Each theorem holds for every value of the constants the named assumptions allow.

**AdmissionProofs** (`AgentsAssumption`: finitely many callers; `CapAssumption`:
a positive cap). `SlotsConserved` is not inductive: that a hand-over goes to
somebody who still waits needs the queue to hold exactly the callers that wait
(`QueueMatchesCallers`), each once, and that no caller's race is settled by a
grant while it is queued; that a newcomer keeps to the cap needs that no slot
idles under a queue (`NoIdleSlotWhileQueued`). `AdmissionInv` is their
conjunction. `StepInv` has one step per action; `PushFacts`, `ShiftFacts` and
`SpliceFacts` say what append, tail and removal do to the set of a queue without
duplicates. `AdmissionSafe` follows, and `AdmissionRefines` from it: each action
is a step of `AdmissionSlots` or a stutter (`StepRefines`).

Of `RunClose` (`RunAssumption`: at least one agent, mixes within it), `CloseLeavesNothing` is
about steps; what it needs of a state is `CloseInv`. An agent that was
released has ended, and is neither registered nor forked any more, and one that ended without
a sandbox is terminal, so that no boot forks it again (`Rows`). Whoever works through the list
holds the claim, and the run is not closed until it is through; all on it have ended, and the
one being closed has a sandbox (`Loop`). A stop that releases is of an agent that has ended
(`Stopping`), and a `DELETE` that awaits an abort has somebody to abort (`Deleting`). `OpenFacts`
says what `NextOpen` leaves out; `EndFacts` what an `agent.ended` does to the rows, `ReactedEnds`
that the listener that follows it claims the run or leaves it alone, and `LoopFacts` that a
claim, whoever makes it, lists everybody who is open. Turns are counted of agents that have a
sandbox (`Followed`, with `OneMoreTurn` and `OneTurnLess`). Each action has a lemma (`StepClose`).
`ClosesLeaveNothing` and `ClosesTyped` follow.

Of `Subtree` (`SubtreeConstants`: a finite tree whose parents have smaller numbers than their
children, mixes of their type in which only agents that are up are paused), both properties
rest on one invariant, `SweepInv`, which is said of one member and of one sweep at a time.
`MemberInv`: what an agent holds and what the head of its lock awaits agree with its row
(`MemberHeld`, `MemberRow`), and whoever waits in its lock is a sweep that still asks for it, or
has given up on it, or the child itself that joins a pause, each once (`MemberQueue`).
`Progress`: whom a sweep has yet to ask has not answered. `StopAnswers` and `StopDescends`:
a stop is through only with agents that are closed, and who waits for it in a lock is deeper than
all that are still to be asked; `StopLate`: it misses only what is spawned under a late member.
`ResumeGoes` and `PauseGoes` hold behind a sweep that has the tree to itself (`Uncrossed`, which
`OthersRest` carries), where a command in a lock is its own, a join, or one that failed
(`HeadFacts`). A pause needs its root to come alone and first (`RootFirst`) and to have only
joins queued behind it (`RootQueue`): an agent that is spawned meanwhile sees a paused ancestor.
`PauseHolds` had to be corrected for the proof: the root itself may be started over its
pause (`PausedIsNotStarted`, section 4). What is stopped stays so while its last turn still
settles (`StaysStopped`, `TurnGivenUpKeeps`). `MemberStep` says what a step at one member may do;
`MemberStepKeeps` that it keeps the invariant if it keeps the member's own, so that
each action is looked at for one agent; `BeginKeeps`, `LevelKeeps` and `LevelsDoneKeeps` are the
steps of a sweep. `DepthRises` and `NextLevelFacts` give the order of the levels.

**LeaseProofs** (`LeaseAssumption`). `OneDriver` and `DriverOwnsRow` need to know
how far the heartbeats of a holder can lag: `IInv` bounds `now - row.beat` by the
skips so far times a beat and the lateness of a timer (`Reach`), which is below
the TTL exactly when `Timely(i)`. Then a holder in time is `Held` for everybody
else (`InTimeIsHeld`), and nobody can claim. `LeaseIsExclusive` (no two timely
drivers, and each owns the row), `LeaseTyped` and `DisplacedStaysOff` follow.
`MaxTime` only bounds TLC: the theorems hold for every bound.

Of `WaitRegime` (`WaitAssumption`: at least one dependency and one turn), `WaitsResolve` rests
on what `evaluateWait` and `atDeadline` select from any table of handles. `InOrderSorts`: who
settled is listed in the order of settlement, each once, which follows from the rank of a handle
(how many settled before it) being an injection. `SnapshotCounts`: who is pending, has failed and
has succeeded add up. `QuorumComesFirst`: the k handles of a quorum are the first that succeeded.
`CheckCases` gives for each mode and policy the condition on which a check decides, `CheckFits`
that what it decides is what was promised, `DeadlineFits` the same of a deadline. A step that
leaves the decision alone leaves the promise alone (`PromiseStays`), one that checks keeps the
invariant with the handles it finds (`CheckKeeps`), and a wait that is over was decided, by its
deadline only if it has one (`DecidedFirst`).

**StreamProofs** (`StreamAssumption`: the limit and the bounds are numbers).
`StreamIsFaithful` speaks of what was read; the invariant behind it (`IInv`) also
says that the queue goes on where the client stopped reading (`GoesOn`, past one
ephemeral frame at its head, `Skip`) and, while the connection is open, reaches the
end of the ledger (`Continues`). `BufferIsBounded` needs that
`backedUpPersistedCount` bounds the queue (`Fits`). `SendFits`, `SendContinues`,
`SendEphemeralContinues` and `ReplayFits` say what the two ways into the queue do
to these, `AppendGoesOn` and `TailGoesOn` what its two ends do; `StepInv` has one
step per action. `StreamFaithful`, `BufferBounded` and `StreamTyped` follow.

Of `PromptStream` (`PromptConstants`: a positive window, numbers for the bounds, mixes of their
type), `Faithful` needs that what the caller was given and the events on the wire are together
what the bridge sent, but for what the reads that lost to a timer got (`Complete`); `EventsOf`,
the events among the frames of a wire, is reasoned about by least counterexample (`EventsAre`,
`EventsOfMore`, `EventsOfLess`). That no event is lost before the first timer needs that every
permission the bridge holds open is known, or its request on the wire, which it asks under fresh
names (`Known`). `TimeoutIsEarned` needs that the clock and the timer agree: in a race without
a permission the timer has what is left of the window, and nobody has been idle for longer than
nothing was written (`Counted`). `Disposed`: once the agent is closed no stream is open or
opening. `OnMore`, `OnLess` and `OnEnd` treat what comes to a wire and leaves it; each action has
a lemma. `PromptsFaithful` and `PromptsTyped` follow.

**SdkProofs**, of five components. For `EgressGate` (no assumption), `OpenIsAccounted`
becomes inductive with `TypeOK` and `RevertsWhileEnding`: only a stream that is ending has
anything to revert. Without it `Ends`, which writes the list of reversals anew, could drop
a host from it that is still open. `GrantAccounts` and `RevertAccounts` treat the two ways a host is opened and
denied; for `GateTyped`, `TypesApart` splits `TypeOK` by variable. `OpenAccounted` and
`GateTyped` follow.

For `SandboxClient` (`ClientConstants`: finitely many calls, the build among them, positive
limits), `SlotsAreCounted`
needs that whoever waits, or was granted a slot and has not resumed, is queued, and is so
once (`WaitsOnce`): otherwise a slot handed on could be taken by a call that holds one.
Steps are of five sorts: those that take a slot (`TakeCounts`), those that give one back
(`ReleaseCounts`), a waiter that resumes (`ResumesCounts`), a close that loses its slot
(`UnloggedCounts`), and all others (`OthersCount`), which leave the slots and who holds
or awaits one alone. `CallCounts` has one step per action; `FailedMoves` says where a
failed call and those that wait for its build go. `SlotsCounted` follows.

For `AgentStart` (`StartConstants`: mixes of their type, records that name snapshots there are),
the invariant (`StartInv`) says of each call (`CallClean`) that it has no container but the one
it works on, and that only where it goes on to close it or to hand it over, and those that a failed
call of the client left behind, which nobody has a handle on (`unclosed`); that a call that
writes the file has one only to start the bridge there afterwards (`StoresWell`); and that a
start that fails was hit by something other than its record (`FailsWell`). A step of one call
leaves the others clean (`Only`, `OthersStayClean`); `WritesClean`, `LoadsClean`, `BridgesClean`
and `ClosesClean` are the ways a call goes on. `StartsClean` and `StartsTyped` follow.

For `ExecStream` (`ExecConstants`: mixes of their type, one command for each reader), `CommandTrue` says of each command that
nothing is registered before its request and that, unless its stream was cut off, everything it
wrote is in the handle, in the event on its way, or on the wire, the end comes last, and tells
what the process did (`StreamIs`); a handle is done only once its stream is over. `ReaderTrue`:
a reader that waits alone is the one the handle will wake, and one that is over has had every
chunk of a handle that is done. A command's step leaves the others true (`CommandStays`,
`OthersRun`, `ReadersStay`); `Notifying`, `Telling` and `Throwing` are the three things that
wake a reader, `Interrupting` and `Disposing` what pauses, signals and closes do to all. Each
action has a lemma. `ExecsTrue` and `ExecsTyped` follow.

For `Workflow` (`WorkflowConstants`: mixes of their type, whose stages have no sandbox in
common), the invariant (`FlowInv`) says of each attempt that every index is taken by one worker
(`TakenOnce`) and done at most once (`DoneOnce`); that in an attempt that is not bad what was
taken is done or in a worker's hands (`NoneLost`); and that only the last attempt may be without
a failure, and has workers then only while the sandbox is flushing (`Ahead`, `Flushes`). The
stages before the one that runs are closed, those after it not begun (`StagesInOrder`). Workers
that outlive their attempt touch nothing of the next (`AttemptStays`, `OthersWork`); `BoxStays`,
`OrderStays` and `SettlesKeeps` say what a step of one sandbox leaves as it was, `CrewFits` that a
crew is no larger than the items. `WorkflowsTrue` follows.

**CommandsProofs** (`CommandsAssumption`: at least one poll, mixes that are of their
type, and a `None` that is no verdict). `CommandsAreIdempotent` needs what the row of a
key tells of its requests (`RowsTell`): who acts on a key that was not wiped has left it
"pending", acts alone and has had no effect yet, and an answer is what the row says. A
key that was wiped tells nothing, so that two requests may act on it; what saves it is
that its agent has ended and is gone for good (`WipedWithAgent`), so that neither calls,
and that of those that called before one remains (`OneCalls`). For the commands under the
lock, who acts is the head of the queue (`Queued`), which `ShiftFacts` and `PushFacts`
carry along the two ends of the queue. `ConcludeInv` treats every answer that is recorded,
`WipeInv` both ways keys are deleted; `StepInv` combines the actions. `Idempotent`,
`LockIsExclusive` and `CommandsTyped` follow.


**SpawnProofs** (`SpawnAssumption`: finitely many agents, no more spawns of other runs
than slots, numbers for the limits, mixes within `Bounds`). `SpawnsAreSafe` speaks of a parent and two children, of a slot and of
a depth. What makes it inductive is said of one agent at a time, `Sound`: where its call
stands, what it holds there and what it has not done yet (`Placed`), who may have a
handle, a sandbox or a command (`Registered`: a sandbox outside the registry is one on which its
call still works, or one whose close failed, `stray`), and that the budget in its row, and the
one in its sandbox, stay within the cap of its lineage (`Bounded`). Around that,
`QueuesAreTrue` (who is queued at a parent, or forks there, is one of its children and
queued once; who forks is the head) and `SlotsHold`. A step of one agent leaves the
others `Sound` (`Combine`), so that each action is looked at for one agent only:
`CallMoves` for the calls that move on, `QueueJoined` and `QueueLeft` for the two ends
of the queue, `SlotStep` for the slots; `RestartInv` is the only step that touches
everybody: whoever comes back has its row's budget, and whoever does not is lost. That is said of
children whose spec does not bring a `spawnDepth` of its own, which would replace the budget in
the sandbox when the agent is resumed. `SpawnSafe` and `SpawnTyped` follow.

**AgentTurnProofs** (`PolicyAssumption`: finitely many followers, positive limits, mixes of
their type). `NoTurnOutOfSight` is not inductive: that a running agent is followed depends
on what the follower relies on. `Followed` names the commands that will end the turn or
follow it, where `RunningIsFollowed` takes any. Whoever sees a set or a flag and leaves the
turn to somebody else must be right: `Polled` (one poll loop at most, and `catchingUp` says
so), `Driven` (`driving` means that a drive is there) and `Timed` (the flag of a backoff
stands for a timer). A stream that ends is one that runs only because the bridge holds no
prompt twice and none of a stream that is over (`Streamed`, with `StreamsAppend`,
`StreamsTail`, `StreamsOrphaned` and `StreamsRemove` for what is done to its queue). And
`Settled` and `Locked` say what the row, the handle, the registry and the command under the
lock tell of each other. `IInv` falls into parts with variables of their own (`PartsOf`),
and each action is looked at part by part: `RowOps`, `SoundGoes` and `SoundEnds` for the
row, `ShapeDrives`, `ShapePolls`, `ShapeEnds`, `ShapeSettles` and `ShapeCatches` for who
follows, `CountFails` and `CancelCounts` for the counters. `NoTurnLost`, `PollingOne` and
`TurnsTyped` follow from the invariant; `BreakerHolds` and `StopIsFinal` from it and a look
at each action (`FailuresGrow`: failures are only counted when a turn fails).

**DurableProofs** (`InboxAssumption`: the bounds are numbers, and who wakes is a message).
Of `Inbox`:
`InboxKeepsItsWord` speaks of what was given and of what is marked; a steer is marked after it was
given, a prompt before. `HandedWell` says what a prompt has, or took along when it failed: it is
marked, and all before it is settled, as it takes all that is pending (`HandsPending`).
`SteerCarriesAll` says what a steer carries: of the messages queued before one of its own, those
that were not given, not dropped and not taken by a prompt are its own too, so that neither a
prompt that overtakes it nor its failure breaks the order; and nothing it carries is dropped
meanwhile. `OnlyByChain` is the case in which nothing is told again (`Undisturbed`: no prompt of a
user, no restart, no answer lost, no retry): then what is pending and was given is what the steer
in flight has just brought (`OnlyBySteer`), and what a prompt has, no other has and was not given
(`OneAtATime`). `Fresh` says that an agent without a first turn has not ended, and was given
nothing while it is not registered, and that a stopped one is not registered. `PromptInv` and
`ReachesInv` treat the steps that give messages, `TellsNothing` all that give nothing; `StepOrder`
has one step per action. `InboxSafe` follows, and from the same invariant `InboxRefines`: what
sets out with a prompt is a `Hand` of `Mailbox` (`HandRefines`), what the agent is given at once
a `Read` (`TellRefines`), a prompt that fails or is cut off a `Lose` (`LoseRefines`), a closed
reader stays closed (`ClosedStays`), and every other step is a `Send`, a `Drop`, at most a `Close`
(`RestRefines`), or a stutter. So a message that is handed to a prompt is all that may be lost.
`PausedIsLeftAlone` needs no invariant.

Of `AgentCheckpoint` (`CheckpointAssumption`: numbers for the bounds, at least one copy
kept, mixes of their type, and a `Gone` that is no set of turns),
both properties speak of copies that pruning has left. `FilesKept` and `BlobsKept`: a copy that was
made is there, or `retain` newer ones of its sandbox are; this holds of a checkpoint that is not
named yet as well. That what is restored has all that was named needs an order: a checkpoint that
met no other and no turn (`Apart`, as against `mixed`) is named after those before it (`InOrder`),
its tarball has all the turns of its sandbox up to its own (`Whole`), until it is through its
file is the newest there is (`OnTop`), and so the last that is named is there (`LastIsThere`).
`WasNamed`: what a loss promised is what the ledger, or its replica, names. `PruneKeeps` says what
one more copy and a pruning leave (`NewestIs`, `WithIs`), `QuietCopies` and `QuietOrder` what a
step that touches no copy does; each action has a lemma. `PicksNewest` is the choice of the
restore. `CheckpointsAreFound`, `CheckpointsComeBack` and `CheckpointsTyped` follow.

Of `SandboxSession` (`SessionConstants`: finitely many credentials, names that are apart, mixes
of their type), what a resumed program is told depends on the log of any sandbox of its lineage.
The invariant (`SessionInv`) says of each log that it begins with the policy (`Began`) and that
the disk of a checkpoint has one run of each command that completed before it in the log, and of
no other, unless a snapshot was taken or logged around it (`Snapshots`, `Logged`); of this
session, that what the cache answers, and what completed, has run once, or not at all if its
stream was cut (`RunOnce`, `Ran`; `cutOff` says of which), that while a
snapshot waits to be logged only such a command runs (`Waits`), and that the log gives each
setting back, or will once its change is logged (`Settled`). A command that goes on after its
stream was cut (`GoesOnInv`) still runs once at most. `CompletedMore` and
`ReconstructedMore` say what one more entry changes of what `resume()` reads from a log,
`SoundMore` and `SoundBlurred` that it stays sound, `NewLog` that the log which a resumed session
begins with is, whatever checkpoint `resume()` picked (`Greatest`). Each action has a lemma.
`SessionsSurvive` and `SessionsTyped` follow.

Of `Memory` (`MemoryAssumption`: finitely many calls, none of them called "parent", mixes of their
type), a compaction drops what it listed before it awaited, and by then others may have dropped
and added facts. The invariant (`FactInv`) therefore speaks of every fact there ever was
(`Parents`): one that may be dropped, because `maxFacts` others are as new or it is too old, stays
so (`Droppable`), and what a compaction has listed may be (`Chosen`), as may all that is gone
(`DroppedWell`). With a summarizer, what is gone, or is about to be forgotten after its summary was
written, has an heir, a later fact that holds what it held (`Inherited`); heirs may be dropped in
turn, but the last fact to hold something cannot be (`HeldAtLast`, by the greatest counterexample).
`Forks` says that what a fork owes is on its list, then in its copies. That the index has the
facts there are is said of all but those that a crash caught between two statements of their own
(`TornWriteFacts`, `FactCrashKeeps`): no later step touches the rows of another. `FactsKept` and `FactsTypeOK` follow.

Of `Backup` (`BackupAssumption`: finitely many jobs, which are numbers, as the grace is, mixes of
their type), `FactInv` has its like in `BackupInv`. `DirsSound` is about the host: a copy that is
under way is young and consistent as far as it is (`CopySound`), so that a prune that looks for
stale directories passes it by. `StoreSound` follows a backup through the store: what a job has
uploaded is there, young while it uploads (`EarlySound`, `PutSound`) and whole from then on, unless
a newer one that finished put it beyond --keep (`Outdone`, `Lost`; `UploadedSound`); and what a
prune will delete is only what is outdone, or the upload of a job that failed (`PruneSound`: an
upload that finishes after the prune has listed what is complete was too young when it began). `RestoreSound` says that a restore has
read one backup, as it was uploaded. `GreatestName` picks the newest that finished: nothing
outdoes it, so it is in the store, and it is the newest that is offered. Each action has a lemma
for each of the three. `BackupsWhole` and `BackupsTypeOK` follow.

The proof found two errors in the model: pruneOffsite's `now` was read at its second listing (with
two ticks and `keep` = 2 the newest backup could then be taken for abandoned, a mix the run now
has), and an upload's last step was a CASE whose arms overlapped, which TLA+ resolves as it likes.
Only model-checked: liveness (TLAPS does not prove it here, nor ENABLED), and every property of
the modules that no proof module extends, which are the bridges; of `SandboxClient`, its types
and that its queue moves. No module declares a
recursive operator. Where a proof needs induction over a set or a sequence, it goes by the least
counterexample (`WellFoundedInduction`), as the library's induction theorems take an operator as
a parameter, which the provers installed cannot instantiate.

## 6. Not modelled

- of a workflow: stdout and the sinks it is piped to; of a memory: episodic and working
  memory, access control, recall beyond whether a fact is in the index; of the operations:
  Litestream, the leak sweep.
- text: results, transcripts, prompts, wording of notices, log lines, rendering.
- token usage; the contents of tarballs beyond which turns they hold; the off-box copies of
  transcripts and results (best effort, no control state).
- the waves in which rehydrate reconnects agents, and its retry delays: each agent
  is brought back in one step of its module.
- of the bridges: `/steer` and `/compact` of Codex, `pi-permission-gate.ts` (it runs inside
  Pi), the contents of transcripts, on the client side everything but the stream of a turn.
- of the sandbox SDK: interactive sessions, files, replayed handles, listing
  and deletion of sandboxes; of the agent SDK: memory sharing between agents beyond its
  step in a spawn, and the harness adapters' installation steps.
- steerSubtree: it steers each member without their locks and keeps nothing.
- the packages and apps listed `not_modelled` in `PROJECT.json`, each with its
  reason; those with control state of their own are in the plan.
