# TLA+ models of rayito

rayito runs each sandbox in a MicroVM. The agent inside it, `rayd` (Rust,
`crates/rayd` with the logic in `crates/rayd-core`), is driven by lifecycle
hooks of the platform (`/ready`, `/validate`, `/run`, `/suspend`, `/resume`,
`/terminate`, HTTP on port 9000) and serves clients over gRPC. The platform
freezes the VM after `/suspend` and thaws it before `/resume`; the monotonic
clock jumps over the freeze. On the other side, the TypeScript SDK
(`clients/typescript`) creates, pauses, reconnects to and kills sandboxes, keeps
pools and fleets of them, streams their output, and carries a CLI, a dashboard
and the deployment of agents.

What is hard comes from the same few facts: hooks that race each other, tasks
that slept through a freeze, deadlines that must not count it, handlers dropped
half way, a session whose parts are behind separate locks; and, in the SDK,
promises that interleave at every await, streams cut by a suspension, calls that
may or may not have had their effect, and processes that die between two steps.

`PROJECT.json` maps the operations to the lines they model (a helper's lines lie
within the range of the definition that uses it; most environment actions have
none), and lists the components, runs, mutants, hazards and theorems.

## Inventory

### The agent

| Part | State | Operations | Interacts with |
|---|---|---|---|
| Phase machine, running clock (`rayd-core/lifecycle.rs`, `clock.rs`) | phase, claim, generations, suspended total | the six hooks, stale-suspend recovery | everything reads the phase or the running clock |
| Session (`rayd-core/session.rs`, `hooks.rs`, `auth.rs`) | the machine, audit, defaults, token, deadline, each behind its own lock | run, authorize, gates | handlers, gRPC services, watchers |
| Hook handlers (`rayd/hooks`) | futures with a budget | one handler per hook, peer check | session, streams, kernels, network |
| Suspend broadcast (`rayd/lifecycle/suspend.rs`) | current token, open streams | broadcast, subscribe, wait | streams, transfers, `/suspend` |
| Stale-suspend watchdog (`suspend_watchdog.rs`) | last reading, unfrozen time | tick, recover | session |
| Sandbox deadline (`rayd-core/sandbox_timeout`) | phase, deadline, cap, hold, grace | install, SetTimeout, tick, resumed | watcher thread, `/resume`, clients |
| Processes (`rayd/process`, `rayd-core/process`) | registry, rings, control, tree | start, signal, timeout, reap | running clock, streams |
| Code executions, kernel supervisor; transfers and their barrier; persistence; egress policy; PTY, filesystem, gRPC adapters, telemetry, events, volumes, mounts, secret gateway | | | |

### The TypeScript SDK, CLI and host assets

| Part | Module | What is hard |
|---|---|---|
| Connection of a handle (`sandbox/core.ts`) | SandboxConnection | concurrent calls cut by a suspension, one reconnection lock, one shared reopening and mint |
| Stream handles (`commands.ts`, `pty.ts`, `code.ts`, `filesystem.ts`) | StreamHandle, OutputLog | resubscription without loss or repeats |
| Calls and buffers (`commands.ts`, `core.ts`, `readiness.ts`, `filesystem.ts`) | ProcessCalls, WorkspaceCalls | opening with retries, deadlines, byte budgets |
| Pause, resume, connect, kill; creation and reincarnation; listing | MicroVmControl, SandboxCreation, SandboxListing | read-act-poll against another client; failures after the VM is billed; tokens of a moving list |
| Pool (`pool/`) | SandboxPool | custody of VMs between filler, sweep, take() and close(); a crash on a persistent backend |
| Agent fleet (`agent/fleet.ts`) | AgentFleet, FleetUpkeep | placement and growth while members vanish; keys renewed by several processes |
| Staged transfers (`transfer.ts`) | StagedTransfer | S3 object, multipart upload and agent job that do not wait for each other |
| Agent runs (`agent/stream.ts`, `deployment.ts`, `sse.ts`); host service, supervisor and drivers (shipped assets) | AgentStreaming, AgentHost, DriverTranslation | limits, cancellation, slots, restart budget |
| Deployments (`agent/deploy.ts`, `agentcore/`), images (`images/`, `templates/`), stacks (`account-setup/`, `stacks/`) | DeployFlow, AgentCore, ImagePublishing, TemplateAssembly, AccountStacks | two deployers, a run that dies anywhere |
| Secrets, volumes, routes, git, paged reads | SecretHandling, VolumeService, RouteRegistry, WorkspaceCalls, PagedReads | check-then-act against a service that lags |
| Project files and detection, feature and launch planning | ProjectFile, ProjectDetection, FeaturePlanning, SdkPlanning | pure decisions over bounded inputs |
| CLI, local proxy, dashboard | CliCommands, LocalProxy, Dashboard | Ctrl-C at any moment, connection slots, queued jobs, a cache with generations |

The Python SDK, generated stubs, CDK constructs and infrastructure templates are
not modelled; `PROJECT.json` gives the reason for each part.

## The core modules

**HookLifecycle** is `LifecycleState`: its fields are the variables (`now` is the
monotonic clock), `ready`, `run`, `suspend`, `resume` (two disjuncts: from
`Suspending`, and after a stale recovery), `recover_from_stale_suspend` and
`terminate` are its methods. A call that the code acknowledges unchanged or
refuses is a stuttering step. `running_time(t)` takes the reading as a parameter,
as in the code, so that the modules above it can use an old one.

**SandboxTimeout** is the deadline machine of `machine.rs`. The four entry points
take the clock reading `t` that the session took before the lock; `Readings` are
the values it may have, at most `MaxSkew` behind `now`. The freeze verdicts of the
watcher and the hook phase are chosen freely: every combination the watcher could
produce is included. `graces` and `holds` count what the current deadline was
granted.

**ProcessTimeout** extends HookLifecycle with one process: the timeout task
(`spawn_timeout_task`, `running_sleep`, `tree_gone_before`), the supervisor
(`supervise`, `finish`), the client's SIGKILL, and `Descendants` that fork at any
time, after a walk of the tree too. `root` distinguishes alive, zombie and reaped;
`live` are the descendants alive and `known` is `ProcessTree::members`. A walk finds
every descendant while the root lives (it is their subreaper); later it finds only
those it remembers and what descends from them. `child.wait()` may fail after the root
has exited (`outcome`). Every read of the clock and every lock is a step of its own
where two actors can interleave.

**SuspendCheckpoint** extends HookLifecycle with the `/suspend` handler, the
broadcast, the watchdog, gRPC streams (gate, then subscribe) and transfers
(subscribe, then gate). Handlers are named by their suspend generation, so a slow
handler of one suspend overlaps the next suspend. `token` counts subscriptions: a
stream holding an older one is cancelled. `Freeze` is the platform's checkpoint:
nothing else runs and the clock jumps.

**HookSession** extends HookLifecycle with concurrent hook calls: `check_peer`, the
handlers step by step (one step per lock or await), the audit, the payload install,
the token gate, the `/validate` task and the work a handler announces. A call stands
for its own identity, defaults and token.

**SandboxConnection** is `SandboxCore`: calls that are refused, cut, re-minted and
repeated while the VM is suspended and resumed under them; the answer to a Health
probe is read in a later step than it was given, and an agent that is freezing still
answers. `gated` is the agent's generation when its phase gate refused the call.
`opened` says what the SetTimeouts for a suspension came to: none, one whose answer
was lost, one that was answered, or another one after that.

**StreamHandle** is the reading side of commands, terminals, executions and
watches. It is shown to implement **OutputLog**, the promise to the reader: each
event at most once, in order, and for a gapless output none missed. The mapping is
the identity on `seen` and `outcome`, so that a cut, a resubscription or an eviction
is a stuttering step of OutputLog.

**SandboxPool**, **AgentFleet** are one process each, whose tasks interleave at
every await. In SandboxPool a `terminate-microvm` may fail; as in the code the failure
is only logged and the VM is let go. In AgentFleet a caller's record says at which await it is (placing,
growing, probing, pinging, leased, running, terminating, filling, listing, checking)
and which member object, lease and new VM it has; a member is an object `<<v, g>>`,
the g-th one made for the VM v, because a call keeps the object it leased when a
refresh has meanwhile made another. `inflight`, `bound` and `host` are the fields of
those objects, `leaked`, `adopted` and `replaced` are history.

The other modules share two MC modules: **MCSdkFlows** (flows that have to end) and
**MCServices**. A behaviour of either is about one component, chosen in the initial
state; the variables of the others keep the value "off", so the state spaces add up.
Both also hold the conjunctions their runs check (`AgentRunsSound`, `SecretsSound`,
...), each named after the parts of the system it is about.

In those modules a call that a service or the agent answers has, beside success and
failure, the outcome "it took effect and the answer was lost" wherever the code retries
or gives up on it: SetTimeout, CompleteMultipartUpload, MakeDir, SendInput, the write of
a gateway key. What is decided before an await is carried to the step after it (the owner
of a stack in AgentCore, the plan of `rayito setup` in AccountStacks, the two reads of
two pausers in MicroVmControl), so that another actor can get in between. A cleanup that
the code tries and whose failure it discards (the kill after a failed deployment or run,
the deletion of a staged object) may fail in the model too.

Definitions named `Bug_...` are mutants: plausible mistakes in the code that the
named property must catch. No specification uses them.

## Runs

| Run | What it shows | Distinct states |
|---|---|---|
| `lifecycle` | `LifecycleSound`, the running clock monotone and pauses free: three suspends, every order of hooks, recoveries and clock steps | 11k |
| `process_timeout` | `TimeoutSound`, `EndEventComes`: the timeout task against supervisor, client, exits and a pause with recovery | 1.3M |
| `sandbox_timeout` | `DeadlineSound`, `KillIsFinal`, `LifetimeEnds`: kill and pause policies, stale readings | 67k |
| `suspend_watchdog` | `RecoveryWaits`, `StaleSuspendEnds`: two suspends with handlers and watchdogs, one freeze | 61k |
| `suspend_transfers` | `CheckpointSound`: a stream and a transfer against two suspends with late handlers | 2.5M |
| `hook_session` | `SessionSound`, `WorkCompletes`: three concurrent calls of any kind and origin | 673k |
| `connection` | `ConnectionSound`, `MarkIsOwn`: two calls of one handle, one resume, one cut | 7.0M |
| `agent_fleet` | `FleetSound`: two callers route, place, grow, probe, run and replace while one refresh, reconcile, status, stop, lost or foreign VM or failed probe disturbs them | 3.0M |
| `sandbox_pool` | `PoolSound`, `HeldIsSafe`, `Refills`, `CloseEnds`: a pool of one slot, one crash and restart or one event outside | 830k |
| `streams` | `StreamSound`, `ImplementsOutputLog`, `EndReachesCaller` | 231k |
| `sdk_flows` | runs of agents, control of sandboxes, transfers and listings, the app supervisor; `FlowsEnd` under fairness | 259k |
| `services` | the twelve conjunctions of MCServices | 1.26M |

Every property has a mutant in `PROJECT.json`; the conjunctions are named
conjunctions of smaller properties, each with the comment that says which code it is
about.

### Bounds

* `MaxSuspends` (2 or 3) and `MaxTime`: two suspends are what it takes for a late
  handler or watchdog to meet a newer suspend; the third in `lifecycle` gives
  recovery, resume and suspend in every order. In SuspendCheckpoint and
  SandboxTimeout the named guard `InHorizon` keeps a suspend or an install from
  starting when the clock cannot reach its end, so that liveness is not lost at the
  edge.
* ProcessTimeout uses timeout, grace and poll of 1, one pause and two descendants: the
  deadline, the grace and the first polls fit in a clock of 3, with the pause before,
  between or after them; of two descendants one can be walked and the other not.
* SandboxTimeout: timeouts below and at the cap, a grace longer than the margin, two
  SetTimeout calls, readings one tick old.
* HookSession: three calls are a `/run`, the call that races it and a `/terminate`,
  or any other triple. The clock stands still: time plays no part there.
* SandboxConnection: two calls are enough for a lock, a join and a stale answer; one
  resume gives the two generations that a call compares.
* AgentFleet: two VMs and two member objects of each, a limit at the minimum and one
  above, two placements and one disturbance: what it takes for a caller to hold an
  object that is no longer listed while another places on its VM.
* MCServices and MCSdkFlows: each module names its bounds. Two actors wherever the code
  lets two run at once (deployers, builders, setups, clients of a domain, processes of a
  fleet), one or two faults per behaviour, and two operations of an actor where the
  second meets what the first left (`MaxRemovals`, `MaxRuns`, `MaxOps`).
* AgentHost's supervisor: two restarts in a window of two ticks, a clock of four and
  four launches: deaths that leave the window, a budget that is used up, and one launch
  more than the budget has.
* The proofs below remove these bounds for the properties they cover.
* Only `agent_fleet` uses symmetry (of the callers, and it checks no liveness); the
  liveness runs would not be sound under it.

### Fairness

* Tasks that the tokio runtime spawned (timeout task, supervisor, watchdog,
  handlers) are weakly fair: a ready task is polled. The clock is weakly fair.
* The deadline tick is weakly fair: the watcher is an OS thread that parks for at
  most one tick.
* In the SDK, a promise that can settle is eventually run by the event loop, and a
  call to a service ends (with an error or a timeout if not otherwise). Services that
  must make progress for a flow to end (a VM that leaves PENDING) are fair only where
  the code has no timeout of its own for them.
* Clients, hooks and sandbox processes are under no obligation, with one exception:
  after the platform froze the VM it calls `/resume` (`ResumeAfterFreeze`), as the
  watchdog's header relies on.
* `AdvanceRunning` assumes that a running VM polls a due watchdog within the freeze
  threshold and settles the handler inside its budget. A runtime starved for longer
  looks like a freeze to the code itself.
* `EndEventComes` exempts only a timeout task asleep past the last tick of the clock;
  `WorkCompletes` exempts calls whose caller went away.

## Proofs

`tlapm` checks the `...Proofs` modules. The theorems hold for every value of the
constants that satisfies the named assumptions: bounds and settings are naturals (zero too, unless
the module says otherwise), the
cap margin fits in every cap, a freeze is longer than the freeze threshold and a tick
is not, sets of calls, streams and transfers are finite, and streams are not
transfers. TLC evaluates the assumptions in every run, and checked each inductive
invariant on the bounds of its run before it was proved.

* **HookLifecycle** (`LifecycleIsSound`, `RunningClockNeverGoesBack`, `PauseIsFree`).
  The inductive invariant joins the types, `ResumeAnswersSuspend` and
  `PausesAreDisjoint` with `SuspendIsRecorded`. The generation bound alone is not
  inductive: without "an unresolved suspend is not answered yet" a second `/resume`
  could pass the bound. Disjointness is what keeps the saturating subtractions of
  `running_time` exact, and the two clock theorems follow from its value.
* **SandboxTimeout** (`DeadlineIsSound`, `KillNeverTakenBack`, in
  DeadlineStreamProofs). The invariant adds
  `HoldsBounded`, which relates the ghost counters to `hold` and `grace_spent`.
* **ProcessTimeout** (`ProcessTimeoutIsSound`, in SuspensionProofs). A reading taken before the lock says at
  most what the running clock says (`ReadingSaysLess`), and the running clock never
  goes back (from HookLifecycle): so what a check found due stays due. `Plan` says that
  a sleep leads where its target says, `Reached` what the clock has reached past a
  check, and `Walk` follows the descendants that lived at a SIGTERM walk from a living
  root (`history.atTerm`) to the permit the supervisor takes: while they live they are
  remembered, and the permit is given when none of the remembered is left. Nothing is
  claimed of a descendant forked after that walk: the code does not wait for it.
* **SuspendCheckpoint** (`CheckpointIsSound`, `RecoveryIsNeverEarly`, in
  SuspensionProofs). `TokensCount`:
  the current subscription is one more than the broadcasts, nobody holds a later one,
  and a generation that was not accepted has no handler. `WatchdogCounts`: what a
  watchdog counted began after the suspend, frozen time apart, or a freeze lies between
  its last reading and now, which its next tick will see because a freeze exceeds the
  threshold. That disjunction is the whole argument for `RecoveryWaits`: a watchdog that
  an earlier suspend's handler spawned late, counting for the current generation, is
  covered by it.
* **HookSession** (`SessionIsSound`). `Owners`: every step past the claim is of the call
  whose identity the session holds, which makes the separately locked installs one.
  `CountsOnce`: where a call cannot have been counted yet, and that the counter is the
  number of counted calls.
* **StreamHandle** (`HandleIsSound`, `HandleImplementsLog`, in
  DeadlineStreamProofs). `HandleIsSound` is about the handle's own accounts: a gap in what
  the reader was given begins at output the agent had evicted, the reconnection budget
  holds, and no stream stays open behind a handle that ended (unless a disconnect()
  overtook its opening). What the reader is promised (in order,
  without repeats, the outcome once) is `HandleImplementsLog`, step by step: each action
  of StreamHandle is one of OutputLog or a stutter. Both rest on an invariant that relates
  `seen`, the last sequence number and the position of the open stream.
* **SandboxConnection** (`ConnectionIsSound`, `MarkIsNeverAnothers`), for any set of
  calls and any number of resumes and cuts. `Budget` bounds, at each await of a call, how
  often its request was sent and ran; `Timely` relates the generations a call has seen, and
  the one at which the gate refused it, to the agent's. Both are facts about one call's record, so a step is checked only for the
  calls it moves. That a suspension is not reopened again after an answered SetTimeout
  rests on `Marks`: a suspension is marked once, before its generation is past, and
  neither a mark nor a reopening under way is for one already answered.
* **SandboxPool** (`PoolIsSound`, `HeldIsNeverTerminated`), for any set of takers, size,
  fill concurrency and number of faults; the run has one taker and one slot. The first
  layer says who may still touch a VM: the warm-up that launched it until its record is
  ready (`WarmOK`), then the one task that took the record out of memory (`TakeOK`), and
  nobody once its deletion has left the backend's queue (`Released`). `Ordered` is the
  order of the queued calls about one VM, without which a save could follow the
  deletion; `Counted` makes the deficit that the filler computes one it can submit. The
  second layer: what memory has is in the backend (`Rooted`), a VM is let go only when its
  termination was asked for (`Ended`: it ended, or the call failed and it is left) or
  somebody else has it (`NoneLost`), and what the backend has is
  within the size. That last bound is not inductive for the backend's present content:
  it is proved for every prefix of the queue (`Saved`, `Sized`), the whole queue leading to
  what memory has ready (`Mirrored`).
* **AgentFleet** (`FleetIsSound`), for any set of callers, limits, VMs, member objects,
  placements and disturbances. Every step of a caller does one of four things to the
  leases: keeps its own, takes one, gives it back or, by an error inside `#place`, leaves
  it behind (`LedgerStep`); each keeps the accounts (`Accounts`), given where a caller
  has a lease at all (`CallOK`). That a dedicated VM has one reservation needs one mark
  per member object (`BoundOK`), one object per VM until a refresh takes the VM in
  (`MadeOK`), and that the VM a caller is launching is nobody else's (`Owners`). The
  limit on growth is not inductive for members and growth alone: `Counted` also counts
  the replacements being launched, each of them in `replaced` since its launch.
* **AgentHost** (`AppSupervisorIsSound`), for any restart budget and window, any clock
  and any number of launches, in the composition that `sdk_flows` checks. Only the
  process launched last can be present (`OnlyNewest`), and the monitor counts a death
  with nothing left of the dead (`Cleared`). `Held` says who will kill what is present:
  a stop to come, through the child on record, or the stop that already took it. It has
  two exceptions: a stop whose flag `start()` cleared afterwards (`early`), and the
  monitor between a launch and its publication, whose next look at the flag (`Flagged`)
  kills what it launched. That giving up is fair rests on
  `Remembered`: the deque is the end of the history of deaths, which is in order, so what
  `record_death` drops is out of the window.

Only model-checked: every liveness property and what else is not named above
(the other properties of `sdk_flows`, and those of `services`). Most of these are
about flows with no parameter, whose every state TLC visits. Liveness under fairness and
ENABLED are outside the prover's reach, and so is induction over data: what the
recursive functions of the planning modules compute is checked over bounded inputs.

## Where the code and its text part

Found while modelling, each with the interleaving or input that shows it; the
properties of the runs are stated so that they exclude these cases and no more.

* `process/runtime.rs:70` says that a timed-out stream never ends with a member alive.
  `is_gone` looks at the members the walks remembered: one forked after the SIGTERM walk,
  or missed by a walk that came after the root had exited (`process/manager.rs:339`), may
  be alive. `WalkedAreGone` is about those a walk from a living root found.
* A `/suspend` whose connection is dropped before its watchdog is spawned leaves none
  (`hooks/mod.rs:588`); hence `Disconnects` is FALSE in the
  runs of SuspendCheckpoint (the proofs allow it either way), and no property covers the
  suspend that then stays. Likewise the work of a dropped `/run` or `/terminate` is
  exempt in `WorkCompletes`.
* A stream that passed the gate may subscribe after the broadcast and stay open past the
  200 (`grpc/process.rs:97`); transfers do it the other way round.
* A freeze before the watchdog's first reading counts as unfrozen time
  (`suspend_watchdog.rs:35`).
* The `/validate` cell can run after `/run` (`code/manager.rs:387`): the gate and the
  start are two steps.
* A second `/terminate` schedules the shutdown while participants run
  (`hooks/mod.rs:925`).
* SDK: an error of `#probe` or of a replacement inside `#place` (`agent/fleet.ts:1040`)
  leaves the invocation and the reservation of the call on the member for good (`leaked`
  in `LeasesAccounted`); a refresh that finds a VM while its own caller is still starting
  it gives the VM two member objects, so that two dedicated sessions can share it
  (`adopted` in `DedicatedAlone`); an abort signal is ignored after a re-mint or a reconnection in openStream
  (`core.ts:634`); a pause that is pending is forgotten when a new generation is
  recorded (`SandboxConnection`); a bulk job's unknown error is reported as aborted
  (`fleet.ts:281`); the events client keeps the key of a stack that was destroyed and
  deployed again; two concurrent pushes can leave a password in the remote's URL; a
  no-change deploy on a rolled-back stack says it succeeded; a log tail stops at an empty
  page.
* Sandboxes: a handle that missed a resume takes the generation of an agent that is
  freezing for the next suspension as the return it waits for, and repeats a gated call
  too early (`readiness.ts:182`, `:320`; `RepeatedAfterResume`); connect can report ready
  for the same reason (`core.ts:743`; `ReadyIsReal`). "Una sola reapertura" per suspension
  (`core.ts`) does not hold when the answer to SetTimeout is lost. suspend-microvm
  answers 200 on a suspended VM, so two clients that both read RUNNING are both told
  that they paused it (`sandbox.ts:1354`; `PauseIsTrue`). `makeDir` answers false, "ya
  existía", of a directory that the same call made before it was cut and re-sent
  (`filesystem.ts:1067`); `sendInput` writes such a piece twice (`pty.ts:253`). A pool
  forgets a VM whose termination failed (`pool.ts:1017`).
* Agents: a deployed stream whose connection ends early gives no final event, against
  `deployment.ts:574`; result() on it asks again. After a failed kill `#stopped` stays
  true and nobody kills the runtime (`stream.ts:321`). A deployment whose kill failed
  leaves its VM (`project-service.ts:583`). `#limitLifetime` counts the calls of its own
  process only, so another process of the fleet can shorten a VM in use
  (`fleet.ts:1197`; `HoldKept`). A gateway key ends with the session that signed it, and
  the renewal looks at its age only (`NewVmKeyGood`). Denying webfetch alone leaves
  Hermes' web toolset open (`hermes.ts:96`); importing an opencode.json drops the whole
  entry of one bad pattern, its denials too, and says so (`opencode.ts:277`).
* Account: AgentCore decides who owns the stack before it writes it and does not look
  again (`agentcore/service.ts:226`); `rayito setup` can replace the template of a newer
  SDK that came between its plan and its write (`setup-adapters.ts:155`;
  `NeverDowngrades`); a version published with variables is reused by a build that asks
  for none (`images/gateway.ts:232`; `BuiltIsMine`); the second destroy that a timed-out
  drain asks for finds no stack and reports success with the file system left
  (`efs-volumes.ts:282`, `:327`; `RemovedForGood`); an unregistered route is served until
  the deletion reaches that server of the edge (`UnregisteredGone`). The PUT of an aborted
  upload may land after the clean-up (`late` in StagedTransfer).
* CLI and dashboard: `serveProxy`'s stop() resolves before a refused connection is
  answered (`proxy-server.ts:562`); the second block of a theme replaces the first
  (`theme.ts:252`); a forced exit after Ctrl-C, or a closed
  output (`closed-pipe.ts:30`), leaves the sandbox of `create` (`main.ts:56`); `doctor` says it killed what it failed to kill (`doctor.ts:69`).

## Not modelled

Data that no decision depends on (wall-clock drift, log lines, counters nobody
reads), kernels and the sidecar beyond the rotation request, filesystem sync,
participants' contents, pids, wire formats. The components listed `not_modelled` in
`PROJECT.json` have their reason there.

## What comes next

The parts of the two MC modules whose safety needs more than one step of one actor
(StagedTransfer, MicroVmControl, the host's service and SecretHandling) are the next to prove;
their liveness stays with TLC. In AgentFleet, `scale()` and the warm pool.
