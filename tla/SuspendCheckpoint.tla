-------------------------- MODULE SuspendCheckpoint --------------------------
(***************************************************************************)
(* The checkpoint path of a running sandbox: the /suspend handler          *)
(* (crates/rayd/src/hooks/mod.rs), the broadcast that closes the client    *)
(* streams (crates/rayd/src/lifecycle/suspend.rs), the stale-suspend       *)
(* watchdog (crates/rayd/src/lifecycle/suspend_watchdog.rs) and the        *)
(* streams and transfers that open and close meanwhile, over the phase     *)
(* machine of HookLifecycle.                                               *)
(*                                                                         *)
(* A handler is named by the suspend generation it was accepted with: its  *)
(* steps interleave with streams, the watchdog, other handlers and the     *)
(* platform, which may freeze the VM (Freeze), never freeze it, or answer  *)
(* with /resume at any time.  The handler's future is dropped at an await  *)
(* when its budget has passed, or when the caller closes the connection    *)
(* (`Disconnects`).                                                        *)
(*                                                                         *)
(* `token` counts the subscriptions that SuspendSignal has started: a      *)
(* broadcast replaces the current one and cancels the one it replaced, so  *)
(* a subscription older than `token` is cancelled.                         *)
(***************************************************************************)
EXTENDS HookLifecycle, FiniteSets

CONSTANTS
    Streams,          \* gRPC streams: pass the gate, then subscribe
    Transfers,        \* transfers: subscribe, then look at the gate
    StreamCloseGrace, \* STREAM_CLOSE_GRACE
    HookBudget,       \* budget(Hook::Suspend)
    FreezeThreshold,  \* settings.freeze_threshold
    WatchdogTick,     \* settings.watchdog_tick
    GateTimeout,      \* settings.suspend_gate_timeout
    FreezeFor,        \* bound: how long the VM is frozen
    MaxFreezes,       \* bound: freezes of the boot
    Disconnects       \* whether the caller may drop the /suspend connection

(* A freeze longer than the threshold is what tells a checkpoint from a    *)
(* slow tick; the close grace is well inside the budget; a client is a     *)
(* stream or a transfer.                                                   *)
ASSUME CheckpointAssumption ==
    /\ {StreamCloseGrace, HookBudget, FreezeThreshold, WatchdogTick, GateTimeout,
        FreezeFor, MaxFreezes} \subseteq Nat
    /\ FreezeThreshold < FreezeFor
    /\ WatchdogTick <= FreezeThreshold
    /\ StreamCloseGrace < HookBudget
    /\ Disconnects \in BOOLEAN
ASSUME ClientsAssumption ==
    /\ IsFiniteSet(Streams) /\ IsFiniteSet(Transfers)
    /\ Streams \cap Transfers = {}

VARIABLES
    token,       \* number of the subscription streams get now
    stream,      \* per stream or transfer: where it is
    tokenOf,     \* the subscription it holds
    handler,     \* per suspend generation: where its handler is
    startedAt,   \* when that handler started
    pending,     \* streams it found open when its close grace ended
    watchdog,    \* per handler: the watchdog it spawned
    freezes,     \* freezes so far
    frozenGen    \* history: the suspend generation last frozen

checkpointVars == <<token, stream, tokenOf, handler, startedAt, pending,
                    watchdog, freezes, frozenGen>>
streamVars == <<token, stream, tokenOf>>
handlerVars == <<handler, startedAt, pending, watchdog>>
freezeVars == <<freezes, frozenGen>>
cVars == <<lifecycleVars, checkpointVars>>

Generations == 1..MaxSuspends
Clients == Streams \cup Transfers

NoWatchdog == [state |-> "none", gen |-> 0, last |-> 0, unfrozen |-> 0]

CheckpointInit ==
    /\ InitAfterRun
    /\ token = 1
    /\ stream = [c \in Clients |-> "idle"]
    /\ tokenOf = [c \in Clients |-> 0]
    /\ handler = [g \in Generations |-> "none"]
    /\ startedAt = [g \in Generations |-> 0]
    /\ pending = [g \in Generations |-> 0]
    /\ watchdog = [g \in Generations |-> NoWatchdog]
    /\ freezes = 0
    /\ frozenGen = 0

Cancelled(c) == tokenOf[c] < token
open_streams == Cardinality({c \in Clients : stream[c] \in {"open", "subscribed"}})

----------------------------------------------------------------------------
(* A gRPC stream: the manager's gate (accepts_new_streams), then the       *)
(* spawn and its awaits, then `wrap`, which subscribes.                    *)
PassGate(s) ==
    /\ stream[s] = "idle"
    /\ stream_gate
    /\ stream' = [stream EXCEPT ![s] = "gated"]
    /\ UNCHANGED <<lifecycleVars, token, tokenOf, handlerVars, freezeVars>>

Subscribe(s) ==
    /\ stream[s] = "gated"
    /\ stream' = [stream EXCEPT ![s] = "open"]
    /\ tokenOf' = [tokenOf EXCEPT ![s] = token]
    /\ UNCHANGED <<lifecycleVars, token, handlerVars, freezeVars>>

(* SuspendableStream: close_now once the subscription is cancelled, or the *)
(* inner stream's own end; both release the open-stream slot.              *)
CloseNow(s) ==
    /\ stream[s] = "open"
    /\ Cancelled(s)
    /\ stream' = [stream EXCEPT ![s] = "closed"]
    /\ UNCHANGED <<lifecycleVars, token, tokenOf, handlerVars, freezeVars>>

StreamEnds(s) ==
    /\ stream[s] = "open"
    /\ stream' = [stream EXCEPT ![s] = "closed"]
    /\ UNCHANGED <<lifecycleVars, token, tokenOf, handlerVars, freezeVars>>

(* A transfer: `interrupts` subscribes first and then looks at the phase;  *)
(* a refusal drops the subscription and the task waits for the gate. The   *)
(* mutant looks at the phase first, as the gRPC streams do.                *)
Bug_SubscribeAfterGate(x) ==
    /\ stream[x] \in {"idle", "subscribed"}
    /\ IF stream[x] = "idle"
       THEN stream_gate /\ stream' = [stream EXCEPT ![x] = "subscribed"]
            /\ UNCHANGED tokenOf
       ELSE stream' = [stream EXCEPT ![x] = "open"]
            /\ tokenOf' = [tokenOf EXCEPT ![x] = token]
    /\ UNCHANGED <<lifecycleVars, token, handlerVars, freezeVars>>

interrupts(x) ==
    /\ stream[x] \in {"idle", "subscribed"}
    /\ IF stream[x] = "idle"
       THEN /\ stream' = [stream EXCEPT ![x] = "subscribed"]
            /\ tokenOf' = [tokenOf EXCEPT ![x] = token]
       ELSE /\ stream' = [stream EXCEPT
                            ![x] = IF stream_gate THEN "open" ELSE "idle"]
            /\ UNCHANGED tokenOf
    /\ UNCHANGED <<lifecycleVars, token, handlerVars, freezeVars>>

(* The transfer's task sees its subscription cancelled and parks. *)
TransferParks(x) ==
    /\ stream[x] = "open"
    /\ Cancelled(x)
    /\ stream' = [stream EXCEPT ![x] = "idle"]
    /\ UNCHANGED <<lifecycleVars, token, tokenOf, handlerVars, freezeVars>>

----------------------------------------------------------------------------
(* The /suspend handler. `InHorizon` is a bound of the model: the clock    *)
(* reaches past the watchdog's verdict on this suspend.                    *)
InHorizon ==
    now + HookBudget + FreezeFor + GateTimeout + FreezeThreshold <= MaxTime

AcceptSuspend ==
    /\ InHorizon
    /\ suspend
    /\ handler' = [handler EXCEPT ![suspendGeneration'] = "broadcast"]
    /\ startedAt' = [startedAt EXCEPT ![suspendGeneration'] = now]
    /\ UNCHANGED <<streamVars, pending, watchdog, freezeVars>>

(* close_client_streams: broadcast, then wait for the open streams.        *)
Broadcast(g) ==
    /\ handler[g] = "broadcast"
    /\ token' = token + 1
    /\ handler' = [handler EXCEPT ![g] = "waiting"]
    /\ UNCHANGED <<lifecycleVars, stream, tokenOf, startedAt, pending,
                   watchdog, freezeVars>>

WaitStreamsClosed(g) ==
    /\ handler[g] = "waiting"
    /\ open_streams = 0 \/ now >= startedAt[g] + StreamCloseGrace
    /\ pending' = [pending EXCEPT ![g] = open_streams]
    /\ handler' = [handler EXCEPT ![g] = "settling"]
    /\ UNCHANGED <<lifecycleVars, streamVars, startedAt, watchdog, freezeVars>>

(* After quiesce, flush and participants: spawn_suspend_watchdog, which    *)
(* reads the generation now, then the 200. The mutant forgets to spawn it. *)
Bug_NoWatchdog(g) ==
    /\ handler[g] = "settling"
    /\ handler' = [handler EXCEPT ![g] = "done"]
    /\ UNCHANGED <<lifecycleVars, streamVars, startedAt, pending, watchdog,
                   freezeVars>>

SpawnWatchdog(g) ==
    /\ handler[g] = "settling"
    /\ handler' = [handler EXCEPT ![g] = "done"]
    /\ watchdog' = [watchdog EXCEPT ![g] =
                      [state |-> "running", gen |-> suspendGeneration,
                       last |-> now, unfrozen |-> 0]]
    /\ UNCHANGED <<lifecycleVars, streamVars, startedAt, pending, freezeVars>>

(* within_budget_extras: the future is dropped at an await once its budget *)
(* has passed, or with the connection.                                     *)
DropHandler(g) ==
    /\ handler[g] \in {"waiting", "settling"}
    /\ Disconnects \/ now >= startedAt[g] + HookBudget
    /\ handler' = [handler EXCEPT ![g] = "dropped"]
    /\ UNCHANGED <<lifecycleVars, streamVars, startedAt, pending, watchdog,
                   freezeVars>>

----------------------------------------------------------------------------
(* suspend_watchdog: one tick. The clock is read before the session is     *)
(* asked, and `recover` runs after both.                                   *)
StillPending(w) == phase = "Suspending" /\ suspendGeneration = w.gen

(* Mutant: the recovery does not wait for the gate timeout.                *)
Bug_RecoversAtOnce(w, elapsed) ==
    IF elapsed > FreezeThreshold THEN "frozen"
    ELSE IF ~StillPending(w) THEN "superseded" ELSE "recovering"

TickVerdict(w, elapsed) ==
    IF elapsed > FreezeThreshold THEN "frozen"
    ELSE IF ~StillPending(w) THEN "superseded"
    ELSE IF w.unfrozen + elapsed >= GateTimeout THEN "recovering"
    ELSE "running"

(* A loop that ended keeps only its outcome. *)
Stopped(outcome, g) ==
    [state |-> outcome, gen |-> g, last |-> 0, unfrozen |-> 0]

WatchdogWakes(g) ==
    LET w == watchdog[g]
        elapsed == now - w.last
    IN  /\ w.state = "running"
        /\ elapsed >= WatchdogTick
        /\ watchdog' = [watchdog EXCEPT ![g] =
             IF TickVerdict(w, elapsed) = "running"
             THEN [w EXCEPT !.last = now, !.unfrozen = w.unfrozen + elapsed]
             ELSE Stopped(TickVerdict(w, elapsed), w.gen)]
        /\ UNCHANGED <<lifecycleVars, streamVars, handler, startedAt, pending,
                       freezeVars>>

(* recover: the session looks at the phase and the generation again, under *)
(* its lock.                                                               *)
Recovers(g) ==
    /\ watchdog[g].state = "recovering"
    /\ IF StillPending(watchdog[g])
       THEN /\ recover_from_stale_suspend(watchdog[g].gen)
            /\ watchdog' = [watchdog EXCEPT ![g].state = "recovered"]
       ELSE /\ watchdog' = [watchdog EXCEPT ![g].state = "superseded"]
            /\ UNCHANGED lifecycleVars
    /\ UNCHANGED <<streamVars, handler, startedAt, pending, freezeVars>>

----------------------------------------------------------------------------
(* The platform and the clock. While the VM runs, the runtime polls a due  *)
(* watchdog within the freeze threshold, and a handler settles inside its  *)
(* budget (suspend_sync.rs bounds its steps to half of it).                *)
AdvanceRunning ==
    /\ \A g \in Generations :
         /\ watchdog[g].state = "running"
              => now < watchdog[g].last + FreezeThreshold
         /\ watchdog[g].state # "recovering"
         /\ handler[g] \in {"broadcast", "waiting", "settling"}
              => now + 1 < startedAt[g] + HookBudget
    /\ Advance
    /\ UNCHANGED checkpointVars

(* The checkpoint of a /suspend: nothing runs while the monotonic clock    *)
(* jumps.                                                                  *)
Freeze ==
    /\ phase = "Suspending"
    /\ frozenGen # suspendGeneration
    /\ freezes < MaxFreezes
    /\ now + FreezeFor <= MaxTime
    /\ now' = now + FreezeFor
    /\ freezes' = freezes + 1
    /\ frozenGen' = suspendGeneration
    /\ UNCHANGED <<stateVars, streamVars, handlerVars>>

Resume == resume /\ UNCHANGED checkpointVars

(* "AWS will call /resume" after a freeze (suspend_watchdog.rs header). *)
ResumeAfterFreeze == frozenGen = suspendGeneration /\ Resume

Terminate == terminate /\ UNCHANGED checkpointVars

HandlerStep(g) == Broadcast(g) \/ WaitStreamsClosed(g) \/ SpawnWatchdog(g)
WatchdogStep(g) == WatchdogWakes(g) \/ Recovers(g)

CNext ==
    \/ \E s \in Streams :
         PassGate(s) \/ Subscribe(s) \/ CloseNow(s) \/ StreamEnds(s)
    \/ \E x \in Transfers : interrupts(x) \/ TransferParks(x)
    \/ AcceptSuspend
    \/ \E g \in Generations :
         HandlerStep(g) \/ DropHandler(g) \/ WatchdogStep(g)
    \/ AdvanceRunning
    \/ Freeze
    \/ Resume
    \/ Terminate

CSpec == CheckpointInit /\ [][CNext]_cVars

(* Tasks of the runtime are polled, the clock runs, and the platform calls *)
(* /resume after it froze the VM. Nothing obliges it to freeze the VM, nor *)
(* to call /resume when it did not.                                        *)
CFairSpec ==
    /\ CSpec
    /\ \A g \in Generations :
         WF_cVars(HandlerStep(g)) /\ WF_cVars(WatchdogStep(g))
    /\ WF_cVars(AdvanceRunning)
    /\ WF_cVars(ResumeAfterFreeze)

----------------------------------------------------------------------------
(* Every variable has its type. *)
CTypeOK ==
    /\ TypeOK
    /\ token \in 1..(MaxSuspends + 1)
    /\ stream \in [Clients -> {"idle", "gated", "subscribed", "open", "closed"}]
    /\ tokenOf \in [Clients -> 0..(MaxSuspends + 1)]
    /\ handler \in [Generations -> {"none", "broadcast", "waiting", "settling",
                                    "done", "dropped"}]
    /\ startedAt \in [Generations -> 0..MaxTime]
    /\ pending \in [Generations -> 0..Cardinality(Clients)]
    /\ watchdog \in [Generations ->
         [state : {"none", "running", "frozen", "superseded", "recovering",
                   "recovered"},
          gen : 0..MaxSuspends, last : 0..MaxTime, unfrozen : 0..MaxTime]]
    /\ freezes \in 0..MaxFreezes
    /\ frozenGen \in 0..MaxSuspends

BroadcastDone(g) == handler[g] \in {"waiting", "settling", "done", "dropped"}

(* "A /suspend that lands between the two is seen by one or the other"     *)
(* (transfer/manager.rs, interrupts): a transfer that passed the gate is   *)
(* never left running on a live subscription after the broadcast of the    *)
(* suspend in force, whichever way subscription, gate check, /suspend,     *)
(* broadcast and /resume interleave.                                       *)
TransferSeesSuspend ==
    (phase = "Suspending" /\ BroadcastDone(suspendGeneration))
        => \A x \in Transfers : stream[x] = "open" => Cancelled(x)

(***************************************************************************)
(* The checkpoint as a whole: tokens and handlers stay in their types, one *)
(* broadcast for each accepted /suspend, and a transfer that is open has   *)
(* seen the last one.                                                      *)
(***************************************************************************)
CheckpointSound ==
    /\ CTypeOK
    /\ TransferSeesSuspend

FrozenOfThis == IF frozenGen = suspendGeneration THEN FreezeFor ELSE 0

(* A suspend is recovered only after the gate timeout of unfrozen time:    *)
(* no watchdog, not one spawned late by the handler of an earlier suspend  *)
(* and counting for the current generation, reopens a suspend sooner.      *)
RecoveryWaits ==
    [][(staleRecovered' /\ ~staleRecovered)
        => now - suspendedAt - FrozenOfThis >= GateTimeout]_cVars

(* "A suspend that never freezes the VM is recovered" (hook-defense): the  *)
(* gate never stays shut. Every accepted /suspend ends in a /resume, a     *)
(* recovery or a /terminate.                                               *)
StaleSuspendEnds ==
    phase = "Suspending" ~> phase # "Suspending"

=============================================================================
