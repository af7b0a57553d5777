--------------------------- MODULE HookLifecycle ---------------------------
(***************************************************************************)
(* The phase machine of one MicroVM boot, LifecycleState in                *)
(* crates/rayd-core/src/lifecycle.rs, driven by the six platform hooks and *)
(* by the stale-suspend watchdog.  Every operation is one critical section *)
(* of the session's state lock (crates/rayd-core/src/session.rs), so every *)
(* operation is one action.                                                *)
(*                                                                         *)
(* Time is CLOCK_MONOTONIC, which also advances while the VM is frozen.    *)
(* suspend() and resume() read it under the lock, so they use `now`.       *)
(*                                                                         *)
(* An operation the code refuses (IllegalTransition) or acknowledges       *)
(* without effect changes no variable and is a stuttering step here; the   *)
(* modules that extend this one give those answers their own actions.      *)
(***************************************************************************)
EXTENDS Integers

CONSTANTS
    SandboxIds,    \* identities a /run may carry
    NoSandbox,     \* no identity (None)
    MaxSuspends,   \* bound: accepted /suspend calls of the boot
    MaxTime        \* bound: the monotonic clock

ASSUME NoSandboxAssumption == NoSandbox \notin SandboxIds
ASSUME BoundsAssumption == MaxSuspends \in Nat /\ MaxTime \in Nat

VARIABLES
    phase,
    sandboxId,
    runClaimed,
    suspendGeneration,
    resumeGeneration,
    suspendedAt,      \* instant of the last accepted /suspend, or Never
    suspendedTotal,
    staleRecovered,
    now               \* the monotonic clock

stateVars == <<phase, sandboxId, runClaimed, suspendGeneration,
               resumeGeneration, suspendedAt, suspendedTotal, staleRecovered>>

lifecycleVars == <<phase, sandboxId, runClaimed, suspendGeneration,
                   resumeGeneration, suspendedAt, suspendedTotal,
                   staleRecovered, now>>

HookPhase ==
    {"Booting", "Ready", "Running", "Suspending", "Resumed", "Terminating"}

Never == -1

(***************************************************************************)
(* Duration::saturating_sub.                                               *)
(***************************************************************************)
SaturatingSub(a, b) == IF a > b THEN a - b ELSE 0

(***************************************************************************)
(* LifecycleState::running_time: `t` minus every suspended interval, the   *)
(* current one included while Suspending.                                  *)
(***************************************************************************)
FrozenSince(t) ==
    IF phase = "Suspending" /\ suspendedAt # Never
    THEN SaturatingSub(t, suspendedAt)
    ELSE 0

running_time(t) ==
    SaturatingSub(SaturatingSub(t, suspendedTotal), FrozenSince(t))

RunningNow == running_time(now)

(***************************************************************************)
(* SandboxSession::stream_gate: new streams open in these phases only.     *)
(***************************************************************************)
stream_gate == phase \in {"Running", "Resumed"}

Init ==
    /\ phase = "Booting"
    /\ sandboxId = NoSandbox
    /\ runClaimed = FALSE
    /\ suspendGeneration = 0
    /\ resumeGeneration = 0
    /\ suspendedAt = Never
    /\ suspendedTotal = 0
    /\ staleRecovered = FALSE
    /\ now = 0

(* The boot right after its accepted /run: where the modules that compose  *)
(* this machine with the work of a running sandbox begin.                  *)
InitAfterRun ==
    /\ phase = "Running"
    /\ sandboxId \in SandboxIds
    /\ runClaimed = TRUE
    /\ suspendGeneration = 0
    /\ resumeGeneration = 0
    /\ suspendedAt = Never
    /\ suspendedTotal = 0
    /\ staleRecovered = FALSE
    /\ now = 0

----------------------------------------------------------------------------
(* LifecycleState::ready *)
ready ==
    /\ phase \in {"Booting", "Ready"}
    /\ phase' = "Ready"
    /\ UNCHANGED <<sandboxId, runClaimed, suspendGeneration, resumeGeneration,
                   suspendedAt, suspendedTotal, staleRecovered, now>>

(* LifecycleState::run, first call of the boot: RunClaim::Claimed. *)
RunIsClaim == ~runClaimed /\ phase \in {"Booting", "Ready"}

run(id) ==
    /\ RunIsClaim
    /\ phase' = "Running"
    /\ sandboxId' = id
    /\ runClaimed' = TRUE
    /\ UNCHANGED <<suspendGeneration, resumeGeneration, suspendedAt,
                   suspendedTotal, staleRecovered, now>>

(* LifecycleState::suspend, the call that changes the phase. *)
SuspendChanges == phase \in {"Running", "Resumed"}

suspend ==
    /\ SuspendChanges
    /\ suspendGeneration < MaxSuspends
    /\ suspendGeneration' = suspendGeneration + 1
    /\ suspendedAt' = now
    /\ staleRecovered' = FALSE
    /\ phase' = "Suspending"
    /\ UNCHANGED <<sandboxId, runClaimed, resumeGeneration, suspendedTotal, now>>

(* Mutants: the clock is not charged, or charged twice, for a pause.       *)
Bug_ResumeForgetsPause ==
    /\ phase = "Suspending"
    /\ resumeGeneration' = resumeGeneration + 1
    /\ phase' = "Resumed"
    /\ UNCHANGED <<sandboxId, runClaimed, suspendGeneration, suspendedAt,
                   suspendedTotal, staleRecovered, now>>

Bug_StaleResumeAddsPause ==
    /\ phase = "Resumed"
    /\ staleRecovered
    /\ resumeGeneration' = resumeGeneration + 1
    /\ staleRecovered' = FALSE
    /\ suspendedTotal' = suspendedTotal + SaturatingSub(now, suspendedAt)
    /\ UNCHANGED <<phase, sandboxId, runClaimed, suspendGeneration,
                   suspendedAt, now>>

Bug_RecoveryAddsPause(generation) ==
    /\ phase = "Suspending"
    /\ suspendGeneration = generation
    /\ staleRecovered' = TRUE
    /\ suspendedTotal' = suspendedTotal + SaturatingSub(now, suspendedAt)
    /\ phase' = "Resumed"
    /\ UNCHANGED <<sandboxId, runClaimed, suspendGeneration, resumeGeneration,
                   suspendedAt, now>>

(* LifecycleState::resume from Suspending: the pause is added to           *)
(* suspendedTotal (account_resume with add_suspended_span).                *)
ResumeSuspended ==
    /\ phase = "Suspending"
    /\ resumeGeneration' = resumeGeneration + 1
    /\ suspendedTotal' = IF suspendedAt = Never
                         THEN suspendedTotal
                         ELSE suspendedTotal + SaturatingSub(now, suspendedAt)
    /\ phase' = "Resumed"
    /\ UNCHANGED <<sandboxId, runClaimed, suspendGeneration, suspendedAt,
                   staleRecovered, now>>

(* LifecycleState::resume after a stale-suspend recovery: the generation   *)
(* moves, suspendedTotal does not.                                         *)
ResumeAfterStaleRecovery ==
    /\ phase = "Resumed"
    /\ staleRecovered
    /\ resumeGeneration' = resumeGeneration + 1
    /\ staleRecovered' = FALSE
    /\ UNCHANGED <<phase, sandboxId, runClaimed, suspendGeneration,
                   suspendedAt, suspendedTotal, now>>

ResumeChanges == phase = "Suspending" \/ (phase = "Resumed" /\ staleRecovered)

resume == ResumeSuspended \/ ResumeAfterStaleRecovery

(* LifecycleState::recover_from_stale_suspend *)
recover_from_stale_suspend(generation) ==
    /\ phase = "Suspending"
    /\ suspendGeneration = generation
    /\ staleRecovered' = TRUE
    /\ phase' = "Resumed"
    /\ UNCHANGED <<sandboxId, runClaimed, suspendGeneration, resumeGeneration,
                   suspendedAt, suspendedTotal, now>>

(* LifecycleState::terminate, accepted from every phase. *)
terminate ==
    /\ phase' = "Terminating"
    /\ UNCHANGED <<sandboxId, runClaimed, suspendGeneration, resumeGeneration,
                   suspendedAt, suspendedTotal, staleRecovered, now>>

(* CLOCK_MONOTONIC, running or frozen. *)
Advance ==
    /\ now < MaxTime
    /\ now' = now + 1
    /\ UNCHANGED stateVars

Next ==
    \/ ready
    \/ \E id \in SandboxIds \cup {NoSandbox} : run(id)
    \/ suspend
    \/ resume
    \/ \E g \in 1..MaxSuspends : recover_from_stale_suspend(g)
    \/ terminate
    \/ Advance

Spec == Init /\ [][Next]_lifecycleVars

----------------------------------------------------------------------------
(* Every variable has its type, and the generations and instants stay      *)
(* within the bounds of the model: neither a repeated /resume nor one      *)
(* after a recovery can count past the accepted /suspend calls.            *)
TypeOK ==
    /\ phase \in HookPhase
    /\ sandboxId \in SandboxIds \cup {NoSandbox}
    /\ runClaimed \in BOOLEAN
    /\ suspendGeneration \in 0..MaxSuspends
    /\ resumeGeneration \in 0..MaxSuspends
    /\ suspendedAt \in 0..MaxTime \cup {Never}
    /\ suspendedTotal \in 0..MaxTime
    /\ staleRecovered \in BOOLEAN
    /\ now \in 0..MaxTime

(* A suspend is unresolved while the VM is Suspending, and after a         *)
(* recovery until the real /resume arrives.                                *)
Unresolved == phase = "Suspending" \/ staleRecovered

(* Generation accounting of /suspend and /resume (Health.resume_generation *)
(* tells a client that the VM went through a pause): however hooks repeat, *)
(* race the watchdog or arrive after a recovery, every bump of             *)
(* resume_generation answers its own accepted /suspend, and a suspend that *)
(* is still unresolved has not been answered.                              *)
ResumeAnswersSuspend ==
    resumeGeneration + (IF Unresolved THEN 1 ELSE 0) <= suspendGeneration

(* The pauses recorded in suspended_total lie before the last /suspend,    *)
(* which lies before now: no two recorded intervals overlap, so none of    *)
(* the saturating subtractions of running_time ever saturates and hides a  *)
(* wrong account.                                                          *)
PausesAreDisjoint ==
    IF suspendedAt = Never
    THEN suspendedTotal = 0
    ELSE /\ suspendedAt <= now
         /\ suspendedTotal <= (IF Unresolved THEN suspendedAt ELSE now)

(***************************************************************************)
(* The phase machine as a whole: it stays in its types, no /resume is      *)
(* accepted without the /suspend it answers, and recorded pauses never     *)
(* overlap, so that running_time never saturates.                          *)
(***************************************************************************)
LifecycleSound ==
    /\ TypeOK
    /\ ResumeAnswersSuspend
    /\ PausesAreDisjoint

(* running_time, read with the current clock, never goes backwards: not at *)
(* a /suspend, a /resume, a recovery of a stale suspend, the /resume that  *)
(* follows that recovery, or a /terminate.                                 *)
RunningClockMonotone ==
    [][RunningNow' >= RunningNow]_lifecycleVars

(* A pause costs no running time: from the accepted /suspend to the        *)
(* /resume that answers it the running clock stands still, however long    *)
(* the VM was frozen, so a deadline armed before the pause keeps its       *)
(* budget.                                                                 *)
PauseCostsNothing ==
    [][(phase = "Suspending" /\ phase' \in {"Suspending", "Resumed"}
            /\ ~staleRecovered')
        => RunningNow' = RunningNow]_lifecycleVars
=============================================================================
