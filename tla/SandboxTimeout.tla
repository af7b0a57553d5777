--------------------------- MODULE SandboxTimeout ---------------------------
(***************************************************************************)
(* The logical deadline of a sandbox, SandboxTimeout in                    *)
(* crates/rayd-core/src/sandbox_timeout/machine.rs.  The accepted /run     *)
(* installs it, the SetTimeout RPC moves it, the watcher thread ticks it   *)
(* and a /resume that changed the hook phase reports itself to it.         *)
(*                                                                         *)
(* The session (crates/rayd-core/src/session.rs) takes the deadline lock   *)
(* around every operation, so an operation is one action; but it reads the *)
(* clock BEFORE taking the lock, so an operation may work with a reading   *)
(* older than `now`.  `MaxSkew` bounds how old.                            *)
(*                                                                         *)
(* The hook phase, the thaw verdict and the freeze verdict an operation is *)
(* given are arbitrary here: they too were read before the lock.  A call   *)
(* the code refuses (Unmanaged, Expired, InvalidTimeout, BeyondCap)        *)
(* changes nothing and is a stuttering step.                               *)
(***************************************************************************)
EXTENDS Integers

CONSTANTS
    Timeouts,       \* logical timeouts of a payload or a SetTimeout call
    Caps,           \* platform caps a payload may carry (cap_s)
    CapMargin,      \* CAP_MARGIN
    ResumeGrace,    \* settings.resume_grace
    SuspendHold,    \* settings.suspend_hold
    AutoResumeMin,  \* AUTO_RESUME_MIN_TIMEOUT
    MaxExtensions,  \* bound: deadline moves by SetTimeout
    MaxTime,        \* bound: the monotonic clock
    MaxSkew         \* bound: age of a clock reading when the lock is taken

(* MIN_TIMEOUT_SECONDS and MIN_CAP_SECONDS of sandbox_timeout/mod.rs: a    *)
(* timeout is at least one second, a cap leaves life after the margin.     *)
ASSUME TimeoutsAssumption ==
    /\ Timeouts \subseteq Nat \ {0}
    /\ CapMargin \in Nat
    /\ Caps \subseteq Nat
    /\ \A c \in Caps : c > CapMargin
ASSUME SettingsAssumption ==
    /\ ResumeGrace \in Nat
    /\ SuspendHold \in Nat
    /\ AutoResumeMin \in Nat \ {0}
ASSUME TimeoutBoundsAssumption ==
    MaxExtensions \in Nat /\ MaxTime \in Nat /\ MaxSkew \in Nat

VARIABLES
    timeoutPhase,   \* Phase
    timeout,
    deadline,
    cap,
    onTimeout,      \* policy.on_timeout
    autoResume,     \* policy.auto_resume
    extensions,
    hold,           \* Hold
    holdUntil,      \* the instant of Hold::Until
    graceSpent,
    graceUntil,     \* the instant of Phase::ResumeGrace
    graces,         \* history: graces opened since the deadline last moved
    holds,          \* history: holds granted since the deadline last moved
    now             \* the monotonic clock

policyVars == <<onTimeout, autoResume, cap>>
holdVars == <<hold, holdUntil, holds>>
graceVars == <<graceSpent, graceUntil, graces>>
timeoutVars == <<timeoutPhase, timeout, deadline, cap, onTimeout, autoResume,
                 extensions, hold, holdUntil, graceSpent, graceUntil, graces,
                 holds, now>>

Phase == {"Unmanaged", "Active", "ResumeGrace", "Expired", "Terminating"}
Hold == {"Unused", "Until", "Spent"}
TimeoutAction == {"kill", "pause"}
TimeoutMode == {"Exact", "AtLeast"}

Least(a, b) == IF a <= b THEN a ELSE b
Greatest(a, b) == IF a >= b THEN a ELSE b

(* The instants an operation that takes the lock now may have read.        *)
Readings == {t \in 0..now : t + MaxSkew >= now}

is_managed == timeoutPhase # "Unmanaged"

TInit ==
    /\ timeoutPhase = "Unmanaged"
    /\ timeout = 0
    /\ deadline = 0
    /\ cap = 0
    /\ onTimeout = "kill"
    /\ autoResume = FALSE
    /\ extensions = 0
    /\ hold = "Unused"
    /\ holdUntil = 0
    /\ graceSpent = FALSE
    /\ graceUntil = 0
    /\ graces = 0
    /\ holds = 0
    /\ now = 0

----------------------------------------------------------------------------
(* LifecycleWire::validated: the blocks a payload may install. *)
LifecycleSpecs ==
    {s \in [timeout : Timeouts, cap : Caps,
            on_timeout : TimeoutAction, auto_resume : BOOLEAN] :
        /\ s.timeout <= s.cap
        /\ s.auto_resume => s.on_timeout = "pause"}

(* move_deadline: the hold and the grace of the new deadline are unused. *)
move_deadline(d) ==
    /\ deadline' = d
    /\ hold' = "Unused"
    /\ holdUntil' = holdUntil
    /\ graceSpent' = FALSE
    /\ graceUntil' = graceUntil
    /\ holds' = 0
    /\ graces' = 0

(* install, reached once per boot: by the accepted /run.  InHorizon is a   *)
(* bound of the model: the clock outlives the cap and a hold taken there.  *)
InHorizon(c) == c + SuspendHold + MaxSkew <= MaxTime

install(spec, t) ==
    /\ timeoutPhase = "Unmanaged"
    /\ InHorizon(t + spec.cap - CapMargin)
    /\ cap' = t + spec.cap - CapMargin
    /\ move_deadline(Least(t + spec.timeout, cap'))
    /\ timeout' = spec.timeout
    /\ onTimeout' = spec.on_timeout
    /\ autoResume' = spec.auto_resume
    /\ extensions' = 0
    /\ timeoutPhase' = "Active"
    /\ UNCHANGED now

(* Mutants of set_timeout: a kill under way is taken back; an expired      *)
(* sandbox gets its new deadline but stays gated.                          *)
Bug_SettableWhileTerminating == is_managed
Bug_StaysGated == UNCHANGED timeoutPhase

(* set_timeout, the calls it accepts. *)
Settable == timeoutPhase \in {"Active", "ResumeGrace", "Expired"}

WithinCap(t, requested) == t + requested <= cap

NewDeadline(t, mode, requested) ==
    IF mode = "AtLeast" /\ timeoutPhase = "Active"
    THEN Greatest(deadline, t + requested)
    ELSE t + requested

Reopen == timeoutPhase' = "Active"

set_timeout(t, mode, requested) ==
    /\ Settable
    /\ WithinCap(t, requested)
    /\ LET d == NewDeadline(t, mode, requested) IN
         IF d # deadline
         THEN /\ extensions < MaxExtensions
              /\ timeout' = requested
              /\ extensions' = extensions + 1
              /\ move_deadline(d)
         ELSE UNCHANGED <<deadline, timeout, extensions, holdVars, graceVars>>
    /\ Reopen
    /\ UNCHANGED <<policyVars, now>>

----------------------------------------------------------------------------
(* open_grace: at most once per deadline, never past the cap.              *)
CanOpenGrace(t) == ~graceSpent /\ t < cap

open_grace(t) ==
    /\ CanOpenGrace(t)
    /\ graceSpent' = TRUE
    /\ graces' = graces + 1
    /\ graceUntil' = Least(t + ResumeGrace, cap)
    /\ timeoutPhase' = "ResumeGrace"

(* hold_for_suspend: true while the one hold of the deadline lasts. *)
HoldsForSuspend(t) == hold = "Unused" \/ (hold = "Until" /\ t < holdUntil)

TakeHold(t) ==
    IF hold = "Unused"
    THEN /\ hold' = "Until"
         /\ holdUntil' = t + SuspendHold
         /\ holds' = holds + 1
    ELSE UNCHANGED holdVars

SpendHold(suspending) ==
    /\ hold' = IF suspending THEN "Spent" ELSE hold
    /\ UNCHANGED <<holdUntil, holds>>

DeadlinePassed(t) == timeoutPhase = "Active" /\ t >= deadline

(* tick at a deadline whose checkpoint was just thawed: Gate. *)
TickGate(t, thawed) ==
    /\ DeadlinePassed(t)
    /\ thawed
    /\ open_grace(t)
    /\ UNCHANGED <<timeout, deadline, policyVars, extensions, holdVars, now>>

(* tick at a deadline with a /suspend in flight: wait for its freeze. *)
TickHold(t, suspending, thawed) ==
    /\ DeadlinePassed(t)
    /\ ~(thawed /\ CanOpenGrace(t))
    /\ suspending
    /\ HoldsForSuspend(t)
    /\ TakeHold(t)
    /\ UNCHANGED <<timeoutPhase, timeout, deadline, policyVars, extensions,
                   graceVars, now>>

PhaseOfPolicy == IF onTimeout = "kill" THEN "Terminating" ELSE "Expired"

(* tick at a deadline, nothing to wait for: Terminate or Expire. *)
TickAct(t, suspending, thawed) ==
    /\ DeadlinePassed(t)
    /\ ~(thawed /\ CanOpenGrace(t))
    /\ ~(suspending /\ HoldsForSuspend(t))
    /\ SpendHold(suspending)
    /\ timeoutPhase' = PhaseOfPolicy
    /\ UNCHANGED <<timeout, deadline, policyVars, extensions, graceVars, now>>

(* tick at the end of a grace: Terminate or ReExpire. *)
TickAfterGrace(t) ==
    /\ timeoutPhase = "ResumeGrace"
    /\ t >= graceUntil
    /\ timeoutPhase' = PhaseOfPolicy
    /\ UNCHANGED <<timeout, deadline, policyVars, extensions, holdVars,
                   graceVars, now>>

tick(t, suspending, thawed) ==
    \/ TickGate(t, thawed)
    \/ TickHold(t, suspending, thawed)
    \/ TickAct(t, suspending, thawed)
    \/ TickAfterGrace(t)

----------------------------------------------------------------------------
(* resumed(now, frozen): what a frozen VM's /resume finds past its         *)
(* deadline.                                                               *)
ResumedPastDeadline(t) ==
    \/ timeoutPhase = "Active" /\ t >= deadline
    \/ timeoutPhase \in {"ResumeGrace", "Expired"}

AutoResumes == onTimeout = "pause" /\ autoResume

(* apply_auto_resume: at least AutoResumeMin more, never past the cap. The *)
(* mutant clamps to the cap but forgets that a resume there stays expired. *)
Bug_AutoResumeAtCap(t) ==
    /\ timeout' = Greatest(timeout, AutoResumeMin)
    /\ move_deadline(Least(t + timeout', cap))
    /\ timeoutPhase' = "Active"

apply_auto_resume(t) ==
    IF t >= cap
    THEN /\ timeoutPhase' = "Expired"
         /\ UNCHANGED <<timeout, deadline, holdVars, graceVars>>
    ELSE /\ timeout' = Greatest(timeout, AutoResumeMin)
         /\ move_deadline(Least(t + timeout', cap))
         /\ timeoutPhase' = "Active"

ResumedAuto(t) ==
    /\ ResumedPastDeadline(t)
    /\ AutoResumes
    /\ apply_auto_resume(t)
    /\ UNCHANGED <<policyVars, extensions, now>>

ResumedGrace(t) ==
    /\ ResumedPastDeadline(t)
    /\ ~AutoResumes
    /\ open_grace(t)
    /\ UNCHANGED <<timeout, deadline, policyVars, extensions, holdVars, now>>

resumed(t) == ResumedAuto(t) \/ ResumedGrace(t)

Advance ==
    /\ now < MaxTime
    /\ now' = now + 1
    /\ UNCHANGED <<timeoutPhase, timeout, deadline, policyVars, extensions,
                   holdVars, graceVars>>

Tick == \E t \in Readings : \E suspending, thawed \in BOOLEAN :
            tick(t, suspending, thawed)

TNext ==
    \/ \E t \in Readings : \E spec \in LifecycleSpecs : install(spec, t)
    \/ \E t \in Readings : \E mode \in TimeoutMode : \E r \in Timeouts :
         set_timeout(t, mode, r)
    \/ Tick
    \/ \E t \in Readings : resumed(t)
    \/ Advance

TSpec == TInit /\ [][TNext]_timeoutVars

(* The clock runs, and the watcher thread (a dedicated OS thread, not a    *)
(* task of the async runtime) ticks every TIMEOUT_TICK.                    *)
TFairSpec == TSpec /\ WF_timeoutVars(Advance) /\ WF_timeoutVars(Tick)

----------------------------------------------------------------------------
(* Every variable has its type. *)
TTypeOK ==
    /\ timeoutPhase \in Phase
    /\ timeout \in Nat
    /\ deadline \in Nat
    /\ cap \in Nat
    /\ onTimeout \in TimeoutAction
    /\ autoResume \in BOOLEAN
    /\ extensions \in 0..MaxExtensions
    /\ hold \in Hold
    /\ holdUntil \in Nat
    /\ graceSpent \in BOOLEAN
    /\ graceUntil \in Nat
    /\ graces \in Nat
    /\ holds \in Nat
    /\ now \in 0..MaxTime

(* Neither a SetTimeout, an auto-resume, nor a resume grace takes the life *)
(* of a managed sandbox past its cap, and the cap leaves the platform's    *)
(* own kill a margin: "no grace runs past the cap" (machine.rs header).    *)
NothingOutlivesCap ==
    is_managed => /\ deadline <= cap
                  /\ timeoutPhase = "ResumeGrace" => graceUntil <= cap

(* A gated sandbox (its RPCs refused by admits) is past its deadline: a    *)
(* SetTimeout that succeeded, or an auto-resume, can never leave the       *)
(* sandbox expired, in grace or being killed before the deadline the call  *)
(* reported, even with the tick that gates it working on an older clock    *)
(* reading.                                                                *)
NoEarlyExpiry ==
    timeoutPhase \in {"ResumeGrace", "Expired", "Terminating"}
        => deadline <= now

(* "A deadline grants at most one resume grace" (machine.rs header) and    *)
(* one hold for a /suspend in flight (Hold): however ticks, thaws and      *)
(* /resume calls interleave, a deadline that does not move is granted      *)
(* neither twice.                                                          *)
OneGraceOneHold == graces <= 1 /\ holds <= 1

(***************************************************************************)
(* The deadline machine as a whole: nothing outlives the cap, nothing      *)
(* expires early however old the clock readings are, and a deadline gets   *)
(* one grace and one hold.                                                 *)
(***************************************************************************)
DeadlineSound ==
    /\ TTypeOK
    /\ NothingOutlivesCap
    /\ NoEarlyExpiry
    /\ OneGraceOneHold

(* A kill is final: once Terminating, no late SetTimeout, /resume or tick  *)
(* reopens the sandbox or moves its deadline.                              *)
KillIsFinal ==
    [][timeoutPhase = "Terminating"
        => UNCHANGED <<timeoutPhase, deadline>>]_timeoutVars

(* A managed sandbox ends: whatever SetTimeout calls, thaws, holds and     *)
(* resumes come, once the cap has passed the sandbox becomes and stays     *)
(* expired (pause) or is being killed (kill).                              *)
LifetimeEnds ==
    is_managed ~> [](timeoutPhase \in {"Expired", "Terminating"})
=============================================================================
