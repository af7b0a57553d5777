------------------------ MODULE HookLifecycleProofs ------------------------
(***************************************************************************)
(* Proofs about HookLifecycle for every set of identities and every bound. *)
(*                                                                         *)
(* None of the properties is inductive alone: TypeOK bounds                *)
(* resumeGeneration, which needs ResumeAnswersSuspend; PausesAreDisjoint   *)
(* needs to know that a Suspending boot has recorded its instant and is    *)
(* not marked as recovered.  IInv joins them with those two facts.         *)
(***************************************************************************)
EXTENDS HookLifecycle, TLAPS

(* What a suspend that is still unresolved has left behind. *)
SuspendIsRecorded ==
    /\ Unresolved => suspendedAt # Never
    /\ phase = "Suspending" => ~staleRecovered

IInv ==
    /\ TypeOK
    /\ ResumeAnswersSuspend
    /\ PausesAreDisjoint
    /\ SuspendIsRecorded

(* The inductive invariant holds when the agent boots. *)
LEMMA InitEstablishes == Init => IInv
  <1> SUFFICES ASSUME Init PROVE IInv
    OBVIOUS
  <1>1. runClaimed \in BOOLEAN /\ staleRecovered \in BOOLEAN /\ ~staleRecovered
    BY Zenon DEF Init
  <1> QED
    BY <1>1, BoundsAssumption
    DEF Init, IInv, TypeOK, HookPhase, Never, ResumeAnswersSuspend, Unresolved,
        PausesAreDisjoint, SuspendIsRecorded

(* Every hook, the watchdog and the clock preserve the inductive invariant. *)
LEMMA NextPreserves == IInv /\ [Next]_lifecycleVars => IInv'
  <1> SUFFICES ASSUME IInv, [Next]_lifecycleVars PROVE IInv'
    OBVIOUS
  <1> USE BoundsAssumption
      DEF IInv, TypeOK, HookPhase, Never, ResumeAnswersSuspend, Unresolved,
          PausesAreDisjoint, SuspendIsRecorded
  <1>1. CASE ready
    BY <1>1 DEF ready
  <1>2. CASE \E id \in SandboxIds \cup {NoSandbox} : run(id)
    BY <1>2 DEF run, RunIsClaim
  <1>3. CASE suspend
    <2>1. staleRecovered' \in BOOLEAN /\ ~staleRecovered'
      BY <1>3, Zenon DEF suspend
    <2> QED
      BY <1>3, <2>1 DEF suspend, SuspendChanges
  <1>4. CASE ResumeSuspended
    BY <1>4 DEF ResumeSuspended, SaturatingSub
  <1>5. CASE ResumeAfterStaleRecovery
    <2>1. staleRecovered' \in BOOLEAN /\ ~staleRecovered'
      BY <1>5, Zenon DEF ResumeAfterStaleRecovery
    <2> QED
      BY <1>5, <2>1 DEF ResumeAfterStaleRecovery
  <1>6. CASE \E g \in 1..MaxSuspends : recover_from_stale_suspend(g)
    BY <1>6 DEF recover_from_stale_suspend
  <1>7. CASE terminate
    BY <1>7 DEF terminate
  <1>8. CASE Advance
    BY <1>8 DEF Advance, stateVars
  <1>9. CASE UNCHANGED lifecycleVars
    BY <1>9 DEF lifecycleVars
  <1> QED
    BY <1>1, <1>2, <1>3, <1>4, <1>5, <1>6, <1>7, <1>8, <1>9 DEF Next, resume

(* Spec implies the inductive invariant. *)
THEOREM Inductive == Spec => []IInv
  BY InitEstablishes, NextPreserves, PTL DEF Spec

(* The generations never count past the accepted /suspend calls, every     *)
(* bump of resume_generation answers its own accepted /suspend, and the    *)
(* pauses accounted in suspended_total are disjoint and past, so that the  *)
(* saturating subtractions of running_time never saturate.                 *)
THEOREM LifecycleIsSound == Spec => []LifecycleSound
  <1>1. IInv => LifecycleSound
    BY DEF IInv, LifecycleSound
  <1> QED
    BY Inductive, <1>1, PTL

(* What running_time amounts to in a state of the invariant: the clock     *)
(* minus the recorded pauses, or its value at the /suspend while           *)
(* Suspending.                                                             *)
RunningValue ==
    IF phase = "Suspending" THEN suspendedAt - suspendedTotal
                            ELSE now - suspendedTotal

(* running_time, saturating subtractions included, is that value.          *)
LEMMA RunningTimeValue == IInv => RunningNow = RunningValue
  BY BoundsAssumption
  DEF IInv, TypeOK, Never, Unresolved, PausesAreDisjoint, SuspendIsRecorded,
      RunningNow, running_time, FrozenSince, SaturatingSub, RunningValue

(* The same fact about the state a step leads to.                          *)
LEMMA RunningTimeValueNext == (IInv => RunningNow = RunningValue)'
  BY RunningTimeValue, PTL

(* No step of the machine moves the running clock backwards.               *)
LEMMA StepNeverGoesBack ==
  ASSUME IInv, IInv', [Next]_lifecycleVars
  PROVE  RunningNow' >= RunningNow
  <1>1. RunningNow = RunningValue
    BY RunningTimeValue
  <1>2. RunningNow' = RunningValue'
    BY RunningTimeValueNext
  <1> USE BoundsAssumption, <1>1, <1>2
      DEF IInv, TypeOK, Never, Unresolved, PausesAreDisjoint, SuspendIsRecorded,
          RunningValue
  <1>3. CASE ready
    BY <1>3 DEF ready
  <1>4. CASE \E id \in SandboxIds \cup {NoSandbox} : run(id)
    BY <1>4 DEF run, RunIsClaim
  <1>5. CASE suspend
    BY <1>5 DEF suspend, SuspendChanges
  <1>6. CASE ResumeSuspended
    BY <1>6 DEF ResumeSuspended, SaturatingSub
  <1>7. CASE ResumeAfterStaleRecovery
    BY <1>7 DEF ResumeAfterStaleRecovery
  <1>8. CASE \E g \in 1..MaxSuspends : recover_from_stale_suspend(g)
    BY <1>8 DEF recover_from_stale_suspend
  <1>9. CASE terminate
    BY <1>9 DEF terminate
  <1>10. CASE Advance
    BY <1>10 DEF Advance, stateVars
  <1>11. CASE UNCHANGED lifecycleVars
    BY <1>11 DEF lifecycleVars
  <1> QED
    BY <1>3, <1>4, <1>5, <1>6, <1>7, <1>8, <1>9, <1>10, <1>11 DEF Next, resume

(* running_time never goes backwards, on any behaviour of the boot.        *)
THEOREM RunningClockNeverGoesBack == Spec => RunningClockMonotone
  <1>1. IInv /\ IInv' /\ [Next]_lifecycleVars => [RunningNow' >= RunningNow]_lifecycleVars
    BY StepNeverGoesBack
  <1> QED
    BY Inductive, <1>1, PTL DEF Spec, RunningClockMonotone

(* A pause costs no running time: the clock stands still from the accepted *)
(* /suspend to the /resume that answers it.                                *)
THEOREM PauseIsFree == Spec => PauseCostsNothing
  <1> DEFINE Pausing == /\ phase = "Suspending"
                        /\ phase' \in {"Suspending", "Resumed"}
                        /\ ~staleRecovered'
  <1>1. ASSUME IInv, IInv', [Next]_lifecycleVars, Pausing
        PROVE  RunningNow' = RunningNow
    <2>1. RunningNow = suspendedAt - suspendedTotal
      BY <1>1, RunningTimeValue DEF RunningValue
    <2>2. RunningNow' = RunningValue'
      BY <1>1, RunningTimeValueNext
    <2>3. CASE ResumeSuspended
      BY <1>1, <2>1, <2>2, <2>3, BoundsAssumption
      DEF RunningValue, ResumeSuspended, SaturatingSub, IInv, TypeOK, Never, Unresolved,
          PausesAreDisjoint, SuspendIsRecorded
    <2>4. CASE Advance
      BY <1>1, <2>1, <2>2, <2>4 DEF RunningValue, Advance, stateVars
    <2>5. CASE UNCHANGED lifecycleVars
      BY <1>1, <2>1, <2>2, <2>5 DEF RunningValue, lifecycleVars
    <2>6. ResumeSuspended \/ Advance \/ UNCHANGED lifecycleVars
      BY <1>1 DEF Next, ready, run, RunIsClaim, suspend, SuspendChanges, resume,
                  ResumeAfterStaleRecovery, recover_from_stale_suspend, terminate
    <2> QED
      BY <2>3, <2>4, <2>5, <2>6
  <1>2. IInv /\ IInv' /\ [Next]_lifecycleVars
          => [Pausing => RunningNow' = RunningNow]_lifecycleVars
    BY <1>1
  <1> QED
    BY Inductive, <1>2, PTL DEF Spec, PauseCostsNothing
=============================================================================
