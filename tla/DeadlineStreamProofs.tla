------------------------ MODULE DeadlineStreamProofs ------------------------
(***************************************************************************)
(* First the safety properties of the logical deadline (SandboxTimeout),   *)
(* for every set of timeouts and caps, every setting of the grace, the     *)
(* hold and the margins, and clock readings of any age.                    *)
(*                                                                         *)
(* The history counters make OneGraceOneHold non-inductive by itself: it   *)
(* needs that an unspent grace was never granted and an unused hold was    *)
(* never taken (HoldsBounded).   NoEarlyExpiry needs NothingOutlivesCap:   *)
(* an auto-resume at the cap expires the sandbox without looking at the    *)
(* deadline, which has passed only because it is not past the cap.         *)
(*                                                                         *)
(* Then the handle of an output stream (StreamHandle), for any number of   *)
(* events, any size of the agent's ring and any number of resumes: it is   *)
(* sound, and it implements OutputLog.                                     *)
(*                                                                         *)
(* GapsStartEvicted speaks of what was read; what makes it inductive is    *)
(* where the next event will be read from, in the open stream or in one    *)
(* whose opening is awaited (Position), and that eviction never goes back. *)
(***************************************************************************)
EXTENDS SandboxTimeout, StreamHandle, TLAPS

(* The history counters agree with the flags the code keeps: an unspent    *)
(* grace was not granted, an unused hold was not taken.                    *)
HoldsBounded ==
    /\ graceSpent => graces <= 1
    /\ ~graceSpent => graces = 0
    /\ hold = "Unused" => holds = 0
    /\ holds <= 1

TIInv == TTypeOK /\ NothingOutlivesCap /\ NoEarlyExpiry /\ HoldsBounded

(* The invariant holds while no deadline is installed.                     *)
LEMMA TInitEstablishes == TInit => TIInv
  <1> SUFFICES ASSUME TInit PROVE TIInv
    OBVIOUS
  <1>1. graceSpent \in BOOLEAN /\ ~graceSpent /\ autoResume \in BOOLEAN
    BY Zenon DEF TInit
  <1>2. TTypeOK
    BY <1>1, TimeoutBoundsAssumption
       DEF TInit, TTypeOK, Phase, Hold, TimeoutAction
  <1>3. NothingOutlivesCap /\ NoEarlyExpiry /\ HoldsBounded
    BY <1>1 DEF TInit, NothingOutlivesCap, NoEarlyExpiry, HoldsBounded,
                is_managed
  <1> QED
    BY <1>2, <1>3 DEF TIInv

(* Every reading is an instant that has passed. *)
LEMMA ReadingIsPast ==
  ASSUME TTypeOK, NEW t \in Readings
  PROVE  t \in Nat /\ t <= now
  BY TimeoutBoundsAssumption DEF Readings, TTypeOK

(* install: the deadline is cut at the cap, grace and hold start unused.   *)
LEMMA InstallPreserves ==
  ASSUME TIInv, NEW t \in Readings, NEW spec \in LifecycleSpecs,
         install(spec, t)
  PROVE  TIInv'
  <1>1. t \in Nat /\ t <= now
    BY ReadingIsPast DEF TIInv
  <1>2. /\ spec.timeout \in Nat
        /\ spec.cap \in Nat
        /\ spec.cap > CapMargin
        /\ CapMargin \in Nat
        /\ spec.on_timeout \in TimeoutAction
        /\ spec.auto_resume \in BOOLEAN
    BY TimeoutsAssumption DEF LifecycleSpecs
  <1>3. graceSpent' \in BOOLEAN /\ ~graceSpent' /\ graces' = 0
        /\ hold' = "Unused" /\ holds' = 0
    BY Zenon DEF install, move_deadline
  <1>4. TTypeOK'
    BY <1>1, <1>2, <1>3, TimeoutBoundsAssumption
       DEF TIInv, TTypeOK, install, move_deadline, Least, Phase, Hold
  <1>5. NothingOutlivesCap' /\ NoEarlyExpiry'
    BY <1>1, <1>2
       DEF TIInv, TTypeOK, install, move_deadline, Least,
           NothingOutlivesCap, NoEarlyExpiry, is_managed
  <1>6. HoldsBounded'
    BY <1>3 DEF HoldsBounded
  <1> QED
    BY <1>4, <1>5, <1>6 DEF TIInv

(* SetTimeout, whether or not it moves the deadline.                       *)
LEMMA SetTimeoutPreserves ==
  ASSUME TIInv, NEW t \in Readings, NEW mode \in TimeoutMode,
         NEW r \in Timeouts, set_timeout(t, mode, r)
  PROVE  TIInv'
  <1> DEFINE d == NewDeadline(t, mode, r)
  <1>1. t \in Nat /\ t <= now /\ r \in Nat
    BY ReadingIsPast, TimeoutsAssumption DEF TIInv
  <1>2. d \in Nat /\ d <= cap /\ timeoutPhase \in Phase
        /\ timeoutPhase # "Unmanaged" /\ timeoutPhase' = "Active"
    BY <1>1 DEF TIInv, TTypeOK, set_timeout, NewDeadline, WithinCap, Greatest,
                Settable, Reopen, NothingOutlivesCap, is_managed
  <1>3. CASE d # deadline
    <2>1. /\ deadline' = d /\ timeout' = r /\ extensions' = extensions + 1
          /\ extensions < MaxExtensions
          /\ hold' = "Unused" /\ holdUntil' = holdUntil
          /\ graceSpent' \in BOOLEAN /\ ~graceSpent'
          /\ graceUntil' = graceUntil /\ holds' = 0 /\ graces' = 0
          /\ cap' = cap /\ onTimeout' = onTimeout /\ autoResume' = autoResume
          /\ now' = now
      BY <1>3, Zenon DEF set_timeout, move_deadline, policyVars
    <2>2. TTypeOK'
      BY <1>1, <1>2, <2>1, TimeoutBoundsAssumption
         DEF TIInv, TTypeOK, Phase, Hold
    <2>3. NothingOutlivesCap' /\ NoEarlyExpiry' /\ HoldsBounded'
      BY <1>2, <2>1 DEF NothingOutlivesCap, NoEarlyExpiry, HoldsBounded,
                        is_managed
    <2> QED
      BY <2>2, <2>3 DEF TIInv
  <1>4. CASE d = deadline
    <2>1. UNCHANGED <<deadline, timeout, extensions, hold, holdUntil, holds,
                      graceSpent, graceUntil, graces, cap, onTimeout,
                      autoResume, now>>
      BY <1>4 DEF set_timeout, holdVars, graceVars, policyVars
    <2> QED
      BY <1>2, <2>1
         DEF TIInv, TTypeOK, NothingOutlivesCap, NoEarlyExpiry, HoldsBounded,
             is_managed, Phase
  <1> QED
    BY <1>3, <1>4

(* The grace that a tick or a /resume past the deadline opens. *)
LEMMA GracePreserves ==
  ASSUME TIInv, NEW t \in Readings, open_grace(t),
         timeoutPhase # "Unmanaged", deadline <= now,
         UNCHANGED <<timeout, deadline, policyVars, extensions, holdVars, now>>
  PROVE  TIInv'
  <1>1. t \in Nat /\ t <= now
    BY ReadingIsPast DEF TIInv
  <1>2. /\ UNCHANGED <<timeout, deadline, cap, onTimeout, autoResume,
                       extensions, hold, holdUntil, holds, now>>
        /\ timeoutPhase' = "ResumeGrace"
        /\ graceUntil' = Least(t + ResumeGrace, cap)
        /\ graces' = graces + 1
    BY DEF open_grace, policyVars, holdVars
  <1>3. graceSpent' \in BOOLEAN /\ graceSpent' /\ ~graceSpent
    BY Zenon DEF open_grace, CanOpenGrace
  <1>4. graceUntil' \in Nat /\ graceUntil' <= cap
    BY <1>1, <1>2, SettingsAssumption DEF Least, TIInv, TTypeOK
  <1>5. TTypeOK'
    BY <1>2, <1>3, <1>4 DEF TIInv, TTypeOK, Phase
  <1>6. NothingOutlivesCap' /\ NoEarlyExpiry'
    BY <1>2, <1>4 DEF TIInv, NothingOutlivesCap, NoEarlyExpiry, is_managed
  <1>7. HoldsBounded'
    BY <1>2, <1>3 DEF TIInv, HoldsBounded
  <1> QED
    BY <1>5, <1>6, <1>7 DEF TIInv

(* The four outcomes of a tick: gate, hold, act, act after the grace.      *)
LEMMA TickPreserves ==
  ASSUME TIInv, NEW t \in Readings, NEW suspending \in BOOLEAN,
         NEW thawed \in BOOLEAN, tick(t, suspending, thawed)
  PROVE  TIInv'
  <1>1. t \in Nat /\ t <= now
    BY ReadingIsPast DEF TIInv
  <1>2. CASE TickGate(t, thawed)
    <2>1. timeoutPhase # "Unmanaged" /\ deadline <= now
      BY <1>1, <1>2 DEF TickGate, DeadlinePassed, TIInv, TTypeOK
    <2> QED
      BY <1>2, <2>1, GracePreserves DEF TickGate
  <1>3. CASE TickHold(t, suspending, thawed)
    <2>1. UNCHANGED <<timeoutPhase, timeout, deadline, cap, onTimeout,
                      autoResume, extensions, graceSpent, graceUntil, graces,
                      now>>
      BY <1>3 DEF TickHold, policyVars, graceVars
    <2>2. /\ hold' \in Hold /\ holdUntil' \in Nat
          /\ hold' = "Unused" => holds' = 0
          /\ holds' \in Nat /\ holds' <= 1
      BY <1>1, <1>3, SettingsAssumption
         DEF TickHold, TakeHold, HoldsForSuspend, holdVars, Hold, TIInv, TTypeOK,
             HoldsBounded
    <2> QED
      BY <2>1, <2>2 DEF TIInv, TTypeOK, NothingOutlivesCap, NoEarlyExpiry,
                        HoldsBounded, is_managed
  <1>4. CASE TickAct(t, suspending, thawed)
    <2>1. UNCHANGED <<timeout, deadline, cap, onTimeout, autoResume,
                      extensions, graceSpent, graceUntil, graces, holdUntil,
                      holds, now>>
      BY <1>4 DEF TickAct, SpendHold, policyVars, graceVars
    <2>2. /\ hold' \in Hold
          /\ hold' = "Unused" => hold = "Unused"
      BY <1>4 DEF TickAct, SpendHold, Hold, TIInv, TTypeOK
    <2>3. /\ timeoutPhase' \in {"Expired", "Terminating"}
          /\ timeoutPhase # "Unmanaged"
          /\ deadline <= now
      BY <1>1, <1>4 DEF TickAct, PhaseOfPolicy, DeadlinePassed, TIInv, TTypeOK
    <2> QED
      BY <2>1, <2>2, <2>3
         DEF TIInv, TTypeOK, NothingOutlivesCap, NoEarlyExpiry, HoldsBounded,
             is_managed, Phase
  <1>5. CASE TickAfterGrace(t)
    BY <1>5 DEF TickAfterGrace, PhaseOfPolicy, policyVars, holdVars, graceVars,
                TIInv, TTypeOK, NothingOutlivesCap, NoEarlyExpiry,
                HoldsBounded, is_managed, Phase
  <1> QED
    BY <1>2, <1>3, <1>4, <1>5 DEF tick

(* /resume past the deadline: grace, auto-resume, or the cap has come.     *)
LEMMA ResumedPreserves ==
  ASSUME TIInv, NEW t \in Readings, resumed(t)
  PROVE  TIInv'
  <1>1. t \in Nat /\ t <= now
    BY ReadingIsPast DEF TIInv
  <1>2. ResumedPastDeadline(t) /\ timeoutPhase # "Unmanaged" /\ deadline <= now
    BY <1>1 DEF resumed, ResumedAuto, ResumedGrace, ResumedPastDeadline,
                NoEarlyExpiry, TIInv, TTypeOK
  <1>3. CASE ResumedGrace(t)
    BY <1>2, <1>3, GracePreserves DEF ResumedGrace
  <1>4. CASE ResumedAuto(t) /\ t >= cap
    <2>1. /\ timeoutPhase' = "Expired"
          /\ UNCHANGED <<timeout, deadline, hold, holdUntil, holds, graceSpent,
                         graceUntil, graces, cap, onTimeout, autoResume,
                         extensions, now>>
      BY <1>4 DEF ResumedAuto, apply_auto_resume, policyVars, holdVars,
                  graceVars
    <2> QED
      BY <1>2, <2>1
         DEF TIInv, TTypeOK, NothingOutlivesCap, NoEarlyExpiry, HoldsBounded,
             is_managed, Phase
  <1>5. CASE ResumedAuto(t) /\ ~(t >= cap)
    <2>1. /\ timeoutPhase' = "Active"
          /\ timeout' = Greatest(timeout, AutoResumeMin)
          /\ deadline' = Least(t + timeout', cap)
          /\ hold' = "Unused" /\ holdUntil' = holdUntil /\ holds' = 0
          /\ graceUntil' = graceUntil /\ graces' = 0
          /\ cap' = cap /\ onTimeout' = onTimeout /\ autoResume' = autoResume
          /\ extensions' = extensions /\ now' = now
      BY <1>5 DEF ResumedAuto, apply_auto_resume, move_deadline, policyVars
    <2>2. graceSpent' \in BOOLEAN /\ ~graceSpent'
      BY <1>5, Zenon DEF ResumedAuto, apply_auto_resume, move_deadline
    <2>3. timeout' \in Nat
      BY <2>1, SettingsAssumption DEF Greatest, TIInv, TTypeOK
    <2>4. deadline' \in Nat /\ deadline' <= cap
      BY <1>1, <2>1, <2>3 DEF Least, TIInv, TTypeOK
    <2> QED
      BY <2>1, <2>2, <2>3, <2>4
         DEF TIInv, TTypeOK, NothingOutlivesCap, NoEarlyExpiry, HoldsBounded,
             is_managed, Phase, Hold
  <1> QED
    BY <1>3, <1>4, <1>5 DEF resumed

(* Every step of the deadline machine preserves the invariant.             *)
LEMMA TNextPreserves == TIInv /\ [TNext]_timeoutVars => TIInv'
  <1> SUFFICES ASSUME TIInv, [TNext]_timeoutVars
               PROVE  TIInv'
    OBVIOUS
  <1>1. ASSUME NEW t \in Readings, NEW spec \in LifecycleSpecs,
               install(spec, t)
        PROVE  TIInv'
    BY <1>1, InstallPreserves
  <1>2. ASSUME NEW t \in Readings, NEW mode \in TimeoutMode, NEW r \in Timeouts,
               set_timeout(t, mode, r)
        PROVE  TIInv'
    BY <1>2, SetTimeoutPreserves
  <1>3. CASE Tick
    BY <1>3, TickPreserves DEF Tick
  <1>4. ASSUME NEW t \in Readings, resumed(t)
        PROVE  TIInv'
    BY <1>4, ResumedPreserves
  <1>5. CASE Advance
    BY <1>5, TimeoutBoundsAssumption
       DEF Advance, policyVars, holdVars, graceVars, TIInv, TTypeOK,
           NothingOutlivesCap, NoEarlyExpiry, HoldsBounded, is_managed
  <1>6. CASE UNCHANGED timeoutVars
    BY <1>6 DEF timeoutVars, TIInv, TTypeOK, NothingOutlivesCap,
                NoEarlyExpiry, HoldsBounded, is_managed
  <1> QED
    BY <1>1, <1>2, <1>3, <1>4, <1>5, <1>6 DEF TNext

(* The inductive invariant of the deadline machine holds in every state. *)
THEOREM TimeoutInductive == TSpec => []TIInv
  BY TInitEstablishes, TNextPreserves, PTL DEF TSpec

(* No SetTimeout, auto-resume or grace reaches past the cap, a sandbox is  *)
(* gated only after the deadline it was last given, and a deadline gets    *)
(* one grace and one hold, for clock readings of any age.                  *)
THEOREM DeadlineIsSound == TSpec => []DeadlineSound
  <1>1. TIInv => DeadlineSound
    BY DEF TIInv, TTypeOK, HoldsBounded, OneGraceOneHold, DeadlineSound
  <1> QED
    BY <1>1, TimeoutInductive, PTL

(* Terminating is absorbing: no operation of the machine leaves it. *)
THEOREM KillNeverTakenBack == TSpec => KillIsFinal
  <1>1. [TNext]_timeoutVars
          => [timeoutPhase = "Terminating"
                => UNCHANGED <<timeoutPhase, deadline>>]_timeoutVars
    <2> SUFFICES ASSUME TNext, timeoutPhase = "Terminating"
                 PROVE  UNCHANGED <<timeoutPhase, deadline>>
      OBVIOUS
    <2>1. ASSUME NEW t, NEW spec, install(spec, t) PROVE FALSE
      BY <2>1 DEF install
    <2>2. ASSUME NEW t, NEW mode, NEW r, set_timeout(t, mode, r) PROVE FALSE
      BY <2>2 DEF set_timeout, Settable
    <2>3. ASSUME NEW t, NEW suspending, NEW thawed, tick(t, suspending, thawed)
          PROVE  FALSE
      BY <2>3 DEF tick, TickGate, TickHold, TickAct, TickAfterGrace,
                  DeadlinePassed
    <2>4. ASSUME NEW t, resumed(t) PROVE FALSE
      BY <2>4 DEF resumed, ResumedAuto, ResumedGrace, ResumedPastDeadline
    <2>5. CASE Advance
      BY <2>5 DEF Advance
    <2> QED
      BY <2>1, <2>2, <2>3, <2>4, <2>5 DEF TNext, Tick
  <1> QED
    BY <1>1, PTL DEF TSpec, KillIsFinal

-----------------------------------------------------------------------------
Terminals == {"command", "pty"}

(* A stream to be read from p continues after the last event read: at the  *)
(* next one, or, for a command or a terminal, past evicted ones.           *)
Position(p) ==
    /\ lastSeq < p /\ p <= emitted + 1
    /\ kind = "code" => p = lastSeq + 1
    /\ kind \in Terminals /\ p # lastSeq + 1 => lastSeq + 1 < oldest

(* What was read came in order and was produced; the events of a code      *)
(* execution are exactly the first ones.                                   *)
ReadSoFar ==
    /\ lastSeq \in Nat /\ lastSeq <= emitted
    /\ Len(seen) <= lastSeq
    /\ kind = "code" => lastSeq = Len(seen)

(* Where the loop stands tells which stream it has.                        *)
LoopState ==
    /\ opened # 0 => pc \in {"reading", "done"} /\ opening = 0 /\ Position(opened)
    /\ opening # 0 => pc \in {"connecting", "live"} /\ Position(opening)
    /\ pc = "live" => kind \in Terminals /\ lastSeq + 1 < oldest
    /\ kind = "code" => ~stopped
    /\ vm # "running" => gen < MaxGen

IInv == TypeOK /\ ReadSoFar /\ LoopState /\ GapsStartEvicted /\ NoOrphanStream

(* The Boolean part of TypeOK. *)
Flags == /\ ended \in BOOLEAN /\ forgotten \in BOOLEAN
         /\ stopped \in BOOLEAN /\ expired \in BOOLEAN

(* Eviction never goes back: emitted' is emitted, or one more. *)
LEMMA OldestGrows ==
  ASSUME emitted \in Nat, emitted' = emitted \/ emitted' = emitted + 1
  PROVE  oldest \in Nat /\ oldest' \in Nat /\ oldest <= oldest'
  <1>1. Retained \in Nat /\ Retained > 0
    BY StreamAssumption
  <1>2. CASE emitted' = emitted
    <2>1. oldest' = oldest /\ oldest \in Nat
      BY <1>1, <1>2 DEF oldest
    <2> QED
      BY <2>1
  <1>3. CASE emitted' = emitted + 1
    BY <1>1, <1>3 DEF oldest
  <1> QED
    BY <1>2, <1>3

(* Steps that hand nothing to the caller leave what was read as it is, and *)
(* a position in the stream stays one.                                     *)
LEMMA NothingRead ==
  ASSUME IInv, UNCHANGED <<seen, kind>>,
         emitted' = emitted \/ emitted' = emitted + 1
  PROVE  /\ lastSeq' = lastSeq
         /\ oldest <= oldest'
         /\ ReadSoFar' /\ GapsStartEvicted'
         /\ \A p \in Nat : Position(p) => Position(p)'
  <1>1. lastSeq' = lastSeq
    BY DEF lastSeq
  <1>2. oldest \in Nat /\ oldest' \in Nat /\ oldest <= oldest'
    BY OldestGrows DEF IInv, TypeOK
  <1>3. ReadSoFar'
    BY <1>1 DEF IInv, ReadSoFar, TypeOK
  <1>4. GapsStartEvicted'
    <2>1. ASSUME NEW i \in 1 .. Len(seen)
          PROVE  (IF i = 1 THEN 0 ELSE seen[i - 1]) \in Nat
      <3>1. seen \in Seq(1 .. MaxSeq) /\ MaxSeq \in Nat
        BY StreamAssumption DEF IInv, TypeOK
      <3>2. CASE i # 1
        <4>1. i - 1 \in 1 .. Len(seen)
          BY <2>1, <3>1, <3>2
        <4>2. seen[i - 1] \in 1 .. MaxSeq
          BY <3>1, <4>1
        <4> QED
          BY <3>1, <3>2, <4>2
      <3> QED
        BY <3>2
    <2> QED
      BY <1>2, <2>1 DEF IInv, GapsStartEvicted, TypeOK
  <1>5. ASSUME NEW p \in Nat, Position(p)
        PROVE  Position(p)'
    BY <1>1, <1>2, <1>5 DEF IInv, Position, ReadSoFar, TypeOK
  <1> QED
    BY <1>1, <1>2, <1>3, <1>4, <1>5

(* Ending a handle preserves the invariant. *)
LEMMA EndsPreserves ==
  ASSUME IInv, NEW how \in {"complete", "failed", "left"}, EndsAs(how)
  PROVE  IInv'
  <1>1. UNCHANGED <<seen, kind, emitted>> /\ emitted \in Nat
    BY DEF EndsAs, agentVars, IInv, TypeOK
  <1>2. ReadSoFar' /\ GapsStartEvicted'
    BY <1>1, NothingRead
  <1>3. TypeOK'
    <2>1. UNCHANGED <<kind, vm, gen, emitted, ended, forgotten, seen, reason, generation,
                      futile, stopped, expired>>
      BY DEF EndsAs, agentVars
    <2>2. Flags'
      BY <2>1, Zenon DEF Flags, IInv, TypeOK
    <2>3. /\ pc' \in {"reading", "reconnecting", "connecting", "live", "done"}
          /\ opened' \in 0 .. MaxSeq + 1 /\ opening' \in 0 .. MaxSeq + 1
          /\ outcome' \in {"none", "complete", "failed", "left"}
          /\ outcome' = "none" <=> pc' # "done"
          /\ pc' = "reading" => opened' # 0 \/ stopped'
      BY StreamAssumption DEF EndsAs
    <2> QED
      BY <2>1, <2>2, <2>3 DEF IInv, TypeOK, Flags
  <1>4. LoopState' /\ NoOrphanStream'
    BY DEF EndsAs, agentVars, IInv, LoopState, NoOrphanStream
  <1> QED
    BY <1>2, <1>3, <1>4 DEF IInv

(* The agent and its VM: output grows, nothing else a handle looks at      *)
(* changes but the VM.                                                     *)
LEMMA AgentPreserves ==
  ASSUME IInv, Emit \/ ProcessEnds \/ Forget \/ MoveVM \/ DeadlinePasses
  PROVE  IInv'
  <1> USE StreamAssumption
  <1>1. /\ UNCHANGED <<kind, clientVars, stopped>>
        /\ emitted' = emitted \/ emitted' = emitted + 1
    BY DEF Emit, ProcessEnds, Forget, MoveVM, DeadlinePasses, agentVars
  <1>2. /\ ReadSoFar' /\ GapsStartEvicted' /\ lastSeq' = lastSeq
        /\ \A p \in Nat : Position(p) => Position(p)'
    BY <1>1, NothingRead DEF clientVars
  <1>3. lastSeq + 1 < oldest => lastSeq' + 1 < oldest'
    <2>1. oldest \in Nat /\ oldest' \in Nat /\ oldest <= oldest'
      BY <1>1, OldestGrows DEF IInv, TypeOK
    <2> QED
      BY <1>2, <2>1 DEF IInv, ReadSoFar
  <1>4. TypeOK' /\ (vm' # "running" => gen' < MaxGen)
    <2>1. Flags'
      BY <1>1, Zenon DEF Flags, IInv, TypeOK, Emit, ProcessEnds, Forget, MoveVM, DeadlinePasses, agentVars
    <2>2. emitted' \in 0 .. MaxSeq
      BY <1>1 DEF IInv, TypeOK, Emit, ProcessEnds, Forget, MoveVM, DeadlinePasses, agentVars
    <2>3. vm' \in {"running", "suspending", "frozen"} /\ gen' \in 0 .. MaxGen
          /\ (vm' # "running" => gen' < MaxGen)
      BY DEF IInv, TypeOK, LoopState, Emit, ProcessEnds, Forget, MoveVM, DeadlinePasses, agentVars
    <2> QED
      BY <1>1, <2>1, <2>2, <2>3 DEF IInv, TypeOK, Flags, clientVars
  <1>5. LoopState'
    <2>1. UNCHANGED <<opened, opening, pc, kind>> /\ opened \in Nat /\ opening \in Nat
      BY <1>1 DEF clientVars, IInv, TypeOK
    <2>2. kind' = "code" => ~stopped'
      BY <1>1, Zenon DEF IInv, LoopState
    <2>3. opened # 0 => Position(opened)'
      BY <1>2, <2>1 DEF IInv, LoopState
    <2>4. opening # 0 => Position(opening)'
      BY <1>2, <2>1 DEF IInv, LoopState
    <2> QED
      BY <1>3, <1>4, <2>1, <2>2, <2>3, <2>4 DEF IInv, LoopState, Position
  <1>6. NoOrphanStream'
    BY <1>1, Zenon DEF IInv, NoOrphanStream, clientVars
  <1> QED
    BY <1>2, <1>4, <1>5, <1>6 DEF IInv

(* feed: the event that was next becomes the last one read. *)
LEMMA FeedPreserves ==
  ASSUME IInv, feed
  PROVE  IInv'
  <1> USE StreamAssumption
  <1>1. /\ opened \in 1 .. emitted /\ emitted \in 0 .. MaxSeq
        /\ seen \in Seq(1 .. MaxSeq) /\ Position(opened) /\ opening = 0
        /\ pc = "reading" /\ opened \in 1 .. MaxSeq
    BY DEF feed, reading, IInv, TypeOK, LoopState
  <1>2. /\ seen' = Append(seen, opened) /\ opened' = opened + 1
        /\ UNCHANGED <<kind, vm, gen, emitted, ended, forgotten, pc, opening, reason, generation,
                       futile, outcome, stopped, expired>>
    BY DEF feed, agentVars
  <1>3. /\ seen' \in Seq(1 .. MaxSeq) /\ Len(seen') = Len(seen) + 1
        /\ seen'[Len(seen')] = opened /\ seen' # <<>>
        /\ \A i \in 1 .. Len(seen) : seen'[i] = seen[i]
    BY <1>1, <1>2
  <1>4. lastSeq' = opened /\ lastSeq \in Nat /\ oldest' = oldest
    BY <1>2, <1>3 DEF lastSeq, oldest, IInv, ReadSoFar
  <1>5. ReadSoFar' /\ Len(seen') <= MaxSeq
    BY <1>1, <1>2, <1>3, <1>4 DEF ReadSoFar, IInv, Position
  <1>6. TypeOK'
    <2>1. Flags'
      BY <1>2, Zenon DEF Flags, IInv, TypeOK
    <2> QED
      BY <1>1, <1>2, <1>3, <1>5, <2>1 DEF IInv, TypeOK, Flags
  <1>7. Position(opened)'
    BY <1>1, <1>2, <1>4 DEF Position
  <1>8. LoopState'
    BY <1>1, <1>2, <1>4, <1>7 DEF LoopState, IInv, Position
  <1>9. GapsStartEvicted'
    <2> SUFFICES ASSUME kind \in Terminals, NEW i \in 1 .. Len(seen'),
                        NEW before, before = IF i = 1 THEN 0 ELSE seen'[i - 1],
                        seen'[i] # before + 1
                 PROVE  before + 1 < oldest
      BY <1>2, <1>4 DEF GapsStartEvicted, Terminals
    <2>1. CASE i \in 1 .. Len(seen)
      <3>1. before = IF i = 1 THEN 0 ELSE seen[i - 1]
        <4>1. CASE i = 1
          BY <4>1
        <4>2. CASE i # 1
          <5>1. i - 1 \in 1 .. Len(seen)
            BY <1>1, <2>1, <4>2
          <5> QED
            BY <1>3, <4>2, <5>1
        <4> QED
          BY <4>1, <4>2
      <3> QED
        BY <1>3, <2>1, <3>1 DEF IInv, GapsStartEvicted, Terminals
    <2>2. CASE i = Len(seen) + 1
      <3>1. before = lastSeq
        <4>1. CASE i = 1
          <5>1. seen = <<>>
            BY <1>1, <2>2, <4>1
          <5> QED
            BY <4>1, <5>1 DEF lastSeq
        <4>2. CASE i # 1
          <5>1. Len(seen) \in 1 .. Len(seen) /\ seen # <<>> /\ i - 1 = Len(seen)
            BY <1>1, <2>2, <4>2
          <5>2. seen'[i - 1] = seen[Len(seen)]
            BY <1>3, <5>1
          <5> QED
            BY <4>2, <5>1, <5>2 DEF lastSeq
        <4> QED
          BY <4>1, <4>2
      <3> QED
        BY <1>1, <1>3, <2>2, <3>1 DEF Position
    <2> QED
      BY <1>1, <1>3, <2>1, <2>2
  <1>10. NoOrphanStream'
    BY <1>1, <1>2 DEF NoOrphanStream
  <1> QED
    BY <1>5, <1>6, <1>8, <1>9, <1>10 DEF IInv

(* The steps of the loop that neither read nor end the handle: the cut,    *)
(* the reconnection, the new opening and disconnect().  They keep what was *)
(* read, so only the types and LoopState are to be shown.                  *)
LEMMA LoopStepPreserves ==
  ASSUME IInv, UNCHANGED <<kind, agentVars, seen>>,
         TypeOK', NoOrphanStream',
         opened' # 0 => pc' \in {"reading", "done"} /\ opening' = 0 /\ Position(opened'),
         opening' # 0 => pc' \in {"connecting", "live"} /\ Position(opening'),
         pc' = "live" => kind \in Terminals /\ lastSeq + 1 < oldest,
         kind = "code" => ~stopped'
  PROVE  IInv'
  <1>1. ReadSoFar' /\ GapsStartEvicted' /\ lastSeq' = lastSeq
    BY NothingRead DEF agentVars
  <1>2. oldest' = oldest
    BY DEF oldest, agentVars
  <1>3. LoopState'
    <2>1. kind' = "code" => ~stopped'
      BY Zenon DEF agentVars
    <2>2. vm' # "running" => gen' < MaxGen
      BY DEF agentVars, IInv, LoopState
    <2>3. pc' = "live" => kind' \in Terminals /\ lastSeq' + 1 < oldest'
      BY <1>1, <1>2
    <2>4. /\ opened' # 0 => Position(opened)'
          /\ opening' # 0 => Position(opening)'
      BY <1>1, <1>2 DEF Position, agentVars
    <2> QED
      BY <2>1, <2>2, <2>3, <2>4 DEF LoopState
  <1> QED
    BY <1>1, <1>3 DEF IInv

(* disconnect() and stop(): the stream in hand is aborted.                 *)
LEMMA DisconnectPreserves ==
  ASSUME IInv, disconnect
  PROVE  IInv'
  <1>1. /\ kind # "code" /\ pc # "done" /\ opened' = 0
        /\ UNCHANGED <<kind, agentVars, pc, opening, seen, reason, generation, futile, outcome,
                       expired>>
    BY DEF disconnect
  <1>2. TypeOK'
    <2>1. Flags' /\ stopped'
      BY <1>1, Zenon DEF disconnect, Flags, IInv, TypeOK, agentVars
    <2> QED
      BY <1>1, <2>1, StreamAssumption DEF IInv, TypeOK, Flags, agentVars
  <1>3. NoOrphanStream'
    BY <1>1 DEF NoOrphanStream
  <1> QED
    BY <1>1, <1>2, <1>3, LoopStepPreserves DEF IInv, LoopState

(* A stream that may be attached again is cut. *)
LEMMA CutPreserves ==
  ASSUME IInv, cut
  PROVE  IInv'
  <1>1. CASE EndsAs("failed")
    BY <1>1, EndsPreserves
  <1>2. CASE /\ reading /\ reason' \in {"reset", "suspending"}
             /\ opened' = 0 /\ pc' = "reconnecting"
             /\ UNCHANGED <<kind, agentVars, opening, seen, generation, futile, outcome, stopped,
                            expired>>
    <2>1. TypeOK'
      <3>1. Flags'
        BY <1>2, Zenon DEF Flags, IInv, TypeOK, agentVars
      <3>2. pc = "reading"
        BY <1>2 DEF reading
      <3> QED
        BY <1>2, <3>1, <3>2, StreamAssumption DEF IInv, TypeOK, Flags, agentVars
    <2>2. opening' = 0 /\ NoOrphanStream' /\ (kind = "code" => ~stopped')
      BY <1>2 DEF IInv, LoopState, reading, NoOrphanStream
    <2> QED
      BY <1>2, <2>1, <2>2, LoopStepPreserves
  <1> QED
    BY <1>1, <1>2 DEF cut

(* core.reconnect() came back. *)
LEMMA ReconnectedPreserves ==
  ASSUME IInv, reconnected
  PROVE  IInv'
  <1> USE StreamAssumption
  <1>1. /\ pc = "reconnecting" /\ generation' = gen
        /\ UNCHANGED <<kind, agentVars, opened, opening, seen, reason, stopped, expired>>
    BY DEF reconnected
  <1>2. opened = 0 /\ opening = 0
    BY <1>1 DEF IInv, LoopState
  <1>3. \/ pc' = "connecting" /\ outcome' = outcome
        \/ pc' = "done" /\ outcome' \in {"left", "failed"}
    BY DEF reconnected
  <1>4. futile' \in 0 .. MaxFutile
    BY DEF reconnected, allows, spend, IInv, TypeOK
  <1>5. TypeOK'
    <2>1. Flags'
      BY <1>1, Zenon DEF Flags, IInv, TypeOK, agentVars
    <2> QED
      BY <1>1, <1>2, <1>3, <1>4, <2>1 DEF IInv, TypeOK, Flags, agentVars
  <1>6. NoOrphanStream'
    BY <1>1, <1>2 DEF NoOrphanStream
  <1>7. kind = "code" => ~stopped'
    BY <1>1, Zenon DEF IInv, LoopState
  <1> QED
    BY <1>1, <1>2, <1>3, <1>4, <1>5, <1>6, <1>7, LoopStepPreserves

(* An opening is awaited, at a position after what was read. *)
LEMMA OpensPreserves ==
  ASSUME IInv, pc \in {"connecting", "live"}, NEW next \in Nat, Position(next), Opens(next)
  PROVE  IInv'
  <1>1. /\ opening' = next
        /\ UNCHANGED <<kind, agentVars, pc, opened, seen, reason, generation, futile, outcome, stopped,
                       expired>>
    BY DEF Opens
  <1>2. opened = 0
    BY DEF IInv, LoopState
  <1>3. TypeOK'
    <2>1. Flags'
      BY <1>1, Zenon DEF Flags, IInv, TypeOK, agentVars
    <2>2. next \in 0 .. MaxSeq + 1
      BY StreamAssumption DEF Position, IInv, TypeOK
    <2> QED
      BY <1>1, <2>1, <2>2, StreamAssumption DEF IInv, TypeOK, Flags, agentVars
  <1>4. NoOrphanStream'
    BY <1>1, <1>2 DEF NoOrphanStream
  <1>5. kind = "code" => ~stopped'
    BY <1>1, Zenon DEF IInv, LoopState
  <1> QED
    BY <1>1, <1>2, <1>3, <1>4, <1>5, LoopStepPreserves DEF IInv, LoopState

(* Connect at lastSeq + 1, at the live output, or the watch again. *)
LEMMA ResubscribePreserves ==
  ASSUME IInv, resubscribe \/ resubscribeFromLive \/ reissue
  PROVE  IInv'
  <1> USE StreamAssumption
  <1>1. lastSeq \in Nat /\ lastSeq <= emitted /\ emitted \in Nat /\ oldest \in Nat
    BY OldestGrows DEF IInv, ReadSoFar, TypeOK, oldest
  <1>2. CASE EndsAs("failed")
    BY <1>2, EndsPreserves
  <1>3. CASE /\ pc = "connecting" /\ lastSeq + 1 \in oldest .. emitted + 1
             /\ Opens(lastSeq + 1)
    <2>1. Position(lastSeq + 1)
      BY <1>1 DEF Position
    <2> QED
      BY <1>1, <1>3, <2>1, OpensPreserves
  <1>4. CASE /\ pc = "connecting" /\ opening = 0 /\ kind \in Terminals
             /\ lastSeq + 1 \notin oldest .. emitted + 1 /\ pc' = "live"
             /\ UNCHANGED <<kind, agentVars, opened, opening, seen, reason, generation, futile,
                            outcome, stopped, expired>>
    <2>1. lastSeq + 1 < oldest
      BY <1>1, <1>4
    <2>2. opened = 0
      BY <1>4 DEF IInv, LoopState
    <2>3. TypeOK'
      <3>1. Flags'
        BY <1>4, Zenon DEF Flags, IInv, TypeOK, agentVars
      <3> QED
        BY <1>4, <3>1 DEF IInv, TypeOK, Flags, agentVars
    <2>4. NoOrphanStream'
      BY <1>4 DEF NoOrphanStream
    <2> QED
      BY <1>4, <2>1, <2>2, <2>3, <2>4, LoopStepPreserves DEF Terminals
  <1>5. CASE /\ pc = "live" \/ (pc = "connecting" /\ kind = "watch")
             /\ Opens(emitted + 1)
    <2>1. Position(emitted + 1)
      BY <1>1, <1>5 DEF Position, IInv, LoopState, Terminals
    <2> QED
      BY <1>1, <1>5, <2>1, OpensPreserves
  <1>6. CASE resubscribe
    BY <1>2, <1>3, <1>4, <1>6 DEF resubscribe, resubscribeFromSeq, Numbered, Terminals
  <1>7. CASE resubscribeFromLive
    BY <1>2, <1>5, <1>7 DEF resubscribeFromLive
  <1>8. CASE reissue
    BY <1>5, <1>8 DEF reissue
  <1> QED
    BY <1>6, <1>7, <1>8

(* The awaited opening returns. *)
LEMMA AttachedPreserves ==
  ASSUME IInv, attached
  PROVE  IInv'
  <1> USE StreamAssumption
  <1>1. /\ opening # 0 /\ opening' = 0 /\ Position(opening) /\ pc \in {"connecting", "live"}
        /\ UNCHANGED <<kind, agentVars, seen, reason, generation, futile, stopped, expired>>
    BY DEF attached, IInv, LoopState
  <1>2. \/ opened' = 0 /\ stopped /\ kind = "watch"
        \/ opened' = opening /\ (stopped => kind # "watch")
    BY Zenon DEF attached
  <1>3. \/ stopped /\ pc' = "done" /\ outcome' = "left"
        \/ ~stopped /\ pc' = "reading" /\ outcome' = outcome
    BY Zenon DEF attached
  <1>4. kind = "code" => ~stopped
    BY Zenon DEF IInv, LoopState
  <1>5. TypeOK'
    <2>1. Flags'
      BY <1>1, Zenon DEF Flags, IInv, TypeOK, agentVars
    <2>2. opened' \in 0 .. MaxSeq + 1
      BY <1>1, <1>2 DEF IInv, TypeOK
    <2>3. pc' = "reading" => opened' # 0 \/ stopped'
      BY <1>1, <1>2, <1>3, Zenon
    <2> QED
      BY <1>1, <1>3, <2>1, <2>2, <2>3 DEF IInv, TypeOK, Flags, agentVars
  <1>6. NoOrphanStream'
    <2>1. pc' = "done" /\ opened' # 0 => stopped' /\ kind # "watch" /\ kind # "code"
      BY <1>1, <1>2, <1>3, <1>4, Zenon
    <2> QED
      BY <1>1, <2>1 DEF NoOrphanStream, IInv, TypeOK, Kinds
  <1>7. opened' # 0 => pc' \in {"reading", "done"} /\ Position(opened')
    BY <1>1, <1>2, <1>3
  <1>8. pc' # "live" /\ (kind = "code" => ~stopped')
    BY <1>1, <1>3, <1>4
  <1> QED
    BY <1>1, <1>5, <1>6, <1>7, <1>8, LoopStepPreserves

(* Every step preserves the invariant. *)
LEMMA NextPreserves == IInv /\ [Next]_vars => IInv'
  <1> SUFFICES ASSUME IInv, [Next]_vars PROVE IInv'
    OBVIOUS
  <1>1. CASE Emit \/ ProcessEnds \/ Forget \/ MoveVM \/ DeadlinePasses
    BY <1>1, AgentPreserves
  <1>2. CASE \E how \in {"complete", "failed", "left"} : EndsAs(how)
    BY <1>2, EndsPreserves
  <1>3. CASE finish \/ canceled \/ brokenStream \/ reconnectError \/ openFails \/ remainingDeadline
    BY <1>2, <1>3 DEF finish, canceled, brokenStream, reconnectError, openFails, remainingDeadline
  <1>4. CASE feed
    BY <1>4, FeedPreserves
  <1>5. CASE disconnect
    BY <1>5, DisconnectPreserves
  <1>6. CASE cut
    BY <1>6, CutPreserves
  <1>7. CASE reconnected
    BY <1>7, ReconnectedPreserves
  <1>8. CASE resubscribe \/ resubscribeFromLive \/ reissue
    BY <1>8, ResubscribePreserves
  <1>9. CASE attached
    BY <1>9, AttachedPreserves
  <1>10. CASE UNCHANGED vars
    BY <1>10 DEF vars, agentVars, clientVars, IInv, TypeOK, ReadSoFar, LoopState, GapsStartEvicted,
                 NoOrphanStream, Position, lastSeq, oldest
  <1> QED
    BY <1>1, <1>3, <1>4, <1>5, <1>6, <1>7, <1>8, <1>9, <1>10 DEF Next, Client

(* The invariant holds initially.                                          *)
LEMMA InitEstablishes == Init => IInv
  <1> SUFFICES ASSUME Init PROVE IInv
    OBVIOUS
  <1>1. Flags /\ ~stopped
    BY Zenon DEF Init, Flags
  <1>2. lastSeq = 0 /\ Len(seen) = 0 /\ seen \in Seq(1 .. MaxSeq)
    BY DEF Init, lastSeq
  <1> QED
    BY <1>1, <1>2, StreamAssumption
    DEF Init, IInv, TypeOK, Flags, Kinds, Terminals, ReadSoFar, LoopState, Position, GapsStartEvicted,
        NoOrphanStream

(* The inductive invariant holds throughout. *)
THEOREM Inductive == Spec => []IInv
  BY InitEstablishes, NextPreserves, PTL DEF Spec

(* Whatever is cut, suspended, evicted or disconnected: a gap in the       *)
(* output of a command or a terminal begins at an evicted event, the       *)
(* budget of futile reconnections holds, and no stream stays open behind a *)
(* handle that is over but the one a disconnect() overtook.                *)
THEOREM HandleIsSound == Spec => []StreamSound
  <1>1. IInv => StreamSound
    BY DEF IInv, StreamSound
  <1> QED
    BY Inductive, <1>1, PTL

-----------------------------------------------------------------------------
(* The refinement of OutputLog, with the outcome of the handle as the      *)
(* result of the log.                                                      *)

(* A step that reads nothing, produces nothing and ends nothing stutters. *)
LEMMA Stutters ==
  ASSUME UNCHANGED <<kind, emitted, seen, outcome>>
  PROVE  UNCHANGED Log!logVars
  BY DEF Log!logVars

(* A handle ends as a log does: a code execution is complete only when     *)
(* every event was read.                                                   *)
LEMMA EndsAsLog ==
  ASSUME IInv, pc # "done", NEW how \in {"complete", "failed", "left"}, EndsAs(how),
         how = "complete" => reading /\ opened > emitted
  PROVE  Log!Finish
  <1>1. /\ outcome = "none" /\ outcome' = how
        /\ UNCHANGED <<kind, emitted, seen>>
    BY DEF IInv, TypeOK, EndsAs, agentVars
  <1>2. ASSUME how = "complete", kind = "code" PROVE Len(seen) = emitted
    <2>1. Position(opened)
      BY <1>2 DEF reading, IInv, LoopState
    <2> QED
      BY <1>2, <2>1 DEF Position, IInv, ReadSoFar, TypeOK
  <1> QED
    BY <1>1, <1>2 DEF Log!Finish

(* Every step of the handle, its agent and its VM is a step of the log. *)
LEMMA StepRefines ==
  ASSUME IInv, [Next]_vars
  PROVE  [Log!Produce \/ Log!Read \/ Log!Finish]_Log!logVars
  <1>1. CASE Emit
    BY <1>1 DEF Emit, clientVars, Log!Produce
  <1>2. CASE ProcessEnds \/ Forget \/ MoveVM \/ DeadlinePasses \/ disconnect \/ UNCHANGED vars
    <2>1. UNCHANGED <<kind, emitted, seen, outcome>>
      BY <1>2 DEF ProcessEnds, Forget, MoveVM, DeadlinePasses, disconnect, vars, agentVars, clientVars
    <2> QED
      BY <2>1, Stutters
  <1>3. CASE feed
    <2>1. /\ outcome = "none" /\ opened \in Nat /\ opened <= emitted /\ emitted \in Nat
          /\ Position(opened) /\ lastSeq \in Nat
          /\ seen' = Append(seen, opened)
          /\ UNCHANGED <<kind, emitted, outcome>>
      BY <1>3 DEF feed, reading, IInv, TypeOK, LoopState, ReadSoFar, agentVars
    <2>2. Log!LastOf(seen) = lastSeq
      BY DEF Log!LastOf, lastSeq
    <2>3. opened \in lastSeq + 1 .. emitted /\ (kind = "code" => opened = lastSeq + 1)
      BY <2>1 DEF Position
    <2> QED
      BY <2>1, <2>2, <2>3 DEF Log!Read
  <1>4. CASE finish
    BY <1>4, EndsAsLog DEF finish, reading
  <1>5. CASE \E how \in {"failed", "left"} : pc # "done" /\ EndsAs(how)
    BY <1>5, EndsAsLog
  <1>6. CASE canceled \/ brokenStream \/ reconnectError \/ openFails \/ remainingDeadline
    BY <1>5, <1>6 DEF canceled, brokenStream, reading, reconnectError, openFails, remainingDeadline
  <1>7. CASE cut
    <2>1. CASE EndsAs("failed")
      BY <1>5, <1>7, <2>1 DEF cut, reading
    <2>2. CASE UNCHANGED <<kind, agentVars, seen, outcome>>
      BY <2>2, Stutters DEF agentVars
    <2> QED
      BY <1>7, <2>1, <2>2 DEF cut
  <1>8. CASE reconnected \/ attached
    <2>1. pc # "done" /\ UNCHANGED <<kind, emitted, seen>>
      BY <1>8 DEF reconnected, attached, agentVars, IInv, LoopState
    <2>2. outcome' = outcome \/ outcome' \in {"left", "failed"}
      BY <1>8 DEF reconnected, attached
    <2>3. CASE outcome' = outcome
      BY <2>1, <2>3, Stutters
    <2>4. CASE outcome' \in {"left", "failed"}
      BY <2>1, <2>4 DEF Log!Finish, IInv, TypeOK
    <2> QED
      BY <2>2, <2>3, <2>4
  <1>9. CASE resubscribe \/ resubscribeFromLive \/ reissue
    <2>1. CASE EndsAs("failed")
      BY <1>5, <1>9, <2>1 DEF resubscribe, resubscribeFromLive, reissue
    <2>2. CASE UNCHANGED <<kind, agentVars, seen, outcome>>
      BY <2>2, Stutters DEF agentVars
    <2> QED
      BY <1>9, <2>1, <2>2 DEF resubscribe, resubscribeFromLive, reissue, Opens
  <1> QED
    BY <1>1, <1>2, <1>3, <1>4, <1>6, <1>7, <1>8, <1>9 DEF Next, Client

(* The handle implements OutputLog: through any number of cuts,            *)
(* suspensions, evictions and resubscriptions each event is handed over at *)
(* most once and in order, and a code execution that ends "complete"       *)
(* missed none.                                                            *)
THEOREM HandleImplementsLog == Spec => ImplementsOutputLog
  <1>1. Init => Log!LogInit
    BY DEF Init, Log!LogInit
  <1>2. IInv /\ [Next]_vars => [Log!Produce \/ Log!Read \/ Log!Finish]_Log!logVars
    BY StepRefines
  <1> QED
    BY Inductive, <1>1, <1>2, PTL DEF Spec, ImplementsOutputLog, Log!LogSpec
=============================================================================
