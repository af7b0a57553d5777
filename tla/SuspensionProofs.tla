--------------------------- MODULE SuspensionProofs ---------------------------
(***************************************************************************)
(* Proofs about what lives through a suspension: the timeout task of a     *)
(* process (ProcessTimeout, for any timeout, grace and poll and any number *)
(* of pauses), then the checkpoint and its watchdogs (SuspendCheckpoint,   *)
(* for any number of suspends, streams and transfers and any setting of    *)
(* the grace, the budget, the watchdog and the gate).                      *)
(*                                                                         *)
(* NoEarlySignal rests on two facts: a clock reading that was taken before *)
(* the lock never says more than the running clock (ReadingIsPast), and    *)
(* the running clock never goes back (HookLifecycleProofs).  What a wake-  *)
(* up leads to must agree with the instant the task slept for (Plan).      *)
(* WalkedAreGone needs the whole hand-over from the SIGTERM walk, which    *)
(* remembers what it finds, to the permit that the supervisor takes (Walk).   *)
(*                                                                         *)
(* TransferSeesSuspend needs that no subscription is newer than the        *)
(* current one.  RecoveryWaits needs to know what the readings of a        *)
(* watchdog stand for: the time it counted began after the suspend, frozen *)
(* time apart, or a freeze lies between its last reading and now and will  *)
(* stop it (WatchdogCounts).                                               *)
(***************************************************************************)
EXTENDS ProcessTimeout, SuspendCheckpoint, HookLifecycleProofs, FiniteSetTheorems

TaskPc == {"none", "arm", "sleep", "check", "due", "record", "termTree",
           "termGroup", "gone", "grace", "killTree", "killGroup", "settle", "done"}

(* The types that PTypeOK leaves out.                                      *)
Records ==
    /\ task \in [pc : TaskPc, next : {"none", "due", "gone", "killGroup"}, reading : Nat,
                 wakeAt : Nat, target : Nat, termAt : Nat, killAt : Nat]
    /\ history \in [atTerm : SUBSET Descendants, killed : BOOLEAN]

(* The task has not sent SIGTERM, and is not past that point.              *)
Asleep == task.pc \in {"sleep", "check"}
BeforeTerm ==
    \/ task.pc \in {"none", "arm", "due", "record"}
    \/ Asleep /\ task.next = "due"

(* A sleep ends where its target says.                                     *)
Plan ==
    /\ task.reading <= now /\ task.termAt <= task.killAt /\ task.target <= task.killAt
    /\ Asleep => \/ task.next = "due" /\ task.target = task.termAt
                 \/ task.next = "killGroup" /\ task.target = task.killAt /\ killScope = "Group"
                 \/ task.next = "gone"
    /\ BeforeTerm => reason # "Timeout" /\ ~history.killed /\ history.atTerm = {}

(* What the running clock has reached when the task is past a check.       *)
Reached ==
    /\ task.pc \in {"due", "record"} => RunningNow >= task.termAt
    /\ task.pc \in {"killTree", "killGroup"} => RunningNow >= task.killAt

(* What lived at the SIGTERM walk, if that started from a living root, is  *)
(* gone.                                                                   *)
WalkedTreeIsGone == killScope = "Tree" => history.atTerm \cap live = {}

(* From the SIGTERM walk to the end of the process.                        *)
Walk ==
    /\ task.pc = "none" <=> supervisor \in {"none", "starting"}
    /\ task.pc = "arm" <=> supervisor = "spawned"
    /\ supervisor \in {"waited", "marked", "settling", "settled", "finish", "ended"}
         => outcome = "error" \/ root = "reaped"
    /\ status # "none" => supervisor \in {"finish", "ended"}
    /\ status = "timeout" => outcome # "error"
    /\ settled => task.pc = "done"
    /\ task.pc = "termTree" => reason = "Timeout"
    /\ history.atTerm \subseteq known
    /\ history.atTerm # {} => reason = "Timeout"
    /\ task.pc = "settle" => WalkedTreeIsGone
    /\ task.pc = "killGroup" => WalkedTreeIsGone
    /\ settled => WalkedTreeIsGone
    /\ supervisor \in {"settled", "finish", "ended"} => outcome = "error" \/ WalkedTreeIsGone

PIInv == IInv /\ PTypeOK /\ Records /\ Plan /\ Reached /\ Walk /\ NoEarlySignal

(* running_time is at most the running clock, for a reading that has       *)
(* passed, however stale.                                                  *)
LEMMA ReadingSaysLess ==
  ASSUME IInv, NEW t \in Nat, t <= now
  PROVE  running_time(t) \in Nat /\ running_time(t) <= RunningNow /\ RunningNow \in Nat
  BY BoundsAssumption
  DEF IInv, TypeOK, Never, Unresolved, PausesAreDisjoint, SuspendIsRecorded,
      RunningNow, running_time, FrozenSince, SaturatingSub

(* The invariant holds when the process is not yet started.                *)
LEMMA PInitEstablishes == PInit => PIInv
  <1> SUFFICES ASSUME PInit PROVE PIInv
    OBVIOUS
  <1>1. IInv
    <2>1. runClaimed \in BOOLEAN /\ staleRecovered \in BOOLEAN /\ ~staleRecovered
      BY Zenon DEF PInit, InitAfterRun
    <2> QED
      BY <2>1, BoundsAssumption
      DEF PInit, InitAfterRun, IInv, TypeOK, HookPhase, Never, ResumeAnswersSuspend, Unresolved,
          PausesAreDisjoint, SuspendIsRecorded
  <1>2. live = {} /\ known = {} /\ reaped \in BOOLEAN /\ settled \in BOOLEAN /\ ~settled
        /\ aborted \in BOOLEAN
    BY Zenon DEF PInit, ProcessInit
  <1>3. PTypeOK /\ Records
    BY <1>1, <1>2 DEF PInit, ProcessInit, PTypeOK, Records, TaskPc, IInv
  <1>4. Plan /\ Reached /\ NoEarlySignal /\ Walk
    BY <1>2 DEF PInit, ProcessInit, InitAfterRun, Plan, Reached, NoEarlySignal, Walk, BeforeTerm, Asleep,
           WalkedTreeIsGone
  <1> QED
    BY <1>1, <1>3, <1>4 DEF PIInv

TaskType == [pc : TaskPc, next : {"none", "due", "gone", "killGroup"}, reading : Nat,
             wakeAt : Nat, target : Nat, termAt : Nat, killAt : Nat]

(* What the invariant says when only the program counter, the reading, the *)
(* target and what follows it move.                                        *)
LEMMA OnlyTaskMoves ==
  ASSUME PIInv, task' \in TaskType, Plan', Reached',
         UNCHANGED <<lifecycleVars, killScope, root, live, known, reason, reaped, settled,
                     supervisor, outcome, status, aborted, history>>,
         task'.termAt = task.termAt, task'.killAt = task.killAt,
         task.pc \notin {"none", "arm", "done"}, task'.pc \notin {"none", "arm", "termTree"},
         task'.pc \in {"settle", "killGroup"} => WalkedTreeIsGone
  PROVE  PIInv'
  <1>1. IInv'
    BY NextPreserves DEF PIInv
  <1>2. RunningNow' = RunningNow
    BY DEF RunningNow, running_time, FrozenSince, lifecycleVars
  <1>3. PTypeOK'
    BY <1>1 DEF PIInv, PTypeOK, IInv, Plan, TaskType, TaskPc
  <1>4. Records'
    BY DEF PIInv, Records, TaskType
  <1>5. NoEarlySignal'
    BY <1>2 DEF PIInv, NoEarlySignal
  <1>6. Walk'
    BY DEF PIInv, Walk, WalkedTreeIsGone
  <1> QED
    BY <1>1, <1>3, <1>4, <1>5, <1>6 DEF PIInv

(* The facts about the task that its steps use.                            *)
LEMMA TaskFacts ==
  ASSUME PIInv
  PROVE  /\ task \in TaskType /\ now \in Nat
         /\ task.reading <= now /\ task.termAt <= task.killAt /\ task.target <= task.killAt
         /\ running_time(task.reading) \in Nat
         /\ running_time(task.reading) <= RunningNow /\ RunningNow \in Nat
  <1>1. task \in TaskType /\ now \in Nat
    BY BoundsAssumption DEF PIInv, Records, IInv, TypeOK, TaskType
  <1>2. task.reading <= now /\ task.termAt <= task.killAt /\ task.target <= task.killAt
    BY DEF PIInv, Plan
  <1>3. task.reading \in Nat
    BY <1>1 DEF TaskType
  <1> QED
    BY <1>1, <1>2, <1>3, ReadingSaysLess DEF PIInv

(* The steps of the task that touch nothing but the task.                  *)
LEMMA TaskStepsPreserve ==
  ASSUME PIInv, TaskOnly \/ TermGroup \/ GraceLoop
  PROVE  PIInv'
  <1> USE TimeoutAssumption, TaskFacts
  <1>1. UNCHANGED <<lifecycleVars, killScope, root, live, known, reason, reaped, settled,
                    supervisor, outcome, status, aborted, history>>
    BY DEF TaskOnly, TermGroup, GraceLoop
  <1>2. RunningNow' = RunningNow /\ now' = now
    BY <1>1 DEF RunningNow, running_time, FrozenSince, lifecycleVars
  <1> SUFFICES /\ task' \in TaskType /\ Plan' /\ Reached'
               /\ task'.termAt = task.termAt /\ task'.killAt = task.killAt
               /\ task.pc \notin {"none", "arm", "done"} /\ task'.pc \notin {"none", "arm", "termTree"}
               /\ task'.pc \in {"settle", "killGroup"} => WalkedTreeIsGone
    BY <1>1, OnlyTaskMoves
  <1>3. CASE SleepWakes
    <2>1. task' = [task EXCEPT !.pc = "check", !.reading = now, !.wakeAt = 0] /\ task.pc = "sleep"
      BY <1>3 DEF SleepWakes
    <2>2. task' \in TaskType
      BY <2>1 DEF TaskType, TaskPc
    <2>3. /\ task'.pc = "check" /\ task'.reading = now /\ task'.next = task.next
          /\ task'.target = task.target /\ task'.termAt = task.termAt /\ task'.killAt = task.killAt
      BY <2>1 DEF TaskType
    <2>4. Plan' /\ Reached'
      BY <1>1, <1>2, <2>1, <2>3 DEF PIInv, Plan, Reached, BeforeTerm, Asleep
    <2> QED
      BY <2>1, <2>2, <2>3, <2>4
  <1>4. CASE SleepChecks
    <2> DEFINE running == running_time(task.reading)
    <2>1. CASE Due(task.target, running)
      <3>1. task' = [task EXCEPT !.pc = task.next, !.reading = 0] /\ task.pc = "check"
        BY <1>4, <2>1 DEF SleepChecks
      <3>2. task.next \in {"due", "gone", "killGroup"}
        BY <3>1 DEF PIInv, Plan, Asleep
      <3>3. task' \in TaskType
        BY <3>1, <3>2 DEF TaskType, TaskPc
      <3>4. /\ task'.pc = task.next /\ task'.reading = 0 /\ task'.next = task.next
            /\ task'.target = task.target /\ task'.termAt = task.termAt /\ task'.killAt = task.killAt
        BY <3>1 DEF TaskType
      <3>5. RunningNow >= task.target
        BY <2>1 DEF Due, TaskType
      <3>6. /\ task.next = "due" => task.target = task.termAt
            /\ task.next = "killGroup" => task.target = task.killAt /\ killScope = "Group"
            /\ task.next = "due" => reason # "Timeout" /\ ~history.killed /\ history.atTerm = {}
        BY <3>1 DEF PIInv, Plan, Asleep, BeforeTerm
      <3>7. Plan'
        BY <1>1, <1>2, <3>2, <3>4, <3>6 DEF Plan, BeforeTerm, Asleep
      <3>8. Reached'
        BY <1>2, <3>2, <3>4, <3>5, <3>6 DEF Reached
      <3> QED
        BY <3>1, <3>2, <3>3, <3>4, <3>6, <3>7, <3>8 DEF WalkedTreeIsGone
    <2>2. CASE ~Due(task.target, running)
      <3>1. /\ task' = [task EXCEPT !.pc = "sleep", !.reading = 0,
                                    !.wakeAt = now + (task.target - running)]
            /\ task.pc = "check"
        BY <1>4, <2>2 DEF SleepChecks
      <3>2. now + (task.target - running) \in Nat
        BY <2>2 DEF Due, TaskType
      <3>3. task' \in TaskType
        BY <3>1, <3>2 DEF TaskType, TaskPc
      <3>4. /\ task'.pc = "sleep" /\ task'.reading = 0 /\ task'.next = task.next
            /\ task'.target = task.target /\ task'.termAt = task.termAt /\ task'.killAt = task.killAt
        BY <3>1 DEF TaskType
      <3>5. Plan' /\ Reached'
        BY <1>1, <1>2, <3>1, <3>4 DEF PIInv, Plan, Reached, BeforeTerm, Asleep
      <3> QED
        BY <3>1, <3>3, <3>4, <3>5
    <2> QED
      BY <2>1, <2>2
  <1>5. CASE SleepAborted
    <2>1. task' = [task EXCEPT !.pc = "done"] /\ task.pc = "sleep"
      BY <1>5 DEF SleepAborted
    <2>2. task' \in TaskType
      BY <2>1 DEF TaskType, TaskPc
    <2>3. /\ task'.pc = "done" /\ task'.reading = task.reading /\ task'.next = task.next
          /\ task'.target = task.target /\ task'.termAt = task.termAt /\ task'.killAt = task.killAt
      BY <2>1 DEF TaskType
    <2>4. Plan' /\ Reached'
      BY <1>1, <1>2, <2>1, <2>3 DEF PIInv, Plan, Reached, BeforeTerm, Asleep
    <2> QED
      BY <2>1, <2>2, <2>3, <2>4
  <1>6. CASE TermDue
    <2>1. PICK to \in {"done", "record"} : task' = [task EXCEPT !.pc = to]
      BY <1>6 DEF TermDue
    <2>2. task' \in TaskType /\ task.pc = "due"
      BY <1>6, <2>1 DEF TaskType, TaskPc, TermDue
    <2>3. /\ task'.pc = to /\ task'.reading = task.reading /\ task'.next = task.next
          /\ task'.target = task.target /\ task'.termAt = task.termAt /\ task'.killAt = task.killAt
      BY <2>1 DEF TaskType
    <2>4. Plan' /\ Reached'
      BY <1>1, <1>2, <2>1, <2>2, <2>3 DEF PIInv, Plan, Reached, BeforeTerm, Asleep
    <2> QED
      BY <2>1, <2>2, <2>3, <2>4
  <1>7. CASE TermGroup
    <2>1. CASE killScope = "Tree"
      <3>1. task' = [task EXCEPT !.pc = "gone"] /\ task.pc = "termGroup"
        BY <1>7, <2>1 DEF TermGroup
      <3>2. task' \in TaskType
        BY <3>1 DEF TaskType, TaskPc
      <3>3. /\ task'.pc = "gone" /\ task'.reading = task.reading /\ task'.next = task.next
            /\ task'.target = task.target /\ task'.termAt = task.termAt /\ task'.killAt = task.killAt
        BY <3>1 DEF TaskType
      <3>4. Plan' /\ Reached'
        BY <1>1, <1>2, <3>1, <3>3 DEF PIInv, Plan, Reached, BeforeTerm, Asleep
      <3> QED
        BY <3>1, <3>2, <3>3, <3>4
    <2>2. CASE killScope # "Tree"
      <3>1. /\ task' = [task EXCEPT !.pc = "sleep", !.wakeAt = now, !.target = task.killAt,
                                    !.next = "killGroup"]
            /\ task.pc = "termGroup"
        BY <1>7, <2>2 DEF TermGroup
      <3>2. task' \in TaskType
        BY <3>1 DEF TaskType, TaskPc
      <3>3. /\ task'.pc = "sleep" /\ task'.reading = task.reading /\ task'.next = "killGroup"
            /\ task'.target = task.killAt /\ task'.termAt = task.termAt /\ task'.killAt = task.killAt
            /\ task.killAt \in Nat
        BY <3>1 DEF TaskType
      <3>4. killScope = "Group"
        BY <2>2 DEF PIInv, PTypeOK
      <3>5. Plan' /\ Reached'
        BY <1>1, <1>2, <3>1, <3>3, <3>4 DEF Plan, Reached, BeforeTerm, Asleep
      <3> QED
        BY <3>1, <3>2, <3>3, <3>5
    <2> QED
      BY <2>1, <2>2
  <1>8. CASE GoneCheck
    <2>1. CASE reaped /\ TreeIsGone
      <3>1. task' = [task EXCEPT !.pc = "settle"] /\ task.pc = "gone"
        BY <1>8, <2>1 DEF GoneCheck
      <3>2. task' \in TaskType
        BY <3>1 DEF TaskType, TaskPc
      <3>3. /\ task'.pc = "settle" /\ task'.reading = task.reading /\ task'.next = task.next
            /\ task'.target = task.target /\ task'.termAt = task.termAt /\ task'.killAt = task.killAt
        BY <3>1 DEF TaskType
      <3>4. Plan' /\ Reached'
        BY <1>1, <1>2, <3>1, <3>3 DEF PIInv, Plan, Reached, BeforeTerm, Asleep
      <3>5. WalkedTreeIsGone
        BY <2>1 DEF PIInv, PTypeOK, Walk, WalkedTreeIsGone, TreeIsGone
      <3> QED
        BY <3>1, <3>2, <3>3, <3>4, <3>5
    <2>2. CASE ~(reaped /\ TreeIsGone)
      <3>1. task' = [task EXCEPT !.pc = "grace", !.reading = now] /\ task.pc = "gone"
        BY <1>8, <2>2 DEF GoneCheck
      <3>2. task' \in TaskType
        BY <3>1 DEF TaskType, TaskPc
      <3>3. /\ task'.pc = "grace" /\ task'.reading = now /\ task'.next = task.next
            /\ task'.target = task.target /\ task'.termAt = task.termAt /\ task'.killAt = task.killAt
        BY <3>1 DEF TaskType
      <3>4. Plan' /\ Reached'
        BY <1>1, <1>2, <3>1, <3>3 DEF PIInv, Plan, Reached, BeforeTerm, Asleep
      <3> QED
        BY <3>1, <3>2, <3>3, <3>4
    <2> QED
      BY <2>1, <2>2
  <1>9. CASE GraceCheck
    <2> DEFINE running == running_time(task.reading)
               poll == Min(running + SettlePoll, task.killAt)
    <2>1. CASE Due(task.killAt, running)
      <3>1. task' = [task EXCEPT !.pc = "killTree", !.reading = 0] /\ task.pc = "grace"
        BY <1>9, <2>1 DEF GraceCheck
      <3>2. task' \in TaskType
        BY <3>1 DEF TaskType, TaskPc
      <3>3. /\ task'.pc = "killTree" /\ task'.reading = 0 /\ task'.next = task.next
            /\ task'.target = task.target /\ task'.termAt = task.termAt /\ task'.killAt = task.killAt
        BY <3>1 DEF TaskType
      <3>4. RunningNow >= task.killAt
        BY <2>1 DEF Due, TaskType
      <3>5. Plan' /\ Reached'
        BY <1>1, <1>2, <3>1, <3>3, <3>4 DEF PIInv, Plan, Reached, BeforeTerm, Asleep
      <3> QED
        BY <3>1, <3>2, <3>3, <3>5
    <2>2. CASE ~Due(task.killAt, running)
      <3>1. /\ task' = [task EXCEPT !.pc = "check", !.reading = now, !.target = poll, !.next = "gone"]
            /\ task.pc = "grace"
        BY <1>9, <2>2 DEF GraceCheck
      <3>2. poll \in Nat /\ poll <= task.killAt
        BY DEF Min, TaskType
      <3> HIDE DEF poll
      <3>3. task' \in TaskType
        BY <3>1, <3>2 DEF TaskType, TaskPc
      <3>4. /\ task'.pc = "check" /\ task'.reading = now /\ task'.next = "gone"
            /\ task'.target = poll /\ task'.termAt = task.termAt /\ task'.killAt = task.killAt
        BY <3>1 DEF TaskType
      <3>5. Plan' /\ Reached'
        BY <1>1, <1>2, <3>1, <3>2, <3>4 DEF Plan, Reached, BeforeTerm, Asleep
      <3> QED
        BY <3>1, <3>3, <3>4, <3>5
    <2> QED
      BY <2>1, <2>2
  <1> QED
    BY <1>3, <1>4, <1>5, <1>6, <1>7, <1>8, <1>9 DEF TaskOnly, GraceLoop

(* A step that leaves the phase machine and the clock alone.               *)
LEMMA ClockStands ==
  ASSUME PIInv, UNCHANGED lifecycleVars
  PROVE  IInv' /\ TypeOK' /\ RunningNow' = RunningNow /\ now' = now /\ stream_gate' = stream_gate
  <1>1. IInv'
    BY NextPreserves DEF PIInv
  <1> QED
    BY <1>1 DEF IInv, RunningNow, running_time, FrozenSince, lifecycleVars, stream_gate

(* ProcessControl::record(Timeout), after the running clock reached        *)
(* term_at.                                                                *)
LEMMA RecordPreserves ==
  ASSUME PIInv, RecordTimeout
  PROVE  PIInv'
  <1> USE TaskFacts, ClockStands
  <1>1. PICK to \in {"termTree", "termGroup"} : task' = [task EXCEPT !.pc = to]
    BY DEF RecordTimeout
  <1>2. /\ task.pc = "record" /\ reason' = "Timeout"
        /\ UNCHANGED <<lifecycleVars, killScope, root, live, known, reaped, settled,
                       supervisor, outcome, status, aborted, history>>
    BY DEF RecordTimeout
  <1>3. /\ task' \in TaskType
        /\ task'.pc = to /\ task'.reading = task.reading /\ task'.next = task.next
        /\ task'.target = task.target /\ task'.termAt = task.termAt /\ task'.killAt = task.killAt
    BY <1>1 DEF TaskType, TaskPc
  <1>4. PTypeOK' /\ Records'
    BY <1>2, <1>3 DEF PIInv, PTypeOK, Records, TaskType, TaskPc, Plan
  <1>5. Plan' /\ Reached' /\ NoEarlySignal'
    BY <1>2, <1>3 DEF PIInv, Plan, Reached, BeforeTerm, Asleep, NoEarlySignal
  <1>6. Walk'
    BY <1>2, <1>3 DEF PIInv, Walk, WalkedTreeIsGone, Plan, BeforeTerm
  <1> QED
    BY <1>2, <1>4, <1>5, <1>6 DEF PIInv

(* The SIGTERM walk: a member that it finds is remembered; a walk from a   *)
(* root that has exited promises nothing.                                  *)
LEMMA TermTreePreserves ==
  ASSUME PIInv, TermTree
  PROVE  PIInv'
  <1> USE TaskFacts, ClockStands
  <1>1. /\ task.pc = "termTree" /\ task' = [task EXCEPT !.pc = "termGroup"]
        /\ history' = [history EXCEPT !.atTerm = IF root = "alive" THEN live ELSE {}]
        /\ UNCHANGED <<lifecycleVars, killScope, root, live, reason, reaped, settled,
                       supervisor, outcome, status, aborted>>
    BY DEF TermTree
  <1>2. PICK found \in SUBSET live : Reaches(found) /\ known' = known \cup found
    BY DEF TermTree
  <1>a. live \subseteq Descendants /\ known' \subseteq Descendants
    BY <1>2 DEF PIInv, PTypeOK
  <1>3. /\ task' \in TaskType
        /\ task'.pc = "termGroup" /\ task'.reading = task.reading /\ task'.next = task.next
        /\ task'.target = task.target /\ task'.termAt = task.termAt /\ task'.killAt = task.killAt
    BY <1>1 DEF TaskType, TaskPc
  <1>4. /\ history' \in [atTerm : SUBSET Descendants, killed : BOOLEAN]
        /\ history'.killed = history.killed
        /\ history'.atTerm = IF root = "alive" THEN live ELSE {}
    BY <1>1, <1>a DEF PIInv, Records
  <1>5. PTypeOK' /\ Records'
    BY <1>1, <1>a, <1>3, <1>4 DEF PIInv, PTypeOK, Records, TaskType, TaskPc, Plan
  <1>6. Plan' /\ Reached' /\ NoEarlySignal'
    BY <1>1, <1>3, <1>4 DEF PIInv, Plan, Reached, BeforeTerm, Asleep, NoEarlySignal
  <1>7. Walk'
    BY <1>1, <1>2, <1>3, <1>4 DEF PIInv, PTypeOK, Walk, WalkedTreeIsGone, Reaches
  <1> QED
    BY <1>1, <1>5, <1>6, <1>7 DEF PIInv

(* What a SIGKILL walk leaves of the known ones: nothing.                  *)
LEMMA KillsTheKnown ==
  ASSUME PIInv, KillsTree
  PROVE  /\ live' \subseteq Descendants /\ known' \subseteq Descendants
         /\ known \subseteq known' /\ known' \cap live' = {}
  <1>1. PICK found \in SUBSET live, missed \in SUBSET (Descendants \ (live \cup known)) :
            Reaches(found) /\ live' = (live \ found) \cup missed /\ known' = known \cup found
    BY DEF KillsTree
  <1> QED
    BY <1>1 DEF PIInv, PTypeOK, Reaches

(* SIGKILL to the tree: what the walk remembers or reaches is gone.        *)
LEMMA KillTreePreserves ==
  ASSUME PIInv, KillTree
  PROVE  PIInv'
  <1> USE TaskFacts, ClockStands
  <1>1. /\ task.pc = "killTree" /\ task' = [task EXCEPT !.pc = "killGroup"]
        /\ KillsTree
        /\ history' = [history EXCEPT !.killed = TRUE]
        /\ UNCHANGED <<lifecycleVars, killScope, root, reason, reaped, settled,
                       supervisor, outcome, status, aborted>>
    BY DEF KillTree
  <1>2. /\ live' \subseteq Descendants /\ known' \subseteq Descendants
        /\ known \subseteq known' /\ known' \cap live' = {}
    BY <1>1, KillsTheKnown
  <1>3. /\ task' \in TaskType
        /\ task'.pc = "killGroup" /\ task'.reading = task.reading /\ task'.next = task.next
        /\ task'.target = task.target /\ task'.termAt = task.termAt /\ task'.killAt = task.killAt
    BY <1>1 DEF TaskType, TaskPc
  <1>4. /\ history' \in [atTerm : SUBSET Descendants, killed : BOOLEAN]
        /\ history'.atTerm = history.atTerm
    BY <1>1 DEF PIInv, Records
  <1>5. PTypeOK' /\ Records'
    BY <1>1, <1>2, <1>3, <1>4 DEF PIInv, PTypeOK, Records, TaskType, TaskPc, Plan
  <1>6. Plan' /\ Reached' /\ NoEarlySignal'
    BY <1>1, <1>3, <1>4 DEF PIInv, Plan, Reached, BeforeTerm, Asleep, NoEarlySignal
  <1>7. Walk'
    BY <1>1, <1>2, <1>3, <1>4 DEF PIInv, PTypeOK, Walk, WalkedTreeIsGone
  <1> QED
    BY <1>1, <1>5, <1>6, <1>7 DEF PIInv

(* SIGKILL to the group, after kill_at.                                    *)
LEMMA KillGroupPreserves ==
  ASSUME PIInv, KillGroup
  PROVE  PIInv'
  <1> USE TaskFacts, ClockStands
  <1>1. PICK to \in {"settle", "done"} : task' = [task EXCEPT !.pc = to]
    BY DEF KillGroup
  <1>2. /\ task.pc = "killGroup"
        /\ root' = (IF ~reaped /\ root = "alive" THEN "zombie" ELSE root)
        /\ history' = [history EXCEPT !.killed = @ \/ ~reaped]
        /\ UNCHANGED <<lifecycleVars, killScope, live, known, reason, reaped, settled,
                       supervisor, outcome, status, aborted>>
    BY DEF KillGroup
  <1>3. /\ task' \in TaskType
        /\ task'.pc = to /\ task'.reading = task.reading /\ task'.next = task.next
        /\ task'.target = task.target /\ task'.termAt = task.termAt /\ task'.killAt = task.killAt
    BY <1>1 DEF TaskType, TaskPc
  <1>4. /\ history' \in [atTerm : SUBSET Descendants, killed : BOOLEAN]
        /\ history'.atTerm = history.atTerm
    BY <1>2 DEF PIInv, Records
  <1>5. PTypeOK' /\ Records'
    BY <1>2, <1>3, <1>4 DEF PIInv, PTypeOK, Records, TaskType, TaskPc, Plan
  <1>6. Plan' /\ Reached' /\ NoEarlySignal'
    BY <1>2, <1>3, <1>4 DEF PIInv, Plan, Reached, BeforeTerm, Asleep, NoEarlySignal
  <1>7. Walk'
    BY <1>2, <1>3, <1>4 DEF PIInv, PTypeOK, Walk, WalkedTreeIsGone
  <1> QED
    BY <1>2, <1>5, <1>6, <1>7 DEF PIInv

(* The permit that tells the supervisor that the tree settled.             *)
LEMMA SettlePreserves ==
  ASSUME PIInv, SettleTree
  PROVE  PIInv'
  <1> USE TaskFacts, ClockStands
  <1>1. /\ task.pc = "settle" /\ task' = [task EXCEPT !.pc = "done"]
        /\ UNCHANGED <<lifecycleVars, killScope, root, live, known, reason, reaped,
                       supervisor, outcome, status, aborted, history>>
    BY DEF SettleTree
  <1>2. settled' \in BOOLEAN
    BY Zenon DEF SettleTree
  <1>3. /\ task' \in TaskType
        /\ task'.pc = "done" /\ task'.reading = task.reading /\ task'.next = task.next
        /\ task'.target = task.target /\ task'.termAt = task.termAt /\ task'.killAt = task.killAt
    BY <1>1 DEF TaskType, TaskPc
  <1>4. PTypeOK' /\ Records'
    BY <1>1, <1>2, <1>3 DEF PIInv, PTypeOK, Records, TaskType, TaskPc, Plan
  <1>5. Plan' /\ Reached' /\ NoEarlySignal'
    BY <1>1, <1>3 DEF PIInv, Plan, Reached, BeforeTerm, Asleep, NoEarlySignal
  <1>6. Walk'
    BY <1>1, <1>3 DEF PIInv, Walk, WalkedTreeIsGone
  <1> QED
    BY <1>1, <1>4, <1>5, <1>6 DEF PIInv

(* start, the spawn and TimeoutPlan::new: nothing was signalled yet.       *)
LEMMA StartPreserves ==
  ASSUME PIInv, start \/ SpawnRegistered \/ Arm
  PROVE  PIInv'
  <1> USE TaskFacts, ClockStands, TimeoutAssumption
  <1>1. UNCHANGED <<lifecycleVars, killScope, live, known, reason, reaped, settled,
                    outcome, status, aborted, history>>
    BY DEF start, SpawnRegistered, Arm
  <1>2. CASE start
    <2>1. supervisor = "none" /\ supervisor' = "starting" /\ UNCHANGED <<root, task>>
      BY <1>2 DEF start
    <2>2. PTypeOK' /\ Records' /\ Plan' /\ Reached' /\ NoEarlySignal' /\ Walk'
      BY <1>1, <2>1 DEF PIInv, PTypeOK, Records, Plan, Reached, BeforeTerm, Asleep, NoEarlySignal, Walk,
                        WalkedTreeIsGone
    <2> QED
      BY <1>1, <2>2 DEF PIInv
  <1>3. CASE SpawnRegistered
    <2>1. /\ supervisor = "starting" /\ supervisor' = "spawned" /\ root' = "alive"
          /\ task' = [task EXCEPT !.pc = "arm", !.reading = now]
      BY <1>3 DEF SpawnRegistered
    <2>2. /\ task' \in TaskType
          /\ task'.pc = "arm" /\ task'.reading = now
          /\ task'.target = task.target /\ task'.termAt = task.termAt /\ task'.killAt = task.killAt
      BY <2>1 DEF TaskType, TaskPc
    <2>3. /\ task.pc = "none" /\ status = "none" /\ ~settled
          /\ reason # "Timeout" /\ ~history.killed /\ history.atTerm = {}
      BY <2>1 DEF PIInv, Walk, Plan, BeforeTerm
    <2>4. PTypeOK' /\ Records'
      BY <1>1, <2>1, <2>2 DEF PIInv, PTypeOK, Records, TaskType, TaskPc, Plan
    <2>5. Plan' /\ Reached' /\ NoEarlySignal' /\ Walk'
      BY <1>1, <2>1, <2>2, <2>3 DEF Plan, Reached, BeforeTerm, Asleep, NoEarlySignal, Walk, WalkedTreeIsGone
    <2> QED
      BY <1>1, <2>4, <2>5 DEF PIInv
  <1>4. CASE Arm
    <2> DEFINE at == running_time(task.reading) + Timeout
    <2>1. at \in Nat /\ at + KillGrace \in Nat /\ at <= at + KillGrace
      OBVIOUS
    <2>2. /\ task.pc = "arm" /\ supervisor' = "pump" /\ UNCHANGED root
          /\ task' = [task EXCEPT !.pc = "sleep", !.wakeAt = now, !.next = "due", !.reading = 0,
                                  !.target = at, !.termAt = at, !.killAt = at + KillGrace]
      BY <1>4 DEF Arm
    <2> HIDE DEF at
    <2>3. /\ task' \in TaskType
          /\ task'.pc = "sleep" /\ task'.reading = 0 /\ task'.next = "due"
          /\ task'.target = at /\ task'.termAt = at /\ task'.killAt = at + KillGrace
      BY <2>1, <2>2 DEF TaskType, TaskPc
    <2>4. /\ supervisor = "spawned" /\ status = "none" /\ ~settled
          /\ reason # "Timeout" /\ ~history.killed /\ history.atTerm = {}
      BY <2>2 DEF PIInv, Walk, Plan, BeforeTerm
    <2>5. PTypeOK' /\ Records'
      BY <1>1, <2>1, <2>2, <2>3 DEF PIInv, PTypeOK, Records, TaskType, TaskPc
    <2>6. Plan' /\ Reached' /\ NoEarlySignal' /\ Walk'
      BY <1>1, <2>1, <2>2, <2>3, <2>4
      DEF Plan, Reached, BeforeTerm, Asleep, NoEarlySignal, Walk, WalkedTreeIsGone
    <2> QED
      BY <1>1, <2>5, <2>6 DEF PIInv
  <1> QED
    BY <1>2, <1>3, <1>4

(* The supervisor: it goes on without the task only when the timeout had   *)
(* not fired, and otherwise takes the permit of the task.                  *)
LEMMA SupervisePreserves ==
  ASSUME PIInv, Supervise
  PROVE  PIInv'
  <1> USE TaskFacts, ClockStands
  <1>1. UNCHANGED <<lifecycleVars, killScope, live, known, reason, task, history>>
    BY DEF Supervise
  <1>2. reaped' \in BOOLEAN /\ settled' \in BOOLEAN /\ aborted' \in BOOLEAN
    BY Zenon DEF PIInv, PTypeOK, Supervise, ChildWaited, MarkReaped, ReadReason, AwaitSettled, EndFromWait, Finish
  <1>3. settled' => settled
    BY Zenon DEF Supervise, ChildWaited, MarkReaped, ReadReason, AwaitSettled, EndFromWait, Finish
  <1>4. Records' /\ Plan' /\ Reached' /\ NoEarlySignal'
    BY <1>1 DEF PIInv, Records, Plan, Reached, BeforeTerm, Asleep, NoEarlySignal
  <1>5. /\ root' \in {root, "reaped"} /\ (supervisor # "pump" => root' = root)
        /\ status' \in {status, "timeout", "exited", "wait_failed"} /\ (supervisor # "settled" => status' = status)
        /\ status' = "timeout" => status = "timeout" \/ outcome # "error"
        /\ outcome' \in {outcome, "ok", "error"} /\ (supervisor # "pump" => outcome' = outcome)
        /\ <<supervisor, supervisor'>> \in
             {<<"pump", "waited">>, <<"waited", "marked">>, <<"marked", "settling">>,
              <<"marked", "settled">>, <<"settling", "settled">>, <<"settled", "finish">>,
              <<"finish", "ended">>}
        /\ supervisor = "pump" => outcome' = "error" \/ root' = "reaped"
        /\ supervisor = "marked" /\ supervisor' = "settled" => killScope # "Tree" \/ reason # "Timeout"
        /\ supervisor = "settling" => settled
    BY DEF Supervise, ChildWaited, MarkReaped, ReadReason, AwaitSettled, EndFromWait, Finish
  <1>6. PTypeOK'
    BY <1>1, <1>2, <1>5 DEF PIInv, PTypeOK
  <1>7. Walk'
    <2>1. WalkedTreeIsGone' <=> WalkedTreeIsGone
      BY <1>1 DEF WalkedTreeIsGone
    <2>2. supervisor' \in {"settled", "finish", "ended"} => outcome' = "error" \/ WalkedTreeIsGone
      BY <1>5 DEF PIInv, Walk, WalkedTreeIsGone
    <2>3. supervisor' \in {"waited", "marked", "settling", "settled", "finish", "ended"}
            => outcome' = "error" \/ root' = "reaped"
      BY <1>5 DEF PIInv, Walk
    <2>4. status' # "none" => supervisor' \in {"finish", "ended"}
      BY <1>5 DEF PIInv, Walk
    <2> QED
      BY <1>1, <1>3, <1>5, <2>1, <2>2, <2>3, <2>4 DEF PIInv, Walk
  <1> QED
    BY <1>1, <1>4, <1>6, <1>7 DEF PIInv

(* A client's signal, and processes that fork or exit: what is known and   *)
(* gone stays gone.                                                        *)
LEMMA ProcessesPreserve ==
  ASSUME PIInv, ClientSignal \/ Kernel
  PROVE  PIInv'
  <1> USE TaskFacts, ClockStands
  <1>1. UNCHANGED <<lifecycleVars, killScope, reaped, settled, task, supervisor, outcome, status,
                    aborted, history>>
    BY DEF ClientSignal, Kernel
  <1>2. /\ root' = root \/ (root = "alive" /\ root' = "zombie")
        /\ reason' \in {reason, "Signal"} /\ (reason = "Timeout" => reason' = "Timeout")
    BY DEF ClientSignal, Kernel, ProcessForks, ProcessExits
  <1>3. /\ live' \subseteq Descendants /\ known' \subseteq Descendants /\ known \subseteq known'
        /\ known \cap live' \subseteq known \cap live
    <2>1. CASE KillsTree
      BY <2>1, KillsTheKnown
    <2>2. CASE UNCHANGED live /\ \E found \in SUBSET live : known' = known \cup found
      BY <2>2 DEF PIInv, PTypeOK
    <2>3. CASE UNCHANGED known /\ (ProcessForks \/ ProcessExits \/ UNCHANGED live)
      BY <2>3 DEF PIInv, PTypeOK, ProcessForks, ProcessExits
    <2> QED
      BY <2>1, <2>2, <2>3 DEF ClientSignal, Kernel
  <1>4. PTypeOK'
    BY <1>1, <1>2, <1>3 DEF PIInv, PTypeOK
  <1>5. Records' /\ Plan' /\ Reached' /\ NoEarlySignal'
    BY <1>1, <1>2 DEF PIInv, Records, Plan, Reached, BeforeTerm, Asleep, NoEarlySignal
  <1>6. Walk'
    <2>1. history.atTerm \subseteq known /\ (WalkedTreeIsGone => WalkedTreeIsGone')
      BY <1>1, <1>3 DEF PIInv, Walk, WalkedTreeIsGone
    <2> QED
      BY <1>1, <1>2, <1>3, <2>1 DEF PIInv, Walk
  <1> QED
    BY <1>1, <1>4, <1>5, <1>6 DEF PIInv

(* Hooks, the watchdog and the clock: the running clock does not go back.  *)
LEMMA SessionPreserves ==
  ASSUME PIInv, [Next]_lifecycleVars, UNCHANGED processVars
  PROVE  PIInv'
  <1> USE TaskFacts
  <1>1. IInv'
    BY NextPreserves DEF PIInv
  <1>2. RunningNow' >= RunningNow
    BY <1>1, StepNeverGoesBack DEF PIInv
  <1>3. now' \in {now, now + 1} /\ now' \in Nat
    BY <1>1, BoundsAssumption
    DEF IInv, TypeOK, Next, ready, run, suspend, resume, ResumeSuspended, ResumeAfterStaleRecovery,
        recover_from_stale_suspend, terminate, Advance, lifecycleVars
  <1>4. RunningNow' \in Nat
    <2>1. RunningNow' = RunningValue'
      BY <1>1, RunningTimeValueNext
    <2>2. RunningValue' \in Int
      BY <1>1, BoundsAssumption DEF IInv, TypeOK, Never, RunningValue
    <2>3. RunningNow' \in Int
      BY <2>1, <2>2
    <2> QED
      BY <1>2, <2>3
  <1>5. PTypeOK' /\ Records' /\ Walk'
    BY <1>1 DEF PIInv, PTypeOK, Records, Walk, WalkedTreeIsGone, IInv, processVars
  <1>6. Plan'
    BY <1>3 DEF PIInv, Plan, BeforeTerm, Asleep, processVars, TaskType
  <1>7. task.termAt \in Nat /\ task.killAt \in Nat /\ UNCHANGED <<task, reason, history>>
    BY DEF TaskType, processVars
  <1>8. /\ RunningNow >= task.termAt => RunningNow' >= task.termAt
        /\ RunningNow >= task.killAt => RunningNow' >= task.killAt
    BY <1>2, <1>4, <1>7
  <1>9. Reached' /\ NoEarlySignal'
    BY <1>7, <1>8 DEF PIInv, Reached, NoEarlySignal
  <1> QED
    BY <1>1, <1>5, <1>6, <1>9 DEF PIInv

(* The invariant holds on every behaviour.                                 *)
THEOREM TimeoutTaskInductive == PSpec => []PIInv
  <1>1. PIInv /\ [PNext]_vars => PIInv'
    <2> SUFFICES ASSUME PIInv, [PNext]_vars PROVE PIInv'
      OBVIOUS
    <2>1. CASE start \/ SpawnRegistered \/ Arm
      BY <2>1, StartPreserves
    <2>2. CASE TimeoutTask
      BY <2>2, TaskStepsPreserve, RecordPreserves, TermTreePreserves, KillTreePreserves,
         KillGroupPreserves, SettlePreserves DEF TimeoutTask
    <2>3. CASE Supervise
      BY <2>3, SupervisePreserves
    <2>4. CASE ClientSignal \/ Kernel
      BY <2>4, ProcessesPreserve
    <2>5. CASE Session \/ UNCHANGED vars
      BY <2>5, SessionPreserves DEF Session, vars
    <2> QED
      BY <2>1, <2>2, <2>3, <2>4, <2>5 DEF PNext
  <1> QED
    BY <1>1, PInitEstablishes, PTL DEF PSpec

(* No process is marked as timed out before the running clock reached      *)
(* term_at, nor killed by the task before kill_at; and when the end of a   *)
(* tree is told as `timeout`, what lived at a SIGTERM walk from a living   *)
(* root is gone, whatever was forked, exited or was signalled since.       *)
THEOREM ProcessTimeoutIsSound == PSpec => []TimeoutSound
  <1>1. PIInv => WalkedAreGone
    BY DEF PIInv, Walk, WalkedTreeIsGone, WalkedAreGone
  <1>2. PIInv => TimeoutSound
    BY <1>1 DEF PIInv, TimeoutSound
  <1> QED
    BY TimeoutTaskInductive, <1>2, PTL

-----------------------------------------------------------------------------
(* The checkpoint of a suspend and its watchdogs.                          *)

(* Broadcasts are counted by the token, and no client holds a later one.   *)
Broadcasted == {g \in Generations : BroadcastDone(g)}
TokensCount ==
    /\ token = 1 + Cardinality(Broadcasted)
    /\ \A c \in Clients : tokenOf[c] <= token
    /\ \A g \in Generations : handler[g] # "none" => g <= suspendGeneration

(* The suspend in force, its freeze included, lies in the past.            *)
SuspendIsPast ==
    /\ frozenGen <= suspendGeneration
    /\ phase = "Suspending" => suspendedAt + FrozenOfThis <= now

(* What the readings of a watchdog mean.                                   *)
Counts(w) ==
    /\ w.gen <= suspendGeneration /\ w.unfrozen <= w.last /\ w.last <= now
    /\ (phase = "Suspending" /\ w.gen = suspendGeneration) =>
          /\ w.state = "running" =>
                \/ suspendedAt + FrozenOfThis <= w.last - w.unfrozen
                \/ FreezeFor <= now - w.last
          /\ w.state = "recovering" =>
                GateTimeout <= now - suspendedAt - FrozenOfThis
WatchdogCounts == \A g \in Generations : Counts(watchdog[g])

CIInv ==
    /\ IInv /\ CTypeOK /\ TokensCount
    /\ SuspendIsPast /\ WatchdogCounts /\ TransferSeesSuspend

(* The constants are numbers. *)
LEMMA Numbers ==
  /\ StreamCloseGrace \in Nat /\ HookBudget \in Nat /\ FreezeThreshold \in Nat
  /\ WatchdogTick \in Nat /\ GateTimeout \in Nat /\ FreezeFor \in Nat /\ MaxFreezes \in Nat
  /\ MaxSuspends \in Nat /\ MaxTime \in Nat /\ FreezeThreshold < FreezeFor
  BY CheckpointAssumption, BoundsAssumption

(* A boot after its /run satisfies the invariant of the phase machine.     *)
LEMMA InitAfterRunEstablishes == InitAfterRun => IInv
  <1> SUFFICES ASSUME InitAfterRun PROVE IInv
    OBVIOUS
  <1>1. runClaimed \in BOOLEAN /\ staleRecovered \in BOOLEAN /\ ~staleRecovered
    BY Zenon DEF InitAfterRun
  <1> QED
    BY <1>1, BoundsAssumption
    DEF InitAfterRun, IInv, TypeOK, HookPhase, Never, ResumeAnswersSuspend, Unresolved,
        PausesAreDisjoint, SuspendIsRecorded

(* Every step is one of the phase machine for its variables, or a freeze:  *)
(* the invariant of that machine holds here too.                           *)
LEMMA LifecycleInvariant == CIInv /\ [CNext]_cVars => IInv'
  <1> SUFFICES ASSUME CIInv, [CNext]_cVars PROVE IInv'
    OBVIOUS
  <1>1. CASE [Next]_lifecycleVars
    BY <1>1, NextPreserves DEF CIInv
  <1>2. CASE UNCHANGED lifecycleVars
    BY <1>1, <1>2
  <1>3. CASE \E s \in Streams : PassGate(s) \/ Subscribe(s) \/ CloseNow(s) \/ StreamEnds(s)
    BY <1>2, <1>3 DEF PassGate, Subscribe, CloseNow, StreamEnds
  <1>4. CASE \E x \in Transfers : interrupts(x) \/ TransferParks(x)
    BY <1>2, <1>4 DEF interrupts, TransferParks
  <1>5. CASE AcceptSuspend
    BY <1>1, <1>5 DEF AcceptSuspend, Next
  <1>6. CASE \E g \in Generations : HandlerStep(g) \/ DropHandler(g) \/ WatchdogWakes(g)
    BY <1>2, <1>6 DEF HandlerStep, Broadcast, WaitStreamsClosed, SpawnWatchdog, DropHandler, WatchdogWakes
  <1>7. CASE \E g \in Generations : Recovers(g)
    <2>1. PICK g \in Generations : Recovers(g)
      BY <1>7
    <2>2. CASE StillPending(watchdog[g])
      <3>1. watchdog[g].gen \in 1 .. MaxSuspends
        BY <2>2 DEF CIInv, IInv, TypeOK, ResumeAnswersSuspend, Unresolved, StillPending
      <3>2. recover_from_stale_suspend(watchdog[g].gen)
        BY <2>1, <2>2 DEF Recovers
      <3> QED
        BY <1>1, <3>1, <3>2 DEF Next
    <2>3. CASE ~StillPending(watchdog[g])
      BY <1>2, <2>1, <2>3 DEF Recovers
    <2> QED
      BY <2>2, <2>3
  <1>8. CASE AdvanceRunning \/ Resume \/ Terminate
    BY <1>1, <1>8 DEF AdvanceRunning, Resume, Terminate, Next
  <1>9. CASE Freeze
    <2>1. now' = now + FreezeFor /\ now' <= MaxTime /\ UNCHANGED stateVars /\ phase = "Suspending"
      BY <1>9 DEF Freeze
    <2> QED
      BY <2>1, Numbers
      DEF CIInv, IInv, TypeOK, HookPhase, Never, ResumeAnswersSuspend, Unresolved, PausesAreDisjoint,
          SuspendIsRecorded, stateVars
  <1>10. CASE UNCHANGED cVars
    BY <1>2, <1>10 DEF cVars
  <1> QED
    BY <1>3, <1>4, <1>5, <1>6, <1>7, <1>8, <1>9, <1>10 DEF CNext, WatchdogStep

(* What a step that leaves the phase machine, the clock and the watchdogs  *)
(* alone keeps.                                                            *)
LEMMA WatchdogsKept ==
  ASSUME CIInv, UNCHANGED <<lifecycleVars, watchdog, freezeVars>>
  PROVE  SuspendIsPast' /\ WatchdogCounts'
  BY DEF CIInv, SuspendIsPast, WatchdogCounts, Counts, FrozenOfThis, lifecycleVars, freezeVars

(* Nobody broadcasts or subscribes.                                        *)
LEMMA TokensKept ==
  ASSUME CIInv, UNCHANGED <<token, tokenOf, handler>>, suspendGeneration' = suspendGeneration
  PROVE  TokensCount'
  <1>1. Broadcasted' = Broadcasted
    BY DEF Broadcasted, BroadcastDone
  <1> QED
    BY <1>1 DEF CIInv, TokensCount

(* TransferSeesSuspend, when only one client c moves: if c is a transfer   *)
(* and is open afterwards, then the gate was open.                         *)
LEMMA ClientStep ==
  ASSUME CIInv, NEW c \in Clients, UNCHANGED <<lifecycleVars, token, handlerVars, freezeVars>>,
         NEW where \in {"idle", "gated", "subscribed", "open", "closed"},
         stream' = [stream EXCEPT ![c] = where],
         \/ tokenOf' = tokenOf
         \/ tokenOf' = [tokenOf EXCEPT ![c] = token],
         c \in Transfers /\ where = "open" => stream_gate
  PROVE  CTypeOK' /\ TokensCount' /\ SuspendIsPast' /\ WatchdogCounts' /\ TransferSeesSuspend'
  <1> USE Numbers
  <1>1. SuspendIsPast' /\ WatchdogCounts'
    BY WatchdogsKept DEF handlerVars
  <1>2. token \in 1 .. (MaxSuspends + 1) /\ tokenOf \in [Clients -> 0 .. (MaxSuspends + 1)]
        /\ \A d \in Clients : tokenOf[d] <= token
    BY DEF CIInv, CTypeOK, TokensCount
  <1>3. /\ tokenOf' \in [Clients -> 0 .. (MaxSuspends + 1)]
        /\ \A d \in Clients : tokenOf'[d] <= token
        /\ \A d \in Clients : d # c => tokenOf'[d] = tokenOf[d]
    BY <1>2
  <1>4. TokensCount'
    <2>1. Broadcasted' = Broadcasted
      BY DEF Broadcasted, BroadcastDone, handlerVars
    <2> QED
      BY <1>3, <2>1 DEF CIInv, TokensCount, handlerVars, lifecycleVars
  <1>5. /\ stream \in [Clients -> {"idle", "gated", "subscribed", "open", "closed"}]
        /\ stream' \in [Clients -> {"idle", "gated", "subscribed", "open", "closed"}]
        /\ stream'[c] = where
        /\ \A d \in Clients : d # c => stream'[d] = stream[d]
    BY DEF CIInv, CTypeOK
  <1>6. CTypeOK'
    BY <1>3, <1>5 DEF CIInv, CTypeOK, TypeOK, handlerVars, freezeVars, lifecycleVars
  <1>7. TransferSeesSuspend'
    <2> SUFFICES ASSUME phase = "Suspending", BroadcastDone(suspendGeneration),
                        NEW x \in Transfers, stream'[x] = "open"
                 PROVE  tokenOf'[x] < token
      BY DEF TransferSeesSuspend, Cancelled, BroadcastDone, handlerVars, lifecycleVars
    <2>1. x # c /\ x \in Clients
      BY <1>5 DEF stream_gate, Clients
    <2>2. stream[x] = "open" /\ tokenOf'[x] = tokenOf[x]
      BY <1>3, <1>5, <2>1
    <2> QED
      BY <2>2 DEF CIInv, TransferSeesSuspend, Cancelled
  <1> QED
    BY <1>1, <1>4, <1>6, <1>7

(* Streams and transfers come and go: the gate, the subscription, the end. *)
LEMMA ClientsPreserve ==
  ASSUME CIInv,
         \/ \E s \in Streams : PassGate(s) \/ Subscribe(s) \/ CloseNow(s) \/ StreamEnds(s)
         \/ \E x \in Transfers : interrupts(x) \/ TransferParks(x)
  PROVE  CTypeOK' /\ TokensCount' /\ SuspendIsPast' /\ WatchdogCounts' /\ TransferSeesSuspend'
  <1>1. CASE \E s \in Streams : PassGate(s) \/ Subscribe(s) \/ CloseNow(s) \/ StreamEnds(s)
    <2>1. PICK s \in Streams : PassGate(s) \/ Subscribe(s) \/ CloseNow(s) \/ StreamEnds(s)
      BY <1>1
    <2>2. s \in Clients /\ s \notin Transfers
      BY ClientsAssumption DEF Clients
    <2>3. /\ UNCHANGED <<lifecycleVars, token, handlerVars, freezeVars>>
          /\ \E where \in {"gated", "open", "closed"} : stream' = [stream EXCEPT ![s] = where]
          /\ tokenOf' = tokenOf \/ tokenOf' = [tokenOf EXCEPT ![s] = token]
      BY <2>1 DEF PassGate, Subscribe, CloseNow, StreamEnds
    <2> QED
      BY <2>2, <2>3, ClientStep
  <1>2. CASE \E x \in Transfers : interrupts(x) \/ TransferParks(x)
    <2>1. PICK x \in Transfers : interrupts(x) \/ TransferParks(x)
      BY <1>2
    <2>2. x \in Clients
      BY DEF Clients
    <2>3. /\ UNCHANGED <<lifecycleVars, token, handlerVars, freezeVars>>
          /\ \E where \in {"idle", "subscribed", "open"} :
                /\ stream' = [stream EXCEPT ![x] = where]
                /\ where = "open" => stream_gate
          /\ tokenOf' = tokenOf \/ tokenOf' = [tokenOf EXCEPT ![x] = token]
      BY <2>1 DEF interrupts, TransferParks
    <2> QED
      BY <2>2, <2>3, ClientStep
  <1> QED
    BY <1>1, <1>2

(* An accepted /suspend: its generation is new, so no handler, freeze or   *)
(* watchdog of it exists.                                                  *)
LEMMA AcceptPreserves ==
  ASSUME CIInv, IInv', AcceptSuspend
  PROVE  CTypeOK' /\ TokensCount' /\ SuspendIsPast' /\ WatchdogCounts' /\ TransferSeesSuspend'
  <1> USE Numbers
  <1> DEFINE sg == suspendGeneration + 1
  <1>1. /\ sg \in Generations /\ suspendGeneration' = sg
        /\ phase' = "Suspending" /\ suspendedAt' = now /\ now' = now
        /\ handler' = [handler EXCEPT ![sg] = "broadcast"]
        /\ startedAt' = [startedAt EXCEPT ![sg] = now]
        /\ UNCHANGED <<token, stream, tokenOf, pending, watchdog, freezes, frozenGen>>
        /\ now \in 0 .. MaxTime /\ suspendGeneration \in 0 .. MaxSuspends
    BY DEF AcceptSuspend, suspend, CIInv, IInv, TypeOK, Generations, streamVars, freezeVars
  <1>2. handler[sg] = "none"
    BY <1>1 DEF CIInv, TokensCount
  <1>3. CTypeOK'
    BY <1>1 DEF CIInv, CTypeOK, IInv
  <1>4. TokensCount'
    <2>1. Broadcasted' = Broadcasted
      BY <1>1, <1>2 DEF Broadcasted, BroadcastDone, CIInv, CTypeOK
    <2> QED
      BY <1>1, <2>1 DEF CIInv, TokensCount, CTypeOK, Generations
  <1>5. frozenGen < sg /\ FrozenOfThis' = 0 /\ frozenGen \in 0 .. MaxSuspends
    BY <1>1 DEF CIInv, SuspendIsPast, FrozenOfThis, CTypeOK
  <1>6. SuspendIsPast'
    BY <1>1, <1>5 DEF SuspendIsPast
  <1>7. WatchdogCounts'
    BY <1>1 DEF CIInv, WatchdogCounts, Counts, CTypeOK
  <1>8. TransferSeesSuspend'
    BY <1>1 DEF TransferSeesSuspend, BroadcastDone, CIInv, CTypeOK
  <1> QED
    BY <1>3, <1>4, <1>6, <1>7, <1>8

(* The broadcast of a handler cancels every subscription taken so far.     *)
LEMMA BroadcastPreserves ==
  ASSUME CIInv, IInv', NEW g \in Generations, Broadcast(g)
  PROVE  CTypeOK' /\ TokensCount' /\ SuspendIsPast' /\ WatchdogCounts' /\ TransferSeesSuspend'
  <1> USE Numbers
  <1>1. /\ handler[g] = "broadcast" /\ token' = token + 1
        /\ handler' = [handler EXCEPT ![g] = "waiting"]
        /\ UNCHANGED <<lifecycleVars, stream, tokenOf, startedAt, pending, watchdog, freezeVars>>
    BY DEF Broadcast
  <1>2. SuspendIsPast' /\ WatchdogCounts'
    BY <1>1, WatchdogsKept
  <1>3. Broadcasted' = Broadcasted \cup {g} /\ g \notin Broadcasted
    BY <1>1 DEF Broadcasted, BroadcastDone, CIInv, CTypeOK
  <1>4. IsFiniteSet(Generations) /\ Cardinality(Generations) = MaxSuspends
    BY FS_Interval DEF Generations
  <1>5. Broadcasted \subseteq Generations /\ Broadcasted' \subseteq Generations
    BY DEF Broadcasted
  <1>6. /\ IsFiniteSet(Broadcasted)
        /\ Cardinality(Broadcasted') <= MaxSuspends
        /\ Cardinality(Broadcasted') \in Nat /\ Cardinality(Broadcasted) \in Nat
    BY <1>4, <1>5, FS_Subset, FS_CardinalityType
  <1>7. Cardinality(Broadcasted') = Cardinality(Broadcasted) + 1
    BY <1>3, <1>6, FS_AddElement
  <1>8. token = 1 + Cardinality(Broadcasted) /\ token' \in 1 .. (MaxSuspends + 1)
    BY <1>1, <1>6, <1>7 DEF CIInv, TokensCount
  <1>9. \A c \in Clients : tokenOf[c] <= token /\ tokenOf[c] \in 0 .. (MaxSuspends + 1)
    BY DEF CIInv, TokensCount, CTypeOK
  <1>10. \A c \in Clients : tokenOf'[c] < token'
    BY <1>1, <1>8, <1>9 DEF CIInv, CTypeOK
  <1>11. \A h \in Generations : handler'[h] # "none" => handler[h] # "none"
    BY <1>1 DEF CIInv, CTypeOK
  <1>12. TokensCount'
    <2>1. token' = 1 + Cardinality(Broadcasted')
      BY <1>1, <1>6, <1>7, <1>8
    <2>2. \A c \in Clients : tokenOf'[c] <= token'
      BY <1>1, <1>8, <1>9
    <2>3. \A h \in Generations : handler'[h] # "none" => h <= suspendGeneration'
      BY <1>1, <1>11 DEF CIInv, TokensCount, lifecycleVars
    <2> QED
      BY <2>1, <2>2, <2>3 DEF TokensCount
  <1>13. CTypeOK'
    BY <1>1, <1>8 DEF CIInv, CTypeOK, IInv, freezeVars
  <1>14. TransferSeesSuspend'
    BY <1>10 DEF TransferSeesSuspend, Cancelled, Clients
  <1> QED
    BY <1>2, <1>12, <1>13, <1>14

(* A handler that has broadcast goes on: nothing the streams look at moves. *)
LEMMA HandlerMoves ==
  ASSUME CIInv, NEW g \in Generations, NEW where \in {"settling", "done", "dropped"},
         BroadcastDone(g), handler' = [handler EXCEPT ![g] = where],
         UNCHANGED <<lifecycleVars, streamVars>>
  PROVE  TokensCount' /\ TransferSeesSuspend'
  <1>1. \A h \in Generations : /\ BroadcastDone(h)' <=> BroadcastDone(h)
                               /\ handler'[h] # "none" => handler[h] # "none"
    BY DEF BroadcastDone, CIInv, CTypeOK
  <1>2. Broadcasted' = Broadcasted
    BY <1>1 DEF Broadcasted
  <1>3. TokensCount'
    BY <1>1, <1>2 DEF CIInv, TokensCount, streamVars, lifecycleVars
  <1>4. phase = "Suspending" => suspendGeneration \in Generations
    BY Numbers DEF CIInv, IInv, TypeOK, ResumeAnswersSuspend, Unresolved, Generations
  <1>5. TransferSeesSuspend'
    BY <1>1, <1>4 DEF CIInv, TransferSeesSuspend, Cancelled, streamVars, lifecycleVars
  <1> QED
    BY <1>3, <1>5

(* The steps of a handler after its broadcast.                             *)
LEMMA HandlersPreserve ==
  ASSUME CIInv, IInv', NEW g \in Generations,
         WaitStreamsClosed(g) \/ SpawnWatchdog(g) \/ DropHandler(g)
  PROVE  CTypeOK' /\ TokensCount' /\ SuspendIsPast' /\ WatchdogCounts' /\ TransferSeesSuspend'
  <1> USE Numbers
  <1>1. TokensCount' /\ TransferSeesSuspend'
    <2>1. /\ BroadcastDone(g) /\ UNCHANGED <<lifecycleVars, streamVars>>
          /\ \E where \in {"settling", "done", "dropped"} :
                handler' = [handler EXCEPT ![g] = where]
      BY DEF WaitStreamsClosed, SpawnWatchdog, DropHandler, BroadcastDone
    <2> QED
      BY <2>1, HandlerMoves
  <1>2. CASE WaitStreamsClosed(g)
    <2>1. open_streams \in 0 .. Cardinality(Clients)
      <3>1. IsFiniteSet(Clients)
        BY ClientsAssumption, FS_Union DEF Clients
      <3> DEFINE open == {c \in Clients : stream[c] \in {"open", "subscribed"}}
      <3>2. open \subseteq Clients
        OBVIOUS
      <3>3. Cardinality(open) \in Nat /\ Cardinality(Clients) \in Nat
            /\ Cardinality(open) <= Cardinality(Clients)
        BY <3>1, <3>2, FS_Subset, FS_CardinalityType
      <3> QED
        BY <3>3 DEF open_streams
    <2>2. CTypeOK'
      BY <1>2, <2>1 DEF WaitStreamsClosed, CIInv, CTypeOK, IInv, streamVars, freezeVars
    <2> QED
      BY <1>1, <1>2, <2>2, WatchdogsKept DEF WaitStreamsClosed
  <1>3. CASE SpawnWatchdog(g)
    <2>1. /\ UNCHANGED <<lifecycleVars, streamVars, startedAt, pending, freezeVars>>
          /\ handler' = [handler EXCEPT ![g] = "done"]
          /\ watchdog' = [watchdog EXCEPT ![g] =
               [state |-> "running", gen |-> suspendGeneration, last |-> now, unfrozen |-> 0]]
          /\ now \in 0 .. MaxTime /\ suspendGeneration \in 0 .. MaxSuspends
      BY <1>3 DEF SpawnWatchdog, CIInv, IInv, TypeOK
    <2>2. CTypeOK'
      BY <2>1 DEF CIInv, CTypeOK, IInv, streamVars, freezeVars
    <2>3. SuspendIsPast'
      BY <2>1 DEF CIInv, SuspendIsPast, FrozenOfThis, lifecycleVars, freezeVars
    <2>4. FrozenOfThis \in Nat /\ FrozenOfThis' = FrozenOfThis
      BY <2>1 DEF FrozenOfThis, lifecycleVars, freezeVars
    <2>5. WatchdogCounts'
      <3> SUFFICES ASSUME NEW h \in Generations PROVE Counts(watchdog[h])'
        BY DEF WatchdogCounts
      <3>1. CASE h = g
        <4>1. watchdog'[h] = [state |-> "running", gen |-> suspendGeneration, last |-> now, unfrozen |-> 0]
          BY <2>1, <3>1 DEF CIInv, CTypeOK
        <4>2. phase = "Suspending" => suspendedAt \in 0 .. MaxTime
          BY DEF CIInv, IInv, SuspendIsRecorded, Unresolved, TypeOK, Never
        <4> QED
          BY <2>1, <2>4, <4>1, <4>2 DEF CIInv, SuspendIsPast, Counts, lifecycleVars
      <3>2. CASE h # g
        <4>1. watchdog'[h] = watchdog[h]
          BY <2>1, <3>2 DEF CIInv, CTypeOK
        <4> QED
          BY <2>1, <2>4, <4>1 DEF CIInv, WatchdogCounts, Counts, lifecycleVars
      <3> QED
        BY <3>1, <3>2
    <2> QED
      BY <1>1, <2>2, <2>3, <2>5
  <1>4. CASE DropHandler(g)
    <2>1. CTypeOK'
      BY <1>4 DEF DropHandler, CIInv, CTypeOK, IInv, streamVars, freezeVars
    <2> QED
      BY <1>1, <1>4, <2>1, WatchdogsKept DEF DropHandler
  <1> QED
    BY <1>2, <1>3, <1>4

(* No stream, subscription or handler moves, and no suspend begins.        *)
LEMMA StreamsKept ==
  ASSUME CIInv, UNCHANGED <<streamVars, handler>>, suspendGeneration' = suspendGeneration,
         phase' = "Suspending" => phase = "Suspending"
  PROVE  TokensCount' /\ TransferSeesSuspend'
  <1>1. TokensCount'
    BY TokensKept DEF streamVars
  <1>2. TransferSeesSuspend'
    BY DEF CIInv, TransferSeesSuspend, BroadcastDone, Cancelled, streamVars
  <1> QED
    BY <1>1, <1>2

(* A tick of a watchdog. It goes on, or decides to recover, only when no   *)
(* freeze lies between its last reading and now.                           *)
LEMMA WakePreserves ==
  ASSUME CIInv, IInv', NEW g \in Generations, WatchdogWakes(g)
  PROVE  CTypeOK' /\ TokensCount' /\ SuspendIsPast' /\ WatchdogCounts' /\ TransferSeesSuspend'
  <1> USE Numbers
  <1> DEFINE w == watchdog[g]
             elapsed == now - w.last
             next == IF TickVerdict(w, elapsed) = "running"
                     THEN [w EXCEPT !.last = now, !.unfrozen = w.unfrozen + elapsed]
                     ELSE Stopped(TickVerdict(w, elapsed), w.gen)
  <1>1. /\ w.state = "running" /\ watchdog' = [watchdog EXCEPT ![g] = next]
        /\ UNCHANGED <<lifecycleVars, streamVars, handler, startedAt, pending, freezeVars>>
    BY DEF WatchdogWakes
  <1>2. /\ w \in [state : {"none", "running", "frozen", "superseded", "recovering", "recovered"},
                  gen : 0 .. MaxSuspends, last : 0 .. MaxTime, unfrozen : 0 .. MaxTime]
        /\ Counts(w) /\ now \in 0 .. MaxTime
    BY DEF CIInv, CTypeOK, WatchdogCounts, IInv, TypeOK
  <1>3. phase = "Suspending" => suspendedAt \in 0 .. MaxTime
    BY DEF CIInv, IInv, SuspendIsRecorded, Unresolved, TypeOK, Never
  <1>4. FrozenOfThis \in Nat /\ FrozenOfThis' = FrozenOfThis
    BY <1>1 DEF FrozenOfThis, lifecycleVars, freezeVars
  <1> HIDE DEF w
  <1>5. /\ next \in [state : {"none", "running", "frozen", "superseded", "recovering", "recovered"},
                     gen : 0 .. MaxSuspends, last : 0 .. MaxTime, unfrozen : 0 .. MaxTime]
        /\ Counts(next)
    <2>1. CASE TickVerdict(w, elapsed) = "running"
      <3>1. elapsed <= FreezeThreshold /\ elapsed \in Nat
        BY <1>2, <2>1 DEF TickVerdict, Counts
      <3>2. /\ next.state = "running" /\ next.gen = w.gen /\ next.last = now
            /\ next.unfrozen = w.unfrozen + elapsed
            /\ next = [state |-> "running", gen |-> w.gen, last |-> now, unfrozen |-> w.unfrozen + elapsed]
        BY <1>1, <1>2, <2>1
      <3>3. w.unfrozen + elapsed <= now /\ w.unfrozen + elapsed \in Nat
            /\ now - (w.unfrozen + elapsed) = w.last - w.unfrozen
        BY <1>2, <3>1 DEF Counts
      <3> HIDE DEF next
      <3>4. Counts(next)
        BY <1>1, <1>2, <1>3, <1>4, <3>1, <3>2, <3>3 DEF Counts
      <3> QED
        BY <1>2, <3>2, <3>3, <3>4
    <2>2. CASE TickVerdict(w, elapsed) = "recovering"
      <3>1. elapsed <= FreezeThreshold /\ elapsed \in Nat /\ w.unfrozen + elapsed >= GateTimeout
        BY <1>2, <2>2 DEF TickVerdict, Counts
      <3>2. next = [state |-> "recovering", gen |-> w.gen, last |-> 0, unfrozen |-> 0]
        BY <2>2 DEF Stopped
      <3> HIDE DEF next
      <3>3. Counts(next)
        BY <1>1, <1>2, <1>3, <1>4, <3>1, <3>2 DEF Counts
      <3> QED
        BY <1>2, <3>2, <3>3
    <2>3. CASE TickVerdict(w, elapsed) \in {"frozen", "superseded"}
      <3>1. PICK verdict \in {"frozen", "superseded"} :
              next = [state |-> verdict, gen |-> w.gen, last |-> 0, unfrozen |-> 0]
        BY <2>3 DEF Stopped
      <3> HIDE DEF next
      <3> QED
        BY <1>2, <3>1 DEF Counts
    <2> QED
      BY <2>1, <2>2, <2>3 DEF TickVerdict
  <1> HIDE DEF next
  <1>6. CTypeOK'
    BY <1>1, <1>5 DEF CIInv, CTypeOK, IInv, streamVars, freezeVars
  <1>7. WatchdogCounts'
    <2> SUFFICES ASSUME NEW h \in Generations PROVE Counts(watchdog[h])'
      BY DEF WatchdogCounts
    <2>1. watchdog'[h] = next \/ watchdog'[h] = watchdog[h]
      BY <1>1 DEF CIInv, CTypeOK
    <2>2. Counts(next) /\ Counts(watchdog[h])
      BY <1>5 DEF CIInv, WatchdogCounts
    <2> QED
      BY <1>1, <1>4, <2>1, <2>2 DEF Counts, lifecycleVars
  <1>8. SuspendIsPast'
    BY <1>1 DEF CIInv, SuspendIsPast, FrozenOfThis, lifecycleVars, freezeVars
  <1>9. TokensCount' /\ TransferSeesSuspend'
    BY <1>1, StreamsKept DEF lifecycleVars
  <1> QED
    BY <1>6, <1>7, <1>8, <1>9

(* `recover`: the watchdog that decided to recover ends, whether or not it *)
(* is superseded.                                                          *)
LEMMA RecoverPreserves ==
  ASSUME CIInv, IInv', NEW g \in Generations, Recovers(g)
  PROVE  CTypeOK' /\ TokensCount' /\ SuspendIsPast' /\ WatchdogCounts' /\ TransferSeesSuspend'
  <1> USE Numbers
  <1>1. PICK verdict \in {"recovered", "superseded"} :
          /\ watchdog' = [watchdog EXCEPT ![g].state = verdict]
          /\ UNCHANGED <<streamVars, handler, startedAt, pending, freezeVars, suspendGeneration, now>>
          /\ (phase' = phase /\ suspendedAt' = suspendedAt) \/ phase' # "Suspending"
    BY DEF Recovers, recover_from_stale_suspend, lifecycleVars
  <1>2. \A h \in Generations :
          /\ watchdog'[h].gen = watchdog[h].gen /\ watchdog'[h].last = watchdog[h].last
          /\ watchdog'[h].unfrozen = watchdog[h].unfrozen
          /\ watchdog'[h].state \in {watchdog[h].state, verdict}
    BY <1>1 DEF CIInv, CTypeOK
  <1>3. CTypeOK'
    BY <1>1 DEF CIInv, CTypeOK, IInv, streamVars, freezeVars
  <1>4. FrozenOfThis' = FrozenOfThis
    BY <1>1 DEF FrozenOfThis, freezeVars
  <1>5. SuspendIsPast'
    BY <1>1, <1>4 DEF CIInv, SuspendIsPast, freezeVars
  <1>6. WatchdogCounts'
    <2> SUFFICES ASSUME NEW h \in Generations PROVE Counts(watchdog[h])'
      BY DEF WatchdogCounts
    <2> QED
      BY <1>1, <1>2, <1>4 DEF CIInv, WatchdogCounts, Counts
  <1>7. TokensCount' /\ TransferSeesSuspend'
    BY <1>1, StreamsKept
  <1> QED
    BY <1>3, <1>5, <1>6, <1>7

(* The clock runs, the platform freezes the VM, answers it with /resume or *)
(* ends it. A freeze puts itself between every watchdog's last reading and *)
(* now.                                                                    *)
LEMMA PlatformPreserves ==
  ASSUME CIInv, IInv', AdvanceRunning \/ Freeze \/ Resume \/ Terminate \/ UNCHANGED cVars
  PROVE  CTypeOK' /\ TokensCount' /\ SuspendIsPast' /\ WatchdogCounts' /\ TransferSeesSuspend'
  <1> USE Numbers
  <1>1. /\ UNCHANGED <<streamVars, handlerVars, suspendGeneration>>
        /\ phase' = "Suspending" => phase = "Suspending"
    BY DEF AdvanceRunning, Advance, Freeze, Resume, resume, ResumeSuspended, ResumeAfterStaleRecovery,
           Terminate, terminate, cVars, lifecycleVars, checkpointVars, streamVars, handlerVars, stateVars
  <1>2. TokensCount' /\ TransferSeesSuspend'
    BY <1>1, StreamsKept DEF handlerVars
  <1>3. /\ phase = "Suspending" => suspendedAt \in 0 .. MaxTime
        /\ now \in 0 .. MaxTime /\ suspendGeneration \in 0 .. MaxSuspends
    BY DEF CIInv, IInv, SuspendIsRecorded, Unresolved, TypeOK, Never
  <1>4. \A g \in Generations :
          /\ watchdog[g] \in [state : {"none", "running", "frozen", "superseded", "recovering", "recovered"},
                              gen : 0 .. MaxSuspends, last : 0 .. MaxTime, unfrozen : 0 .. MaxTime]
          /\ Counts(watchdog[g])
    BY DEF CIInv, CTypeOK, WatchdogCounts
  <1>5. CASE Freeze
    <2>1. /\ phase = "Suspending" /\ frozenGen # suspendGeneration /\ freezes < MaxFreezes
          /\ now' = now + FreezeFor /\ freezes' = freezes + 1 /\ frozenGen' = suspendGeneration
          /\ UNCHANGED <<stateVars, phase, suspendedAt, suspendGeneration, streamVars, handlerVars>>
      BY <1>5 DEF Freeze, stateVars
    <2>2. CTypeOK'
      BY <1>3, <2>1 DEF CIInv, CTypeOK, IInv, streamVars, handlerVars
    <2>3. FrozenOfThis = 0 /\ FrozenOfThis' = FreezeFor
      BY <2>1 DEF FrozenOfThis
    <2>4. SuspendIsPast'
      BY <1>3, <2>1, <2>3 DEF CIInv, SuspendIsPast
    <2>5. WatchdogCounts'
      <3> SUFFICES ASSUME NEW g \in Generations PROVE Counts(watchdog[g])'
        BY DEF WatchdogCounts
      <3>1. watchdog'[g] = watchdog[g]
        BY <2>1 DEF handlerVars
      <3> QED
        BY <1>3, <1>4, <2>1, <2>3, <3>1 DEF Counts
    <2> QED
      BY <1>2, <2>2, <2>4, <2>5
  <1>6. CASE ~Freeze
    <2>1. /\ UNCHANGED checkpointVars
          /\ \/ now' = now + 1 /\ phase' = phase /\ suspendedAt' = suspendedAt
             \/ now' = now /\ phase' = phase /\ suspendedAt' = suspendedAt
             \/ now' = now /\ phase' # "Suspending"
      BY <1>6 DEF AdvanceRunning, Advance, Resume, resume, ResumeSuspended, ResumeAfterStaleRecovery,
                  Terminate, terminate, cVars, lifecycleVars, stateVars
    <2>2. CTypeOK'
      BY <2>1 DEF CIInv, CTypeOK, IInv, checkpointVars
    <2>3. FrozenOfThis' = FrozenOfThis /\ FrozenOfThis \in Nat
      BY <1>1, <2>1 DEF FrozenOfThis, checkpointVars
    <2>4. SuspendIsPast'
      BY <1>1, <1>3, <2>1, <2>3 DEF CIInv, SuspendIsPast, checkpointVars
    <2>5. WatchdogCounts'
      <3> SUFFICES ASSUME NEW g \in Generations PROVE Counts(watchdog[g])'
        BY DEF WatchdogCounts
      <3>1. watchdog'[g] = watchdog[g]
        BY <2>1 DEF checkpointVars
      <3> QED
        BY <1>1, <1>3, <1>4, <2>1, <2>3, <3>1 DEF Counts
    <2> QED
      BY <1>2, <2>2, <2>4, <2>5
  <1> QED
    BY <1>5, <1>6

(* The invariant holds right after the boot's /run.                        *)
LEMMA CheckpointInitEstablishes == CheckpointInit => CIInv
  <1> SUFFICES ASSUME CheckpointInit PROVE CIInv
    OBVIOUS
  <1> USE Numbers
  <1>1. IInv
    BY InitAfterRunEstablishes DEF CheckpointInit
  <1>2. phase = "Running" /\ suspendGeneration = 0 /\ now = 0
    BY DEF CheckpointInit, InitAfterRun
  <1>3. Cardinality(Clients) \in Nat
    BY ClientsAssumption, FS_Union, FS_CardinalityType DEF Clients
  <1>4. CTypeOK
    BY <1>1, <1>3 DEF CheckpointInit, CTypeOK, IInv, NoWatchdog
  <1>5. TokensCount
    <2>1. Broadcasted = {}
      BY DEF Broadcasted, BroadcastDone, CheckpointInit
    <2> QED
      BY <2>1, FS_EmptySet DEF CheckpointInit, TokensCount
  <1>6. SuspendIsPast /\ WatchdogCounts /\ TransferSeesSuspend
    BY <1>2 DEF CheckpointInit, NoWatchdog, SuspendIsPast, WatchdogCounts, Counts, TransferSeesSuspend
  <1> QED
    BY <1>1, <1>4, <1>5, <1>6 DEF CIInv

(* Every step of the checkpoint path preserves it.                         *)
LEMMA CNextPreserves == CIInv /\ [CNext]_cVars => CIInv'
  <1> SUFFICES ASSUME CIInv, [CNext]_cVars PROVE CIInv'
    OBVIOUS
  <1>1. IInv'
    BY LifecycleInvariant
  <1> SUFFICES CTypeOK' /\ TokensCount' /\ SuspendIsPast' /\ WatchdogCounts' /\ TransferSeesSuspend'
    BY <1>1 DEF CIInv
  <1>2. CASE \/ \E s \in Streams : PassGate(s) \/ Subscribe(s) \/ CloseNow(s) \/ StreamEnds(s)
             \/ \E x \in Transfers : interrupts(x) \/ TransferParks(x)
    BY <1>2, ClientsPreserve
  <1>3. CASE AcceptSuspend
    BY <1>1, <1>3, AcceptPreserves
  <1>4. CASE \E g \in Generations : HandlerStep(g) \/ DropHandler(g)
    BY <1>1, <1>4, BroadcastPreserves, HandlersPreserve DEF HandlerStep
  <1>5. CASE \E g \in Generations : WatchdogStep(g)
    BY <1>1, <1>5, WakePreserves, RecoverPreserves DEF WatchdogStep
  <1>6. CASE AdvanceRunning \/ Freeze \/ Resume \/ Terminate \/ UNCHANGED cVars
    BY <1>1, <1>6, PlatformPreserves
  <1> QED
    BY <1>2, <1>3, <1>4, <1>5, <1>6 DEF CNext

(* The checkpoint path keeps CIInv on every behaviour.                     *)
THEOREM CheckpointInductive == CSpec => []CIInv
  BY CheckpointInitEstablishes, CNextPreserves, PTL DEF CSpec

(* However subscriptions, gate checks, /suspend, broadcasts and /resume    *)
(* interleave, no transfer runs on a live subscription after the broadcast *)
(* of the suspend in force.                                                *)
THEOREM CheckpointIsSound == CSpec => []CheckpointSound
  <1>1. CIInv => CheckpointSound
    BY DEF CIInv, CheckpointSound
  <1> QED
    BY CheckpointInductive, <1>1, PTL

(* No watchdog reopens a suspend before the gate timeout of unfrozen time, *)
(* not one that an earlier suspend's handler spawned late.                 *)
THEOREM RecoveryIsNeverEarly == CSpec => RecoveryWaits
  <1> DEFINE Recovery == staleRecovered' /\ ~staleRecovered
             Waited == now - suspendedAt - FrozenOfThis >= GateTimeout
  <1>1. ASSUME CIInv, [CNext]_cVars, Recovery PROVE Waited
    <2>1. PICK g \in Generations : Recovers(g) /\ StillPending(watchdog[g])
      <3>1. CASE UNCHANGED lifecycleVars
        BY <1>1, <3>1 DEF lifecycleVars
      <3>2. CASE \/ \E s \in Streams : PassGate(s) \/ Subscribe(s) \/ CloseNow(s) \/ StreamEnds(s)
                 \/ \E x \in Transfers : interrupts(x) \/ TransferParks(x)
        BY <3>1, <3>2 DEF PassGate, Subscribe, CloseNow, StreamEnds, interrupts, TransferParks
      <3>3. CASE \E g \in Generations : HandlerStep(g) \/ DropHandler(g) \/ WatchdogWakes(g)
        BY <3>1, <3>3 DEF HandlerStep, Broadcast, WaitStreamsClosed, SpawnWatchdog, DropHandler, WatchdogWakes
      <3>4. CASE AcceptSuspend
        BY <1>1, <3>4 DEF AcceptSuspend, suspend
      <3>5. CASE AdvanceRunning \/ Freeze \/ Resume \/ Terminate
        BY <1>1, <3>5 DEF AdvanceRunning, Advance, Freeze, Resume, resume, ResumeSuspended,
             ResumeAfterStaleRecovery, Terminate, terminate, stateVars
      <3>6. CASE UNCHANGED cVars
        BY <3>1, <3>6 DEF cVars
      <3>7. CASE \E g \in Generations : Recovers(g)
        BY <3>1, <3>7 DEF Recovers
      <3> QED
        BY <1>1, <3>2, <3>3, <3>4, <3>5, <3>6, <3>7 DEF CNext, WatchdogStep
    <2>2. watchdog[g].state = "recovering" /\ Counts(watchdog[g])
      BY <1>1, <2>1 DEF Recovers, CIInv, WatchdogCounts
    <2>3. /\ now \in Nat /\ FrozenOfThis \in Nat /\ suspendedAt \in Int /\ GateTimeout \in Nat
      BY <1>1, Numbers DEF CIInv, IInv, TypeOK, Never, FrozenOfThis
    <2> QED
      BY <2>1, <2>2, <2>3 DEF Counts, StillPending
  <1>2. CIInv /\ [CNext]_cVars => [Recovery => Waited]_cVars
    BY <1>1
  <1> QED
    BY CheckpointInductive, <1>2, PTL DEF CSpec, RecoveryWaits

===============================================================================
