-------------------------- MODULE ProcessTimeout ---------------------------
(***************************************************************************)
(* The server-enforced timeout of one process: spawn_timeout_task,         *)
(* running_sleep and ProcessControl (crates/rayd/src/process/runtime.rs,   *)
(* crates/rayd/src/lifecycle/running_sleep.rs), racing the supervisor of   *)
(* the process (ProcessManager::supervise), client signals, pauses of the  *)
(* VM and the exit of the process itself.                                  *)
(*                                                                         *)
(* The task and the supervisor run on a multi-threaded runtime, so each    *)
(* access to shared state (the session lock, the clock, ProcessControl,    *)
(* the process table) is a step of its own.  running_now() reads the clock *)
(* first and takes the state lock afterwards: two steps.                   *)
(*                                                                         *)
(* The process is a root and the descendants that left its process group.  *)
(* Each of them may fork another at any time.  The root is a subreaper, so *)
(* a walk of the process table finds every descendant while the root       *)
(* lives; once it has exited a walk finds those that an earlier walk       *)
(* remembered and what descends from them.                                 *)
(***************************************************************************)
EXTENDS HookLifecycle

CONSTANTS
    Timeout,      \* the timeout the client asked for
    KillGrace,    \* KILL_GRACE between SIGTERM and SIGKILL
    SettlePoll,   \* TREE_SETTLE_POLL
    Descendants   \* the processes that the root and its descendants may fork

ASSUME TimeoutAssumption ==
    Timeout \in Nat /\ KillGrace \in Nat /\ SettlePoll \in Nat \ {0}

VARIABLES
    killScope,     \* KillScope: "Group" or "Tree"
    root,          \* "none", "alive", "zombie" or "reaped"
    live,          \* the descendants alive
    known,         \* ProcessTree.members
    reason,        \* ProcessControl.reason
    reaped,        \* ProcessControl.reaped
    settled,       \* permit of ProcessControl.tree_settled
    task,          \* the timeout task
    supervisor,    \* program counter of supervise
    outcome,       \* what child.wait() returned: "none", "ok" or "error"
    status,        \* status of the EndEvent
    aborted,       \* the supervisor aborted the timeout task
    history        \* ghost: facts the properties talk about

processVars == <<killScope, root, live, known, reason, reaped, settled,
                 task, supervisor, outcome, status, aborted, history>>
vars == <<lifecycleVars, processVars>>

Min(a, b) == IF a < b THEN a ELSE b

(* Deadline::remaining is None. *)
Due(at, running) == running >= at

ProcessInit ==
    /\ killScope \in {"Group", "Tree"}
    /\ root = "none"
    /\ live = {}
    /\ known = {}
    /\ reason = "Natural"
    /\ reaped = FALSE
    /\ settled = FALSE
    /\ task = [pc |-> "none", next |-> "none", reading |-> 0, wakeAt |-> 0,
               target |-> 0, termAt |-> 0, killAt |-> 0]
    /\ supervisor = "none"
    /\ outcome = "none"
    /\ status = "none"
    /\ aborted = FALSE
    /\ history = [atTerm |-> {}, killed |-> FALSE]

PInit == InitAfterRun /\ ProcessInit

----------------------------------------------------------------------------
(* ProcessManager::start passes its gate; planning the spawn awaits. *)
start ==
    /\ stream_gate
    /\ supervisor = "none"
    /\ supervisor' = "starting"
    /\ UNCHANGED <<killScope, root, live, known, reason, reaped, settled,
                   task, outcome, status, aborted, history>>
    /\ UNCHANGED lifecycleVars

(* start_ungated: the child is spawned and registered, whatever the phase  *)
(* is by now, and TimeoutPlan::new begins by reading the clock.            *)
SpawnRegistered ==
    /\ supervisor = "starting"
    /\ supervisor' = "spawned"
    /\ root' = "alive"
    /\ task' = [task EXCEPT !.pc = "arm", !.reading = now]
    /\ UNCHANGED <<killScope, live, known, reason, reaped, settled, outcome,
                   status, aborted, history>>
    /\ UNCHANGED lifecycleVars

(* TimeoutPlan::new on the running time of that reading; the task is then  *)
(* spawned and waits for its first poll, and so is the supervisor.         *)
Arm ==
    LET at == running_time(task.reading) + Timeout IN
    /\ task.pc = "arm"
    /\ task' = [task EXCEPT !.pc = "sleep", !.wakeAt = now, !.next = "due",
                            !.reading = 0,
                            !.target = at, !.termAt = at, !.killAt = at + KillGrace]
    /\ supervisor' = "pump"
    /\ UNCHANGED <<killScope, root, live, known, reason, reaped, settled,
                   outcome, status, aborted, history>>
    /\ UNCHANGED lifecycleVars

(* running_sleep: read the clock, compare under the lock, sleep the rest.  *)
(* The sleep is the only await of the task, so the only place an abort     *)
(* takes effect.                                                           *)
SleepWakes ==
    /\ task.pc = "sleep"
    /\ now >= task.wakeAt
    /\ ~aborted
    /\ task' = [task EXCEPT !.pc = "check", !.reading = now, !.wakeAt = 0]

(* Mutant: running_sleep trusts the first wake-up. *)
Bug_SleepOnce ==
    /\ task.pc = "check"
    /\ task' = [task EXCEPT !.pc = task.next]

SleepChecks ==
    LET running == running_time(task.reading) IN
    /\ task.pc = "check"
    /\ task' = IF Due(task.target, running)
               THEN [task EXCEPT !.pc = task.next, !.reading = 0]
               ELSE [task EXCEPT !.pc = "sleep", !.reading = 0,
                                 !.wakeAt = now + (task.target - running)]

SleepAborted ==
    /\ task.pc = "sleep"
    /\ aborted
    /\ task' = [task EXCEPT !.pc = "done"]

TermDue ==
    /\ task.pc = "due"
    /\ task' = [task EXCEPT !.pc = IF reaped THEN "done" ELSE "record"]

TaskOnly ==
    /\ SleepWakes \/ SleepChecks \/ SleepAborted \/ TermDue
    /\ UNCHANGED <<killScope, root, live, known, reason, reaped, settled,
                   supervisor, outcome, status, aborted, history>>
    /\ UNCHANGED lifecycleVars

(* ProcessControl::record(Timeout). *)
RecordTimeout ==
    /\ task.pc = "record"
    /\ reason' = "Timeout"
    /\ task' = [task EXCEPT !.pc = IF killScope = "Tree" THEN "termTree" ELSE "termGroup"]
    /\ UNCHANGED <<killScope, root, live, known, reaped, settled,
                   supervisor, outcome, status, aborted, history>>
    /\ UNCHANGED lifecycleVars

(* ProcessTree::reachable: every descendant from a living root, otherwise  *)
(* the remembered ones still alive and any of those they forked.           *)
Reaches(found) ==
    /\ known \cap live \subseteq found
    /\ found \subseteq live
    /\ root = "alive" => found = live
    /\ root # "alive" /\ known \cap live = {} => found = {}

(* TreeTarget::signal(SIGTERM): every member found is remembered. *)
TermTree ==
    /\ task.pc = "termTree"
    /\ \E found \in SUBSET live : Reaches(found) /\ known' = known \cup found
    /\ history' = [history EXCEPT !.atTerm = IF root = "alive" THEN live ELSE {}]
    /\ task' = [task EXCEPT !.pc = "termGroup"]
    /\ UNCHANGED <<killScope, root, live, reason, reaped, settled, supervisor,
                   outcome, status, aborted>>
    /\ UNCHANGED lifecycleVars

(* SIGTERM to the group; the processes react to it in their own time.      *)
TermGroup ==
    /\ task.pc = "termGroup"
    /\ task' = IF killScope = "Tree"
               THEN [task EXCEPT !.pc = "gone"]
               ELSE [task EXCEPT !.pc = "sleep", !.wakeAt = now,
                                 !.target = task.killAt, !.next = "killGroup"]
    /\ UNCHANGED <<killScope, root, live, known, reason, reaped, settled,
                   supervisor, outcome, status, aborted, history>>
    /\ UNCHANGED lifecycleVars

(* tree_gone_before: stop when the root was reaped and nothing known is    *)
(* left, kill once kill_at is due, else sleep for one poll.  A descendant  *)
(* forked after the walk is not among the known.                           *)
TreeIsGone == root # "alive" /\ known \cap live = {}

GoneCheck ==
    /\ task.pc = "gone"
    /\ task' = IF reaped /\ TreeIsGone
               THEN [task EXCEPT !.pc = "settle"]
               ELSE [task EXCEPT !.pc = "grace", !.reading = now]

GraceCheck ==
    LET running == running_time(task.reading)
        poll == Min(running + SettlePoll, task.killAt)
    IN
    /\ task.pc = "grace"
    /\ task' = IF Due(task.killAt, running)
               THEN [task EXCEPT !.pc = "killTree", !.reading = 0]
               ELSE [task EXCEPT !.pc = "check", !.reading = now,
                                 !.target = poll, !.next = "gone"]

GraceLoop ==
    /\ GoneCheck \/ GraceCheck
    /\ UNCHANGED <<killScope, root, live, known, reason, reaped, settled,
                   supervisor, outcome, status, aborted, history>>
    /\ UNCHANGED lifecycleVars

(* ProcessTree::kill: freeze pass after pass what is reachable, then kill  *)
(* it.  A tree that forks through all MAX_FREEZE_PASSES leaves the forked  *)
(* ones of the last pass alive and unknown.                                *)
KillsTree ==
    \E found \in SUBSET live, missed \in SUBSET (Descendants \ (live \cup known)) :
        /\ Reaches(found)
        /\ found = {} => missed = {}
        /\ live' = (live \ found) \cup missed
        /\ known' = known \cup found

(* TreeTarget::signal(SIGKILL). *)
KillTree ==
    /\ task.pc = "killTree"
    /\ KillsTree
    /\ task' = [task EXCEPT !.pc = "killGroup"]
    /\ history' = [history EXCEPT !.killed = TRUE]
    /\ UNCHANGED <<killScope, root, reason, reaped, settled, supervisor, outcome,
                   status, aborted>>
    /\ UNCHANGED lifecycleVars

(* SIGKILL to the group unless the root was reaped. *)
KillGroup ==
    /\ task.pc = "killGroup"
    /\ root' = IF ~reaped /\ root = "alive" THEN "zombie" ELSE root
    /\ history' = [history EXCEPT !.killed = @ \/ ~reaped]
    /\ task' = [task EXCEPT !.pc = IF killScope = "Tree" THEN "settle" ELSE "done"]
    /\ UNCHANGED <<killScope, live, known, reason, reaped, settled,
                   supervisor, outcome, status, aborted>>
    /\ UNCHANGED lifecycleVars

(* Mutant: the task ends without settling the tree. *)
Bug_NeverSettles ==
    /\ task.pc = "settle"
    /\ task' = [task EXCEPT !.pc = "done"]
    /\ UNCHANGED <<killScope, root, live, known, reason, reaped, settled,
                   supervisor, outcome, status, aborted, history>>
    /\ UNCHANGED lifecycleVars

SettleTree ==
    /\ task.pc = "settle"
    /\ settled' = TRUE
    /\ task' = [task EXCEPT !.pc = "done"]
    /\ UNCHANGED <<killScope, root, live, known, reason, reaped,
                   supervisor, outcome, status, aborted, history>>
    /\ UNCHANGED lifecycleVars

TimeoutTask == TaskOnly \/ RecordTimeout \/ TermTree \/ TermGroup \/ GraceLoop
                 \/ KillTree \/ KillGroup \/ SettleTree

----------------------------------------------------------------------------
(* supervise: both pipes reached their end and child.wait() returned: the  *)
(* root has exited, and its status was read or was not there any more.     *)
ChildWaited ==
    /\ supervisor = "pump"
    /\ root = "zombie" /\ root' = "reaped"
    /\ outcome' \in {"ok", "error"}
    /\ supervisor' = "waited"
    /\ UNCHANGED <<reaped, settled, status, aborted>>

(* ProcessControl::mark_reaped. *)
MarkReaped ==
    /\ supervisor = "waited"
    /\ reaped' = TRUE
    /\ supervisor' = "marked"
    /\ UNCHANGED <<root, outcome, settled, status, aborted>>

(* A tree whose timeout fired is awaited before the EndEvent. *)
ReadReason ==
    /\ supervisor = "marked"
    /\ supervisor' = IF killScope = "Tree" /\ reason = "Timeout"
                     THEN "settling"
                     ELSE "settled"
    /\ UNCHANGED <<root, outcome, reaped, settled, status, aborted>>

AwaitSettled ==
    /\ supervisor = "settling"
    /\ settled
    /\ settled' = FALSE
    /\ supervisor' = "settled"
    /\ UNCHANGED <<root, outcome, reaped, status, aborted>>

(* end_from_wait reads the reason again; a failed wait is told as such. *)
EndFromWait ==
    /\ supervisor = "settled"
    /\ status' = IF outcome = "error" THEN "wait_failed"
                 ELSE IF reason = "Timeout" THEN "timeout" ELSE "exited"
    /\ supervisor' = "finish"
    /\ UNCHANGED <<root, outcome, reaped, settled, aborted>>

(* finish: the EndEvent is recorded and the timeout task aborted. *)
Finish ==
    /\ supervisor = "finish"
    /\ aborted' = TRUE
    /\ supervisor' = "ended"
    /\ UNCHANGED <<root, outcome, reaped, settled, status>>

Supervise ==
    /\ ChildWaited \/ MarkReaped \/ ReadReason \/ AwaitSettled \/ EndFromWait \/ Finish
    /\ UNCHANGED <<killScope, live, known, reason, task, history>>
    /\ UNCHANGED lifecycleVars

----------------------------------------------------------------------------
(* ProcessManager::send_signal on an entry that is still live: record the  *)
(* reason unless the timeout fired, signal the tree, signal the group.     *)
ClientSignal ==
    /\ supervisor \in {"pump", "waited", "marked", "settling", "settled", "finish"}
    /\ reason' = IF reason = "Timeout" THEN reason ELSE "Signal"
    /\ \/ /\ IF killScope = "Tree" THEN KillsTree ELSE UNCHANGED <<live, known>>
          /\ root' = IF root = "alive" THEN "zombie" ELSE root
       \/ /\ \E found \in SUBSET live :
                killScope = "Tree" /\ Reaches(found) /\ known' = known \cup found
          /\ UNCHANGED <<live, root>>
    /\ UNCHANGED <<killScope, reaped, settled, task, supervisor, outcome, status,
                   aborted, history>>
    /\ UNCHANGED lifecycleVars

(* The processes of the sandbox fork, and exit on their own or from a      *)
(* SIGTERM.  A pid and start time never name two processes.  Nothing looks *)
(* at the descendants of a process with KillScope::Group.                  *)
ProcessForks ==
    /\ killScope = "Tree"
    /\ root = "alive" \/ live # {}
    /\ \E d \in Descendants \ (live \cup known) : live' = live \cup {d}
    /\ UNCHANGED root

ProcessExits ==
    \/ root = "alive" /\ root' = "zombie" /\ UNCHANGED live
    \/ \E d \in live : live' = live \ {d} /\ UNCHANGED root

Kernel ==
    /\ ProcessForks \/ ProcessExits
    /\ UNCHANGED <<killScope, known, reason, reaped, settled, task, supervisor,
                   outcome, status, aborted, history>>
    /\ UNCHANGED lifecycleVars

Session == Next /\ UNCHANGED processVars

PNext == start \/ SpawnRegistered \/ Arm \/ TimeoutTask \/ Supervise \/ ClientSignal \/ Kernel \/ Session

PSpec == PInit /\ [][PNext]_vars

(* The runtime polls a ready task and time passes; a child is reaped once  *)
(* it exited.  Nothing is assumed of clients, hooks or the processes.      *)
FairSpec ==
    PSpec /\ WF_vars(TimeoutTask) /\ WF_vars(Supervise)
          /\ WF_vars(Advance /\ UNCHANGED processVars)

----------------------------------------------------------------------------
(* Every variable has its type.                                            *)
PTypeOK ==
    /\ TypeOK
    /\ killScope \in {"Group", "Tree"}
    /\ root \in {"none", "alive", "zombie", "reaped"}
    /\ live \subseteq Descendants /\ known \subseteq Descendants
    /\ outcome \in {"none", "ok", "error"}
    /\ reason \in {"Natural", "Timeout", "Signal"}
    /\ reaped \in BOOLEAN
    /\ settled \in BOOLEAN
    /\ task.pc \in {"none", "arm", "sleep", "check", "due", "record", "termTree",
                    "termGroup", "gone", "grace", "killTree", "killGroup",
                    "settle", "done"}
    /\ task.target <= task.killAt
    /\ supervisor \in {"none", "starting", "spawned", "pump", "waited", "marked", "settling", "settled",
                       "finish", "ended"}
    /\ status \in {"none", "timeout", "exited", "wait_failed"}
    /\ aborted \in BOOLEAN

(* The deadline fires on the running clock: whatever pauses, recoveries    *)
(* and stale clock readings happen between arming and waking, no process   *)
(* is marked as timed out before the running clock reached term_at, nor    *)
(* killed by the task before kill_at.                                      *)
NoEarlySignal ==
    /\ reason = "Timeout" => RunningNow >= task.termAt
    /\ history.killed => RunningNow >= task.killAt

(* When the EndEvent `timeout` is sent, none of the descendants that lived *)
(* at a SIGTERM walk from a living root is left, whatever else signalled   *)
(* the tree, forked or exited since: the supervisor waits for the task,    *)
(* and the task for what it remembered.  Descendants forked after the walk *)
(* may still live; is_gone looks at the remembered ones only.              *)
WalkedAreGone ==
    (status = "timeout" /\ killScope = "Tree") => history.atTerm \cap live = {}

(***************************************************************************)
(* The timeout of a process as a whole: no signal before the running clock *)
(* says so, and the end of a tree is told when what the SIGTERM walk found *)
(* is gone.                                                                *)
(***************************************************************************)
TimeoutSound ==
    /\ PTypeOK
    /\ NoEarlySignal
    /\ WalkedAreGone

(* The supervisor never waits forever for a tree the timeout task forgot:  *)
(* a reaped process always gets its EndEvent.  The one exception is the    *)
(* horizon of the model: a task asleep for a time past the last tick.      *)
PastHorizon == task.pc = "sleep" /\ task.wakeAt > MaxTime
EndEventComes == reaped ~> (supervisor = "ended" \/ PastHorizon)

=============================================================================
