---------------------------- MODULE SandboxPool ----------------------------
(***************************************************************************)
(* SandboxPool (clients/typescript/src/pool): a pool of suspended VMs.     *)
(* The filler, the warm-ups, the sweep, take() and close() are promises of *)
(* one Node process: between two awaits a task is atomic, at every await   *)
(* the others run.  Calls to the backend go through one FIFO queue.        *)
(*                                                                         *)
(* A VM is named by its launch order, so a smaller name expires first:     *)
(* the VMs up to `wall' have less than minRemainingMs left.  The process   *)
(* may crash and start again on a persistent backend.                      *)
(***************************************************************************)
EXTENDS Naturals, Sequences, FiniteSets

CONSTANTS
    Size,             \* PoolConfig.size
    FillConcurrency,  \* PoolConfig.fillConcurrency
    MaxVMs,           \* bound: launches the account's quota allows
    Takers,           \* calls of take()
    MaxFaults         \* bound: crashes, and events outside the pool

ASSUME PoolAssumption ==
    /\ Size \in Nat \ {0}
    /\ FillConcurrency \in Nat \ {0}
    /\ MaxVMs \in Nat
    /\ MaxFaults \in Nat

VMs == 1 .. MaxVMs
Foreign == 0                     \* a parked slot of another image's pool
Slots == VMs \cup {Foreign}
NoVM == MaxVMs + 1
Warmers == 1 .. Size

VARIABLES
    vm,          \* the account: state of each VM
    launched,    \* the account: number of VMs launched
    wall,        \* the clock: VMs 1 .. wall are stale
    records,     \* #records
    backend,     \* the backend's records
    queue,       \* #backendQueue: the calls not done yet
    filler,      \* start() and #runFiller: program counter
    woken,       \* the filler's waker was called
    backoff,     \* #pendingBackoffMs is set
    sweep,       \* #recover and #sweep: pc, clock reading, listing, slots to visit
    warm,        \* the warm-up tasks
    inflight,    \* #inflight
    free,        \* free permits of the semaphore
    take,        \* the calls of take()
    closing,     \* close(): program counter
    drain,       \* its option
    draining,    \* slots #drain has still to visit
    held,        \* ghost: VMs a client was given
    crashes,     \* ghost: crashes so far
    outside      \* ghost: events outside the pool so far

account == <<vm, launched, wall>>
store == <<records, backend, queue>>
loop == <<filler, woken, backoff>>
warming == <<warm, inflight, free>>
close == <<closing, drain, draining>>
ghost == <<held, crashes, outside>>
vars == <<account, store, loop, sweep, warming, take, close, ghost>>

Idle == [pc |-> "idle", id |-> NoVM, next |-> "none"]
NoSweep == [pc |-> "idle", id |-> NoVM, ids |-> {}, now |-> 0,
            listed |-> [v \in Slots |-> "absent"]]
NoTake == [pc |-> "idle", id |-> NoVM, wait |-> FALSE]

(* The state of a new process. *)
NewProcess ==
    [records |-> [v \in Slots |-> "none"], warm |-> [w \in Warmers |-> Idle]]

Init ==
    /\ vm = [v \in Slots |-> IF v = Foreign THEN "SUSPENDED" ELSE "none"]
    /\ launched = 0 /\ wall = 0
    /\ records = NewProcess.records
    /\ backend = [v \in Slots |-> IF v = Foreign THEN "ready" ELSE "none"]
    /\ queue = <<>>
    /\ filler = "new" /\ woken = FALSE /\ backoff = FALSE
    /\ sweep = NoSweep
    /\ warm = NewProcess.warm /\ inflight = 0 /\ free = FillConcurrency
    /\ take = [t \in Takers |-> NoTake]
    /\ closing = "open" /\ drain = TRUE /\ draining = {}
    /\ held = {} /\ crashes = 0 /\ outside = 0

----------------------------------------------------------------------------
(* Helpers.                                                                *)

stopping == closing # "open"
readyRecords == {v \in Slots : records[v] = "ready"}
Least(S) == CHOOSE v \in S : \A u \in S : v <= u

(* slotIsStale at the clock reading n. *)
slotIsStale(v, n) == v <= n

(* ownsSlot: the record carries the image of this pool. *)
ownsSlot(v) == v # Foreign

deficit == Size - (Cardinality(readyRecords) + inflight)

(* reconcileAction for a ready slot. *)
reconcileAction(state) ==
    CASE state = "absent" -> "check"
      [] state = "RUNNING" -> "repark"
      [] state = "TERMINATED" -> "drop"
      [] OTHER -> "keep"

(* #notifyAll wakes the filler and every take that waits.                  *)
Notified(calls) ==
    [t \in Takers |-> IF calls[t].pc = "wait" THEN [calls[t] EXCEPT !.pc = "retry"]
                                              ELSE calls[t]]
notifyAll == woken' = TRUE /\ take' = Notified(take)

(* #terminate: a call that failed is only logged, and the VM is LEFT: it   *)
(* lives until its own timeout, and no record names it.                    *)
Over == {"TERMINATED", "LEFT"}
Terminate(v) ==
    \E s \in IF vm[v] = "TERMINATED" THEN {vm[v]} ELSE Over : vm' = [vm EXCEPT ![v] = s]

(* #backendCall: calls are done one at a time, in order.  Mine(by): the    *)
(* task `by' waits for the call at the head of the queue.                  *)
Call(op, v, by) == Append(queue, [op |-> op, id |-> v, by |-> by])
Mine(by) == queue # <<>> /\ Head(queue).by = by
Done == /\ queue' = Tail(queue)
        /\ backend' = [backend EXCEPT ![Head(queue).id] = Head(queue).op]
Failed == queue' = Tail(queue) /\ UNCHANGED backend

(* #forget: nothing to do for a slot no longer in memory; else the record  *)
(* goes at once and its deletion from the backend is queued.               *)
Forget(v, by) ==
    /\ records' = [records EXCEPT ![v] = "none"]
    /\ queue' = Call("none", v, by)
    /\ UNCHANGED backend

----------------------------------------------------------------------------
(* start(): #recover, one sweep, then the filler.  close() may come first. *)

start ==
    /\ filler = "new" /\ ~stopping
    /\ filler' = "recover"
    /\ sweep' = [NoSweep EXCEPT !.pc = "recover",
                    !.ids = {v \in Slots : backend[v] # "none" /\ ownsSlot(v)}]
    /\ UNCHANGED <<account, store, woken, backoff, warming, take, close, ghost>>

(* A ready record is adopted; a warming one is an orphan, whose record is  *)
(* deleted before its VM is terminated.                                    *)
recover ==
    /\ sweep.pc = "recover" /\ queue = <<>> /\ sweep.ids # {}
    /\ LET v == Least(sweep.ids) IN
       /\ sweep' = [sweep EXCEPT !.ids = @ \ {v}]
       /\ IF backend[v] = "ready"
          THEN /\ records' = [records EXCEPT ![v] = "ready"]
               /\ UNCHANGED <<vm, backend>>
          ELSE /\ backend' = [backend EXCEPT ![v] = "none"]
               /\ Terminate(v)
               /\ UNCHANGED records
    /\ UNCHANGED <<launched, wall, queue, loop, warming, take, close, ghost>>

(* The sweep begins: the clock and the ready records are read.             *)
SweepBegins == [NoSweep EXCEPT !.pc = "recycle", !.ids = readyRecords, !.now = wall]

firstSweep ==
    /\ sweep.pc = "recover" /\ sweep.ids = {}
    /\ filler' = "starting"
    /\ sweep' = SweepBegins
    /\ UNCHANGED <<account, store, woken, backoff, warming, take, close, ghost>>

startFiller ==
    /\ filler = "starting" /\ sweep.pc = "idle"
    /\ filler' = "loop"
    /\ UNCHANGED <<account, store, woken, backoff, sweep, warming, take, close, ghost>>

Started == filler \notin {"new", "recover", "starting"}

----------------------------------------------------------------------------
(* #runFiller: fill, wait for work, sweep when due.                        *)

(* #fill and #submitWarmUps: one task per missing slot, counted at once. *)
Submitted ==
    IF deficit <= 0 THEN {}
    ELSE CHOOSE new \in SUBSET {w \in Warmers : warm[w].pc = "idle"} :
            Cardinality(new) = deficit

(* A turn of the loop: end, pause for a pending backoff, or submit and     *)
(* then wait for work with a fresh waker (#waitForWork returns at once     *)
(* when a warm-up failed meanwhile, which the next turn sees as well).     *)
runFiller ==
    /\ filler = "loop"
    /\ IF stopping THEN filler' = "ended" /\ UNCHANGED <<woken, backoff, warm, inflight>>
       ELSE IF backoff
       THEN filler' = "backoff" /\ backoff' = FALSE /\ UNCHANGED <<woken, warm, inflight>>
       ELSE /\ filler' = "wait" /\ woken' = FALSE
            /\ warm' = [w \in Warmers |-> IF w \in Submitted
                           THEN [Idle EXCEPT !.pc = "queued"] ELSE warm[w]]
            /\ inflight' = inflight + Cardinality(Submitted)
            /\ UNCHANGED backoff
    /\ UNCHANGED <<account, store, sweep, free, take, close, ghost>>

(* The pause ends, or close() interrupts it; then as above, without a      *)
(* second pause for a backoff set during the first.                        *)
pause ==
    /\ filler = "backoff"
    /\ filler' = IF stopping \/ backoff THEN "loop" ELSE "wait"
    /\ woken' = FALSE
    /\ IF stopping THEN UNCHANGED <<warm, inflight>>
       ELSE /\ warm' = [w \in Warmers |-> IF w \in Submitted
                           THEN [Idle EXCEPT !.pc = "queued"] ELSE warm[w]]
            /\ inflight' = inflight + Cardinality(Submitted)
    /\ UNCHANGED <<account, store, backoff, sweep, free, take, close, ghost>>

(* Woken by #notifyAll; or the sweep interval passed (or requestSweep was  *)
(* called) and the sweep begins, unless the pool stops.                    *)
wake ==
    /\ filler = "wait"
    /\ \/ (woken \/ stopping) /\ filler' = "loop" /\ UNCHANGED sweep
       \/ ~stopping /\ filler' = "sweep" /\ sweep' = SweepBegins
    /\ UNCHANGED <<account, store, woken, backoff, warming, take, close, ghost>>

sweepReturns ==
    /\ filler = "sweep" /\ sweep.pc = "idle"
    /\ filler' = "loop"
    /\ UNCHANGED <<account, store, woken, backoff, sweep, warming, take, close, ghost>>

Filler == runFiller \/ pause \/ wake \/ sweepReturns

----------------------------------------------------------------------------
(* #warmUp, one task.  To(pc) is its next step.                            *)

To(w, pc) == warm' = [warm EXCEPT ![w].pc = pc]

acquire(w) ==
    /\ warm[w].pc = "queued" /\ free > 0
    /\ free' = free - 1
    /\ To(w, "launch")
    /\ UNCHANGED <<account, store, inflight, take, loop>>

(* run-microvm, then #recordLaunch inside it: the record is saved before   *)
(* create() knows of the VM.                                               *)
recordLaunch(w) ==
    /\ warm[w].pc = "launch" /\ launched < MaxVMs
    /\ launched' = launched + 1
    /\ vm' = [vm EXCEPT ![launched + 1] = "RUNNING"]
    /\ warm' = [warm EXCEPT ![w].pc = "saving", ![w].id = launched + 1]
    /\ queue' = Call("warming", launched + 1, <<"warm", w>>)
    /\ UNCHANGED <<wall, records, backend, inflight, free, take, loop>>

(* run-microvm fails: a quota, capacity or network error. *)
launchFails(w) ==
    /\ warm[w].pc = "launch"
    /\ To(w, "failed")
    /\ UNCHANGED <<account, store, inflight, free, take, loop>>

LaunchSaved(w) ==
    /\ warm[w].pc = "saving" /\ Mine(<<"warm", w>>)
    /\ \/ Done /\ records' = [records EXCEPT ![warm[w].id] = "warming"]
         /\ To(w, "create") /\ UNCHANGED vm
       \/ Failed /\ Terminate(warm[w].id) /\ To(w, "failed") /\ UNCHANGED records
    /\ UNCHANGED <<launched, wall, inflight, free, take, loop>>

(* create() waits for readiness; #park settles the kernel, runs the warmup *)
(* steps and pauses, unless the pool stops.  A failed create() has         *)
(* terminated its VM, a failed step of #park has not.                      *)
createAndPark(w) ==
    LET v == warm[w].id IN
    /\ warm[w].pc = "create"
    /\ \/ To(w, "failed") /\ Terminate(v)
       \/ To(w, "parkFailed") /\ UNCHANGED vm
       \/ stopping /\ To(w, "discard") /\ UNCHANGED vm
       \/ ~stopping /\ vm[v] = "RUNNING" /\ To(w, "paused")
         /\ vm' = [vm EXCEPT ![v] = "SUSPENDED"]
    /\ UNCHANGED <<launched, wall, store, inflight, free, take, loop>>

(* The slot is ready in memory at once, in the backend once saved.         *)
recordReady(w) ==
    LET v == warm[w].id IN
    /\ warm[w].pc = "paused"
    /\ IF stopping
       THEN To(w, "discard") /\ UNCHANGED <<records, queue>>
       ELSE /\ records' = [records EXCEPT ![v] = "ready"]
            /\ queue' = Call("ready", v, <<"warm", w>>)
            /\ To(w, "parking")
    /\ UNCHANGED <<account, backend, inflight, free, take, loop>>

ReadySaved(w) ==
    /\ warm[w].pc = "parking" /\ Mine(<<"warm", w>>)
    /\ Done /\ notifyAll /\ To(w, "end")
    /\ UNCHANGED <<account, records, inflight, free, filler, backoff>>

(* #discard and #warmUpFailed begin with #forget, which finds nothing to   *)
(* do when no record was made.                                             *)
Bug_ParkedVMLeft(next) == [pc |-> "end", backoff |-> next # "discard"]
Forgotten(next) ==
    CASE next = "discard" -> [pc |-> "terminate", backoff |-> FALSE]
      [] next = "failed" -> [pc |-> "end", backoff |-> TRUE]
      [] next = "parkFailed" -> [pc |-> "terminate", backoff |-> TRUE]

AfterForget(w, next) ==
    /\ To(w, Forgotten(next).pc)
    /\ backoff' = (backoff \/ Forgotten(next).backoff)
    /\ notifyAll

warmUpFailed(w) ==
    LET v == warm[w].id IN
    /\ warm[w].pc \in {"discard", "failed", "parkFailed"}
    /\ IF v # NoVM /\ records[v] # "none"
       THEN /\ Forget(v, <<"warm", w>>)
            /\ warm' = [warm EXCEPT ![w].pc = "forget", ![w].next = warm[w].pc]
            /\ UNCHANGED <<take, woken, backoff>>
       ELSE AfterForget(w, warm[w].pc) /\ UNCHANGED store
    /\ UNCHANGED <<account, inflight, free, filler>>

forgetDone(w) ==
    /\ warm[w].pc = "forget" /\ Mine(<<"warm", w>>)
    /\ Done
    /\ AfterForget(w, warm[w].next)
    /\ UNCHANGED <<account, records, inflight, free, filler>>

(* The VM is terminated where the code does, then the finally blocks of    *)
(* #warmUp run.                                                            *)
Ends(w, freed, counted) ==
    /\ warm[w].pc \in {"terminate", "end"}
    /\ IF warm[w].pc = "terminate" THEN Terminate(warm[w].id) ELSE UNCHANGED vm
    /\ free' = free + freed
    /\ inflight' = inflight - counted
    /\ warm' = [warm EXCEPT ![w] = Idle]
    /\ notifyAll
    /\ UNCHANGED <<launched, wall, store, filler, backoff>>

Bug_PermitKept(w) == Ends(w, 0, 1)
Bug_InflightKept(w) == Ends(w, 1, IF backoff THEN 0 ELSE 1)
warmUpEnds(w) == Ends(w, 1, 1)

WarmUp(w) ==
    /\ \/ acquire(w) \/ recordLaunch(w) \/ launchFails(w) \/ LaunchSaved(w)
       \/ createAndPark(w) \/ recordReady(w) \/ ReadySaved(w) \/ warmUpFailed(w) \/ forgetDone(w)
       \/ warmUpEnds(w)
    /\ UNCHANGED <<sweep, close, ghost>>

----------------------------------------------------------------------------
(* #sweep: recycle the stale slots, then reconcile with list-microvms.     *)

(* #forget by the sweep; a slot taken meanwhile is skipped. *)
SweepForgets(v, pc) ==
    IF records[v] = "none"
    THEN sweep' = [sweep EXCEPT !.ids = @ \ {v}] /\ UNCHANGED store
    ELSE sweep' = [sweep EXCEPT !.pc = pc, !.id = v, !.ids = @ \ {v}] /\ Forget(v, <<"sweep">>)

recycleStale ==
    /\ sweep.pc = "recycle" /\ sweep.ids # {}
    /\ LET v == Least(sweep.ids) IN
       IF slotIsStale(v, sweep.now) THEN SweepForgets(v, "recycling")
       ELSE sweep' = [sweep EXCEPT !.ids = @ \ {v}] /\ UNCHANGED store
    /\ UNCHANGED <<account, take, loop>>

(* The record is gone: a recycled slot is terminated, a lost one is not.   *)
sweepForgot ==
    /\ sweep.pc \in {"recycling", "losing"} /\ Mine(<<"sweep">>)
    /\ Done /\ notifyAll
    /\ IF sweep.pc = "recycling" THEN Terminate(sweep.id) ELSE UNCHANGED vm
    /\ sweep' = [sweep EXCEPT !.pc = IF @ = "recycling" THEN "recycle" ELSE "reconcile",
                              !.id = NoVM]
    /\ UNCHANGED <<launched, wall, records, filler, backoff>>

(* #listedStates: the answer is a state of the account that is already     *)
(* past when the sweep reads it; a terminated VM may be missing from it.   *)
Shown(state) == CASE state = "none" -> "absent" [] state = "LEFT" -> "RUNNING" [] OTHER -> state
listedStates ==
    /\ sweep.pc = "recycle" /\ sweep.ids = {}
    /\ \/ \E gone \in SUBSET {v \in VMs : vm[v] = "TERMINATED"} :
            sweep' = [sweep EXCEPT !.pc = "listed", !.listed =
                [v \in Slots |-> IF v \in gone THEN "absent" ELSE Shown(vm[v])]]
       \/ sweep' = NoSweep
    /\ UNCHANGED <<account, store, take, loop>>

reconcileBegins ==
    /\ sweep.pc = "listed"
    /\ sweep' = [sweep EXCEPT !.pc = "reconcile", !.ids = readyRecords]
    /\ UNCHANGED <<account, store, take, loop>>

reconcile ==
    /\ sweep.pc = "reconcile" /\ sweep.ids # {}
    /\ LET v == Least(sweep.ids)
           action == reconcileAction(sweep.listed[v])
       IN
       IF action = "drop" \/ (action = "check" /\ vm[v] = "TERMINATED")
       THEN SweepForgets(v, "losing") /\ UNCHANGED vm
       ELSE /\ sweep' = [sweep EXCEPT !.ids = @ \ {v}]
            /\ vm' = IF action = "repark" /\ vm[v] = "RUNNING"
                     THEN [vm EXCEPT ![v] = "SUSPENDED"] ELSE vm
            /\ UNCHANGED store
    /\ UNCHANGED <<launched, wall, take, loop>>

sweepEnds ==
    /\ sweep.pc = "reconcile" /\ sweep.ids = {}
    /\ sweep' = NoSweep
    /\ UNCHANGED <<account, store, take, loop>>

Sweep ==
    /\ recycleStale \/ sweepForgot \/ listedStates \/ reconcileBegins \/ reconcile \/ sweepEnds
    /\ UNCHANGED <<warming, close, ghost>>

----------------------------------------------------------------------------
(* take().                                                                 *)

TakeTo(t, pc) == take' = [take EXCEPT ![t].pc = pc]

takeCalled(t) ==
    /\ take[t].pc = "idle" /\ Started /\ ~stopping
    /\ \E wait \in BOOLEAN : take' = [take EXCEPT ![t].pc = "claim", ![t].wait = wait]
    /\ UNCHANGED <<account, store, woken, held>>

(* #claimReadySlot ends with #notifyAll. *)
Claimed(t, pc) == woken' = TRUE /\ take' = Notified([take EXCEPT ![t].pc = pc])

(* #popReady: pick and delete from memory in one step, then the backend.   *)
popReady(t) ==
    LET fit == {v \in readyRecords : ~slotIsStale(v, wall)} IN
    /\ take[t].pc \in {"claim", "retry"}
    /\ IF take[t].pc = "retry" /\ stopping
       THEN TakeTo(t, "failed") /\ UNCHANGED <<store, woken>>
       ELSE IF fit # {}
       THEN /\ take' = [take EXCEPT ![t].pc = "deleting", ![t].id = Least(fit)]
            /\ Forget(Least(fit), <<"take", t>>)
            /\ UNCHANGED woken
       ELSE /\ IF take[t].wait THEN TakeTo(t, "register") /\ UNCHANGED woken
               ELSE Claimed(t, "fallback")
            /\ UNCHANGED store
    /\ UNCHANGED <<account, held>>

(* The wait registers its waker, or its time is up. *)
waitForWake(t) ==
    /\ \/ take[t].pc = "register" /\ TakeTo(t, "wait") /\ UNCHANGED woken
       \/ take[t].pc = "wait" /\ Claimed(t, "fallback")
    /\ UNCHANGED <<account, store, held>>

slotDeleted(t) ==
    /\ take[t].pc = "deleting" /\ Mine(<<"take", t>>)
    /\ \/ Done /\ Claimed(t, "resume")
       \/ Failed /\ TakeTo(t, "failed") /\ UNCHANGED woken
    /\ UNCHANGED <<account, records, held>>

(* #resumeSlot: a VM that was not SUSPENDED is lost, and terminated.       *)
resumeSlot(t) ==
    LET v == take[t].id IN
    /\ take[t].pc = "resume"
    /\ \/ vm[v] = "SUSPENDED" /\ vm' = [vm EXCEPT ![v] = "RUNNING"] /\ TakeTo(t, "open")
       \/ Terminate(v) /\ TakeTo(t, "fallback")
    /\ UNCHANGED <<launched, wall, store, woken, held>>

(* #openSlot: the handle is opened (a request resumes a suspended VM); an  *)
(* open or a gateway section that failed has terminated the VM.            *)
openSlot(t) ==
    LET v == take[t].id IN
    /\ take[t].pc = "open"
    /\ \/ vm[v] \notin Over /\ vm' = [vm EXCEPT ![v] = "RUNNING"]
         /\ TakeTo(t, "done") /\ held' = held \cup {v}
       \/ Terminate(v) /\ TakeTo(t, "fallback") /\ UNCHANGED held
       \/ Terminate(v) /\ TakeTo(t, "failed") /\ UNCHANGED held
    /\ UNCHANGED <<launched, wall, store, woken>>

(* #fallback: a plain create() outside the pool's records. *)
fallback(t) ==
    /\ take[t].pc = "fallback"
    /\ \/ /\ launched < MaxVMs
          /\ launched' = launched + 1
          /\ vm' = [vm EXCEPT ![launched + 1] = "RUNNING"]
          /\ held' = held \cup {launched + 1}
          /\ TakeTo(t, "done")
       \/ TakeTo(t, "failed") /\ UNCHANGED <<launched, vm, held>>
    /\ UNCHANGED <<wall, store, woken>>

Take(t) ==
    /\ \/ popReady(t) \/ waitForWake(t) \/ slotDeleted(t) \/ resumeSlot(t)
       \/ openSlot(t) \/ fallback(t)
    /\ UNCHANGED <<filler, backoff, sweep, warming, close, crashes, outside>>

CallTake(t) ==
    takeCalled(t) /\ UNCHANGED <<filler, backoff, sweep, warming, close, crashes, outside>>

----------------------------------------------------------------------------
(* close(): stop, join the filler for at most CLOSE_JOIN_MS (so it may     *)
(* still be sweeping afterwards), wait for the warm-ups, then drain.       *)

closeCalled ==
    /\ closing = "open"
    /\ closing' = "settle"
    /\ drain' \in BOOLEAN
    /\ notifyAll
    /\ UNCHANGED <<account, store, filler, backoff, sweep, warming, draining, ghost>>

warmUpsSettled ==
    /\ closing = "settle"
    /\ \A w \in Warmers : warm[w].pc = "idle"
    /\ closing' = IF drain THEN "drain" ELSE "closed"
    /\ draining' = IF drain THEN {v \in Slots : records[v] # "none"} ELSE {}
    /\ UNCHANGED <<account, store, take, loop>>

Bug_DrainUnchecked ==
    /\ closing = "drain" /\ draining # {}
    /\ draining' = draining \ {Least(draining)}
    /\ Forget(Least(draining), <<"close">>) /\ closing' = "draining"
    /\ UNCHANGED <<account, take, loop>>
drainSlot ==
    /\ closing = "drain" /\ draining # {}
    /\ LET v == Least(draining) IN
       /\ draining' = draining \ {v}
       /\ IF records[v] = "none"
          THEN UNCHANGED <<store, closing>>
          ELSE Forget(v, <<"close">>) /\ closing' = "draining"
    /\ UNCHANGED <<account, take, loop>>

drained ==
    /\ closing = "draining" /\ Mine(<<"close">>)
    /\ \/ Done /\ notifyAll /\ Terminate(Head(queue).id) /\ closing' = "drain"
       \/ Failed /\ closing' = "rejected" /\ UNCHANGED <<vm, woken, take>>
    /\ UNCHANGED <<launched, wall, records, filler, backoff, draining>>

closed ==
    /\ closing = "drain" /\ draining = {}
    /\ closing' = "closed"
    /\ UNCHANGED <<account, store, draining, take, loop>>

Close ==
    /\ warmUpsSettled \/ drainSlot \/ drained \/ closed
    /\ UNCHANGED <<sweep, warming, drain, ghost>>

----------------------------------------------------------------------------
(* The process ends (a backend call that fails in a background task ends   *)
(* it too, as an unhandled rejection), and another begins on the backend.  *)
Crash ==
    /\ crashes + outside < MaxFaults
    /\ crashes' = crashes + 1
    /\ records' = NewProcess.records
    /\ queue' = <<>>
    /\ filler' = "new" /\ woken' = FALSE /\ backoff' = FALSE
    /\ sweep' = NoSweep
    /\ warm' = NewProcess.warm /\ inflight' = 0 /\ free' = FillConcurrency
    /\ take' = [t \in Takers |-> IF take[t].pc \in {"idle", "done", "failed"} THEN take[t]
                                 ELSE [NoTake EXCEPT !.pc = "failed"]]
    /\ closing' = "open" /\ drain' = TRUE /\ draining' = {}
    /\ UNCHANGED <<account, backend, held, outside>>

(* Time passes; somebody else resumes a parked VM; a VM ends by itself.    *)
Outside ==
    /\ crashes + outside < MaxFaults
    /\ outside' = outside + 1
    /\ \/ wall < launched /\ wall' = wall + 1 /\ UNCHANGED vm
       \/ \E v \in VMs : /\ vm[v] = "SUSPENDED" /\ UNCHANGED wall
                         /\ vm' = [vm EXCEPT ![v] = "RUNNING"]
       \/ \E v \in VMs \ held : /\ vm[v] \in {"RUNNING", "SUSPENDED"} /\ UNCHANGED wall
                                 /\ vm' = [vm EXCEPT ![v] = "TERMINATED"]
    /\ UNCHANGED <<launched, store, loop, sweep, warming, take, close, held, crashes>>

Start == start \/ recover \/ firstSweep \/ startFiller

Next ==
    \/ Start \/ Filler \/ Sweep \/ Close \/ closeCalled \/ Crash \/ Outside
    \/ \E w \in Warmers : WarmUp(w)
    \/ \E t \in Takers : Take(t) \/ CallTake(t)

Spec == Init /\ [][Next]_vars

(* Promises that are ready run, timers fire and AWS answers.  Nobody has   *)
(* to call take() or close().                                              *)
FairSpec ==
    /\ Spec
    /\ WF_vars(Start) /\ WF_vars(Filler) /\ WF_vars(Sweep) /\ WF_vars(Close)
    /\ \A w \in Warmers : WF_vars(WarmUp(w))
    /\ \A t \in Takers : WF_vars(Take(t))

----------------------------------------------------------------------------
(* Every variable has its type.                                            *)
TypeOK ==
    /\ vm \in [Slots -> {"none", "RUNNING", "SUSPENDED"} \cup Over]
    /\ launched \in 0 .. MaxVMs /\ wall \in 0 .. MaxVMs
    /\ records \in [Slots -> {"none", "warming", "ready"}]
    /\ backend \in [Slots -> {"none", "warming", "ready"}]
    /\ inflight \in 0 .. Size /\ free \in 0 .. FillConcurrency
    /\ held \subseteq VMs /\ draining \subseteq Slots
    /\ \A w \in Warmers : warm[w].id \in VMs \cup {NoVM}
    /\ \A t \in Takers : take[t].id \in VMs \cup {NoVM}

(* A VM a client was given belongs to the pool no longer: no record of it, *)
(* in memory or in the backend (which a restarted pool would recover), no  *)
(* backend call about it still to come, and no other take() holds it       *)
(* (one that could not delete the record has failed, and may be followed   *)
(* by a take() of the process that recovers the record).                   *)
Custody ==
    \A v \in held :
        /\ records[v] = "none" /\ backend[v] = "none"
        /\ \A i \in DOMAIN queue : queue[i].id # v
        /\ Cardinality({t \in Takers : take[t].id = v /\ take[t].pc # "failed"}) <= 1

(* The slots of another image's pool are left alone, whatever happens.     *)
ForeignUntouched == backend[Foreign] = "ready" /\ vm[Foreign] = "SUSPENDED"

(* Parked slots and warm-ups in flight are never more than the size, nor   *)
(* are the slots a restarted pool would find; a slot whose deletion from   *)
(* the backend failed in take() comes on top.                              *)
Busy == {w \in Warmers : warm[w].pc # "idle"}
NoOverfill ==
    LET undeleted == {take[t].id : t \in {u \in Takers : take[u].pc = "failed"}}
        own == {v \in VMs : backend[v] = "ready"} \ undeleted
    IN
    /\ inflight = Cardinality(Busy)
    /\ Cardinality((readyRecords \ {warm[w].id : w \in Busy}) \ undeleted) + inflight <= Size
    /\ Cardinality(own) <= Size

(* Without a crash no live VM is forgotten that the pool did not ask AWS   *)
(* to terminate: it has a record, or a task that will record or terminate  *)
(* it, or a client.  One whose terminate-microvm failed is forgotten       *)
(* (#terminate only logs the failure).                                     *)
Tasked(v) ==
    \/ \E w \in Busy : warm[w].id = v
    \/ \E t \in Takers : take[t].id = v /\ take[t].pc \in {"deleting", "resume", "open"}
    \/ \E i \in DOMAIN queue : queue[i].id = v
NothingForgotten ==
    crashes = 0 =>
        \A v \in VMs : vm[v] \in {"RUNNING", "SUSPENDED"} =>
            v \in held \/ records[v] # "none" \/ backend[v] # "none" \/ Tasked(v)

(***************************************************************************)
(* The pool as a whole: a slot that was handed out is nobody else's,       *)
(* another pool's slots are not touched, warm-ups and parked slots stay    *)
(* within the size, and no MicroVM is forgotten before its termination was *)
(* asked for.                                                              *)
(***************************************************************************)
PoolSound ==
    /\ TypeOK
    /\ Custody
    /\ ForeignUntouched
    /\ NoOverfill
    /\ NothingForgotten

(* The pool never asks AWS to terminate a VM that a client holds: not when *)
(* it recycles, drains, or recovers its records after a crash.             *)
HeldIsSafe ==
    [][\A v \in held : vm'[v] \in Over => vm[v] \in Over]_vars

(* A pool that lacks slots warms new ones until it has them or stops,      *)
(* after any failure of a warm-up and any loss of a slot.                  *)
Short == Cardinality(readyRecords) + Cardinality(Busy) < Size
Refills == (Started /\ Short) ~> (~Short \/ stopping \/ ~Started)

(* close() ends: it never waits for a warm-up that waits for it.           *)
CloseEnds == closing = "settle" ~> closing \notin {"settle", "drain", "draining"}
=============================================================================
