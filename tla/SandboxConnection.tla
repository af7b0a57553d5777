------------------------- MODULE SandboxConnection -------------------------
(***************************************************************************)
(* SandboxCore (clients/typescript/src/sandbox/core.ts): the calls of one  *)
(* handle against a VM that is suspended and resumed under them.           *)
(*                                                                         *)
(* A call is a unary RPC, the opening of an Execute stream (which must not *)
(* run twice) or a command handle reading its stream (which re-attaches,   *)
(* and may wake the VM only in the foreground and when no pause is         *)
(* pending).  A call that is cut waits for the agent in reconnect();       *)
(* one that finds the logical deadline expired after this client suspended *)
(* the VM for it waits for one shared SetTimeout; one whose token the      *)
(* proxy refused waits for one shared mint.  Between two awaits a call is  *)
(* atomic; the answer to a Health probe is read in a later step than it    *)
(* was given.                                                              *)
(***************************************************************************)
EXTENDS Naturals, FiniteSets

CONSTANTS
    Calls,        \* concurrent calls of the handle
    MaxGen,       \* bound: resumes of the VM
    MaxCuts,      \* bound: connections reset by the network
    AutoResume    \* the idle policy's autoResume

ASSUME ConnectionAssumption ==
    MaxGen \in Nat /\ MaxCuts \in Nat /\ AutoResume \in BOOLEAN

Gens == 0 .. MaxGen
NoGen == MaxGen + 1              \* undefined
Kinds == {"unary", "execute", "stream"}

VARIABLES
    vm,        \* the VM: RUNNING, SUSPENDING, SUSPENDED or TERMINATED
    gen,       \* rayd: resume generation
    expired,   \* rayd: the logical deadline is over
    valid,     \* the proxy accepts the handle's token
    cuts,      \* connections reset so far
    handle,    \* the fields of SandboxCore
    trigger,   \* #onDeadline: program counter and what it read
    reopen,    \* #reopenAfterDeadlinePause, shared
    minting,   \* TokenRefresher.mint is in flight, shared
    call,      \* the calls
    opened     \* ghost: what the SetTimeouts for the suspension at a generation came to

world == <<vm, gen, expired, valid, cuts>>
vars == <<world, handle, trigger, reopen, minting, call, opened>>

NewCall == [pc |-> "idle", kind |-> "unary", seen |-> 0, reopens |-> 0, reason |-> "none",
            tries |-> 0, minted |-> FALSE, wake |-> TRUE, answer |-> NoGen, runs |-> 0,
            gated |-> NoGen]     \* ghost: the agent's generation when its gate refused the call

NoReopen == [pc |-> "none", gen |-> NoGen, answer |-> NoGen, expired |-> FALSE,
             tries |-> 0, seen |-> 0, gate |-> FALSE]

Init ==
    /\ vm = "RUNNING" /\ gen = 0 /\ expired = FALSE /\ valid = TRUE /\ cuts = 0
    /\ handle = [gen |-> 0, paused |-> FALSE, closed |-> FALSE, lock |-> FALSE,
                 mark |-> NoGen, reopens |-> 0]
    /\ trigger = [pc |-> "armed", gen |-> 0]
    /\ reopen = NoReopen
    /\ minting = FALSE
    /\ call = [c \in Calls |-> NewCall]
    /\ opened = [g \in Gens |-> "none"]

----------------------------------------------------------------------------
(* What the agent answers to Health: its generation, or nothing (the VM is *)
(* frozen or gone, or the probe was cut).  A probe of a suspended VM wakes *)
(* it when the policy says so.                                             *)
healthAnswers == IF vm \in {"RUNNING", "SUSPENDING"} THEN {gen, NoGen} ELSE {NoGen}

(* recordHealth: a generation other than the one known ends the pause.     *)
recordHealth(g) ==
    IF g = NoGen \/ g = handle.gen THEN handle ELSE [handle EXCEPT !.gen = g, !.paused = FALSE]

(* recordLifecycle arms the trigger, unless it fires or the handle closed. *)
recordLifecycle ==
    IF handle.closed \/ trigger.pc \notin {"off", "armed"} THEN trigger
    ELSE [trigger EXCEPT !.pc = "armed"]

(* healthReconnected: after a cut by a suspension only a new generation    *)
(* counts, because the agent still answers while the VM freezes.           *)
Bug_anyHealthCounts(answer, seen, suspending) == answer # NoGen
healthReconnected(answer, seen, suspending) ==
    answer # NoGen /\ (suspending => answer # seen)

(* A call goes on at pc; one that ended keeps only what it did.            *)
At(c, pc) ==
    [call EXCEPT ![c] = IF pc \in {"done", "failed"}
        THEN [NewCall EXCEPT !.pc = pc, !.kind = call[c].kind, !.runs = call[c].runs]
        ELSE [call[c] EXCEPT !.pc = pc]]

----------------------------------------------------------------------------
(* A call is sent: callUnary, #openStream.                                 *)
Sends(c) ==
    /\ call[c].pc = "idle" /\ ~handle.closed
    /\ \E k \in Kinds :
         call' = [call EXCEPT ![c] = [NewCall EXCEPT !.pc = "sent", !.kind = k,
                    !.seen = handle.gen, !.reopens = handle.reopens, !.tries = 1]]
    /\ UNCHANGED <<world, handle, trigger, reopen, minting, opened>>

(* The request runs; its answer arrives, or the connection is reset first. *)
Runs(c) ==
    /\ call[c].pc = "sent" /\ vm = "RUNNING" /\ valid /\ ~expired /\ ~handle.closed
    /\ \/ /\ call' = [call EXCEPT ![c] =
                   [NewCall EXCEPT !.pc = "done", !.kind = call[c].kind, !.runs = call[c].runs + 1]]
          /\ UNCHANGED cuts
       \/ /\ cuts < MaxCuts /\ cuts' = cuts + 1
          /\ call' = [call EXCEPT ![c].pc = IF call[c].tries = 2 THEN "failed" ELSE "cut",
                                  ![c].reason = "reset", ![c].runs = @ + 1]
    /\ UNCHANGED <<vm, gen, expired, valid, handle, trigger, reopen, minting, opened>>

(* The request does not run: refused by the phase gate, the deadline or    *)
(* the proxy, cut by a VM that is gone (or frozen without auto-resume), or *)
(* aborted by close().                                                     *)
isReconnectable(c, reason) == reason \in {"reset", "gate"} /\ ~handle.closed
Refused(c) ==
    /\ call[c].pc = "sent"
    /\ \E reason \in {"reset", "gate", "expired", "forbidden"} :
         /\ \/ reason = "reset" /\ \/ vm = "TERMINATED" \/ handle.closed
                                   \/ vm = "SUSPENDED" /\ ~AutoResume
            \/ reason = "gate" /\ vm = "SUSPENDING"
            \/ reason = "expired" /\ vm = "RUNNING" /\ expired
            \/ reason = "forbidden" /\ vm = "RUNNING" /\ ~valid
         /\ call' = [At(c,
                CASE reason = "forbidden" /\ ~call[c].minted -> "forbidden"
                  [] reason = "expired" /\ call[c].tries # 2 -> "expired"
                  [] isReconnectable(c, reason) /\ call[c].tries # 2 -> "cut"
                  [] OTHER -> "failed") EXCEPT ![c].reason = reason, ![c].gated = IF reason = "gate" THEN gen ELSE NoGen]
    /\ UNCHANGED <<world, handle, trigger, reopen, minting, opened>>

(* The request is repeated, once; a handle goes on to re-attach. *)
Again(c) ==
    IF call[c].kind = "stream" THEN At(c, "done")[c]
    ELSE [call[c] EXCEPT !.pc = "sent", !.tries = 2, !.answer = NoGen]

----------------------------------------------------------------------------
(* TokenRefresher: refreshAll joins the mint of the same ports in flight,  *)
(* or begins it; #tick begins it too when the token is due.                *)
refreshAll(c) ==
    /\ call[c].pc = "forbidden"
    /\ call' = At(c, "minting") /\ minting' = TRUE
    /\ UNCHANGED <<world, handle, trigger, reopen, opened>>

tick ==
    /\ ~minting /\ ~valid /\ ~handle.closed
    /\ minting' = TRUE
    /\ UNCHANGED <<world, handle, trigger, reopen, call, opened>>

mintNow ==
    /\ minting /\ minting' = FALSE
    /\ \/ valid' = TRUE /\ call' = [c \in Calls |-> IF call[c].pc = "minting"
                              THEN [call[c] EXCEPT !.pc = "sent", !.minted = TRUE] ELSE call[c]]
       \/ call' = [c \in Calls |-> IF call[c].pc = "minting"
                              THEN At(c, "failed")[c] ELSE call[c]]
         /\ UNCHANGED valid
    /\ UNCHANGED <<vm, gen, expired, cuts, handle, trigger, reopen, opened>>

----------------------------------------------------------------------------
(* reconnect().                                                            *)

alreadyBack(c) == handle.gen > call[c].seen

(* CommandHandle.wakes. *)
wakes(c, foreground) == call[c].kind = "stream" => foreground /\ ~handle.paused

(* An Execute is never repeated after a cut; any other call waits: asleep  *)
(* while the VM is suspended, when it may not wake it, else for the lock.  *)
mayReconnect(c) == call[c].kind # "execute"
reconnect(c) ==
    /\ call[c].pc = "cut"
    /\ IF ~mayReconnect(c) THEN call' = At(c, "failed")
       ELSE \E foreground \in BOOLEAN :
            call' = [call EXCEPT ![c].wake = wakes(c, foreground),
                                 ![c].pc = IF wakes(c, foreground) THEN "lock" ELSE "asleep"]
    /\ UNCHANGED <<world, handle, trigger, reopen, minting, opened>>

(* #alreadyBack, at each turn of every loop: another call saw the new      *)
(* generation, or close() was called.                                      *)
Returns(c) ==
    /\ call[c].pc \in {"asleep", "lock", "poll"}
    /\ call[c].pc = "lock" => ~handle.lock
    /\ alreadyBack(c) \/ handle.closed
    /\ call' = [call EXCEPT ![c] = IF alreadyBack(c) THEN Again(c) ELSE At(c, "failed")[c]]
    /\ handle' = IF call[c].pc = "poll" THEN [handle EXCEPT !.lock = FALSE] ELSE handle
    /\ UNCHANGED <<world, trigger, reopen, minting, opened>>

Waiting(c, pc) == call[c].pc = pc /\ ~alreadyBack(c) /\ ~handle.closed

(* #sleepWhileSuspended: get-microvm says whether it is still suspended.   *)
sleepWhileSuspended(c) ==
    /\ Waiting(c, "asleep") /\ vm # "SUSPENDED"
    /\ call' = At(c, IF vm = "TERMINATED" THEN "failed" ELSE "lock")
    /\ UNCHANGED <<world, handle, trigger, reopen, minting, opened>>

(* #withReconnectLock. *)
pollHoldingTheLock(c) ==
    /\ Waiting(c, "lock") /\ ~handle.lock
    /\ handle' = [handle EXCEPT !.lock = TRUE]
    /\ call' = At(c, "poll")
    /\ UNCHANGED <<world, trigger, reopen, minting, opened>>

(* #pollUntilBack: a probe is sent ...                                     *)
probeHealth(c) ==
    /\ Waiting(c, "poll")
    /\ \E g \in healthAnswers : call' = [call EXCEPT ![c].pc = "probed", ![c].answer = g]
    /\ UNCHANGED <<world, handle, trigger, reopen, minting, opened>>

(* ... and its answer read.  Without one the call waits and tries again,   *)
(* falls asleep when it may not wake the VM, or finds it terminated.       *)
reconnected(c) ==
    /\ call[c].pc = "probed"
    /\ LET back == healthReconnected(call[c].answer, call[c].seen, call[c].reason = "gate")
           asleep == ~call[c].wake /\ vm = "SUSPENDED"
           gone == vm = "TERMINATED" \/ (call[c].wake /\ vm = "SUSPENDED" /\ ~AutoResume)
       IN
       /\ handle' = IF back THEN [recordHealth(call[c].answer) EXCEPT !.lock = FALSE]
                    ELSE IF asleep \/ gone THEN [handle EXCEPT !.lock = FALSE] ELSE handle
       /\ trigger' = IF back THEN recordLifecycle ELSE trigger
       /\ call' = [call EXCEPT ![c] = IF back THEN Again(c)
                      ELSE IF gone THEN At(c, "failed")[c]
                      ELSE [@ EXCEPT !.answer = NoGen, !.pc = IF asleep THEN "asleep" ELSE "poll"]]
    /\ UNCHANGED <<world, reopen, minting, opened>>

(* reconnectTimeoutMs passes under the lock. *)
reconnectTimedOut(c) ==
    /\ Waiting(c, "poll")
    /\ call' = At(c, "failed") /\ handle' = [handle EXCEPT !.lock = FALSE]
    /\ UNCHANGED <<world, trigger, reopen, minting, opened>>

----------------------------------------------------------------------------
(* #reopenedAfterDeadlinePause: a reopening done since the call began is   *)
(* enough; else the one in flight is joined, or begun if a suspension of   *)
(* this client is on record.                                               *)
reopenedAfterDeadlinePause(c) ==
    /\ call[c].pc = "expired"
    /\ IF handle.closed THEN call' = At(c, "failed") /\ UNCHANGED reopen
       ELSE IF handle.reopens > call[c].reopens
       THEN call' = [call EXCEPT ![c] = Again(c)] /\ UNCHANGED reopen
       ELSE IF reopen.pc # "none" THEN call' = At(c, "reopening") /\ UNCHANGED reopen
       ELSE IF handle.mark = NoGen THEN call' = At(c, "failed") /\ UNCHANGED reopen
       ELSE /\ call' = At(c, "reopening")
            /\ \E g \in healthAnswers :
                  reopen' = [NoReopen EXCEPT !.pc = "probed", !.gen = handle.mark,
                                             !.answer = g, !.expired = expired]
    /\ UNCHANGED <<world, handle, trigger, minting, opened>>

(* Those who wait for the reopening repeat their request, or see the error *)
(* they had.                                                               *)
Settled(ok) ==
    [c \in Calls |-> IF call[c].pc # "reopening" THEN call[c]
                     ELSE IF ok THEN Again(c) ELSE At(c, "failed")[c]]

(* #consumeDeadlinePause: a later suspension has a mark of its own.        *)
Bug_consumeAnyPause(h, g) == [h EXCEPT !.mark = NoGen]
consumeDeadlinePause(h, g) == IF h.mark = g THEN [h EXCEPT !.mark = NoGen] ELSE h

(* The Health answer is recorded: still before the freeze, or rayd reopened *)
(* by itself (then the mark is consumed), or SetTimeout is due.            *)
reopenAfterDeadlinePause ==
    /\ reopen.pc = "probed"
    /\ LET h == recordHealth(reopen.answer) IN
       IF h.gen <= reopen.gen
       THEN reopen' = NoReopen /\ call' = Settled(FALSE) /\ handle' = h
       ELSE IF reopen.expired
       THEN reopen' = [reopen EXCEPT !.pc = "set", !.tries = 1, !.seen = h.gen] /\ handle' = h /\ UNCHANGED call
       ELSE /\ reopen' = NoReopen /\ call' = Settled(FALSE)
            /\ handle' = consumeDeadlinePause(h, reopen.gen)
    /\ trigger' = IF reopen.answer = NoGen THEN trigger ELSE recordLifecycle
    /\ UNCHANGED <<world, minting, opened>>

(* SetTimeout goes through the unary call that reconnects, once: rayd      *)
(* applies it and answers, or applies it and the answer is lost, or it     *)
(* does not get there.                                                     *)
Applied(how) == [opened EXCEPT ![reopen.gen] = IF @ = "done" THEN "twice" ELSE how]
SetAgain ==
    IF reopen.tries = 1 /\ ~handle.closed
    THEN reopen' = [reopen EXCEPT !.pc = "cut", !.gate = (vm = "SUSPENDING")] /\ UNCHANGED call
    ELSE reopen' = NoReopen /\ call' = Settled(FALSE)

setTimeout ==
    /\ reopen.pc = "set"
    /\ \/ /\ vm = "RUNNING" /\ valid
          /\ expired' = FALSE /\ call' = Settled(TRUE) /\ reopen' = NoReopen
          /\ handle' = [consumeDeadlinePause(handle, reopen.gen) EXCEPT !.reopens = @ + 1]
          /\ trigger' = recordLifecycle
          /\ opened' = Applied("done") /\ UNCHANGED cuts
       \/ /\ vm = "RUNNING" /\ valid /\ cuts < MaxCuts
          /\ expired' = FALSE /\ SetAgain
          /\ opened' = Applied("lost") /\ cuts' = cuts + 1
          /\ UNCHANGED <<handle, trigger>>
       \/ SetAgain /\ UNCHANGED <<expired, handle, trigger, opened, cuts>>
    /\ UNCHANGED <<vm, gen, valid, minting>>

(* The reconnect() of that call, as one step under the lock: it is sent    *)
(* again, or the callers see the error they had.                           *)
reopenReconnects ==
    /\ reopen.pc = "cut"
    /\ \/ /\ ~handle.lock /\ ~handle.closed
          /\ \E g \in healthAnswers :
               /\ healthReconnected(g, reopen.seen, reopen.gate)
               /\ handle' = recordHealth(g)
          /\ trigger' = recordLifecycle
          /\ reopen' = [reopen EXCEPT !.pc = "set", !.tries = 2] /\ UNCHANGED call
       \/ reopen' = NoReopen /\ call' = Settled(FALSE) /\ UNCHANGED <<handle, trigger>>
    /\ UNCHANGED <<world, minting, opened>>

----------------------------------------------------------------------------
(* #onDeadline: read get-microvm, then Health, then suspend if expired.    *)
onDeadline ==
    /\ trigger.pc = "armed"
    /\ trigger' = [trigger EXCEPT !.pc = IF handle.closed \/ vm # "RUNNING" THEN "off" ELSE "health"]
    /\ UNCHANGED <<world, handle, reopen, minting, call, opened>>

(* Not expired: armed again for the new deadline.  A failed Health is only *)
(* logged.                                                                 *)
suspendIfExpired ==
    /\ trigger.pc = "health"
    /\ \E g \in healthAnswers :
         /\ handle' = recordHealth(g)
         /\ trigger' = IF g = NoGen THEN [trigger EXCEPT !.pc = "off"]
                       ELSE IF expired THEN [pc |-> "suspend", gen |-> g]
                       ELSE [trigger EXCEPT !.pc = IF handle.closed THEN "off" ELSE "armed"]
    /\ UNCHANGED <<world, reopen, minting, call, opened>>

suspendForDeadline ==
    /\ trigger.pc = "suspend"
    /\ trigger' = [pc |-> "off", gen |-> 0]
    /\ IF vm = "RUNNING"
       THEN vm' = "SUSPENDING" /\ handle' = [handle EXCEPT !.mark = trigger.gen]
       ELSE UNCHANGED <<vm, handle>>
    /\ UNCHANGED <<gen, expired, valid, cuts, reopen, minting, call, opened>>

----------------------------------------------------------------------------
(* suspendMarkingPaused, called by pause(): the mark is taken back when    *)
(* the VM was not running.                                                 *)
suspendMarkingPaused ==
    /\ ~handle.closed /\ vm = "RUNNING"
    /\ vm' = "SUSPENDING" /\ handle' = [handle EXCEPT !.paused = TRUE]
    /\ UNCHANGED <<gen, expired, valid, cuts, trigger, reopen, minting, call, opened>>

close ==
    /\ ~handle.closed
    /\ handle' = [handle EXCEPT !.closed = TRUE]
    /\ trigger' = IF trigger.pc = "armed" THEN [trigger EXCEPT !.pc = "off"] ELSE trigger
    /\ UNCHANGED <<world, reopen, minting, call, opened>>

(* The platform: the VM freezes, is resumed (by a request when it may be,  *)
(* by anybody else else), or is terminated; the deadline and the token     *)
(* run out.  rayd reopens an expired deadline itself only after a freeze   *)
(* it noticed.                                                             *)
Freeze ==
    /\ vm = "SUSPENDING" /\ vm' = "SUSPENDED"
    /\ UNCHANGED <<gen, expired, valid, cuts, handle, trigger, reopen, minting, call, opened>>

Resume ==
    /\ vm = "SUSPENDED" /\ gen < MaxGen
    /\ vm' = "RUNNING" /\ gen' = gen + 1
    /\ \/ UNCHANGED expired \/ expired' = FALSE
    /\ UNCHANGED <<valid, cuts, handle, trigger, reopen, minting, call, opened>>

Expire ==
    /\ vm = "RUNNING" /\ ~expired /\ expired' = TRUE
    /\ UNCHANGED <<vm, gen, valid, cuts, handle, trigger, reopen, minting, call, opened>>

TokenExpires ==
    /\ valid /\ cuts < MaxCuts /\ valid' = FALSE /\ cuts' = cuts + 1
    /\ UNCHANGED <<vm, gen, expired, handle, trigger, reopen, minting, call, opened>>

TerminateVM ==
    /\ vm # "TERMINATED" /\ gen = MaxGen /\ vm' = "TERMINATED"
    /\ UNCHANGED <<gen, expired, valid, cuts, handle, trigger, reopen, minting, call, opened>>

Platform == Freeze \/ Resume \/ Expire \/ TokenExpires \/ TerminateVM

Waits(c) ==
    \/ refreshAll(c) \/ reconnect(c) \/ Returns(c) \/ sleepWhileSuspended(c)
    \/ pollHoldingTheLock(c) \/ probeHealth(c) \/ reconnected(c) \/ reconnectTimedOut(c)
    \/ reopenedAfterDeadlinePause(c)

Step(c) == Runs(c) \/ Refused(c) \/ Waits(c)
Shared == mintNow \/ reopenAfterDeadlinePause \/ setTimeout \/ reopenReconnects
Deadline == onDeadline \/ suspendIfExpired \/ suspendForDeadline

Next ==
    \/ \E c \in Calls : Sends(c) \/ Step(c)
    \/ Shared \/ Deadline \/ tick \/ suspendMarkingPaused \/ close \/ Platform

Spec == Init /\ [][Next]_vars

----------------------------------------------------------------------------
(* Every variable has its type, and the lock is held by the call that      *)
(* polls: at most one.                                                     *)
Pollers == {c \in Calls : call[c].pc \in {"poll", "probed"}}
TypeOK ==
    /\ vm \in {"RUNNING", "SUSPENDING", "SUSPENDED", "TERMINATED"}
    /\ gen \in Gens /\ handle.gen \in Gens /\ handle.mark \in Gens \cup {NoGen}
    /\ \A c \in Calls : call[c].seen \in Gens /\ call[c].answer \in Gens \cup {NoGen}
    /\ Cardinality(Pollers) = IF handle.lock THEN 1 ELSE 0

(* An Execute never runs twice, and no other call more than twice, however *)
(* often it is cut, refused, re-minted or reopened.                        *)
NeverTwice ==
    \A c \in Calls : call[c].runs <= IF call[c].kind = "execute" THEN 1 ELSE 2

(* A call that the phase gate of a suspension refused is repeated only     *)
(* after the resume of that suspension, never to the agent that still      *)
(* answers while it freezes, unless the handle had missed an earlier       *)
(* resume: then the freezing agent's own generation is news to it and      *)
(* counts as the return (healthReconnected compares with what the handle   *)
(* knew when the call began).                                              *)
RepeatedAfterResume ==
    \A c \in Calls :
        call[c].pc = "sent" /\ call[c].tries = 2 /\ call[c].reason = "gate"
            => gen > call[c].gated \/ call[c].seen < call[c].gated

(* A suspension for the deadline is reopened once, although every call in  *)
(* flight asks for it: after a SetTimeout that was answered, rayd applies  *)
(* no other for that suspension.  One whose answer was lost may be         *)
(* repeated.                                                               *)
OneReopenPerSuspension == \A g \in Gens : opened[g] # "twice"

(***************************************************************************)
(* The connection of a handle as a whole: one poller holds the lock,       *)
(* nothing that may not repeat runs twice, a gated call of a handle that   *)
(* is up to date is sent again only after the resume, and a suspension is  *)
(* not reopened again once its reopening was answered.                     *)
(***************************************************************************)
ConnectionSound ==
    /\ TypeOK
    /\ NeverTwice
    /\ RepeatedAfterResume
    /\ OneReopenPerSuspension

(* The mark of a suspension lasts until that suspension was handled: the   *)
(* reopening of an earlier one does not take it away.                      *)
MarkIsOwn ==
    [][handle.mark # NoGen /\ handle'.mark = NoGen => reopen.gen = handle.mark]_vars

=============================================================================
