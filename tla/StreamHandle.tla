---------------------------- MODULE StreamHandle ----------------------------
(***************************************************************************)
(* The long-lived streams of the TypeScript SDK: CommandHandle             *)
(* (sandbox/commands.ts), PtyHandle (sandbox/pty.ts), ExecutionFeed        *)
(* (sandbox/code.ts) and WatchHandle (sandbox/filesystem.ts).  Each reads  *)
(* a stream, and when it is cut waits for core.reconnect() and attaches    *)
(* again: a command or a terminal to lastSeq + 1, or to the live output    *)
(* when the agent no longer retains it; an execution to lastSeq + 1 or not *)
(* at all; a watch to a new stream.  The agent numbers the events 1, 2,    *)
(* ...  and retains the last Retained of them.  core.reconnect() itself is *)
(* the subject of SandboxConnection.                                       *)
(***************************************************************************)
EXTENDS Naturals, Sequences

CONSTANTS MaxSeq,      \* bound on the events of a process
          Retained,    \* events the agent's ring keeps
          MaxFutile,   \* MAX_FUTILE_RECONNECTS
          MaxGen       \* bound on the resumes

ASSUME StreamAssumption == /\ MaxSeq \in Nat /\ Retained \in Nat \ {0}
                           /\ MaxFutile \in Nat /\ MaxGen \in Nat

VARIABLES kind,        \* whose stream it is
          vm, gen,     \* the VM: "running", "suspending", "frozen"; its generation
          emitted,     \* events produced so far
          ended,       \* the process (or the cell) ended
          forgotten,   \* the agent no longer knows it
          pc,          \* where the consuming loop stands
          opened,      \* next event of the open stream, 0 when it is aborted
          opening,     \* next event of a stream whose opening is awaited, 0 none
          seen,        \* events handed to the caller
          reason,      \* why the stream was cut
          generation,  \* the generation the handle last knew
          futile,      \* ReconnectBudget.futile
          stopped,     \* disconnect() or stop() was called
          expired,     \* the stream's own deadline passed
          outcome      \* how the handle ended

agentVars == <<vm, gen, emitted, ended, forgotten>>
clientVars == <<pc, opened, opening, seen, reason, generation, futile, outcome>>
vars == <<kind, agentVars, clientVars, stopped, expired>>

Kinds == {"command", "pty", "code", "watch"}
Numbered == {"command", "pty", "code"}
oldest == IF emitted > Retained THEN emitted - Retained + 1 ELSE 1

\* OutputAccumulator.lastSeq: the highest event handed over.
lastSeq == IF seen = <<>> THEN 0 ELSE seen[Len(seen)]
Bug_resubscribeFromLast(last) == last
resubscribeFromSeq(last) == last + 1

Init == /\ kind \in Kinds
        /\ vm = "running" /\ gen = 0 /\ emitted = 0 /\ ended = FALSE /\ forgotten = FALSE
        /\ pc = "reading" /\ opened = 1 /\ opening = 0
        /\ seen = <<>> /\ reason = "none" /\ generation = 0 /\ futile = 0
        /\ stopped = FALSE /\ expired = FALSE /\ outcome = "none"

-----------------------------------------------------------------------------
(* The agent and its VM.                                                   *)

Emit == /\ vm # "frozen" /\ ~ended /\ emitted < MaxSeq
        /\ emitted' = emitted + 1
        /\ UNCHANGED <<kind, vm, gen, ended, forgotten, clientVars, stopped, expired>>

ProcessEnds == /\ vm # "frozen" /\ ~ended /\ kind # "watch"
               /\ ended' = TRUE
               /\ UNCHANGED <<kind, vm, gen, emitted, forgotten, clientVars, stopped, expired>>

\* The registry drops an ended process.
Forget == /\ ended /\ ~forgotten /\ forgotten' = TRUE
          /\ UNCHANGED <<kind, vm, gen, emitted, ended, clientVars, stopped, expired>>

MoveVM == /\ \/ vm = "running" /\ gen < MaxGen /\ vm' = "suspending" /\ gen' = gen
             \/ vm = "suspending" /\ vm' = "frozen" /\ gen' = gen
             \/ vm = "frozen" /\ vm' = "running" /\ gen' = gen + 1
          /\ UNCHANGED <<kind, emitted, ended, forgotten, clientVars, stopped, expired>>

DeadlinePasses == /\ ~expired /\ expired' = TRUE
                  /\ UNCHANGED <<kind, agentVars, clientVars, stopped>>

-----------------------------------------------------------------------------
(* Reading.                                                                *)

\* The handle is over: the stream is released and the outcome is set.
EndsAs(how) == /\ pc' = "done" /\ outcome' = how
               /\ opened' = 0 /\ opening' = 0
               /\ UNCHANGED <<kind, agentVars, seen, reason, generation, futile, stopped, expired>>

reading == pc = "reading" /\ opened # 0

\* consume() / feed(): the next event goes to the caller; keepalives carry
\* nothing.
feed == /\ reading /\ opened <= emitted
        /\ seen' = Append(seen, opened) /\ opened' = opened + 1
        /\ UNCHANGED <<kind, agentVars, pc, opening, reason, generation, futile, outcome, stopped, expired>>

\* The EndEvent follows the last event.
finish == /\ reading /\ kind \in Numbered /\ ended /\ opened > emitted
          /\ EndsAs("complete")

\* Ends the handle cannot repair: a plain end of the stream without
\* EndEvent, the subscriber dropped by the agent (output_truncated), the
\* stream's own deadline.
brokenStream == /\ reading
                /\ \/ EndsAs(IF kind = "watch" THEN "left" ELSE "failed")
                   \/ kind \in {"command", "pty"} /\ EndsAs("failed")
                   \/ expired /\ EndsAs("failed")

\* disconnect() aborts the stream in hand; stop() of a watch too.
disconnect == /\ kind # "code" /\ pc # "done" /\ ~stopped
              /\ stopped' = TRUE /\ opened' = 0
              /\ UNCHANGED <<kind, agentVars, pc, opening, seen, reason, generation, futile, outcome, expired>>

\* next() of the aborted stream fails with the caller's own Canceled.
canceled == pc = "reading" /\ opened = 0 /\ stopped /\ EndsAs("left")

\* Only an execution that started is reattached: its first event says so.
mayReattach == kind = "code" => seen # <<>>

\* The stream is cut: by a reset, or by the suspension (the in-stream end of
\* a process, the phase gate of the others).
cut == /\ reading
       /\ \E why \in {"reset"} \union (IF vm # "running" \/ gen # generation
                                       THEN {"suspending"} ELSE {}) :
            IF ~mayReattach
            THEN EndsAs("failed")
            ELSE /\ reason' = why /\ opened' = 0 /\ pc' = "reconnecting"
                 /\ UNCHANGED <<kind, agentVars, opening, seen, generation, futile, outcome, stopped, expired>>

-----------------------------------------------------------------------------
(* After a cut.                                                            *)

\* ReconnectBudget.allows: reconnections in a row that saw no new generation.
allows(changed) == changed \/ futile < MaxFutile
Bug_spendNothing(changed) == futile
spend(changed) == IF changed THEN 0 ELSE futile + 1

\* core.reconnect() came back: after a suspension only with a new generation.
reconnected ==
    LET changed == gen # generation IN
    /\ pc = "reconnecting" /\ vm = "running" /\ (reason = "suspending" => changed)
    /\ generation' = gen
    /\ IF stopped
       THEN pc' = "done" /\ outcome' = "left" /\ UNCHANGED futile
       ELSE IF allows(changed)
            THEN pc' = "connecting" /\ futile' = spend(changed) /\ UNCHANGED outcome
            ELSE pc' = "done" /\ outcome' = "failed" /\ futile' = futile
    /\ UNCHANGED <<kind, agentVars, opened, opening, seen, reason, stopped, expired>>

\* Terminated, out of time, or closed.
reconnectError == pc = "reconnecting" /\ EndsAs("failed")

\* remainingDeadline: the deadline passed during the reconnection.
remainingDeadline == pc \in {"connecting", "live"} /\ opening = 0 /\ expired /\ EndsAs("failed")

Opens(next) == /\ opening' = next
               /\ UNCHANGED <<kind, agentVars, pc, opened, seen, reason, generation, futile, outcome, stopped, expired>>

\* Connect(pid, lastSeq + 1) or Reattach: OutOfRange sends a command or a
\* terminal to the live output and ends an execution; a forgotten process
\* ends the handle.
resubscribe ==
    LET from == resubscribeFromSeq(lastSeq) IN
    /\ pc = "connecting" /\ opening = 0 /\ vm = "running" /\ ~expired /\ kind \in Numbered
    /\ IF forgotten THEN EndsAs("failed")
       ELSE IF from \in oldest .. emitted + 1 THEN Opens(from)
       ELSE IF kind = "code" THEN EndsAs("failed")
       ELSE /\ pc' = "live"
            /\ UNCHANGED <<kind, agentVars, opened, opening, seen, reason, generation, futile, outcome, stopped, expired>>

\* resubscribeFromLive: Connect(pid, 0), only new output.
resubscribeFromLive ==
    /\ pc = "live" /\ opening = 0 /\ vm = "running" /\ ~expired
    /\ IF forgotten THEN EndsAs("failed") ELSE Opens(emitted + 1)

\* #reissue opens the same WatchDir again.
reissue == /\ pc = "connecting" /\ opening = 0 /\ vm = "running" /\ ~expired /\ kind = "watch"
           /\ Opens(emitted + 1)

openFails == pc \in {"connecting", "live"} /\ opening = 0 /\ EndsAs("failed")

\* The awaited opening returns.  Only a watch looks at stop() again; a
\* disconnected command leaves the loop with the new stream in hand.
Bug_attachedUnseen ==
    /\ opening # 0 /\ opening' = 0 /\ opened' = opening
    /\ pc' = IF stopped THEN "done" ELSE "reading"
    /\ outcome' = IF stopped THEN "left" ELSE outcome
    /\ UNCHANGED <<kind, agentVars, seen, reason, generation, futile, stopped, expired>>
attached ==
    /\ opening # 0
    /\ opening' = 0
    /\ opened' = IF stopped /\ kind = "watch" THEN 0 ELSE opening
    /\ pc' = IF stopped THEN "done" ELSE "reading"
    /\ outcome' = IF stopped THEN "left" ELSE outcome
    /\ UNCHANGED <<kind, agentVars, seen, reason, generation, futile, stopped, expired>>

-----------------------------------------------------------------------------
Client == \/ feed \/ finish \/ canceled \/ reconnected \/ remainingDeadline
          \/ resubscribe \/ resubscribeFromLive \/ reissue \/ attached

Next == \/ Emit \/ ProcessEnds \/ Forget \/ MoveVM \/ DeadlinePasses
        \/ brokenStream \/ disconnect \/ cut \/ reconnectError \/ openFails
        \/ Client

Spec == Init /\ [][Next]_vars

\* The consumer keeps iterating, and awaited answers arrive.
FairSpec == Spec /\ WF_vars(Client)

-----------------------------------------------------------------------------
(* Properties.                                                             *)

\* Types; and the loop is waiting for something: an open stream, a
\* reconnection or an opening.
TypeOK ==
    /\ kind \in Kinds /\ vm \in {"running", "suspending", "frozen"} /\ gen \in 0 .. MaxGen
    /\ emitted \in 0 .. MaxSeq /\ ended \in BOOLEAN /\ forgotten \in BOOLEAN
    /\ pc \in {"reading", "reconnecting", "connecting", "live", "done"}
    /\ opened \in 0 .. MaxSeq + 1 /\ opening \in 0 .. MaxSeq + 1
    /\ seen \in Seq(1 .. MaxSeq) /\ Len(seen) <= MaxSeq
    /\ reason \in {"none", "reset", "suspending"}
    /\ generation \in 0 .. MaxGen /\ futile \in 0 .. MaxFutile
    /\ stopped \in BOOLEAN /\ expired \in BOOLEAN
    /\ outcome \in {"none", "complete", "failed", "left"}
    /\ outcome = "none" <=> pc # "done"
    /\ pc = "reading" => opened # 0 \/ stopped

Log == INSTANCE OutputLog WITH result <- outcome, gapless <- (kind = "code")

\* Through any number of cuts, suspensions and resubscriptions a handle hands
\* over each event at most once and in order, and an execution that ends
\* "complete" missed none (ExecutionFeed never continues past lost output).
ImplementsOutputLog == Log!LogSpec

\* A command or terminal handle jumps to the live output only when the event
\* after the last one it saw was evicted by the agent (resubscribeFromLive).
GapsStartEvicted ==
    kind \in {"command", "pty"} =>
        \A i \in 1 .. Len(seen) :
            LET before == IF i = 1 THEN 0 ELSE seen[i - 1] IN
            seen[i] # before + 1 => before + 1 < oldest

\* No stream stays open behind a handle that is over, except the one whose
\* opening a disconnect() overtook (resubscribeAfterCut does not look again,
\* #reissue of a watch does).
NoOrphanStream ==
    pc = "done" /\ opened # 0 => stopped /\ kind \in {"command", "pty"}

(***************************************************************************)
(* The handle as a whole: a gap in the output begins at what the agent had *)
(* evicted, the reconnection budget holds, and no stream stays open behind *)
(* a handle that ended.                                                    *)
(***************************************************************************)
StreamSound ==
    /\ TypeOK
    /\ GapsStartEvicted
    /\ NoOrphanStream

\* Once the VM stays up, the end of the process reaches the caller of wait(),
\* as a result or as an error: a stream cut again and again with the agent
\* alive is given up after MaxFutile reconnections (ReconnectBudget).
EndReachesCaller == <>[](vm = "running") => (ended ~> pc = "done")

=============================================================================
