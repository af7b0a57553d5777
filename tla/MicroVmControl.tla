--------------------------- MODULE MicroVmControl ---------------------------
(***************************************************************************)
(* pause, resume, connect and killVm of the TypeScript SDK                   *)
(* (sandbox/sandbox.ts, aws/control-plane.ts, sandbox/readiness.ts) from   *)
(* two clients of one MicroVM.  Each operation reads the VM's state, acts  *)
(* on it with another call and polls for the outcome; the platform and the *)
(* other client move in between.                                           *)
(*                                                                         *)
(* The fields of control: vm, the platform's state; auto, its idle policy  *)
(* resumes on traffic; op, pc, seen, result by client; met, the states the *)
(* VM was in during the client's operation (history); calm, nobody else    *)
(* touched the VM during it (history).                                     *)
(***************************************************************************)
EXTENDS Naturals, Integers, FiniteSets, FiniteSetsExt

VARIABLES control, plane

Handles == {"a", "b"}
TerminalStates == {"TERMINATING", "TERMINATED"}
SuspendedStates == {"SUSPENDING", "SUSPENDED"}

ControlInit ==
    control = [vm |-> "idle", auto |-> FALSE, op |-> [h \in Handles |-> "none"],
               pc |-> [h \in Handles |-> "idle"], seen |-> [h \in Handles |-> "none"],
               result |-> [h \in Handles |-> "none"], met |-> [h \in Handles |-> {}],
               calm |-> [h \in Handles |-> TRUE]]

begin ==
    /\ control.vm = "idle"
    /\ \E auto \in BOOLEAN, vm \in {"RUNNING", "SUSPENDED"} :
         control' = [control EXCEPT !.vm = vm, !.auto = auto]

\* The VM's state becomes s by the doing of h, or of the platform ("").
Moves(c, s, h) ==
    [c EXCEPT !.vm = s,
              !.met = [k \in Handles |-> IF c.pc[k] = "idle" THEN @[k] ELSE @[k] \union {s}],
              !.calm = [k \in Handles |-> @[k] /\ (h \in {"", k} \/ c.vm = s)]]
Ends(c, h, r) == [c EXCEPT !.pc[h] = "idle", !.result[h] = r]

-----------------------------------------------------------------------------
(* The platform.                                                           *)

platformSettles ==
    /\ control.vm \in {"SUSPENDING", "TERMINATING"}
    /\ control' = Moves(control, IF control.vm = "SUSPENDING" THEN "SUSPENDED" ELSE "TERMINATED", "")

\* The calls of the control plane: whether they answer 200 (TRUE) or a
\* conflict (FALSE), and what they do.  suspend of a suspended VM and resume of
\* a running one answer 200 and change nothing; so may suspend of one that is
\* being suspended.
Answers(call) ==
    CASE call = "suspend" -> CASE control.vm \in {"RUNNING", "SUSPENDED"} -> {TRUE}
                               [] control.vm = "SUSPENDING" -> BOOLEAN
                               [] OTHER -> {FALSE}
      [] call = "resume" -> {control.vm \in {"RUNNING", "SUSPENDED"}}
      [] OTHER -> IF control.vm = "TERMINATED" THEN BOOLEAN ELSE {TRUE}
Acts(call) ==
    CASE call = "suspend" -> control.vm = "RUNNING"
      [] call = "resume" -> control.vm = "SUSPENDED"
      [] OTHER -> control.vm \notin TerminalStates
Turns(call) == CASE call = "suspend" -> "SUSPENDING" [] call = "resume" -> "RUNNING" [] OTHER -> "TERMINATING"
Invoke(c, call, h) == IF Acts(call) THEN Moves(c, Turns(call), h) ELSE c

-----------------------------------------------------------------------------
(* The operations.                                                         *)

startOp(h) ==
    /\ control.vm # "idle" /\ control.pc[h] = "idle" /\ control.op[h] = "none"
    /\ \E op \in {"pause", "resume", "wake", "connect", "killVm"} :
         control' = [control EXCEPT
            !.op[h] = op, !.calm[h] = control.pc = [k \in Handles |-> "idle"],
            !.met[h] = {control.vm},
            !.pc[h] = IF op \in {"pause", "connect"} THEN "reading" ELSE "calling"]

\* pause and connect look at the state first.
needsExplicitResume(vm) == vm = "SUSPENDED" /\ ~control.auto
alreadySuspended(vm) == vm \in SuspendedStates

readState(h) ==
    /\ control.pc[h] = "reading"
    /\ LET c == [control EXCEPT !.seen[h] = control.vm] IN
       control' =
         IF control.op[h] = "pause" /\ alreadySuspended(control.vm) THEN Ends(c, h, "no")
           ELSE IF control.op[h] = "connect" /\ control.vm \in TerminalStates THEN Ends(c, h, "gone")
           ELSE IF control.op[h] = "connect" /\ ~needsExplicitResume(control.vm) THEN [c EXCEPT !.pc[h] = "waiting"]
           ELSE [c EXCEPT !.pc[h] = "calling"]

\* Without `wait` the answer of the call is all the caller is told ("asked").
Waits(c, h) == {[c EXCEPT !.pc[h] = "waiting"], Ends(c, h, "asked")}
pause(h) ==
    /\ control.pc[h] = "calling" /\ control.op[h] = "pause"
    /\ \E ok \in Answers("suspend") :
         control' \in IF ok THEN Waits(Invoke(control, "suspend", h), h) ELSE {Ends(control, h, "no")}

\* resume ignores a conflict: the VM may already run; then it waits, for the
\* state (static) or for the agent ("wake", of a handle).
resume(h) ==
    /\ control.pc[h] = "calling" /\ control.op[h] \in {"resume", "wake", "connect"}
    /\ control' \in LET c == Invoke(control, "resume", h)
                     IN  IF control.op[h] = "connect" THEN {[c EXCEPT !.pc[h] = "waiting"]} ELSE Waits(c, h)

killVm(h) ==
    /\ control.pc[h] = "calling" /\ control.op[h] = "killVm"
    /\ \E ok \in Answers("terminate") :
         control' = Ends(Invoke(control, "terminate", h), h, IF ok THEN "yes" ELSE "no")

\* waitForState of pause and of resume: the wanted state, a terminal one or
\* the deadline.  It never wakes the VM.
Wanted(op) == IF op = "pause" THEN "SUSPENDED" ELSE "RUNNING"
Bug_waitForever(h) ==
    /\ control.pc[h] = "waiting" /\ control.op[h] \in {"pause", "resume"} /\ control.vm = Wanted(control.op[h])
    /\ control' = Ends(control, h, "yes")
waitForState(h) ==
    /\ control.pc[h] = "waiting" /\ control.op[h] \in {"pause", "resume"}
    /\ CASE control.vm = Wanted(control.op[h]) -> control' = Ends(control, h, "yes")
         [] control.vm \in TerminalStates -> control' = Ends(control, h, "gone")
         [] OTHER -> control' = Ends(control, h, "timeout")

\* waitUntilReady: the poll of Health is traffic, which wakes a suspended VM
\* with auto-resume; the agent of a running VM answers, and so may the agent of
\* a VM that is freezing.
waitUntilReady(h) ==
    /\ control.pc[h] = "waiting" /\ control.op[h] \in {"connect", "wake"}
    /\ CASE control.vm \in {"RUNNING", "SUSPENDING"} -> control' = Ends(control, h, "yes")
         [] control.vm = "SUSPENDED" /\ control.auto -> control' = Moves(control, "RUNNING", h)
         [] control.vm \in TerminalStates -> control' = Ends(control, h, "gone")
         [] OTHER -> control' = Ends(control, h, "timeout")

ControlOps(h) ==
    readState(h) \/ pause(h) \/ resume(h) \/ killVm(h) \/ waitForState(h) \/ waitUntilReady(h)
ControlNext == begin \/ platformSettles \/ \E h \in Handles : startOp(h) \/ ControlOps(h)
ControlFairness ==
    WF_control(platformSettles) /\ \A h \in Handles : WF_control(ControlOps(h))

-----------------------------------------------------------------------------
\* A static resume that waited reports success only of a VM that ran during
\* the operation; connect and a handle's resume only of one whose agent could
\* answer during it, a VM on its way to sleep included, whatever the other
\* client did: never of one that was suspended or ended throughout.
ReadyIsReal ==
    \A h \in Handles :
        control.result[h] = "yes" =>
            /\ control.op[h] = "resume" => "RUNNING" \in control.met[h]
            /\ control.op[h] \in {"connect", "wake"} => control.met[h] \cap {"RUNNING", "SUSPENDING"} # {}

\* A pause that waited is told that it was done only of a VM that ran and that
\* slept during the operation: of two clients that pause one after the other
\* the second is told no (two whose reads both came before the first suspend
\* may both be told yes, since suspend answers 200 on a suspended VM).
PauseIsTrue ==
    \A h \in Handles :
        (control.op[h] = "pause" /\ control.result[h] = "yes") =>
            {"RUNNING", "SUSPENDED"} \subseteq control.met[h]

\* A connect that nobody disturbs reaches the VM: it is resumed explicitly
\* or by traffic.  The exception is a VM that was still SUSPENDING when its
\* state was read, without auto-resume: nobody asks for its resume and the
\* connect ends in a timeout.
ConnectWakes ==
    \A h \in Handles :
        (control.op[h] = "connect" /\ control.calm[h] /\ control.result[h] = "timeout")
            => control.seen[h] = "SUSPENDING" /\ ~control.auto

\* Every operation ends for its caller.
ControlEnds == \A h \in Handles : control.op[h] # "none" ~> control.result[h] # "none"

-----------------------------------------------------------------------------
(***************************************************************************)
(* The client side of the AWS API in the TypeScript SDK                    *)
(* (aws/control-plane.ts): TokenBucket, which holds a call back so that an *)
(* operation stays under its transactions per second, and the caller       *)
(* identity, one promise shared by every caller and forgotten when it      *)
(* fails.                                                                  *)
(*                                                                         *)
(* The fields of plane: now, in units of 1/rate; tokens, owed ones         *)
(* negative; updatedAt; sleeping, the instants at which the calls that     *)
(* wait will be sent; sent, how many calls left at each instant;           *)
(* identity, the shared promise; asked, the callers that await it; told,   *)
(* what each caller got; failures, the STS requests that failed.            *)
(***************************************************************************)

Rate == 2
Horizon == 4
MaxSends == 4
Askers == {"p", "q"}

PlaneInit ==
    plane = [now |-> 0, tokens |-> Rate, updatedAt |-> 0, sleeping |-> [t \in 0..Horizon |-> 0],
             sent |-> [t \in 0..Horizon |-> 0], identity |-> "none", asked |-> {},
             told |-> [c \in Askers |-> "none"], failures |-> 0]

-----------------------------------------------------------------------------
(* TokenBucket.  One unit of time refills one token.                       *)

SumOver(f, S) == MapThenSumSet(LAMBDA t : f[t], S)

refill ==
    LET full == plane.tokens + (plane.now - plane.updatedAt)
    IN  IF full > Rate THEN Rate ELSE full

\* acquire: the token is taken at once, the caller sleeps until it exists.
\* An aborted caller leaves its token taken and sends nothing.
acquire ==
    /\ SumOver(plane.sent, 0..Horizon) + SumOver(plane.sleeping, 0..Horizon) < MaxSends
    /\ LET wait == IF refill >= 1 THEN 0 ELSE 1 - refill
           at == plane.now + wait
       IN  /\ at <= Horizon
           /\ \E aborted \in BOOLEAN :
                plane' = [plane EXCEPT
                   !.tokens = refill - 1, !.updatedAt = plane.now,
                   !.sleeping[at] = IF aborted THEN @ ELSE @ + 1]

send ==
    /\ plane.sleeping[plane.now] > 0
    /\ plane' = [plane EXCEPT !.sleeping[plane.now] = @ - 1, !.sent[plane.now] = @ + 1]

advance ==
    /\ plane.now < Horizon /\ plane.sleeping[plane.now] = 0
    /\ plane' = [plane EXCEPT !.now = @ + 1]

-----------------------------------------------------------------------------
(* #callerIdentity.                                                        *)

callerIdentity(c) ==
    /\ plane.told[c] # "ok" /\ c \notin plane.asked /\ plane.now = 0 /\ plane.failures <= 1
    /\ plane' = [plane EXCEPT
          !.identity = IF @ = "none" THEN "pending" ELSE @,
          !.asked = IF plane.identity = "ok" THEN @ ELSE @ \union {c},
          !.told[c] = IF plane.identity = "ok" THEN "ok" ELSE "none"]

\* GetCallerIdentity answers everyone who awaits the promise; a failure is
\* forgotten before it is thrown.
settled(ok) == IF ok THEN "ok" ELSE "none"
fetchCallerIdentity ==
    /\ plane.identity = "pending"
    /\ \E ok \in BOOLEAN :
         plane' = [plane EXCEPT
            !.identity = settled(ok), !.asked = {},
            !.failures = IF ok THEN @ ELSE @ + 1,
            !.told = [c \in Askers |-> IF c \in plane.asked THEN (IF ok THEN "ok" ELSE "error") ELSE @[c]]]

PlaneNext == acquire \/ send \/ advance \/ (\E c \in Askers : callerIdentity(c)) \/ fetchCallerIdentity
PlaneFairness == WF_plane(fetchCallerIdentity) /\ WF_plane(send)

-----------------------------------------------------------------------------
\* In every window the calls sent are at most the bucket's capacity plus
\* what was refilled during it: a burst after an idle period never exceeds
\* the service's limit, however many callers sleep or abort.
NeverOverRate ==
    \A from \in 0..Horizon : \A to \in from..Horizon :
        SumOver(plane.sent, from..to) <= Rate + (to - from)

\* Whoever asks for the identity is answered, also after another caller's
\* request failed.
IdentityAnswered ==
    \A c \in Askers : (c \in plane.asked) ~> (c \notin plane.asked /\ plane.told[c] # "none")

=============================================================================
