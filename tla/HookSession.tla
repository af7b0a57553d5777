---------------------------- MODULE HookSession ----------------------------
(***************************************************************************)
(* The hook calls of one boot, concurrent with each other: the peer check  *)
(* and the handlers of crates/rayd/src/hooks/mod.rs over the session of    *)
(* crates/rayd-core/src/session.rs, with its audit (hooks.rs), its access  *)
(* token gate (auth.rs) and the /validate cell (crates/rayd/src/code).     *)
(*                                                                         *)
(* The session keeps each of its parts behind a lock of its own: the phase *)
(* machine, the audit, the payload's defaults, the token and the deadline. *)
(* A handler is one step per lock it takes, so that two calls interleave   *)
(* between any two of them.                                                *)
(*                                                                         *)
(* A call stands for its own content: the identity, defaults and token of  *)
(* a /run are named after the call that carried them.  A nominal audit     *)
(* record only writes a log line and a per-hook counter that nothing       *)
(* reads; it is left out.                                                  *)
(***************************************************************************)
EXTENDS HookLifecycle, FiniteSets

CONSTANTS
    Calls,        \* hook calls of the boot
    NoCall,       \* nothing installed
    Disconnects   \* whether a caller may drop its connection

ASSUME CallsAssumption ==
    /\ Calls \subseteq SandboxIds
    /\ IsFiniteSet(Calls)
    /\ NoCall \notin Calls
    /\ Disconnects \in BOOLEAN

VARIABLES
    pc,           \* per call: the next step of its handler
    hook,         \* per call: which hook
    origin,       \* per call: PeerOrigin
    runAccepted,  \* HookAudit::run_accepted
    anomalies,    \* HookAudit::anomalies
    counted,      \* history: anomalies counted for the call
    defaults,     \* whose spawn defaults, metadata and bindings are in place
    token,        \* whose token digest is installed
    managed,      \* whose lifecycle block is installed
    rotation,     \* the default kernel's rotation
    validation,   \* ValidationState and the step of its task
    shutdown      \* the shutdown token is scheduled to be cancelled

auditVars == <<runAccepted, anomalies, counted>>
payloadVars == <<defaults, token, managed>>
workVars == <<rotation, validation, shutdown>>
sessionVars == <<pc, hook, origin, auditVars, payloadVars, workVars>>
hVars == <<lifecycleVars, sessionVars>>

Hook == {"ready", "validate", "run", "suspend", "resume", "terminate"}
PeerOrigin == {"Platform", "Unverified", "Sandbox"}
NoHook == "none"

SessionInit ==
    /\ Init
    /\ pc = [c \in Calls |-> "idle"]
    /\ hook = [c \in Calls |-> NoHook]
    /\ origin = [c \in Calls |-> "Unverified"]
    /\ runAccepted = FALSE
    /\ anomalies = 0
    /\ counted = [c \in Calls |-> 0]
    /\ defaults = NoCall
    /\ token = NoCall
    /\ managed = NoCall
    /\ rotation = "none"
    /\ validation = "Idle"
    /\ shutdown = FALSE

Goto(c, step) == pc' = [pc EXCEPT ![c] = step]

(* HookAudit::note_anomaly, and its guarded forms note_anomaly_after_run   *)
(* and record(_, Anomalous).                                               *)
note_anomaly(c) ==
    /\ anomalies' = anomalies + 1
    /\ counted' = [counted EXCEPT ![c] = @ + 1]
    /\ UNCHANGED runAccepted

note_anomaly_after_run(c) ==
    IF runAccepted THEN note_anomaly(c) ELSE UNCHANGED auditVars

----------------------------------------------------------------------------
(* hook_peer::peer_action.                                                 *)
peer_action(h, o) ==
    CASE h \in {"terminate", "validate"} /\ o = "Sandbox" -> "Refuse"
      [] \/ h = "terminate" /\ o = "Unverified"
         \/ h \in {"suspend", "resume"} /\ o = "Sandbox" -> "Anomalous"
      [] OTHER -> "Nominal"

(* check_peer: a call arrives, is classified, and is refused or handed to  *)
(* its handler.                                                            *)
check_peer(c, h, o) ==
    /\ pc[c] = "idle"
    /\ hook' = [hook EXCEPT ![c] = h]
    /\ origin' = [origin EXCEPT ![c] = o]
    /\ IF peer_action(h, o) = "Nominal"
       THEN UNCHANGED auditVars
       ELSE note_anomaly_after_run(c)
    /\ Goto(c, IF peer_action(h, o) = "Refuse" THEN "done" ELSE h)
    /\ UNCHANGED <<lifecycleVars, payloadVars, workVars>>

(* An audit record of an anomalous call, the last step of its handler. *)
AuditAnomaly(c) ==
    /\ pc[c] = "audit"
    /\ note_anomaly_after_run(c)
    /\ Goto(c, "done")
    /\ UNCHANGED <<lifecycleVars, hook, origin, payloadVars, workVars>>

----------------------------------------------------------------------------
(* run_from: a sandbox-owned /run never claims. *)
RunSandboxOrigin(c) ==
    /\ pc[c] = "run"
    /\ origin[c] = "Sandbox"
    /\ note_anomaly(c)
    /\ Goto(c, "done")
    /\ UNCHANGED <<lifecycleVars, hook, origin, payloadVars, workVars>>

RunClaims(c) ==
    /\ pc[c] = "run"
    /\ origin[c] # "Sandbox"
    /\ run(c)
    /\ Goto(c, "accept")
    /\ UNCHANGED <<hook, origin, auditVars, payloadVars, workVars>>

(* AlreadyRan, or Illegal in a phase with no claim left. *)
RunIsLate(c) ==
    /\ pc[c] = "run"
    /\ origin[c] # "Sandbox"
    /\ ~RunIsClaim
    /\ Goto(c, "audit")
    /\ UNCHANGED <<lifecycleVars, hook, origin, auditVars, payloadVars, workVars>>

(* The audit opens; then the payload is parsed: a missing or invalid one   *)
(* leaves the boot without a token (Tokenless).                            *)
RunAccepted(c) ==
    /\ pc[c] = "accept"
    /\ runAccepted' = TRUE
    /\ \E next \in {"defaults", "done"} : Goto(c, next)
    /\ UNCHANGED <<lifecycleVars, hook, origin, anomalies, counted,
                   payloadVars, workVars>>

(* install_payload: the defaults, metadata and bindings first, then the    *)
(* token, then the lifecycle block.  The mutant installs the token first.  *)
Bug_TokenFirst(c) ==
    /\ pc[c] = "defaults"
    /\ token' = c
    /\ Goto(c, "token")
    /\ UNCHANGED <<lifecycleVars, hook, origin, auditVars, defaults,
                   managed, workVars>>

StoreDefaults(c) ==
    /\ pc[c] = "defaults"
    /\ defaults' = c
    /\ Goto(c, "token")
    /\ UNCHANGED <<lifecycleVars, hook, origin, auditVars, token,
                   managed, workVars>>

install_once(c) ==
    /\ pc[c] = "token"
    /\ IF token = NoCall
       THEN token' = c /\ Goto(c, "lifecycle")
       ELSE UNCHANGED token /\ Goto(c, "audit")
    /\ UNCHANGED <<lifecycleVars, hook, origin, auditVars, defaults,
                   managed, workVars>>

(* install_lifecycle, when the payload has the block. *)
install_lifecycle(c) ==
    /\ pc[c] = "lifecycle"
    /\ managed' \in {managed, c}
    /\ Goto(c, "mark")
    /\ UNCHANGED <<lifecycleVars, hook, origin, auditVars, defaults,
                   token, workVars>>

(* The handler after RunOutcome::Installed: mark_rotation_pending, then    *)
(* the egress enforcement it awaits, then spawn_run_rotation.              *)
mark_rotation_pending(c) ==
    /\ pc[c] = "mark"
    /\ rotation' = "pending"
    /\ Goto(c, "network")
    /\ UNCHANGED <<lifecycleVars, hook, origin, auditVars,
                   payloadVars, validation, shutdown>>

spawn_run_rotation(c) ==
    /\ pc[c] = "network"
    /\ rotation' = "spawned"
    /\ Goto(c, "done")
    /\ UNCHANGED <<lifecycleVars, hook, origin, auditVars,
                   payloadVars, validation, shutdown>>

RunStep(c) ==
    \/ RunSandboxOrigin(c)
    \/ RunClaims(c)
    \/ RunIsLate(c)
    \/ RunAccepted(c)
    \/ StoreDefaults(c)
    \/ install_once(c)
    \/ install_lifecycle(c)
    \/ mark_rotation_pending(c)
    \/ spawn_run_rotation(c)

----------------------------------------------------------------------------
(* /ready: run_claimed is read first; before /run the kernel's warmth and  *)
(* the participants decide (503 or 500: nothing changes), and the session  *)
(* is told only then.                                                      *)
ReadyDecides(c) ==
    /\ pc[c] = "ready"
    /\ IF runClaimed
       THEN Goto(c, "lateReady")
       ELSE \E next \in {"markReady", "done"} : Goto(c, next)
    /\ UNCHANGED <<lifecycleVars, hook, origin, auditVars,
                   payloadVars, workVars>>

ReadyMarks(c) ==
    /\ pc[c] \in {"markReady", "lateReady"}
    /\ IF phase \in {"Booting", "Ready"} THEN ready ELSE UNCHANGED lifecycleVars
    /\ Goto(c, IF pc[c] = "lateReady" THEN "audit" ELSE "done")
    /\ UNCHANGED <<hook, origin, auditVars, payloadVars, workVars>>

(* /validate: the first call before /run starts the cell.  start_validation *)
(* tests Idle again under its lock and its task begins with build_gate, so  *)
(* the decision and the start are one step.  The sidecar is configured.     *)
Validate(c) ==
    /\ pc[c] = "validate"
    /\ Goto(c, IF runClaimed THEN "audit" ELSE "done")
    /\ validation' = IF ~runClaimed /\ validation = "Idle"
                     THEN "gateRestart" ELSE validation
    /\ UNCHANGED <<lifecycleVars, hook, origin, auditVars,
                   payloadVars, rotation, shutdown>>

(* SandboxSession::build_gate *)
build_gate == phase \in {"Booting", "Ready"} /\ ~runClaimed

(* run_validation, a task of its own: the gate, restart_context on the     *)
(* default context, the gate of execute_unchecked, start_execution.        *)
ValidationGate ==
    /\ validation \in {"gateRestart", "gateCell"}
    /\ validation' =
         CASE ~build_gate -> "Done"
           [] build_gate /\ validation = "gateRestart" -> "restart"
           [] build_gate /\ validation = "gateCell" -> "cell"
    /\ UNCHANGED <<lifecycleVars, pc, hook, origin, auditVars,
                   payloadVars, rotation, shutdown>>

ValidationActs ==
    /\ validation \in {"restart", "cell"}
    /\ validation' = IF validation = "restart" THEN "gateCell" ELSE "Done"
    /\ UNCHANGED <<lifecycleVars, pc, hook, origin, auditVars,
                   payloadVars, rotation, shutdown>>

----------------------------------------------------------------------------
(* /suspend and /resume: the phase machine; the rest of their handlers is  *)
(* SuspendCheckpoint's.                                                    *)
Suspend(c) ==
    /\ pc[c] = "suspend"
    /\ IF SuspendChanges THEN suspend ELSE UNCHANGED lifecycleVars
    /\ Goto(c, "done")
    /\ UNCHANGED <<hook, origin, auditVars, payloadVars, workVars>>

Resume(c) ==
    /\ pc[c] = "resume"
    /\ IF ResumeChanges THEN resume ELSE UNCHANGED lifecycleVars
    /\ Goto(c, "done")
    /\ UNCHANGED <<hook, origin, auditVars, payloadVars, workVars>>

(* /terminate: the participants run for the call that changed the phase,   *)
(* then schedule_shutdown.                                                 *)
Terminate(c) ==
    /\ pc[c] = "terminate"
    /\ terminate
    /\ Goto(c, IF phase = "Terminating" THEN "shutdown" ELSE "participants")
    /\ UNCHANGED <<hook, origin, auditVars, payloadVars, workVars>>

ParticipantsEnd(c) ==
    /\ pc[c] = "participants"
    /\ Goto(c, "shutdown")
    /\ UNCHANGED <<lifecycleVars, hook, origin, auditVars,
                   payloadVars, workVars>>

Bug_NoShutdown(c) ==
    /\ pc[c] = "shutdown"
    /\ Goto(c, "done")
    /\ UNCHANGED <<lifecycleVars, hook, origin, auditVars,
                   payloadVars, workVars>>

schedule_shutdown(c) ==
    /\ pc[c] = "shutdown"
    /\ shutdown' = TRUE
    /\ Goto(c, "done")
    /\ UNCHANGED <<lifecycleVars, hook, origin, auditVars,
                   payloadVars, rotation, validation>>

(* The caller goes away while its handler is at an await: the future is    *)
(* dropped there.                                                          *)
DropHandler(c) ==
    /\ Disconnects
    /\ pc[c] \in {"network", "participants"}
    /\ Goto(c, "dropped")
    /\ UNCHANGED <<lifecycleVars, hook, origin, auditVars,
                   payloadVars, workVars>>

HandlerStep(c) ==
    \/ AuditAnomaly(c) \/ RunStep(c)
    \/ ReadyDecides(c) \/ ReadyMarks(c) \/ Validate(c)
    \/ Suspend(c) \/ Resume(c)
    \/ Terminate(c) \/ ParticipantsEnd(c) \/ schedule_shutdown(c)

Validation == ValidationGate \/ ValidationActs

HNext ==
    \/ \E c \in Calls : \E h \in Hook : \E o \in PeerOrigin :
         check_peer(c, h, o)
    \/ \E c \in Calls : HandlerStep(c) \/ DropHandler(c)
    \/ Validation

HSpec == SessionInit /\ [][HNext]_hVars

(* A handler that was called is polled to its end unless it is dropped. *)
HFairSpec == HSpec /\ \A c \in Calls : WF_hVars(HandlerStep(c))

----------------------------------------------------------------------------
(* Every variable has its type; a boot never counts more anomalies than it *)
(* received calls.                                                         *)
HTypeOK ==
    /\ TypeOK
    /\ pc \in [Calls -> Hook \cup
         {"idle", "done", "dropped", "audit", "accept", "defaults", "token",
          "lifecycle", "mark", "network", "lateReady", "markReady",
          "participants", "shutdown"}]
    /\ hook \in [Calls -> Hook \cup {NoHook}]
    /\ origin \in [Calls -> PeerOrigin]
    /\ runAccepted \in BOOLEAN
    /\ anomalies \in 0..Cardinality(Calls)
    /\ counted \in [Calls -> Nat]
    /\ {defaults, token, managed} \subseteq Calls \cup {NoCall}
    /\ rotation \in {"none", "pending", "spawned"}
    /\ validation \in {"Idle", "gateRestart", "restart", "gateCell", "cell",
                       "Done"}
    /\ shutdown \in BOOLEAN

(* One boot, one owner: whoever's token authenticates, the identity, the   *)
(* defaults and the deadline are of the same /run, that /run did not come  *)
(* from a sandbox process, and they were in place before the first RPC     *)
(* could be authorised.                                                    *)
OneOwner ==
    /\ token # NoCall => /\ defaults = token
                         /\ sandboxId = token
                         /\ origin[token] # "Sandbox"
    /\ managed # NoCall => managed = token

(* A call is counted as an anomaly at most once, though the peer check and *)
(* the handler both may count: "a count here would only ever double        *)
(* theirs" (hook_peer.rs).                                                 *)
OneAnomalyPerCall == \A c \in Calls : counted[c] <= 1

(***************************************************************************)
(* The hook session as a whole: everything a boot installed is of one      *)
(* /run, and no call is counted twice as an anomaly.                       *)
(***************************************************************************)
SessionSound ==
    /\ HTypeOK
    /\ OneOwner
    /\ OneAnomalyPerCall

(* The caller of hook h went away before the handler was done. *)
Dropped(h) == \E c \in Calls : hook[c] = h /\ pc[c] = "dropped"

(* Unless the caller of /run or /terminate goes away in the middle of it:  *)
(* the default kernel of an installed sandbox is rotated, and a boot that  *)
(* was told to terminate shuts down, whatever else is called meanwhile.    *)
WorkCompletes ==
    /\ rotation = "pending" ~> (rotation = "spawned" \/ Dropped("run"))
    /\ phase = "Terminating" ~> (shutdown \/ Dropped("terminate"))

=============================================================================
