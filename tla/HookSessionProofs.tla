------------------------- MODULE HookSessionProofs -------------------------
(***************************************************************************)
(* Proofs about HookSession, for any finite number of concurrent calls.    *)
(*                                                                         *)
(* OneOwner needs to know that every step of a handler past the claim is   *)
(* of the call whose identity the session holds (Owners): the locks taken  *)
(* one after the other then all belong to one /run.  OneAnomalyPerCall     *)
(* needs to know where a call cannot have been counted yet (CountsOnce).   *)
(***************************************************************************)
EXTENDS HookSession, HookLifecycleProofs, FiniteSetTheorems

(* The steps of a /run after its claim.                                    *)
OwnerPc == {"accept", "defaults", "token", "lifecycle", "mark", "network"}

Owners ==
    /\ \A c \in Calls : pc[c] \in OwnerPc => sandboxId = c /\ origin[c] # "Sandbox"
    /\ \A c \in Calls : pc[c] \in {"token", "lifecycle"} => defaults = c
    /\ \A c \in Calls : pc[c] = "lifecycle" => token = c
    /\ sandboxId # NoSandbox => runClaimed
    /\ token # NoCall => pc[token] # "idle"

(* Where the peer check, or the handler, may have counted the call.        *)
CountedPc == {"suspend", "resume", "terminate", "participants", "shutdown", "done", "dropped"}
Counted == {c \in Calls : counted[c] = 1}

CountsOnce ==
    /\ \A c \in Calls : counted[c] \in {0, 1}
    /\ \A c \in Calls : pc[c] \notin CountedPc => counted[c] = 0
    /\ anomalies = Cardinality(Counted)

HIInv == IInv /\ HTypeOK /\ Owners /\ OneOwner /\ CountsOnce

AllPc == Hook \cup
    {"idle", "done", "dropped", "audit", "accept", "defaults", "token", "lifecycle", "mark",
     "network", "lateReady", "markReady", "participants", "shutdown"}

(* The types of the audit.                                                 *)
AuditTypes ==
    /\ runAccepted \in BOOLEAN
    /\ anomalies \in 0 .. Cardinality(Calls)
    /\ counted \in [Calls -> Nat]

(* Every step of a hook is one of the phase machine, or leaves it alone.   *)
LEMMA HooksAreLifecycleSteps ==
  ASSUME HIInv, [HNext]_hVars
  PROVE  IInv'
  <1>1. [Next]_lifecycleVars
    <2>1. CASE \E c \in Calls : \E h \in Hook : \E o \in PeerOrigin : check_peer(c, h, o)
      BY <2>1 DEF check_peer
    <2>2. ASSUME NEW c \in Calls, HandlerStep(c) \/ DropHandler(c)
          PROVE  [Next]_lifecycleVars
      <3>1. CASE RunStep(c)
        <4>1. c \in SandboxIds
          BY CallsAssumption
        <4> QED
          BY <3>1, <4>1
          DEF RunStep, RunSandboxOrigin, RunClaims, RunIsLate, RunAccepted, StoreDefaults, install_once,
              install_lifecycle, mark_rotation_pending, spawn_run_rotation, Next
      <3>2. CASE ~RunStep(c)
        BY <2>2, <3>2
        DEF HandlerStep, AuditAnomaly, ReadyDecides, ReadyMarks, Validate, Suspend, Resume, Terminate,
            ParticipantsEnd, schedule_shutdown, DropHandler, Next
      <3> QED
        BY <3>1, <3>2
    <2>3. CASE Validation
      BY <2>3 DEF Validation, ValidationGate, ValidationActs
    <2>4. CASE UNCHANGED hVars
      BY <2>4 DEF hVars
    <2> QED
      BY <2>1, <2>2, <2>3, <2>4 DEF HNext
  <1> QED
    BY <1>1, NextPreserves DEF HIInv

(* A handler moves on and counts nothing.                                  *)
LEMMA NothingCounted ==
  ASSUME HIInv, NEW c \in Calls, NEW step, Goto(c, step), UNCHANGED <<anomalies, counted>>,
         pc[c] \in CountedPc => step \in CountedPc
  PROVE  CountsOnce'
  <1>1. pc \in [Calls -> AllPc]
    BY DEF HIInv, HTypeOK, AllPc
  <1>2. pc'[c] = step /\ \A d \in Calls : d # c => pc'[d] = pc[d]
    BY <1>1 DEF Goto
  <1>3. Counted' = Counted
    BY DEF Counted
  <1> QED
    BY <1>2, <1>3 DEF HIInv, CountsOnce

(* A handler counts its call, which was not counted.                       *)
LEMMA OneCounted ==
  ASSUME HIInv, NEW c \in Calls, NEW step \in CountedPc, Goto(c, step), note_anomaly(c),
         pc[c] \notin CountedPc
  PROVE  CountsOnce' /\ AuditTypes'
  <1>1. pc \in [Calls -> AllPc] /\ counted \in [Calls -> Nat] /\ runAccepted \in BOOLEAN
    BY DEF HIInv, HTypeOK, AllPc
  <1>2. pc'[c] = step /\ \A d \in Calls : d # c => pc'[d] = pc[d]
    BY <1>1 DEF Goto
  <1>3. counted[c] = 0
    BY DEF HIInv, CountsOnce
  <1>4. /\ counted' \in [Calls -> Nat] /\ counted'[c] = 1
        /\ \A d \in Calls : d # c => counted'[d] = counted[d]
    BY <1>1, <1>3 DEF note_anomaly
  <1>5. Counted' = Counted \cup {c} /\ c \notin Counted
    BY <1>3, <1>4 DEF Counted
  <1>6. Counted \subseteq Calls /\ Counted' \subseteq Calls
    BY DEF Counted
  <1>7. /\ IsFiniteSet(Counted)
        /\ Cardinality(Counted') <= Cardinality(Calls)
        /\ Cardinality(Counted') \in Nat /\ Cardinality(Counted) \in Nat /\ Cardinality(Calls) \in Nat
    BY <1>6, CallsAssumption, FS_Subset, FS_CardinalityType
  <1>8. Cardinality(Counted') = Cardinality(Counted) + 1
    BY <1>5, <1>7, FS_AddElement
  <1>9. anomalies = Cardinality(Counted) /\ anomalies' = anomalies + 1
    BY DEF HIInv, CountsOnce, note_anomaly
  <1>10. anomalies' = Cardinality(Counted')
    BY <1>8, <1>9
  <1>11. CountsOnce'
    BY <1>2, <1>4, <1>10 DEF HIInv, CountsOnce
  <1>12. anomalies' \in 0 .. Cardinality(Calls)
    BY <1>7, <1>10
  <1>13. runAccepted' \in BOOLEAN
    BY <1>1 DEF note_anomaly
  <1> QED
    BY <1>4, <1>11, <1>12, <1>13 DEF AuditTypes

(* A handler moves on and installs nothing.                                *)
LEMMA NothingInstalled ==
  ASSUME HIInv, NEW c \in Calls, NEW step \in AllPc \ {"idle", "token", "lifecycle"}, Goto(c, step),
         step \in OwnerPc => pc[c] \in OwnerPc,
         UNCHANGED <<sandboxId, runClaimed, payloadVars>>,
         \/ origin' = origin
         \/ pc[c] = "idle" /\ \E o \in PeerOrigin : origin' = [origin EXCEPT ![c] = o]
  PROVE  Owners' /\ OneOwner'
  <1>1. pc \in [Calls -> AllPc] /\ origin \in [Calls -> PeerOrigin] /\ token \in Calls \cup {NoCall}
    BY DEF HIInv, HTypeOK, AllPc
  <1>2. pc'[c] = step /\ \A d \in Calls : d # c => pc'[d] = pc[d]
    BY <1>1 DEF Goto
  <1>3. /\ \A d \in Calls : d # c => origin'[d] = origin[d]
        /\ pc[c] # "idle" => origin'[c] = origin[c]
    BY <1>1
  <1>4. UNCHANGED <<defaults, token, managed>>
    BY DEF payloadVars
  <1>5. pc[c] \in OwnerPc => pc[c] # "idle"
    BY DEF OwnerPc
  <1>6. token # NoCall => token \in Calls /\ pc[token] # "idle"
    BY <1>1 DEF HIInv, Owners
  <1>7. Owners'
    BY <1>2, <1>3, <1>4, <1>5, <1>6 DEF HIInv, Owners
  <1>8. OneOwner'
    BY <1>3, <1>4, <1>6 DEF HIInv, OneOwner
  <1> QED
    BY <1>7, <1>8

(* The types after a step of one call.                                     *)
LEMMA TypesKept ==
  ASSUME HIInv, IInv', AuditTypes', NEW c \in Calls, NEW step \in AllPc, Goto(c, step),
         hook' = hook \/ \E h \in Hook : hook' = [hook EXCEPT ![c] = h],
         origin' = origin \/ \E o \in PeerOrigin : origin' = [origin EXCEPT ![c] = o],
         {defaults', token', managed'} \subseteq Calls \cup {NoCall},
         rotation' \in {"none", "pending", "spawned"},
         validation' \in {"Idle", "gateRestart", "restart", "gateCell", "cell", "Done"},
         shutdown' \in BOOLEAN
  PROVE  HTypeOK'
  <1>1. /\ pc \in [Calls -> AllPc] /\ hook \in [Calls -> Hook \cup {NoHook}]
        /\ origin \in [Calls -> PeerOrigin]
    BY DEF HIInv, HTypeOK, AllPc
  <1>2. pc' \in [Calls -> AllPc]
    BY <1>1 DEF Goto
  <1>3. hook' \in [Calls -> Hook \cup {NoHook}] /\ origin' \in [Calls -> PeerOrigin]
    BY <1>1
  <1> QED
    BY <1>2, <1>3 DEF HTypeOK, AuditTypes, IInv, AllPc

(* The audit keeps its types when it is left alone.                        *)
LEMMA AuditKept == HIInv /\ UNCHANGED auditVars => AuditTypes'
  BY DEF HIInv, HTypeOK, AuditTypes, auditVars

(* What the invariant says of the work and payload variables.              *)
LEMMA WorkTypes ==
  HIInv => /\ {defaults, token, managed} \subseteq Calls \cup {NoCall}
           /\ rotation \in {"none", "pending", "spawned"}
           /\ validation \in {"Idle", "gateRestart", "restart", "gateCell", "cell", "Done"}
           /\ shutdown \in BOOLEAN
  BY DEF HIInv, HTypeOK

(* The peer check.  It counts only hooks whose handler counts nothing.     *)
LEMMA CheckPeerPreserves ==
  ASSUME HIInv, IInv', NEW c \in Calls, NEW h \in Hook, NEW o \in PeerOrigin, check_peer(c, h, o)
  PROVE  HIInv'
  <1> DEFINE step == IF peer_action(h, o) = "Refuse" THEN "done" ELSE h
  <1>1. /\ pc[c] = "idle" /\ Goto(c, step)
        /\ hook' = [hook EXCEPT ![c] = h] /\ origin' = [origin EXCEPT ![c] = o]
        /\ UNCHANGED <<lifecycleVars, payloadVars, workVars>>
    BY DEF check_peer
  <1>2. step \in AllPc \ {"idle", "token", "lifecycle"} /\ step \notin OwnerPc
    BY DEF AllPc, Hook, OwnerPc
  <1>3. UNCHANGED auditVars \/ (note_anomaly(c) /\ step \in CountedPc)
    <2>1. CASE peer_action(h, o) = "Nominal"
      BY <2>1 DEF check_peer
    <2>2. CASE peer_action(h, o) # "Nominal"
      <3>1. note_anomaly_after_run(c)
        BY <2>2 DEF check_peer
      <3>2. step \in {"done", "terminate", "suspend", "resume"}
        BY <2>2 DEF peer_action, Hook, PeerOrigin
      <3> QED
        BY <3>1, <3>2 DEF note_anomaly_after_run, CountedPc
    <2> QED
      BY <2>1, <2>2
  <1> HIDE DEF step
  <1>4. pc[c] \notin CountedPc
    BY <1>1 DEF CountedPc
  <1>5. CountsOnce' /\ AuditTypes'
    <2>1. CASE UNCHANGED auditVars
      BY <1>1, <1>4, <2>1, NothingCounted, AuditKept DEF auditVars
    <2>2. CASE note_anomaly(c) /\ step \in CountedPc
      BY <1>1, <1>4, <2>2, OneCounted
    <2> QED
      BY <1>3, <2>1, <2>2
  <1>6. Owners' /\ OneOwner'
    BY <1>1, <1>2, NothingInstalled DEF lifecycleVars
  <1>7. HTypeOK'
    BY <1>1, <1>2, <1>5, TypesKept, WorkTypes DEF payloadVars, workVars
  <1> QED
    BY <1>5, <1>6, <1>7 DEF HIInv

(* A call that is counted by its own handler.                              *)
LEMMA HandlerCounts ==
  ASSUME HIInv, IInv', NEW c \in Calls, AuditAnomaly(c) \/ RunSandboxOrigin(c)
  PROVE  HIInv'
  <1>1. /\ pc[c] \in {"audit", "run"} /\ Goto(c, "done")
        /\ UNCHANGED <<lifecycleVars, hook, origin, payloadVars, workVars>>
        /\ UNCHANGED auditVars \/ note_anomaly(c)
    BY DEF AuditAnomaly, RunSandboxOrigin, note_anomaly_after_run
  <1>2. "done" \in CountedPc /\ pc[c] \notin CountedPc
        /\ "done" \in AllPc \ {"idle", "token", "lifecycle"} /\ "done" \notin OwnerPc
    BY <1>1 DEF CountedPc, AllPc, OwnerPc
  <1>3. CountsOnce' /\ AuditTypes'
    <2>1. CASE UNCHANGED auditVars
      BY <1>1, <1>2, <2>1, NothingCounted, AuditKept DEF auditVars
    <2>2. CASE note_anomaly(c)
      BY <1>1, <1>2, <2>2, OneCounted
    <2> QED
      BY <1>1, <2>1, <2>2
  <1>4. Owners' /\ OneOwner'
    BY <1>1, <1>2, NothingInstalled DEF lifecycleVars
  <1>5. HTypeOK'
    BY <1>1, <1>2, <1>3, TypesKept, WorkTypes DEF payloadVars, workVars
  <1> QED
    BY <1>3, <1>4, <1>5 DEF HIInv

(* The steps of a handler that neither count nor install.                  *)
LEMMA HandlerMoves ==
  ASSUME HIInv, IInv', NEW c \in Calls,
         \/ RunIsLate(c) \/ RunAccepted(c) \/ mark_rotation_pending(c) \/ spawn_run_rotation(c)
         \/ ReadyDecides(c) \/ ReadyMarks(c) \/ Validate(c) \/ Suspend(c) \/ Resume(c)
         \/ Terminate(c) \/ ParticipantsEnd(c) \/ schedule_shutdown(c) \/ DropHandler(c)
  PROVE  HIInv'
  <1>1. PICK step \in AllPc \ {"idle", "token", "lifecycle"} :
          /\ Goto(c, step) /\ (step \in OwnerPc => pc[c] \in OwnerPc)
          /\ pc[c] \in CountedPc => step \in CountedPc
    BY DEF RunIsLate, RunAccepted, mark_rotation_pending, spawn_run_rotation, ReadyDecides, ReadyMarks,
           Validate, Suspend, Resume, Terminate, ParticipantsEnd, schedule_shutdown, DropHandler,
           AllPc, OwnerPc, CountedPc
  <1>2. UNCHANGED <<hook, origin, anomalies, counted, payloadVars>>
    BY DEF RunIsLate, RunAccepted, mark_rotation_pending, spawn_run_rotation, ReadyDecides, ReadyMarks,
           Validate, Suspend, Resume, Terminate, ParticipantsEnd, schedule_shutdown, DropHandler, auditVars
  <1>3. UNCHANGED <<sandboxId, runClaimed>>
    BY DEF RunIsLate, RunAccepted, mark_rotation_pending, spawn_run_rotation, ReadyDecides, ReadyMarks,
           Validate, Suspend, Resume, Terminate, ParticipantsEnd, schedule_shutdown, DropHandler,
           ready, suspend, resume, ResumeSuspended, ResumeAfterStaleRecovery, terminate, lifecycleVars
  <1>4. /\ rotation' \in {"none", "pending", "spawned"}
        /\ validation' \in {"Idle", "gateRestart", "restart", "gateCell", "cell", "Done"}
    BY WorkTypes
    DEF RunIsLate, RunAccepted, mark_rotation_pending, spawn_run_rotation, ReadyDecides, ReadyMarks,
        Validate, Suspend, Resume, Terminate, ParticipantsEnd, schedule_shutdown, DropHandler, workVars
  <1>5. shutdown' \in BOOLEAN /\ runAccepted' \in BOOLEAN
    <2>1. shutdown' = shutdown \/ shutdown' = TRUE
      BY Zenon
      DEF RunIsLate, RunAccepted, mark_rotation_pending, spawn_run_rotation, ReadyDecides, ReadyMarks,
          Validate, Suspend, Resume, Terminate, ParticipantsEnd, schedule_shutdown, DropHandler, workVars
    <2>2. runAccepted' = runAccepted \/ runAccepted' = TRUE
      BY Zenon
      DEF RunIsLate, RunAccepted, mark_rotation_pending, spawn_run_rotation, ReadyDecides, ReadyMarks,
          Validate, Suspend, Resume, Terminate, ParticipantsEnd, schedule_shutdown, DropHandler, auditVars
    <2>3. shutdown \in BOOLEAN /\ runAccepted \in BOOLEAN
      BY DEF HIInv, HTypeOK
    <2> QED
      BY <2>1, <2>2, <2>3, Zenon
  <1>6. AuditTypes'
    BY <1>2, <1>5 DEF HIInv, HTypeOK, AuditTypes
  <1>7. CountsOnce'
    BY <1>1, <1>2, NothingCounted
  <1>8. Owners' /\ OneOwner'
    BY <1>1, <1>2, <1>3, NothingInstalled
  <1>9. HTypeOK'
    BY <1>1, <1>2, <1>4, <1>5, <1>6, TypesKept, WorkTypes DEF payloadVars
  <1> QED
    BY <1>7, <1>8, <1>9 DEF HIInv

(* The claim: no other call can be past its own.                           *)
LEMMA ClaimPreserves ==
  ASSUME HIInv, IInv', NEW c \in Calls, RunClaims(c)
  PROVE  HIInv'
  <1>1. /\ pc[c] = "run" /\ origin[c] # "Sandbox" /\ Goto(c, "accept") /\ ~runClaimed
        /\ sandboxId' = c
        /\ UNCHANGED <<hook, origin, auditVars, payloadVars, workVars>>
    BY DEF RunClaims, run, RunIsClaim
  <1>2. runClaimed'
    BY DEF RunClaims, run
  <1>3. sandboxId = NoSandbox
    BY <1>1 DEF HIInv, Owners
  <1>4. pc \in [Calls -> AllPc] /\ token \in Calls \cup {NoCall} /\ NoSandbox \notin Calls
    BY CallsAssumption, NoSandboxAssumption DEF HIInv, HTypeOK, AllPc
  <1>5. pc'[c] = "accept" /\ \A d \in Calls : d # c => pc'[d] = pc[d]
    BY <1>1, <1>4 DEF Goto
  <1>6. /\ token = NoCall /\ managed = NoCall
        /\ \A d \in Calls : pc[d] \notin OwnerPc
    BY <1>3, <1>4 DEF HIInv, Owners, OneOwner
  <1>7. Owners' /\ OneOwner'
    BY <1>1, <1>2, <1>5, <1>6 DEF Owners, OneOwner, OwnerPc, payloadVars
  <1>8. CountsOnce' /\ AuditTypes'
    BY <1>1, NothingCounted, AuditKept DEF auditVars, CountedPc
  <1>9. HTypeOK'
    BY <1>1, <1>8, TypesKept, WorkTypes DEF payloadVars, workVars, AllPc
  <1> QED
    BY <1>7, <1>8, <1>9 DEF HIInv

(* install_payload: whatever is installed is of the call that claimed.     *)
LEMMA InstallPreserves ==
  ASSUME HIInv, IInv', NEW c \in Calls, StoreDefaults(c) \/ install_once(c) \/ install_lifecycle(c)
  PROVE  HIInv'
  <1>1. /\ pc[c] \in {"defaults", "token", "lifecycle"}
        /\ UNCHANGED <<lifecycleVars, hook, origin, auditVars, workVars>>
        /\ \E step \in {"token", "lifecycle", "audit", "mark"} : Goto(c, step)
    BY DEF StoreDefaults, install_once, install_lifecycle
  <1>2. /\ pc \in [Calls -> AllPc] /\ token \in Calls \cup {NoCall} /\ managed \in Calls \cup {NoCall}
        /\ NoCall \notin Calls
    BY CallsAssumption DEF HIInv, HTypeOK, AllPc
  <1>3. /\ sandboxId = c /\ origin[c] # "Sandbox" /\ sandboxId' = sandboxId
        /\ pc[c] # "idle" /\ pc[c] \notin CountedPc
        /\ UNCHANGED <<runClaimed, origin>>
    BY <1>1 DEF HIInv, Owners, OwnerPc, CountedPc, lifecycleVars
  <1>4. \A d \in Calls : d # c => pc[d] \notin OwnerPc
    BY <1>3 DEF HIInv, Owners
  <1>5. token \in {NoCall, c} /\ managed \in {NoCall, token}
    BY <1>3 DEF HIInv, OneOwner
  <1>6. /\ pc[c] \in {"token", "lifecycle"} => defaults = c
        /\ pc[c] = "lifecycle" => token = c
        /\ token # NoCall => defaults = c
    BY <1>3, <1>5 DEF HIInv, Owners, OneOwner
  <1>7. CountsOnce' /\ AuditTypes'
    BY <1>1, <1>3, NothingCounted, AuditKept DEF auditVars
  <1>8. /\ {defaults', token', managed'} \subseteq Calls \cup {NoCall}
        /\ Owners' /\ OneOwner'
    <2>1. CASE StoreDefaults(c)
      <3>1. defaults' = c /\ UNCHANGED <<token, managed>> /\ Goto(c, "token")
        BY <2>1 DEF StoreDefaults
      <3>2. pc'[c] = "token" /\ \A d \in Calls : d # c => pc'[d] = pc[d]
        BY <1>2, <3>1 DEF Goto
      <3> QED
        BY <1>2, <1>3, <1>4, <1>5, <1>6, <3>1, <3>2 DEF HIInv, Owners, OneOwner, OwnerPc
    <2>2. CASE install_once(c) /\ token = NoCall
      <3>1. token' = c /\ UNCHANGED <<defaults, managed>> /\ Goto(c, "lifecycle") /\ pc[c] = "token"
        BY <2>2 DEF install_once
      <3>2. pc'[c] = "lifecycle" /\ \A d \in Calls : d # c => pc'[d] = pc[d]
        BY <1>2, <3>1 DEF Goto
      <3> QED
        BY <1>2, <1>3, <1>4, <1>5, <1>6, <2>2, <3>1, <3>2 DEF HIInv, Owners, OneOwner, OwnerPc
    <2>3. CASE install_once(c) /\ token # NoCall
      <3>1. UNCHANGED <<token, defaults, managed>> /\ Goto(c, "audit") /\ pc[c] = "token"
        BY <2>3 DEF install_once
      <3>2. pc'[c] = "audit" /\ \A d \in Calls : d # c => pc'[d] = pc[d]
        BY <1>2, <3>1 DEF Goto
      <3> QED
        BY <1>2, <1>3, <1>4, <1>5, <1>6, <2>3, <3>1, <3>2 DEF HIInv, Owners, OneOwner, OwnerPc
    <2>4. CASE install_lifecycle(c)
      <3>1. managed' \in {managed, c} /\ UNCHANGED <<token, defaults>> /\ Goto(c, "mark")
            /\ pc[c] = "lifecycle"
        BY <2>4 DEF install_lifecycle
      <3>2. pc'[c] = "mark" /\ \A d \in Calls : d # c => pc'[d] = pc[d]
        BY <1>2, <3>1 DEF Goto
      <3> QED
        BY <1>2, <1>3, <1>4, <1>5, <1>6, <3>1, <3>2 DEF HIInv, Owners, OneOwner, OwnerPc
    <2> QED
      BY <2>1, <2>2, <2>3, <2>4
  <1>9. HTypeOK'
    BY <1>1, <1>7, <1>8, TypesKept, WorkTypes DEF workVars, AllPc
  <1> QED
    BY <1>7, <1>8, <1>9 DEF HIInv

(* The validation task, and steps that change nothing.                     *)
LEMMA ValidationPreserves ==
  ASSUME HIInv, IInv', Validation \/ UNCHANGED hVars
  PROVE  HIInv'
  <1>1. /\ UNCHANGED <<lifecycleVars, pc, hook, origin, auditVars, payloadVars, rotation, shutdown>>
        /\ validation' \in {"Idle", "gateRestart", "restart", "gateCell", "cell", "Done"}
    BY WorkTypes DEF Validation, ValidationGate, ValidationActs, hVars, sessionVars, workVars
  <1>2. Counted' = Counted
    BY <1>1 DEF Counted, auditVars
  <1> QED
    BY <1>1, <1>2
    DEF HIInv, HTypeOK, IInv, Owners, OneOwner, CountsOnce, auditVars, payloadVars, lifecycleVars

(* The hook session keeps HIInv on every behaviour.                        *)
THEOREM SessionInductive == HSpec => []HIInv
  <1>1. SessionInit => HIInv
    <2> SUFFICES ASSUME SessionInit PROVE HIInv
      OBVIOUS
    <2>1. IInv
      BY InitEstablishes DEF SessionInit
    <2>2. runAccepted \in BOOLEAN /\ shutdown \in BOOLEAN
      BY Zenon DEF SessionInit
    <2>3. Counted = {} /\ Cardinality(Calls) \in Nat
      BY CallsAssumption, FS_CardinalityType DEF SessionInit, Counted
    <2>4. CountsOnce
      BY <2>3, FS_EmptySet DEF SessionInit, CountsOnce
    <2>5. HTypeOK
      BY <2>1, <2>2, <2>3 DEF SessionInit, HTypeOK, IInv, PeerOrigin
    <2>6. Owners /\ OneOwner
      BY DEF SessionInit, Init, Owners, OneOwner, OwnerPc
    <2> QED
      BY <2>1, <2>4, <2>5, <2>6 DEF HIInv
  <1>2. HIInv /\ [HNext]_hVars => HIInv'
    <2> SUFFICES ASSUME HIInv, [HNext]_hVars PROVE HIInv'
      OBVIOUS
    <2>1. IInv'
      BY HooksAreLifecycleSteps
    <2>2. ASSUME NEW c \in Calls, HandlerStep(c) \/ DropHandler(c) PROVE HIInv'
      BY <2>1, <2>2, HandlerCounts, HandlerMoves, ClaimPreserves, InstallPreserves
      DEF HandlerStep, RunStep
    <2>3. ASSUME NEW c \in Calls, NEW h \in Hook, NEW o \in PeerOrigin, check_peer(c, h, o)
          PROVE  HIInv'
      BY <2>1, <2>3, CheckPeerPreserves
    <2>4. CASE Validation \/ UNCHANGED hVars
      BY <2>1, <2>4, ValidationPreserves
    <2> QED
      BY <2>2, <2>3, <2>4 DEF HNext
  <1> QED
    BY <1>1, <1>2, PTL DEF HSpec

(* Whatever a boot installed is of one /run, which no sandbox process      *)
(* sent; and no call is counted twice as an anomaly.                       *)
THEOREM SessionIsSound == HSpec => []SessionSound
  <1>1. HIInv => SessionSound
    BY DEF HIInv, CountsOnce, SessionSound, OneAnomalyPerCall
  <1> QED
    BY SessionInductive, <1>1, PTL

=============================================================================
