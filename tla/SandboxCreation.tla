--------------------------- MODULE SandboxCreation ---------------------------
(***************************************************************************)
(* Sandbox.create and reincarnate of the TypeScript SDK                    *)
(* (sandbox/sandbox.ts, configure/base.ts, sandbox/persistence.ts): the    *)
(* steps between run-microvm and the sandbox handed to the caller, each of *)
(* which can fail after the MicroVM is already billed.                     *)
(*                                                                         *)
(* The fields of creation: opt, the options that change the control; pc;   *)
(* vm, the new MicroVM; handle, its client (token refresher and streams);  *)
(* section, the Configure sections; home, the files of the new VM; saved,  *)
(* the checkpoint under the prefix; old, the predecessor of a              *)
(* reincarnation; row, the index row; result, what the caller got;         *)
(* excuse, why a VM or a handle may be left behind (history).              *)
(***************************************************************************)
EXTENDS Naturals

VARIABLE creation

NoOptions == [keep |-> FALSE, index |-> "none", network |-> FALSE, sections |-> FALSE,
              persist |-> "none", badTimeout |-> FALSE]
CreateOptions ==
    {o \in [keep : BOOLEAN, index : {"none", "warn", "terminate"}, network : BOOLEAN,
            sections : BOOLEAN, persist : {"none", "unnamed", "named"}, badTimeout : BOOLEAN] :
        o.badTimeout => o.persist # "none"}

CreationInit ==
    creation = [opt |-> NoOptions, pc |-> "idle", vm |-> "none", handle |-> "none",
                section |-> "none", home |-> "empty", saved |-> "none", old |-> "none",
                row |-> FALSE, result |-> "none", excuse |-> {}]

CreateAt(pc) == creation.pc = pc

\* terminateQuietly: the error of terminate is only logged.
Terminated(c) ==
    {[c EXCEPT !.vm = "gone"], [c EXCEPT !.excuse = @ \union {"terminate_failed"}]}

\* A failed step after the launch: the handle is closed and the VM is
\* terminated unless keepOnFailure.
Bug_failWithoutTerminate(c, always) ==
    {[c EXCEPT !.handle = IF @ = "open" THEN "closed" ELSE @, !.pc = "done", !.result = "error"]}
Fail(c, always) ==
    LET closed == [c EXCEPT !.handle = IF @ = "open" THEN "closed" ELSE @,
                            !.pc = "done", !.result = "error"]
    IN  IF c.opt.keep /\ ~always THEN {closed} ELSE Terminated(closed)

-----------------------------------------------------------------------------
\* create: the options are checked, the index and the features prepared and
\* the template resolved before anything is launched; any of it may reject.
create ==
    /\ CreateAt("idle")
    /\ \E o \in CreateOptions, pc \in {"launching", "done"}, saved \in {"none", "files"} :
         creation' = [creation EXCEPT
            !.opt = o, !.pc = pc, !.saved = saved,
            !.result = IF pc = "done" THEN "error" ELSE "none"]

\* run-microvm is not cancelled by the signal; an answer that never comes
\* leaves a VM whose id nobody knows.
runMicrovm ==
    /\ CreateAt("launching")
    /\ \/ creation' = [creation EXCEPT !.vm = "running", !.pc = "indexing"]
       \/ \E lost \in BOOLEAN :
            creation' = [creation EXCEPT
               !.vm = IF lost THEN "running" ELSE "none", !.pc = "done", !.result = "error",
               !.excuse = IF lost THEN @ \union {"run_lost"} ELSE @]

\* writeIndexRecord, before the readiness poll.
writeIndexRecord ==
    /\ CreateAt("indexing")
    /\ \/ /\ creation.opt.index = "none"
          /\ creation' = [creation EXCEPT !.pc = "opening"]
       \/ /\ creation.opt.index # "none"
          /\ creation' = [creation EXCEPT !.pc = "opening", !.row = TRUE]
       \/ /\ creation.opt.index = "warn"
          /\ creation' = [creation EXCEPT !.pc = "opening"]
       \/ /\ creation.opt.index = "terminate"
          /\ creation' \in Fail(creation, FALSE)

\* #open: mint, wait for Health, require the lifecycle; the readiness poll
\* terminates by itself, the other failures are handled here.
open ==
    /\ CreateAt("opening")
    /\ \/ creation' = [creation EXCEPT !.handle = "open", !.pc = "network"]
       \/ \E built \in BOOLEAN :
            creation' \in Fail([creation EXCEPT !.handle = IF built THEN "open" ELSE @], FALSE)

\* #applyInitialNetwork: a VM that does not enforce its policy is
\* terminated, also with keepOnFailure.
applyInitialNetwork ==
    /\ CreateAt("network")
    /\ \/ creation' = [creation EXCEPT !.pc = "configure"]
       \/ creation.opt.network /\ creation' \in Fail(creation, TRUE)

\* #sendConfigureSections: rejected for lack of support or by a section's
\* code, applied at once, or pending.
configureSections ==
    /\ CreateAt("configure")
    /\ \/ /\ ~creation.opt.sections
          /\ creation' = [creation EXCEPT !.pc = "restore"]
       \/ /\ creation.opt.sections
          /\ \/ creation' = [creation EXCEPT !.section = "applied", !.pc = "restore"]
             \/ creation' = [creation EXCEPT !.section = "pending", !.pc = "settling"]
             \/ creation' \in Fail(creation, FALSE)

\* The agent goes on with a pending section.
sectionSettles ==
    /\ creation.section = "pending"
    /\ \E s \in {"applied", "failed"} : creation' = [creation EXCEPT !.section = s]

\* #waitSettled: the status after the deadline is the last one, and a
\* section that is still pending then has failed.
stillPending(final) ==
    IF creation.section = "pending" /\ final THEN "failed" ELSE creation.section
waitSettled ==
    /\ CreateAt("settling")
    /\ \E final \in BOOLEAN :
         CASE stillPending(final) = "applied" -> creation' = [creation EXCEPT !.pc = "restore"]
           [] stillPending(final) = "failed" -> creation' \in Fail(creation, FALSE)
           [] OTHER -> ~final /\ UNCHANGED creation

\* #bindAndRestore.  The deadline of the restore is validated only here,
\* out of reach of the clean-up.  A prefix without a name is bound to the
\* new sandbox and not restored; no checkpoint is not an error.
shouldAutoRestore(persist) == persist = "named"
bindAndRestore ==
    /\ CreateAt("restore")
    /\ \/ /\ creation.opt.badTimeout
          /\ creation' = [creation EXCEPT !.pc = "done", !.result = "error",
                                          !.excuse = @ \union {"bad_timeout"}]
       \/ /\ ~creation.opt.badTimeout
          /\ \/ creation' = [creation EXCEPT
                   !.home = IF shouldAutoRestore(creation.opt.persist) /\ creation.saved = "files"
                            THEN "restored" ELSE "empty",
                   !.pc = IF creation.old = "alive" THEN "killing" ELSE "done",
                   !.result = IF creation.old = "alive" THEN "none" ELSE "ok"]
             \/ /\ shouldAutoRestore(creation.opt.persist)
                /\ creation' \in Fail(creation, FALSE)

-----------------------------------------------------------------------------
(* reincarnate: checkpoint, create the successor, kill the predecessor.    *)

\* The prefix that create() gave no name is bound to the predecessor's id:
\* the successor restores it.
bindPersist(persist) == IF persist = "unnamed" THEN "named" ELSE persist

reincarnate ==
    /\ CreateAt("idle")
    /\ \E o \in CreateOptions, checkpointed \in BOOLEAN :
         /\ o.persist # "none" /\ ~o.badTimeout
         /\ creation' = [creation EXCEPT
               !.opt = [o EXCEPT !.persist = bindPersist(o.persist)],
               !.old = "alive",
               !.saved = IF checkpointed THEN "files" ELSE "none",
               !.pc = IF checkpointed THEN "launching" ELSE "done",
               !.result = IF checkpointed THEN "none" ELSE "error"]

\* Somebody else removes the checkpoint before it is restored.
checkpointRemoved ==
    /\ creation.saved = "files" /\ ~CreateAt("done") /\ ~CreateAt("killing")
    /\ creation' = [creation EXCEPT !.saved = "none", !.excuse = @ \union {"removed"}]

\* An error of kill is thrown to the caller, who never gets the successor.
killPredecessor ==
    /\ CreateAt("killing")
    /\ \/ creation' = [creation EXCEPT !.old = "gone", !.pc = "done", !.result = "ok"]
       \/ creation' = [creation EXCEPT !.pc = "done", !.result = "error",
                                       !.excuse = @ \union {"kill_failed"}]

CreationSteps ==
    \/ runMicrovm \/ writeIndexRecord \/ open \/ applyInitialNetwork \/ configureSections
    \/ waitSettled \/ bindAndRestore \/ killPredecessor
CreationNext == create \/ reincarnate \/ CreationSteps \/ sectionSettles \/ checkpointRemoved

\* Every await of create has a deadline; so has the wait for the sections.
CreationFairness == WF_creation(CreationSteps)

-----------------------------------------------------------------------------
\* A create that rejects leaves no running MicroVM behind unless the caller
\* asked for it (keepOnFailure).  The code's own exceptions: the answer of
\* run-microvm was lost, the terminate failed, persistTimeoutMs was invalid
\* (it is validated after the launch) and the kill of the predecessor
\* failed.
NothingLeaks ==
    (creation.result = "error" /\ creation.vm = "running" /\ ~creation.opt.keep)
        => creation.excuse \intersect {"run_lost", "terminate_failed", "bad_timeout", "kill_failed"} # {}

\* A rejected create leaves no client refreshing tokens, and one that was
\* refused for its egress policy has terminated its MicroVM, also with
\* keepOnFailure: nothing runs without the policy it was asked for.
RejectedIsClosed ==
    [][creation'.result = "error" =>
        /\ creation'.handle # "open" \/ creation'.excuse \intersect {"bad_timeout", "kill_failed"} # {}
        /\ CreateAt("network") => creation'.vm = "gone" \/ "terminate_failed" \in creation'.excuse
      ]_creation

\* reincarnate never leaves the caller without the files: the predecessor
\* dies only when its files are in the successor, unless somebody removed
\* the checkpoint in between.
FilesSurvive ==
    creation.old = "gone" =>
        /\ creation.vm = "running" /\ creation.handle = "open"
        /\ creation.home = "restored" \/ "removed" \in creation.excuse

\* create and reincarnate end, also with a section that never settles.
CreationEnds == ~CreateAt("idle") ~> CreateAt("done") /\ creation.result # "none"
=============================================================================
