--------------------------- MODULE StagedTransfer ---------------------------
(***************************************************************************)
(* One transfer of the TypeScript SDK through an S3 staging object         *)
(* (sandbox/transfer.ts): a routed write (the SDK uploads, the agent       *)
(* imports), a routed read (the agent exports, the SDK downloads and       *)
(* checks the sha256), an upload ticket and a download link.  The object,  *)
(* the multipart upload, the agent's job and the deadline are shared by    *)
(* actors that do not wait for each other: what is told to the caller must *)
(* agree with the file, and nothing may be left in S3 by accident.         *)
(*                                                                         *)
(* The fields of transfer: op; multipart, the export is over               *)
(* multipartThresholdBytes; pc, where the SDK stands; object, the staging  *)
(* object; late, an aborted upload whose PUT may still land; mpu, the      *)
(* multipart upload; job, the agent's transfer; file, whether an import    *)
(* replaced the destination; body, what a reader was given; expired, the   *)
(* deadline passed; result, what the caller was told; stray, the reasons   *)
(* why an object may be left (history).                                    *)
(***************************************************************************)
EXTENDS Naturals

VARIABLE transfer

Exports == {"read", "link"}
EndedJobs == {"done", "failed", "cancelled"}

TransferInit ==
    transfer = [op |-> "none", multipart |-> FALSE, pc |-> "idle", object |-> "absent",
                late |-> FALSE, mpu |-> "none", job |-> "none", file |-> "old",
                body |-> "none", expired |-> FALSE, result |-> "none", stray |-> {}]

XferAt(pc) == transfer.pc = pc

Starts(op, big, pc) ==
    /\ XferAt("idle")
    /\ transfer' = [transfer EXCEPT !.op = op, !.multipart = big, !.pc = pc]

\* A file over the threshold, with staging configured and an image that
\* supports transfers, goes through S3 (#routedIndexes).
writeFiles == Starts("write", FALSE, "uploading")

\* read over the threshold, after the stat that gave the size.
read == \E big \in BOOLEAN : Starts("read", big, IF big THEN "creating" ELSE "starting")

\* A ticket holds an upload URL; a link exports the file first.
uploadUrl == Starts("ticket", FALSE, "starting")
downloadUrl == \E big \in BOOLEAN : Starts("link", big, IF big THEN "creating" ELSE "starting")

-----------------------------------------------------------------------------
(* importUpload: the SDK uploads, then asks the agent to import.           *)

\* withinBudget aborts the upload at the deadline and the object is deleted;
\* its last PUT may already be on the way.  Another failure deletes nothing,
\* also when the upload took effect and only its answer was lost.
importUpload ==
    /\ XferAt("uploading")
    /\ \/ transfer' = [transfer EXCEPT !.object = "good", !.pc = "starting"]
       \/ /\ transfer.expired
          /\ \E l \in BOOLEAN :
               transfer' = [transfer EXCEPT !.late = l, !.pc = "deleting", !.result = "timeout"]
       \/ \E landed \in BOOLEAN :
            transfer' = [transfer EXCEPT
               !.pc = "done", !.result = "error", !.object = IF landed THEN "good" ELSE @,
               !.stray = IF landed THEN @ \union {"upload_failed"} ELSE @]

latePutLands ==
    /\ transfer.late
    /\ transfer' = [transfer EXCEPT !.late = FALSE, !.object = "good", !.stray = @ \union {"late_put"}]

\* #deleteQuietly: a failure is only logged.
deleteQuietly ==
    /\ XferAt("deleting")
    /\ \/ transfer' = [transfer EXCEPT !.object = "absent", !.pc = "done"]
       \/ transfer' = [transfer EXCEPT !.stray = @ \union {"delete_failed"}, !.pc = "done"]

-----------------------------------------------------------------------------
(* Starting the agent's job.                                               *)

createMultipartUpload ==
    /\ XferAt("creating")
    /\ \/ transfer' = [transfer EXCEPT !.mpu = "open", !.pc = "starting"]
       \/ transfer' = [transfer EXCEPT !.pc = "done", !.result = "error"]

newJob == IF transfer.op = "ticket" THEN "waiting" ELSE "running"

\* StartImport or StartExport answers with the transfer's id; or it fails,
\* perhaps after the agent took it: then a write deletes its object and a
\* multipart export aborts its upload.
startJob ==
    /\ XferAt("starting")
    /\ \/ transfer' = [transfer EXCEPT !.job = newJob, !.pc = "watching"]
       \/ \E job \in {"none", newJob} :
            transfer' = [transfer EXCEPT
               !.job = job, !.result = "error",
               !.stray = IF job = "none" THEN @ ELSE @ \union {"unknown_job"},
               !.pc = IF transfer.op = "write" THEN "deleting"
                      ELSE IF transfer.multipart THEN "aborting" ELSE "done"]

\* #abortQuietly: a failure is only logged; an upload that was completed is
\* not undone.
abortQuietly ==
    /\ XferAt("aborting")
    /\ \/ transfer' = [transfer EXCEPT !.mpu = IF @ = "completed" THEN @ ELSE "aborted", !.pc = "done"]
       \/ transfer' = [transfer EXCEPT !.stray = @ \union {"abort_failed"}, !.pc = "done"]

-----------------------------------------------------------------------------
(* The agent's job, and whoever holds the ticket's URL.                    *)

\* An import that saw its object deletes it (best effort) before it
\* publishes its end.
agentImports ==
    /\ transfer.op \in {"write", "ticket"} /\ transfer.job \in {"waiting", "running"}
    /\ \/ /\ transfer.object = "absent" /\ transfer.job = "running"
          /\ transfer' = [transfer EXCEPT !.job = "failed"]
       \/ /\ transfer.object = "good"
          /\ \E deleted, ok \in BOOLEAN :
               transfer' = [transfer EXCEPT
                  !.object = IF deleted THEN "absent" ELSE @,
                  !.stray = IF deleted THEN @ ELSE @ \union {"delete_failed"},
                  !.job = IF ok THEN "done" ELSE "failed",
                  !.file = IF ok THEN "new" ELSE @]

\* The upload URL expires, or the ticket is cancelled; an object nobody saw
\* stays.
agentGivesUp ==
    /\ transfer.job = "waiting"
    /\ \E end \in {"failed", "cancelled"} :
         transfer' = [transfer EXCEPT
            !.job = end,
            !.stray = IF transfer.object = "absent" THEN @ ELSE @ \union {"unseen_object"}]

\* The upload, also when nobody waits for it any more.
ticketUsed ==
    /\ transfer.op = "ticket" /\ transfer.job # "none" /\ transfer.object = "absent"
    /\ transfer' = [transfer EXCEPT
          !.object = "good",
          !.stray = IF transfer.job = "waiting" THEN @ ELSE @ \union {"unseen_object"}]

\* A single PUT makes the object; the parts of an aborted upload are refused.
agentExports ==
    /\ transfer.op \in Exports /\ transfer.job = "running"
    /\ \/ /\ transfer.multipart => transfer.mpu = "open"
          /\ transfer' = [transfer EXCEPT
                !.job = "done", !.object = IF transfer.multipart THEN @ ELSE "good"]
       \/ transfer' = [transfer EXCEPT !.job = "failed"]

-----------------------------------------------------------------------------
(* Waiting for it: waitTransfer.  Cuts and reconnections are those of      *)
(* StreamHandle; only their failure is seen here.                          *)

\* The operation is over for the SDK, with an error; a multipart is aborted.
FailsAs(r) == [transfer EXCEPT !.result = r, !.pc = IF transfer.multipart THEN "aborting" ELSE "done"]

isTerminal(job) == job \in EndedJobs

transferEnded ==
    /\ XferAt("watching") /\ isTerminal(transfer.job)
    /\ transfer' = IF transfer.job # "done" THEN FailsAs("error")
                   ELSE IF transfer.op \notin Exports
                   THEN [transfer EXCEPT !.pc = "done", !.result = "ok"]
                   ELSE [transfer EXCEPT !.pc = IF transfer.multipart THEN "completing" ELSE "exported"]

\* The deadline passes, or the watch cannot go on, while the job does.
watchFails ==
    /\ XferAt("watching")
    /\ \E r \in {"error"} \union (IF transfer.expired THEN {"timeout"} ELSE {}) :
         transfer' = [FailsAs(r) EXCEPT !.stray = @ \union {"unknown_job"}]

\* CompleteMultipartUpload with the agent's etags; it may have taken effect
\* when its answer is lost, and then the object stays.
completeMultipartUpload ==
    /\ XferAt("completing")
    /\ \/ transfer' = [transfer EXCEPT !.mpu = "completed", !.object = "good", !.pc = "exported"]
       \/ transfer' = FailsAs("error")
       \/ transfer' = [FailsAs("error") EXCEPT !.mpu = "completed", !.object = "good",
                                               !.stray = @ \union {"complete_lost"}]

-----------------------------------------------------------------------------
(* After an export: the link is signed, or the object is streamed.         *)

presignedLink ==
    /\ XferAt("exported") /\ transfer.op = "link"
    /\ \E r \in {"ok", "error"} :
         transfer' = [transfer EXCEPT !.pc = "done", !.result = r, !.stray = @ \union {"link"}]

\* streamExported: every way out deletes the object; the bytes may not be
\* the exported ones.
getObject ==
    /\ XferAt("exported") /\ transfer.op = "read"
    /\ \/ \E b \in {"good", "bad"} : transfer' = [transfer EXCEPT !.pc = "streaming", !.body = b]
       \/ transfer' = [transfer EXCEPT !.pc = "deleting", !.result = "error"]

\* The digest decides at the end of the object; a failed read, an idle
\* stream, an expired deadline and cancel() end it before.
Bug_verifiedAlways(b) == TRUE
verified(b) == b = "good"
pull ==
    /\ XferAt("streaming")
    /\ \E r \in {"error", "timeout", IF verified(transfer.body) THEN "ok" ELSE "error"} :
         transfer' = [transfer EXCEPT !.pc = "deleting", !.result = r]

-----------------------------------------------------------------------------
TransferDeadline ==
    /\ ~transfer.expired /\ ~XferAt("idle")
    /\ transfer' = [transfer EXCEPT !.expired = TRUE]

TransferSDK ==
    \/ importUpload \/ deleteQuietly \/ createMultipartUpload \/ startJob \/ abortQuietly
    \/ transferEnded \/ completeMultipartUpload \/ presignedLink \/ getObject \/ pull
TransferAgent == agentImports \/ agentGivesUp \/ agentExports

TransferNext == \/ writeFiles \/ read \/ uploadUrl \/ downloadUrl
                \/ TransferSDK \/ TransferAgent
                \/ watchFails \/ ticketUsed \/ latePutLands \/ TransferDeadline

\* The SDK's awaits end, and a job ends: its URLs expire.
TransferFairness == WF_transfer(TransferSDK) /\ WF_transfer(TransferAgent)

-----------------------------------------------------------------------------
(* Properties.                                                             *)

\* The caller of a write or of a ticket is told of success only when the
\* agent replaced the file, a read that ends well delivered the exported
\* bytes, and a link points to an object (failureFromState,
\* checksumMismatchError).
SuccessIsTrue ==
    transfer.result = "ok" =>
        CASE transfer.op \in {"write", "ticket"} -> transfer.file = "new"
          [] transfer.op = "read" -> transfer.body = "good"
          [] OTHER -> transfer.object = "good"

\* Once everything came to rest no staging object is left but in the ways the
\* code leaves to the bucket's expiry rule: a delete failed, an upload failed
\* by anything but the deadline after it had landed, an aborted upload landed
\* after its delete, a completion's answer was lost, a job that the SDK stopped
\* watching went on, or a ticket was used too late; a link keeps its object on
\* purpose.
NothingLeftInS3 ==
    (XferAt("done") /\ transfer.job \in {"none"} \union EndedJobs /\ ~transfer.late
     /\ transfer.object = "good") => transfer.stray # {}

\* A multipart upload is completed or aborted when its export is over,
\* unless the abort failed; it is completed only over a finished job.
MultipartSettled ==
    /\ XferAt("done") /\ transfer.mpu = "open" => "abort_failed" \in transfer.stray
    /\ transfer.mpu = "completed" => transfer.job = "done"

\* Every operation ends for its caller, and it was told something.
TransferEnds == ~XferAt("idle") ~> XferAt("done") /\ transfer.result # "none"
=============================================================================
