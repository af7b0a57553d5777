----------------------------- MODULE VolumeService -----------------------------
(***************************************************************************)
(* EFS volumes (volumes/store.ts, efs.ts, efs-volumes.ts,                  *)
(* mount-targets.ts): callers create, find and destroy named access points *)
(* of one file system, whose listing is paged and lags behind; the stack   *)
(* that owns the file system is destroyed, with or without it; a resolver  *)
(* remembers the address of its mount target.                              *)
(***************************************************************************)
EXTENDS Integers, Sequences, FiniteSets

VARIABLE efs

Callers == {"c1", "c2"}
MaxId == 3                              \* access points there may ever be; the first is not ours
Ids == 1..MaxId
MaxPolls == 1                           \* LIST_VISIBILITY_BUDGET_MS / LIST_VISIBILITY_POLL_MS, and of the drain
MaxEfsFaults == 1
MaxRemovals == 2                        \* a removal, and the one that a timed out drain asks for
NoId == 0

NoCall == [op |-> "none", at |-> "done", page |-> 1, found |-> NoId, polls |-> 0, answer |-> "none", id |-> NoId]
NoRemoval == [at |-> "done", fs |-> FALSE, page |-> 1, point |-> NoId, polls |-> 0, answer |-> "none"]
EfsInit ==
    efs = [on |-> FALSE, mounts |-> FALSE, fs |-> "available", tagged |-> TRUE, stack |-> TRUE, targets |-> {"az1", "az2"},
           points |-> [i \in {1} |-> "raw"], listed |-> {1}, next |-> 2, deletions |-> [i \in Ids |-> 0],
           calls |-> [c \in Callers |-> NoCall], faults |-> 0,
           removal |-> NoRemoval, removals |-> 0,
           addresses |-> <<>>, resolved |-> ""]

\* A file system somebody else made may be handed to deleteFileSystem.  What is removed
\* meets the calls of the store, or (`mounts') the resolver: these two share nothing.
startEfs ==
    ~efs.on /\ \E t, m \in BOOLEAN : efs' = [efs EXCEPT !.on = TRUE, !.mounts = m, !.tagged = t, !.stack = t]

-----------------------------------------------------------------------------
(* The service.                                                            *)

LivePoints(n) == {i \in DOMAIN efs.points : efs.points[i] = n}
WithoutPoint(points, i) == [j \in DOMAIN points \ {i} |-> points[j]]
appearInList ==
    \E i \in DOMAIN efs.points \ efs.listed : efs' = [efs EXCEPT !.listed = @ \cup {i}]
leaveList ==
    \E i \in efs.listed \ DOMAIN efs.points : efs' = [efs EXCEPT !.listed = @ \ {i}]
drainTarget ==
    ~efs.stack /\ \E t \in efs.targets : efs' = [efs EXCEPT !.targets = @ \ {t}]

\* translateError: what a refusal of the service is for the caller.
translateError(code) ==
    CASE code \in {"AccessPointNotFound", "FileSystemNotFound"} -> "VolumeNotFoundError"
      [] code = "ThrottlingException" -> "RateLimitError"
      [] OTHER -> "VolumeError"

-----------------------------------------------------------------------------
(* VolumeStore                                                             *)

Step(c, call) == efs' = [efs EXCEPT !.calls[c] = call]
Answered(call, answer, id) == [call EXCEPT !.at = "done", !.answer = answer, !.id = id]
throttled(c) ==
    /\ efs.calls[c].at \in {"create", "list", "delete"} /\ efs.faults < MaxEfsFaults
    /\ efs' = [efs EXCEPT !.calls[c] = Answered(@, translateError("ThrottlingException"), NoId), !.faults = @ + 1]
begin(c) ==
    /\ efs.calls[c].op = "none" /\ ~efs.mounts
    /\ \/ Step(c, [NoCall EXCEPT !.op = "create", !.at = "create"])
       \/ Step(c, [NoCall EXCEPT !.op = "destroy", !.at = "list"])

\* clientToken: one token for a file system and a name, so the service knows a repeated create.
sameToken(n) == LivePoints(n)
createAccessPoint(c) ==
    LET call == efs.calls[c]
    IN /\ call.at = "create" /\ (efs.next <= MaxId \/ sameToken("v") # {} \/ efs.fs = "gone")
       /\ CASE efs.fs = "gone" -> Step(c, Answered(call, translateError("FileSystemNotFound"), NoId))
            [] efs.fs # "gone" /\ sameToken("v") # {} -> Step(c, [call EXCEPT !.at = "list"])
            [] OTHER -> efs' = [efs EXCEPT !.calls[c] = Answered(call, "volume", efs.next), !.next = @ + 1,
                                           !.points = [i \in DOMAIN @ \cup {efs.next} |-> IF i = efs.next THEN "v" ELSE @[i]]]

\* list: a page of one access point at a time; the first with the tag and the name is kept.
listPage(c) ==
    LET call == efs.calls[c]
        i == call.page
        \* an access point already deleted may still be listed
        seen == i \in efs.listed /\ (i \notin DOMAIN efs.points \/ efs.points[i] = "v") /\ i # 1
    IN /\ call.at = "list" /\ call.page <= MaxId
       /\ IF efs.fs = "gone" THEN Step(c, [call EXCEPT !.page = MaxId + 1, !.found = NoId, !.at = "gone"])
          ELSE Step(c, [call EXCEPT !.page = @ + 1, !.found = IF @ = NoId /\ seen THEN i ELSE @])
\* getOnceListed: the access point exists, only the listing lags.
pollAgain(call) ==
    IF call.polls >= MaxPolls THEN Answered(call, "VolumeNotFoundError", NoId)
    ELSE [call EXCEPT !.polls = @ + 1, !.page = 1, !.at = "list"]
get(c) ==
    LET call == efs.calls[c]
    IN /\ (call.at = "list" /\ call.page > MaxId) \/ call.at = "gone"
       /\ CASE call.found # NoId /\ call.op = "create" -> Step(c, Answered(call, "volume", call.found))
            [] call.found # NoId /\ call.op = "destroy" -> Step(c, [call EXCEPT !.at = "delete"])
            [] call.found = NoId /\ call.op = "create" -> Step(c, pollAgain(call))
            [] OTHER -> Step(c, Answered(call, "false", NoId))

Gone(i) == i \notin DOMAIN efs.points
Bug_trueAnyway(c) ==
    /\ efs.calls[c].at = "delete"
    /\ efs' = [efs EXCEPT !.calls[c] = Answered(@, "true", @.found), !.points = WithoutPoint(@, efs.calls[c].found)]
deleteAccessPoint(c) ==
    LET call == efs.calls[c]
    IN /\ call.at = "delete"
       /\ IF Gone(call.found) \/ efs.fs = "gone" THEN Step(c, Answered(call, "false", call.found))
          ELSE efs' = [efs EXCEPT !.calls[c] = Answered(call, "true", call.found), !.points = WithoutPoint(@, call.found),
                                  !.deletions[call.found] = @ + 1]

-----------------------------------------------------------------------------
(* EfsVolumes.destroy and deleteFileSystem                                 *)

Removal(r) == efs' = [efs EXCEPT !.removal = r]
Over(r, answer) == [NoRemoval EXCEPT !.fs = r.fs, !.answer = answer]
\* The identifier is an output of the stack: it is read before the stack goes, and a
\* destroy that comes after another one has none.
fileSystemIdOrUndefined(all) == [NoRemoval EXCEPT !.at = "stack", !.fs = all /\ efs.stack]
Begun(r) == efs' = [efs EXCEPT !.removal = r, !.removals = @ + 1]
beginRemoval ==
    /\ efs.removal.at = "done" /\ efs.removals < MaxRemovals
    /\ \/ \E all, wait \in BOOLEAN :
            IF all /\ ~wait THEN Begun(Over(NoRemoval, "InvalidArgumentError"))
            ELSE Begun(fileSystemIdOrUndefined(all))
       \/ Begun([NoRemoval EXCEPT !.at = "tag", !.fs = TRUE])
stackDestroy ==
    /\ efs.removal.at = "stack"
    /\ efs' = [efs EXCEPT !.stack = FALSE,
                          !.removal = IF efs.removal.fs THEN [@ EXCEPT !.at = "tag"] ELSE Over(@, "ok")]
requireStackFileSystem ==
    /\ efs.removal.at = "tag"
    /\ Removal(CASE efs.fs = "gone" -> Over(efs.removal, "ok")
                 [] efs.fs # "gone" /\ ~efs.tagged -> Over(efs.removal, "VolumeError")
                 [] OTHER -> [efs.removal EXCEPT !.at = "targets"])
waitWithoutMountTargets ==
    /\ efs.removal.at = "targets"
    /\ Removal(CASE efs.targets = {} -> [efs.removal EXCEPT !.at = "page"]
                 [] efs.targets # {} /\ efs.removal.polls >= MaxPolls -> Over(efs.removal, "VolumeError")
                 [] OTHER -> [efs.removal EXCEPT !.polls = @ + 1])
deletePage ==
    /\ efs.removal.at = "page" /\ efs.removal.page <= MaxId
    /\ Removal([efs.removal EXCEPT !.page = @ + 1, !.at = IF efs.removal.page \in efs.listed THEN "point" ELSE "page",
                                   !.point = efs.removal.page])
deletePoint ==
    /\ efs.removal.at = "point"
    /\ efs' = [efs EXCEPT !.points = WithoutPoint(@, efs.removal.point), !.removal = [@ EXCEPT !.at = "page"]]
deleteFileSystem ==
    /\ efs.removal.at = "page" /\ efs.removal.page > MaxId
    /\ IF efs.targets # {} THEN Removal(Over(efs.removal, "VolumeError"))     \* FileSystemInUse
       ELSE efs' = [efs EXCEPT !.fs = "gone", !.points = <<>>, !.removal = Over(@, "ok")]
removalThrottled ==
    /\ efs.removal.at \in {"tag", "targets", "page", "point"} /\ efs.faults < MaxEfsFaults
    /\ efs' = [efs EXCEPT !.removal = Over(@, "RateLimitError"), !.faults = @ + 1]

-----------------------------------------------------------------------------
(* MountTargetResolver                                                     *)

ZoneOrder == <<"az1", "az2">>           \* byAvailabilityZone
chooseMountTargetIp == Head(SelectSeq(ZoneOrder, LAMBDA z : z \in efs.targets) \o <<"VolumeError">>)
\* The first answer is kept, whatever it was.
resolve ==
    LET answer == IF efs.resolved = "" THEN chooseMountTargetIp ELSE efs.resolved
    IN efs' = [efs EXCEPT !.resolved = answer, !.addresses = Append(@, answer)]
MaxVolumes == 2                         \* resolveMountTargets: the volumes of one create
resolveMountTargets == efs.mounts /\ Len(efs.addresses) < MaxVolumes /\ resolve

-----------------------------------------------------------------------------
EfsNext ==
    \/ startEfs
    \/ efs.on /\ ( \/ appearInList \/ leaveList \/ drainTarget
                   \/ \E c \in Callers : \/ begin(c) \/ throttled(c) \/ createAccessPoint(c) \/ listPage(c)
                                         \/ get(c) \/ deleteAccessPoint(c)
                   \/ beginRemoval \/ stackDestroy \/ requireStackFileSystem \/ waitWithoutMountTargets
                   \/ deletePage \/ deletePoint \/ deleteFileSystem \/ removalThrottled
                   \/ resolveMountTargets )

(* Two creates of one name never leave two access points: the second finds *)
(* the first, whose listing lags (VolumeStore.create, getOnceListed).      *)
OnePointPerName == Cardinality(LivePoints("v")) <= 1

(* Of all the callers that destroy an access point, the one whose call     *)
(* deleted it says so, and nobody else (VolumeStore.destroy).              *)
OneDestroyed ==
    \A i \in Ids : Cardinality({c \in Callers : efs.calls[c].answer = "true" /\ efs.calls[c].id = i}) = efs.deletions[i]

(* Nothing is removed from a file system that does not carry the tag of    *)
(* the stack (EfsVolumes.deleteFileSystem).                                *)
ForeignKept == ~efs.tagged => efs.fs = "available" /\ 1 \in DOMAIN efs.points

(* A removal that knew the file system and reports success has left none,  *)
(* also when an earlier one gave up half way.  A destroy that finds the    *)
(* stack gone knows none, and says nothing of a file system that is left   *)
(* (EfsVolumes.destroy, #fileSystemIdOrUndefined).                         *)
RemovedForGood == efs.removal.fs /\ efs.removal.answer = "ok" => efs.fs = "gone"

(* The volumes of one sandbox on one file system get one address, although *)
(* mount targets go while they are resolved (MountTargetResolver).         *)
OneAddress == \A i, j \in DOMAIN efs.addresses : efs.addresses[i] = efs.addresses[j]
=============================================================================
