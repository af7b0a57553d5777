---------------------------- MODULE AccountStacks ---------------------------
(***************************************************************************)
(* `rayito setup` (account-setup/, stacks/, cli/setup-adapters.ts): the    *)
(* artifact bucket, the IAM stack and the base and caps images of an        *)
(* account, planned from what the account holds and applied step by step.   *)
(* A run may die anywhere; CloudFormation goes on without it, and a later   *)
(* run of the same or of a newer SDK finds whatever is there.  A setup      *)
(* elsewhere may deploy the IAM stack during a run.                         *)
(***************************************************************************)
EXTENDS Integers, Sequences, FiniteSets

VARIABLES estate, stk

Sdks == {1, 2}                        \* VERSION; each has its own IAM template
MaxRuns == 2
MaxTrouble == 1                       \* bound on CloudFormation rollbacks and on deaths

\* A stack: `st` is classifyStack's class, except that a stack whose update was
\* rolled back is usable for a plan and a failure for whoever waits for it.
NoStack == [st |-> "missing", bucket |-> "", fp |-> 0, sdk |-> 0]

\* `zip`: none yet, the one of --artifact, or the release's, once verified;
\* `now`: the image being applied; `overtaken` (history): another setup wrote the
\* IAM stack after this run decided what to do with it.
IdleRun == [at |-> "idle", sdk |-> 1, arg |-> "", bucketStep |-> "", bucket |-> "",
            iamStep |-> "", zip |-> "none", now |-> "base", overtaken |-> FALSE,
            image |-> [i \in {"base", "caps"} |-> ""]]

EstateInit ==
    estate = [on |-> FALSE, iam |-> NoStack, iamOld |-> NoStack, art |-> NoStack,
              buckets |-> {}, image |-> [i \in {"base", "caps"} |-> "missing"],
              good |-> TRUE, bad |-> FALSE, run |-> IdleRun, runs |-> 0, trouble |-> 0,
              others |-> 0, lowered |-> FALSE]

\* The account before the first run: the buckets it owns, an image of another
\* origin; `good`: the zip of the release matches its SHA256SUMS.
chooseAccount ==
    /\ ~estate.on
    /\ \E b \in SUBSET {"cdk", "mine"}, g \in BOOLEAN, i \in {"missing", "building", "launchable"} :
          /\ g \/ i = "missing"
          /\ estate' = [estate EXCEPT !.on = TRUE, !.buckets = b, !.good = g, !.image["base"] = i]

Run == estate.run
Trouble == estate.trouble < MaxTrouble
RunAt(s) == estate.on /\ Run.at = s
SetupEnds == [estate EXCEPT !.run = [IdleRun EXCEPT !.at = "failed"]]

startSetup ==
    /\ estate.on /\ Run.at \in {"idle", "failed", "done"} /\ estate.runs < MaxRuns
    /\ \E s \in Sdks, a \in {"", "mine"}, z \in {"none", "given"}, caps \in BOOLEAN :
          /\ z = "given" => ~estate.good
          /\ caps => a = "" /\ estate.runs = 0                \* enough to meet each option
          /\ estate' = [estate EXCEPT !.runs = @ + 1,
                 !.run = [IdleRun EXCEPT !.at = "plan", !.sdk = s, !.arg = a, !.zip = z,
                                         !.image["caps"] = IF caps THEN "" ELSE "skip"]]

\* The process dies: whatever CloudFormation accepted goes on.
setupDies ==
    /\ estate.on /\ Run.at \notin {"idle", "failed", "done"} /\ Trouble
    /\ estate' = [SetupEnds EXCEPT !.trouble = @ + 1]

-----------------------------------------------------------------------------
(* plan().                                                                 *)

templateFingerprint(sdk) == sdk

\* bucketCandidates and decideBucket: the explicit one, else the IAM stack's, else
\* CDK's; a candidate that is missing (or CDK's, forbidden) is passed over.
candidates(r) ==
    IF r.arg # "" THEN {r.arg}
    ELSE IF estate.iam.bucket \in estate.buckets THEN {estate.iam.bucket} ELSE {"cdk"}
reused(r) == candidates(r) \cap estate.buckets
creationTarget(r) == IF r.arg # "" THEN r.arg ELSE "rayito"

\* requireSameBucket: an explicit bucket never gives way to the artifact stack's.
sameBucket(r, b) == r.arg = "" \/ r.arg = b

\* planBucketCreation; "" refuses.
planBucketCreation(r) ==
    CASE estate.art.st = "blocked" -> ""
      [] estate.art.st \in {"usable", "in_progress"} ->
            IF ~sameBucket(r, estate.art.bucket) THEN ""
            ELSE IF estate.art.st = "usable" THEN "reuse" ELSE "wait"
      [] estate.art.st = "missing" ->
            IF r.arg = "" /\ creationTarget(r) \in estate.buckets THEN "" ELSE "create"

bucketPlan(r) ==
    IF reused(r) # {} THEN [step |-> "reuse", name |-> CHOOSE b \in reused(r) : TRUE]
    ELSE [step |-> planBucketCreation(r),
          name |-> IF estate.art.st \in {"usable", "in_progress"} THEN estate.art.bucket ELSE creationTarget(r)]

\* planStack: never over a stack of a newer SDK; "" refuses.
planStack(sdk, bucket) ==
    LET newer == estate.iam.sdk > sdk IN
    CASE estate.iam.st = "missing" -> "create"
      [] estate.iam.st = "blocked" -> ""
      [] estate.iam.st = "in_progress" -> "wait"
      [] estate.iam.st \in {"usable", "rolledback"} ->
            IF estate.iam.bucket = bucket /\ (estate.iam.fp = templateFingerprint(sdk) \/ newer) THEN "reuse"
            ELSE IF newer THEN "" ELSE "update"

planImage(i) ==
    CASE estate.image[i] = "building" -> "wait" [] estate.image[i] = "launchable" -> "reuse" [] OTHER -> "publish"

planned(r) ==
    LET b == bucketPlan(r)
    IN [r EXCEPT !.bucketStep = b.step, !.bucket = b.name, !.iamStep = planStack(r.sdk, b.name), !.at = "confirm",
                 !.image = [i \in {"base", "caps"} |-> IF @[i] = "skip" THEN "skip" ELSE planImage(i)]]
Accepted(r) == r.bucketStep # "" /\ r.iamStep # ""
Ready(r) ==
    r.bucketStep = "reuse" /\ r.iamStep = "reuse" /\ \A i \in {"base", "caps"} : r.image[i] \in {"skip", "reuse"}

planSetup ==
    /\ RunAt("plan")
    /\ estate' = IF Accepted(planned(Run)) THEN [estate EXCEPT !.run = planned(Run)] ELSE SetupEnds

\* confirmed(): needed when a step writes.
confirmed ==
    /\ RunAt("confirm")
    /\ \/ estate' = [estate EXCEPT !.run.at = "bucket"]
       \/ estate' = SetupEnds

-----------------------------------------------------------------------------
(* apply(): bucket, IAM stack, image.                                      *)

applyBucket ==
    /\ RunAt("bucket")
    /\ CASE Run.bucketStep = "reuse" -> estate' = [estate EXCEPT !.run.at = "iam"]
         [] Run.bucketStep = "create" ->
               estate' = [estate EXCEPT !.run.at = "bucketWait",
                                        !.art = [NoStack EXCEPT !.st = "in_progress", !.bucket = Run.bucket]]
         [] Run.bucketStep = "wait" -> estate' = [estate EXCEPT !.run.at = "bucketWait"]

\* wait("deployed"): a usable stack, or an error.
bucketReady ==
    /\ RunAt("bucketWait") /\ estate.art.st # "in_progress"
    /\ estate' = IF estate.art.st = "usable" THEN [estate EXCEPT !.run.at = "iam", !.run.bucket = estate.art.bucket]
                 ELSE SetupEnds

\* #deployBucket: bucket and fingerprint always together, created or updated as
\* the stack is by then; whose template it replaces is not looked at again, and
\* CloudFormation refuses a stack that is at work or blocked.
deployIam(e) ==
    IF e.iam.st \in {"in_progress", "blocked"} THEN SetupEnds
    ELSE [e EXCEPT !.iamOld = e.iam, !.run.at = "iamWait",
                   !.lowered = @ \/ (e.iam.sdk > Run.sdk /\ ~Run.overtaken),
                   !.iam = [st |-> "in_progress", bucket |-> Run.bucket, fp |-> templateFingerprint(Run.sdk), sdk |-> Run.sdk]]

applyStack ==
    /\ RunAt("iam")
    /\ CASE Run.iamStep = "reuse" -> estate' = [estate EXCEPT !.run.at = "image"]
         [] Run.iamStep \in {"create", "update"} -> estate' = deployIam(estate)
         [] Run.iamStep = "wait" -> estate' = [estate EXCEPT !.run.at = "iamSettle"]

\* The stack of another run settled: #stackOutdated decides as planStack does.
Bug_notLookedAgain == "reuse"
outdated == planStack(Run.sdk, Run.bucket)
waitStack ==
    /\ RunAt("iamSettle") /\ estate.iam.st # "in_progress"
    /\ estate' = IF estate.iam.st # "usable" \/ outdated = "" THEN SetupEnds
                 ELSE [estate EXCEPT !.run.at = IF outdated = "update" THEN "iam" ELSE "image",
                                     !.run.iamStep = outdated, !.run.overtaken = FALSE]
stackReady ==
    /\ RunAt("iamWait") /\ estate.iam.st # "in_progress"
    /\ estate' = IF estate.iam.st = "usable"
                 THEN [estate EXCEPT !.run.at = "image"] ELSE SetupEnds

\* Publishing.image, for the base image and then for caps: skip, wait, reuse, or
\* publish the zip, which is the one given or is downloaded and verified once.
ImageDone == IF Run.now = "base" THEN [estate EXCEPT !.run.now = "caps", !.run.at = "image"]
             ELSE [estate EXCEPT !.run.at = "done"]
verifyChecksum == estate.good
applyImage ==
    /\ RunAt("image")
    /\ LET step == Run.image[Run.now] IN
       CASE step \in {"reuse", "skip"} -> estate' = ImageDone
         [] step = "wait" ->
               /\ estate.image[Run.now] # "building"
               /\ estate' = IF estate.image[Run.now] = "launchable" THEN ImageDone ELSE SetupEnds
         [] step = "publish" ->
               estate' = IF Run.zip = "none" /\ ~verifyChecksum THEN SetupEnds
                         ELSE [estate EXCEPT !.run.at = "built", !.image[Run.now] = "building",
                                             !.run.zip = IF @ = "none" THEN "release" ELSE @,
                                             !.bad = @ \/ (Run.zip # "given" /\ ~estate.good)]
imageBuilt ==
    /\ RunAt("built") /\ estate.image[Run.now] # "building"
    /\ estate' = IF estate.image[Run.now] = "launchable" THEN ImageDone ELSE SetupEnds

-----------------------------------------------------------------------------
(* AWS.                                                                    *)

\* A create that fails is left blocked (ROLLBACK_COMPLETE), an update that fails is
\* rolled back to what it was; the artifact bucket appears with its stack.
artSettles ==
    /\ estate.on /\ estate.art.st = "in_progress"
    /\ \/ estate' = [estate EXCEPT !.art.st = "usable", !.buckets = @ \cup {estate.art.bucket}]
       \/ Trouble /\ estate' = [estate EXCEPT !.art.st = "blocked", !.trouble = @ + 1]
iamSettles ==
    /\ estate.on /\ estate.iam.st = "in_progress"
    /\ \/ estate' = [estate EXCEPT !.iam.st = "usable"]
       \/ /\ Trouble
          /\ estate' = [estate EXCEPT !.trouble = @ + 1,
                 !.iam = IF estate.iamOld.st = "missing" THEN [estate.iam EXCEPT !.st = "blocked"]
                         ELSE [estate.iamOld EXCEPT !.st = "rolledback"]]
\* The build role reads the zip from the bucket of the IAM stack.
imageSettles ==
    /\ estate.on
    /\ \E i \in {"base", "caps"} :
          /\ estate.image[i] = "building"
          /\ \/ estate' = [estate EXCEPT !.image[i] = "launchable"]
             \/ Trouble /\ estate' = [estate EXCEPT !.image[i] = "unlaunchable", !.trouble = @ + 1]

\* A setup of the newer SDK in another process, over its own bucket.
otherSetup ==
    /\ estate.on /\ Run.at \notin {"idle", "failed", "done"} /\ estate.others = 0
    /\ estate.iam.st \in {"missing", "usable", "rolledback"}
    /\ \E b \in estate.buckets :
          estate' = [estate EXCEPT !.others = 1, !.run.overtaken = TRUE, !.iamOld = estate.iam,
                 !.iam = [st |-> "in_progress", bucket |-> b, fp |-> templateFingerprint(2), sdk |-> 2]]

EstateNext ==
    \/ chooseAccount \/ startSetup \/ setupDies \/ planSetup \/ confirmed \/ applyBucket \/ bucketReady
    \/ applyStack \/ waitStack \/ stackReady \/ applyImage \/ imageBuilt
    \/ artSettles \/ iamSettles \/ imageSettles \/ otherSetup

-----------------------------------------------------------------------------
(* Properties.                                                             *)

\* The build role of the IAM stack reads the bucket the zip went to: a run whose
\* stack was deployed by another run never publishes past it, unless the other
\* wrote the stack after this one had decided about it.
RoleReadsBucket == Run.at \in {"built", "done"} /\ ~Run.overtaken => estate.iam.bucket = Run.bucket

\* setup is idempotent: after a run that succeeded and that no other overtook, the
\* same request plans nothing to do, whatever runs died before it.
DoneMeansReady == Run.at = "done" /\ ~Run.overtaken => Ready(planned(Run))

\* An SDK never replaces the IAM template of a newer one that was there when it
\* decided, at the plan or after waiting for a deployment the newer one had under
\* way.  (One that arrives between the decision and the write is replaced.)
NeverDowngrades == ~estate.lowered

\* A bucket given by name is the bucket used, or the run fails.
ExplicitBucketWins == Run.at \in {"built", "done"} /\ Run.arg # "" => Run.bucket = Run.arg

\* No image, base or caps, is built from a release's zip that does not match its
\* checksum (a zip given with --artifact is published as it is).
OnlyVerifiedZip == ~estate.bad

-----------------------------------------------------------------------------
(***************************************************************************)
(* `rayito stack deploy` and `destroy` of one optional component (stacks/, *)
(* cli/commands/stack.ts): what the command reads of the CloudFormation    *)
(* stack, what it shows, uploads and asks for, and how it waits, while     *)
(* CloudFormation works and another operator may deploy the same stack.    *)
(***************************************************************************)

NoValue == 0                            \* a parameter that is not set
StackParams == {"Warn", "Crit", "Bucket"}
StackDefaults == [Warn |-> 1, Crit |-> 2, Bucket |-> NoValue]  \* Bucket is required
ThisCode == "sdk"                       \* key of the code this SDK ships

Blank == [p \in StackParams |-> NoValue]
OwnEvent(status, op) == [id |-> "stack", status |-> status, op |-> op]
FailEvent(status, op) == [id |-> "resource", status |-> status, op |-> op]
StkInit == stk = [phase |-> "none"]

-----------------------------------------------------------------------------
(* The plan (model.ts, OptionalStacks.#plan).                              *)

stackExists(seen) == seen.state # "none"
planDeploy(seen) == IF ~stackExists(seen) THEN "create" ELSE IF seen.state = "ROLLBACK_COMPLETE" THEN "blocked" ELSE "update"
planParameters(given, seen) ==
    LET keep == {p \in StackParams : given[p] = NoValue /\ stackExists(seen) /\ seen.params[p] # NoValue}
    IN [values |-> [p \in StackParams |-> IF given[p] # NoValue THEN given[p] ELSE IF p \in keep THEN NoValue ELSE StackDefaults[p]],
        keep |-> keep]
missingParameters(plan) == {p \in StackParams \ plan.keep : plan.values[p] = NoValue}
effective(plan, seen) == [p \in StackParams |-> IF p \in plan.keep THEN seen.params[p] ELSE plan.values[p]]
requireOrderedThresholds(v) == v["Warn"] < v["Crit"]
parameterChanges(plan, seen) == {p \in StackParams : plan.values[p] # NoValue /\ plan.values[p] # seen.params[p]}
withArtifactBucket(given, bucket) == [given EXCEPT !["Bucket"] = IF bucket = NoValue THEN @ ELSE bucket]
requireArtifactBucket(cmd) == cmd.bucket # NoValue
describe == [state |-> stk.live, params |-> stk.params]
planRefusal(cmd, seen) ==
    IF ~requireArtifactBucket(cmd) \/ cmd.given["Bucket"] \notin {NoValue, cmd.bucket} THEN "invalid"
      ELSE IF planDeploy(seen) = "blocked" THEN "blocked"
      ELSE IF missingParameters(planParameters(withArtifactBucket(cmd.given, cmd.bucket), seen)) # {} THEN "invalid"
      ELSE IF ~requireOrderedThresholds(effective(planParameters(withArtifactBucket(cmd.given, cmd.bucket), seen), seen)) THEN "invalid"
      ELSE ""

-----------------------------------------------------------------------------
(* The command (deployCommand, OptionalStacks.deploy).  Each phase ends    *)
(* with an answer of AWS, so others may act between two of them.           *)

deployCommand ==
    stk.phase = "none" /\ \E warn \in {NoValue, 1, 3}, crit \in {NoValue, 2}, bucket \in {NoValue, 1}, yes \in BOOLEAN,
        world \in {<<"none", "none">>, <<"CREATE_COMPLETE", "old">>, <<"ROLLBACK_COMPLETE", "old">>, <<"UPDATE_ROLLBACK_COMPLETE", "old">>} :
        stk' = [phase |-> IF yes THEN "plan" ELSE "preview",
                cmd |-> [verb |-> "deploy", given |-> [Blank EXCEPT !["Warn"] = warn, !["Crit"] = crit], bucket |-> bucket],
                live |-> world[1], params |-> IF world[1] = "none" THEN Blank ELSE [Warn |-> 2, Crit |-> 3, Bucket |-> 1],
                key |-> world[2], stored |-> {world[2]} \ {"none"}, next |-> [params |-> Blank, key |-> "none"],
                events |-> IF world[1] = "UPDATE_ROLLBACK_COMPLETE" THEN <<FailEvent("UPDATE_FAILED", 0), OwnEvent("UPDATE_IN_PROGRESS", 0)>> ELSE <<>>,
                op |-> 0, mine |-> -1, plan |-> [values |-> Blank, keep |-> {}], action |-> "", shown |-> {}, previewed |-> FALSE, before |-> Blank,
                asked |-> Blank, had |-> Blank, others |-> 0, result |-> "", reason |-> -1]
destroyCommand ==
    stk.phase = "none" /\ \E world \in {"none", "CREATE_COMPLETE", "ROLLBACK_COMPLETE"} :
        stk' = [phase |-> "asked", cmd |-> [verb |-> "destroy", given |-> Blank, bucket |-> NoValue],
                live |-> world, params |-> IF world = "none" THEN Blank ELSE [Warn |-> 2, Crit |-> 3, Bucket |-> 1],
                key |-> IF world = "none" THEN "none" ELSE "old", stored |-> {"old"}, next |-> [params |-> Blank, key |-> "none"], events |-> <<>>,
                op |-> 0, mine |-> -1, plan |-> [values |-> Blank, keep |-> {}], action |-> "", shown |-> {}, previewed |-> FALSE, before |-> Blank,
                asked |-> Blank, had |-> Blank, others |-> 0, result |-> "", reason |-> -1]
Ended(result) == [stk EXCEPT !.phase = "done", !.result = result]
plannedNow == planParameters(withArtifactBucket(stk.cmd.given, stk.cmd.bucket), describe)
confirmDeploy ==
    /\ stk.phase = "preview"
    /\ LET no == planRefusal(stk.cmd, describe)
       IN stk' = IF no # "" THEN Ended(no) ELSE [stk EXCEPT !.phase = "asked", !.previewed = TRUE, !.shown = parameterChanges(plannedNow, describe)]
answerQuestion ==
    /\ stk.phase = "asked"
    /\ \E yes \in BOOLEAN : stk' = IF yes THEN [stk EXCEPT !.phase = IF stk.cmd.verb = "deploy" THEN "plan" ELSE "delete"] ELSE Ended("declined")
planDeployment ==
    /\ stk.phase = "plan"
    /\ LET no == planRefusal(stk.cmd, describe)
       IN stk' = IF no # "" THEN Ended(no)
                 ELSE [stk EXCEPT !.phase = "upload", !.plan = plannedNow, !.action = planDeploy(describe),
                                  !.before = stk.params]
putArtifact == stk.phase = "upload" /\ stk' = [stk EXCEPT !.phase = "apply", !.stored = @ \cup {ThisCode}]
protoParameters(plan) == [p \in StackParams |-> IF p \in plan.keep THEN stk.params[p] ELSE plan.values[p]]
inProgress == stk.live \in {"CREATE_IN_PROGRESS", "UPDATE_IN_PROGRESS", "DELETE_IN_PROGRESS"}
createStack ==
    /\ stk.phase = "apply" /\ stk.action = "create"
    /\ stk' = IF stackExists(describe) THEN Ended("failed")                  \* AlreadyExistsException
              ELSE [stk EXCEPT !.phase = "wait", !.live = "CREATE_IN_PROGRESS", !.next = [params |-> protoParameters(stk.plan), key |-> ThisCode],
                               !.asked = protoParameters(stk.plan), !.op = @ + 1, !.mine = stk.op + 1,
                               !.events = <<OwnEvent("CREATE_IN_PROGRESS", stk.op + 1)>> \o @]
updateStack ==
    /\ stk.phase = "apply" /\ stk.action = "update"
    /\ LET asked == protoParameters(stk.plan)
       IN stk' = IF inProgress \/ ~stackExists(describe) \/ stk.live = "ROLLBACK_COMPLETE" THEN Ended("failed")
                 ELSE IF asked = stk.params /\ stk.key = ThisCode THEN [stk EXCEPT !.phase = "wait", !.asked = asked, !.had = stk.params]   \* no_changes
                 ELSE [stk EXCEPT !.phase = "wait", !.live = "UPDATE_IN_PROGRESS", !.next = [params |-> asked, key |-> ThisCode],
                                  !.asked = asked, !.had = stk.params, !.op = @ + 1, !.mine = stk.op + 1,
                                  !.events = <<OwnEvent("UPDATE_IN_PROGRESS", stk.op + 1)>> \o @]
destroyStack ==
    /\ stk.phase = "delete"
    /\ stk' = IF ~stackExists(describe) THEN [stk EXCEPT !.phase = "wait"]
              ELSE [stk EXCEPT !.phase = "wait", !.live = "DELETE_IN_PROGRESS", !.events = <<OwnEvent("DELETE_IN_PROGRESS", stk.op)>> \o @]

Successes == {"CREATE_COMPLETE", "UPDATE_COMPLETE"}
Failures == {"ROLLBACK_COMPLETE", "UPDATE_ROLLBACK_COMPLETE", "DELETE_FAILED"}
Explainable == {"ROLLBACK_COMPLETE", "UPDATE_ROLLBACK_COMPLETE"}
wait ==
    /\ stk.phase = "wait"
    /\ \/ stk.cmd.verb = "destroy" /\ stk.live = "none" /\ stk' = Ended("ok")
       \/ stk.cmd.verb = "deploy" /\ stk.live \in Successes /\ stk' = [stk EXCEPT !.phase = "final"]
       \/ stk.live \in Failures /\ stk' = [stk EXCEPT !.phase = IF stk.live \in Explainable /\ stk.cmd.verb = "deploy" THEN "explain" ELSE "done",
                                                      !.result = "failed"]
       \/ stk' = Ended("in_progress")                                     \* the deadline passed
deployed == stk.phase = "final" /\ stk' = Ended(IF stackExists(describe) THEN "ok" ELSE "failed")
\* Events come newest first; the search stops at the event that opened the operation.
firstFailedResource(events) ==
    LET starts == {i \in DOMAIN events : events[i].id = "stack" /\ events[i].status \in {"CREATE_IN_PROGRESS", "UPDATE_IN_PROGRESS"}}
        failed == {i \in DOMAIN events : /\ events[i].id = "resource" /\ events[i].status \in {"CREATE_FAILED", "UPDATE_FAILED"}
                                         /\ \A s \in starts : i < s}
    IN IF failed = {} THEN -1 ELSE events[CHOOSE i \in failed : \A j \in failed : i >= j].op
failureReason ==
    /\ stk.phase = "explain"
    /\ stk' = [Ended("failed") EXCEPT !.reason = firstFailedResource(stk.events)]
\* Any call to AWS may fail; while a failure is explained the error is dropped.
wrap ==
    /\ stk.phase \in {"preview", "plan", "upload", "apply", "delete", "wait", "final", "explain"}
    /\ stk' = Ended("failed")

-----------------------------------------------------------------------------
(* CloudFormation, and the other operator.                                 *)

cloudFormation ==
    \/ /\ stk.phase # "none" /\ stk.live = "CREATE_IN_PROGRESS"
       /\ \/ stk' = [stk EXCEPT !.live = "CREATE_COMPLETE", !.params = stk.next.params, !.key = stk.next.key]
          \/ stk' = [stk EXCEPT !.live = "ROLLBACK_COMPLETE", !.params = stk.next.params, !.key = stk.next.key,
                                !.events = <<FailEvent("CREATE_FAILED", stk.op)>> \o @]
    \/ /\ stk.phase # "none" /\ stk.live = "UPDATE_IN_PROGRESS"
       /\ \/ stk' = [stk EXCEPT !.live = "UPDATE_COMPLETE", !.params = stk.next.params, !.key = stk.next.key]
          \/ stk' = [stk EXCEPT !.live = "UPDATE_ROLLBACK_COMPLETE", !.events = <<FailEvent("UPDATE_FAILED", stk.op)>> \o @]
    \/ /\ stk.phase # "none" /\ stk.live = "DELETE_IN_PROGRESS"
       /\ \/ stk' = [stk EXCEPT !.live = "none", !.params = Blank, !.key = "none"]
          \/ stk' = [stk EXCEPT !.live = "DELETE_FAILED"]
otherOperator ==
    /\ stk.phase \notin {"none", "done"} /\ stk.others = 0 /\ stk.live \in Successes \cup {"UPDATE_ROLLBACK_COMPLETE"}
    /\ \E warn \in {1, 2} :
         stk' = [stk EXCEPT !.others = 1, !.op = @ + 1, !.live = "UPDATE_IN_PROGRESS",
                            !.next = [params |-> [stk.params EXCEPT !["Warn"] = warn], key |-> stk.key],
                            !.events = <<OwnEvent("UPDATE_IN_PROGRESS", stk.op + 1)>> \o @]

StkNext == \/ deployCommand \/ destroyCommand \/ confirmDeploy \/ answerQuestion \/ planDeployment \/ putArtifact \/ createStack
           \/ updateStack \/ destroyStack \/ wait \/ deployed \/ failureReason \/ wrap \/ cloudFormation \/ otherOperator

-----------------------------------------------------------------------------

\* A parameter that the caller did not give keeps the value the stack has when the
\* update is applied, also one another operator changed after the plan was read, and
\* never goes back to its default (planParameters, protoParameters).
NotGivenKept ==
    stk.phase \in {"wait", "final"} /\ stk.action = "update" =>
        \A p \in StackParams \ {"Bucket"} : stk.cmd.given[p] = NoValue => stk.asked[p] = stk.had[p]

\* The code a stack refers to, or is about to refer to, is in the bucket: it is uploaded
\* before the stack is asked for it, whatever fails afterwards (OptionalStacks.deploy).
CodeIsStored ==
    stk.phase # "none" =>
        /\ stk.key # "none" => stk.key \in stk.stored
        /\ stk.live \in {"CREATE_IN_PROGRESS", "UPDATE_IN_PROGRESS"} => stk.next.key \in stk.stored

\* The reason given for a failed deploy is the failure of the last operation of the
\* stack, not one of an operation before it (firstFailedResource).
ReasonIsLast == stk.phase = "done" /\ stk.reason # -1 => stk.reason = stk.op

\* Every parameter that the update changes was shown before the question, unless
\* another operator changed the stack meanwhile (parameterChanges, confirmDeploy).
ChangesWereShown ==
    stk.phase # "none" /\ stk.previewed /\ stk.mine = 1 /\ stk.others = 0 =>
        {p \in StackParams : stk.next.params[p] # stk.before[p]} \subseteq stk.shown

\* The thresholds a stack is asked for are in order, those it keeps included, as long as
\* the stack did not change between the plan and the call (planParameters: validate).
ThresholdsOrdered == stk.phase \in {"wait", "final"} /\ stk.cmd.verb = "deploy" /\ stk.others = 0 => stk.asked["Warn"] < stk.asked["Crit"]

\* A deploy that is refused or declined left the stack and the bucket as they were.
RefusalTouchesNothing ==
    stk.phase = "done" /\ stk.result \in {"invalid", "blocked", "declined"} => stk.mine = -1 /\ ThisCode \notin stk.stored

=============================================================================
