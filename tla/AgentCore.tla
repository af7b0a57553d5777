------------------------------ MODULE AgentCore -----------------------------
(***************************************************************************)
(* `rayito agent deploy --target agentcore` and its delete (agentcore/):   *)
(* the stack, the image built by CodeBuild and the runtime of one name,    *)
(* under two deployers and a deleter.  The names x_y and x-y have the same *)
(* stack and runtime names; the tag of an image is the hash of its tree.   *)
(* CloudFormation, CodeBuild, ECR and the AgentCore control plane are      *)
(* external and may fail or be slow at every step.                         *)
(***************************************************************************)
EXTENDS Integers, FiniteSets, Sequences

VARIABLES core, wish

CoreDeployers == {"d1", "d2"}
AgentNames == {"x_y", "x-y"}
ImageTags == {"t1", "t2"}
MaxDeploysMade == 3                     \* bound on the deploys begun: two at once, and one after
                                        \* them where nobody deletes
MaxRuntimes == 2                        \* bound on the runtimes created

NoRuntime == [id |-> 0, status |-> "GONE", owner |-> "", cdk |-> FALSE, tag |-> "", mmds |-> FALSE, version |-> 0]
NoDeploy == [pc |-> "idle", name |-> "x_y", tag |-> "t1", build |-> TRUE, made |-> FALSE, id |-> 0, base |-> 0,
             act |-> "none", result |-> "none", served |-> {}, applied |-> FALSE, hard |-> FALSE]

CoreInit ==
    core = [on |-> FALSE, stack |-> "missing", stackOwner |-> "", images |-> {}, sources |-> {}, stuck |-> {},
            runtime |-> NoRuntime, tokens |-> {}, ids |-> 0, begun |-> 0, wronged |-> FALSE,
            deploys |-> [d \in CoreDeployers |-> NoDeploy],
            deleter |-> [pc |-> "idle", name |-> "x_y", id |-> 0, stack |-> FALSE]]

\* What an earlier deploy, a CDK stack or nobody left behind.
beginWorld ==
    /\ ~core.on
    /\ \E r \in {NoRuntime} \cup
             {[id |-> 1, status |-> s, owner |-> "x_y", cdk |-> c, tag |-> "t1", mmds |-> m, version |-> 1] :
                <<s, c, m>> \in {<<"READY", FALSE, TRUE>>, <<"READY", FALSE, FALSE>>, <<"READY", TRUE, TRUE>>,
                                <<"UPDATE_FAILED", FALSE, TRUE>>, <<"CREATE_FAILED", FALSE, FALSE>>}} :
          LET there == r.id = 1 /\ ~r.cdk
          IN core' = [core EXCEPT !.on = TRUE, !.runtime = r, !.ids = r.id,
                                  !.stack = IF there THEN "usable" ELSE "missing",
                                  !.stackOwner = IF there THEN "x_y" ELSE "",
                                  !.images = IF there THEN {"t1"} ELSE {}]

-----------------------------------------------------------------------------
(* Deciding.                                                               *)

D(d) == core.deploys[d]
\* isOwned: the description has the exact name; refuseCdkManaged apart.
isOwned(r, name) == r.owner = name
checkRuntimeUsable(r, name) ==
    IF r.id = 0 THEN "ok"
      ELSE IF ~isOwned(r, name) \/ r.cdk THEN "name_conflict"
      ELSE IF r.status \in {"CREATE_FAILED", "DELETING"} THEN "runtime_blocked"
      ELSE "ok"
decideStack(name) ==
    IF core.stack = "missing" THEN "create"
      ELSE IF core.stackOwner # name THEN "name_conflict"
      ELSE IF core.stack \in {"creating", "updating", "deleting"} THEN "wait"
      ELSE IF core.stack = "blocked" THEN "stack_blocked"
      ELSE "update"
runtimeMatches(r, tag) == r.tag = tag /\ r.mmds
decideRuntime(r, d) ==
    IF r.id = 0 THEN "create"
      ELSE IF checkRuntimeUsable(r, D(d).name) # "ok" THEN "refused"
      ELSE IF r.status \in {"CREATING", "UPDATING"} THEN "wait"
      ELSE IF r.status = "UPDATE_FAILED" THEN "update"
      ELSE IF runtimeMatches(r, D(d).tag) THEN "reuse" ELSE "update"

Go(d, pc) == [core EXCEPT !.deploys[d].pc = pc]
CoreFails(d) == [core EXCEPT !.deploys[d] = NoDeploy]        \* the caller gets the error
To(d, ok, pc) == core' = IF ok THEN Go(d, pc) ELSE CoreFails(d)
OnPc(d, pc) == core.on /\ D(d).pc = pc

-----------------------------------------------------------------------------
(* A deploy: check the runtime, then stack, image and runtime.             *)

beginDeploy(d) ==
    /\ OnPc(d, "idle") /\ core.begun < MaxDeploysMade
    /\ core.begun = 1 => \E x \in CoreDeployers : D(x).pc # "idle"
    /\ core.begun = MaxDeploysMade - 1 => d = "d1" /\ core.deleter.pc = "idle" /\ \A x \in CoreDeployers : D(x).pc = "idle"
    /\ \E name \in AgentNames, tag \in ImageTags, build \in BOOLEAN :
          /\ d = "d1" => name = "x_y" /\ tag = "t1" /\ build
          /\ name = "x-y" => tag = "t2" /\ build
          /\ ~build => tag = "t1"
          /\ core' = [core EXCEPT !.begun = @ + 1,
                        !.deploys[d] = [NoDeploy EXCEPT !.pc = "check", !.name = name, !.tag = tag, !.build = build,
                                          !.served = {core.runtime.tag}]]
checkRuntime(d) == OnPc(d, "check") /\ To(d, checkRuntimeUsable(core.runtime, D(d).name) = "ok", "stack")

\* What decideStack said is carried to the write, which does not look again: a
\* create of a stack that appeared is refused by CloudFormation, an update takes
\* whatever stack has the name by then.
observeStack(d) ==
    /\ OnPc(d, "stack")
    /\ LET action == decideStack(D(d).name)
       IN \/ action = "wait" /\ core' = CoreFails(d)           \* the wait's own timeout
          \/ action = "create" /\ ~D(d).build /\ core' = CoreFails(d)
          \/ /\ action = "update" \/ (action = "create" /\ D(d).build)
             /\ core' = [Go(d, "writeStack") EXCEPT !.deploys[d].act = action]
          \/ action \in {"name_conflict", "stack_blocked"} /\ core' = CoreFails(d)
writeStack(d) ==
    /\ OnPc(d, "writeStack")
    /\ LET at == [Go(d, "settle") EXCEPT !.deploys[d].act = "none", !.stackOwner = D(d).name]
       IN CASE D(d).act = "create" /\ core.stack = "missing" ->
                 core' = [at EXCEPT !.stack = "creating", !.deploys[d].made = TRUE]
            [] D(d).act = "update" /\ core.stack = "usable" ->
                 \/ core' = [at EXCEPT !.stack = "updating"]
                 \/ core.stackOwner = D(d).name /\ core' = at   \* no_changes
            [] OTHER -> core' = CoreFails(d)
settleStack(d) ==
    /\ OnPc(d, "settle")
    /\ \/ core.stack = "usable" /\ core' = Go(d, "image")
       \/ core' = CoreFails(d)                                 \* stack_failed, or the timeout

observeImage(d) ==
    /\ OnPc(d, "image")
    /\ LET there == ~D(d).made /\ D(d).tag \in core.images
       IN To(d, core.stack # "missing" /\ (there \/ D(d).build), IF there THEN "list" ELSE "upload")
sourceKeyFor(d) == <<D(d).name, D(d).tag>>
\* Bound: one source may stay, of d1.
MayStay(d) == d = "d1" /\ core.stuck = {}
\* The upload is before the try of #buildImage: when it fails nothing is deleted,
\* also when the object did land.
putSource(d) ==
    /\ OnPc(d, "upload")
    /\ \/ core' = [Go(d, "build") EXCEPT !.sources = @ \cup {sourceKeyFor(d)}]
       \/ core' = CoreFails(d)
       \/ MayStay(d) /\ core' = [CoreFails(d) EXCEPT !.sources = @ \cup {sourceKeyFor(d)},
                                                         !.stuck = {sourceKeyFor(d)}]

\* waitBuild ends with an image, a failed build or the timeout; the source goes in a
\* finally, and a deletion that fails is swallowed.
deletedSources(d, ok) == {sourceKeyFor(d)}
waitCoreBuild(d) ==
    /\ OnPc(d, "build")
    /\ \E ok, deletes \in BOOLEAN :
          /\ ~deletes => MayStay(d)
          /\ LET after == IF ok THEN Go(d, "list") ELSE CoreFails(d)
             IN core' = [after EXCEPT !.images = IF ok /\ core.stack # "missing" THEN @ \cup {D(d).tag} ELSE @,
                                   !.sources = IF deletes THEN @ \ deletedSources(d, ok) ELSE @,
                                   !.stuck = IF deletes THEN @ ELSE @ \cup {sourceKeyFor(d)}]

-----------------------------------------------------------------------------
(* The runtime.                                                            *)

applyRuntime(d) ==
    /\ OnPc(d, "list")
    /\ LET r == core.runtime
           action == decideRuntime(r, d)
           at == [core EXCEPT !.deploys[d].id = r.id]
       IN core' = CASE action = "create" -> Go(d, "create")
                    [] action = "refused" -> CoreFails(d)
                    [] action = "wait" -> [at EXCEPT !.deploys[d].pc = "waitThenDecide"]
                    [] action = "update" -> [at EXCEPT !.deploys[d].pc = "base"]
                    [] action = "reuse" -> [at EXCEPT !.deploys[d].pc = "final"]

createRuntime(d) ==
    /\ OnPc(d, "create")
    /\ \/ core.runtime.id # 0 /\ core' = Go(d, "conflict")
       \/ core.runtime.id = 0 /\ core.ids < MaxRuntimes
          /\ core' = [core EXCEPT !.ids = @ + 1,
                !.runtime = [id |-> core.ids + 1, status |-> "CREATING", owner |-> D(d).name, cdk |-> FALSE,
                             tag |-> D(d).tag, mmds |-> FALSE, version |-> 1],
                !.deploys = [x \in CoreDeployers |->
                    [D(x) EXCEPT !.served = IF D(x).pc = "idle" THEN {} ELSE @ \cup {D(d).tag},
                                 !.pc = IF x = d THEN "waitCreated" ELSE @, !.id = IF x = d THEN core.ids + 1 ELSE @]]]
       \/ core.runtime.id = 0 /\ core' = CoreFails(d)

Bug_takesOver(d) == core.runtime.id # 0
mayUpdateAfterConflict(d) == core.runtime.id # 0 /\ isOwned(core.runtime, D(d).name) /\ ~core.runtime.cdk
updateAfterConflict(d) ==
    /\ OnPc(d, "conflict")
    /\ core' = IF mayUpdateAfterConflict(d)
               THEN [Go(d, "waitThenUpdate") EXCEPT !.deploys[d].id = core.runtime.id] ELSE CoreFails(d)

\* waitRuntime: READY goes on; a failed or vanished runtime, or the timeout, ends the deploy.
SameRuntime(d) == core.runtime.id = D(d).id
afterReady(d, pc) ==
    CASE pc \in {"waitCreated", "waitThenUpdate"} -> "base"
      [] pc = "waitThenDecide" -> IF runtimeMatches(core.runtime, D(d).tag) THEN "final" ELSE "base"
      [] pc = "waitUpdated" -> "final"
waitRuntime(d) ==
    \E pc \in {"waitCreated", "waitThenDecide", "waitThenUpdate", "waitUpdated"} :
       /\ OnPc(d, pc)
       /\ \/ SameRuntime(d) /\ core.runtime.status = "READY" /\ core' = Go(d, afterReady(d, pc))
          \/ core' = CoreFails(d)

\* enforceMmds: the version read before the write is part of its token.
readBase(d) ==
    /\ OnPc(d, "base")
    /\ core' = [Go(d, "update") EXCEPT !.deploys[d].base = IF SameRuntime(d) THEN core.runtime.version ELSE 0]
clientTokenFor(d) == <<D(d).id, D(d).tag, D(d).base>>
updateRuntime(d) ==
    /\ OnPc(d, "update")
    /\ LET token == clientTokenFor(d)
           r == core.runtime
       IN \/ SameRuntime(d) /\ token \in core.tokens /\ core' = Go(d, "waitUpdated")
          \/ /\ SameRuntime(d) /\ token \notin core.tokens /\ r.status \in {"READY", "UPDATE_FAILED"}
             /\ core' = [core EXCEPT !.tokens = @ \cup {token},
                   !.wronged = @ \/ r.owner # D(d).name \/ r.cdk,
                   !.runtime = [r EXCEPT !.status = "UPDATING", !.tag = D(d).tag, !.mmds = TRUE, !.version = @ + 1],
                   !.deploys = [x \in CoreDeployers |->
                       [D(x) EXCEPT !.served = IF D(x).pc = "idle" THEN {} ELSE @ \cup {D(d).tag}, !.pc = IF x = d THEN "waitUpdated" ELSE @]]]
          \/ core' = CoreFails(d)                              \* not found, conflict or refused

finishDeploy(d) ==
    /\ OnPc(d, "final")
    /\ core' = IF SameRuntime(d)
               THEN [core EXCEPT !.deploys[d] = [NoDeploy EXCEPT !.result = "ok", !.hard = core.runtime.mmds,
                                                                 !.applied = D(d).tag \in D(d).served]]
               ELSE CoreFails(d)

-----------------------------------------------------------------------------
(* rayito agent delete x_y: runtime, stack, logs.                          *)

Del == core.deleter
inspectDeletion ==
    /\ core.on /\ Del.pc = "idle" /\ core.begun < MaxDeploysMade
    /\ \E name \in {"x_y"} :
          /\ core.runtime.id # 0 => isOwned(core.runtime, name) /\ ~core.runtime.cdk
          /\ core.stack # "missing" => core.stackOwner = name
          /\ core' = [core EXCEPT !.deleter = [pc |-> "runtime", name |-> name, id |-> core.runtime.id,
                                               stack |-> core.stack # "missing"]]
deleteRuntime ==
    /\ core.on /\ Del.pc = "runtime"
    /\ core' = [core EXCEPT !.deleter.pc = "waitGone",
                  !.wronged = @ \/ (Del.id # 0 /\ core.runtime.id = Del.id /\ core.runtime.owner # Del.name),
                  !.runtime.status = IF Del.id # 0 /\ core.runtime.id = Del.id THEN "DELETING" ELSE @]
deleteStack ==
    /\ core.on /\ Del.pc = "waitGone"
    /\ \/ (Del.id = 0 \/ core.runtime.id # Del.id)
          /\ core' = [core EXCEPT !.deleter.pc = "done",
                        !.stack = IF Del.stack /\ @ \in {"usable", "blocked"} THEN "deleting" ELSE @]
       \/ core' = [core EXCEPT !.deleter.pc = "done"]           \* delete_failed

-----------------------------------------------------------------------------
(* AWS.                                                                    *)

stackMoves ==
    /\ core.on
    /\ \/ core.stack \in {"creating", "updating"}
          /\ \E s \in {"usable", "blocked"} : core' = [core EXCEPT !.stack = s]
       \/ core.stack = "deleting" /\ core' = [core EXCEPT !.stack = "missing", !.stackOwner = "", !.images = {}]
runtimeMoves ==
    /\ core.on
    /\ \/ core.runtime.status = "CREATING"
          /\ \E s \in {"READY", "CREATE_FAILED"} : core' = [core EXCEPT !.runtime.status = s]
       \/ core.runtime.status = "UPDATING"
          /\ \E s \in {"READY", "UPDATE_FAILED"} : core' = [core EXCEPT !.runtime.status = s]
       \/ core.runtime.status = "DELETING" /\ core' = [core EXCEPT !.runtime = NoRuntime, !.tokens = {}]

CoreNext == \/ beginWorld \/ inspectDeletion \/ deleteRuntime \/ deleteStack \/ stackMoves \/ runtimeMoves
            \/ \E d \in CoreDeployers :
                  \/ beginDeploy(d) \/ checkRuntime(d) \/ observeStack(d) \/ writeStack(d) \/ settleStack(d)
                  \/ observeImage(d) \/ putSource(d) \/ waitCoreBuild(d)
                  \/ applyRuntime(d) \/ createRuntime(d) \/ updateAfterConflict(d) \/ waitRuntime(d)
                  \/ readBase(d) \/ updateRuntime(d) \/ finishDeploy(d)

-----------------------------------------------------------------------------

\* A deploy that ends well was really applied: the runtime has served its tag since it
\* began, also when an equal request is taken for a retry (clientTokenFor).
DeployWasApplied ==
    \A d \in CoreDeployers : D(d).result = "ok" => D(d).applied

\* A runtime a deploy reports ready demands MMDSv2, however it came about (enforceMmds).
EndsHardened == \A d \in CoreDeployers : D(d).result = "ok" => D(d).hard

\* No deploy and no delete changes the runtime of another agent or of a CDK stack, even
\* when it appears between the look and the write.
OtherRuntimesUntouched == ~core.wronged

\* The uploaded source stays only where its deletion failed, or where the upload
\* itself was reported as failed and had landed (#buildImage).
SourcesDeleted ==
    \A s \in core.sources : s \in core.stuck \/ \E d \in CoreDeployers : D(d).pc = "build" /\ s = sourceKeyFor(d)

-----------------------------------------------------------------------------
(***************************************************************************)
(* What a deploy to AgentCore decides before it touches AWS                *)
(* (agentcore/domain.ts, names.ts, arns.ts, iam-resources.ts,              *)
(* identifiers.ts): the names of an agent, the life of its sessions, its   *)
(* environment, the ARNs of its role, and the session id of a call.        *)
(***************************************************************************)

-----------------------------------------------------------------------------
(* Names: letters in groups joined by - or _.                              *)

NameLetters == {"a", "-", "_"}
MaxNameLength == 5                      \* AGENT_NAME_MAX_LENGTH
RawNames == UNION {[1..n -> NameLetters] : n \in 0..(MaxNameLength + 1)}
Sep(c) == c \in {"-", "_"}
\* AGENT_NAME_PATTERN and the length.
validateAgentName(n) ==
    /\ Len(n) \in 1..MaxNameLength
    /\ \A i \in 1..Len(n) : Sep(n[i]) => i > 1 /\ i < Len(n) /\ ~Sep(n[i - 1]) /\ ~Sep(n[i + 1])
canonicalAgentName(n) == [i \in 1..Len(n) |-> IF n[i] = "_" THEN "-" ELSE n[i]]
stackNameFor(n) == canonicalAgentName(n)
runtimeNameFor(n) == [i \in 1..Len(n) |-> IF canonicalAgentName(n)[i] = "-" THEN "_" ELSE canonicalAgentName(n)[i]]

-----------------------------------------------------------------------------
(* Lifecycle: 0 stands for an option that was not given.                   *)

LifeMin == 2                            \* AGENTCORE_LIFECYCLE_MIN_SECONDS
LifeMax == 8                            \* AGENTCORE_LIFECYCLE_MAX_SECONDS
IdleDefault == 4                        \* AGENTCORE_IDLE_SESSION_TIMEOUT_DEFAULT_SECONDS
InLifecycleRange(s) == s = 0 \/ s \in LifeMin..LifeMax
idleOf(given, max) == IF given # 0 THEN given ELSE IF IdleDefault < max THEN IdleDefault ELSE max
resolveCoreLifecycle(idle, max) ==
    IF ~InLifecycleRange(idle) \/ ~InLifecycleRange(max) THEN [error |-> "lifecycle_invalid", idle |-> 0, max |-> 0]
    ELSE LET m == IF max = 0 THEN LifeMax ELSE max
             i == idleOf(idle, m)
         IN IF i > m THEN [error |-> "lifecycle_order", idle |-> 0, max |-> 0] ELSE [error |-> "", idle |-> i, max |-> m]

-----------------------------------------------------------------------------
(* The environment of the runtime, from four places.                       *)

EnvironmentNames == {"PROJECT", "MODEL_URL", "AWS_REGION", "RAYITO_SECRET_ENV"}
RegionVariables == {"AWS_REGION"}
MaxVariables == 3                       \* AGENTCORE_MAX_ENVIRONMENT_VARIABLES
\* The last one that sets a variable wins; the region of the deploy is set at the end.
runtimeEnvironment(project, model, secret) ==
    LET names == project \cup model \cup secret \cup RegionVariables
    IN [v \in names |-> CASE v \in RegionVariables -> "region"
                          [] v \in secret \ RegionVariables -> "secret"
                          [] v \in (model \ secret) \ RegionVariables -> "model"
                          [] OTHER -> "project"]
envAccepted(env) == Cardinality(DOMAIN env) <= MaxVariables

-----------------------------------------------------------------------------
(* ARNs of the runtime's role.                                             *)

\* A model is named by its id, by an inference profile of a region or the global one,
\* or by an ARN; a secret by its name or an ARN.
ModelReferences ==
    [form : {"id", "profile", "global_profile"}, region : {""}, account : {""}, kind : {""}]
    \cup [form : {"arn"}, region : {"here", "other", "*", ""}, account : {"mine", "other", ""},
          kind : {"foundation", "profile", "secret", "bucket"}]

\* arnsOfModel: what the role may use, as [kind, region, account].
Arn(kind, region, account) == [kind |-> kind, region |-> region, account |-> account]
profileArnIsValid(m) == m.region = "here" /\ m.account = "mine"
modelArnIsValid(m) ==
    CASE m.kind = "foundation" -> m.region \in {"here", "*", ""} /\ m.account = ""
      [] m.kind = "profile" -> profileArnIsValid(m)
      [] OTHER -> FALSE
checkModelReference(m) == m.form = "arn" => modelArnIsValid(m)
arnsOfModel(m) ==
    CASE m.form = "arn" -> {Arn(m.kind, m.region, m.account)}
      [] m.form = "id" -> {Arn("foundation", "here", "")}
      [] m.form = "profile" -> {Arn("profile", "here", "mine"), Arn("foundation", "*", "")}
      [] m.form = "global_profile" ->
            {Arn("profile", "here", "mine"), Arn("foundation", "*", ""), Arn("foundation", "", "")}
bedrockResourceArns(models) ==
    IF \A m \in models : checkModelReference(m) THEN UNION {arnsOfModel(m) : m \in models} ELSE {}

-----------------------------------------------------------------------------
(* The session id of a call: one of the right length and letters is kept,  *)
(* any other is replaced by its hash, which is taken to be injective.      *)

SessionIds == {"", "short", "shorter", "long-enough-1", "long-enough-2", "long enough"}
WellFormedIds == {"long-enough-1", "long-enough-2"}
isKeptSessionId(s) == s \in WellFormedIds
agentcoreSessionId(s) == IF isKeptSessionId(s) THEN <<"kept", s>> ELSE <<"hash", s>>

-----------------------------------------------------------------------------
(* Every input, one at a time.                                             *)

NoWish == [what |-> "none", a |-> <<>>, b |-> <<>>, idle |-> 0, max |-> 0,
           project |-> {}, model |-> {}, secret |-> {}, models |-> {}, s |-> "", t |-> ""]
WishInit == wish = NoWish

chooseNames ==
    /\ wish.what = "none"
    /\ \E a, b \in {n \in RawNames : validateAgentName(n)} :
          wish' = [NoWish EXCEPT !.what = "names", !.a = a, !.b = b]
chooseLifecycle ==
    /\ wish.what = "none"
    /\ \E idle, max \in 0..(LifeMax + 1) : wish' = [NoWish EXCEPT !.what = "life", !.idle = idle, !.max = max]
chooseEnvironment ==
    /\ wish.what = "none"
    /\ \E p \in SUBSET EnvironmentNames, m \in SUBSET {"MODEL_URL", "AWS_REGION"}, s \in SUBSET {"RAYITO_SECRET_ENV"} :
          wish' = [NoWish EXCEPT !.what = "env", !.project = p, !.model = m, !.secret = s]
chooseModels ==
    /\ wish.what = "none"
    /\ \E m, n \in ModelReferences : wish' = [NoWish EXCEPT !.what = "models", !.models = {m, n}]
chooseSessions ==
    /\ wish.what = "none"
    /\ \E s, t \in SessionIds \ {""} : wish' = [NoWish EXCEPT !.what = "sessions", !.s = s, !.t = t]

WishNext == chooseNames \/ chooseLifecycle \/ chooseEnvironment \/ chooseModels \/ chooseSessions

-----------------------------------------------------------------------------

\* Two agents share their runtime exactly when they share their stack, so the owner
\* recorded in one protects the other (canonicalAgentName).
NamesCollideTogether ==
    wish.what = "names" => (stackNameFor(wish.a) = stackNameFor(wish.b) <=> runtimeNameFor(wish.a) = runtimeNameFor(wish.b))

\* A lifetime alone is never refused for the idle time nobody gave, and what is
\* accepted is within the service's range and order (resolveCoreLifecycle).
LifecycleFits ==
    wish.what = "life" =>
        LET r == resolveCoreLifecycle(wish.idle, wish.max)
        IN /\ wish.idle = 0 /\ InLifecycleRange(wish.max) => r.error = ""
           /\ r.error = "" => LifeMin <= r.idle /\ r.idle <= r.max /\ r.max <= LifeMax

\* The runtime calls AWS in the region of the deploy and reads the secrets of this
\* deploy, whatever the project's env says (runtimeEnvironment).
DeployVariablesWin ==
    wish.what = "env" =>
        LET env == runtimeEnvironment(wish.project, wish.model, wish.secret)
        IN envAccepted(env) => /\ \A v \in RegionVariables : env[v] = "region"
                               /\ \A v \in wish.secret : env[v] = "secret"

\* The role of the runtime is given Bedrock models only, and inference profiles only of
\* this account and region (checkModelReference, arnsOfModel).
RoleStaysHome ==
    wish.what = "models" => \A r \in bedrockResourceArns(wish.models) :
        /\ r.kind \in {"foundation", "profile"}
        /\ r.kind = "profile" => r.region = "here" /\ r.account = "mine"
        /\ r.region # "other"

\* Two session ids of the caller are never one session of the runtime.
SessionsApart ==
    wish.what = "sessions" /\ wish.s # wish.t => agentcoreSessionId(wish.s) # agentcoreSessionId(wish.t)

=============================================================================
