------------------------------ MODULE DeployFlow ------------------------------
(***************************************************************************)
(* deployAgent() on microVMs (agent/deploy.ts, aws-resolve.ts,             *)
(* secret-env-deploy.ts, project-service.ts, fleet-recipe*.ts): two        *)
(* deployments of one project over one account, each step of which may     *)
(* fail, and a later connect() that reads the recipe.                      *)
(***************************************************************************)
EXTENDS Integers, FiniteSets

VARIABLE rollout

Deployers == {"d1", "d2"}
MaxFaults == 1                        \* bound on the AWS calls that fail

NoVm == [ver |-> 0, marker |-> "none", host |-> "off", up |-> FALSE]

\* What one deployAgent() call holds; `asks` is the answer of the last exists().
NewDeploy == [at |-> "preflight", asks |-> FALSE, builds |-> FALSE, pinned |-> 0, vm |-> NoVm,
              outcome |-> "none", saved |-> "none", sawReady |-> FALSE, unkilled |-> FALSE]

Usual == [build |-> "auto", bucket |-> TRUE, publisher |-> FALSE, createFromEnv |-> TRUE,
          envFile |-> FALSE, keep |-> FALSE, large |-> FALSE]

RolloutInit ==
    rollout = [on |-> FALSE, opts |-> Usual,
               base |-> TRUE, secret |-> "none", envSecret |-> FALSE, latest |-> 0, recipe |-> 0,
               d |-> [k \in Deployers |-> [NewDeploy EXCEPT !.at = "idle"]],
               faults |-> 0, started |-> {}, both |-> FALSE, connected |-> 0]

\* AgentDeployOptions and the account the deployment finds: the usual call, or one
\* that differs from it in one way.
Variants == {Usual} \cup {[Usual EXCEPT !.build = "no"], [Usual EXCEPT !.bucket = FALSE],
             [Usual EXCEPT !.publisher = TRUE], [Usual EXCEPT !.createFromEnv = FALSE],
             [Usual EXCEPT !.envFile = TRUE], [Usual EXCEPT !.keep = TRUE], [Usual EXCEPT !.large = TRUE]}

chooseDeploy ==
    /\ ~rollout.on
    /\ \E o \in Variants, s \in {"none", "legacy", "own"}, old \in {0, 1}, ba \in BOOLEAN :
          /\ o \in {Usual, [Usual EXCEPT !.publisher = TRUE]} \/ (ba /\ s # "own")
          /\ rollout' = [rollout EXCEPT !.on = TRUE, !.opts = o, !.base = ba, !.secret = s,
                 !.latest = old, !.d = [k \in Deployers |-> NewDeploy]]

Opts == rollout.opts
MayFail == rollout.faults < MaxFaults
InStep(k, s) == rollout.on /\ rollout.d[k].at = s

With(k, r) == [rollout EXCEPT !.d[k] = r]
Moves(k, s) == rollout' = With(k, [rollout.d[k] EXCEPT !.at = s])
FailDeploy(k) == [rollout.d[k] EXCEPT !.at = "over", !.outcome = "failed"]

\* Any AWS call of the steps before the fleet throws: nothing is undone.
callFails(k) ==
    /\ MayFail /\ rollout.on
    /\ rollout.d[k].at \in {"preflight", "secret", "secretSeen", "env", "envSeen", "build"}
    /\ rollout' = [With(k, FailDeploy(k)) EXCEPT !.faults = @ + 1]

-----------------------------------------------------------------------------
(* preflight: bucket, base image, model secrets.                           *)

\* resolveBucket: argument, project file, environment or discovered.
resolveBucket == Opts.bucket

\* Without a bucket the image that exists is reused, unless a build was asked for.
bucketFor(k) ==
    /\ InStep(k, "preflight")
    /\ LET none == ~resolveBucket /\ Opts.build # "no"
           builds == resolveBucket /\ Opts.build # "no"
       IN rollout' = With(k, IF none /\ rollout.latest = 0 THEN FailDeploy(k)
                             ELSE [rollout.d[k] EXCEPT !.builds = builds,
                                       !.at = IF builds THEN "base" ELSE "secret"])

\* ensureBaseImage: exists, or published and looked at again.
ensureBaseImage(k) ==
    /\ InStep(k, "base")
    /\ IF rollout.base THEN Moves(k, "secret")
       ELSE IF ~Opts.publisher THEN rollout' = With(k, FailDeploy(k))
       ELSE rollout' = [With(k, [rollout.d[k] EXCEPT !.at = "secret"]) EXCEPT !.base = TRUE]

\* existingName: the secret under its name, or under the name older versions gave it.
existingName == rollout.secret # "none"

askSecret(k) ==
    /\ InStep(k, "secret")
    /\ rollout' = With(k, [rollout.d[k] EXCEPT !.at = "secretSeen", !.asks = existingName])

\* ensureModelSecrets: created from the environment only where it is missing; a
\* name that exists already makes create fail.
ensureModelSecrets(k) ==
    /\ InStep(k, "secretSeen")
    /\ IF rollout.d[k].asks THEN Moves(k, "env")
       ELSE IF ~Opts.createFromEnv \/ rollout.secret = "own" THEN rollout' = With(k, FailDeploy(k))
       ELSE rollout' = [With(k, [rollout.d[k] EXCEPT !.at = "env"])
                           EXCEPT !.both = rollout.secret = "legacy", !.secret = "own"]

\* publishEnvSecret: exists, then update or create.
askEnvSecret(k) ==
    /\ InStep(k, "env")
    /\ rollout' = With(k, [rollout.d[k] EXCEPT !.asks = rollout.envSecret,
                              !.at = IF Opts.envFile THEN "envSeen" ELSE "build"])
publishEnvFileSecret(k) ==
    /\ InStep(k, "envSeen")
    /\ IF ~rollout.d[k].asks /\ rollout.envSecret THEN rollout' = With(k, FailDeploy(k))
       ELSE rollout' = [With(k, [rollout.d[k] EXCEPT !.at = "build"]) EXCEPT !.envSecret = TRUE]

-----------------------------------------------------------------------------
(* ProjectService.                                                         *)

\* build: the service keeps the version of the image it built.
buildImage(k) ==
    /\ InStep(k, "build")
    /\ IF ~rollout.d[k].builds THEN Moves(k, "create")
       ELSE rollout' = [With(k, [rollout.d[k] EXCEPT !.at = "create", !.pinned = rollout.latest + 1])
                           EXCEPT !.latest = @ + 1]

\* #create: templateVersion is the version built here; without one, the latest.
imageVersion(k) == IF rollout.d[k].pinned # 0 THEN rollout.d[k].pinned ELSE rollout.latest

\* A VM restored from a snapshot of a serving VM carries that host's marker.
createVm(k) ==
    /\ InStep(k, "create")
    /\ \/ /\ MayFail
          /\ rollout' = [With(k, FailDeploy(k)) EXCEPT !.faults = @ + 1]
       \/ \E m \in {"none", "stale"} :
             rollout' = With(k, [rollout.d[k] EXCEPT !.at = "clear",
                           !.vm = [ver |-> imageVersion(k), marker |-> m, host |-> "off", up |-> TRUE]])

\* deploy: a failure to serve kills the VM unless keepOnFailure; #kill discards
\* its own failure, and then the VM goes on.
killUnlessKept(k) ==
    IF Opts.keep THEN {FailDeploy(k)}
    ELSE {[FailDeploy(k) EXCEPT !.vm.up = FALSE], [FailDeploy(k) EXCEPT !.unkilled = TRUE]}

\* serve: the secrets, the files, `rm -f` of both markers, then the host in the
\* background; any of them may throw.
clearMarkers(m) == "none"
startHost(k) ==
    /\ InStep(k, "clear")
    /\ \/ rollout' = With(k, [rollout.d[k] EXCEPT !.at = "wait", !.vm.host = "starting",
                                 !.vm.marker = clearMarkers(@)])
       \/ /\ MayFail
          /\ \E d \in killUnlessKept(k) : rollout' = [With(k, d) EXCEPT !.faults = @ + 1]

\* The host in the VM: it writes its ready marker, or the .failed one.
hostReports(k) ==
    /\ rollout.on /\ rollout.d[k].vm.host = "starting"
    /\ \/ rollout' = With(k, [rollout.d[k] EXCEPT !.vm.host = "up", !.vm.marker = "ready"])
       \/ /\ MayFail
          /\ rollout' = [With(k, [rollout.d[k] EXCEPT !.vm.host = "dead", !.vm.marker = "failed"])
                            EXCEPT !.faults = @ + 1]

\* #waitReady: the ready marker, the failed one, the deadline.
waitReady(k) ==
    /\ InStep(k, "wait")
    /\ \/ /\ rollout.d[k].vm.marker \in {"ready", "stale"}
          /\ rollout' = [With(k, [rollout.d[k] EXCEPT !.at = "recipe", !.sawReady = TRUE])
                            EXCEPT !.started = @ \cup {rollout.d[k].vm.ver}]
       \/ /\ rollout.d[k].vm.marker = "failed"
          /\ \E d \in killUnlessKept(k) : rollout' = With(k, d)
       \/ /\ rollout.d[k].vm.marker = "none" /\ MayFail         \* the deadline
          /\ \E d \in killUnlessKept(k) : rollout' = [With(k, d) EXCEPT !.faults = @ + 1]

-----------------------------------------------------------------------------
(* The recipe in Parameter Store.                                          *)

FinishDeploy(k, how) == [rollout.d[k] EXCEPT !.at = "over", !.outcome = "done", !.saved = how]

\* The document names the version the service runs; encodeRecipe gives up on one
\* that does not fit even compressed.
recipeOf(k) == rollout.d[k].vm.ver
encodes == ~Opts.large
putParameter(r, v) == [r EXCEPT !.recipe = v]

\* storeRecipe: one that does not fit deletes the old one.
storeTooLarge(k) ==
    \/ rollout' = putParameter(With(k, FinishDeploy(k, "too_large")), 0)
    \/ /\ MayFail
       /\ rollout' = [With(k, FinishDeploy(k, "too_large")) EXCEPT !.faults = @ + 1]

\* A refused write (translateRecipeError) is a warning and leaves the old recipe.
writeRefused(k) ==
    /\ MayFail
    /\ rollout' = [With(k, FinishDeploy(k, "not_saved")) EXCEPT !.faults = @ + 1]

storeRecipe(k) ==
    /\ InStep(k, "recipe")
    /\ IF ~encodes THEN storeTooLarge(k)
       ELSE \/ rollout' = putParameter(With(k, FinishDeploy(k, "saved")), recipeOf(k))
            \/ writeRefused(k)

\* connect(): loadRecipe pins the version the recipe names (adoptImageVersion).
loadRecipe ==
    /\ rollout.on /\ rollout.recipe # 0 /\ rollout.connected = 0
    /\ rollout' = [rollout EXCEPT !.connected = rollout.recipe]

RolloutNext ==
    \/ chooseDeploy \/ loadRecipe
    \/ \E k \in Deployers :
          \/ callFails(k) \/ bucketFor(k) \/ ensureBaseImage(k) \/ askSecret(k) \/ ensureModelSecrets(k)
          \/ askEnvSecret(k) \/ publishEnvFileSecret(k) \/ buildImage(k) \/ createVm(k)
          \/ startHost(k) \/ hostReports(k) \/ waitReady(k) \/ storeRecipe(k)

-----------------------------------------------------------------------------
(* Properties.                                                             *)

\* A deployment that built an image serves that image, even when another
\* deployment published a newer version before its VM was created.
FleetOnBuiltImage ==
    \A k \in Deployers : LET d == rollout.d[k] IN
        d.builds /\ d.outcome = "done" => d.vm.ver = d.pinned

\* deploy() reports a ready agent only when the host it started is up: a marker of
\* an earlier host of the same snapshot never passes for it.
ReadyOfThisHost == \A k \in Deployers : rollout.d[k].sawReady => rollout.d[k].vm.host = "up"

\* A deployment that failed, wherever it failed, leaves no VM running that it did not
\* try to kill, unless keepOnFailure asked for it (a kill that fails is discarded).
FailedLeavesNoVm ==
    \A k \in Deployers : rollout.d[k].outcome = "failed" /\ ~Opts.keep =>
        ~rollout.d[k].vm.up \/ rollout.d[k].unkilled

\* A project deployed by an older version keeps the secret it has: no second secret
\* of the same gateway appears beside it.
OneSecretPerGateway == ~rollout.both

\* A recipe names a version of which some deployment had a ready agent: connect()
\* never pins an image that nobody saw serving.
RecipeOfReadyFleet == rollout.recipe # 0 => rollout.recipe \in rollout.started
=============================================================================
