-------------------------- MODULE TemplateAssembly --------------------------
(***************************************************************************)
(* The image of an agent (agent/template.ts, install-plan.ts, recipes.ts,  *)
(* runtime.ts, export.ts and installSteps of every runtime): the steps that *)
(* install the runtimes, the files of the build context, what the manifest *)
(* says of the image, and the two ways of building it: the template of a    *)
(* microVM (AgentTemplate.build) and a Docker context (exportProject).      *)
(* A step is run by the image builder (external) and fails when something  *)
(* it uses is not there yet.                                               *)
(***************************************************************************)
EXTENDS Integers, Sequences, FiniteSets, SequencesExt, TLC

VARIABLES asm, kit

None == "none"
AsmInit == asm = [phase |-> "none"]

-----------------------------------------------------------------------------
(* Steps.                                                                  *)

runStep(needs, gives) == <<[op |-> "run", needs |-> needs, gives |-> gives, exec |-> FALSE]>>
copyStep(src, dst, exec) == <<[op |-> "copy", needs |-> {src}, gives |-> {dst}, exec |-> exec]>>
Bin(n) == <<"bin", n>>
File(n) == <<"file", n>>
Venv(n) == <<"venv", n>>
InContext(n) == <<"context", n>>
InApp(n) == <<"app", n>>
containerPackagesStep(platform, packages) ==
    IF platform # "container" THEN <<>> ELSE runStep({}, {Bin(p) : p \in packages})
DefaultPython == "3.12"
DefaultNode == "22"
usesImagePython(ver) == ver \in {None, DefaultPython}
pythonInterpreter(ver) == IF usesImagePython(ver) THEN Bin("python3") ELSE <<"python", ver>>
pythonDownloadCommand(ver) == runStep({Bin("curl")}, {<<"python", ver>>})
pythonRuntimeSteps(platform, ver) ==
    IF usesImagePython(ver) THEN <<>> ELSE containerPackagesStep(platform, {"curl"}) \o pythonDownloadCommand(ver)
uvSteps(platform) == containerPackagesStep(platform, {"curl"}) \o runStep({Bin("curl")}, {Bin("uv")})
nodeRuntimeSteps(platform, ver) ==
    containerPackagesStep(platform, {"curl"})
    \o runStep({Bin("curl")}, {<<"node", IF ver = None THEN DefaultNode ELSE ver>>, Bin("node")})
nodePackageFiles(m) == <<"package.json", IF m = "npm" THEN "package-lock.json" ELSE "pnpm-lock.yaml">>
nodeDependencySteps(m) ==
    copyStep(InApp("package.json"), File("package.json"), FALSE) \o copyStep(InApp(nodePackageFiles(m)[2]), File(nodePackageFiles(m)[2]), FALSE)
    \o runStep({Bin("node"), File("package.json"), File(nodePackageFiles(m)[2])}, {File("node_modules")})
hashedVenvInstall(python, venv, req) == runStep({python, req}, {venv})
userRequirementsSteps(venv, req, slug) ==
    copyStep(InApp(req), <<slug, "user">>, FALSE) \o runStep({venv, <<slug, "user">>}, {<<slug, "deps">>})
checkPythonInputs(manager, req) == manager = "uv" \/ req \notin {"pyproject.toml", "uv.lock"}
\* slug names the venv; a venv that is already there is not made again (createVenv).
pythonDependencySteps(platform, r, python, slug, createVenv) ==
    IF r.manager # "uv"
    THEN (IF createVenv THEN runStep({python}, {Venv(slug)}) ELSE <<>>) \o userRequirementsSteps(Venv(slug), r.req, slug)
    ELSE uvSteps(platform) \o (IF createVenv THEN runStep({Bin("uv"), python}, {Venv(slug)}) ELSE <<>>)
         \o (IF r.req = "uv.lock"
             THEN copyStep(InApp("pyproject.toml"), <<slug, "project">>, FALSE) \o copyStep(InApp("uv.lock"), <<slug, "lock">>, FALSE)
                  \o runStep({Bin("uv"), python, <<slug, "project">>, <<slug, "lock">>}, {Venv(slug), <<slug, "deps">>})
             ELSE copyStep(InApp(r.req), <<slug, "req">>, FALSE)
                  \o runStep({Bin("uv"), Venv(slug), <<slug, "req">>}, {<<slug, "deps">>}))

-----------------------------------------------------------------------------
(* The runtimes: what they install, bring along, promise and need.         *)

JsManagers == {"npm", "pnpm"}
isNode(r) == r.kind = "strands-ts" \/ (r.kind = "custom" /\ r.manager \in JsManagers)
bridged(r) == isNode(r) /\ r.entry
\* `python`, the user's own interpreter: no step installs it but one of `install`.
OwnPython == Bin("own-python")
customPython(r) == IF r.python # None THEN OwnPython ELSE pythonInterpreter(r.pyver)
customSteps(platform, r) ==
    IF isNode(r)
    THEN nodeRuntimeSteps(platform, r.nodever) \o nodeDependencySteps(r.manager)
         \o (IF bridged(r) THEN copyStep(InContext("node_bridge.mjs"), File("bridge"), FALSE) ELSE <<>>)
    ELSE (IF r.python = "installed" THEN runStep({}, {OwnPython}) ELSE <<>>) \o pythonRuntimeSteps(platform, r.pyver)
         \o (IF r.req = None THEN <<>> ELSE pythonDependencySteps(platform, r, customPython(r), "custom", TRUE))
strandsSteps(platform, r) ==
    copyStep(InContext(r.kind), File(r.kind), FALSE) \o hashedVenvInstall(Bin("python3"), Venv(r.kind), File(r.kind))
    \o (IF r.req = None THEN <<>> ELSE pythonDependencySteps(platform, r, Venv(r.kind), r.kind, FALSE))
typescriptSteps(platform, r) ==
    nodeRuntimeSteps(platform, r.nodever) \o nodeDependencySteps(r.manager) \o copyStep(InContext("node_bridge.mjs"), File("bridge"), FALSE)
deepagentsSteps(platform, r) ==
    copyStep(InContext("deepagents"), File("deepagents"), FALSE) \o hashedVenvInstall(Bin("python3"), Venv("deepagents"), File("deepagents"))
    \o (IF r.req = None THEN <<>> ELSE pythonDependencySteps(platform, r, Venv("deepagents"), "deepagents", FALSE))
    \o copyStep(InContext("runner"), File("runner"), TRUE)
hermesSteps(platform, r) ==
    containerPackagesStep(platform, {"curl", "git"}) \o pythonDownloadCommand("hermes")
    \o copyStep(InContext("hermes"), File("hermes"), FALSE) \o hashedVenvInstall(<<"python", "hermes">>, Venv("hermes"), File("hermes"))
    \o runStep({Bin("git")}, {File("hermes-src")})
opencodeSteps(platform, r) == containerPackagesStep(platform, {"curl"}) \o runStep({Bin("curl")}, {Bin("opencode"), Bin("rg")})
installSteps(platform, r) ==
    CASE r.kind = "custom" -> customSteps(platform, r) [] r.kind = "strands-ts" -> typescriptSteps(platform, r)
      [] r.kind \in {"strands", "strands-harness"} -> strandsSteps(platform, r) [] r.kind = "deepagents" -> deepagentsSteps(platform, r)
      [] r.kind = "hermes" -> hermesSteps(platform, r) [] OTHER -> opencodeSteps(platform, r)
strandsContext(r) == IF isNode(r) THEN {"node_bridge.mjs"} ELSE {r.kind}
runtimeContext(r) ==
    CASE r.kind = "custom" -> (IF bridged(r) THEN {"node_bridge.mjs"} ELSE {})
      [] r.kind \in {"strands", "strands-harness", "strands-ts"} -> strandsContext(r)
      [] r.kind = "deepagents" -> {"deepagents", "runner"} [] r.kind = "hermes" -> {"hermes"} [] OTHER -> {}
Bug_oneVenv(r) == IF r.kind = "strands-harness" THEN Venv("strands") ELSE IF r.kind = "custom" /\ r.req # None THEN Venv("custom") ELSE Bin("python3")
hostPythonOf(r) ==
    IF r.kind = "custom" THEN (IF r.req # None THEN Venv("custom") ELSE customPython(r))
    ELSE IF r.kind \in {"strands-ts", "opencode"} THEN Bin("python3") ELSE Venv(r.kind)
smokeChecks(r) ==
    IF isNode(r) THEN {Bin("node")} \cup (IF r.kind = "strands-ts" THEN {File("node_modules"), File("bridge")} ELSE {})
    ELSE CASE r.kind = "custom" -> (IF r.pyver # None THEN {pythonInterpreter(r.pyver)} ELSE {}) [] r.kind = "opencode" -> {Bin("opencode"), Bin("rg")}
           [] r.kind = "deepagents" -> {Venv("deepagents"), File("runner")} [] r.kind = "hermes" -> {Venv("hermes"), File("hermes-src")} [] OTHER -> {Venv(r.kind)}
prefetchPaths(r) == CASE r.kind = "opencode" -> {Bin("opencode"), Bin("rg")} [] r.kind = "strands-ts" -> {Bin("node")} [] OTHER -> {}
manifestEntry(r) ==
    IF isNode(r) THEN {<<"node", IF r.nodever = None THEN DefaultNode ELSE r.nodever>>}
    ELSE IF r.kind = "custom" /\ r.pyver # None THEN {pythonInterpreter(r.pyver)}
    ELSE IF r.kind = "hermes" THEN {<<"python", "hermes">>} ELSE {}
\* What a run of the driver starts besides its Python.
driverFiles(r) == IF bridged(r) THEN {Bin("node"), File("bridge")} ELSE IF r.kind = "deepagents" THEN {File("runner")} ELSE {}

Python(kind, req, manager, pyver) == [kind |-> kind, req |-> req, manager |-> manager, pyver |-> pyver, nodever |-> None, entry |-> TRUE, python |-> None]
Manifests == {None, "reqs.txt", "pyproject.toml", "uv.lock"}
UserReqs == {x \in Manifests \X {None, "uv"} : (x[1] = None => x[2] = None) /\ checkPythonInputs(x[2], x[1])}
Runtimes ==
    {Python("custom", x[1], x[2], v) : x \in UserReqs, v \in {None, DefaultPython, "3.14"}}
    \cup {[Python("custom", x[1], x[2], None) EXCEPT !.python = p] : x \in UserReqs, p \in {"installed", "elsewhere"}}
    \cup {Python(k, x[1], x[2], None) : k \in {"strands", "strands-harness", "deepagents"}, x \in UserReqs}
    \cup {[Python(k, None, m, None) EXCEPT !.nodever = v, !.entry = e] :
              k \in {"custom", "strands-ts"}, m \in JsManagers, v \in {None, "24"}, e \in BOOLEAN} \cup {Python("hermes", None, None, None), Python("opencode", None, None, None)}
RuntimesOk == {r \in Runtimes : r.kind = "strands-ts" => r.entry}

-----------------------------------------------------------------------------
(* AgentTemplate.                                                          *)

ManifestOf(rs) == UNION {manifestEntry(r) : r \in ToSet(rs)}
BaseImage(platform) == IF platform = "container" THEN {Bin("python3")} ELSE {Bin("python3"), Bin("curl"), Bin("git")}
AppFiles == {"reqs.txt", "pyproject.toml", "uv.lock", "package.json", "package-lock.json", "pnpm-lock.yaml"}
contextFilesOf(rs, prefetch) ==
    {"manifest", "agent_host"} \cup UNION {runtimeContext(r) : r \in ToSet(rs)} \cup (IF prefetch THEN {"prefetch"} ELSE {})
AllSteps(platform, rs) == FlattenSeq([i \in DOMAIN rs |-> installSteps(platform, rs[i])])
SetPermissions(exec) == <<[op |-> "permissions", needs |-> exec, gives |-> {}, exec |-> FALSE]>>
Executables(steps) == UNION {s.gives : s \in {x \in ToSet(steps) : x.exec}}
Smoke(rs) == runStep(UNION {smokeChecks(r) : r \in ToSet(rs)}, {})
toTemplate(t) ==
    LET steps == AllSteps("microvm", t.runtimes) \o copyStep(InContext("manifest"), File("manifest"), FALSE)
                 \o (IF t.prefetch THEN copyStep(InContext("prefetch"), File("prefetch"), TRUE) ELSE <<>>)
                 \o copyStep(InContext("agent_host"), File("host"), FALSE) \o (IF t.app THEN copyStep(InContext("app"), File("app"), FALSE) ELSE <<>>)
    IN steps \o SetPermissions(Executables(steps)) \o Smoke(t.runtimes)
started(kind, t, steps, context) ==
    [phase |-> "context", kind |-> kind, t |-> t, steps |-> steps, context |-> context, why |-> "",
     image |-> BaseImage(IF kind = "template" THEN "microvm" ELSE "container"), secured |-> {}, late |-> {}]
startTemplate ==
    asm.phase = "none" /\ \E rs \in {<<r>> : r \in RuntimesOk} \cup {<<Python("deepagents", None, None, None), r>> : r \in RuntimesOk}, app, prefetch \in BOOLEAN :
        /\ \A i, j \in DOMAIN rs : i # j => rs[i].kind # rs[j].kind
        /\ LET t == [runtimes |-> rs, app |-> app, prefetch |-> prefetch]
           IN asm' = started("template", t, toTemplate(t),
                              {InContext(n) : n \in contextFilesOf(rs, prefetch)} \cup (IF app THEN {InApp(n) : n \in AppFiles} \cup {InContext("app")} ELSE {}))

-----------------------------------------------------------------------------
(* exportProject.                                                          *)

usesEnvCredentials(t) == t.runtimes[1].kind = "custom" /\ bridged(t.runtimes[1]) /\ t.vercel
usesCredentialProcess(t) == t.runtimes[1].kind = "opencode"
credentialProcess(t) == t.target = "agentcore" /\ usesCredentialProcess(t)
needsAwsEnvCredentials(t) == t.target = "agentcore" /\ usesEnvCredentials(t)
secretEnvTarget(t) == t.target = "agentcore" /\ t.secrets
credentialContext(t) ==
    (IF needsAwsEnvCredentials(t) \/ credentialProcess(t) \/ secretEnvTarget(t) THEN {"aws.txt"} ELSE {})
    \cup (IF needsAwsEnvCredentials(t) \/ credentialProcess(t) THEN {"aws_env.py"} ELSE {})
    \cup (IF secretEnvTarget(t) THEN {"secret_env.py"} ELSE {}) \cup (IF credentialProcess(t) THEN {"aws-config"} ELSE {})
awsCredentialSteps(t) ==
    LET credentials == needsAwsEnvCredentials(t) \/ credentialProcess(t)
    IN IF ~(credentials \/ secretEnvTarget(t)) THEN <<>>
       ELSE copyStep(InContext("aws.txt"), File("aws.txt"), FALSE) \o hashedVenvInstall(Bin("python3"), Venv("aws"), File("aws.txt"))
            \o (IF credentials THEN copyStep(InContext("aws_env.py"), File("aws_env.py"), FALSE) ELSE <<>>)
            \o (IF secretEnvTarget(t) THEN copyStep(InContext("secret_env.py"), File("secret_env.py"), FALSE) ELSE <<>>)
dockerfile(t) ==
    LET steps == AllSteps("container", t.runtimes) \o awsCredentialSteps(t)
                 \o (IF credentialProcess(t) THEN copyStep(InContext("aws-config"), File("aws-config"), FALSE) ELSE <<>>)
                 \o copyStep(InContext("agent_host"), File("host"), FALSE) \o copyStep(InContext("host.json"), File("host.json"), FALSE)
                 \o (IF t.app THEN copyStep(InContext("app"), File("app"), FALSE) ELSE <<>>)
    IN steps \o SetPermissions(Executables(steps)) \o <<[op |-> "copy", needs |-> {InContext("config")}, gives |-> {<<"home", "config">>}, exec |-> FALSE]>>
\* What host.json and the environment name: hostConfigBytes, awsProfileEnvs.
hostNames(t) ==
    (IF needsAwsEnvCredentials(t) THEN {Venv("aws"), File("aws_env.py")} ELSE {}) \cup (IF secretEnvTarget(t) THEN {Venv("aws"), File("secret_env.py")} ELSE {})
    \cup (IF credentialProcess(t) THEN {File("aws-config"), Venv("aws"), File("aws_env.py")} ELSE {})
renderExport(t) ==
    {InContext(n) : n \in {"agent_host", "host.json", "config"} \cup runtimeContext(t.runtimes[1]) \cup credentialContext(t)}
    \cup (IF t.app THEN {InApp(n) : n \in AppFiles} \cup {InContext("app")} ELSE {})
\* What is refused before anything is written: AgentCore cannot serve a raw app, a
\* secret cannot have the name of a variable of the runtime, the directory is in use.
isRawApp(t) == t.app /\ t.odd = "raw"
checkRuntimeCollisions(t) == t.odd = "collision"
exportRefused(t, busy) ==
    (t.target = "agentcore" /\ isRawApp(t)) \/ (secretEnvTarget(t) /\ checkRuntimeCollisions(t)) \/ busy
exportProject ==
    asm.phase = "none" /\ \E r \in RuntimesOk, app, secrets, vercel, busy \in BOOLEAN, target \in {"docker", "agentcore"}, odd \in {"", "raw", "collision"} :
        LET t == [runtimes |-> <<r>>, app |-> app, target |-> target, secrets |-> secrets, vercel |-> vercel, prefetch |-> FALSE, odd |-> odd]
        IN /\ (r.req # None \/ isNode(r) => app) /\ (odd = "raw" => r.kind = "custom" /\ ~bridged(r)) /\ (odd = "collision" => secrets)
           /\ asm' = IF exportRefused(t, busy) THEN [phase |-> "refused"] ELSE started("export", t, dockerfile(t), renderExport(t))

-----------------------------------------------------------------------------
(* The build: the context is written, then the steps run one by one.       *)

BuildOver(p, why) == [p EXCEPT !.phase = "over", !.why = why]
writeContext ==
    /\ asm.phase = "context"
    /\ \/ asm' = [asm EXCEPT !.phase = "steps"]
       \/ asm' = BuildOver(asm, "disk")
InInstallDir(s) == \E f \in s.gives : f[1] # "home"
applyStep ==
    /\ asm.phase = "steps" /\ asm.steps # <<>>
    /\ LET s == Head(asm.steps)
           given == IF s.op = "copy" THEN asm.context ELSE asm.image
           missing == s.needs \ given
           versions == {x \in asm.image : x[1] = "node" /\ \E y \in s.gives : y[1] = "node"}
       IN asm' = IF missing # {} THEN BuildOver(asm, IF \E x \in missing : x[1] = "app" \/ x = OwnPython THEN "user" ELSE "missing")
                  ELSE [asm EXCEPT !.steps = Tail(@), !.image = (@ \ versions) \cup s.gives,
                                    !.secured = IF s.op = "permissions" THEN asm.image ELSE @,
                                    !.late = IF s.op = "copy" /\ asm.secured # {} /\ InInstallDir(s) THEN @ \cup s.gives ELSE @]
\* The builder itself may fail: a download, a quota, a cancelled build.
builderFails == asm.phase = "steps" /\ asm.steps # <<>> /\ asm' = BuildOver(asm, "builder")
imageReady == asm.phase = "steps" /\ asm.steps = <<>> /\ asm' = BuildOver(asm, "")

AsmNext == startTemplate \/ exportProject \/ writeContext \/ applyStep \/ builderFails \/ imageReady

-----------------------------------------------------------------------------

Built == asm.phase = "over" /\ asm.why = ""

\* Every step finds what it uses: the interpreters, tools and venvs of earlier steps
\* and the files of the context.  The only things that can be missing are those the user
\* brings: a file of the application, or the interpreter that `python` names
\* (installSteps, contextFiles, toTemplate, dockerfile).
StepsFindInputs == asm.phase = "over" => asm.why # "missing"

\* An image that was built starts its agents: the Python of the host, the files of its
\* driver and the paths to prefetch are in it (hostPython, prefetchPaths).  Only an
\* interpreter that the user names and does not install may be absent.
HostStarts ==
    Built => \A r \in ToSet(asm.t.runtimes) :
                 ({hostPythonOf(r)} \ (IF r.python = "elsewhere" THEN {OwnPython} ELSE {})) \cup driverFiles(r) \cup (IF asm.t.prefetch THEN prefetchPaths(r) ELSE {}) \subseteq asm.image

\* Whatever is installed is root's and read-only before the agent can run: nothing
\* is copied into the installation after the step that sets its permissions.
InstallSecured == asm.phase \in {"steps", "over"} => asm.late = {}

\* The manifest names the versions that are in the image, for a template with one
\* runtime of Node (manifestEntry).
ManifestTells ==
    Built /\ Cardinality({i \in DOMAIN asm.t.runtimes : isNode(asm.t.runtimes[i])}) <= 1 =>
        ManifestOf(asm.t.runtimes) \subseteq asm.image

\* What host.json and the environment of an exported agent name is in its image, and
\* an export to Docker names nothing of the credentials of AgentCore.
CredentialsShipped ==
    Built /\ asm.kind = "export" =>
        /\ hostNames(asm.t) \subseteq asm.image
        /\ asm.t.target = "docker" => hostNames(asm.t) = {} /\ Venv("aws") \notin asm.image

-----------------------------------------------------------------------------
(***************************************************************************)
(* The runtimes of an agent (agent/custom.ts, strands.ts, deepagents.ts,   *)
(* hermes.ts, opencode.ts, host-runtime.ts, runtimes.ts): which options     *)
(* are accepted, how a runtime is written to the project file and read     *)
(* back, how it is wired to its model and its tools, and how the lines of  *)
(* an OpenCode run are read.  A state is one input with what is made of it. *)
(***************************************************************************)

Unset == "unset"
KitInit == kit = [about |-> "none"]
RejectIf(c, code) == IF c THEN code ELSE ""
FirstReason(codes) == Head(SelectSeq(codes, LAMBDA c : c # "") \o <<"">>)
Kept(r, keys) == [k \in {x \in keys : r[x] # Unset} |-> r[k]]
ReadKey(t, k, default) == IF k \in DOMAIN t THEN t[k] ELSE default

-----------------------------------------------------------------------------
(* Package managers, versions and entry points.                            *)

PythonInstallers == {"pip", "uv"}
NodeManagers == {"npm", "pnpm"}
ecosystem(m) == IF m = Unset THEN Unset ELSE IF m \in PythonInstallers THEN "python" ELSE "node"
pythonManifest(req) == CASE req = "uv.lock" -> "uv-lock" [] req = "pyproject.toml" -> "pyproject" [] OTHER -> "requirements"
checkRequirementsPath(req, m) ==
    FirstReason(<<RejectIf(req = "../reqs.txt", "path"), RejectIf(pythonManifest(req) # "requirements" /\ m # "uv", "needs_uv")>>)
Entrypoints == {Unset, "pkg.mod:fn", "src/agent.ts", "../agent.ts"}
entryForm(e, kind) == IF kind = "node" THEN e \in {"src/agent.ts"} ELSE e = "pkg.mod:fn"

-----------------------------------------------------------------------------
(* CustomRuntime.                                                          *)

toolchain(o) ==
    LET kind == ecosystem(o.manager)
    IN FirstReason(<<RejectIf(o.pyver # Unset /\ kind = "node", "pyver_node"), RejectIf(o.pyver # Unset /\ o.python # Unset, "python_twice"),
                     RejectIf(o.pyver = "2.7", "version"), RejectIf(o.nodever # Unset /\ kind # "node", "nodever")>>)
checkCustomEntrypoint(o) == RejectIf(o.entrypoint # Unset /\ ~entryForm(o.entrypoint, ecosystem(o.manager)), "entrypoint")
checkCustomRequirements(o) ==
    IF o.requirements = Unset THEN "" ELSE IF ecosystem(o.manager) = "node" THEN "requirements_node"
    ELSE checkRequirementsPath(o.requirements, o.manager)
checkAdapter(o) == RejectIf(o.adapter # Unset /\ (ecosystem(o.manager) # "node" \/ o.entrypoint = Unset), "adapter")
Targets(o) == {k \in {"command", "entrypoint", "app"} : o[k] # Unset}
customRefusal(o) ==
    FirstReason(<<RejectIf(Cardinality(Targets(o)) # 1, "one_target"),
                  RejectIf(o.protocol # "rayito-v1" /\ o.command = Unset, "protocol"),
                  toolchain(o), checkCustomEntrypoint(o), checkCustomRequirements(o), checkAdapter(o)>>)
bridgedRuntime(r) == ecosystem(r.manager) = "node" /\ r.entrypoint # Unset
CustomRuntime(o) == [o EXCEPT !.adapter = IF @ = Unset /\ bridgedRuntime(o) THEN "callable" ELSE @]
CustomKeys == {"command", "entrypoint", "app", "python", "manager", "pyver", "nodever", "requirements"}
customToOptions(r) ==
    Kept(r, CustomKeys) @@ (IF r.protocol # "rayito-v1" THEN "protocol" :> r.protocol ELSE <<>>)
    @@ (IF r.adapter \notin {Unset, "callable"} THEN "adapter" :> r.adapter ELSE <<>>)
customFromOptions(t) ==
    CustomRuntime([k \in CustomKeys \cup {"protocol", "adapter"} |-> ReadKey(t, k, IF k = "protocol" THEN "rayito-v1" ELSE Unset)])
chooseCustom ==
    kit.about = "none" /\ \E o \in [command : {Unset, "run"}, entrypoint : Entrypoints, app : {Unset, "app"}, protocol : {"rayito-v1", "text"},
              python : {Unset, "py"}, manager : {Unset, "uv", "npm"}, pyver : {Unset, "3.14"}, nodever : {Unset, "22"},
              adapter : {Unset, "callable", "vercel-ai"}, requirements : {Unset, "reqs.txt", "uv.lock"}] :
        /\ LET no == customRefusal(o)
               r == CustomRuntime(o)
           IN kit' = IF no # "" THEN [about |-> "refused", why |-> no]
                     ELSE [about |-> "runtime", kind |-> "custom", runtime |-> r, again |-> customFromOptions(customToOptions(r))]

-----------------------------------------------------------------------------
(* HttpApp, the app of a custom runtime.                                   *)

PortRange == 1..2                       \* PORT_MIN..PORT_MAX
Protocols == {"agentcore", "json", "openai-chat", "raw", "langgraph-api"}
checkLanggraphFields(a) ==
    IF a.protocol # "langgraph-api" THEN RejectIf(a.assistant # Unset, "assistant")
    ELSE FirstReason(<<RejectIf(a.assistant = Unset, "no_assistant"), RejectIf(a.invoke # "/invocations", "invoke")>>)
HttpApp(a) ==
    FirstReason(<<RejectIf(a.port \notin PortRange, "port"), RejectIf("bad" \in {a.health, a.invoke}, "path"),
                  RejectIf(a.request # Unset /\ a.protocol # "json", "request"),
                  RejectIf(a.response # Unset /\ a.protocol \notin {"json", "langgraph-api"}, "response"), checkLanggraphFields(a)>>)
toMapping(a) ==
    ("port" :> a.port) @@ (IF a.health # "/ping" THEN "health" :> a.health ELSE <<>>)
    @@ (IF a.invoke # "/invocations" THEN "invoke" :> a.invoke ELSE <<>>)
    @@ (IF a.protocol # "agentcore" THEN "protocol" :> a.protocol ELSE <<>>) @@ Kept(a, {"request", "response", "assistant"})
fromMapping(t) ==
    [port |-> ReadKey(t, "port", 0), health |-> ReadKey(t, "health", "/ping"), invoke |-> ReadKey(t, "invoke", "/invocations"),
     protocol |-> ReadKey(t, "protocol", "agentcore"), request |-> ReadKey(t, "request", Unset), response |-> ReadKey(t, "response", Unset),
     assistant |-> ReadKey(t, "assistant", Unset)]
servedHealthPath(a) == IF a.protocol = "langgraph-api" /\ a.health = "/ping" THEN "/ok" ELSE a.health
servedInvokePath(a) == IF a.protocol = "langgraph-api" THEN "/runs/stream" ELSE a.invoke
hidesOwnRoutes(a) ==
    /\ a.protocol \notin {"raw", "json"}
    /\ a.health \notin (IF a.protocol = "langgraph-api" THEN {"/ping", "/ok"} ELSE {"/ping"}) \/ a.invoke # "/invocations"
chooseApp ==
    kit.about = "none" /\ \E a \in [port : 0..3, health : {"/ping", "/ok", "/h", "bad"}, invoke : {"/invocations", "/i"}, protocol : Protocols,
              request : {Unset, "f"}, response : {Unset, "f"}, assistant : {Unset, "g"}] :
        /\ kit' = IF HttpApp(a) # "" THEN [about |-> "refused", why |-> HttpApp(a)]
                  ELSE [about |-> "app", app |-> a, again |-> fromMapping(toMapping(a)),
                        served |-> <<servedHealthPath(a), servedInvokePath(a)>>, hides |-> hidesOwnRoutes(a)]

-----------------------------------------------------------------------------
(* StrandsRuntime, DeepAgents and HermesRuntime.                           *)

checkStrandsRequirements(o) ==
    IF o.language = "typescript" THEN RejectIf(o.requirements # Unset, "requirements")
    ELSE FirstReason(<<RejectIf(o.manager \notin PythonInstallers \cup {Unset}, "manager"),
                       IF o.requirements = Unset THEN RejectIf(o.manager # Unset, "manager_alone") ELSE checkRequirementsPath(o.requirements, o.manager)>>)
checkNodeOptions(o) ==
    IF o.language # "typescript" THEN RejectIf(o.nodever # Unset, "nodever") ELSE RejectIf(o.manager \notin NodeManagers \cup {Unset}, "manager")
checkStrandsEntrypoint(o) ==
    IF o.language = "typescript" THEN RejectIf(o.entrypoint # "src/agent.ts", "entrypoint")
    ELSE RejectIf(o.entrypoint \notin {Unset, "pkg.mod:fn"}, "entrypoint")
StrandsRuntime(o) ==
    FirstReason(<<RejectIf(o.language = "typescript" /\ o.harness, "harness"), checkStrandsEntrypoint(o), checkStrandsRequirements(o), checkNodeOptions(o)>>)
StrandsKeys == {"entrypoint", "requirements", "manager", "nodever"}
strandsToOptions(r) ==
    ("kind" :> (IF r.harness THEN "strands-harness" ELSE "strands")) @@ Kept(r, StrandsKeys)
    @@ (IF r.language # "python" THEN "language" :> r.language ELSE <<>>)
strandsFromOptions(t) ==
    [harness |-> t["kind"] = "strands-harness", language |-> ReadKey(t, "language", "python"), entrypoint |-> ReadKey(t, "entrypoint", Unset),
     requirements |-> ReadKey(t, "requirements", Unset), manager |-> ReadKey(t, "manager", Unset), nodever |-> ReadKey(t, "nodever", Unset)]
checkUserRequirements(o) ==
    IF o.requirements = Unset /\ o.manager = Unset THEN ""
    ELSE FirstReason(<<RejectIf(o.entrypoint = Unset, "no_entrypoint"), RejectIf(o.manager \notin PythonInstallers \cup {Unset}, "manager"),
                       RejectIf(o.requirements = Unset, "manager_alone"), checkRequirementsPath(o.requirements, o.manager)>>)
DeepAgents(o) == FirstReason(<<RejectIf(o.entrypoint \notin {Unset, "pkg.mod:fn"}, "entrypoint"), checkUserRequirements(o)>>)
deepToOptions(r) == IF r.entrypoint = Unset THEN "kind" :> "deepagents" ELSE ("kind" :> "langgraph") @@ Kept(r, StrandsKeys \ {"nodever"})
langgraph(t) == [entrypoint |-> ReadKey(t, "entrypoint", Unset), requirements |-> ReadKey(t, "requirements", Unset), manager |-> ReadKey(t, "manager", Unset)]
DefaultToolsets == <<"terminal", "file">>
HermesRuntime(o) ==
    FirstReason(<<RejectIf(o.toolsets = <<>> \/ \E i, j \in 1..Len(o.toolsets) : i # j /\ o.toolsets[i] = o.toolsets[j], "toolsets"),
                  RejectIf(o.skills = "../s", "skills")>>)
hermesToOptions(r) == Kept(r, {"skills"}) @@ (IF r.toolsets # DefaultToolsets THEN "toolsets" :> r.toolsets ELSE <<>>)
hermesFromOptions(t) == [toolsets |-> ReadKey(t, "toolsets", DefaultToolsets), skills |-> ReadKey(t, "skills", Unset)]
Made(kind, no, r, again) ==
    kit' = IF no # "" THEN [about |-> "refused", why |-> no] ELSE [about |-> "runtime", kind |-> kind, runtime |-> r, again |-> again]
chooseRuntime ==
    /\ kit.about = "none"
    /\ \/ \E o \in [harness : BOOLEAN, language : {"python", "typescript"}, entrypoint : Entrypoints,
                    requirements : {Unset, "reqs.txt", "uv.lock"}, manager : {Unset, "pip", "uv", "npm"}, nodever : {Unset, "22"}] :
            Made("strands", StrandsRuntime(o), o, strandsFromOptions(strandsToOptions(o)))
       \/ \E o \in [entrypoint : Entrypoints, requirements : {Unset, "reqs.txt", "uv.lock"}, manager : {Unset, "pip", "uv", "npm"}] :
            Made("deepagents", DeepAgents(o), o, langgraph(deepToOptions(o)))
       \/ \E o \in [toolsets : {<<>>, <<"terminal">>, <<"terminal", "file">>, <<"file", "terminal">>, <<"web", "web">>}, skills : {Unset, "s", "../s"}] :
            Made("hermes", HermesRuntime(o), o, hermesFromOptions(hermesToOptions(o)))

-----------------------------------------------------------------------------
(* The wiring of the model: an endpoint and a credential, in the           *)
(* environment or in the configuration of the runtime.                     *)

Providers == {"bedrock", "anthropic", "openai", "openai-compatible", "google", "azure"}
Gateway == "gateway"                    \* wiring through the gateway of the sandbox; "direct" has no urls
standardEnvs(p) ==
    CASE p = "bedrock" -> {"AWS_BEARER_TOKEN_BEDROCK"} [] p = "anthropic" -> {"ANTHROPIC_API_KEY"}
      [] p \in {"openai", "openai-compatible"} -> {"OPENAI_API_KEY"} [] p = "google" -> {"GEMINI_API_KEY"} [] OTHER -> {}
\* The credential variables that hold the placeholder, and where the endpoint is given.
standardModelEnvs(p, urls) == IF urls = Gateway THEN standardEnvs(p) ELSE {}
runEnvs(p, urls) == IF p = "bedrock" /\ urls = Gateway THEN {"AWS_BEARER_TOKEN_BEDROCK"} ELSE {}
Wired(cred, ends) == [refused |-> "", credentials |-> cred, endpoints |-> ends]
Unwired(code) == [refused |-> code, credentials |-> {}, endpoints |-> {}]
opencodeWiring(s) ==
    IF s.id = Unset THEN Unwired("model") ELSE
    IF s.provider = "openai-compatible" /\ s.urls # Gateway THEN Unwired("endpoint")
    ELSE IF s.urls # Gateway THEN Wired(runEnvs(s.provider, s.urls), {})
    ELSE Wired(runEnvs(s.provider, s.urls) \cup (IF s.provider = "bedrock" THEN {} ELSE {"apiKey"}), {"config"})
deepWiring(s) ==
    IF s.urls # Gateway /\ s.id # Unset /\ s.provider = "openai-compatible" THEN Unwired("endpoint")
    ELSE IF s.id = Unset /\ s.entrypoint = Unset THEN Unwired("model")
    ELSE Wired(runEnvs(s.provider, s.urls) \cup standardModelEnvs(s.provider, s.urls) \cup (IF s.urls = Gateway THEN {"credential_placeholder"} ELSE {}),
               IF s.urls = Gateway THEN {"config"} ELSE {})
strandsWiring(s) ==
    IF s.provider = "azure" THEN Unwired("provider")
    ELSE IF s.id = Unset /\ s.entrypoint = Unset THEN Unwired("model")
    ELSE Wired(standardModelEnvs(s.provider, s.urls) \cup (IF s.urls = Gateway THEN {"credential_placeholder"} ELSE {}),
               IF s.urls = Gateway THEN {"config"} ELSE {})
hermesWiring(s) ==
    LET custom == s.provider \in {"openai", "openai-compatible"} /\ s.urls = Gateway
    IN IF s.provider \in {"google", "azure"} THEN Unwired("provider")
       ELSE IF s.provider = "openai-compatible" /\ s.urls # Gateway THEN Unwired("endpoint")
       ELSE IF s.id = Unset THEN Unwired("model")
       ELSE Wired((IF s.provider \in {"bedrock", "anthropic"} THEN standardModelEnvs(s.provider, s.urls) ELSE {}) \cup (IF custom THEN {"credential_placeholder"} ELSE {}),
                  IF custom THEN {"config"} ELSE IF s.urls = Gateway THEN {"env"} ELSE {})
customWiring(s) ==
    Wired(standardModelEnvs(s.provider, s.urls) \cup (IF s.urls = Gateway THEN {"RAYITO_MODEL_API_KEY"} ELSE {}),
          IF s.urls = Gateway THEN {"env"} ELSE {})
wiringOf(kind, s) ==
    CASE kind = "opencode" -> opencodeWiring(s) [] kind = "deepagents" -> deepWiring(s) [] kind = "strands" -> strandsWiring(s)
      [] kind = "hermes" -> hermesWiring(s) [] OTHER -> customWiring(s)
chooseWiring ==
    kit.about = "none" /\ \E kind \in {"opencode", "deepagents", "strands", "hermes", "custom"},
       s \in [provider : Providers, id : {Unset, "m"}, entrypoint : {Unset, "e"}, urls : {Gateway, "direct"}] :
        kit' = [about |-> "wiring", kind |-> kind, spec |-> s, made |-> wiringOf(kind, s)]

-----------------------------------------------------------------------------
(* Permissions: what the tools of each runtime are told.                   *)

Permissions == {"bash", "read", "edit", "webfetch", "websearch", "question"}
DefaultDenied == {"question"}           \* DEFAULT_DENIED_TOOLS
ToolRulings == {Unset, "allow", "deny", "pattern"}
effectiveTool(p, tool) == IF p[tool] # Unset THEN p[tool] ELSE IF tool \in DefaultDenied THEN "deny" ELSE Unset
Ruling(p, tool) == IF effectiveTool(p, tool) = Unset THEN p.default ELSE effectiveTool(p, tool)
toolAllowed(p, tool) == Ruling(p, tool) # "deny"
HarnessTools(tool) == CASE tool = "bash" -> {"shell"} [] tool = "read" -> {"read"} [] tool = "edit" -> {"write", "edit"} [] tool = "webfetch" -> {"web_fetch"} [] OTHER -> {}
harnessBuiltinTools(p) == UNION {HarnessTools(t) : t \in {x \in Permissions : toolAllowed(p, x)}}
harnessPermissionAliases(name) == CHOOSE t \in Permissions : name \in HarnessTools(t)
DeepTools(tool) == CASE tool = "bash" -> {"execute"} [] tool = "read" -> {"read_file"} [] tool = "edit" -> {"write_file", "edit_file"} [] OTHER -> {}
toolRules(p) ==
    LET said == {t \in Permissions : effectiveTool(p, t) # Unset /\ ~(t \in DefaultDenied /\ p[t] = Unset)}
    IN IF \E t \in said : DeepTools(t) = {} \/ (p[t] = "pattern" /\ t # "bash") THEN [refused |-> TRUE, open |-> {}]
       ELSE [refused |-> FALSE, open |-> UNION {DeepTools(t) : t \in {x \in Permissions : (IF x \in said THEN p[x] ELSE p.default) # "deny"}}]
Toolsets == [terminal |-> {"bash"}, file |-> {"read", "edit"}, web |-> {"webfetch", "websearch"}]
\* Hermes decides by toolset: one goes when every tool that governs it is denied.
effectiveToolsets(p) ==
    [refused |-> \E k \in DOMAIN Toolsets : \E t \in Toolsets[k] : effectiveTool(p, t) = "pattern",
     open |-> {k \in DOMAIN Toolsets : \E t \in Toolsets[k] : Ruling(p, t) # "deny"}]
choosePermissions ==
    kit.about = "none" /\ \E p \in [default : {"allow", "deny"}, bash : ToolRulings, read : ToolRulings, edit : ToolRulings, webfetch : {Unset, "deny"}, websearch : {Unset, "allow", "deny"}, question : {Unset, "allow"}] :
        /\ kit' = [about |-> "tools", permissions |-> p, harness |-> harnessBuiltinTools(p), deep |-> toolRules(p), hermes |-> effectiveToolsets(p)]

\* The permission block of an opencode.json: "*" is the default of the others, and a
\* rule is one action or an object of patterns (here their actions, in order).
Action(a) == [patterns |-> FALSE, acts |-> <<a>>]
Patterns(acts) == [patterns |-> TRUE, acts |-> acts]
OpenRules == {Action(a) : a \in {"allow", "deny", "ask", "odd"}}
             \cup {Patterns(p) : p \in {<<>>, <<"deny", "allow">>, <<"deny", "odd">>, <<"ask", "deny">>}}
withoutAsk(r, askAction) == [r EXCEPT !.acts = [i \in DOMAIN @ |-> IF @[i] = "ask" THEN askAction ELSE @[i]]]
Asks(r) == "ask" \in ToSet(r.acts)
applicable(key, r) == r.acts # <<>> /\ ToSet(r.acts) \subseteq {"allow", "deny"} /\ (key = "*" => ~r.patterns)
permissionsFromOpenCode(block, askAction) ==
    LET rule(k) == withoutAsk(block.entries[k], askAction)
        kept == {k \in DOMAIN block.entries : applicable(k, rule(k))}
    IN IF ~block.readable THEN [table |-> <<>>, notes |-> {"*"}]
       ELSE [table |-> [k \in kept |-> rule(k)],
             notes |-> {k \in DOMAIN block.entries : k \notin kept \/ Asks(block.entries[k])}]
\* A string alone is the default; another value is not read at all.
Blocks == {[readable |-> FALSE, entries |-> <<>>]} \cup {[readable |-> TRUE, entries |-> "*" :> Action(a)] : a \in {"allow", "deny", "ask", "odd"}}
          \cup UNION {{[readable |-> TRUE, entries |-> e] : e \in [keys -> OpenRules]} : keys \in SUBSET {"*", "bash", "edit"}}
chooseImport ==
    kit.about = "none" /\ \E b \in Blocks, a \in {"allow", "deny"} :
        kit' = [about |-> "import", block |-> b, ask |-> a, got |-> permissionsFromOpenCode(b, a)]

-----------------------------------------------------------------------------
(* The lines of an OpenCode run.                                           *)

MaxLines == 3
Lines == {"step_start", "step_finish", "text", "tool_done", "tool_pending", "error", "rayito.busy", "rayito.runtime_missing", "mystery", "garbage"}
newRun == [session |-> Unset, steps |-> 0, usage |-> 0, failed |-> Unset, ignored |-> 0, events |-> 0]
mapPart(line, st) ==
    CASE line = "step_start" -> [st EXCEPT !.steps = @ + 1, !.events = @ + 1]
      [] line = "step_finish" -> [st EXCEPT !.usage = @ + 1, !.events = @ + 1]
      [] line \in {"text", "tool_done"} -> [st EXCEPT !.events = @ + 1]
      [] OTHER -> st
mapLine(line, st) ==
    LET reason == CASE line = "error" -> "model_error" [] line = "rayito.busy" -> "busy" [] line = "rayito.runtime_missing" -> "runtime_missing" [] OTHER -> Unset
    IN IF reason # Unset THEN [st EXCEPT !.failed = reason, !.events = @ + 1]
       ELSE IF mapPart(line, st) = st THEN [st EXCEPT !.ignored = @ + 1] ELSE mapPart(line, st)
parseLine(line, session, st) ==
    IF line = "garbage" THEN [st EXCEPT !.ignored = @ + 1]
    ELSE mapLine(line, IF session = Unset THEN st ELSE [st EXCEPT !.session = session])
finishRun(st, code) ==
    IF st.failed # Unset THEN st.failed ELSE IF code # 0 THEN "runtime_error" ELSE IF st.session = Unset THEN "protocol_error" ELSE "done"
startOpenCode == kit.about = "none" /\ kit' = [about |-> "run", st |-> newRun, seen |-> <<>>, outcome |-> Unset]
readLine ==
    /\ kit.about = "run" /\ Len(kit.seen) < MaxLines /\ kit.outcome = Unset
    /\ \E l \in Lines, s \in {Unset, "s"} : kit' = [kit EXCEPT !.st = parseLine(l, s, @), !.seen = Append(@, l)]
endRun ==
    /\ kit.about = "run" /\ kit.outcome = Unset
    /\ \E code \in {0, 1} : kit' = [kit EXCEPT !.outcome = finishRun(kit.st, code)]

KitNext == chooseCustom \/ chooseApp \/ chooseRuntime \/ chooseWiring \/ choosePermissions \/ chooseImport \/ startOpenCode \/ readLine \/ endRun

-----------------------------------------------------------------------------

\* A runtime that was accepted reads back from its table in the project file as the
\* same runtime, although what is the default is left out (toOptions, fromOptions).
RuntimeReadsBack == kit.about = "runtime" => kit.again = kit.runtime

\* The app of a custom runtime reads back as it was, is probed on a path of its own
\* protocol and hides routes exactly when the client would call other ones.
AppReadsBack ==
    kit.about = "app" =>
        /\ kit.again = kit.app
        /\ ~kit.hides /\ kit.app.protocol \notin {"raw", "json", "langgraph-api"} => kit.served = <<"/ping", "/invocations">>

\* A runtime behind the gateway is given the endpoint of the gateway and a placeholder
\* to send; one without it is given neither, so that nothing shadows the credentials
\* of the sandbox (standardModelEnvs, runEnvs, hostSetup).
PlaceholderWithGateway ==
    kit.about = "wiring" /\ kit.made.refused = "" =>
        IF kit.spec.urls = Gateway THEN kit.made.credentials # {} /\ kit.made.endpoints # {}
        ELSE kit.made.credentials = {} /\ kit.made.endpoints = {}

\* A tool that the permissions deny, by its own rule or by the default, is open neither
\* in Strands' harness nor in Deep Agents.  Hermes closes whole toolsets: a denied tool
\* stays within reach there only while another tool of its toolset is not denied
\* (toolAllowed, toolRules, effectiveToolsets).
DeniedToolsClosed ==
    kit.about = "tools" =>
        LET Denied(t) == kit.permissions[t] = "deny" \/ (kit.permissions[t] = Unset /\ (t \in DefaultDenied \/ kit.permissions.default = "deny"))
        IN /\ \A t \in Permissions : Denied(t) => /\ \A n \in kit.harness : harnessPermissionAliases(n) # t
                                                 /\ kit.deep.open \cap DeepTools(t) = {}
           /\ \A k \in kit.hermes.open : \E t \in Toolsets[k] : ~Denied(t)

\* Reading the permissions of an opencode.json opens nothing in silence.  An entry is
\* taken whole, pattern by pattern, with what asked as the caller chose; one that
\* cannot be taken falls to the default, its denials too, and is always reported, as
\* is one that asked (permissionsFromOpenCode).
ImportIsReported ==
    kit.about = "import" =>
        /\ ~kit.block.readable => kit.got.notes # {}
        /\ \A k \in DOMAIN kit.block.entries \ kit.got.notes :
               k \in DOMAIN kit.got.table /\ kit.got.table[k] = kit.block.entries[k]
        /\ \A k \in DOMAIN kit.got.table :
               LET said == kit.block.entries[k].acts  got == kit.got.table[k].acts
               IN Len(got) = Len(said) /\ \A i \in DOMAIN got : got[i] = said[i] \/ (said[i] = "ask" /\ got[i] = kit.ask)

\* A run that reported a failure is never done, whatever came after and whatever its
\* exit code, a done run has a session, and every line was an event or was counted.
FailureSticks ==
    kit.about = "run" =>
        /\ kit.st.events + kit.st.ignored = Len(kit.seen)
        /\ kit.outcome = "done" => /\ kit.st.session # Unset
                                   /\ \A i \in 1..Len(kit.seen) : kit.seen[i] \notin {"error", "rayito.busy", "rayito.runtime_missing"}

=============================================================================
