------------------------------ MODULE ProjectFile ------------------------------
(***************************************************************************)
(* The project file of an agent (agent/project.ts, domain.ts,              *)
(* scaling-domain.ts, gateways.ts): a document of tables is read into a    *)
(* project, validated, and written back with the defaults left out.        *)
(* A document grows one key at a time; every document on the way is read.  *)
(***************************************************************************)
EXTENDS Integers, Sequences, FiniteSets, TLC

VARIABLE paper

-----------------------------------------------------------------------------
(* Values of a document carry their type; a table is a function of its keys. *)

Null == <<"null">>
Missing == <<"missing">>                \* undefined
Txt(x) == <<"text", x>>
Num(n) == <<"int", n>>
Flag(b) == <<"bool", b>>
Items(s) == <<"list", s>>
Rules(s) == <<"rules", s>>
Tab(t) == <<"table", t>>
Path(s) == <<"path", s>>                \* a text with the segments of a path
Key(k, v) == k :> v
When(c, t) == IF c THEN t ELSE <<>>

\* Table.#value: a key that is null reads as a key that is not there.
value(t, k) == IF k \notin DOMAIN t \/ t[k] = Null THEN Missing ELSE t[k]
orElse(v, default) == IF v = Missing THEN default ELSE v
HasType(v, type) ==
    CASE type = "text" -> (v[1] = "text" /\ v # Txt("")) \/ v[1] = "path"
      [] type = "number" -> v[1] = "int"
      [] type = "bool" -> v[1] = "bool"
      [] type = "texts" -> v[1] = "list" /\ \A i \in 1..Len(v[2]) : v[2][i] # ""
      [] type = "table" -> v[1] = "table"
      [] type = "any" -> TRUE
fieldError(t, k, type, required) ==
    CASE value(t, k) = Missing /\ required -> "missing_key"
      [] value(t, k) # Missing /\ ~HasType(value(t, k), type) -> "invalid_type"
      [] OTHER -> ""
Said(code) == code # ""
FirstOf(codes) == Head(SelectSeq(codes, Said) \o <<"">>)
Refuse(c, code) == IF c THEN code ELSE ""
StrayKeys == <<"api_key", "entrypoint", "mystery", "requirements", "token">>      \* in their order
SecretLikeKeys == {"api_key", "token"}
finishTable(t, used) ==
    LET left == {i \in 1..Len(StrayKeys) : StrayKeys[i] \in DOMAIN t \ used}
        first == CHOOSE i \in left : \A j \in left : i <= j
    IN IF left = {} THEN "" ELSE IF StrayKeys[first] \in SecretLikeKeys THEN "secret_value" ELSE "unknown_key"
\* The fields <<key, type, required>> of a table, read in order, then finishTable.
readFields(t, fields) ==
    FirstOf([i \in 1..Len(fields) |-> fieldError(t, fields[i][1], fields[i][2], fields[i][3])]
            \o <<finishTable(t, {fields[i][1] : i \in 1..Len(fields)})>>)

SecretValues == {Txt("sk-123")}         \* SECRET_VALUE_PREFIXES
secretName(v) == FirstOf(<<Refuse(v = Missing \/ ~HasType(v, "text"), "invalid_type"), Refuse(v \in SecretValues, "secret_value")>>)

-----------------------------------------------------------------------------
(* Paths, as segments below the root of the disk; the file is in Root.     *)

Root == <<"home", "app">>
Folder(p) == IF p = <<>> THEN <<>> ELSE SubSeq(p, 1, Len(p) - 1)
SourcePaths == UNION {[1..n -> {"..", ".", "src", "app-old", "home"}] : n \in 0..3}
resolvePath[p \in SourcePaths] ==
    IF p = <<>> THEN Root
    ELSE LET before == resolvePath[Folder(p)]
         IN CASE p[Len(p)] = ".." -> Folder(before)
              [] p[Len(p)] = "." -> before
              [] OTHER -> Append(before, p[Len(p)])
isInside(p) == Len(p) >= Len(Root) /\ SubSeq(p, 1, Len(Root)) = Root
inside(v) == FirstOf(<<Refuse(v = Path(<<"/">>), "path_escape"),
                       Refuse(v # Path(<<"/">>) /\ ~isInside(resolvePath[v[2]]), "path_escape")>>)
relativeTo(p) == Path(IF p = Root THEN <<".">> ELSE SubSeq(p, Len(Root) + 1, Len(p)))

-----------------------------------------------------------------------------
(* Limits, serving, scaling.                                               *)

LimitsDefaults == [maxSteps |-> 3, timeoutMs |-> 4000, maxOutputBytes |-> 5, maxTotalTokens |-> 6]
NoTokenLimit == -1
AgentLimits(v) ==
    Refuse(v.maxSteps < 1 \/ v.timeoutMs <= 0 \/ v.maxOutputBytes < 1
           \/ (v.maxTotalTokens < 1 /\ v.maxTotalTokens # NoTokenLimit), "invalid_value")
readLimits(t) ==
    LET tokens == value(t, "max_total_tokens")
        v == [maxSteps |-> orElse(value(t, "max_steps"), Num(3))[2],
              timeoutMs |-> orElse(value(t, "timeout_seconds"), Num(4))[2] * 1000,
              maxOutputBytes |-> orElse(value(t, "max_output_bytes"), Num(5))[2],
              maxTotalTokens |-> IF tokens = Num(0) THEN NoTokenLimit ELSE orElse(tokens, Num(6))[2]]
        read == readFields(t, << <<"max_steps", "number", FALSE>>, <<"timeout_seconds", "number", FALSE>>,
                                 <<"max_output_bytes", "number", FALSE>>, <<"max_total_tokens", "number", FALSE>> >>)
    IN IF read # "" THEN <<read, LimitsDefaults>>
       ELSE <<AgentLimits(v), v>>
Bug_noLimitUnsaid(l) ==
    When(l.maxSteps # LimitsDefaults.maxSteps, Key("max_steps", Num(l.maxSteps)))
    @@ When(l.timeoutMs # LimitsDefaults.timeoutMs, Key("timeout_seconds", Num(l.timeoutMs \div 1000)))
    @@ When(l.maxOutputBytes # LimitsDefaults.maxOutputBytes, Key("max_output_bytes", Num(l.maxOutputBytes)))
    @@ When(l.maxTotalTokens \notin {LimitsDefaults.maxTotalTokens, NoTokenLimit}, Key("max_total_tokens", Num(l.maxTotalTokens)))
limitsToObject(l) ==
    When(l.maxSteps # LimitsDefaults.maxSteps, Key("max_steps", Num(l.maxSteps)))
    @@ When(l.timeoutMs # LimitsDefaults.timeoutMs, Key("timeout_seconds", Num(l.timeoutMs \div 1000)))
    @@ When(l.maxOutputBytes # LimitsDefaults.maxOutputBytes, Key("max_output_bytes", Num(l.maxOutputBytes)))
    @@ When(l.maxTotalTokens # LimitsDefaults.maxTotalTokens,
            Key("max_total_tokens", Num(IF l.maxTotalTokens = NoTokenLimit THEN 0 ELSE l.maxTotalTokens)))

DefaultIdle == -1                       \* idle: undefined
ServeDefaults == [port |-> 8, timeoutMs |-> 9000, maxConcurrency |-> 2, idle |-> DefaultIdle,
                  metadata |-> Tab(<<>>), queueMax |-> 1, queueTimeoutMs |-> 5000]
ReservedPorts == {6, 7}                 \* DEFAULT_PORT, HOOKS_PORT
MaxQueue == 4
MaxServeSeconds == 20
ServeOptions(v) ==
    Refuse(\/ v.port \notin 1..99 \ ReservedPorts
           \/ v.timeoutMs \notin 1..(MaxServeSeconds * 1000)
           \/ v.maxConcurrency < 1
           \/ ~HasType(v.metadata, "table")
           \/ v.queueMax \notin 0..MaxQueue
           \/ v.queueTimeoutMs \notin 1..(MaxServeSeconds * 1000), "invalid_value")
readServe(t) ==
    LET v == [port |-> orElse(value(t, "port"), Num(8))[2],
              timeoutMs |-> orElse(value(t, "timeout_seconds"), Num(9))[2] * 1000,
              maxConcurrency |-> orElse(value(t, "max_concurrency"), Num(2))[2],
              idle |-> orElse(value(t, "idle_seconds"), Num(DefaultIdle))[2],
              metadata |-> orElse(value(t, "metadata"), Tab(<<>>)),
              queueMax |-> orElse(value(t, "queue_max"), Num(1))[2],
              queueTimeoutMs |-> orElse(value(t, "queue_timeout_seconds"), Num(5))[2] * 1000]
        read == readFields(t, << <<"port", "number", FALSE>>, <<"max_concurrency", "number", FALSE>>,
                    <<"timeout_seconds", "number", FALSE>>, <<"idle_seconds", "number", FALSE>>, <<"metadata", "any", FALSE>>,
                    <<"queue_max", "number", FALSE>>, <<"queue_timeout_seconds", "number", FALSE>> >>)
    IN IF read # "" THEN <<read, ServeDefaults>>
       ELSE <<FirstOf(<<Refuse(value(t, "idle_seconds") # Missing /\ v.idle < 0, "invalid_value"), ServeOptions(v)>>), v>>
serveToObject(s) ==
    When(s.port # ServeDefaults.port, Key("port", Num(s.port)))
    @@ When(s.timeoutMs # ServeDefaults.timeoutMs, Key("timeout_seconds", Num(s.timeoutMs \div 1000)))
    @@ When(s.maxConcurrency # ServeDefaults.maxConcurrency, Key("max_concurrency", Num(s.maxConcurrency)))
    @@ When(s.idle # DefaultIdle, Key("idle_seconds", Num(s.idle)))
    @@ When(s.metadata # Tab(<<>>), Key("metadata", s.metadata))
    @@ When(s.queueMax # ServeDefaults.queueMax, Key("queue_max", Num(s.queueMax)))
    @@ When(s.queueTimeoutMs # ServeDefaults.queueTimeoutMs, Key("queue_timeout_seconds", Num(s.queueTimeoutMs \div 1000)))

ScalingDefaults == [minVms |-> 1, maxVms |-> 1, warmVms |-> 0, sessions |-> Txt("shared"), scaleInAfterMs |-> 3000]
MaxVms == 4
MinScaleIn == 1000
ScalingOptions(v) ==
    Refuse(\/ v.minVms \notin 0..MaxVms \/ v.maxVms \notin 1..MaxVms \/ v.warmVms \notin 0..MaxVms
           \/ v.minVms > v.maxVms \/ v.warmVms > v.maxVms - v.minVms
           \/ v.sessions \notin {Txt("shared"), Txt("dedicated")}
           \/ v.scaleInAfterMs \notin MinScaleIn..(MaxServeSeconds * 1000), "invalid_value")
readScaling(t) ==
    LET v == [minVms |-> orElse(value(t, "min_vms"), Num(1))[2], maxVms |-> orElse(value(t, "max_vms"), Num(1))[2],
              warmVms |-> orElse(value(t, "warm_vms"), Num(0))[2], sessions |-> orElse(value(t, "sessions"), Txt("shared")),
              scaleInAfterMs |-> orElse(value(t, "scale_in_after_seconds"), Num(3))[2] * 1000]
        read == readFields(t, << <<"min_vms", "number", FALSE>>, <<"max_vms", "number", FALSE>>, <<"warm_vms", "number", FALSE>>,
                                 <<"sessions", "text", FALSE>>, <<"scale_in_after_seconds", "number", FALSE>> >>)
    IN IF read # "" THEN <<read, ScalingDefaults>>
       ELSE <<ScalingOptions(v), v>>
scalingToObject(s) ==
    When(s.minVms # 1, Key("min_vms", Num(s.minVms))) @@ When(s.maxVms # 1, Key("max_vms", Num(s.maxVms)))
    @@ When(s.warmVms # 0, Key("warm_vms", Num(s.warmVms))) @@ When(s.sessions # Txt("shared"), Key("sessions", s.sessions))
    @@ When(s.scaleInAfterMs # 3000, Key("scale_in_after_seconds", Num(s.scaleInAfterMs \div 1000)))

-----------------------------------------------------------------------------
(* Runtime, source, image, deploy, network.                                *)

RuntimeKinds == {"opencode", "langgraph", "strands"}
RuntimeOptionKeys(kind) ==
    CASE kind = "opencode" -> {}
      [] kind = "langgraph" -> {"entrypoint", "requirements"}
      [] kind = "strands" -> {"entrypoint", "language", "requirements", "node_version"}
RuntimeExtraKeys == {"language", "framework", "python_version", "node_version", "graph"}
resolveGraph(graph) == Txt("graph.py:app")          \* what langgraph.json names, unchanged between reads
RuntimeVersions(versions) == Refuse(Txt("0.1") \in versions, "invalid_value")
NoRuntimeRead == [kind |-> "opencode", options |-> <<>>, extras |-> [k \in RuntimeExtraKeys |-> Missing]]
readGraph(t, kind) ==
    IF value(t, "graph") = Missing THEN ""
    ELSE FirstOf(<<Refuse(kind # Txt("langgraph"), "invalid_value"), Refuse(value(t, "graph") = Txt("a b"), "invalid_value"),
                   Refuse("entrypoint" \in DOMAIN t, "conflict")>>)
readRuntime(t) ==
    LET kind == value(t, "kind")
        known == {k \in RuntimeOptionKeys(kind[2]) : value(t, k) # Missing}
        graph == value(t, "graph")
        options == [k \in known \cup (IF graph = Missing THEN {} ELSE {"entrypoint"}) |->
                        IF k = "entrypoint" /\ graph # Missing THEN resolveGraph(graph) ELSE t[k]]
        versions == {value(t, "python_version"), value(t, "node_version")} \ {Missing}
        early == FirstOf(<<fieldError(t, "kind", "text", TRUE), Refuse(kind \notin {Txt(k) : k \in RuntimeKinds}, "invalid_value")>>)
        read == FirstOf(<<fieldError(t, "language", "text", FALSE),
                  Refuse(value(t, "language") \notin {Missing, Txt("python"), Txt("typescript")}, "invalid_value"),
                  fieldError(t, "framework", "text", FALSE),
                  fieldError(t, "python_version", "text", FALSE), fieldError(t, "node_version", "text", FALSE),
                  RuntimeVersions(versions),
                  fieldError(t, "graph", "text", FALSE), readGraph(t, kind),
                  finishTable(t, {"kind"} \cup RuntimeExtraKeys \cup RuntimeOptionKeys(kind[2])),
                  Refuse(\E k \in DOMAIN options : ~HasType(options[k], "text"), "invalid_value"),
                  Refuse(kind = Txt("langgraph") /\ "entrypoint" \notin DOMAIN options, "invalid_value")>>)
    IN IF early # "" THEN <<early, NoRuntimeRead>>
       ELSE IF read # "" THEN <<read, NoRuntimeRead>>
       ELSE <<"", [kind |-> kind[2], options |-> options, extras |-> [k \in RuntimeExtraKeys |-> value(t, k)]]>>
\* runtimeToOptions: a default language is left out; the graph stands for the
\* entrypoint; an extra is written unless the options already say it.
runtimeToOptions(r) ==
    [k \in {o \in DOMAIN r.options : ~(o = "language" /\ r.options[o] = Txt("python"))} |-> r.options[k]]
runtimeToObject(r) ==
    LET options == runtimeToOptions(r)
        table == [k \in DOMAIN options \ (IF r.extras["graph"] = Missing THEN {} ELSE {"entrypoint"}) |-> options[k]]
    IN Key("kind", Txt(r.kind)) @@ table
       @@ [k \in {e \in RuntimeExtraKeys : r.extras[e] # Missing} |-> r.extras[k]]

readSource(t) ==
    LET at == orElse(value(t, "path"), Path(<<".">>))
        needs == value(t, "requirements")
        read == readFields(t, << <<"path", "text", FALSE>>, <<"requirements", "text", FALSE>>, <<"exclude", "texts", FALSE>> >>)
        error == IF read # "" THEN read ELSE FirstOf(<<inside(at), IF needs = Missing THEN "" ELSE inside(needs)>>)
    IN <<error, IF error # "" THEN <<>>
                ELSE Key("source", resolvePath[at[2]]) @@ Key("exclude", orElse(value(t, "exclude"), Items(<<>>)))
                     @@ When(needs # Missing, Key("requirements", resolvePath[needs[2]]))>>
sourceToObject(s) ==
    When("source" \in DOMAIN s, Key("path", relativeTo(s["source"])))
    @@ When("requirements" \in DOMAIN s, Key("requirements", relativeTo(s["requirements"])))
    @@ When("exclude" \in DOMAIN s /\ s["exclude"] # Items(<<>>), Key("exclude", s["exclude"]))

ImageDefaults == [base |-> Txt("rayito-code"), template |-> Missing, memoryMib |-> 2]
MinMemory == 2                          \* AGENT_MIN_MEMORY_MIB
readImageTable(t) ==
    <<readFields(t, << <<"base", "text", FALSE>>, <<"template", "text", FALSE>>, <<"memory_mib", "number", FALSE>> >>),
      [base |-> orElse(value(t, "base"), ImageDefaults.base), template |-> value(t, "template"),
       memoryMib |-> orElse(value(t, "memory_mib"), Num(2))[2]]>>
imageToObject(i) ==
    When(i.base # ImageDefaults.base, Key("base", i.base)) @@ When(i.template # Missing, Key("template", i.template))
    @@ When(i.memoryMib # MinMemory, Key("memory_mib", Num(i.memoryMib)))
\* Two gibibytes of baseline memory a vCPU, four connections each, one reserved.
maxSessionsForMemory(memory) == 4 * (IF memory \div 2 < 1 THEN 1 ELSE memory \div 2) - 1
concurrencyProblem(serve, memory) == serve.maxConcurrency > maxSessionsForMemory(memory)

DeployKeys == {"region", "bucket", "base_image_version"}
readDeploy(t) ==
    LET check(k) == FirstOf(<<fieldError(t, k, "text", FALSE),
                              Refuse(k # "region" /\ value(t, k) = Txt("Not Valid"), "invalid_value")>>)
    IN <<FirstOf(<<check("region"), check("bucket"), check("base_image_version"), finishTable(t, DeployKeys)>>),
         [k \in DeployKeys |-> value(t, k)]>>
deployToObject(d) == [k \in {x \in DeployKeys : d[x] # Missing} |-> d[k]]

readNetwork(t) ==
    LET out == value(t, "allow_out") deny == value(t, "deny_out")
    IN <<readFields(t, << <<"allow_internet_access", "bool", FALSE>>, <<"egress", "texts", FALSE>>,
                          <<"allow_out", "texts", FALSE>>, <<"deny_out", "texts", FALSE>> >>),
         [internet |-> orElse(value(t, "allow_internet_access"), Flag(FALSE)), egress |-> value(t, "egress"),
          network |-> IF out = Missing /\ deny = Missing THEN Missing
                      ELSE <<"network", orElse(out, Items(<<>>)), orElse(deny, Items(<<>>))>>]>>
networkToObject(n) ==
    When(n.internet = Flag(TRUE), Key("allow_internet_access", n.internet))
    @@ When(n.egress # Missing, Key("egress", n.egress))
    @@ When(n.network # Missing /\ n.network # <<"network", Items(<<>>), Items(<<>>)>>,
            When(n.network[2] # Items(<<>>), Key("allow_out", n.network[2]))
            @@ When(n.network[3] # Items(<<>>), Key("deny_out", n.network[3])))

-----------------------------------------------------------------------------
(* Gateways and the model.                                                 *)

\* A preset is a gateway built from its secret; what is written is always custom.
Presets == {"bedrock", "openai"}
ModelIdRequiredPresets == {"bedrock"}
presetKeys(preset) == IF preset = "bedrock" THEN {"region", "models"} ELSE {}
buildPreset(preset, t) ==
    [upstream |-> Txt(preset), headers |-> Key("authorization", value(t, "secret")), rate |-> orElse(value(t, "rate"), Num(0)),
     allow |-> IF preset = "openai" THEN Rules(<<"POST /v1/responses">>) ELSE Rules(value(t, "models")[2])]
readAllow(v) == FirstOf(<<Refuse(v = Missing, "missing_key"), Refuse(v # Missing /\ v[1] # "rules", "invalid_type")>>)
readCustomGateway(t) ==
    LET headers == value(t, "headers")
    IN FirstOf(<<fieldError(t, "upstream", "text", TRUE), fieldError(t, "headers", "table", TRUE),
                 IF fieldError(t, "headers", "table", TRUE) # "" THEN ""
                 ELSE IF \A h \in DOMAIN headers[2] : secretName(headers[2][h]) = "" THEN ""
                 ELSE secretName(headers[2][CHOOSE h \in DOMAIN headers[2] : secretName(headers[2][h]) # ""]),
                 readAllow(value(t, "allow")), finishTable(t, {"preset", "rate", "upstream", "headers", "allow"})>>)
readPresetGateway(t, preset) ==
    FirstOf(<<fieldError(t, "secret", "text", TRUE), secretName(value(t, "secret"))>>
            \o (IF preset = "bedrock" THEN <<fieldError(t, "region", "text", TRUE), fieldError(t, "models", "texts", TRUE)>> ELSE <<>>)
            \o <<finishTable(t, {"preset", "rate", "secret"} \cup presetKeys(preset)),
                 Refuse(preset = "bedrock" /\ value(t, "models") = Items(<<>>), "invalid_value")>>)
readGateway(t) ==
    LET preset == value(t, "preset")
    IN FirstOf(<<fieldError(t, "preset", "text", TRUE), fieldError(t, "rate", "number", FALSE),
                 CASE preset = Missing -> "missing_key"
                   [] preset = Txt("custom") -> readCustomGateway(t)
                   [] preset \in {Txt(p) : p \in Presets} -> readPresetGateway(t, preset[2])
                   [] OTHER -> "invalid_value">>)
gatewayOf(t) ==
    IF t["preset"] = Txt("custom")
    THEN [upstream |-> t["upstream"], headers |-> t["headers"][2], allow |-> t["allow"], rate |-> orElse(value(t, "rate"), Num(0))]
    ELSE buildPreset(t["preset"][2], t)
gatewayToObject(g) ==
    Key("preset", Txt("custom")) @@ Key("upstream", g.upstream) @@ Key("headers", Tab(g.headers)) @@ Key("allow", g.allow)
    @@ When(g.rate # Num(0), Key("rate", g.rate))
readGateways(t) ==
    LET names == DOMAIN t
        bad == {n \in names : readGateway(t[n][2]) # ""}
    IN IF bad # {} THEN <<readGateway(t[CHOOSE n \in bad : TRUE][2]), <<>>, <<>>>>
       ELSE <<"", [n \in names |-> gatewayOf(t[n][2])], [n \in names |-> t[n][2]["preset"][2]]>>

ModelEnvKeys == {"id_env", "base_url_env", "api_key_env"}
readModel(t) ==
    LET provider == value(t, "provider")
        basePath == value(t, "base_path")
        read == readFields(t, << <<"provider", "text", TRUE>>, <<"id", "text", FALSE>>, <<"gateway", "text", TRUE>>,
                    <<"region", "text", FALSE>>, <<"base_path", "text", FALSE>>, <<"prompt_caching", "bool", FALSE>>,
                    <<"id_env", "text", FALSE>>, <<"base_url_env", "text", FALSE>>, <<"api_key_env", "text", FALSE>> >>)
        v == [provider |-> provider, id |-> value(t, "id"), gateway |-> value(t, "gateway"), region |-> value(t, "region"),
              basePath |-> basePath, promptCaching |-> orElse(value(t, "prompt_caching"), Flag(TRUE)),
              envNames |-> [k \in {e \in ModelEnvKeys : value(t, e) # Missing} |-> t[k]]]
    IN <<FirstOf(<<read, Refuse(\/ provider \notin {Txt("bedrock"), Txt("openai-compatible")}
                                \/ provider = Txt("bedrock") /\ v.region = Missing
                                \/ basePath # Missing /\ provider # Txt("openai-compatible"), "invalid_value")>>), v>>
modelToObject(m) ==
    Key("provider", m.provider) @@ When(m.id # Missing, Key("id", m.id)) @@ Key("gateway", m.gateway)
    @@ When(m.region # Missing, Key("region", m.region)) @@ When(m.basePath # Missing, Key("base_path", m.basePath))
    @@ When(m.promptCaching = Flag(FALSE), Key("prompt_caching", Flag(FALSE))) @@ m.envNames
modelIdRequired(kind, entrypoint, preset) ==
    \/ preset \in ModelIdRequiredPresets
    \/ kind = "opencode"                \* MODEL_BUILDING_RUNTIMES
    \/ kind = "strands" /\ ~entrypoint  \* DEFAULT_AGENT_RUNTIMES

-----------------------------------------------------------------------------
(* The agent: permissions, MCP servers, subagents.                         *)

PermissionDefaults == [default |-> Txt("allow"), tools |-> <<>>]
Actions == {Txt("allow"), Txt("deny")}  \* ask is refused
AgentPermissions(v) == Refuse(v.default \notin Actions \/ \E k \in DOMAIN v.tools : v.tools[k] \notin Actions, "invalid_value")
readPermissions(t) ==
    LET tools == orElse(value(t, "tools"), Tab(<<>>))
        v == [default |-> orElse(value(t, "default"), Txt("allow")), tools |-> tools[2]]
        read == FirstOf(<<fieldError(t, "default", "text", FALSE), fieldError(t, "tools", "table", FALSE), finishTable(t, {"default", "tools"})>>)
    IN IF read # "" THEN <<read, PermissionDefaults>>
       ELSE <<AgentPermissions(v), v>>
permissionsToObject(p) ==
    When(p.default # Txt("allow"), Key("default", p.default)) @@ When(DOMAIN p.tools # {}, Key("tools", Tab(p.tools)))

NoServer == [type |-> "none"]
McpLocal(command) == Refuse(command \in {Missing, Items(<<>>)}, "invalid_value")
readMcp(t) ==
    LET type == value(t, "type")
    IN CASE type = Txt("local") ->
              <<FirstOf(<<readFields(t, << <<"type", "text", TRUE>>, <<"command", "texts", FALSE>>, <<"envs", "any", FALSE>>,
                                           <<"timeout_seconds", "number", FALSE>> >>),
                          McpLocal(value(t, "command"))>>),
                [type |-> "local", command |-> value(t, "command"), envs |-> orElse(value(t, "envs"), Tab(<<>>)),
                 timeoutMs |-> IF value(t, "timeout_seconds") = Missing THEN -1 ELSE t["timeout_seconds"][2] * 1000]>>
         [] type = Txt("remote") ->
              <<readFields(t, << <<"type", "text", TRUE>>, <<"gateway", "text", TRUE>>, <<"path", "text", FALSE>> >>),
                [type |-> "remote", gateway |-> value(t, "gateway"), path |-> orElse(value(t, "path"), Txt("/"))]>>
         [] OTHER -> <<IF type = Missing THEN "missing_key" ELSE "invalid_value", NoServer>>
mcpToObject(s) ==
    IF s.type = "remote"
    THEN Key("type", Txt("remote")) @@ Key("gateway", s.gateway) @@ When(s.path # Txt("/"), Key("path", s.path))
    ELSE Key("type", Txt("local")) @@ Key("command", s.command) @@ When(s.envs # Tab(<<>>), Key("envs", s.envs))
         @@ When(s.timeoutMs # -1, Key("timeout_seconds", Num(s.timeoutMs \div 1000)))

readSubagent(t) ==
    LET p == value(t, "permissions")
        perms == IF p # Missing /\ p[1] = "table" THEN readPermissions(p[2]) ELSE <<"", PermissionDefaults>>
    IN <<FirstOf(<<fieldError(t, "description", "text", TRUE), fieldError(t, "instructions", "text", TRUE),
                   fieldError(t, "model", "text", FALSE), fieldError(t, "permissions", "table", FALSE), perms[1],
                   finishTable(t, {"description", "instructions", "model", "permissions"})>>),
         [description |-> value(t, "description"), instructions |-> value(t, "instructions"), model |-> value(t, "model"),
          permissions |-> IF p = Missing THEN <<>> ELSE <<perms[2]>>]>>
subagentToObject(a) ==
    Key("description", a.description) @@ Key("instructions", a.instructions) @@ When(a.model # Missing, Key("model", a.model))
    @@ When(a.permissions # <<>>, Key("permissions", Tab(permissionsToObject(a.permissions[1]))))

InstructionsRead == Txt("be brief")     \* what instructions_file holds
readInstructions(t) ==
    LET inline == value(t, "instructions") file == value(t, "instructions_file")
    IN <<FirstOf(<<fieldError(t, "instructions", "text", FALSE), fieldError(t, "instructions_file", "text", FALSE),
                   Refuse(inline # Missing /\ file # Missing, "conflict"),
                   IF file = Missing \/ file[1] # "path" THEN "" ELSE inside(file)>>),
         IF file = Missing THEN inline ELSE InstructionsRead>>
ReservedConfigKeys == {"model"}
NoAgentTable == [instructions |-> Missing, smallModel |-> Missing, runtimeVersion |-> Missing,
                 permissions |-> PermissionDefaults, mcp |-> <<>>, agents |-> <<>>, rawConfig |-> Missing]
validateRawConfig(raw) == Refuse(raw # Missing /\ DOMAIN raw[2] \cap ReservedConfigKeys # {}, "invalid_value")
AgentSpec(agents, raw) == FirstOf(<<Refuse("build" \in DOMAIN agents, "invalid_value"), validateRawConfig(raw)>>)
readAgent(t) ==
    LET p == orElse(value(t, "permissions"), Tab(<<>>))
        mcp == orElse(value(t, "mcp"), Tab(<<>>))
        agents == orElse(value(t, "agents"), Tab(<<>>))
        raw == value(t, "raw_config")
        perms == readPermissions(p[2])
        firstBad(f, Read(_)) == IF \A n \in DOMAIN f : Read(f[n][2])[1] = "" THEN ""
                                ELSE Read(f[CHOOSE n \in DOMAIN f : Read(f[n][2])[1] # ""][2])[1]
        types == FirstOf(<<readInstructions(t)[1], fieldError(t, "small_model", "text", FALSE),
                   fieldError(t, "runtime_version", "text", FALSE), fieldError(t, "permissions", "table", FALSE),
                   fieldError(t, "mcp", "table", FALSE), fieldError(t, "agents", "table", FALSE),
                   fieldError(t, "raw_config", "table", FALSE)>>)
    IN IF types # "" THEN <<types, NoAgentTable>>
       ELSE <<FirstOf(<<perms[1], firstBad(mcp[2], readMcp), firstBad(agents[2], readSubagent),
                        finishTable(t, {"instructions", "instructions_file", "small_model", "runtime_version", "permissions",
                                   "mcp", "agents", "raw_config"}),
                        AgentSpec(agents[2], raw)>>),
              [instructions |-> readInstructions(t)[2], smallModel |-> value(t, "small_model"),
               runtimeVersion |-> value(t, "runtime_version"), permissions |-> perms[2],
               mcp |-> [n \in DOMAIN mcp[2] |-> readMcp(mcp[2][n][2])[2]],
               agents |-> [n \in DOMAIN agents[2] |-> readSubagent(agents[2][n][2])[2]], rawConfig |-> raw]>>
agentToObject(a) ==
    When(a.instructions # Missing, Key("instructions", a.instructions)) @@ When(a.smallModel # Missing, Key("small_model", a.smallModel))
    @@ When(a.runtimeVersion # Missing, Key("runtime_version", a.runtimeVersion))
    @@ When(DOMAIN permissionsToObject(a.permissions) # {}, Key("permissions", Tab(permissionsToObject(a.permissions))))
    @@ When(DOMAIN a.mcp # {}, Key("mcp", Tab([n \in DOMAIN a.mcp |-> Tab(mcpToObject(a.mcp[n]))])))
    @@ When(DOMAIN a.agents # {}, Key("agents", Tab([n \in DOMAIN a.agents |-> Tab(subagentToObject(a.agents[n]))])))
    @@ When(a.rawConfig \notin {Missing, Tab(<<>>)}, Key("raw_config", a.rawConfig))

-----------------------------------------------------------------------------
(* Environment variables, plain and from secrets.                          *)

SecretLikeNames == {"DB_TOKEN"}         \* secretLikeEnvName
ReservedNames == {"RAYITO_X"}           \* isReservedName
readEnv(t) ==
    <<FirstOf(<<Refuse(\E n \in DOMAIN t : t[n][1] # "text", "invalid_type"),
                Refuse(\E n \in DOMAIN t : n \in SecretLikeNames \/ t[n] \in SecretValues, "secret_value")>>), t>>
checkSecretId(v) == FirstOf(<<Refuse(v = Missing \/ v[1] # "text", "invalid_type"), Refuse(v \in SecretValues, "secret_value"),
                              Refuse(v = Txt("a b"), "invalid_value")>>)
readSecretEnvValue(name, v) ==
    FirstOf(<<Refuse(name \in ReservedNames, "invalid_value"),
              IF v[1] # "table" THEN checkSecretId(v)
              ELSE FirstOf(<<fieldError(v[2], "secret", "text", TRUE), checkSecretId(value(v[2], "secret")),
                             fieldError(v[2], "key", "text", FALSE), fieldError(v[2], "version_stage", "text", FALSE),
                             finishTable(v[2], {"secret", "key", "version_stage"})>>)>>)
\* A reference with a null key is the reference without it.
secretRefOf(v) == IF v[1] # "table" THEN v ELSE Tab([k \in {x \in DOMAIN v[2] : v[2][x] # Null} |-> v[2][k]])
readSecretEnv(t) ==
    LET bad == {n \in DOMAIN t : readSecretEnvValue(n, t[n]) # ""}
    IN <<IF bad = {} THEN "" ELSE readSecretEnvValue(CHOOSE n \in bad : TRUE, t[CHOOSE n \in bad : TRUE]),
         [n \in DOMAIN t |-> secretRefOf(t[n])]>>
MaxSecrets == 2                         \* AGENT_SECRET_ENV_MAX_SECRETS
secretIdOf(v) == IF v[1] = "table" THEN v[2]["secret"] ELSE v
secretIds(s) == {secretIdOf(s[n]) : n \in DOMAIN s}

-----------------------------------------------------------------------------
(* The document and the project.                                           *)

TableNames == {"runtime", "source", "model", "gateways", "agent", "limits", "serve", "scaling", "env", "secret_env",
               "network", "deploy", "image"}
table(d, k) == IF k \in DOMAIN d THEN d[k] ELSE <<>>

checkGateways(p) ==
    FirstOf(<<Refuse(p.model.gateway[2] \notin DOMAIN p.gateways, "invalid_value"),
              Refuse(\E n \in DOMAIN p.agent.mcp : p.agent.mcp[n].type = "remote" /\ p.agent.mcp[n].gateway[2] \notin DOMAIN p.gateways,
                     "invalid_value")>>)
requireModelId(p) ==
    Refuse(p.model.id = Missing
           /\ modelIdRequired(p.runtime.kind, "entrypoint" \in DOMAIN p.runtime.options, IF p.model.gateway[2] \in DOMAIN p.gatewayPresets THEN p.gatewayPresets[p.model.gateway[2]] ELSE "none"), "missing_key")
checkModel(p) ==
    FirstOf(<<requireModelId(p), Refuse(\E k \in DOMAIN p.model.envNames : p.model.envNames[k][2] \in DOMAIN p.env, "conflict")>>)
validatedSecretEnv(secretEnv, env) == Refuse(DOMAIN secretEnv \cap DOMAIN env # {}, "conflict")
\* The constructor checks once more what can be built without a file.
AgentProject(p) ==
    FirstOf(<<Refuse(p.image.memoryMib < MinMemory, "invalid_value"),
              validatedSecretEnv(p.secretEnv, p.env),
              Refuse(Cardinality(secretIds(p.secretEnv)) > MaxSecrets, "invalid_value")>>)
NoProject == [runtime |-> NoRuntimeRead]
checkedProject(p) ==
    <<FirstOf(<<checkGateways(p), Refuse(concurrencyProblem(p.serve, p.image.memoryMib), "invalid_value"),
                checkModel(p), AgentProject(p)>>), p>>
projectOptions(d) ==
    LET runtime == readRuntime(table(d, "runtime"))
        source == IF "source" \in DOMAIN d THEN readSource(d["source"]) ELSE <<"", <<>>>>
        gateways == readGateways(table(d, "gateways"))
        model == readModel(table(d, "model"))
        agent == readAgent(table(d, "agent"))
        limits == readLimits(table(d, "limits"))
        serve == readServe(table(d, "serve"))
        scaling == readScaling(table(d, "scaling"))
        env == readEnv(table(d, "env"))
        secret == readSecretEnv(table(d, "secret_env"))
        network == readNetwork(table(d, "network"))
        deploy == readDeploy(table(d, "deploy"))
        image == readImageTable(table(d, "image"))
        read == FirstOf(<<runtime[1], source[1], gateways[1], model[1], agent[1], limits[1], serve[1], scaling[1], env[1], secret[1],
                          network[1], deploy[1], image[1]>>)
        p == [runtime |-> runtime[2], source |-> source[2], gateways |-> gateways[2], gatewayPresets |-> gateways[3],
              model |-> model[2], agent |-> agent[2], limits |-> limits[2], serve |-> serve[2], scaling |-> scaling[2],
              env |-> env[2], secretEnv |-> secret[2], network |-> network[2], deploy |-> deploy[2], image |-> image[2]]
    IN IF read # "" THEN <<read, NoProject>> ELSE checkedProject(p)
fromObject(d) == projectOptions(d)
toObject(p) ==
    LET all == [runtime |-> runtimeToObject(p.runtime), source |-> sourceToObject(p.source), model |-> modelToObject(p.model),
                gateways |-> [n \in DOMAIN p.gateways |-> Tab(gatewayToObject(p.gateways[n]))], agent |-> agentToObject(p.agent),
                limits |-> limitsToObject(p.limits), serve |-> serveToObject(p.serve), scaling |-> scalingToObject(p.scaling),
                env |-> p.env, secret_env |-> p.secretEnv, network |-> networkToObject(p.network), deploy |-> deployToObject(p.deploy),
                image |-> imageToObject(p.image)]
    IN [k \in {n \in TableNames : n = "model" \/ DOMAIN all[n] # {}} |-> all[k]]

-----------------------------------------------------------------------------
(* Documents: one that can be read, and up to MaxEdits keys set in it.     *)

MaxEdits == 3
Custom(secret) == Key("preset", Txt("custom")) @@ Key("upstream", Txt("u")) @@ Key("headers", Tab(Key("authorization", secret)))
                  @@ Key("allow", Rules(<<"POST /x">>))
Bedrock(models) == Key("preset", Txt("bedrock")) @@ Key("secret", Txt("s")) @@ Key("region", Txt("us")) @@ Key("models", models)
StartDocument ==
    [runtime |-> Key("kind", Txt("strands")) @@ Key("entrypoint", Txt("a.py:agent")),
     model |-> Key("provider", Txt("openai-compatible")) @@ Key("gateway", Txt("g")),
     gateways |-> Key("g", Tab(Custom(Txt("s"))))]
Set(name, k, vs) == {<<name, k, v>> : v \in vs}
Edits ==
    [serving |-> Set("serve", "port", {Num(6), Num(8), Num(9)}) \cup Set("serve", "max_concurrency", {Num(2), Num(4), Num(0)})
        \cup Set("serve", "timeout_seconds", {Num(1), Num(21), Txt("1")}) \cup Set("serve", "idle_seconds", {Num(0), Num(5), Num(-1)})
        \cup Set("serve", "metadata", {Tab(<<>>), Tab(Key("a", Txt("b"))), Num(1)}) \cup Set("serve", "queue_max", {Num(0), Num(5), Null})
        \cup Set("serve", "queue_timeout_seconds", {Num(2), Num(0)}) \cup Set("image", "memory_mib", {Num(1), Num(4), Num(2)})
        \cup Set("image", "base", {Txt("own"), Txt("rayito-code")}) \cup Set("image", "template", {Txt("t"), Txt("")})
        \cup Set("serve", "token", {Txt("x")}),
     limits |-> Set("limits", "max_steps", {Num(0), Num(2), Num(3)}) \cup Set("limits", "timeout_seconds", {Num(7), Num(0)})
        \cup Set("limits", "max_output_bytes", {Num(1), Txt("1")}) \cup Set("limits", "max_total_tokens", {Num(0), Num(6), Num(9), Num(-1)})
        \cup Set("limits", "mystery", {Num(1)}) \cup Set("scaling", "min_vms", {Num(0), Num(2), Num(5)}) \cup Set("scaling", "max_vms", {Num(3), Num(0)})
        \cup Set("scaling", "warm_vms", {Num(1), Num(3)}) \cup Set("scaling", "sessions", {Txt("dedicated"), Txt("own")})
        \cup Set("scaling", "scale_in_after_seconds", {Num(2), Num(0)}),
     places |-> Set("source", "path", {Path(<<"src">>), Path(<<"..", "app-old">>), Path(<<"src", "..">>), Path(<<"/">>), Path(<<"src", "..", "..">>)})
        \cup Set("source", "requirements", {Path(<<".", "src">>), Path(<<"..">>)}) \cup Set("source", "exclude", {Items(<<>>), Items(<<"x">>), Items(<<"">>)})
        \cup Set("network", "allow_internet_access", {Flag(TRUE), Flag(FALSE), Num(1)}) \cup Set("network", "egress", {Items(<<>>), Items(<<"h">>)})
        \cup Set("network", "allow_out", {Items(<<>>), Items(<<"h">>)}) \cup Set("network", "deny_out", {Items(<<>>), Items(<<"h">>)})
        \cup Set("deploy", "region", {Txt("us"), Null}) \cup Set("deploy", "bucket", {Txt("b"), Txt("Not Valid")}) \cup Set("deploy", "mystery", {Num(1)})
        \cup Set("agent", "instructions_file", {Path(<<"src">>), Path(<<"..", "app-old">>)}) \cup Set("agent", "instructions", {Txt("do"), Txt("")}),
     runtime |-> Set("runtime", "kind", {Txt("opencode"), Txt("langgraph"), Txt("other"), Null}) \cup Set("runtime", "language", {Txt("python"), Txt("typescript"), Txt("go")})
        \cup Set("runtime", "framework", {Txt("f")}) \cup Set("runtime", "python_version", {Txt("3.12"), Txt("0.1")})
        \cup Set("runtime", "node_version", {Txt("22"), Num(22)}) \cup Set("runtime", "graph", {Txt("main"), Txt("a b")})
        \cup Set("runtime", "requirements", {Txt("r"), Num(1)}) \cup Set("runtime", "mystery", {Txt("x")})
        \cup Set("runtime", "entrypoint", {Null, Txt("b.py:x")}) \cup Set("model", "id", {Txt("m")}) \cup Set("gateways", "g", {Tab(Bedrock(Items(<<"m">>)))}),
     model |-> Set("model", "provider", {Txt("bedrock"), Txt("other"), Null}) \cup Set("model", "id", {Txt("m"), Num(1)})
        \cup Set("model", "gateway", {Txt("none"), Txt("h")}) \cup Set("model", "region", {Txt("us")}) \cup Set("model", "base_path", {Txt("/v1"), Txt("")})
        \cup Set("model", "prompt_caching", {Flag(TRUE), Flag(FALSE), Num(0)}) \cup Set("model", "id_env", {Txt("PLAIN")})
        \cup Set("model", "base_url_env", {Txt("MODEL_URL")}) \cup Set("model", "api_key", {Txt("k")})
        \cup Set("gateways", "g", {Tab(Custom(Txt("sk-123"))), Tab(Custom(Num(1))), Tab(Bedrock(Items(<<"m">>))), Tab(Bedrock(Items(<<>>))),
                                   Tab(Custom(Txt("s")) @@ Key("rate", Num(5))), Tab(Custom(Txt("s")) @@ Key("mystery", Num(5)))})
        \cup Set("gateways", "h", {Tab(Key("preset", Txt("openai")) @@ Key("secret", Txt("s"))), Tab(Key("preset", Txt("openai"))), Tab(Key("preset", Txt("who")))})
        \cup Set("env", "PLAIN", {Txt("1"), Txt("sk-123"), Num(1)}) \cup Set("env", "MODEL_URL", {Txt("u")}) \cup Set("env", "DB_TOKEN", {Txt("x")})
        \cup Set("secret_env", "PLAIN", {Txt("s1"), Txt("sk-123"), Tab(Key("secret", Txt("s2")) @@ Key("key", Txt("k")))})
        \cup Set("secret_env", "DB_TOKEN", {Txt("s2"), Txt("a b"), Tab(Key("secret", Txt("s1")) @@ Key("key", Null)), Tab(Key("key", Txt("k")))})
        \cup Set("secret_env", "RAYITO_X", {Txt("s3")}) \cup Set("secret_env", "MODEL_URL", {Txt("s3"), Tab(Key("secret", Txt("s3")) @@ Key("token", Txt("t")))}),
     agent |-> Set("agent", "instructions", {Txt("do")}) \cup Set("agent", "small_model", {Txt("m"), Num(1)}) \cup Set("agent", "runtime_version", {Txt("1")})
        \cup Set("agent", "permissions", {Tab(<<>>), Tab(Key("default", Txt("deny"))), Tab(Key("default", Txt("ask"))), Tab(Key("tools", Tab(Key("bash", Txt("deny"))))), Txt("deny")})
        \cup Set("agent", "mcp", {Tab(Key("m", Tab(Key("type", Txt("remote")) @@ Key("gateway", Txt("g")) @@ When(p, Key("path", Txt("/mcp")))))) : p \in BOOLEAN})
        \cup Set("agent", "mcp", {Tab(Key("m", Tab(Key("type", Txt("remote")) @@ Key("gateway", Txt("none")))))})
        \cup Set("agent", "mcp", {Tab(Key("m", Tab(Key("type", Txt("local")) @@ Key("command", c) @@ When(p, Key("timeout_seconds", Num(2)) @@ Key("envs", Tab(Key("A", Txt("b")))))))) :
                                   c \in {Items(<<>>), Items(<<"run">>)}, p \in BOOLEAN})
        \cup Set("agent", "mcp", {Tab(Key("m", Tab(Key("type", Txt("odd")))))})
        \cup Set("agent", "agents", {Tab(Key(n, Tab(Key("description", Txt("d")) @@ Key("instructions", Txt("i")) @@ When(p, Key("permissions", Tab(<<>>)) @@ Key("model", Txt("m")))))) :
                                   n \in {"helper", "build"}, p \in BOOLEAN})
        \cup Set("agent", "raw_config", {Tab(<<>>), Tab(Key("x", Num(1))), Tab(Key("model", Num(1))), Num(1)}) \cup Set("agent", "mystery", {Num(1)})]

Unread == <<"unread", NoProject>>
NoPaper == [group |-> "none", d |-> StartDocument, edited |-> {}, read |-> Unread, again |-> Unread, dropped |-> <<>>, less |-> Unread]
PaperInit == paper = NoPaper
openPaper ==
    /\ paper.group = "none"
    /\ \E g \in DOMAIN Edits : paper' = [NoPaper EXCEPT !.group = g]
withKey(d, name, k, v) == [n \in DOMAIN d \cup {name} |-> IF n = name THEN Key(k, v) @@ table(d, n) ELSE d[n]]
Without(d, name, k) == [n \in DOMAIN d |-> IF n = name THEN [x \in DOMAIN d[n] \ {k} |-> d[n][x]] ELSE d[n]]
editPaper ==
    /\ paper.group # "none" /\ paper.read = Unread /\ Cardinality(paper.edited) < MaxEdits
    /\ \E e \in Edits[paper.group] :
          /\ \A f \in paper.edited : <<f[1], f[2]>> # <<e[1], e[2]>>
          /\ paper' = [paper EXCEPT !.d = withKey(@, e[1], e[2], e[3]), !.edited = @ \cup {e}]
\* AgentProject.load of the document; then of what toObject writes, and of the
\* document without one of its keys.
readPaper ==
    /\ paper.group # "none" /\ paper.read = Unread
    /\ paper' = [paper EXCEPT !.read = fromObject(paper.d)]
savePaper ==
    /\ paper.read[1] = "" /\ paper.again = Unread /\ paper.less = Unread
    /\ paper' = [paper EXCEPT !.again = fromObject(toObject(paper.read[2]))]
dropKey ==
    /\ paper.read[1] = "" /\ paper.again = Unread /\ paper.less = Unread
    /\ \E e \in paper.edited : paper' = [paper EXCEPT !.dropped = <<e>>, !.less = fromObject(Without(paper.d, e[1], e[2]))]
PaperNext == openPaper \/ editPaper \/ readPaper \/ savePaper \/ dropKey

-----------------------------------------------------------------------------

\* What writing a project is known to change: a preset is spelled out, and empty
\* egress lists or an empty raw_config are not written.
Normal(p) ==
    [p EXCEPT !.gatewayPresets = [n \in DOMAIN @ |-> "custom"],
              !.network.network = IF @ = <<"network", Items(<<>>), Items(<<>>)>> THEN Missing ELSE @,
              !.agent.rawConfig = IF @ = Tab(<<>>) THEN Missing ELSE @]
\* A project that was read and is written again reads back as the same project:
\* leaving the defaults out loses nothing (toObject, fromObject).
SavedReadsBack == paper.again # Unread => paper.again = <<"", Normal(paper.read[2])>>

DefaultValues == {<<"serve", "port", Num(8)>>, <<"serve", "max_concurrency", Num(2)>>, <<"serve", "metadata", Tab(<<>>)>>, <<"image", "memory_mib", Num(2)>>,
    <<"image", "base", Txt("rayito-code")>>, <<"limits", "max_steps", Num(3)>>, <<"limits", "max_total_tokens", Num(6)>>,
    <<"network", "allow_internet_access", Flag(FALSE)>>, <<"network", "allow_out", Items(<<>>)>>, <<"network", "deny_out", Items(<<>>)>>, <<"source", "exclude", Items(<<>>)>>,
    <<"source", "path", Path(<<"src", "..">>)>>, <<"model", "prompt_caching", Flag(TRUE)>>, <<"agent", "permissions", Tab(<<>>)>>}
\* No key of an accepted document is silently ignored: without it the document is
\* refused or means another project, unless it said the default (Table.finishTable).
NoKeyIgnored ==
    paper.dropped # <<>> =>
        LET e == paper.dropped[1] IN e[3] # Null /\ e \notin DefaultValues => paper.less # paper.read

\* A variable of [env] has no other source: it is neither a secret nor one that the
\* model's wiring sets (checkModel, AgentProject).  A [secret_env] name that is also a
\* model's is not refused here: checkModel looks at [env] only.
PlainHasOneSource ==
    LET r == paper.read
    IN r[1] = "" => /\ DOMAIN r[2].env \cap DOMAIN r[2].secretEnv = {}
                    /\ \A k \in DOMAIN r[2].model.envNames : r[2].model.envNames[k][2] \notin DOMAIN r[2].env

\* The sources and requirements of an accepted project are below the folder of its
\* file, and the paths written for them name the same places (inside, relativeTo).
PathsStayInside ==
    LET r == paper.read
    IN r[1] = "" => \A k \in DOMAIN r[2].source \ {"exclude"} :
           /\ \E n \in 0..3 : Len(r[2].source[k]) = Len(Root) + n /\ SubSeq(r[2].source[k], 1, Len(Root)) = Root
           /\ resolvePath[relativeTo(r[2].source[k])[2]] = r[2].source[k]
=============================================================================
