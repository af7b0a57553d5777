--------------------------- MODULE ProjectDetection ---------------------------
(***************************************************************************)
(* What a source tree is (agent/detect-*.ts): the framework and its entry  *)
(* point, the HTTP app, the package manager and the versions, the model     *)
(* provider, and the project document that is filled in with the result.   *)
(* A tree is the set of facts the rules look for, not its text.            *)
(***************************************************************************)
EXTENDS Integers, Sequences, FiniteSets, SequencesExt, FiniteSetsExt

VARIABLE find

Nil == "nil"
FindInit == find = [about |-> "none"]

-----------------------------------------------------------------------------
(* Version constraints (detect-versions.ts): components, most significant  *)
(* first.                                                                  *)

pad(v, n) == v \o [i \in 1..(n - Len(v)) |-> 0]
compareVersion(a, b) ==
    LET n == IF Len(a) > Len(b) THEN Len(a) ELSE Len(b)
        x == pad(a, n)
        y == pad(b, n)
        diff == {i \in 1..n : x[i] # y[i]}
    IN IF n = 0 \/ diff = {} THEN 0 ELSE IF x[Min(diff)] < y[Min(diff)] THEN -1 ELSE 1
bump(v, i) == [k \in 1..Len(v) |-> IF k < i THEN v[k] ELSE IF k = i THEN v[k] + 1 ELSE 0]
nextPartial(v) == pad(bump(v, Len(v)), 3)
caretUpper(v) ==
    LET p == pad(v, 3)
        nonzero == {i \in 1..Len(p) : p[i] # 0}
    IN bump(p, IF nonzero = {} THEN Len(p) ELSE Min(nonzero))
tildeUpper(v) == bump(v, IF Len(v) = 1 THEN 1 ELSE 2)
startsWith(c, p) == Len(p) <= Len(c) /\ SubSeq(c, 1, Len(p)) = p
clauseSatisfied(op, v, wild, c) ==
    CASE op \in {"", "=="} -> IF wild THEN startsWith(c, v) ELSE compareVersion(c, v) = 0
      [] op = "!=" -> IF wild THEN ~startsWith(c, v) ELSE compareVersion(c, v) # 0
      [] op = ">=" -> compareVersion(c, v) >= 0
      [] op = ">" -> compareVersion(c, v) > 0
      [] op = "<=" -> compareVersion(c, v) <= 0
      [] op = "<" -> compareVersion(c, v) < 0
      [] op = "~=" -> Len(v) >= 2 /\ compareVersion(c, v) >= 0 /\ startsWith(c, SubSeq(v, 1, Len(v) - 1))
      [] op = "^" -> compareVersion(c, v) >= 0 /\ compareVersion(c, caretUpper(v)) < 0
      [] OTHER -> compareVersion(c, v) >= 0 /\ compareVersion(c, tildeUpper(v)) < 0
\* A semver comparator whose version may lack components, as simple clauses; one of
\* wildcards only asks for nothing, or is not understood.
expandComparator(op, v) ==
    LET base == pad(v, 3)
    IN IF v = <<>> THEN {}
         ELSE IF op = "" THEN IF Len(v) = 3 THEN {<<"==", base>>} ELSE {<<">=", base>>, <<"<", nextPartial(v)>>}
         ELSE IF op = "^" THEN {<<">=", base>>, <<"<", caretUpper(base)>>}
         ELSE IF op = "~" THEN {<<">=", base>>, <<"<", pad(tildeUpper(v), 3)>>}
         ELSE IF Len(v) = 3 \/ op \in {">=", "<"} THEN {<<op, base>>}
         ELSE IF op = ">" THEN {<<">=", nextPartial(v)>>}
         ELSE {<<"<", nextPartial(v)>>}
SpecifierOps == {"", "!=", ">=", ">", "<=", "<", "~=", "^", "~"}
SemverOps == {"", ">=", ">", "<=", "<", "^", "~"}
\* A clause: op "odd" is text that no pattern reads.
Clause(op, v, wild) == [op |-> op, v |-> v, wild |-> wild]
Unreadable == Clause("odd", <<>>, FALSE)
comparatorUnknown(cl) == cl.v = <<>> /\ cl.op \notin {"", "^", "~"}
comparatorMet(cl, c) == \A x \in expandComparator(cl.op, cl.v) : clauseSatisfied(x[1], x[2], FALSE, c)
\* "yes", "no" or "unknown": the first clause that fails or is not understood decides.
FirstStop(n, unknown(_), met(_)) ==
    LET stops == {i \in 1..n : unknown(i) \/ ~met(i)}
    IN IF stops = {} THEN "yes" ELSE IF unknown(Min(stops)) THEN "unknown" ELSE "no"
specifierSatisfied(cls, c) ==
    FirstStop(Len(cls), LAMBDA i : cls[i].op = "odd", LAMBDA i : clauseSatisfied(cls[i].op, cls[i].v, cls[i].wild, c))
\* Text left over is looked for before any comparator is.
groupSatisfied(cls, c) ==
    IF Unreadable \in ToSet(cls) THEN "unknown"
    ELSE FirstStop(Len(cls), LAMBDA i : comparatorUnknown(cls[i]), LAMBDA i : comparatorMet(cls[i], c))
semverSatisfied(groups, c) ==
    LET got == {groupSatisfied(g, c) : g \in ToSet(groups)}
    IN IF "unknown" \in got THEN "unknown" ELSE IF "yes" \in got THEN "yes" ELSE "no"
\* A constraint has groups (`||`) of clauses; only semver has more than one group.
satisfied(k, c) ==
    IF k.kind = "specifier" THEN specifierSatisfied(k.groups[1], c)
    ELSE IF k.kind = "semver" THEN semverSatisfied(k.groups, c)
    ELSE IF startsWith(c, k.groups[1][1].v) THEN "yes" ELSE "no"
Builds == {<<1, 2, 1>>, <<1, 3, 0>>, <<2, 0, 1>>}       \* AGENT_*_BUILD_VERSIONS
DefaultBuild == <<1, 3, 0>>
Newest(s) == CHOOSE x \in s : \A y \in s : compareVersion(x, y) >= 0
resolveBuild(k) ==
    LET ok == {b \in Builds : satisfied(k, b) = "yes"}
    IN [understood |-> satisfied(k, DefaultBuild) # "unknown",
        key |-> IF satisfied(k, DefaultBuild) = "unknown" THEN <<>> ELSE IF DefaultBuild \in ok THEN DefaultBuild ELSE IF ok = {} THEN <<>> ELSE Newest(ok)]
\* resolveVersion: the first file whose constraint is understood decides, and those
\* before it are ignored with a warning.
resolveVersion(sources) ==
    LET read == {i \in DOMAIN sources : resolveBuild(sources[i]).understood}
    IN IF read = {} THEN [build |-> DefaultBuild, by |-> 0, ignored |-> DOMAIN sources]
       ELSE [build |-> resolveBuild(sources[Min(read)]).key, by |-> Min(read), ignored |-> 1..(Min(read) - 1)]
Partial == {<<a>> : a \in 0..2} \cup {<<a, b>> : a \in 0..2, b \in 0..3} \cup {<<a, b, c>> : a \in 1..2, b \in 0..3, c \in 0..1}
Constraint(kind, groups) == [kind |-> kind, groups |-> groups]
SingleConstraints ==
    {Constraint("specifier", <<<<Clause(op, v, wild)>>>>) : op \in SpecifierOps, v \in Partial, wild \in {FALSE}}
    \cup {Constraint("specifier", <<<<Clause(op, v, TRUE)>>>>) : op \in {"", "!="}, v \in Partial}
    \cup {Constraint("semver", <<<<Clause(op, v, FALSE)>>>>) : op \in SemverOps, v \in Partial \cup {<<>>}}
    \cup {Constraint("major", <<<<Clause("", v, FALSE)>>>>) : v \in Partial}
\* Clauses that are combined: a comma (or a space) and, for semver, `||`.
Mixed == {Clause(op, v, FALSE) : op \in {">=", "<", "~"}, v \in {<<1, 3>>, <<2>>}} \cup {Clause("", <<1, 2, 1>>, FALSE), Clause(">", <<>>, FALSE), Unreadable}
MixedGroups == {<<x>> : x \in Mixed} \cup {<<x, y>> : x, y \in Mixed}
Combined ==
    {Constraint("specifier", <<g>>) : g \in {h \in MixedGroups : Clause(">", <<>>, FALSE) \notin ToSet(h)}}
    \cup {Constraint("semver", <<g, h>>) : g \in MixedGroups, h \in {<<x>> : x \in Mixed}}
chooseVersion ==
    find.about = "none" /\ \E sources \in {<<k>> : k \in SingleConstraints \cup Combined}
                                          \cup {<<k, m>> : k \in {x \in Combined : x.kind = "specifier"}, m \in {Constraint("major", <<<<Clause("", v, FALSE)>>>>) : v \in {<<2>>, <<0>>}}} :
        find' = [about |-> "version", sources |-> sources, got |-> resolveVersion(sources)]

-----------------------------------------------------------------------------
(* Entry points (detect-entry.ts).  A candidate has a tier, and a name and *)
(* a file that may be among the preferred ones.                            *)

Tiers == 1..3                           \* 3: a factory that takes arguments
narrow(pool, keep) == IF {c \in pool : keep[c]} # {} THEN {c \in pool : keep[c]} ELSE pool
select(found) ==
    LET pool == {c \in found : \A d \in found : c.tier <= d.tier}
        named == IF Cardinality(pool) > 1 THEN narrow(pool, [c \in pool |-> c.name]) ELSE pool
        filed == IF Cardinality(named) > 1 THEN narrow(named, [c \in named |-> c.file]) ELSE named
    IN IF found = {} THEN [code |-> "none"]
       ELSE IF Cardinality(filed) > 1 \/ (\A c \in filed : c.tier = 3) THEN [code |-> "ambiguous"]
       ELSE [code |-> "ok", entry |-> CHOOSE c \in filed : TRUE]
\* The same attribute of a file found by two rules counts with its better tier.
collect(cs) == {c \in cs : \A d \in cs : d.id = c.id => c.tier <= d.tier}
chooseEntry ==
    find.about = "none" /\ \E n \in 0..3, again \in {0, 1} : \E f \in [1..n -> [tier : Tiers, name : BOOLEAN, file : BOOLEAN]] :
        LET one(i, tier) == [id |-> i, tier |-> tier, name |-> f[i].name, file |-> f[i].file]
            cs == {one(i, f[i].tier) : i \in 1..n} \cup (IF again = 0 \/ n = 0 THEN {} ELSE {one(1, again)})
        IN
        find' = [about |-> "entry", found |-> collect(cs), got |-> select(collect(cs))]

-----------------------------------------------------------------------------
(* The framework (detect-domain.ts): rules in order, first that has an     *)
(* entry point or needs none.                                              *)

Rule == <<[id |-> "langgraph-json", agnostic |-> TRUE, web |-> FALSE, entry |-> "file", langs |-> {}],
          [id |-> "strands", agnostic |-> FALSE, web |-> FALSE, entry |-> "code", langs |-> {"py", "ts"}],
          [id |-> "opencode", agnostic |-> TRUE, web |-> FALSE, entry |-> "none", langs |-> {}],
          [id |-> "fastapi", agnostic |-> FALSE, web |-> TRUE, entry |-> "code", langs |-> {"py"}]>>
isForced(i, o) == o.framework = Rule[i].id
httpOnly(o) == "http" \in {o.framework, o.entrypoint}
presentLanguages(t, o) == IF o.language # Nil THEN {o.language} ELSE t.languages
dependencyCandidates(i, t, l, forced) ==
    IF l \in Rule[i].langs /\ (<<Rule[i].id, l>> \in t.deps \/ forced) THEN {[order |-> i, lang |-> l]} ELSE {}
candidatesOf(t, o) ==
    UNION {IF Rule[i].agnostic
           THEN (IF Rule[i].id \in t.files \/ isForced(i, o) THEN {[order |-> i, lang |-> Nil]} ELSE {})
           ELSE UNION {dependencyCandidates(i, t, l, isForced(i, o)) :
                       l \in IF presentLanguages(t, o) # {} THEN presentLanguages(t, o) ELSE IF isForced(i, o) THEN Rule[i].langs ELSE {}}
           : i \in {j \in DOMAIN Rule : /\ (o.framework # Nil /\ ~httpOnly(o) => isForced(j, o))
                                        /\ (httpOnly(o) => Rule[j].web)}}
selectGraph(graphs, asked) ==
    IF asked # Nil THEN (IF asked \in graphs THEN [code |-> "ok", entry |-> asked] ELSE [code |-> "invalid_value"])
    ELSE IF graphs = {} THEN [code |-> "none"]
    ELSE IF Cardinality(graphs) = 1 THEN [code |-> "ok", entry |-> CHOOSE g \in graphs : TRUE]
    ELSE IF "agent" \in graphs THEN [code |-> "ok", entry |-> "agent"] ELSE [code |-> "ambiguous"]
\* The language of an entry point: by its form when the caller gave it, by the suffix
\* of the graph's file in langgraph.json, else the one it was looked for in.
languageOf(c, entry, o) ==
    IF o.entrypoint \notin {Nil, "http"} THEN "py"
    ELSE IF Rule[c.order].entry = "file" THEN IF entry = "agent" THEN "ts" ELSE "py" ELSE c.lang
entryFor(c, t, o) ==
    IF o.graph # Nil /\ o.entrypoint # Nil THEN [code |-> "conflict"]
      ELSE IF o.entrypoint \notin {Nil, "http"} THEN [code |-> "ok", entry |-> o.entrypoint]
      ELSE IF Rule[c.order].entry = "file" THEN selectGraph(t.graphs, o.graph)
      ELSE IF o.graph # Nil THEN [code |-> "invalid_value"]
      ELSE IF Rule[c.order].entry = "code" THEN IF <<Rule[c.order].id, c.lang>> \in t.entries THEN [code |-> "ok", entry |-> "code"] ELSE [code |-> "none"]
      ELSE [code |-> "none"]
startDetect ==
    find.about = "none" /\ \E t \in [languages : {{}, {"py"}, {"py", "ts"}}, deps : {{}, {<<"strands", "py">>, <<"fastapi", "py">>}, {<<"strands", "py">>, <<"strands", "ts">>}},
              files : SUBSET {"langgraph-json", "opencode"}, graphs : {{}, {"agent", "b"}, {"b", "c"}},
              entries : {{<<"fastapi", "py">>}, {<<"strands", "ts">>, <<"strands", "py">>}}],
       o \in [framework : {Nil, "strands", "opencode", "http"}, language : {Nil, "py"}, entrypoint : {Nil, "m:f"}, graph : {Nil, "b"}] :
        /\ (t.deps # {} => "py" \in t.languages) /\ (t.deps = {} => t.languages # {"py", "ts"})
        /\ (o.framework = "opencode" => o.language = Nil) /\ (o.entrypoint # Nil => o.framework # Nil) /\ (t.graphs # {} => "langgraph-json" \in t.files)
        /\ (o.graph # Nil => o.language = Nil)
        /\ find' = [about |-> "detect", t |-> t, o |-> o, all |-> {}, left |-> {}, code |-> "start", order |-> 0, entry |-> Nil, lang |-> Nil, skipped |-> {}]
listCandidates ==
    /\ find.about = "detect" /\ find.code = "start"
    /\ LET found == candidatesOf(find.t, find.o) IN find' = [find EXCEPT !.all = found, !.left = found, !.code = ""]
chooseNext ==
    /\ find.about = "detect" /\ find.code = "" /\ find.left # {}
    /\ LET first == Min({c.order : c \in find.left})
           ties == {c \in find.left : c.order = first}
           head == CHOOSE c \in ties : TRUE
           got == entryFor(head, find.t, find.o)
       IN find' = IF Cardinality(ties) > 1 THEN [find EXCEPT !.code = "ambiguous"]
                  ELSE IF got.code = "ok" \/ (got.code = "none" /\ Rule[first].entry = "none")
                       THEN [find EXCEPT !.code = "ok", !.order = first, !.entry = IF got.code = "ok" THEN got.entry ELSE Nil,
                                                 !.lang = IF got.code = "ok" /\ head.lang = Nil THEN languageOf(head, got.entry, find.o) ELSE head.lang]
                  ELSE IF got.code # "none" THEN [find EXCEPT !.code = got.code]
                  ELSE [find EXCEPT !.left = @ \ {head}, !.skipped = @ \cup {first}]
notDetected == find.about = "detect" /\ find.code = "" /\ find.left = {} /\ find' = [find EXCEPT !.code = "not_detected"]

-----------------------------------------------------------------------------
(* The HTTP app (detect-app.ts).                                           *)

firstCandidate(cs, available) == Head(SelectSeq(cs, LAMBDA c : c \in available) \o <<Nil>>)
HealthCandidates == <<"/ping", "/health">>
InvokeCandidates == <<"/invocations", "/chat">>
healthPath(gets) == IF firstCandidate(HealthCandidates, gets) # Nil THEN firstCandidate(HealthCandidates, gets)
                    ELSE IF gets # {} THEN CHOOSE g \in gets : TRUE ELSE "/health"
invokePath(posts) ==
    IF posts = {} THEN [code |-> "ok", path |-> Nil]
    ELSE IF Cardinality(posts) = 1 THEN [code |-> "ok", path |-> CHOOSE p \in posts : TRUE]
    ELSE IF firstCandidate(InvokeCandidates, posts) = Nil THEN [code |-> "ambiguous", path |-> Nil]
    ELSE [code |-> "ok", path |-> firstCandidate(InvokeCandidates, posts)]
SandboxPorts == {8080}
checkedPort(p) == IF p \in SandboxPorts THEN "unsupported" ELSE "ok"
\* A launcher with a command of its own is told the port, and its code is not searched.
portOf(a) == IF a.command \/ a.port = Nil \/ a.portEnv THEN [port |-> 9000, code |-> "ok"] ELSE [port |-> 8080, code |-> checkedPort(8080)]
protocolOf(a, contract, invoke) ==
    IF a.protocol # Nil THEN a.protocol ELSE IF contract THEN "agentcore" ELSE IF invoke # Nil THEN "json" ELSE "raw"
nodeCommand(a) == IF a.start THEN <<"npm", "run", "start">> ELSE IF a.main THEN <<"node", "main">> ELSE <<>>
commandOf(a, port) == IF a.command THEN <<"uvicorn", "module:attr", port>> ELSE nodeCommand(a)
detectApp(a) ==
    LET contract == "/ping" \in a.gets /\ "/invocations" \in a.posts
        strict == a.protocol = "agentcore" \/ (a.protocol = Nil /\ contract)
        health == IF strict THEN "/ping" ELSE healthPath(a.gets)
        invoke == IF strict THEN [code |-> "ok", path |-> "/invocations"] ELSE invokePath(a.posts)
        protocol == protocolOf(a, contract, invoke.path)
        code == IF a.protocol = "langgraph-api" THEN "invalid_value" ELSE IF invoke.code # "ok" THEN invoke.code
                  ELSE IF protocol \in {"agentcore", "json"} /\ invoke.path = Nil THEN "not_detected"
                  ELSE IF portOf(a).code # "ok" THEN portOf(a).code ELSE IF commandOf(a, 9000) = <<>> THEN "not_detected" ELSE "ok"
    IN [code |-> code, health |-> health, invoke |-> invoke.path, protocol |-> protocol, port |-> portOf(a).port,
        command |-> commandOf(a, portOf(a).port), request |-> IF protocol = "json" THEN "prompt" ELSE Nil]
chooseHttpApp ==
    find.about = "none" /\ \E a \in [gets : SUBSET {"/ping", "/health", "/x"}, posts : {{}, {"/other"}, {"/other", "/more"}, {"/chat", "/other"}, {"/invocations"}, {"/invocations", "/chat"}},
              protocol : {Nil, "agentcore", "json", "raw", "langgraph-api"}, port : {Nil, "8080"}, portEnv : BOOLEAN, start : BOOLEAN, main : BOOLEAN, command : BOOLEAN] :
        (a.start => ~a.main) /\ (a.command => ~a.start /\ ~a.main) /\ (a.port = Nil => ~a.portEnv) /\ find' = [about |-> "http", a |-> a, got |-> detectApp(a)]

-----------------------------------------------------------------------------
(* Package manager and provider (detect-install.ts, detect-providers.ts).  *)

InstallRules == <<[file |-> "uv.lock", manager |-> "uv", kind |-> "lock"], [file |-> "requirements", manager |-> "pip", kind |-> "requirements"],
                  [file |-> "poetry.lock", manager |-> "poetry", kind |-> "notDetected"], [file |-> "pyproject.toml", manager |-> "pip-project", kind |-> "manifest"]>>
requirementsFile(fs) == IF "requirements.txt" \in fs THEN "requirements.txt" ELSE IF fs = {} THEN Nil
                        ELSE IF Cardinality(fs) > 1 THEN "ambiguous" ELSE CHOOSE f \in fs : TRUE
planFor(r, t) ==
    IF r.kind = "requirements" THEN requirementsFile(t.requirements)
    ELSE IF r.file \notin t.files THEN Nil ELSE IF r.kind = "notDetected" THEN "notDetected" ELSE r.file
chooseManager(t) ==
    LET hits == {i \in DOMAIN InstallRules : planFor(InstallRules[i], t) # Nil}
    IN IF hits = {} THEN [code |-> "none", manager |-> Nil, source |-> Nil, warn |-> FALSE]
       ELSE LET r == InstallRules[Min(hits)]
                p == planFor(r, t)
            IN IF p \in {"ambiguous", "notDetected"} THEN [code |-> p, manager |-> Nil, source |-> Nil, warn |-> FALSE]
               ELSE [code |-> "ok", manager |-> r.manager, source |-> p, warn |-> r.kind = "manifest"]
detectInstall ==
    find.about = "none" /\ \E t \in [files : SUBSET {"uv.lock", "poetry.lock", "pyproject.toml"}, requirements : SUBSET {"requirements.txt", "requirements-a.txt", "requirements-b.txt"}] :
        find' = [about |-> "install", t |-> t, got |-> chooseManager(t)]
ProviderPresets == <<"bedrock", "openai", "groq">>
providerEvidence(p, t) == p \in t.deps \/ p \in t.envs
detectedProviders(t) ==
    LET configured == IF t.config = Nil THEN <<>> ELSE <<t.config>>
        strong == configured \o SelectSeq(ProviderPresets, LAMBDA p : providerEvidence(p, t) /\ p # t.config)
    IN IF strong # <<>> THEN strong ELSE IF t.weak THEN <<"bedrock">> ELSE <<>>
baseUrlEvidence(t, o) == t.codeUrl \/ o.url
withBaseUrl(ps, t, o) ==
    IF "openai" \notin ToSet(ps) \/ ~baseUrlEvidence(t, o) \/ (t.models /\ ~o.url) THEN ps
    ELSE [i \in DOMAIN ps |-> IF ps[i] = "openai" THEN "openai-compatible" ELSE ps[i]]
detectProviders(t, o) == IF o.provider # Nil THEN <<o.provider>> ELSE withBaseUrl(detectedProviders(t), t, o)
modelEnvsOf(ps, t, o) == ~t.models /\ ~o.model /\ ps # <<>> /\ ps[1] # "bedrock" /\ t.envNames
chooseProvider ==
    find.about = "none" /\ \E t \in [deps : SUBSET {"bedrock", "openai"}, envs : {{}, {"groq"}, {"openai", "groq"}}, config : {Nil, "groq"}, weak : BOOLEAN, models : BOOLEAN, codeUrl : BOOLEAN, envNames : BOOLEAN],
       o \in [provider : {Nil, "openai"}, url : BOOLEAN, model : BOOLEAN] :
        find' = [about |-> "provider", t |-> t, o |-> o, got |-> detectProviders(t, o), envs |-> modelEnvsOf(detectProviders(t, o), t, o)]

-----------------------------------------------------------------------------
(* The project document (detect-project.ts, fillRuntime).                  *)

Keys == {"kind", "entrypoint", "graph", "adapter", "manager", "requirements"}
Chosen(d, k, v) == IF d[k] # Nil THEN d[k] ELSE v
fillRuntime(d, r) == IF d["kind"] \notin {Nil, r["kind"]} THEN d ELSE [k \in Keys |-> Chosen(d, k, r[k])]
keepGraph(f, d, kind) ==
    IF f["graph"] = Nil \/ d["entrypoint"] # Nil THEN f
    ELSE IF kind = "langgraph" THEN [f EXCEPT !["entrypoint"] = Nil]
    ELSE IF d["graph"] = Nil THEN [f EXCEPT !["graph"] = Nil] ELSE f
withAdapter(f, d, node) == IF ~node THEN f ELSE [f EXCEPT !["kind"] = IF d["kind"] = Nil THEN "custom" ELSE @, !["adapter"] = IF @ = Nil THEN "langgraph" ELSE @]
completeRuntime(d, r, node, manager) ==
    LET f == withAdapter(fillRuntime(d, r), d, node)
        kind == IF f["kind"] # Nil THEN f["kind"] ELSE r["kind"]
        g == keepGraph(f, d, kind)
    IN IF manager = Nil \/ kind \notin {"langgraph", "strands", "custom"} THEN g
       ELSE [g EXCEPT !["manager"] = IF @ = Nil THEN manager ELSE @, !["requirements"] = IF @ = Nil /\ ~node THEN "reqs.txt" ELSE @]
detectedDocument ==
    find.about = "none" /\ \E d \in [{"kind", "entrypoint", "graph", "manager"} -> {Nil, "langgraph", "mine"}], r \in [kind : {"langgraph", "strands"}, graph : {Nil, "g"}],
       node \in BOOLEAN, manager \in {Nil, "uv"} :
        /\ d["kind"] # "mine" /\ \A k \in {"entrypoint", "graph", "manager"} : d[k] # "langgraph"
        /\ LET declared == [k \in Keys |-> IF k \in DOMAIN d THEN d[k] ELSE Nil]
               report == [k \in Keys |-> IF k = "kind" THEN r.kind ELSE IF k = "graph" THEN r.graph ELSE IF k = "entrypoint" THEN "found" ELSE Nil]
           IN find' = [about |-> "document", declared |-> declared, report |-> report, got |-> completeRuntime(declared, report, node, manager)]

FindNext == chooseVersion \/ chooseEntry \/ startDetect \/ listCandidates \/ chooseNext \/ notDetected \/ chooseHttpApp \/ detectInstall \/ chooseProvider \/ detectedDocument

-----------------------------------------------------------------------------

\* A clause stated by prefixes instead of upper bounds, for the builds there are.
ClauseMeets(kind, k, c) ==
    LET n == Len(k.v)
        cut == SubSeq(c, 1, n)
        lead == {i \in 1..n : k.v[i] # 0}
    IN IF k.op = "odd" THEN FALSE ELSE IF n = 0 THEN k.op \in {"", "^", "~"}
         ELSE IF kind = "major" \/ (kind = "semver" /\ k.op = "") THEN cut = k.v
         ELSE IF k.op = "^" THEN compareVersion(c, k.v) >= 0 /\ lead # {} /\ \A i \in 1..Min(lead) : c[i] = k.v[i]
         ELSE IF k.op = "~" THEN compareVersion(c, k.v) >= 0 /\ \A i \in 1..(IF n = 1 THEN 1 ELSE 2) : c[i] = k.v[i]
         ELSE IF k.op = "~=" THEN n >= 2 /\ compareVersion(c, k.v) >= 0 /\ \A i \in 1..(n - 1) : c[i] = k.v[i]
         ELSE IF kind = "semver" /\ k.op = ">" THEN compareVersion(cut, k.v) > 0
         ELSE IF kind = "semver" /\ k.op = "<=" THEN compareVersion(cut, k.v) <= 0
         ELSE IF k.wild THEN (cut = k.v) = (k.op # "!=")
         ELSE IF k.op = "" THEN compareVersion(c, k.v) = 0
         ELSE IF k.op = "!=" THEN compareVersion(c, k.v) # 0
         ELSE IF k.op \in {">=", ">"} THEN compareVersion(c, k.v) >= IF k.op = ">" THEN 1 ELSE 0
         ELSE compareVersion(c, k.v) <= IF k.op = "<" THEN -1 ELSE 0
Meets(k, c) == \E g \in ToSet(k.groups) : \A cl \in ToSet(g) : ClauseMeets(k.kind, cl, c)
Doubtful(k) == \E g \in ToSet(k.groups) : \E cl \in ToSet(g) : cl.op = "odd" \/ comparatorUnknown(cl)

\* The build that is installed meets the whole constraint of the file that decided,
\* is the default one whenever that meets it and otherwise the newest that does, and
\* a project is refused only when no build does or part of it is unreadable; a file is passed over, with a
\* warning, only for a constraint with something unreadable in it, and when every
\* file is the default is installed (resolveVersion, resolveBuild, expandComparator).
BuildMeetsConstraint ==
    find.about = "version" =>
        LET by == find.got.by  build == find.got.build
        IN /\ \A i \in find.got.ignored : Doubtful(find.sources[i])
           /\ by = 0 => build = DefaultBuild /\ find.got.ignored = DOMAIN find.sources
           /\ by # 0 =>
                LET ok == {b \in Builds : Meets(find.sources[by], b)}
                IN /\ build # <<>> => build \in ok /\ (build = DefaultBuild \/ (DefaultBuild \notin ok /\ \A b \in ok : compareVersion(build, b) >= 0))
                   /\ build = <<>> => ok = {} \/ Doubtful(find.sources[by])

\* The entry point that is picked is the only best one: any other of its tier lost to
\* it by name or by file, and a factory that needs arguments is never picked.
EntryIsClear ==
    find.about = "entry" /\ find.got.code = "ok" =>
        LET e == find.got.entry
        IN /\ e.tier < 3 /\ \A c \in find.found : c.tier >= e.tier
           /\ \A c \in find.found \ {e} : c.tier = e.tier => (e.name /\ ~c.name) \/ (e.name = c.name /\ e.file /\ ~c.file)

\* Detection obeys what the caller asked for (framework, http only, entry point, graph)
\* and passes over an earlier framework only when that one has no entry.  The language
\* asked for is obeyed by the frameworks known by their dependencies; one known by a
\* file has the language of its entry point (detect, choose, candidatesOf).
OverridesObeyed ==
    find.about = "detect" /\ find.code = "ok" =>
        LET r == Rule[find.order]
        IN /\ find.o.framework \notin {Nil, "http"} => r.id = find.o.framework
           /\ httpOnly(find.o) => r.web
           /\ find.o.entrypoint \notin {Nil, "http"} => find.entry = find.o.entrypoint
           /\ find.o.graph # Nil => find.entry = find.o.graph
           /\ find.o.language # Nil /\ ~r.agnostic => find.lang = find.o.language
           /\ \A i \in 1..(find.order - 1) : i \notin find.skipped => ~ \E c \in find.all : c.order = i

\* An app is called on a route it has, unless the caller imposed the contract, several
\* routes that look alike are refused, its port is never one of the sandbox, and it is
\* started with a command that is told that port when the launcher sets it.
AppRouteExists ==
    find.about = "http" /\ find.got.code = "ok" =>
        /\ find.a.protocol # "agentcore" => find.got.invoke \in find.a.posts \cup {Nil}
        /\ find.got.protocol \in {"json", "agentcore"} => find.got.invoke # Nil
        /\ find.got.invoke = "/other" => Cardinality(find.a.posts) = 1
        /\ find.got.port \notin SandboxPorts
        /\ find.got.command # <<>> /\ (find.a.command => find.got.command[3] = find.got.port)

\* A custom base URL turns openai into openai-compatible and nothing else, no
\* provider is listed twice, the caller's choice stands, and the names of the model's
\* variables are only used when no model is known.
ProviderFits ==
    find.about = "provider" =>
        /\ find.o.provider # Nil => find.got = <<find.o.provider>>
        /\ find.o.provider = Nil /\ find.o.url => "openai" \notin ToSet(find.got)
        /\ \A i, j \in DOMAIN find.got : i # j => find.got[i] # find.got[j]
        /\ find.envs => ~find.t.models /\ ~find.o.model

\* What the project file declares is never replaced by what was detected, and a
\* document has a graph or an entry point, not both unless it declares them.
DeclaredKept ==
    find.about = "document" =>
        /\ \A k \in Keys : find.declared[k] # Nil => find.got[k] = find.declared[k]
        /\ find.got["graph"] # Nil /\ find.got["entrypoint"] # Nil => find.declared["graph"] # Nil \/ find.declared["entrypoint"] # Nil

\* A lock file beats a list of requirements, which beats a manifest: the source of the
\* dependencies is the first there is, and one that is not reproducible is reported.
InstallPicksLock ==
    find.about = "install" /\ find.got.code = "ok" =>
        /\ "uv.lock" \in find.t.files => find.got.manager = "uv"
        /\ find.got.warn <=> find.got.source = "pyproject.toml"
        /\ find.got.source = "pyproject.toml" => find.t.requirements = {} /\ "poetry.lock" \notin find.t.files
=============================================================================
