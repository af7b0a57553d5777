--------------------------- MODULE FeaturePlanning --------------------------
(***************************************************************************)
(* What is decided about the optional features of a sandbox before          *)
(* anything is launched or deployed: mount paths (mount-path.ts), volumes  *)
(* and their connector (volumes/section.ts), the network of the volumes    *)
(* (volumes/network.ts), routes of the secret gateway                      *)
(* (secret-gateway/domain.ts), image variants and sizes (role-policy.ts,   *)
(* sizing/sizing.ts) and the plan of all of them (feature-options.ts).     *)
(* Every state is one input with the decision on it.                       *)
(***************************************************************************)
EXTENDS Integers, Sequences, FiniteSets

VARIABLES ask, conf

AskInit == ask = [about |-> "none"]
Unless(c, code) == IF c THEN "" ELSE code
FirstRefusal(codes) == Head(SelectSeq(codes, LAMBDA c : c # "") \o <<"">>)
Bounded(S, n) == UNION {[1..k -> S] : k \in 0..n}

-----------------------------------------------------------------------------
(* Mount paths: segments of an absolute path.                              *)

Dots == {".", ".."}
normalizeMount[p \in Bounded({"mnt", "home", "user", "a", "ab", ".", "..", ""}, 4)] ==
    IF p = <<>> THEN <<>>
    ELSE LET before == normalizeMount[SubSeq(p, 1, Len(p) - 1)]
             last == p[Len(p)]
         IN CASE last \in {"", "."} -> before
              [] last = ".." -> IF before = <<>> THEN <<>> ELSE SubSeq(before, 1, Len(before) - 1)
              [] OTHER -> Append(before, last)
AllowedRoots == {<<"mnt">>, <<"home", "user">>}
Begins(p, q) == Len(q) <= Len(p) /\ SubSeq(p, 1, Len(q)) = q
validateOne(p) ==
    FirstRefusal(<<Unless(normalizeMount[p] = p, "canonical"),
                   Unless(\E r \in AllowedRoots : Begins(p, r) /\ p # r, "root")>>)
overlaps(p, q) == p = q \/ Begins(p, q) \/ Begins(q, p)
MaxMounts == 2                          \* MAX_MOUNTS, 4 in the code
validateMountPaths(paths) ==
    FirstRefusal(<<Unless(Len(paths) <= MaxMounts, "too_many")>>
        \o [i \in 1..Len(paths) |->
              FirstRefusal(<<validateOne(paths[i]), Unless(\A j \in 1..(i - 1) : ~overlaps(paths[i], paths[j]), "overlap")>>)])

SomePaths == {<<"mnt", "a">>, <<"mnt", "ab">>, <<"mnt", "a", "ab">>, <<"home", "user", "a">>, <<"mnt">>,
              <<"home", "a">>, <<"mnt", "..", "a">>, <<"mnt", ".", "a">>, <<"mnt", "", "a">>, <<>>}
chooseMounts ==
    \E ps \in Bounded(SomePaths, 3) : ask' = [about |-> "mounts", paths |-> ps, says |-> validateMountPaths(ps)]

-----------------------------------------------------------------------------
(* Image variants and the plan of the features.                            *)

KnownVariants == {"base", "caps", "caps-efs"}
resolveImageVariant(template) ==
    CASE template \in {"arn", "own", "none"} -> "unknown" [] OTHER -> template
requireCapsFor(v) == Unless(v = "unknown" \/ v \in {"caps", "caps-efs"}, "needs_caps")
requireEfsFor(v) == Unless(v \in {"unknown", "caps-efs"}, "needs_efs")
requireVolumeConnector(egress) ==
    FirstRefusal(<<Unless(egress # <<>>, "no_connector"), Unless(\A i \in 1..Len(egress) : egress[i] # "internet", "internet"),
                   Unless(Len(egress) <= 1, "one_connector")>>)
planVolumes(paths, v, egress, role) ==
    FirstRefusal(<<Unless(paths # <<>>, "empty"), validateMountPaths(paths), requireEfsFor(v), requireVolumeConnector(egress),
                   Unless(role, "no_role")>>)
planTelemetry(kind, v) ==
    CASE kind = "other" -> "not_telemetry" [] kind = "executionRole" -> requireCapsFor(v) [] OTHER -> ""
validateEventsOption(logging) == Unless(logging = "cloudwatch", "no_logs")
Asked(o, f) == o[f] # "none"
planFeatures(o) ==
    LET v == resolveImageVariant(o.template)
    IN FirstRefusal(<<IF Asked(o, "mounts") THEN FirstRefusal(<<requireCapsFor(v), validateMountPaths(<<<<"mnt", o.mounts>>>>)>>) ELSE "",
                      IF Asked(o, "volumes") THEN planVolumes(<<<<"mnt", o.volumes>>>>, v, o.egress, o.role) ELSE "",
                      IF Asked(o, "events") THEN validateEventsOption(o.logging) ELSE "",
                      IF Asked(o, "telemetry") THEN planTelemetry(o.telemetry, v) ELSE "",
                      Unless(~Asked(o, "domain"), "unimplemented")>>)
chooseFeatures ==
    \E o \in [template : {"arn", "own"} \cup KnownVariants, mounts : {"none", "a"}, volumes : {"none", "ab"},
              egress : {<<>>, <<"internet">>, <<"vpc">>, <<"vpc", "vpc2">>, <<"vpc", "internet">>}, role : BOOLEAN,
              events : {"none", "on"}, logging : {"disabled", "cloudwatch"},
              telemetry : {"none", "bearer", "executionRole", "other"}, domain : {"none", "on"}] :
        ask' = [about |-> "features", options |-> o, says |-> planFeatures(o)]

-----------------------------------------------------------------------------
(* Sizes: the smallest published size that holds what was asked for.       *)

Published == <<1, 2, 4, 8, 16>>         \* SUPPORTED_MEMORY_MIB in units of 512 MiB
SizeNames == <<"512mb", "1gb", "2gb", "4gb", "8gb">>
BaselineMemory == 4
resolveSize(n) == Head(SelectSeq(Published, LAMBDA m : m >= n) \o <<0>>)
requestedMemoryMib(n) == Unless(n > 0, "positive")
sizeRefusal(n) == FirstRefusal(<<requestedMemoryMib(n), IF n > 0 THEN Unless(n <= Published[5], "too_large") ELSE "">>)
applySizeSuffix(m) == IF m = BaselineMemory THEN "" ELSE SizeNames[CHOOSE i \in 1..5 : Published[i] = m]
baselineCpuFor(m) == IF m < 1 THEN 1 ELSE m
chooseSize ==
    \E n \in -1..17 : ask' = [about |-> "size", asked |-> n, says |-> sizeRefusal(n),
                               got |-> IF sizeRefusal(n) = "" THEN resolveSize(n) ELSE 0,
                               suffix |-> IF sizeRefusal(n) = "" THEN applySizeSuffix(resolveSize(n)) ELSE "",
                               cpu |-> IF sizeRefusal(n) = "" THEN baselineCpuFor(resolveSize(n)) ELSE 0]

-----------------------------------------------------------------------------
(* Routes of the secret gateway.                                           *)

\* decodeSegmentOnce of the segments of a path; "bad" is undefined.
Segments == {"", "a", ".", "..", "%2e", "%2e%2e", "%2f", "%41", "%4", "%00", ";"}
decodeSegmentOnce(s) ==
    CASE s = "%2e" -> "." [] s = "%2e%2e" -> ".." [] s = "%41" -> "A"
      [] s \in {"%2f", "%4", "%00"} -> "bad" [] OTHER -> s
isSafeRequestPath(p) ==
    \A i \in 1..Len(p) : /\ p[i] # ";"                      \* ALLOWED_RAW_PATH_PATTERN
                         /\ IF p[i] = "" THEN i = Len(p) ELSE decodeSegmentOnce(p[i]) \notin Dots \cup {"bad"}
ForbiddenHeaders == {"host", "connection"}
lower(h) == CASE h = "Host" -> "host" [] h = "X-Key" -> "x-key" [] OTHER -> h
validateHeaderNames(hs) ==
    FirstRefusal([i \in 1..Len(hs) |->
        FirstRefusal(<<Unless(hs[i] # "a b", "token"), Unless(lower(hs[i]) \notin ForbiddenHeaders, "reserved"),
                       Unless(\A j \in 1..(i - 1) : lower(hs[j]) # lower(hs[i]), "twice")>>)])
validateHeaders(hs) == FirstRefusal(<<Unless(Len(hs) \in 1..2, "count"), validateHeaderNames(hs)>>)
validateUpstream(u) == Unless(u = "https://host", "upstream")
validateAllow(rules) ==
    FirstRefusal(<<Unless(rules # <<>>, "empty")>>
        \o [i \in 1..Len(rules) |-> FirstRefusal(<<Unless(rules[i].method = "GET", "method"),
                                                   Unless(isSafeRequestPath(rules[i].path), "path")>>)])
MaxRate == 3
validateRate(r) == Unless(r = 0 \/ r \in 1..MaxRate, "rate")
SecretGateway(g) == FirstRefusal(<<validateUpstream(g.upstream), validateHeaders(g.headers), validateAllow(g.allow), validateRate(g.rate)>>)
chooseRoute ==
    \/ \E p \in Bounded(Segments, 3) :
         LET g == [upstream |-> "https://host", headers |-> <<"X-Key">>, allow |-> <<[method |-> "GET", path |-> p]>>, rate |-> 0]
         IN p # <<>> /\ ask' = [about |-> "route", route |-> g, says |-> SecretGateway(g)]
    \/ \E u \in {"https://host", "http://host", "https://host/x"}, hs \in Bounded({"X-Key", "x-key", "Host", "a b"}, 3), r \in -1..(MaxRate + 1),
          m \in {"GET", "FETCH"} :
         LET g == [upstream |-> u, headers |-> hs, allow |-> <<[method |-> m, path |-> <<"a">>]>>, rate |-> r]
         IN ask' = [about |-> "route", route |-> g, says |-> SecretGateway(g)]

-----------------------------------------------------------------------------
(* The network of the volumes.                                             *)

Finding(level, code) == [level |-> level, code |-> code]
When1(c, f) == IF c THEN <<f>> ELSE <<>>
vpcFindings(vpc) ==
    IF vpc = "missing" THEN <<Finding("FAIL", "vpc-missing")>>
    ELSE When1(vpc = "pending", Finding("FAIL", "vpc-unavailable")) \o When1(vpc = "nodns", Finding("WARN", "vpc-dns-support"))
RequiredFreeIps == 2
subnetFinding(subnets, i) ==
    LET s == subnets[i]
    IN IF ~s.known THEN <<Finding("FAIL", "subnet-missing")>>
       ELSE When1(~s.ours, Finding("FAIL", "subnet-other-vpc"))
            \o When1(\E j \in 1..(i - 1) : subnets[j].known /\ subnets[j].az = s.az, Finding("FAIL", "subnet-same-az"))
            \o When1(s.ips < RequiredFreeIps, Finding("FAIL", "subnet-free-ips"))
subnetFindings(subnets) ==
    LET upTo[i \in 0..Len(subnets)] == IF i = 0 THEN <<>> ELSE upTo[i - 1] \o subnetFinding(subnets, i)
    IN upTo[Len(subnets)]
Zones(subnets) == {subnets[i].az : i \in {j \in 1..Len(subnets) : subnets[j].known}}
Worst(fs) == CASE \E i \in 1..Len(fs) : fs[i].level = "FAIL" -> "FAIL"
               [] (\A i \in 1..Len(fs) : fs[i].level # "FAIL") /\ (\E i \in 1..Len(fs) : fs[i].level = "WARN") -> "WARN"
               [] OTHER -> "OK"
\* routeTableOf: the table of the subnet, or the main one.
routeTableOf(s) == IF s.own THEN "nat" ELSE "other"
egressFinding(subnets) ==
    [level |-> "OK", code |-> "internet-egress", nat |-> Cardinality({i \in 1..Len(subnets) : routeTableOf(subnets[i]) = "nat"})]
assessNetwork(vpc, subnets) ==
    Worst(vpcFindings(vpc)
          \o IF vpc = "missing" THEN <<>>
             ELSE subnetFindings(subnets) \o When1(Cardinality(Zones(subnets)) = 1, Finding("WARN", "single-az"))
                  \o <<[level |-> egressFinding(subnets).level, code |-> egressFinding(subnets).code]>>)
deployVolumes(vpc, subnets) == assessNetwork(vpc, subnets) # "FAIL"
Subnets == [known : BOOLEAN, ours : BOOLEAN, az : {"a", "b"}, ips : {1, 2}, own : BOOLEAN]
chooseNetwork ==
    \E vpc \in {"missing", "pending", "nodns", "fine"}, s1, s2 \in Subnets :
        \E subnets \in {<<s1>>, <<s1, s2>>} :
            ask' = [about |-> "network", vpc |-> vpc, subnets |-> subnets, deployed |-> deployVolumes(vpc, subnets)]

-----------------------------------------------------------------------------
AskNext == ask.about = "none" /\ (chooseMounts \/ chooseFeatures \/ chooseSize \/ chooseRoute \/ chooseNetwork)

(* Paths that are accepted together are below a root and none of them is   *)
(* inside another, so no mount hides another (validateMountPaths).         *)
MountsApart ==
    ask.about = "mounts" /\ ask.says = "" =>
        \A i, j \in 1..Len(ask.paths) :
            /\ \A s \in 1..Len(ask.paths[i]) : ask.paths[i][s] \notin Dots \cup {""}
            /\ i # j => \E s \in 1..Len(ask.paths[i]) : s <= Len(ask.paths[j]) /\ ask.paths[i][s] # ask.paths[j][s]

(* No sandbox is paid for whose image is known to lack what a feature      *)
(* needs, nor a volume that its connector and role cannot reach            *)
(* (planFeatures).                                                         *)
RefusedUnlaunched ==
    ask.about = "features" /\ ask.says = "" =>
        LET o == ask.options
        IN /\ o.template = "base" => o.mounts = "none" /\ o.volumes = "none" /\ o.telemetry # "executionRole"
           /\ o.volumes # "none" => o.template # "caps" /\ o.role /\ o.egress = <<"vpc">>
           /\ o.events = "on" => o.logging = "cloudwatch"

(* The size that is launched holds what was asked for, and no smaller      *)
(* published one does (resolveSize); only the baseline has no suffix.      *)
SizeHolds ==
    ask.about = "size" /\ ask.says = "" =>
        /\ ask.got >= ask.asked /\ \A i \in 1..5 : Published[i] >= ask.asked => ask.got <= Published[i]
        /\ ask.suffix = "" <=> ask.got = 4

(* A path a route allows stays the same after one decoding: no segment of  *)
(* it climbs, splits or ends it (isSafeRequestPath).                       *)
RouteStaysPut ==
    ask.about = "route" /\ ask.says = "" =>
        LET p == ask.route.allow[1].path
        IN \A i \in 1..Len(p) : /\ p[i] \notin {".", "..", "%2e", "%2e%2e", "%2f", "%4", "%00", ";"}
                                /\ p[i] = "" => i = Len(p)

(* A stack is deployed only where every subnet can take its mount target:  *)
(* it exists in the VPC, has free addresses and a zone of its own          *)
(* (EfsVolumes.deploy, assessNetwork).                                     *)
OneTargetPerZone ==
    ask.about = "network" /\ ask.deployed =>
        /\ ask.vpc \in {"nodns", "fine"}
        /\ \A i \in 1..Len(ask.subnets) : ask.subnets[i].known /\ ask.subnets[i].ours /\ ask.subnets[i].ips >= 2
        /\ Cardinality(Zones(ask.subnets)) = Len(ask.subnets)

-----------------------------------------------------------------------------
(***************************************************************************)
(* ConfigureSandbox from the client (configure/base.ts and the sections in *)
(* s3-mounts, volumes, telemetry-export, lifecycle-events and              *)
(* secret-gateway): the sections of a launch are resolved, checked against *)
(* what the agent offers, sent, and waited for until each has allSettled;     *)
(* afterwards the handle of the gateways can apply its section again.      *)
(***************************************************************************)

SectionOrder == <<"s3_mounts", "secret_gateway", "efs_volumes", "telemetry_export", "lifecycle_events">>
Sections == {"s3_mounts", "secret_gateway", "efs_volumes", "telemetry_export", "lifecycle_events"}
Mounting == {"s3_mounts", "efs_volumes"}
PathsOf(s) == CASE s = "s3_mounts" -> {"m1", "m2"} [] s = "efs_volumes" -> {"v1"} [] OTHER -> {}
\* settleTimeoutMs of a section, in polls: 15 s of the mounts, 65 s of the volumes, 0 of the others.
SettleTime(s) == CASE s = "s3_mounts" -> 1 [] s = "efs_volumes" -> 2 [] OTHER -> 0
MountPhases == {"pending", "mounted", "failed", "degraded"}
MaxSecretRotations == 1

ConfInit ==
    conf = [at |-> "none", sections |-> {}, flags |-> {}, recovered |-> FALSE, pending |-> <<>>, phase |-> <<>>, clock |-> 0, deadline |-> 0,
            mountedOnce |-> {}, error |-> "", vault |-> 0, cache |-> -1, applied |-> -1, since |-> 0, readFinal |-> FALSE]

\* plannedSections: those of the plan, then telemetry, then events.
plannedSections(S) == SelectSeq(SectionOrder, LAMBDA s : s \in S)
\* Alone, together, and all of them: the sections that apply at once are interchangeable.
Plans == {{"s3_mounts"}, {"efs_volumes"}, Mounting, {"secret_gateway"}, {"s3_mounts", "secret_gateway"},
          {"telemetry_export", "lifecycle_events"}, Sections}
planSections ==
    /\ conf.at = "none"
    /\ \E S \in Plans :
         conf' = [conf EXCEPT !.at = "resolve", !.sections = S,
                              !.phase = [p \in UNION {PathsOf(s) : s \in S} |-> "pending"]]

Throw(e) == conf' = [conf EXCEPT !.at = "failed", !.error = e]
\* resolveSections: a factory may read secrets; the first that fails fails all.
resolveSections ==
    /\ conf.at = "resolve"
    /\ \/ conf' = [conf EXCEPT !.at = "capabilities"]
       \/ "telemetry_export" \in conf.sections /\ Throw("SecretError")
\* The flags of Health: absent from an agent older than ConfigureSandbox.
healthFeatures ==
    /\ conf.at = "capabilities"
    /\ \/ Throw("UnimplementedError")                       \* requireConfigureSupport
       \/ \E missing \in {{}} \cup {{s} : s \in conf.sections} : conf' = [conf EXCEPT !.at = "gate", !.flags = Sections \ missing]
requireCapabilities ==
    /\ conf.at = "gate"
    /\ IF conf.sections \subseteq conf.flags THEN conf' = [conf EXCEPT !.at = "fill"] ELSE Throw("UnimplementedError")
\* buildConfigureRequest: the gateway puts the secrets its cache holds into the request.
buildConfigureRequest ==
    /\ conf.at = "fill"
    /\ conf' = [conf EXCEPT !.at = "configure", !.cache = IF "secret_gateway" \in conf.sections THEN conf.vault ELSE @,
                            !.applied = IF "secret_gateway" \in conf.sections THEN conf.vault ELSE @]

-----------------------------------------------------------------------------
(* The answer, section by section, and the wait.                           *)

checkResult(code) ==
    CASE code \in {"APPLIED", "PENDING"} -> "" [] code = "UNSUPPORTED" -> "UnimplementedError" [] OTHER -> "SectionError"
\* Nothing but the mounts answers PENDING; an answer that refuses one section refuses the create.
Answer(s) == {"APPLIED", "UNSUPPORTED", "FAILED"} \cup IF s \in Mounting THEN {"PENDING"} ELSE {}
LongestOf(ss) == IF \E i \in 1..Len(ss) : SettleTime(ss[i]) = 2 THEN 2 ELSE IF ss = <<>> THEN 0 ELSE 1
settleTimeoutMs(ss) == LongestOf(ss)
checkConfigureResponse ==
    /\ conf.at = "configure"
    /\ \/ \E s \in conf.sections, code \in {"UNSUPPORTED", "FAILED"} : code \in Answer(s) /\ Throw(checkResult(code))
       \/ \E P \in SUBSET (conf.sections \cap Mounting) :
            LET waiting == plannedSections(P)
            IN conf' = [conf EXCEPT !.at = "settle", !.pending = waiting, !.deadline = settleTimeoutMs(waiting),
                           !.phase = [p \in DOMAIN @ |-> IF \E s \in conf.sections \ P : p \in PathsOf(s) THEN "mounted" ELSE @[p]],
                           !.mountedOnce = UNION {PathsOf(s) : s \in conf.sections \ P}]
configureFails == conf.at \in {"configure", "settle"} /\ Throw("TransportError")

\* rayd mounts, fails or loses a mount while the client polls.
mountMoves ==
    /\ conf.at = "settle"
    /\ \E p \in DOMAIN conf.phase, ph \in MountPhases \ {"pending"} :
         /\ conf.phase[p] # "failed" /\ (ph = "degraded" => conf.phase[p] = "mounted") /\ conf.phase[p] # ph
         /\ conf' = [conf EXCEPT !.phase[p] = ph]
clockTicks == conf.at = "settle" /\ conf.clock < 3 /\ conf' = [conf EXCEPT !.clock = @ + 1]

settledSection(s) == \A p \in PathsOf(s) : conf.phase[p] = "mounted"
failedSection(s) == \E p \in PathsOf(s) : conf.phase[p] = "failed"
\* checkStatus of one section: <<allSettled, error>>.
checkStatus(s, final) ==
    CASE failedSection(s) -> "MountError"
      [] ~failedSection(s) /\ settledSection(s) -> "allSettled"
      [] ~failedSection(s) /\ ~settledSection(s) /\ final -> "MountTimeout"
      [] OTHER -> "pending"
FirstError(final) ==
    LET bad == SelectSeq(conf.pending, LAMBDA s : checkStatus(s, final) \in {"MountError", "MountTimeout"})
    IN IF bad = <<>> THEN "" ELSE checkStatus(bad[1], final)
stillPending(final) == SelectSeq(conf.pending, LAMBDA s : checkStatus(s, final) = "pending")
waitForSections ==
    /\ conf.at = "settle" /\ conf.pending # <<>>
    /\ LET final == conf.clock >= conf.deadline
       IN IF FirstError(final) # ""
          THEN conf' = [conf EXCEPT !.at = "failed", !.error = FirstError(final), !.readFinal = final]
          ELSE conf' = [conf EXCEPT !.pending = stillPending(final), !.readFinal = final,
                           !.mountedOnce = @ \cup {p \in DOMAIN conf.phase : conf.phase[p] = "mounted"}]
allSettled == conf.at = "settle" /\ conf.pending = <<>> /\ conf' = [conf EXCEPT !.at = "ready"]

-----------------------------------------------------------------------------
(* The handle of the gateways.                                             *)

rotateSecret == conf.at \in {"ready", "refill"} /\ conf.vault < MaxSecretRotations /\ conf' = [conf EXCEPT !.vault = @ + 1]
\* connect(): the handle of another process only reads the status.
recoveredGateways ==
    conf.at = "ready" /\ "secret_gateway" \in conf.flags /\ ~conf.recovered /\ conf' = [conf EXCEPT !.recovered = TRUE]
forgetCachedValues == conf' = [conf EXCEPT !.at = "refill", !.cache = -1, !.since = conf.vault]
refresh ==
    /\ conf.at = "ready" /\ "secret_gateway" \in conf.sections
    /\ IF conf.recovered THEN UNCHANGED conf ELSE forgetCachedValues
reapply ==
    /\ conf.at = "refill"
    /\ LET value == IF conf.cache = -1 THEN conf.vault ELSE conf.cache
       IN conf' = [conf EXCEPT !.at = "refreshed", !.cache = value, !.applied = value]
keepGoing == conf.at = "refreshed" /\ conf' = [conf EXCEPT !.at = "ready"]

ConfNext ==
    \/ planSections \/ resolveSections \/ healthFeatures \/ requireCapabilities \/ buildConfigureRequest
    \/ checkConfigureResponse \/ configureFails \/ mountMoves \/ clockTicks \/ waitForSections \/ allSettled
    \/ rotateSecret \/ recoveredGateways \/ refresh \/ reapply \/ keepGoing

(* A create that returns has read every one of its mounts and volumes as   *)
(* mounted; none that was never mounted passes as allSettled                  *)
(* (Sandbox.#waitForSections, checkStatus).                                    *)
ReadyMeansMounted == conf.at = "ready" => conf.mountedOnce = UNION {PathsOf(s) : s \in conf.sections}

(* A section is given up as late only after its own time to settle has     *)
(* passed, whichever other sections wait with it (settleTimeoutMs).        *)
OwnTimeToSettle ==
    conf.error = "MountTimeout" => \A i \in 1..Len(conf.pending) : ~settledSection(conf.pending[i]) => conf.clock >= SettleTime(conf.pending[i])

(* After a refresh the gateway injects a secret no older than the refresh  *)
(* (GatewaySection.forgetCachedValues, afterApply).                        *)
RefreshedSecret == conf.at = "refreshed" => conf.applied >= conf.since

=============================================================================
