--------------------------- MODULE SecretHandling ---------------------------
(***************************************************************************)
(* Secrets of the TypeScript SDK (secrets/store.ts, secrets/names.ts,      *)
(* agent/secret-env-deploy.ts): one secret of Secrets                      *)
(* Manager that two deployers publish (exists, then update or create), that *)
(* somebody may rotate or destroy meanwhile.                               *)
(***************************************************************************)
EXTENDS Integers, FiniteSets, Sequences, SequencesExt

VARIABLES vault, keyring, spec

Deployers2 == {"d1", "d2"}
MaxWrites == 3                         \* bound on versions
MaxRotations == 2                      \* bound on rotations made outside of Rayito
MaxDestroys == 1                       \* bound on destroys

NewPublisher == [at |-> "idle", val |-> 0, ver |-> 0]

\* The secret: `by` are the values of Rayito's version tokens, `cur` and `prev` the
\* tokens that carry AWSCURRENT and AWSPREVIOUS (0: a version of somebody else).
VaultInit ==
    vault = [on |-> FALSE, st |-> "absent", by |-> [v \in 1..MaxWrites |-> 0], cur |-> 0, prev |-> 0,
             rotations |-> 0, destroyed |-> 0,
             pub |-> [d \in Deployers2 |-> NewPublisher], acked |-> {}]

chooseVault == ~vault.on /\ vault' = [vault EXCEPT !.on = TRUE]

-----------------------------------------------------------------------------
(* SecretStore: versions are numbered by the token of the request.         *)

\* latestVersion: the highest Rayito token among the labelled versions.
latestVersion == IF vault.cur >= vault.prev THEN vault.cur ELSE vault.prev
versionToken(v) == v

PubAt(d, s) == vault.on /\ vault.pub[d].at = s
Publish(d, s) == [vault EXCEPT !.pub[d].at = s]

\* The token becomes the current version.
Written(v, val) == [vault EXCEPT !.by[v] = val, !.prev = vault.cur, !.cur = v, !.st = "live"]

startPublish(d) ==
    /\ PubAt(d, "idle")
    /\ vault' = [vault EXCEPT !.pub[d] = [at |-> "exists", val |-> IF d = "d1" THEN 1 ELSE 2, ver |-> 0]]

\* exists: a secret that is being deleted counts as not found (#describe).
existsSecret(d) ==
    /\ PubAt(d, "exists")
    /\ vault' = Publish(d, IF vault.st = "live" THEN "describe" ELSE "create")

\* create and #createWithRetry: retried while the name is still being deleted, then given up.
createSecret(d) ==
    /\ PubAt(d, "create")
    /\ vault' =
         CASE vault.st = "live" -> Publish(d, "refused")
           [] vault.st = "deleting" -> Publish(d, "backoff")
           [] vault.st = "absent" ->
                [Written(versionToken(1), vault.pub[d].val) EXCEPT
                    !.pub[d].at = "done", !.pub[d].ver = 1, !.acked = @ \cup {<<1, vault.pub[d].val>>}]
createAgain(d) ==
    /\ PubAt(d, "backoff")
    /\ \/ vault' = Publish(d, "create")
       \/ vault.st = "deleting" /\ vault' = Publish(d, "gaveup")

\* update: reads the versions, then writes the next one.
describeSecret(d) ==
    /\ PubAt(d, "describe")
    /\ IF vault.st # "live" \/ latestVersion >= MaxWrites THEN vault' = Publish(d, "refused")
       ELSE vault' = [vault EXCEPT !.pub[d].at = "put", !.pub[d].ver = latestVersion + 1]

\* putSecretValue: a token already used is refused, unless it carries the same
\* value (then nothing is written).
putSecretValue(d) ==
    LET p == vault.pub[d] IN
    /\ PubAt(d, "put")
    /\ IF vault.st # "live" \/ vault.by[p.ver] \notin {0, p.val} THEN vault' = Publish(d, "refused")
       ELSE vault' = [(IF vault.by[p.ver] = p.val THEN vault ELSE Written(p.ver, p.val)) EXCEPT
                        !.pub[d].at = "done", !.acked = @ \cup {<<p.ver, p.val>>}]

\* destroy: the name stays taken until the deletion ends.
destroySecret ==
    /\ vault.on /\ vault.st = "live" /\ vault.destroyed < MaxDestroys
    /\ vault' = [vault EXCEPT !.st = "deleting", !.destroyed = @ + 1, !.acked = {}]
deletionEnds ==
    /\ vault.st = "deleting"
    /\ vault' = [vault EXCEPT !.st = "absent", !.cur = 0, !.prev = 0, !.by = [v \in 1..MaxWrites |-> 0]]
\* A rotation made elsewhere: its version is none of Rayito's.
rotateElsewhere ==
    /\ vault.on /\ vault.st = "live" /\ vault.rotations < MaxRotations
    /\ vault' = [vault EXCEPT !.prev = vault.cur, !.cur = 0, !.rotations = @ + 1]

-----------------------------------------------------------------------------
VaultNext ==
    \/ chooseVault \/ destroySecret \/ deletionEnds \/ rotateElsewhere
    \/ \E d \in Deployers2 : \/ startPublish(d) \/ existsSecret(d) \/ createSecret(d) \/ createAgain(d)
                             \/ describeSecret(d) \/ putSecretValue(d)

\* The version a publisher was told it wrote holds the value it wrote, whatever the
\* other deployer, a rotation or a failed attempt did (update, versionToken).
AckedVersionHolds == \A a \in vault.acked : vault.st = "live" => vault.by[a[1]] = a[2]

-----------------------------------------------------------------------------
(***************************************************************************)
(* SecretCache (secrets/cache.ts): the entries of a cache, the flight that *)
(* concurrent readers of one key share, and the invalidations that race    *)
(* with it.  A value is the number of invalidations that had happened      *)
(* when Secrets Manager read it.                                           *)
(***************************************************************************)

Readers == {"r1", "r2"}
FlightIds == 1..3
MaxDrops == 2                          \* bound on invalidations
MaxGets == 4                           \* bound on reads
Ttl == 2                               \* ttlSeconds
LastSecond == 3

NoEntry == [val |-> 0, exp |-> 0, landed |-> 0]
NoFlight == [at |-> "none", gen |-> 0, val |-> 0]
NewReader == [at |-> "idle", floor |-> 0, flight |-> 0]

KeyringInit ==
    keyring = [on |-> FALSE, now |-> 0, gen |-> 0, entry |-> NoEntry, slot |-> 0,
               flights |-> [f \in FlightIds |-> NoFlight], reader |-> [r \in Readers |-> NewReader],
               served |-> {}, gets |-> 0]

chooseKeyring == ~keyring.on /\ keyring' = [keyring EXCEPT !.on = TRUE]

\* sweep and #fresh: an entry is gone when its time has come.
freshEntry == IF keyring.entry.exp <= keyring.now THEN NoEntry ELSE keyring.entry

FreeFlights == {f \in FlightIds : keyring.flights[f].at = "none"}

Waits(r, f) == [keyring EXCEPT !.entry = freshEntry, !.gets = @ + 1, !.slot = f,
                               !.reader[r] = [at |-> "waiting", floor |-> keyring.gen, flight |-> f]]

\* get: a fresh entry, the flight under way, or a new flight.
getSecret(r) ==
    /\ keyring.on /\ keyring.reader[r].at = "idle" /\ keyring.gets < MaxGets
    /\ \/ /\ freshEntry # NoEntry
          /\ keyring' = [keyring EXCEPT !.gets = @ + 1, !.reader[r] = [NewReader EXCEPT !.at = "served"],
                           !.served = {[val |-> freshEntry.val, floor |-> keyring.gen,
                                        age |-> keyring.now - freshEntry.landed]}]
       \/ /\ freshEntry = NoEntry /\ keyring.slot # 0
          /\ keyring' = Waits(r, keyring.slot)
       \/ /\ freshEntry = NoEntry /\ keyring.slot = 0
          /\ \E f \in FreeFlights :
                /\ \A g \in FreeFlights : f <= g
                /\ keyring' = [Waits(r, f) EXCEPT !.flights[f] = [at |-> "asked", gen |-> keyring.gen, val |-> 0]]

\* Secrets Manager reads; the answer travels.
readValue(f) ==
    /\ keyring.flights[f].at = "asked"
    /\ \E a \in {"read", "failed"} :
          keyring' = [keyring EXCEPT !.flights[f].at = a, !.flights[f].val = keyring.gen]

\* An answer is kept only when nothing was invalidated since the flight began, and
\* frees the slot only if the slot is still its own.
Bug_keepLate(f) == TRUE
keepsEntry(f) == keyring.flights[f].gen = keyring.gen
slotAfter(f) == IF keyring.slot = f THEN 0 ELSE keyring.slot

landFlight(f) ==
    LET fl == keyring.flights[f]
        mine == {r \in Readers : keyring.reader[r].flight = f}
    IN /\ fl.at \in {"read", "failed"}
       /\ keyring' = [keyring EXCEPT
            !.flights[f] = NoFlight, !.slot = slotAfter(f),
            !.entry = IF fl.at = "read" /\ keepsEntry(f)
                      THEN [val |-> fl.val, exp |-> keyring.now + Ttl, landed |-> keyring.now] ELSE @,
            !.reader = [r \in Readers |-> IF r \in mine THEN [NewReader EXCEPT !.at = "served"] ELSE keyring.reader[r]],
            !.served = IF fl.at = "failed" THEN {}
                       ELSE {[val |-> fl.val, floor |-> keyring.reader[r].floor, age |-> 0] : r \in mine}]

\* invalidate: entries and flights are forgotten, and what is in the air will not be kept.
slotInvalidated == 0
invalidateSecret ==
    /\ keyring.on /\ keyring.gen < MaxDrops
    /\ keyring' = [keyring EXCEPT !.gen = @ + 1, !.entry = NoEntry, !.slot = slotInvalidated]

readAgain(r) ==
    /\ keyring.reader[r].at = "served"
    /\ keyring' = [keyring EXCEPT !.reader[r] = NewReader, !.served = {}]

secondPasses ==
    /\ keyring.on /\ keyring.now < LastSecond /\ keyring.entry # NoEntry
    /\ keyring' = [keyring EXCEPT !.now = @ + 1]

KeyringNext ==
    \/ chooseKeyring \/ invalidateSecret \/ secondPasses
    \/ \E r \in Readers : getSecret(r) \/ readAgain(r)
    \/ \E f \in FlightIds : readValue(f) \/ landFlight(f)

\* A reader that asks after an invalidation never gets a value read before it: a late
\* flight is neither joined nor kept (get, invalidate, #generation).
NothingStaleAfterInvalidate == \A s \in keyring.served : s.val >= s.floor

\* Nobody is served an entry that is Ttl old (sweep, #fresh).
NothingExpired == \A s \in keyring.served : s.age < Ttl

\* While nothing is invalidated, readers of a key share one request to Secrets Manager.
OneRequestPerKey ==
    \A f, g \in FlightIds :
       f # g /\ keyring.flights[f].at # "none" /\ keyring.flights[g].at # "none"
          => keyring.flights[f].gen # keyring.flights[g].gen

-----------------------------------------------------------------------------
(***************************************************************************)
(* The environment an agent gets from secrets: the specification a project *)
(* writes (agent/secret-env.ts), its expansion by the SDK (MicroVMs) and by *)
(* the host in Python (AgentCore), and the environment a sandbox call gets *)
(* from its secrets (secrets/inject.ts).  Names are what the code tells    *)
(* apart: valid or not, reserved or not, equal after the prefix.           *)
(***************************************************************************)

SecretKeys == {"A", "1x", "R"}
EnvPrefixes == {"", "P_"}
MaxBytes == 2                          \* AGENT_SECRET_ENV_MAX_TOTAL_BYTES; a value is one byte

withPrefix(p, k) == IF p = "" THEN k
                    ELSE CASE k = "A" -> "P_A" [] k = "1x" -> "P_1x" [] OTHER -> "P_R"
validName(n) == n # "1x"
isReservedName(n) == n = "R"

\* A secret string: not JSON, or a JSON object whose values are strings or not.
PlainText == [json |-> FALSE, has |-> [k \in {} |-> ""]]
Documents == {PlainText} \cup {[json |-> TRUE, has |-> h] : h \in UNION {[ks -> {"str", "num"}] : ks \in SUBSET SecretKeys}}
AllKeys == {"*"}
Sources == [keys : {AllKeys, {"A"}, {"A", "1x"}}, prefix : EnvPrefixes]
References == [name : {"A", "P_A", "R", "1x"}, key : {"", "A"}]

SpecInit == spec = [on |-> FALSE, doc |-> PlainText, env |-> {}, from |-> <<>>, envs |-> {}, bound |-> {}, call |-> {}]

\* Two sources share one secret, as an env file published twice does.
chooseSpec ==
    /\ ~spec.on
    /\ \E d \in Documents, e \in {{}} \cup {{r} : r \in References},
          f \in {<<>>} \cup {<<s>> : s \in Sources} \cup {<<s, t>> : s, t \in Sources} :
          spec' = [spec EXCEPT !.on = TRUE, !.doc = d, !.env = e, !.from = f]

-----------------------------------------------------------------------------
(* The SDK: agent/secret-env.ts.                                           *)

Fails(code) == [code |-> code, vars |-> {}]
Gives(vars) == [code |-> "", vars |-> vars]

expandReference(ref, doc) ==
    IF ref.key = "" THEN ""
    ELSE IF ~doc.json THEN "invalid"
    ELSE IF ref.key \notin DOMAIN doc.has THEN "invalid_key"
    ELSE IF doc.has[ref.key] # "str" THEN "invalid" ELSE ""

\* allowListed: each listed key must be there; none is dropped in silence.
chosenKeys(src, doc) == IF src.keys = AllKeys THEN DOMAIN doc.has ELSE src.keys

expandSource(src, doc) ==
    IF ~doc.json THEN Fails("invalid")
    ELSE LET keys == chosenKeys(src, doc)
             names == {withPrefix(src.prefix, k) : k \in keys}
         IN IF ~(keys \subseteq DOMAIN doc.has) THEN Fails("invalid_key")
              ELSE IF \E n \in names : ~validName(n) THEN Fails("invalid_key")
              ELSE IF \E n \in names : isReservedName(n) THEN Fails("reserved")
              ELSE IF \E k \in keys : doc.has[k] # "str" THEN Fails("invalid")
              ELSE Gives(names)

mergeSource(acc, more) ==
    IF more.code # "" THEN more
    ELSE IF acc.vars \cap more.vars # {} THEN Fails("invalid_key") ELSE Gives(acc.vars \cup more.vars)

checkName(n) == IF ~validName(n) THEN "invalid_key" ELSE IF isReservedName(n) THEN "reserved" ELSE ""

\* expandSpec: references, then sources in order, then the size; the first failure ends it.
expandSpec(sp) ==
    LET refCode(r) == IF checkName(r.name) # "" THEN checkName(r.name) ELSE expandReference(r, sp.doc)
        refs == IF \E r \in sp.env : refCode(r) # ""
                THEN Fails(refCode(CHOOSE r \in sp.env : refCode(r) # ""))
                ELSE Gives({r.name : r \in sp.env})
        Step(acc, src) == IF acc.code # "" THEN acc ELSE mergeSource(acc, expandSource(src, sp.doc))
        all == FoldLeft(Step, refs, sp.from)
    IN IF all.code # "" THEN all
       ELSE IF Cardinality(all.vars) > MaxBytes THEN Fails("invalid") ELSE all

-----------------------------------------------------------------------------
(* The host: secret_env.py.                                                *)

hostSource(src, doc) ==
    LET keys == IF src.keys = AllKeys /\ doc.json THEN DOMAIN doc.has ELSE src.keys
    IN [names |-> {withPrefix(src.prefix, k) : k \in keys},
        good |-> /\ doc.json /\ keys \subseteq DOMAIN doc.has
                 /\ \A k \in keys : /\ validName(withPrefix(src.prefix, k))
                                    /\ ~isReservedName(withPrefix(src.prefix, k))
                                    /\ doc.has[k] = "str"]
hostReference(ref, doc) ==
    /\ validName(ref.name) /\ ~isReservedName(ref.name)
    /\ ref.key # "" => doc.json /\ ref.key \in DOMAIN doc.has /\ doc.has[ref.key] = "str"

\* expand_spec: nothing is exported unless everything is.
expand_spec(sp) ==
    LET env == {r.name : r \in sp.env}
        parts == [i \in DOMAIN sp.from |-> hostSource(sp.from[i], sp.doc)]
        all == env \cup UNION {parts[i].names : i \in DOMAIN parts}
        good == /\ \A r \in sp.env : hostReference(r, sp.doc)
                /\ \A i \in DOMAIN parts : parts[i].good /\ parts[i].names \cap env = {}
                /\ \A i, j \in DOMAIN parts : i # j => parts[i].names \cap parts[j].names = {}
                /\ Cardinality(all) <= MaxBytes
    IN IF good THEN all ELSE {}

-----------------------------------------------------------------------------
(* A sandbox call: SecretEnvs.apply and secretEnvs.                        *)

EnvNames == {"A", "B"}
chooseCall ==
    /\ ~spec.on
    /\ \E e, b, c \in SUBSET EnvNames :
          spec' = [spec EXCEPT !.on = TRUE, !.envs = e, !.bound = b, !.call = c]

\* The references of the call win over those bound to the sandbox; a name that is
\* also a plain variable is refused.  Each name gives where its value comes from.
mergedRefs(sp) == [n \in sp.bound \cup sp.call |-> IF n \in sp.call THEN "call" ELSE "bound"]
secretEnvs(sp) ==
    LET refs == mergedRefs(sp)
    IN IF DOMAIN refs \cap sp.envs # {} THEN [n \in {} |-> ""]
       ELSE [n \in sp.envs \cup DOMAIN refs |-> IF n \in sp.envs THEN "plain" ELSE refs[n]]

SpecNext == chooseSpec \/ chooseCall

\* A project that passes the SDK's expansion starts with the same variables in
\* AgentCore, and one that is refused there is refused here (the two expansions).
HostAgreesWithSdk ==
    spec.on => /\ (expandSpec(spec).code = "") <=> (expand_spec(spec) # {} \/ (spec.env = {} /\
                       \A i \in DOMAIN spec.from : hostSource(spec.from[i], spec.doc) = [names |-> {}, good |-> TRUE]))
               /\ expandSpec(spec).vars = expand_spec(spec)

\* No expansion sets a name of the runtime, and one name never has two origins:
\* as many variables as references and chosen keys (isReservedName, expandSpec).
EachVariableOnce ==
    spec.on /\ expandSpec(spec).code = "" =>
        /\ \A n \in expandSpec(spec).vars : validName(n) /\ ~isReservedName(n)
        /\ Cardinality(expandSpec(spec).vars) =
             Cardinality(spec.env) + FoldLeft(LAMBDA s, src : s + Cardinality(chosenKeys(src, spec.doc)), 0, spec.from)

\* The secrets of a call override those of the sandbox, and a plain variable is
\* never replaced by a secret nor the other way round (secretEnvs).
CallSecretsWin ==
    LET env == secretEnvs(spec)
    IN /\ \A n \in DOMAIN env : /\ n \in spec.envs <=> env[n] = "plain"
                                /\ n \in spec.call => env[n] = "call"
       /\ spec.envs \cap (spec.bound \cup spec.call) # {} => DOMAIN env = {}

=============================================================================
