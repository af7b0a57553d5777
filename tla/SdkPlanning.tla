------------------------------ MODULE SdkPlanning -----------------------------
(***************************************************************************)
(* What the TypeScript SDK plans about time before it asks anybody         *)
(* (sandbox/lifecycle.ts, sandbox/launch.ts, limits.ts): the lifetime and  *)
(* the idle policy of a launch, the timeout with which connect, resume and *)
(* auto-resume reopen an expired deadline, and the delay of the client's   *)
(* pause trigger.  Times are scaled, in the order of the code's constants. *)
(*                                                                         *)
(* The variable plan holds one question and its answer: kind, in, out.     *)
(* The second half (variable terms) is what the SDK settles before and     *)
(* around a launch: egress policies, pool configurations, staging          *)
(* prefixes, links and parts, and the streams that save or restore a home. *)
(***************************************************************************)
EXTENDS Integers, Sequences, SequencesExt

VARIABLES plan, terms

NoTime == -1                      \* undefined
IdleNull == -2                    \* idle: null, no idle policy
MaxLifetime == 40
CapMargin == 3
MinMaxLifetime == 6
DefaultMaxIdle == 10
PauseFallbackIdle == 3
MinIdle == 3
MinSetTimeout == 1
AutoResumeMin == 10
CapSlack == 2
TriggerSlack == 1

Rejected == [ok |-> FALSE]
SmallerOf(a, b) == IF a < b THEN a ELSE b
LargerOf(a, b) == IF a > b THEN a ELSE b

-----------------------------------------------------------------------------
(* Launch.                                                                 *)

defaultMaxLifetime(t) == SmallerOf(LargerOf(t + CapMargin, MinMaxLifetime), MaxLifetime)

\* resolveMaxLifetimeSeconds; Rejected is any of its errors.
validMaxLifetime(m) == m >= MinMaxLifetime /\ m <= MaxLifetime
CapOf(i) == IF i.maxLifetime = NoTime THEN defaultMaxLifetime(i.timeout) ELSE i.maxLifetime

\* The defaults shrink when they do not fit; what the caller asks does not.
fitDefaultIdle(idle, bound) == IF idle = NoTime /\ DefaultMaxIdle >= bound THEN IdleNull ELSE idle
fitDefaultPauseIdle(idle, cap) == IF idle = NoTime /\ DefaultMaxIdle >= cap THEN PauseFallbackIdle ELSE idle
MaxIdle(idle) == IF idle = NoTime THEN DefaultMaxIdle ELSE idle

\* resolveIdlePolicy: a missing suspended duration fills the lifetime.
resolveIdlePolicy(idle, suspended, duration) ==
    IF idle = IdleNull THEN [ok |-> TRUE, idle |-> 0, suspended |-> 0]
    ELSE IF MaxIdle(idle) < MinIdle \/ MaxIdle(idle) >= duration THEN Rejected
    ELSE [ok |-> TRUE, idle |-> MaxIdle(idle),
          suspended |-> IF suspended = NoTime THEN duration - MaxIdle(idle) ELSE suspended]

pausePlan(i, cap, idle) ==
    IF idle = IdleNull \/ i.suspended # NoTime \/ MaxIdle(idle) < MinIdle \/ MaxIdle(idle) >= cap
    THEN Rejected
    ELSE [ok |-> TRUE, managed |-> TRUE, timeout |-> i.timeout, duration |-> cap,
          idle |-> MaxIdle(idle), suspended |-> cap - MaxIdle(idle)]

WithBlock(i, managed, duration, policy) ==
    IF ~policy.ok THEN Rejected
    ELSE [ok |-> TRUE, managed |-> managed, timeout |-> i.timeout, duration |-> duration,
          idle |-> policy.idle, suspended |-> policy.suspended]

resolveLifecycle(i) ==
    LET cap == CapOf(i) IN
    IF i.maxLifetime = NoTime /\ i.onTimeout = "unset"
    THEN WithBlock(i, FALSE, i.timeout,
                   resolveIdlePolicy(fitDefaultIdle(i.idle, i.timeout), i.suspended, i.timeout))
    ELSE IF ~validMaxLifetime(cap) \/ i.timeout > cap THEN Rejected
    ELSE IF i.onTimeout = "pause" THEN pausePlan(i, cap, fitDefaultPauseIdle(i.idle, cap))
    ELSE WithBlock(i, TRUE, cap, resolveIdlePolicy(fitDefaultIdle(i.idle, cap), i.suspended, cap))

-----------------------------------------------------------------------------
(* Reopening a deadline that passed.  out = NoTime: nothing is sent.       *)

reopenTimeout(l, now) == SmallerOf(l.timeout, l.cap - now - CapSlack)

connectExtension(l, requested, now) ==
    IF l.phase \in {"absent", "unmanaged"}
    THEN [ok |-> requested = NoTime, out |-> NoTime]
    ELSE IF requested # NoTime THEN [ok |-> TRUE, out |-> requested]
    ELSE IF l.phase = "active" THEN [ok |-> TRUE, out |-> NoTime]
    ELSE [ok |-> reopenTimeout(l, now) >= MinSetTimeout, out |-> reopenTimeout(l, now)]

\* After a deadline pause the client reopens only what a new generation
\* resumed, and only with auto-resume.
resumedSince(paused, generation) == paused # NoTime /\ generation > paused
autoResumeReopen(l, paused, generation, now) ==
    LET t == SmallerOf(LargerOf(l.timeout, AutoResumeMin), l.cap - now - CapSlack) IN
    IF /\ resumedSince(paused, generation)
       /\ l.phase = "expired" /\ l.onTimeout = "pause" /\ l.autoResume /\ t >= MinSetTimeout
    THEN t ELSE NoTime

pauseTriggerDelay(l, now) ==
    IF l.onTimeout # "pause" THEN NoTime
      ELSE IF l.phase = "expired" THEN 0
      ELSE IF l.phase # "active" THEN NoTime
      ELSE LargerOf(0, l.deadline - now) + TriggerSlack

-----------------------------------------------------------------------------
LaunchInputs ==
    [timeout : {1, 3, 7, 10, 11, 37, 38, 40}, maxLifetime : {NoTime, 5, 6, 11, 40, 41},
     onTimeout : {"unset", "kill", "pause"}, idle : {NoTime, IdleNull, 2, 3, 11},
     suspended : {NoTime, 7}]
Lifecycles ==
    {l \in [phase : {"absent", "unmanaged", "active", "resumeGrace", "expired"}, timeout : {1, 5, 20},
            cap : {4, 12, 30}, deadline : {3, 9}, onTimeout : {"kill", "pause"}, autoResume : BOOLEAN] :
        l.deadline <= l.cap}

PlanInit == plan = [kind |-> "none"]
askLaunch ==
    \E i \in LaunchInputs :
        (i.idle = IdleNull => i.suspended = NoTime) /\ plan' = [kind |-> "launch", in |-> i, out |-> resolveLifecycle(i)]
askConnect ==
    \E l \in Lifecycles, r \in {NoTime, 3}, now \in 0..12 :
        plan' = [kind |-> "connect", in |-> l, requested |-> r, now |-> now,
                 out |-> connectExtension(l, r, now)]
askReopen ==
    \E l \in Lifecycles, paused \in {NoTime, 1}, generation \in 1..2, now \in 0..12 :
        plan' = [kind |-> "reopen", in |-> l, paused |-> paused, generation |-> generation,
                 now |-> now, out |-> autoResumeReopen(l, paused, generation, now)]
askTrigger ==
    \E l \in Lifecycles, now \in 0..12 :
        plan' = [kind |-> "trigger", in |-> l, now |-> now, out |-> pauseTriggerDelay(l, now)]
PlanNext == plan.kind = "none" /\ (askLaunch \/ askConnect \/ askReopen \/ askTrigger)

-----------------------------------------------------------------------------
\* What is accepted fits the platform: the deadline within the lifetime, the
\* idle time under it, and a pause plan spends the rest suspended.
AcceptedPlansFit ==
    (plan.kind = "launch" /\ plan.out.ok) =>
        /\ plan.out.timeout <= plan.out.duration /\ plan.out.duration <= MaxLifetime
        /\ plan.out.idle < plan.out.duration
        /\ plan.in.onTimeout = "pause" => plan.out.idle >= MinIdle /\ plan.out.idle + plan.out.suspended = plan.out.duration

\* A caller who gives only a legal timeout is never refused, whatever it
\* chose for onTimeout: the defaults make room for each other.
DefaultsAlwaysFit ==
    (plan.kind = "launch" /\ plan.in.maxLifetime = NoTime /\ plan.in.idle = NoTime
        /\ plan.in.suspended = NoTime) => plan.out.ok

\* A timeout the client computes by itself is one the agent accepts: at
\* least the minimum, and within the cap even if the call takes CapSlack.
ReopensWithinCap ==
    /\ (plan.kind = "connect" /\ plan.requested = NoTime /\ plan.out.ok /\ plan.out.out # NoTime) =>
          plan.out.out >= MinSetTimeout /\ plan.now + CapSlack + plan.out.out <= plan.in.cap
    /\ (plan.kind = "reopen" /\ plan.out # NoTime) =>
          plan.out >= MinSetTimeout /\ plan.now + CapSlack + plan.out <= plan.in.cap

\* The client reopens by itself only after a resume that followed its own
\* pause, and its trigger never fires before the deadline.
NoUnaskedReopen ==
    /\ (plan.kind = "reopen" /\ plan.out # NoTime) =>
          plan.in.phase = "expired" /\ plan.in.autoResume /\ plan.generation > plan.paused
    /\ (plan.kind = "trigger" /\ plan.out # NoTime) =>
          plan.in.phase = "expired" \/ plan.now + plan.out > plan.in.deadline

-----------------------------------------------------------------------------
(* Egress (sandbox/network.ts).  An entry is a network, all traffic, a     *)
(* host name or blank; "bad" is a selector that gives no list of strings.  *)

AllTraffic == "0.0.0.0/0"
NetworkEntries == {AllTraffic, "10.0.0.0/8"}
EgressMaxEntries == 2                        \* EGRESS_MAX_ENTRIES_PER_LIST
EgressMaxHostnames == 1                      \* EGRESS_MAX_HOSTNAME_ENTRIES
EgressLists == BoundedSeq(NetworkEntries \cup {"host"}, 2) \cup {<<"longhost">>, <<" ">>, <<"bad">>}
EgressProxies == {"none", "ok", "blank", "passwordOnly", "longUser"}
EgressAsks == [allow : EgressLists, deny : EgressLists, proxy : EgressProxies,
               internet : {"unset", "true", "false"}]

resolvedSelector(list) == list # <<"bad">>
withAllTraffic(list) == IF Contains(list, AllTraffic) THEN list ELSE Append(list, AllTraffic)

resolveNetwork(a) ==
    [allow |-> a.allow, proxy |-> a.proxy,
     deny |-> IF a.internet = "false" THEN withAllTraffic(a.deny) ELSE a.deny]
requiresEnforcement(p) == p.deny # <<>> \/ p.proxy # "none"
isEmptyPolicy(p) == p.allow = <<>> /\ ~requiresEnforcement(p)

isNetworkEntry(e) == e \in NetworkEntries
validateList(list) == Len(list) <= EgressMaxEntries /\ ~Contains(list, " ")
validateDenyEntries(list) == \A i \in DOMAIN list : isNetworkEntry(list[i])
validateHostnameEntries(list) ==
    ~Contains(list, "longhost") /\ Len(SelectSeq(list, LAMBDA e : ~isNetworkEntry(e))) <= EgressMaxHostnames
validateEgressProxy(proxy) == proxy \in {"none", "ok"}
validatePolicyShape(p) ==
    /\ validateList(p.allow) /\ validateList(p.deny)
    /\ validateDenyEntries(p.deny) /\ validateHostnameEntries(p.allow)
    /\ validateEgressProxy(p.proxy)

\* What the agent reports, an unknown value included, and what passes the gate.
enforcementFromProto(reported) == IF reported = "newer" THEN "unspecified" ELSE reported
isEnforced(e) == e \notin {"unspecified", "none"}
egressGate(p, reported) == requiresEnforcement(p) => isEnforced(enforcementFromProto(reported))

-----------------------------------------------------------------------------
(* Pool configuration (pool/config.ts), times in seconds scaled down.      *)

PoolFloor == 2                         \* MIN_REMAINING_FLOOR_MS
PoolAsks == [timeout : {1, 3, 4, 8, 40, 41}, maxLifetime : {NoTime, 5, 6, 8}, onTimeout : {"unset", "kill", "pause"},
             idle : {1, 3, 5}, autoResume : BOOLEAN, minRemaining : {1, 2, 3, 6}, warmup : {"none", "ok", "blank"}]

validatePoolLifetime(c) ==
    /\ c.onTimeout # "pause"
    /\ c.maxLifetime # NoTime => validMaxLifetime(c.maxLifetime) /\ c.timeout <= c.maxLifetime
validatePoolIdle(c) == c.autoResume /\ c.idle >= MinIdle /\ c.idle < c.timeout
remainingFits(c) == c.minRemaining >= PoolFloor /\ c.minRemaining <= c.timeout - PoolFloor
validatePoolConfig(c) ==
    /\ c.timeout <= MaxLifetime
    /\ validatePoolLifetime(c) /\ validatePoolIdle(c) /\ remainingFits(c)
    /\ c.warmup # "blank"

\* A pool stores the lists as given and says "false" again to every launch.
optionalLaunchOptions(a) == [a EXCEPT !.internet = IF a.internet = "false" THEN "false" ELSE "unset"]

-----------------------------------------------------------------------------
(* Staging (sandbox/transfer.ts): a prefix is a sequence of components;    *)
(* sizes and times are scaled.                                             *)

Artifacts == <<"rayito">>              \* ARTIFACT_NAMESPACE
KeyPrefixes == {<<"rayito">>, <<"d">>, <<"d", "t">>, <<"t">>, <<"rayito", "t">>, <<"d", "t", "u">>}
Names == {<<"sbx">>, <<"t">>, <<"t", "u">>}
prefixesOverlap(a, b) == IsPrefix(a, b) \/ IsPrefix(b, a)
validateTransferPrefix(prefix) == ~prefixesOverlap(prefix, Artifacts)
validateStagingAgainstPersist(staging, persist, sameBucket) == sameBucket => ~prefixesOverlap(staging, persist)
keyPrefix(persist, name) == persist \o name
stagingKey(staging, sandbox) == staging \o <<sandbox, "up", "token">>

PresignMax == 20                       \* TRANSFER_PRESIGN_MAX_SECONDS
InternalExpires == 9                   \* TRANSFER_INTERNAL_EXPIRES_IN_SECONDS
DeleteGrace == 3                       \* DELETE_GRACE_SECONDS
effectiveExpiresIn(asked, most) == SmallerOf(asked, SmallerOf(most, PresignMax))
deleteLifetime(user) == SmallerOf(user + DeleteGrace, PresignMax)
internalGetLifetime(most) == SmallerOf(InternalExpires, most)

Mib == 4
PartMin == 8                           \* TRANSFER_PART_SIZE_MIN_BYTES
MaxParts == 5                          \* PART_SIZE_DIVISOR
CeilDiv(a, b) == (a + b - 1) \div b
ceilToMib(n) == CeilDiv(n, Mib) * Mib
partSize(size) == LargerOf(PartMin, ceilToMib(CeilDiv(size, MaxParts)))
partPlan(size) == [partSize |-> partSize(size), parts |-> LargerOf(1, CeilDiv(size, partSize(size)))]

-----------------------------------------------------------------------------
(* A home saved or restored over a stream (PersistenceClient).             *)

StreamErrors == {"not_found", "invalid_argument", "deadline_exceeded", "sandbox_timeout", "suspending", "unimplemented", "other"}
GrpcCodes == {"NotFound", "InvalidArgument", "PermissionDenied", "ProxyForbidden", "Unimplemented", "DeadlineExceeded", "ResourceExhausted",
              "Canceled", "Unavailable", "StreamReset", "SandboxTimeout", "Internal"}
streamErrorFrom(code) ==
    CASE code = "not_found" -> "NotFoundError" [] code = "invalid_argument" -> "InvalidArgumentError"
      [] code = "deadline_exceeded" -> "TimeoutError" [] code = "sandbox_timeout" -> "SandboxTimeout"
      [] code = "suspending" -> "interrupted" [] OTHER -> "PersistenceError"
statusError(code) ==
    CASE code = "SandboxTimeout" -> "SandboxTimeout" [] code = "NotFound" -> "NotFoundError"
      [] code = "InvalidArgument" -> "InvalidArgumentError" [] code = "ProxyForbidden" -> "AuthenticationError"
      [] code = "DeadlineExceeded" -> "TimeoutError" [] code = "Canceled" -> "SandboxError"
      [] code \in {"Unavailable", "StreamReset"} -> "interrupted" [] OTHER -> "PersistenceError"
midStreamError(code) ==
    CASE code = "DeadlineExceeded" -> "TimeoutError" [] code = "SandboxTimeout" -> "SandboxTimeout"
      [] code = "Canceled" -> "SandboxError" [] OTHER -> "interrupted"

TermsInit == terms = [kind |-> "none"]

askEgress ==
    \E a \in EgressAsks, pool \in BOOLEAN, reported \in {"none", "guestRoutes", "newer"} :
        /\ pool => reported = "none"
        /\ terms' = [kind |-> "egress", in |-> a, pool |-> pool,
                     kept |-> /\ resolvedSelector(a.allow) /\ resolvedSelector(a.deny)
                              /\ validatePolicyShape(resolveNetwork(a))
                              /\ pool => isEmptyPolicy(resolveNetwork(a))
                              /\ pool \/ egressGate(resolveNetwork(a), reported),
                     policy |-> resolveNetwork(a), reported |-> reported]
askPool ==
    \/ \E c \in PoolAsks : terms' = [kind |-> "poolTimes", in |-> c, ok |-> validatePoolConfig(c)]
    \/ \E a \in {x \in EgressAsks : resolvedSelector(x.allow) /\ resolvedSelector(x.deny)} :
          /\ validatePolicyShape(resolveNetwork(a))
          /\ terms' = [kind |-> "poolPolicy", in |-> a, slot |-> resolveNetwork(optionalLaunchOptions(a))]
askStaging ==
    \/ \E s \in KeyPrefixes, p \in KeyPrefixes, n \in Names, same \in BOOLEAN :
          terms' = [kind |-> "staging", same |-> same, staged |-> stagingKey(s, "sbx"), saved |-> keyPrefix(p, n),
                    staging |-> s, persist |-> p,
                    ok |-> validateTransferPrefix(s) /\ validateStagingAgainstPersist(s, p, same)]
    \/ \E asked \in 1..25, most \in {1, 9, 12, 20} :
          LET user == effectiveExpiresIn(asked, most) IN
          terms' = [kind |-> "links", most |-> most, asked |-> asked, user |-> user, delete |-> deleteLifetime(user),
                    get |-> internalGetLifetime(most)]
    \/ \E size \in 8..120 : terms' = [kind |-> "parts", size |-> size, out |-> partPlan(size)]

\* resolveTarget, then openStream; requireStarted aborts what does not start.
\* started and done record what the agent said.
HomeStream(at, result, started, done) == [kind |-> "home", at |-> at, result |-> result, started |-> started, done |-> done]
openHome ==
    \E explicit \in {"none", "unnamed", "named"}, bound \in {"none", "unnamed", "named"} :
        LET target == IF explicit = "none" THEN bound ELSE explicit IN
        terms' = IF target = "named" THEN HomeStream("opening", "none", FALSE, FALSE)
                 ELSE HomeStream("ended", "InvalidArgumentError", FALSE, FALSE)
requireStarted ==
    /\ terms.kind = "home" /\ terms.at = "opening"
    /\ \/ terms' = HomeStream("reading", "none", TRUE, FALSE)
       \/ \E c \in GrpcCodes : terms' = HomeStream("ended", statusError(c), FALSE, FALSE)
       \/ \E c \in StreamErrors : terms' = HomeStream("ended", streamErrorFrom(c), FALSE, FALSE)
       \/ \E first \in {"nothing", "progress", "done"} : terms' = HomeStream("ended", "SandboxError", FALSE, first = "done")

\* #consume: what the end of the iteration means.
endedWithout(result) == IF result = "none" THEN "interrupted" ELSE result
consumeHome ==
    /\ terms.kind = "home" /\ terms.at = "reading"
    /\ \/ terms' = HomeStream("ended", "saved", TRUE, TRUE)
       \/ \E c \in GrpcCodes : terms' = HomeStream("ended", midStreamError(c), TRUE, FALSE)
       \/ \E c \in StreamErrors : terms' = HomeStream("ended", streamErrorFrom(c), TRUE, FALSE)
       \/ terms' = HomeStream("ended", endedWithout(terms.result), TRUE, FALSE)

TermsNext ==
    \/ terms.kind = "none" /\ (askEgress \/ askPool \/ askStaging \/ openHome)
    \/ requireStarted \/ consumeHome

-----------------------------------------------------------------------------
\* A sandbox asked for without internet is either not handed out or runs under
\* a policy that denies all traffic, enforced by an agent the client knows; one
\* taken from a pool is never asked to carry a policy of its own.
ClosedMeansClosed ==
    (terms.kind = "egress" /\ terms.kept /\ terms.in.internet = "false") =>
        /\ ~terms.pool
        /\ AllTraffic \in Range(terms.policy.deny)
        /\ terms.reported = "guestRoutes"

\* Every slot of a pool starts under the policy its configuration was checked
\* with (optionalLaunchOptions goes through resolveNetwork a second time).
SlotsKeepThePolicy ==
    terms.kind = "poolPolicy" => terms.slot = resolveNetwork(terms.in)

\* An accepted pool leaves every slot a stretch in which it can be claimed and
\* idles before its deadline, which is within its lifetime.
SlotsAreUsable ==
    (terms.kind = "poolTimes" /\ terms.ok) =>
        /\ terms.in.timeout - terms.in.minRemaining >= PoolFloor
        /\ terms.in.idle < terms.in.timeout
        /\ terms.in.maxLifetime # NoTime => terms.in.timeout <= terms.in.maxLifetime

\* Within a bucket no saved home lies below the staging prefix, whose objects
\* expire after a day, and no staged object below the homes' prefix.
StagingApart ==
    (terms.kind = "staging" /\ terms.ok) =>
        /\ terms.same => ~IsPrefix(terms.staging, terms.saved) /\ ~IsPrefix(terms.persist, terms.staged)
        /\ ~IsPrefix(Artifacts, terms.staged)

\* The clean-up link outlives the caller's unless S3's limit stops both, and no
\* link outlives that limit or, if the client reads it, the caller's cap.
LinksWithinLimits ==
    terms.kind = "links" =>
        /\ terms.user <= terms.most /\ terms.get <= terms.most
        /\ terms.delete <= PresignMax /\ (terms.delete > terms.user \/ terms.user = PresignMax)

\* The parts of an upload cover the file, none is empty, and they are few
\* enough for the request that carries their links.
PartsCover ==
    terms.kind = "parts" =>
        /\ terms.out.parts * terms.out.partSize >= terms.size
        /\ (terms.out.parts - 1) * terms.out.partSize < terms.size
        /\ terms.out.parts <= MaxParts

\* A save or a restore is reported as complete exactly when the agent said done
\* on a stream it had started (checkpoint, restore, requireStarted, #consume).
InterruptedIsTold ==
    (terms.kind = "home" /\ terms.at = "ended") => (terms.result = "saved") = (terms.done /\ terms.started)

=============================================================================
