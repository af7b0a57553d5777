----------------------------- MODULE FleetUpkeep ------------------------------
(***************************************************************************)
(* What an agent fleet keeps up over time (agent/fleet.ts, fleet-base.ts,  *)
(* gateway-keys.ts):                                                       *)
(*   "lifetime"  the deadline of a VM above minVms, held while a call runs *)
(*               on it and shortened when it is idle.  Two processes share *)
(*               the fleet, each with its own count and queue;             *)
(*   "keys"      the short-lived key of a bedrock gateway in Secrets       *)
(*               Manager, written by the deploy and renewed before a VM is *)
(*               created, by two tasks of one process and one of another.  *)
(***************************************************************************)
EXTENDS Integers, Sequences, SequencesExt, FiniteSets

VARIABLE upkeep

Horizon == 5                          \* bound on the clock
HoldMs == 3                           \* holdMs: scaleInAfterMs or the request timeout
ScaleInAfterMs == 1
RenewAfter == 2                       \* GATEWAY_KEY_RENEW_AFTER_SECONDS
KeyExpiry == 4                        \* GATEWAY_KEY_EXPIRY_SECONDS: 48 windows in the code

Procs == {"p", "q"}
Requests == {"a", "b", "c"}             \* calls; c is of process q
Tasks == {"p1", "p2", "q1"}
ProcOf(t) == IF t \in {"q1", "c"} THEN "q" ELSE "p"
Never == -9

UpkeepInit ==
    upkeep = [what |-> "off", now |-> 0,
              vm |-> "up", due |-> HoldMs, inflight |-> [p \in Procs |-> 0], turns |-> [p \in Procs |-> <<>>],
              setting |-> [p \in Procs |-> <<>>],
              req |-> [r \in Requests |-> "idle"], heldAt |-> [r \in Requests |-> Never], cutByOther |-> {},
              deployed |-> TRUE, changed |-> Never, key |-> "old", till |-> Never, session |-> "long",
              renewedAt |-> [p \in Procs |-> Never],
              renewing |-> [p \in Procs |-> <<>>], task |-> [t \in Tasks |-> "idle"],
              wroteAt |-> [p \in Procs |-> Never], twice |-> FALSE, old |-> FALSE, bad |-> "none"]

InLifetime == upkeep.what = "lifetime"
InKeys == upkeep.what = "keys"

\* The fleet was deployed long ago, or the deploy is about to run on a secret that has
\* just been created with a placeholder.
chooseUpkeep ==
    /\ upkeep.what = "off"
    /\ \/ upkeep' = [upkeep EXCEPT !.what = "lifetime"]
       \/ upkeep' = [upkeep EXCEPT !.what = "keys"]
       \/ upkeep' = [upkeep EXCEPT !.what = "keys", !.deployed = FALSE, !.changed = 0, !.key = "placeholder"]

\* The clock; rayd ends the VM at its deadline (onTimeout: kill).
clock ==
    /\ upkeep.what # "off" /\ upkeep.now < Horizon
    /\ upkeep' = [upkeep EXCEPT !.now = @ + 1,
                     !.vm = IF InLifetime /\ upkeep.now + 1 >= upkeep.due THEN "gone" ELSE @]

-----------------------------------------------------------------------------
(* #execute: hold, run, release.  A turn is <<kind, request>>.             *)

lifetimeTurn(u, kind, r) == [u EXCEPT !.turns[ProcOf(r)] = Append(@, <<kind, r>>)]

lease(r) ==
    /\ InLifetime /\ upkeep.vm = "up" /\ upkeep.req[r] = "idle"
    /\ upkeep' = lifetimeTurn([upkeep EXCEPT !.inflight[ProcOf(r)] = @ + 1, !.req[r] = "holding"], "hold", r)

\* The next turn of a process begins when the one before it has settled.
MayBegin(p, i) == i = 1 /\ upkeep.setting[p] = <<>>

\* #limitLifetime asks again, in its turn, whether the VM is idle in this process;
\* #setLifetime is on its way.
beginTurn(p) ==
    /\ InLifetime
    /\ \E i \in DOMAIN upkeep.turns[p] :
         /\ MayBegin(p, i)
         /\ LET t == upkeep.turns[p][i]
                rest == [upkeep EXCEPT !.turns[p] = RemoveAt(@, i)]
            IN  upkeep' = IF t[1] = "limit" /\ upkeep.inflight[p] # 0
                          THEN [rest EXCEPT !.req[t[2]] = "idle"]
                          ELSE [rest EXCEPT !.setting[p] = Append(@, t)]

\* The calls whose hold a deadline set by process p at `due` cuts short, of others.
CutBy(p, due) == {r \in Requests : ProcOf(r) # p /\ upkeep.heldAt[r] # Never /\ due < upkeep.heldAt[r] + HoldMs}

\* setTimeout of rayd, or an error that is only logged; either way the caller
\* goes on.
setLifetime(p) ==
    /\ InLifetime /\ upkeep.setting[p] # <<>>
    /\ \E i \in DOMAIN upkeep.setting[p], accepted \in BOOLEAN :
         LET kind == upkeep.setting[p][i][1]
             r == upkeep.setting[p][i][2]
             due == upkeep.now + (IF kind = "hold" THEN HoldMs ELSE ScaleInAfterMs)
             sets == accepted /\ upkeep.vm = "up"
         IN  upkeep' = [upkeep EXCEPT
                 !.setting[p] = RemoveAt(@, i),
                 !.due = IF sets THEN due ELSE @,
                 !.cutByOther = IF sets THEN @ \cup CutBy(p, due) ELSE @,
                 !.req[r] = IF kind = "hold" THEN "running" ELSE "idle",
                 !.heldAt[r] = IF kind = "hold" /\ sets THEN upkeep.now ELSE @]

\* #release: the last call of this process gives the VM its short deadline back.
release(r) ==
    /\ InLifetime /\ upkeep.req[r] = "running"
    /\ LET u == [upkeep EXCEPT !.inflight[ProcOf(r)] = @ - 1, !.heldAt[r] = Never, !.cutByOther = @ \ {r}]
       IN  upkeep' = IF u.inflight[ProcOf(r)] = 0 THEN lifetimeTurn([u EXCEPT !.req[r] = "limiting"], "limit", r)
                     ELSE [u EXCEPT !.req[r] = "idle"]

-----------------------------------------------------------------------------
(* GatewayKeyRenewer.  renewing[p] is the renewal in progress of a process *)
(* (<<step>>) or <<>>.                                                     *)

shouldDescribe(p) == upkeep.now - upkeep.renewedAt[p] >= RenewAfter
shouldRenew == upkeep.now - upkeep.changed >= RenewAfter

\* putSecretValue of a key signed by process p with the session it has, which may end
\* soon: the key does not outlive it.
Sessions == {"long", "short"}
ShortSession == 1                      \* bound: what is left of a session that ends soon
KeyPut(u, p, session) ==
    [u EXCEPT !.changed = u.now, !.key = "real", !.session = session, !.wroteAt[p] = u.now,
              !.till = u.now + IF session = "long" THEN KeyExpiry ELSE ShortSession]

\* renewGatewayKeysForDeploy, before the first VM and whatever the age of the secret
\* (force); an error ends the deploy, which may be run again.
renewGatewayKeysForDeploy ==
    /\ InKeys /\ ~upkeep.deployed
    /\ \/ \E session \in Sessions :
             upkeep' = [KeyPut(upkeep, "p", session) EXCEPT !.renewedAt["p"] = upkeep.now, !.deployed = TRUE]
       \/ \E session \in Sessions : upkeep' = KeyPut(upkeep, "p", session)      \* its answer was lost

\* #createMember first calls #renewGatewayKeys: a renewal in progress is shared.
Bug_renewalNotShared(t) ==
    /\ InKeys /\ upkeep.deployed /\ upkeep.task[t] = "idle"
    /\ upkeep' = [upkeep EXCEPT !.task[t] = "waits",
                     !.renewing[ProcOf(t)] = Append(@, "asked")]
renewGatewayKeys(t) ==
    /\ InKeys /\ upkeep.deployed /\ upkeep.task[t] = "idle"
    /\ upkeep' = [upkeep EXCEPT !.task[t] = "waits",
                     !.renewing[ProcOf(t)] = IF @ = <<>> THEN <<"asked">> ELSE @]

\* The renewal i of a process has ended.  With an error no VM is created.
Awake(u, p) == [t \in Tasks |-> IF ProcOf(t) = p THEN "idle" ELSE u.task[t]]
RenewalEnds(u, p, i) == [u EXCEPT !.renewing[p] = RemoveAt(@, i), !.task = Awake(u, p)]
\* Whoever waited for it creates its VM, which reads the secret as it is now.
KeyIsDead(u) == u.key = "placeholder" \/ (u.key = "real" /\ u.now >= u.till)
Settles(u, p, i) ==
    [RenewalEnds(u, p, i) EXCEPT
        !.old = @ \/ u.now - u.changed >= 2 * RenewAfter,
        !.bad = IF KeyIsDead(u) /\ @ # "long" THEN u.session ELSE @]

\* #renewOne without force: nothing to ask in this window, or describeSecret, which may
\* fail.
renewOne(p) ==
    /\ InKeys /\ \E i \in DOMAIN upkeep.renewing[p] :
         /\ upkeep.renewing[p][i] = "asked"
         /\ \/ upkeep' = IF ~shouldDescribe(p) THEN Settles(upkeep, p, i)
                         ELSE IF shouldRenew THEN [upkeep EXCEPT !.renewing[p][i] = "writes"]
                         ELSE [Settles(upkeep, p, i) EXCEPT !.renewedAt[p] = upkeep.now]
            \/ shouldDescribe(p) /\ upkeep' = RenewalEnds(upkeep, p, i)
\* #write: putSecretValue, whose VM is created at once; or an error that every waiter
\* gets, with or without its effect.
write(p) ==
    /\ InKeys /\ \E i \in DOMAIN upkeep.renewing[p] :
         /\ upkeep.renewing[p][i] = "writes"
         /\ \/ \E session \in Sessions, answered \in BOOLEAN :
                 LET u == [KeyPut(upkeep, p, session) EXCEPT
                              !.twice = @ \/ upkeep.now - upkeep.wroteAt[p] < RenewAfter]
                 IN upkeep' = IF answered THEN [Settles(u, p, i) EXCEPT !.renewedAt[p] = upkeep.now]
                              ELSE RenewalEnds(u, p, i)
            \/ upkeep' = RenewalEnds(upkeep, p, i)

-----------------------------------------------------------------------------
UpkeepNext ==
    \/ chooseUpkeep \/ clock \/ renewGatewayKeysForDeploy
    \/ \E r \in Requests : lease(r) \/ release(r)
    \/ \E t \in Tasks : renewGatewayKeys(t)
    \/ \E p \in Procs : beginTurn(p) \/ setLifetime(p) \/ renewOne(p) \/ write(p)

\* While a call runs whose hold was accepted, no other call of its process brings the
\* deadline of its VM forward from what the hold gave it: not the end of one whose
\* shortening was on its way (#lifetimeTurn, #limitLifetime).  A process that shares the
\* fleet counts its own calls only, and its shortening may.
HoldKept ==
    \A r \in Requests :
        upkeep.heldAt[r] # Never /\ r \notin upkeep.cutByOther => upkeep.due >= upkeep.heldAt[r] + HoldMs

\* However many tasks of a process create VMs at once, and whatever answers get lost, it
\* renews the key at most once per window (#renewGatewayKeys, #renewOne).
OneWritePerWindow == ~upkeep.twice

\* The secret a new VM reads changed less than two windows ago, and it holds a key that
\* works: looking once per window, at a key that another process may have written, does
\* not let one expire, and no placeholder is left to read, unless the session that
\* signed the key was itself about to end (#renewOne, renewGatewayKeysForDeploy).
NewVmKeyGood == ~upkeep.old /\ upkeep.bad # "long"
=============================================================================
