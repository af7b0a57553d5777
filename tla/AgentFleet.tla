------------------------------ MODULE AgentFleet ------------------------------
(***************************************************************************)
(* AgentFleet of the TypeScript SDK (agent/fleet.ts, agent/fleet-base.ts,  *)
(* agent/scaling-domain.ts): the MicroVMs of one agent, the sessions that  *)
(* concurrent callers place on them, growth, replacement of lost members,  *)
(* the refresh from list-microvms, status, reconcile and stop, which all   *)
(* interleave at every await of one process.                               *)
(*                                                                         *)
(* A member is an object: <<v, g>> is the g-th one this process made for   *)
(* the VM v.  The list of members is a set: its order only breaks ties     *)
(* between equally loaded members and picks the surplus ones, and both     *)
(* are left open.                                                          *)
(***************************************************************************)
EXTENDS Naturals, FiniteSets, TLC

CONSTANTS
    Callers,          \* the tasks that use the fleet
    MaxLaunches,      \* bounds: the MicroVMs ever launched,
    MaxObjects,       \*   the member objects made for one of them,
    Minimums,         \*   the minVms a fleet is given and how far
    Rooms,            \*   above it its maxVms is,
    MaxPlacements,    \*   the placements that calls try, and the refreshes,
    MaxDisturbances,  \*   stops, deaths and failed probes that disturb them
    MaxConcurrency,   \* ServeOptions.maxConcurrency
    UnhealthyPings    \* AGENT_FLEET_UNHEALTHY_PINGS

ASSUME FleetAssumption ==
    /\ IsFiniteSet(Callers)
    /\ MaxLaunches \in Nat /\ MaxObjects \in Nat \ {0}
    /\ Minimums \subseteq Nat /\ Rooms \subseteq Nat
    /\ MaxPlacements \in Nat /\ MaxDisturbances \in Nat
    /\ MaxConcurrency \in Nat \ {0} /\ UnhealthyPings \in Nat \ {0}

VARIABLES
    settings,    \* whether the fleet is open, its project, session mode and limits
    vm,          \* the MicroVMs, in order of launch
    made,        \* how many member objects there were for each
    members,     \* the member objects in the list
    growing,     \* #growing
    sessions,    \* #sessions: the VM remembered for the plain id of a caller
    inflight,    \* of each member object: its invocations in flight,
    bound,       \*   the reservations and sessions bound to it,
    host,        \*   and what is known of its host
    call,        \* what each caller is doing
    leaked,      \* history: leases left behind by an error inside #place,
    adopted,     \*   VMs a refresh made a member of, when none stood for them,
    replaced,    \*   and launches of #fillToMinimum
    budget       \* placements and disturbances so far

ledger == <<inflight, bound, leaked>>
machines == <<vm, made, members, adopted>>
vars == <<settings, machines, growing, sessions, ledger, host, call, replaced, budget>>

CallerSymmetry == Permutations(Callers)
Launches == 1..MaxLaunches
Objects == Launches \X (1..MaxObjects)
NoObject == <<0, 0>>
VmOf(o) == o[1]

newMember(open) == [open |-> open, health |-> "unknown", pinged |-> FALSE, failed |-> 0]
Idle == [pc |-> "idle", own |-> FALSE, target |-> 0, obj |-> NoObject, reserved |-> FALSE,
         vm |-> 0, listing |-> {}, subject |-> NoObject, todo |-> {}, left |-> 0, then |-> "none"]

FleetInit ==
    /\ settings = [open |-> FALSE, project |-> FALSE, dedicated |-> FALSE, minVms |-> 0, maxVms |-> 0]
    /\ vm = [v \in Launches |-> "absent"] /\ made = [v \in Launches |-> 0]
    /\ members = {} /\ growing = 0
    /\ sessions = [c \in Callers |-> 0]
    /\ inflight = [o \in Objects |-> 0] /\ bound = [o \in Objects |-> {}]
    /\ host = [o \in Objects |-> newMember(FALSE)]
    /\ call = [c \in Callers |-> Idle]
    /\ leaked = [o \in Objects |-> 0] /\ adopted = {} /\ replaced = 0
    /\ budget = [placed |-> 0, disturbed |-> 0]

At(c, pc) == settings.open /\ call[c].pc = pc
Up(v) == vm[v] = "up"
Absent == {v \in Launches : vm[v] = "absent"}
NextLaunch(v) == v \in Absent /\ \A w \in Absent : v <= w
Disturbs == /\ budget.disturbed < MaxDisturbances
            /\ budget' = [budget EXCEPT !.disturbed = @ + 1]
Places == /\ budget.placed < MaxPlacements
          /\ budget' = [budget EXCEPT !.placed = @ + 1]

-----------------------------------------------------------------------------
(* Choosing a member: fleet-base.ts.  Of the members in stale, the last    *)
(* ping or 429 is too old to count.                                        *)

isFree(o, stale) ==
    /\ host[o].health = "unavailable" => o \in stale
    /\ IF settings.dedicated THEN bound[o] = {}
       ELSE inflight[o] < MaxConcurrency /\ (host[o].health = "busy" => o \in stale)
chooseMember(stale) ==
    {o \in members : isFree(o, stale) /\ \A p \in members : isFree(p, stale) => inflight[o] <= inflight[p]}
planPlacement(stale) ==
    IF chooseMember(stale) # {} THEN "use"
    ELSE IF Cardinality(members) + growing < settings.maxVms THEN "grow" ELSE "wait"

find(v) == {o \in members : VmOf(o) = v}
isLost(memo) == memo.failed >= UnhealthyPings
recordPing(memo, s) ==
    [open |-> TRUE, health |-> s, pinged |-> TRUE,
     failed |-> IF s # "unavailable" THEN 0
                ELSE IF isLost(memo) THEN memo.failed ELSE memo.failed + 1]

\* What GET /ping may say.
pings(o) == IF Up(VmOf(o)) THEN {"healthy", "busy", "unavailable"} ELSE {"unavailable"}

\* #reserve and #growFor: the lease and, in a dedicated fleet, a reservation.
Reservation(c) == <<c, "reserved">>
reserve(c, o) ==
    /\ inflight' = [inflight EXCEPT ![o] = @ + 1]
    /\ bound' = IF settings.dedicated THEN [bound EXCEPT ![o] = @ \union {Reservation(c)}] ELSE bound
    /\ leaked' = leaked

\* #unlease and #unreserve: the reservation goes or becomes the session.
unlease(c, keep) ==
    LET o == call[c].obj
    IN  /\ inflight' = [inflight EXCEPT ![o] = IF @ > 0 THEN @ - 1 ELSE 0]
        /\ bound' = IF ~call[c].reserved THEN bound
                    ELSE [bound EXCEPT ![o] = (@ \ {Reservation(c)}) \union
                                              (IF keep THEN {<<c, "session">>} ELSE {})]
        /\ sessions' = IF call[c].reserved /\ keep THEN [sessions EXCEPT ![c] = VmOf(o)] ELSE sessions
        /\ leaked' = leaked

\* An error leaves #place with the lease taken.
leak(c) ==
    /\ leaked' = [leaked EXCEPT ![call[c].obj] = @ + 1]
    /\ UNCHANGED <<inflight, bound, sessions>>

remember(c, v) ==
    sessions' = IF settings.dedicated /\ call[c].own THEN [sessions EXCEPT ![c] = v] ELSE sessions

\* Where a call goes on: as it was but for its place, from the start of
\* #lease with its lease given back, or not at all.
Becomes(c, r) == call' = [call EXCEPT ![c] = r]
Goto(c, pc) == Becomes(c, [call[c] EXCEPT !.pc = pc])
Anew(c) == [Idle EXCEPT !.pc = "placing", !.own = call[c].own, !.target = call[c].target]
Leased(c, o, reserved) == [Anew(c) EXCEPT !.pc = "leased", !.obj = o, !.reserved = reserved]

\* #fillToMinimum counts once what is missing.
replacementsNeeded(kept) ==
    IF settings.project /\ Cardinality(kept) < settings.minVms
    THEN settings.minVms - Cardinality(kept) ELSE 0
Filling(r, kept) == [r EXCEPT !.pc = "filling", !.subject = NoObject, !.left = replacementsNeeded(kept)]

\* #replace: drops the member and waits for its termination.
Terminating(r, o, then) == [r EXCEPT !.pc = "terminating", !.subject = o, !.then = then]
replace(c, r, o, then) == members' = members \ {o} /\ Becomes(c, Terminating(r, o, then))

\* #trim and stop(): one member after the other.
sweep(c, r, todo, kept) ==
    \/ \E o \in todo : /\ members' = kept \ {o}
                       /\ Becomes(c, [Terminating(r, o, r.then) EXCEPT !.todo = todo \ {o}])
    \/ /\ todo = {} /\ members' = kept
       /\ Becomes(c, IF r.then = "stop" THEN Idle ELSE Filling(r, kept))

-----------------------------------------------------------------------------
(* The fleet's life.                                                       *)

\* start() (open), or connect() to a fleet that runs: it has opened none of
\* its VMs, may have no project, and may be above its limit.
start ==
    /\ ~settings.open
    /\ \E dedicated \in BOOLEAN, min \in Minimums, room \in Rooms, n \in Launches \union {0},
          open \in BOOLEAN, project \in BOOLEAN :
         /\ 1 <= min + room /\ (open => n = min /\ project)
         /\ settings' = [open |-> TRUE, project |-> project, dedicated |-> dedicated,
                         minVms |-> min, maxVms |-> min + room]
         /\ vm' = [v \in Launches |-> IF v <= n THEN "up" ELSE "absent"]
         /\ made' = [v \in Launches |-> IF v <= n THEN 1 ELSE 0]
         /\ members' = (1..n) \X {1}
         /\ adopted' = IF n <= min + room THEN {} ELSE 1..n
         /\ host' = [o \in Objects |-> newMember(open /\ o \in (1..n) \X {1})]
    /\ UNCHANGED <<growing, sessions, ledger, call, replaced, budget>>

\* invoke and stream: with the handle of a VM, with a plain id of the
\* caller, or without a session.
invoke(c) ==
    /\ At(c, "idle") /\ budget.placed < MaxPlacements
    /\ \E own \in BOOLEAN, target \in {0} \union (Launches \ Absent) :
         /\ own => target = 0
         /\ Becomes(c, [Idle EXCEPT !.pc = "placing", !.own = own, !.target = target])
    /\ UNCHANGED <<settings, machines, growing, sessions, ledger, host, replaced, budget>>

\* status() and reconcile() begin with refreshMembers.
refresh(c) ==
    /\ At(c, "idle") /\ Disturbs
    /\ \E then \in {"status", "reconcile"} :
         Becomes(c, [Idle EXCEPT !.pc = "listing", !.then = then])
    /\ UNCHANGED <<settings, machines, growing, sessions, ledger, host, replaced>>

\* stop() forgets its members at once and then terminates them.
stop(c) ==
    /\ At(c, "idle") /\ Disturbs
    /\ sweep(c, [Idle EXCEPT !.then = "stop"], members, {})
    /\ UNCHANGED <<settings, vm, made, adopted, growing, sessions, ledger, host, replaced>>

\* A VM ends by itself; another process launches one.
vmDies(v) ==
    /\ settings.open /\ Up(v) /\ Disturbs
    /\ vm' = [vm EXCEPT ![v] = "gone"]
    /\ UNCHANGED <<settings, made, members, adopted, growing, sessions, ledger, host, call, replaced>>
vmAppears(v) ==
    /\ settings.open /\ NextLaunch(v) /\ Disturbs
    /\ vm' = [vm EXCEPT ![v] = "up"]
    /\ UNCHANGED <<settings, made, members, adopted, growing, sessions, ledger, host, call, replaced>>

-----------------------------------------------------------------------------
(* Placing a call: #lease, #place, #routeMember, #knownSessionMember.      *)

Known(c) == IF call[c].target # 0 THEN call[c].target
            ELSE IF call[c].own THEN sessions[c] ELSE 0

routed(c, o) ==
    /\ inflight' = [inflight EXCEPT ![o] = @ + 1] /\ Becomes(c, Leased(c, o, FALSE))
    /\ UNCHANGED <<bound, leaked>>
routeMember(c) ==
    /\ At(c, "placing") /\ Known(c) # 0 /\ Places
    /\ \/ \E o \in find(Known(c)) : routed(c, o)
       \/ /\ find(Known(c)) = {}
          /\ Becomes(c, [call[c] EXCEPT !.pc = "listing", !.then = "route"]) /\ UNCHANGED ledger
    /\ UNCHANGED <<settings, machines, growing, sessions, host, replaced>>

placeInMember(c, stale) ==
    /\ At(c, "placing") /\ Known(c) = 0 /\ planPlacement(stale) = "use" /\ Places
    /\ \E o \in chooseMember(stale) :
         /\ reserve(c, o)
         /\ Becomes(c, [Leased(c, o, settings.dedicated) EXCEPT !.pc = "probing"])
    /\ UNCHANGED <<settings, machines, growing, sessions, host, replaced>>
placeInNew(c, stale) ==
    /\ At(c, "placing") /\ Known(c) = 0 /\ planPlacement(stale) = "grow" /\ Places
    /\ growing' = growing + 1 /\ Goto(c, "growing")
    /\ UNCHANGED <<settings, machines, sessions, ledger, host, replaced>>

\* #createMember: of a growth or of a replacement.
createMember(c) ==
    /\ At(c, "growing") \/ (At(c, "filling") /\ call[c].left > 0)
    /\ settings.project /\ call[c].vm = 0
    /\ \E v \in Launches : /\ NextLaunch(v)
                           /\ vm' = [vm EXCEPT ![v] = "booting"]
                           /\ Becomes(c, [call[c] EXCEPT !.vm = v])
    /\ replaced' = IF At(c, "filling") THEN replaced + 1 ELSE replaced
    /\ UNCHANGED <<settings, made, members, adopted, growing, sessions, ledger, host, budget>>

\* The new VM v joins the members (unless it died while it was starting).
Joins(v) ==
    LET o == <<v, made[v] + 1>>
    IN  /\ made[v] < MaxObjects
        /\ vm' = [vm EXCEPT ![v] = IF @ = "booting" THEN "up" ELSE @]
        /\ made' = [made EXCEPT ![v] = @ + 1]
        /\ members' = members \union {o}
        /\ host' = [host EXCEPT ![o] = newMember(TRUE)]

\* The launch of v failed (v = 0: before there was a VM); the VM goes, or is
\* kept on failure.
LaunchFails(v) ==
    IF v = 0 THEN vm' = vm
    ELSE \E s \in {"gone", "up"} : vm' = [vm EXCEPT ![v] = IF @ = "booting" THEN s ELSE @]

\* #growFor: a VM of its own, taken from the first instant.
growFor(c) ==
    LET v == call[c].vm
        o == <<v, made[v] + 1>>
    IN  /\ At(c, "growing") /\ v # 0 /\ Joins(v)
        /\ growing' = growing - 1 /\ reserve(c, o) /\ remember(c, v)
        /\ Becomes(c, Leased(c, o, settings.dedicated))
        /\ UNCHANGED <<settings, adopted, replaced, budget>>
growFails(c) ==
    /\ At(c, "growing") /\ LaunchFails(call[c].vm)
    /\ growing' = growing - 1 /\ Becomes(c, Idle)
    /\ UNCHANGED <<settings, made, members, adopted, sessions, ledger, host, replaced, budget>>

\* The deadline of the queue.
queueExpires(c) ==
    /\ At(c, "placing") /\ Known(c) = 0 /\ planPlacement({}) = "wait" /\ Becomes(c, Idle)
    /\ UNCHANGED <<settings, machines, growing, sessions, ledger, host, replaced, budget>>

-----------------------------------------------------------------------------
(* #probe, inside #place: the lease is held.                               *)

\* #openOrConnect found the VM; the last ping is fresh and decides, or a new
\* one is asked for.
probeOpens(c) ==
    LET o == call[c].obj
    IN  /\ At(c, "probing") /\ (host[o].open \/ Up(VmOf(o)))
        /\ host' = [host EXCEPT ![o].open = TRUE]
        /\ \/ /\ host[o].pinged /\ host[o].health # "unavailable"
              /\ remember(c, VmOf(o)) /\ Goto(c, "leased") /\ UNCHANGED ledger
           \/ /\ host[o].pinged /\ host[o].health = "unavailable"
              /\ unlease(c, FALSE) /\ Becomes(c, Anew(c))
           \/ Goto(c, "pinging") /\ UNCHANGED <<ledger, sessions>>
        /\ UNCHANGED <<settings, machines, growing, replaced, budget>>
probeNotFound(c) ==
    LET o == call[c].obj
    IN  /\ At(c, "probing") /\ ~host[o].open /\ ~Up(VmOf(o))
        /\ members' = members \ {o} /\ unlease(c, FALSE) /\ Becomes(c, Anew(c))
        /\ UNCHANGED <<settings, vm, made, adopted, growing, host, replaced, budget>>

\* Any other error leaves #place, with the lease and the reservation.
probeThrows(c) ==
    /\ At(c, "pinging") \/ (At(c, "probing") /\ ~host[call[c].obj].open)
    /\ Disturbs /\ leak(c) /\ Becomes(c, Idle)
    /\ UNCHANGED <<settings, machines, growing, host, replaced>>

probePings(c) ==
    LET o == call[c].obj
    IN  /\ At(c, "pinging")
        /\ \E s \in pings(o) :
             LET memo == recordPing(host[o], s)
             IN  /\ host' = [host EXCEPT ![o] = memo]
                 /\ \/ /\ isLost(memo) /\ replace(c, call[c], o, "place") /\ UNCHANGED <<ledger, sessions>>
                    \/ /\ ~isLost(memo) /\ s = "healthy" /\ remember(c, VmOf(o))
                       /\ Goto(c, "leased") /\ UNCHANGED <<ledger, members>>
                    \/ /\ ~isLost(memo) /\ s # "healthy" /\ unlease(c, FALSE)
                       /\ Becomes(c, Anew(c)) /\ UNCHANGED members
        /\ UNCHANGED <<settings, vm, made, adopted, growing, replaced, budget>>

\* #openParked, inside #probe or #execute: the gateways of a parked VM cannot
\* be opened.
parkedSlotFails(c) ==
    LET o == call[c].obj
    IN  /\ At(c, "probing") \/ At(c, "leased")
        /\ ~host[o].open /\ Up(VmOf(o)) /\ settings.project
        /\ replace(c, call[c], o, IF At(c, "probing") THEN "place" ELSE "error")
        /\ UNCHANGED <<settings, vm, made, adopted, growing, sessions, ledger, host, replaced, budget>>

-----------------------------------------------------------------------------
(* Running it: #execute.                                                   *)

\* The request goes to the host.
begins(c) ==
    LET o == call[c].obj
    IN  /\ At(c, "leased") /\ (host[o].open \/ Up(VmOf(o)))
        /\ host' = [host EXCEPT ![o].open = TRUE] /\ Goto(c, "running")
        /\ UNCHANGED <<settings, machines, growing, sessions, ledger, replaced, budget>>

\* The VM turned out not to exist.
vmLost(c) ==
    LET o == call[c].obj
    IN  /\ At(c, "running") \/ (At(c, "leased") /\ ~host[o].open)
        /\ ~Up(VmOf(o)) /\ unlease(c, FALSE) /\ replace(c, Anew(c), o, "error")
        /\ UNCHANGED <<settings, vm, made, adopted, growing, host, replaced, budget>>

\* 429 of the host: the call is placed again, or its queue has expired.
waitForCapacity(c) ==
    LET o == call[c].obj
    IN  /\ At(c, "running") /\ Up(VmOf(o)) /\ unlease(c, FALSE)
        /\ host' = [host EXCEPT ![o].health = "busy"]
        /\ Becomes(c, Anew(c)) \/ Becomes(c, Idle)
        /\ UNCHANGED <<settings, machines, growing, replaced, budget>>

\* The answer: the host says, or does not, which session it was.
succeeds(c) ==
    /\ At(c, "running") /\ Up(VmOf(call[c].obj))
    /\ \E keep \in BOOLEAN : unlease(c, keep)
    /\ Becomes(c, Idle)
    /\ UNCHANGED <<settings, machines, growing, host, replaced, budget>>

\* The agent failed, or the VM could not be opened.
agentFails(c) ==
    /\ At(c, "running") \/ (At(c, "leased") /\ ~host[call[c].obj].open)
    /\ unlease(c, FALSE) /\ Becomes(c, Idle)
    /\ UNCHANGED <<settings, machines, growing, host, replaced, budget>>

\* A transport error: the lease is given back, then the host is asked.
transportFails(c) ==
    /\ At(c, "running") /\ unlease(c, FALSE)
    /\ Becomes(c, [Anew(c) EXCEPT !.pc = "noting", !.subject = call[c].obj])
    /\ UNCHANGED <<settings, machines, growing, host, replaced, budget>>
noteTransportFailure(c) ==
    LET o == call[c].subject
    IN  /\ At(c, "noting")
        /\ \E s \in pings(o) :
             LET memo == recordPing(host[o], s)
             IN  /\ host' = [host EXCEPT ![o] = memo]
                 /\ \/ isLost(memo) /\ replace(c, Anew(c), o, "error")
                    \/ ~isLost(memo) /\ Becomes(c, Idle) /\ UNCHANGED members
        /\ UNCHANGED <<settings, vm, made, adopted, growing, sessions, ledger, replaced, budget>>

-----------------------------------------------------------------------------
(* #terminate and #fillToMinimum.                                          *)

\* The VM ends; or it does not, because that failed or the member was never
\* proven to be of the fleet.
terminate(c) ==
    /\ At(c, "terminating")
    /\ vm' = vm \/ vm' = [vm EXCEPT ![VmOf(call[c].subject)] = "gone"]
    /\ \/ call[c].then \in {"stop", "reconcile"} /\ sweep(c, call[c], call[c].todo, members)
       \/ /\ call[c].then \notin {"stop", "reconcile"} /\ members' = members
          /\ Becomes(c, Filling(call[c], members))
    /\ UNCHANGED <<settings, made, adopted, growing, sessions, ledger, host, replaced, budget>>

filled(c) ==
    LET v == call[c].vm
    IN  /\ At(c, "filling") /\ v # 0 /\ Joins(v)
        /\ Becomes(c, [call[c] EXCEPT !.vm = 0, !.left = @ - 1])
        /\ UNCHANGED <<settings, adopted, growing, sessions, ledger, replaced, budget>>

\* The lease, when the replacement was made with it.
giveBack(c) ==
    IF call[c].obj = NoObject THEN UNCHANGED <<ledger, sessions>> ELSE unlease(c, FALSE)
fillEnds(c) ==
    /\ At(c, "filling") /\ call[c].left = 0 /\ giveBack(c)
    /\ Becomes(c, IF call[c].then = "place" THEN Anew(c)
                  ELSE IF call[c].then = "status" THEN [call[c] EXCEPT !.pc = "checking"] ELSE Idle)
    /\ UNCHANGED <<settings, machines, growing, host, replaced, budget>>
fillThrows(c) ==
    /\ At(c, "filling") /\ call[c].left > 0 /\ LaunchFails(call[c].vm)
    /\ IF call[c].then = "place" THEN leak(c) ELSE giveBack(c)
    /\ Becomes(c, Idle)
    /\ UNCHANGED <<settings, made, members, adopted, growing, host, replaced, budget>>

-----------------------------------------------------------------------------
(* refreshMembers, for a route, status() or reconcile().                   *)

\* list-microvms and the probes of its answer: a VM that is starting may be
\* there, one that cannot be read is left out; or the listing fails.
listMembers(c) ==
    /\ At(c, "listing")
    /\ \/ \E L \in SUBSET {v \in Launches : vm[v] \in {"up", "booting"}} :
            Becomes(c, [call[c] EXCEPT !.pc = "listed", !.listing = L])
       \/ Becomes(c, Idle)
    /\ UNCHANGED <<settings, machines, growing, sessions, ledger, host, replaced, budget>>

\* The members are those of the listing: a known one (the last of its VM)
\* keeps its object, the others get one.
lastOf(v) == CHOOSE o \in find(v) : \A p \in find(v) : p[2] <= o[2]
Bug_refreshForgetsObjects(v) == <<v, made[v] + 1>>
memberOf(v) == IF find(v) = {} THEN <<v, made[v] + 1>> ELSE lastOf(v)
Refreshed(L) == {memberOf(v) : v \in L}
refreshMembers(L) ==
    /\ Refreshed(L) \subseteq Objects
    /\ made' = [v \in Launches |-> IF v \in L /\ memberOf(v) \notin members THEN made[v] + 1 ELSE made[v]]
    /\ host' = [o \in Objects |-> IF o \in Refreshed(L) \ members THEN newMember(FALSE) ELSE host[o]]
    /\ adopted' = adopted \union {v \in L : find(v) = {}}

routeRefreshed(c) ==
    LET L == call[c].listing
    IN  /\ At(c, "listed") /\ call[c].then = "route"
        /\ refreshMembers(L) /\ members' = Refreshed(L)
        /\ \/ Known(c) \in L /\ routed(c, memberOf(Known(c)))
           \/ Known(c) \notin L /\ Becomes(c, Idle) /\ UNCHANGED ledger
        /\ UNCHANGED <<settings, vm, growing, sessions, replaced, budget>>

\* status() asks the members that are open, one after the other, and
\* replaces those that are lost.
statusRefreshed(c) ==
    LET L == call[c].listing
    IN  /\ At(c, "listed") /\ call[c].then = "status"
        /\ refreshMembers(L) /\ members' = Refreshed(L)
        /\ Becomes(c, [call[c] EXCEPT !.pc = "checking", !.listing = {}, !.todo = Refreshed(L)])
        /\ UNCHANGED <<settings, vm, growing, sessions, ledger, replaced, budget>>
statusPings(c) ==
    LET asked == {o \in call[c].todo : host[o].open}
    IN  /\ At(c, "checking")
        /\ \/ asked = {} /\ Becomes(c, Idle) /\ UNCHANGED <<members, host>>
           \/ \E o \in asked : \E s \in pings(o) :
                LET memo == recordPing(host[o], s)
                    rest == [call[c] EXCEPT !.todo = @ \ {o}]
                IN  /\ host' = [host EXCEPT ![o] = memo]
                    /\ \/ isLost(memo) /\ replace(c, rest, o, "status")
                       \/ ~isLost(memo) /\ Becomes(c, rest) /\ UNCHANGED members
        /\ UNCHANGED <<settings, vm, made, adopted, growing, sessions, ledger, replaced, budget>>

\* reconcile(): no listed member is lost (LostNeverListed), so it trims at
\* once: of those above maxVms, the idle ones that are proven.
reconcileRefreshed(c) ==
    LET L == call[c].listing
        surplus == {o \in Refreshed(L) : inflight[o] = 0 /\ bound[o] = {}}
    IN  /\ At(c, "listed") /\ call[c].then = "reconcile"
        /\ refreshMembers(L)
        /\ \E todo \in SUBSET surplus :
             /\ todo # {} => Cardinality(todo) + settings.maxVms <= Cardinality(Refreshed(L))
             /\ sweep(c, [call[c] EXCEPT !.listing = {}], todo, Refreshed(L))
        /\ UNCHANGED <<settings, vm, growing, sessions, ledger, replaced, budget>>

-----------------------------------------------------------------------------
Placing(c) ==
    \/ routeMember(c) \/ createMember(c) \/ growFor(c) \/ growFails(c) \/ queueExpires(c)
    \/ \E stale \in SUBSET members : placeInMember(c, stale) \/ placeInNew(c, stale)
    \/ probeOpens(c) \/ probeNotFound(c) \/ probeThrows(c) \/ probePings(c) \/ parkedSlotFails(c)
Executing(c) ==
    \/ begins(c) \/ vmLost(c) \/ waitForCapacity(c) \/ succeeds(c) \/ agentFails(c)
    \/ transportFails(c) \/ noteTransportFailure(c)
Upkeep(c) ==
    \/ terminate(c) \/ filled(c) \/ fillEnds(c) \/ fillThrows(c) \/ listMembers(c)
    \/ routeRefreshed(c) \/ statusRefreshed(c) \/ statusPings(c) \/ reconcileRefreshed(c)

FleetNext ==
    \/ start
    \/ \E c \in Callers : invoke(c) \/ refresh(c) \/ stop(c) \/ Placing(c) \/ Executing(c) \/ Upkeep(c)
    \/ \E v \in Launches : vmDies(v) \/ vmAppears(v)

FleetSpec == FleetInit /\ [][FleetNext]_vars

-----------------------------------------------------------------------------
\* The invocations in flight of a member are those of the calls that hold
\* it, and its reservations theirs: none is counted twice, lost or left
\* behind by a 429, a lost VM, a failed ping, a replacement or a refresh.
\* The one exception of the code is an error thrown inside #place, and each
\* one leaves exactly one invocation behind.
Holders(o) == {c \in Callers : call[c].obj = o}
LeasesAccounted ==
    \A o \in Objects :
        /\ inflight[o] = Cardinality(Holders(o)) + leaked[o]
        /\ leaked[o] = 0 => \A c \in Callers :
              Reservation(c) \in bound[o] <=> (call[c].obj = o /\ call[c].reserved)

\* In a dedicated fleet two callers never hold a reservation on one VM at
\* once, whatever was refreshed or replaced meanwhile, unless a refresh took
\* the VM in when no member stood for it.
DedicatedAlone ==
    \A c, d \in Callers :
        (c # d /\ call[c].reserved /\ call[d].reserved /\ VmOf(call[c].obj) = VmOf(call[d].obj))
            => VmOf(call[c].obj) \in adopted

\* Members and launches stay within maxVms: concurrent calls never grow the
\* fleet past it together, and it is passed by no more VMs than
\* #fillToMinimum launched.
GrowthWithinMax ==
    adopted = {} => Cardinality(members) + growing <= settings.maxVms + replaced

\* A member with the last failed ping it was allowed is out of the list
\* before any other step: no refresh brings it back.
LostNeverListed == \A o \in members : ~isLost(host[o])

(***************************************************************************)
(* The fleet as a whole: leases and reservations are those of the calls    *)
(* that hold them, a dedicated VM has one caller at a time, growth stays   *)
(* within its limit and lost members are never placed on.                  *)
(***************************************************************************)
FleetSound ==
    /\ LeasesAccounted
    /\ DedicatedAlone
    /\ GrowthWithinMax
    /\ LostNeverListed

=============================================================================
