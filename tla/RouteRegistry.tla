----------------------------- MODULE RouteRegistry -----------------------------
(***************************************************************************)
(* Routes of a custom domain (custom-domain/service.ts, domain.ts, kvs.ts) *)
(* and the edge function that serves them (the function in                 *)
(* stacks/templates/custom-domain.gen.ts).  A route is two keys of one     *)
(* key-value store, j:label (the token of the sandbox) and m:label (its    *)
(* metadata), and every write names the ETag it expects of the store.  Two *)
(* clients, each with its own label, share the store.  The store reaches   *)
(* every server of the edge by itself, later: a server answers from its    *)
(* own copy.                                                               *)
(***************************************************************************)
EXTENDS Integers, Sequences, FiniteSets

VARIABLE edge

Clients == {"c1", "c2"}                 \* client c writes the label c
MaxOps == 2                             \* operations of a client
OtherOps == 1                           \* operations of the second client, where no request is made
MaxRouteFaults == 1                     \* calls that fail for another reason than the ETag
MaxAttempts == 2                        \* MAX_ETAG_CONFLICT_RETRIES, 3 in the code
NoKey == 0                              \* a value is the number of the operation that wrote it

Resting == [call |-> "none", at |-> "idle", etag |-> 0, put |-> 0, attempt |-> 0, undo |-> {}, ver |-> 0]
NoRequest == [at |-> "idle", since |-> {}, kind |-> "none"]
NoCopy == [j |-> NoKey, m |-> NoKey]
EdgeInit ==
    edge = [about |-> "start", stack |-> FALSE, arn |-> FALSE, etag |-> 0, j |-> [c \in Clients |-> NoKey], m |-> [c \in Clients |-> NoKey],
            op |-> [c \in Clients |-> Resting], ops |-> [c \in Clients |-> 0], faults |-> 0,
            kept |-> {}, gone |-> {}, copy |-> NoCopy, asked |-> NoRequest]

\* deploy() and status() remember the ARN of the store, destroy() forgets it.
deployDomain ==
    /\ edge.about = "start"
    /\ edge' = [edge EXCEPT !.about = "routes", !.stack = TRUE, !.arn = TRUE]
destroyDomain ==
    /\ edge.about = "routes" /\ edge.stack /\ edge.ops["c1"] > 0 /\ \A c \in Clients : edge.op[c].at = "idle"
    /\ edge' = [edge EXCEPT !.stack = FALSE, !.arn = FALSE, !.j = [c \in Clients |-> NoKey], !.m = [c \in Clients |-> NoKey], !.kept = {}]
knownArn == edge.arn

In(c, s) == edge.about = "routes" /\ edge.op[c].at = s
Op(c) == edge.op[c]
Goes(c, r) == [edge EXCEPT !.op[c] = r]
RouteFault == edge.faults < MaxRouteFaults

-----------------------------------------------------------------------------
(* register, refresh, unregister.                                          *)

\* The arguments are checked before anything is written; a route may be refreshed
\* by whoever registered it.
beginOp(c, call) ==
    /\ In(c, "idle") /\ knownArn /\ (c # "c1" => edge.copy = NoCopy /\ edge.asked = NoRequest)
    /\ edge.ops[c] < IF c = "c1" THEN MaxOps ELSE OtherOps
    /\ edge' = [edge EXCEPT !.ops[c] = @ + 1, !.gone = @ \ {c}, !.asked.since = @ \ {c}, !.kept = IF call = "refresh" THEN @ ELSE @ \ {c},
                    !.op[c] = [Resting EXCEPT !.call = call, !.at = "describe", !.ver = edge.ops[c] + 1]]
registerRoute(c) == beginOp(c, "register")
refreshRoute(c) == In(c, "idle") /\ c \in edge.kept /\ beginOp(c, "refresh")
unregisterRoute(c) == beginOp(c, "unregister")

giveUpRoute(c) == [Resting EXCEPT !.at = "idle"]
describeStore(c) ==
    /\ In(c, "describe")
    /\ \/ edge' = Goes(c, [Op(c) EXCEPT !.at = IF Op(c).call = "unregister" THEN "delete" ELSE "put",
                                         !.etag = edge.etag])
       \/ RouteFault /\ edge' = [Goes(c, giveUpRoute(c)) EXCEPT !.faults = @ + 1]

Bug_metaFirst(i) == IF i = 0 THEN "m" ELSE "j"
routeWrites(i) == IF i = 0 THEN "j" ELSE "m"
Stored(c, i, v) == IF routeWrites(i) = "j" THEN [edge EXCEPT !.j[c] = v, !.etag = @ + 1] ELSE [edge EXCEPT !.m[c] = v, !.etag = @ + 1]
RouteDone(e, c) == [e EXCEPT !.op[c] = Resting, !.kept = @ \cup {c}]
putKey(c) ==
    /\ In(c, "put") /\ Op(c).etag = edge.etag
    /\ LET i == Op(c).put
           e == Stored(c, i, Op(c).ver)
       IN edge' = IF i = 1 THEN RouteDone(e, c)
                  ELSE [e EXCEPT !.op[c].put = 1, !.op[c].etag = edge.etag + 1]
\* register undoes what it wrote; refresh leaves it.
rollsBack(call) == call = "register"
afterError(c, retry) ==
    LET undo == IF rollsBack(Op(c).call) /\ Op(c).put = 1 THEN {routeWrites(0)} ELSE {}
        again == retry /\ Op(c).attempt + 1 < MaxAttempts
    IN IF undo # {} THEN [Op(c) EXCEPT !.at = IF again THEN "undoRetry" ELSE "undo", !.undo = undo]
       ELSE IF again THEN [Op(c) EXCEPT !.at = "describe", !.put = 0, !.attempt = @ + 1] ELSE giveUpRoute(c)
putConflicts(c) ==
    /\ In(c, "put") /\ Op(c).etag # edge.etag
    /\ edge' = Goes(c, afterError(c, TRUE))
\* The put fails otherwise, with or without its effect.
putFails(c) ==
    /\ In(c, "put") /\ Op(c).etag = edge.etag /\ RouteFault
    /\ \/ edge' = [Goes(c, afterError(c, FALSE)) EXCEPT !.faults = @ + 1]
       \/ edge' = [Stored(c, Op(c).put, Op(c).ver) EXCEPT !.op[c] = afterError(c, FALSE), !.faults = @ + 1]
\* Describe and delete; whatever goes wrong is swallowed.
deleteBestEffort(c) ==
    /\ In(c, "undo") \/ In(c, "undoRetry")
    /\ LET next == IF Op(c).at = "undo" THEN giveUpRoute(c) ELSE [Op(c) EXCEPT !.at = "describe", !.put = 0, !.undo = {}, !.attempt = @ + 1]
           cleared == [edge EXCEPT !.j[c] = IF "j" \in Op(c).undo THEN NoKey ELSE @,
                                   !.m[c] = IF "m" \in Op(c).undo THEN NoKey ELSE @, !.etag = @ + 1]
           disturbed == \E d \in Clients \ {c} : edge.op[d].at # "idle"
       IN \/ edge' = [cleared EXCEPT !.op[c] = next]
          \/ disturbed /\ edge' = Goes(c, next)
          \/ RouteFault /\ edge' = [Goes(c, next) EXCEPT !.faults = @ + 1]

\* A key that is not there (ResourceNotFound): the store is described again.
afterMissing(c) ==
    IF Op(c).put = 1 THEN [Goes(c, Resting) EXCEPT !.gone = @ \cup {c}]
    ELSE Goes(c, [Op(c) EXCEPT !.put = 1, !.etag = edge.etag])
deleteKey(c) ==
    /\ In(c, "delete")
    /\ LET i == Op(c).put
           present == IF i = 0 THEN edge.j[c] # NoKey ELSE edge.m[c] # NoKey
           e == Stored(c, i, NoKey)
       IN \/ ~present /\ edge' = afterMissing(c)
          \/ present /\ Op(c).etag # edge.etag /\ edge' = Goes(c, giveUpRoute(c))
          \/ /\ present /\ Op(c).etag = edge.etag
             /\ edge' = IF i = 1 THEN [e EXCEPT !.op[c] = Resting, !.gone = @ \cup {c}]
                        ELSE [e EXCEPT !.op[c].put = 1, !.op[c].etag = edge.etag + 1]
          \/ present /\ RouteFault /\ \E ex \in {edge, e} : edge' = [ex EXCEPT !.op[c] = giveUpRoute(c), !.faults = @ + 1]

-----------------------------------------------------------------------------
(* A request at the edge reads the two keys of c1 one after the other, in  *)
(* the copy of the server it reached.                                      *)

\* A key reaches the server some time after it was written or deleted; it may have
\* changed more than once by then.
keyArrives ==
    /\ edge.about = "routes" /\ edge.ops["c2"] = 0
    /\ \/ edge.copy.j # edge.j["c1"] /\ edge' = [edge EXCEPT !.copy.j = edge.j["c1"]]
       \/ edge.copy.m # edge.m["c1"] /\ edge' = [edge EXCEPT !.copy.m = edge.m["c1"]]
\* The routes this server no longer has, of those whose unregister() returned.
Withdrawn == IF edge.copy.j = NoKey \/ edge.copy.m = NoKey THEN edge.gone \cap {"c1"} ELSE {}
requestArrives ==
    /\ edge.about = "routes" /\ edge.asked.at = "idle" /\ edge.ops["c1"] > 0 /\ edge.ops["c2"] = 0
    /\ edge' = [edge EXCEPT !.asked = [NoRequest EXCEPT !.at = "j", !.since = Withdrawn]]
readJwe ==
    /\ edge.about = "routes" /\ edge.asked.at = "j"
    /\ edge' = [edge EXCEPT !.asked = IF edge.copy.j = NoKey THEN [@ EXCEPT !.at = "answered", !.kind = "not-found"]
                                      ELSE [@ EXCEPT !.at = "m"]]
readMeta ==
    /\ edge.about = "routes" /\ edge.asked.at = "m"
    /\ \E token \in {"accepted", "refused", "expired"} :
         edge' = [edge EXCEPT !.asked = [@ EXCEPT !.at = "answered",
                     !.kind = IF edge.copy.m = NoKey \/ token = "expired" THEN "not-found"
                              ELSE IF token = "refused" THEN "forbidden" ELSE "origin"]]

-----------------------------------------------------------------------------
(* Names: an alias is its parts between dashes, a host its labels.         *)

AliasParts == {"app", "80", "443"}
Aliases == UNION {[1..n -> AliasParts] : n \in 1..2}
RoutePorts == {"80", "443", "9000"}     \* texts of ports
Reserved == {"9000"}                    \* RESERVED_PORTS
validateRoutePort(p) == p \notin Reserved
validateAlias(a) == a # <<>>
labelOf(a, p) == IF validateAlias(a) /\ validateRoutePort(p) THEN <<p>> \o a ELSE <<>>
portFromLabel(label) == label[1]
edgeRoute(label) == IF label = <<>> \/ portFromLabel(label) \in Reserved THEN "none" ELSE portFromLabel(label)
chooseHost ==
    /\ edge.about = "start"
    /\ \E a, b \in Aliases, p, q \in RoutePorts :
         edge' = [about |-> "hosts", alias |-> <<a, b>>, port |-> <<p, q>>, label |-> <<labelOf(a, p), labelOf(b, q)>>,
                  served |-> <<edgeRoute(labelOf(a, p)), edgeRoute(labelOf(b, q))>>]

EdgeNext ==
    \/ deployDomain \/ destroyDomain \/ chooseHost \/ keyArrives \/ requestArrives \/ readJwe \/ readMeta
    \/ \E c \in Clients : \/ registerRoute(c) \/ refreshRoute(c) \/ unregisterRoute(c) \/ describeStore(c) \/ putKey(c)
                          \/ putConflicts(c) \/ putFails(c) \/ deleteBestEffort(c) \/ deleteKey(c)

-----------------------------------------------------------------------------

\* A route is never announced for longer than its token lives: whatever write
\* fails, is repeated or is undone, the metadata in the store is not newer than the
\* token next to it (#writeRoute, register, refresh).
NeverPastToken ==
    edge.about = "routes" => \A c \in Clients : edge.j[c] # NoKey /\ edge.m[c] # NoKey => edge.m[c] <= edge.j[c]

\* A registered route is whole in the store from then on, however many of its refreshes fail,
\* until it is unregistered, registered again or the stack goes (refresh).
RefreshKeepsRoute ==
    edge.about = "routes" => \A c \in edge.kept : edge.j[c] # NoKey /\ edge.m[c] # NoKey

\* When unregister() returns nothing is left of the route in the store, even of one
\* that an earlier unregister left half deleted, and a server of the edge that one of
\* the two deletions has reached serves it no more; until then it may (deleteKey, the
\* edge function).
UnregisteredGone ==
    edge.about = "routes" =>
        /\ \A c \in edge.gone : edge.j[c] = NoKey /\ edge.m[c] = NoKey
        /\ edge.asked.at = "answered" /\ "c1" \in edge.asked.since => edge.asked.kind = "not-found"

\* The function at the edge takes every host for the alias and the port it was
\* registered with, two routes never share a label, and reserved ports are not served.
HostNamesOneRoute ==
    edge.about = "hosts" =>
        /\ \A i \in 1..2 : edge.label[i] # <<>> => edge.served[i] = edge.port[i]
        /\ \A i \in 1..2 : edge.port[i] \in Reserved => edge.served[i] = "none"
        /\ edge.label[1] = edge.label[2] /\ edge.label[1] # <<>> => edge.alias[1] = edge.alias[2] /\ edge.port[1] = edge.port[2]
=============================================================================
