------------------------------ MODULE LocalProxy ------------------------------
(***************************************************************************)
(* `rayito sandbox proxy` (cli/proxy-*.ts, http-*.ts, socket-io.ts,        *)
(* access.ts): a local listener that forwards one request per connection   *)
(* to a port of the sandbox, with a limit of connections, until Ctrl-C.    *)
(***************************************************************************)
EXTENDS Integers, Sequences, FiniteSets, TLC

VARIABLE tunnel

ProxyClients == {1, 2}
SlotCapacity == 1                       \* --max-connections
TunnelInit == tunnel = [about |-> "none"]

-----------------------------------------------------------------------------
(* The command and its connections.  A connection is at: out, queued (not  *)
(* accepted yet), head, forward, connecting, relay, end.                   *)

validateProxyPort(port) == port # "hooks" /\ port # "outOfRange"
checkRemoteBind(bind, remote, hosts) == bind = "loopback" \/ (remote /\ (bind = "wildcard" => hosts))
runProxy ==
    tunnel.about = "none" /\ \E port \in {"ok", "hooks", "outOfRange"}, bind \in {"loopback", "other", "wildcard"}, remote, hosts \in BOOLEAN :
        tunnel' = [about |-> "serve", at |-> IF validateProxyPort(port) /\ checkRemoteBind(bind, remote, hosts) THEN "bind" ELSE "end", result |-> "",
                   listening |-> FALSE, minted |-> FALSE, refresher |-> FALSE, handler |-> FALSE, free |-> SlotCapacity, active |-> {},
                   conn |-> [c \in ProxyClients |-> [at |-> "out", client |-> "none", up |-> "none", slot |-> FALSE, reply |-> ""]]]
Serving(at) == tunnel.about = "serve" /\ tunnel.at = at
bindListener == Serving("bind") /\ \E ok \in BOOLEAN : tunnel' = IF ok THEN [tunnel EXCEPT !.at = "prepare", !.listening = TRUE] ELSE [tunnel EXCEPT !.at = "end", !.result = "error"]
closeQueued(conn) == [c \in ProxyClients |-> IF conn[c].at = "queued" THEN [conn[c] EXCEPT !.at = "end", !.client = "closed"] ELSE conn[c]]
closeListener(t) == [t EXCEPT !.listening = FALSE, !.conn = closeQueued(@)]
\* The endpoint and the first token; a sandbox that ended, or AWS failing, closes the listener.
prepareProxy ==
    /\ Serving("prepare")
    /\ \E outcome \in {"ok", "terminated", "awsError"} :
         tunnel' = IF outcome = "ok" THEN [tunnel EXCEPT !.at = "accept", !.minted = TRUE, !.refresher = TRUE]
                   ELSE [closeListener(tunnel) EXCEPT !.at = "end", !.result = "error"]
\* A client connects; before accept it waits in the queue of the listener.
onConnection ==
    /\ tunnel.about = "serve" /\ tunnel.listening
    /\ \E c \in ProxyClients :
         /\ tunnel.conn[c].at = "out"
         /\ tunnel' = [tunnel EXCEPT !.conn[c] = [@ EXCEPT !.at = IF tunnel.handler THEN "head" ELSE "queued", !.client = "open"],
                                     !.active = IF tunnel.handler THEN @ \cup {c} ELSE @]
acceptQueued ==
    /\ Serving("accept")
    /\ LET q == {c \in ProxyClients : tunnel.conn[c].at = "queued"}
       IN tunnel' = [tunnel EXCEPT !.at = "serving", !.handler = TRUE, !.active = @ \cup q, !.conn = [c \in ProxyClients |-> IF c \in q THEN [tunnel.conn[c] EXCEPT !.at = "head"] ELSE tunnel.conn[c]]]

Replied(t, c, status) == [t EXCEPT !.conn[c] = [@ EXCEPT !.at = "end", !.client = "closed", !.reply = status], !.active = @ \ {c}]
tryAcquire(t) == t.free > 0
\* The head is read, or not in time; then host, origin, framing and a slot, in this order.
handleConnection ==
    /\ tunnel.about = "serve"
    /\ \E c \in ProxyClients, head \in {"silent", "malformed", "host", "origin", "framing", "good"} :
         /\ tunnel.conn[c].at = "head" /\ (tunnel.conn[c].client = "closed" => head = "silent")
         /\ tunnel' = IF head = "silent" THEN Replied(tunnel, c, "")
                      ELSE IF head \in {"malformed", "framing"} THEN Replied(tunnel, c, "400")
                      ELSE IF head = "host" THEN Replied(tunnel, c, "421")
                      ELSE IF head = "origin" THEN Replied(tunnel, c, "403")
                      ELSE IF ~tryAcquire(tunnel) THEN Replied(tunnel, c, "503")
                      ELSE [tunnel EXCEPT !.free = @ - 1, !.conn[c] = [@ EXCEPT !.at = "forward", !.slot = TRUE]]
slotReleased(t, c, status) == LET r == Replied(t, c, status) IN [r EXCEPT !.free = @ + 1, !.conn[c].slot = FALSE]
forward ==
    /\ tunnel.about = "serve"
    /\ \E c \in ProxyClients, jwe \in BOOLEAN :
         /\ tunnel.conn[c].at = "forward"
         /\ tunnel' = IF jwe THEN [tunnel EXCEPT !.conn[c] = [@ EXCEPT !.at = "connecting", !.up = "connecting"]] ELSE slotReleased(tunnel, c, "502")
connectUpstream ==
    /\ tunnel.about = "serve"
    /\ \E c \in ProxyClients, outcome \in {"open", "refused", "timeout"} :
         /\ tunnel.conn[c].at = "connecting"
         /\ tunnel' = IF outcome = "open" THEN [tunnel EXCEPT !.conn[c] = [@ EXCEPT !.at = "relay", !.up = "open"]]
                      ELSE LET r == slotReleased(tunnel, c, "502") IN [r EXCEPT !.conn[c].up = IF outcome = "timeout" THEN "late" ELSE "closed"]
\* The connection that came too late.
lateUpstream(c) == [tunnel EXCEPT !.conn[c].up = "closed"]
upstreamComesLate == tunnel.about = "serve" /\ \E c \in ProxyClients : tunnel.conn[c].up = "late" /\ tunnel' = lateUpstream(c)
\* The exchange ends, one way or the other, and closes both sockets.
relayEnds ==
    /\ tunnel.about = "serve"
    /\ \E c \in ProxyClients : tunnel.conn[c].at = "relay" /\ tunnel' = LET r == slotReleased(tunnel, c, "relayed") IN [r EXCEPT !.conn[c].up = "closed"]
\* Ctrl-C, or the listener failing: stop.
stopServing ==
    /\ Serving("serving")
    /\ \E why \in {"abort", "listenerFails"} :
         LET t == closeListener(tunnel)
         IN tunnel' = [t EXCEPT !.at = "end", !.result = "ok", !.refresher = FALSE, !.active = {},
                                !.conn = [c \in ProxyClients |-> IF c \in tunnel.active THEN [t.conn[c] EXCEPT !.client = "closed"] ELSE t.conn[c]]]

-----------------------------------------------------------------------------
(* One exchange: the request's body and, after a 101, the tunnel.  The     *)
(* client sends the body and then more; what counts is where bytes end up. *)

BodyMax == 2
startExchange ==
    tunnel.about = "none" /\ \E len \in 0..BodyMax, upgrade \in BOOLEAN :
        tunnel' = [about |-> "exchange", len |-> len, upgrade |-> upgrade, arrived |-> 0, readBy |-> <<>>, body |-> IF len = 0 THEN "done" ELSE "copying", head |-> "waiting", told |-> <<>>,
                   pumping |-> FALSE, over |-> FALSE]
clientSends == tunnel.about = "exchange" /\ tunnel.arrived < BodyMax + 2 /\ ~tunnel.over /\ tunnel' = [tunnel EXCEPT !.arrived = @ + 1]
Waiting == tunnel.arrived - Len(tunnel.readBy)
\* A read takes all that has arrived, but never more than what is left of the body.
takeOf(n, left) == IF n < left THEN n ELSE left
copyExactly ==
    /\ tunnel.about = "exchange" /\ tunnel.body = "copying" /\ Waiting > 0 /\ ~tunnel.over
    /\ LET n == takeOf(Waiting, tunnel.len - Len(tunnel.readBy))
           got == tunnel.readBy \o [i \in 1..n |-> "body"]
       IN tunnel' = [tunnel EXCEPT !.readBy = got, !.body = IF Len(got) >= tunnel.len THEN "done" ELSE @]
\* The client goes away in its body: everything is destroyed.
bodyBreaks == tunnel.about = "exchange" /\ tunnel.body = "copying" /\ ~tunnel.over /\ tunnel' = [tunnel EXCEPT !.body = "failed", !.over = TRUE]
isInformational(status) == status \in {"100", "101", "103"}
switchesProtocols(status) == status = "101"
exchangeUpgrade ==
    /\ tunnel.about = "exchange" /\ tunnel.upgrade /\ tunnel.head = "waiting" /\ ~tunnel.over /\ Len(tunnel.told) < 3
    /\ \E status \in {"100", "103", "101", "200", "invalid", "timeout"} :
         tunnel' = IF status \in {"invalid", "timeout"} THEN [tunnel EXCEPT !.told = Append(@, "502"), !.over = TRUE]
                   ELSE IF switchesProtocols(status) THEN [tunnel EXCEPT !.told = Append(@, status), !.head = "switched"]
                   ELSE IF isInformational(status) THEN [tunnel EXCEPT !.told = Append(@, status)]
                   ELSE [tunnel EXCEPT !.told = Append(@, status), !.over = TRUE]
bodySent == tunnel.head = "switched" /\ tunnel.body = "done"
openTunnel == tunnel.about = "exchange" /\ bodySent /\ ~tunnel.pumping /\ ~tunnel.over /\ tunnel' = [tunnel EXCEPT !.pumping = TRUE]
pumpClient ==
    /\ tunnel.about = "exchange" /\ tunnel.pumping /\ Waiting > 0 /\ ~tunnel.over
    /\ tunnel' = [tunnel EXCEPT !.readBy = @ \o [i \in 1..Waiting |-> "tunnel"]]
plainResponse == tunnel.about = "exchange" /\ ~tunnel.upgrade /\ ~tunnel.over /\ tunnel' = [tunnel EXCEPT !.told = <<"response">>, !.over = TRUE]
pumpEnds == tunnel.about = "exchange" /\ tunnel.pumping /\ ~tunnel.over /\ tunnel' = [tunnel EXCEPT !.over = TRUE]

-----------------------------------------------------------------------------
(* The reader: bytes in pieces of any size until a two-byte delimiter.     *)

HeadMax == 3                            \* PROXY_HEAD_MAX_BYTES
HighWater == 4                          \* READ_BUFFER_HIGH_WATER_BYTES, above HeadMax as in the code
WireBytes == {"a", "\r", "\n"}
startReader == tunnel.about = "none" /\ tunnel' = [about |-> "reader", buffer |-> <<>>, from |-> 0, ended |-> FALSE, paused |-> FALSE, result |-> ""]
DelimiterAt(s, i) == i + 1 <= Len(s) /\ s[i] = "\r" /\ s[i + 1] = "\n"
searchFrom(s) == IF Len(s) = 0 THEN 0 ELSE Len(s) - 1
\* #append, and readUntil looks again, from where a split delimiter may begin.
readUntil(s, from, ended) ==
    LET at == {i \in (from + 1)..Len(s) : DelimiterAt(s, i)}
        first == IF at = {} THEN 0 ELSE CHOOSE i \in at : \A j \in at : i <= j
    IN IF first # 0 /\ first + 1 <= HeadMax THEN "found"
       ELSE IF first # 0 \/ Len(s) >= HeadMax THEN "limit" ELSE IF ended THEN "closed" ELSE ""
appendPiece ==
    /\ tunnel.about = "reader" /\ tunnel.result = "" /\ ~tunnel.paused
    /\ \E piece \in [1..1 -> WireBytes] \cup [1..2 -> WireBytes] :
         LET s == tunnel.buffer \o piece
             r == readUntil(s, tunnel.from, FALSE)
         IN tunnel' = [tunnel EXCEPT !.buffer = s, !.paused = Len(s) >= HighWater, !.result = r, !.from = IF r = "" THEN searchFrom(s) ELSE @]
streamEnds == tunnel.about = "reader" /\ tunnel.result = "" /\ tunnel' = [tunnel EXCEPT !.ended = TRUE, !.result = readUntil(tunnel.buffer, tunnel.from, TRUE)]

-----------------------------------------------------------------------------
(* Framing, the rewritten head and who is let in.                          *)

Lengths == {<<>>, <<"1">>, <<"1", "1">>, <<"1", "2">>, <<"x">>, <<"0">>}
Encodings == {<<>>, <<"chunked">>, <<"gzip", "chunked">>, <<"chunked", "gzip">>}
contentLength(cl) == IF cl = <<>> THEN "undefined" ELSE IF Cardinality({cl[i] : i \in DOMAIN cl}) # 1 \/ cl[1] = "x" THEN "malformed" ELSE cl[1]
requestBodyFraming(te, cl) ==
    IF te # <<>> THEN IF cl # <<>> \/ te[Len(te)] # "chunked" THEN "malformed" ELSE "chunked"
    ELSE IF contentLength(cl) = "malformed" THEN "malformed" ELSE IF contentLength(cl) \in {"undefined", "0"} THEN "none" ELSE "length"
responseBodyFraming(status, method, te, cl) ==
    IF status \in {"103", "204", "304"} \/ method = "HEAD" THEN "none"
    ELSE IF te # <<>> THEN IF te[Len(te)] = "chunked" THEN "chunked" ELSE "until-close"
    ELSE IF contentLength(cl) \in {"malformed", "undefined"} THEN "until-close" ELSE IF contentLength(cl) = "0" THEN "none" ELSE "length"
\* A chunked body: sizes, data and terminators in turn, ended by a size of zero.
chooseFraming ==
    tunnel.about = "none" /\ \E te \in Encodings, cl \in Lengths, status \in {"200", "103", "204", "304"}, method \in {"GET", "HEAD"} :
        tunnel' = [about |-> "framing", te |-> te, cl |-> cl, status |-> status, method |-> method,
                   request |-> requestBodyFraming(te, cl), response |-> responseBodyFraming(status, method, te, cl)]
startChunks == tunnel.about = "none" /\ tunnel' = [about |-> "chunks", expect |-> "size", sent |-> <<>>, result |-> ""]
\* relayChunked; a token is a size line, data, a line end or a trailer line.
chunkNext(expect, token) ==
    IF expect = "size" THEN (IF token = "0" THEN "trailer" ELSE IF token = "1" THEN "data" ELSE "bad")
    ELSE IF expect = "data" THEN "crlf"
    ELSE IF expect = "crlf" THEN (IF token = "crlf" THEN "size" ELSE "bad")
    ELSE IF token = "crlf" THEN "end" ELSE "trailer"
relayChunked ==
    /\ tunnel.about = "chunks" /\ tunnel.result = "" /\ Len(tunnel.sent) < 6
    /\ \E token \in {"0", "1", "crlf", "x"} :
         LET next == chunkNext(tunnel.expect, token)
         IN tunnel' = IF next = "bad" THEN [tunnel EXCEPT !.result = "malformed"]
                      ELSE [tunnel EXCEPT !.sent = Append(@, token), !.expect = next, !.result = IF next = "end" THEN "ok" ELSE ""]

\* Headers of a request; names in lower case.
isUpgrade(h) == h.connection = "upgrade" /\ h.upgrade
withoutDashboardCookies(cookies) == cookies \ {"dashboard"}
dropForwarded(h) == {}
rewriteHead(h) ==
    [host |-> "endpoint", auth |-> {"jwe"} \cup dropForwarded(h), cookies |-> withoutDashboardCookies(h.cookies),
     connection |-> IF isUpgrade(h) THEN "upgrade" ELSE "close"]
chooseHead ==
    tunnel.about = "none" /\ \E connection \in {"none", "keep-alive", "upgrade"}, upgrade \in BOOLEAN, cookies \in SUBSET {"own", "dashboard"}, forged \in {{}, {"forged"}} :
        LET h == [connection |-> connection, upgrade |-> upgrade, cookies |-> cookies, forged |-> forged]
        IN tunnel' = [about |-> "head", head |-> h, out |-> rewriteHead(h)]

\* Hosts are names with a port; "bare" is a name without one.
nameAuthorities(name, port) == {<<name, port>>} \cup (IF port = 80 THEN {<<name, 0>>} ELSE {})
allowedHostAuthorities(v, port) == IF v.port = 0 THEN {<<v.name, 0>>, <<v.name, port>>} ELSE {<<v.name, v.port>>}
sandboxLocalhostName(id) == IF id = "label" THEN {"sandbox.localhost"} ELSE {}
namesOf(bind, id) == {"localhost"} \cup ({bind} \ {"wildcard"}) \cup (IF bind = "localhost" THEN sandboxLocalhostName(id) ELSE {})
buildAccess(bind, id, port, hosts) == UNION {nameAuthorities(n, port) : n \in namesOf(bind, id)} \cup UNION {allowedHostAuthorities(v, port) : v \in hosts}
admitsHost(access, host) == host \in access
admitsOrigin(access, origins, origin) == origin = <<>> \/ origin \in access \cup origins
chooseAccess ==
    tunnel.about = "none" /\ \E bind \in {"localhost", "lan", "wildcard"}, id \in {"label", "odd"}, port \in {80, 81}, hosts \in SUBSET {[name |-> "mine", port |-> 0], [name |-> "mine", port |-> 99]},
          host \in {<<n, p>> : n \in {"localhost", "lan", "wildcard", "mine", "other", "sandbox.localhost"}, p \in {0, 80, 81, 99}}, origin \in {<<>>, <<"localhost", 81>>, <<"other", 81>>} :
        LET access == buildAccess(bind, id, port, hosts)
        IN tunnel' = [about |-> "access", bind |-> bind, id |-> id, port |-> port, hosts |-> hosts, host |-> host, origin |-> origin,
                      taken |-> admitsHost(access, host) /\ admitsOrigin(access, {}, origin)]

-----------------------------------------------------------------------------
TunnelNext ==
    \/ runProxy \/ bindListener \/ prepareProxy \/ onConnection \/ acceptQueued \/ handleConnection \/ forward \/ connectUpstream \/ upstreamComesLate \/ relayEnds \/ stopServing
    \/ startExchange \/ clientSends \/ copyExactly \/ bodyBreaks \/ exchangeUpgrade \/ openTunnel \/ pumpClient \/ plainResponse \/ pumpEnds
    \/ startReader \/ appendPiece \/ streamEnds \/ chooseFraming \/ startChunks \/ relayChunked \/ chooseHead \/ chooseAccess

-----------------------------------------------------------------------------
\* The free slots and the connections that hold one are the capacity: whatever
\* fails, a slot comes back once (handleConnection, ConnectionSlots).
SlotsComeBack ==
    tunnel.about = "serve" =>
        /\ tunnel.free >= 0
        /\ tunnel.free + Cardinality({c \in ProxyClients : tunnel.conn[c].at \in {"forward", "connecting", "relay"}}) = SlotCapacity

\* A connection that ended holds no upstream socket; one that opens after its
\* timeout is destroyed (connectUpstream, relayExchange).
NoSocketLeft ==
    tunnel.about = "serve" => \A c \in ProxyClients : tunnel.conn[c].at = "end" => (tunnel.conn[c].up \in {"none", "late", "closed"} /\ tunnel.conn[c].client = "closed")

\* When the command ended, nobody listens, no token is renewed and no client
\* socket is open, also those that were queued before accept (runProxy, serveProxy).
CommandClosesAll ==
    (tunnel.about = "serve" /\ tunnel.at = "end") => (~tunnel.listening /\ ~tunnel.refresher /\ \A c \in ProxyClients : tunnel.conn[c].client # "open")

\* Only the exact body of the first request reaches the sandbox; the bytes
\* after it do so only through the tunnel of a 101, after the whole body and
\* in order (forward, exchangeUpgrade).
NothingPastBody ==
    tunnel.about = "exchange" =>
        /\ \A i \in DOMAIN tunnel.readBy : tunnel.readBy[i] = (IF i <= tunnel.len THEN "body" ELSE "tunnel")
        /\ Len(tunnel.readBy) > tunnel.len => (tunnel.told # <<>> /\ tunnel.told[Len(tunnel.told)] = "101")

\* An upgrade gets one answer after the informational ones (exchangeUpgrade).
OneFinalAnswer ==
    tunnel.about = "exchange" =>
        \A i \in DOMAIN tunnel.told : (tunnel.told[i] \notin {"100", "103"} => i = Len(tunnel.told)) /\ (tunnel.told[i] = "101" => tunnel.head = "switched")

\* A delimiter is found wherever the pieces split it, unless it is past the
\* limit, and a reader never waits on a socket it paused (SocketReader.readUntil).
DelimiterFound ==
    tunnel.about = "reader" =>
        LET at == {i \in DOMAIN tunnel.buffer : DelimiterAt(tunnel.buffer, i)}
        IN /\ (tunnel.result = "found" <=> (at # {} /\ \E i \in at : i + 1 <= HeadMax))
           /\ ~(tunnel.result = "" /\ tunnel.paused)

\* A request whose length can be read in two ways is refused; a response never
\* takes a length from headers that disagree (requestBodyFraming, responseBodyFraming).
FramingUnambiguous ==
    tunnel.about = "framing" =>
        LET lengths == {tunnel.cl[i] : i \in DOMAIN tunnel.cl}
        IN /\ (tunnel.request = "chunked" => tunnel.cl = <<>> /\ tunnel.te[Len(tunnel.te)] = "chunked")
           /\ (tunnel.request = "length" => tunnel.te = <<>> /\ lengths = {"1"})
           /\ (tunnel.request = "none" => tunnel.te = <<>> /\ lengths \subseteq {"0"})
           /\ (tunnel.response = "length" => lengths = {"1"} /\ tunnel.te = <<>> /\ tunnel.method = "GET")

\* A relayed chunked body is size, data and line end in turn, up to the end of
\* its trailers; nothing after it is read (relayChunked).
ChunksWellFormed ==
    (tunnel.about = "chunks" /\ tunnel.result = "ok") =>
        LET zeros == {i \in DOMAIN tunnel.sent : tunnel.sent[i] = "0" /\ i % 3 = 1}
            last == CHOOSE i \in zeros : \A j \in zeros : i <= j
        IN zeros # {} /\ (\A i \in 1..(last - 1) : (i % 3 = 1 => tunnel.sent[i] = "1") /\ (i % 3 = 0 => tunnel.sent[i] = "crlf"))
           /\ \A i \in (last + 1)..Len(tunnel.sent) : (tunnel.sent[i] = "crlf" <=> i = Len(tunnel.sent))

\* The sandbox sees one credential, the proxy's, no cookie of the panel, and a
\* connection that closes unless it was upgraded (rewriteHead).
HeadIsOwn ==
    tunnel.about = "head" =>
        /\ tunnel.out.auth = {"jwe"} /\ "dashboard" \notin tunnel.out.cookies /\ (tunnel.head.cookies \ tunnel.out.cookies) \subseteq {"dashboard"}
        /\ tunnel.out.connection = "close" \/ (tunnel.head.connection = "upgrade" /\ tunnel.head.upgrade)

\* Only named hosts with the right port get in: loopback, the bound address,
\* the sandbox's own name on loopback, and those given (buildAccess).
OnlyNamedHosts ==
    (tunnel.about = "access" /\ tunnel.taken) =>
        /\ tunnel.host[1] \notin {"wildcard", "other"}
        /\ (tunnel.host[1] = "lan" => tunnel.bind = "lan")
        /\ (tunnel.host[1] = "sandbox.localhost" => tunnel.bind = "localhost" /\ tunnel.id = "label")
        /\ (tunnel.host[1] # "mine" => tunnel.host[2] = tunnel.port \/ (tunnel.port = 80 /\ tunnel.host[2] = 0))
        /\ tunnel.origin # <<"other", 81>>
=============================================================================
