------------------------------ MODULE PagedReads ------------------------------
(***************************************************************************)
(* Reads that come in pages: the rows of the metadata index (index/), the  *)
(* events and webhooks of the events stack (lifecycle-events/) and the log *)
(* streams of a sandbox (sandbox-logs/), while the service behind them     *)
(* leaves keys for later, returns empty pages and appends.                 *)
(***************************************************************************)
EXTENDS Integers, Sequences, FiniteSets

VARIABLE pages

ChunkSize == 2                          \* BATCH_GET_MAX_KEYS, 100 in the code
Retries == 2                            \* UNPROCESSED_RETRY_ATTEMPTS, 5 in the code
PageCap == 3                            \* MAX_QUERY_PAGES and MAX_SCAN_PAGES, 25 and more in the code
RowIds == {"a", "b", "c"}
PagesInit == pages = [about |-> "none"]

TakeFirst(s, n) == SubSeq(s, 1, IF n < Len(s) THEN n ELSE Len(s))
LastOf(s, n) == SubSeq(s, IF n < Len(s) THEN Len(s) - n + 1 ELSE 1, Len(s))

-----------------------------------------------------------------------------
(* The metadata index.  A row is live, expired, unreadable or missing.     *)

chunks(ids) ==
    LET order == SelectSeq(<<"a", "b", "c">>, LAMBDA i : i \in ids)
    IN [k \in 1..((Len(order) + ChunkSize - 1) \div ChunkSize) |-> {order[i] : i \in {j \in DOMAIN order : (j - 1) \div ChunkSize = k - 1}}]
fromItem(row) == IF row \in {"live", "expired"} THEN row ELSE "undefined"
startBatchGet ==
    pages.about = "none" /\ \E ids \in SUBSET RowIds, rows \in [RowIds -> {"live", "expired", "bad", "missing"}] :
        pages' = [about |-> "batch", ids |-> ids, rows |-> rows, todo |-> chunks(ids), keys |-> {}, attempt |-> 0, found |-> {}, result |-> ""]
kept(rows, keys) == {k \in keys : fromItem(rows[k]) = "live"}
batchGet ==
    /\ pages.about = "batch" /\ pages.result = "" /\ pages.keys = {}
    /\ pages' = IF pages.todo = <<>> THEN [pages EXCEPT !.result = "ok"]
                ELSE [pages EXCEPT !.keys = Head(pages.todo), !.todo = Tail(@), !.attempt = 0]
\* DynamoDB answers some of the keys and returns the rest unprocessed.
batchGetChunk ==
    /\ pages.about = "batch" /\ pages.result = "" /\ pages.keys # {}
    /\ \E pending \in SUBSET pages.keys :
         pages' = IF pending # {} /\ pages.attempt = Retries THEN [pages EXCEPT !.result = "UnprocessedKeys"]
                  ELSE [pages EXCEPT !.found = @ \cup kept(pages.rows, pages.keys \ pending), !.keys = pending, !.attempt = @ + 1]
indexError == pages.about = "batch" /\ pages.result = "" /\ pages.keys # {} /\ pages' = [pages EXCEPT !.result = "error"]

\* A row of the index and the sandbox of a listing it is joined with.
Tolerance == 1
recordFor(started, duration, margin) == [id |-> "a", image |-> "img", started |-> started, expires |-> started + duration + margin, meta |-> {"k=v"}]
joined(item, r, wanted, now) ==
    /\ r.id = item.id /\ r.expires >= now /\ r.image = item.image
    /\ r.started - item.started \in -Tolerance..Tolerance /\ wanted \subseteq r.meta
listJoined ==
    pages.about = "none" /\ \E id \in {"a", "b"}, image \in {"img", "other"}, started \in {1, 2, 6}, now \in 1..9, wanted \in {{}, {"k=v"}, {"k=w"}}, margin \in {0, 2} :
        LET item == [id |-> id, image |-> image, started |-> started]
            r == recordFor(2, 3, margin)
        IN pages' = [about |-> "join", item |-> item, row |-> r, wanted |-> wanted, now |-> now, shown |-> joined(item, r, wanted, now)]

-----------------------------------------------------------------------------
(* Events and webhooks (lifecycle-events/dynamodb.ts, domain.ts).          *)

startQuery ==
    pages.about = "none" /\ \E n \in 0..4 : \E kinds \in [1..n -> {"x", "y"}], types \in {{"x"}, {"x", "y"}}, limit \in {1, 2}, desc \in BOOLEAN :
        pages' = [about |-> "query", kinds |-> [i \in 1..n |-> kinds[i]], types |-> types, limit |-> limit, desc |-> desc,
                  at |-> 0, page |-> 0, got |-> <<>>, result |-> ""]
Ordered(n, desc) == [i \in 1..n |-> IF desc THEN n + 1 - i ELSE i]
Wanted(q) == SelectSeq(Ordered(Len(q.kinds), q.desc), LAMBDA i : q.kinds[i] \in q.types)
\* A page reads `limit` rows, or fewer, and then drops those of other kinds.
queryEvents ==
    /\ pages.about = "query" /\ pages.result = ""
    /\ \E read \in 0..pages.limit :
         LET n == Len(pages.kinds)
             upto == IF pages.at + read < n THEN pages.at + read ELSE n
             got == pages.got \o SelectSeq(SubSeq(Ordered(n, pages.desc), pages.at + 1, upto), LAMBDA i : pages.kinds[i] \in pages.types)
         IN pages' = [pages EXCEPT !.at = upto, !.page = @ + 1, !.got = TakeFirst(got, pages.limit),
                                   !.result = IF Len(got) >= pages.limit \/ upto = n THEN "ok" ELSE IF pages.page + 1 = PageCap THEN "capped" ELSE ""]

\* Addresses are numbers, of 3 bits for IPv4 and 5 for IPv6 (32 and 128 in the code), a
\* network is a base and the length of its prefix.  The mapped prefix is a private
\* network of IPv6, as in the code's tables.
AddressBits(family) == IF family = 4 THEN 3 ELSE 5
Network(base, length) == [base |-> base, length |-> length]
MappedPrefix == Network(8, 2)
Tables(family) ==
    IF family = 4 THEN [private |-> {Network(4, 1)}, exceptions |-> {Network(6, 3)}, others |-> {Network(0, 3)}]
    ELSE [private |-> {Network(0, 5), MappedPrefix, Network(16, 2)}, exceptions |-> {Network(18, 4)}, others |-> {Network(28, 3)}]
Addresses == {[family |-> 4, value |-> v] : v \in 0..7} \cup {[family |-> 6, value |-> v] : v \in 0..31}
inNetwork(a, n) == LET host == 2^(AddressBits(a.family) - n.length) IN a.value \div host = n.base \div host
inAnyNetwork(a, networks) == \E n \in networks : inNetwork(a, n)
judged(a) == IF a.family = 6 /\ inNetwork(a, MappedPrefix) THEN [family |-> 4, value |-> a.value % 8] ELSE a
isBlockedWebhookAddress(a) ==
    LET is == judged(a)
        table == Tables(is.family)
    IN (inAnyNetwork(is, table.private) /\ ~inAnyNetwork(is, table.exceptions)) \/ inAnyNetwork(is, table.others)
isDeliverableWebhookUrl(u) ==
    /\ u.shape /\ u.scheme = "https" /\ u.port \in 1..65535
    /\ IF u.literal THEN u.parsed /\ ~isBlockedWebhookAddress(u.address) ELSE u.dns /\ ~u.localhost
registerWebhook ==
    pages.about = "none" /\ \E a \in Addresses, scheme \in {"http", "https"}, literal, localhost \in BOOLEAN, port \in {0, 443} :
        /\ (literal => ~localhost)
        /\ LET u == [shape |-> TRUE, scheme |-> scheme, port |-> port, literal |-> literal, parsed |-> TRUE, address |-> a, dns |-> TRUE, localhost |-> localhost]
           IN pages' = [about |-> "url", url |-> u, taken |-> isDeliverableWebhookUrl(u)]

-----------------------------------------------------------------------------
(* One LifecycleEvents object and the stack behind it (service.ts).        *)

openEvents ==
    /\ pages.about = "none"
    /\ \E up \in BOOLEAN :
         pages' = [about |-> "object", stack |-> IF up THEN 1 ELSE 0, born |-> IF up THEN 1 ELSE 0, table |-> 0, secret |-> 0, key |-> 0, last |-> "", used |-> 0]
deployEvents ==
    /\ pages.about = "object" /\ pages.born < 3
    /\ LET s == IF pages.stack = 0 THEN pages.born + 1 ELSE pages.stack
       IN pages' = [pages EXCEPT !.stack = s, !.born = IF s > @ THEN s ELSE @, !.table = s, !.secret = s, !.last = "deploy"]
destroyEvents == pages.about = "object" /\ pages.stack # 0 /\ pages' = [pages EXCEPT !.stack = 0, !.last = "destroy"]
resolveTableName(p) == IF p.table # 0 THEN p.table ELSE p.stack
getEvents ==
    /\ pages.about = "object"
    /\ LET t == resolveTableName(pages)
       IN pages' = IF t = 0 THEN [pages EXCEPT !.last = "notDeployed"]
                   ELSE [pages EXCEPT !.table = t, !.used = t, !.last = IF t = pages.stack THEN "events" ELSE "awsError"]
stackKey ==
    /\ pages.about = "object"
    /\ LET secret == IF pages.secret # 0 THEN pages.secret ELSE pages.stack
       IN pages' = IF pages.key # 0 THEN [pages EXCEPT !.last = "section"]
                   ELSE IF secret = 0 THEN [pages EXCEPT !.last = "notDeployed"]
                   ELSE IF secret # pages.stack THEN [pages EXCEPT !.secret = secret, !.last = "awsError"]
                   ELSE [pages EXCEPT !.secret = secret, !.key = secret, !.last = "section"]

-----------------------------------------------------------------------------
(* The log of a sandbox (sandbox-logs/).                                   *)

expectedStreamName(start) == [day |-> start, version |-> 1, id |-> "a"]
isFallbackStream(s, start) == s.version = 1 /\ s.id = "a" /\ s.day >= start
findStreams ==
    pages.about = "none" /\ \E names \in SUBSET [day : 1..2, version : {1}, id : {"a", "b"}], start \in 1..2, failed \in BOOLEAN :
        LET found == IF expectedStreamName(start) \in names THEN {expectedStreamName(start)} ELSE {s \in names : isFallbackStream(s, start)}
        IN pages' = [about |-> "streams", names |-> names, start |-> start,
                     result |-> IF failed THEN "error" ELSE IF found = {} THEN "LogsNotFound" ELSE "ok", found |-> IF failed THEN {} ELSE found]
startLogRead ==
    pages.about = "none" /\ \E n \in 0..3, limit \in 1..3, mode \in {"read", "tail"} :
        pages' = [about |-> mode, lines |-> n, limit |-> limit, from |-> IF mode = "read" THEN 0 ELSE n, seen |-> n, empty |-> FALSE, got |-> <<>>, calls |-> 0, result |-> ""]
appendLog == pages.about \in {"read", "tail"} /\ pages.result = "" /\ pages.lines < 4 /\ pages' = [pages EXCEPT !.lines = @ + 1]
\* Forwards, a token that repeats ends the read.
readEvents ==
    /\ pages.about = "read" /\ pages.result = "" /\ pages.calls < 5
    /\ \E size \in 0..2 :
         LET upto == IF pages.from + size < pages.lines THEN pages.from + size ELSE pages.lines
             got == pages.got \o [i \in 1..(upto - pages.from) |-> pages.from + i]
         IN pages' = [pages EXCEPT !.from = upto, !.calls = @ + 1, !.got = TakeFirst(got, pages.limit),
                                   !.result = IF Len(got) >= pages.limit \/ pages.from = pages.lines THEN "ok" ELSE ""]
\* Backwards from the end, the pages in front of those already read.
prepend(got, page) == page \o got
tailEvents ==
    /\ pages.about = "tail" /\ pages.result = "" /\ pages.calls < 5
    /\ \E size \in 0..2 :
         LET room == pages.limit - Len(pages.got)
             take == IF size < room THEN size ELSE room
             down == IF pages.from > take THEN pages.from - take ELSE 0
             page == [i \in 1..(pages.from - down) |-> down + i]
             got == prepend(pages.got, page)
         IN pages' = [pages EXCEPT !.from = down, !.calls = @ + 1, !.got = LastOf(got, pages.limit), !.empty = @ \/ (page = <<>> /\ pages.from > 0),
                                   !.result = IF Len(got) >= pages.limit \/ page = <<>> \/ down = 0 THEN "ok" ELSE ""]

PagesNext == \/ startBatchGet \/ batchGet \/ batchGetChunk \/ indexError \/ listJoined \/ startQuery \/ queryEvents \/ registerWebhook
             \/ openEvents \/ deployEvents \/ destroyEvents \/ getEvents \/ stackKey \/ findStreams \/ startLogRead \/ appendLog
             \/ readEvents \/ tailEvents

-----------------------------------------------------------------------------

\* A batch that succeeds returns every requested row that is live and no other,
\* however often DynamoDB left keys for later (#batchGetChunk).
BatchIsComplete == pages.about = "batch" /\ pages.result = "ok" => pages.found = {i \in pages.ids : pages.rows[i] = "live"}

\* The metadata of a row is only shown on the sandbox it was written for: a later one
\* with the same id but another start does not inherit it (joined).
MetadataIsOwn ==
    pages.about = "join" /\ pages.shown => /\ pages.item.id = pages.row.id /\ pages.item.image = pages.row.image
                                           /\ pages.item.started \in 1..3 /\ pages.now <= pages.row.expires

\* The events that are returned are the first ones of the kinds asked for, in the order
\* asked for; fewer than the limit means that there are no more or that the cap of
\* pages was reached (queryEvents).
EventsAreFirst ==
    pages.about = "query" /\ pages.result # "" =>
        /\ pages.got = TakeFirst(Wanted(pages), Len(pages.got))
        /\ pages.result = "ok" => Len(pages.got) = Len(TakeFirst(Wanted(pages), pages.limit))

\* The addresses of the tables above that a webhook may name, read off them.
PublicV4 == {1, 2, 3, 6}
PublicV6 == 1..7 \cup {18, 19} \cup 24..27
\* A webhook with a literal address is taken exactly if the address is public, and an
\* IPv4 address written as IPv6 is judged as the IPv4 address it is, although its prefix
\* is itself in a private network (isBlockedWebhookAddress, inAnyNetwork).
WebhookAddressJudged ==
    pages.about = "url" /\ pages.url.literal /\ pages.url.scheme = "https" /\ pages.url.port = 443 =>
        LET a == pages.url.address
        IN pages.taken <=> IF a.family = 4 THEN a.value \in PublicV4 ELSE a.value \in PublicV6 \cup {8 + v : v \in PublicV4}

\* After a deploy through this object its events are read from the table of that stack.
TableOfOwnDeploy == pages.about = "object" /\ pages.last = "deploy" => pages.table = pages.stack /\ pages.secret = pages.stack

\* A forward read returns the oldest lines and a tail the newest ones of the log as it
\* was, both in order and without a gap, also while lines are appended; a tail may
\* only be short when a page was empty.
LogHasNoGap ==
    /\ pages.about \in {"read", "tail"} => \A i \in 1..(Len(pages.got) - 1) : pages.got[i + 1] = pages.got[i] + 1
    /\ pages.about = "read" /\ pages.got # <<>> => pages.got[1] = 1
    /\ pages.about = "tail" /\ pages.got # <<>> => pages.got[Len(pages.got)] = pages.seen
    /\ pages.about = "tail" /\ pages.result = "ok" /\ ~pages.empty => Len(pages.got) = IF pages.limit < pages.seen THEN pages.limit ELSE pages.seen
=============================================================================
