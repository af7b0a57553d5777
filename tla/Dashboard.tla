------------------------------ MODULE Dashboard -----------------------------
(***************************************************************************)
(* The local management panel: what a request passes before it does        *)
(* anything (cli/dashboard-server.ts, dashboard/accounts.ts,               *)
(* dashboard/api/router.ts), the queue of bulk jobs (dashboard/api/jobs.ts,*)
(* dashboard/fleet.ts), the cache of the reads with its generation, and    *)
(* the credentials of an assumed role (dashboard/assume.ts).               *)
(***************************************************************************)
EXTENDS Integers, Sequences, SequencesExt, FiniteSets, TLC

VARIABLES panel, reports

PanelInit == panel = [about |-> "none"]

-----------------------------------------------------------------------------
(* PanelRequests.  `bad` is what is wrong with one: the Host, the Origin, the   *)
(* Sec-Fetch-Site, the Content-Type, the length, the cookie, the CSRF      *)
(* header, the confirmation or the ids.                                    *)

MaxTime == 1           \* bound: at 1 the start token has expired
Defects == {"host", "origin", "site", "type", "length", "big", "cookie", "csrf", "confirm", "ids"}
ApiPaths == {"session", "accounts", "sandboxes", "cost", "action", "nowhere"}
ActionPaths == {"action"}
ReplyWith(code, effect) == [code |-> code, effect |-> effect]
ErrorReply(code) == ReplyWith(code, "none")
rejectOrigin(r) == IF "host" \in r.bad THEN "misdirected_request" ELSE IF "origin" \in r.bad THEN "forbidden" ELSE ""
requiresCsrf(r) == r.method # "GET" \/ (r.path = "cost" /\ r.billed)
rejectApiRequest(r) ==
    IF "site" \in r.bad THEN "forbidden"
      ELSE IF r.method = "POST" /\ "type" \in r.bad THEN "unsupported_media_type"
      ELSE IF requiresCsrf(r) /\ "csrf" \in r.bad THEN "csrf_failed"
      ELSE ""
isActionRoute(r) == r.method = "POST" /\ r.path \in ActionPaths
actionTargets(r) == IF "confirm" \in r.bad THEN "confirmation_required" ELSE IF "ids" \in r.bad THEN "invalid_argument" ELSE ""
submitAction(r, allow) ==
    IF ~allow THEN ErrorReply("actions_disabled")
    ELSE IF actionTargets(r) # "" THEN ErrorReply(actionTargets(r)) ELSE ReplyWith("accepted", "job")
costReport(r, explorer) ==
    IF r.billed THEN (IF explorer THEN ReplyWith("ok", "billed") ELSE ErrorReply("cost_explorer_disabled")) ELSE ReplyWith("ok", "read")
dispatch(r, allow, explorer) ==
    CASE r.path = "nowhere" -> ErrorReply("not_found")
      [] r.path = "action" /\ r.method = "POST" -> submitAction(r, allow)
      [] r.path = "cost" /\ r.method = "GET" -> costReport(r, explorer)
      [] r.path \in {"sandboxes", "accounts"} /\ r.method = "GET" -> ReplyWith("ok", "read")
      [] OTHER -> ErrorReply("method_not_allowed")
accountsHandle(r) ==
    IF r.method = "GET" /\ r.path = "accounts" THEN ReplyWith("ok", "read")
      ELSE IF r.account = "" THEN dispatch(r, panel.allow, panel.explorer)
      ELSE IF r.account = "unknown" THEN ErrorReply("invalid_argument")
      ELSE IF isActionRoute(r) THEN ErrorReply("actions_disabled")
      \* Another account is read-only and never asks Cost Explorer.
      ELSE dispatch(r, FALSE, FALSE)
hasSession(r) == panel.session /\ "cookie" \notin r.bad
routePath(r) ==
    IF r.path = "session" /\ r.method = "GET" THEN ReplyWith("ok", "csrf")
      ELSE IF r.path \in ApiPaths THEN accountsHandle(r)
      ELSE IF r.path = "static" /\ r.method = "GET" THEN ReplyWith("ok", "file")
      ELSE ErrorReply("not_found")
respond(r) ==
    IF rejectOrigin(r) # "" THEN ErrorReply(rejectOrigin(r))
      ELSE IF r.method \notin {"GET", "POST"} THEN ErrorReply("method_not_allowed")
      ELSE IF r.method = "GET" /\ r.path = "index" /\ r.token # "" THEN
           IF r.token = "right" /\ panel.start /\ panel.now = 0 THEN ReplyWith("see_other", "session") ELSE ErrorReply("unauthorized")
      ELSE IF ~hasSession(r) THEN ErrorReply("unauthorized")
      ELSE IF r.path \in ApiPaths /\ rejectApiRequest(r) # "" THEN ErrorReply(rejectApiRequest(r))
      ELSE routePath(r)
handleRequest(r) ==
    IF r.method = "POST" /\ "length" \in r.bad THEN ErrorReply("invalid_argument")
    ELSE IF r.method = "POST" /\ "big" \in r.bad THEN ErrorReply("payload_too_large") ELSE respond(r)
\* The right token is used up the first time it is presented, even too late.
redeem(r) == panel.start /\ ~(rejectOrigin(r) = "" /\ r.method = "GET" /\ r.path = "index" /\ r.token = "right")
PlainRequest(m, p) == [method |-> m, path |-> p, bad |-> {}, token |-> "", account |-> "", billed |-> FALSE]
PanelRequests ==
    {[PlainRequest("GET", "index") EXCEPT !.token = t] : t \in {"", "right", "wrong"}}
    \cup {PlainRequest("GET", "session"), PlainRequest("GET", "static"), PlainRequest("GET", "nowhere"), PlainRequest("PUT", "action"), PlainRequest("GET", "action"), PlainRequest("POST", "sandboxes")}
    \cup {[PlainRequest(m, "action") EXCEPT !.account = a] : m \in {"POST"}, a \in {"", "other", "unknown"}}
    \cup {[PlainRequest("GET", p) EXCEPT !.account = a, !.billed = b] : p \in {"cost"}, a \in {"", "other", "unknown"}, b \in BOOLEAN}
    \cup {[PlainRequest("GET", p) EXCEPT !.account = a] : p \in {"accounts", "sandboxes"}, a \in {"", "other"}}
NoReply == [r |-> PlainRequest("GET", "static"), had |-> FALSE, reply |-> ErrorReply("")]
AtMostOne == {{}} \cup {{d} : d \in Defects}
startPanel ==
    panel.about = "none" /\ \E allow, explorer \in BOOLEAN :
        panel' = [about |-> "http", allow |-> allow, explorer |-> explorer, start |-> TRUE, session |-> FALSE, sessions |-> 0, now |-> 0,
                  last |-> NoReply]
timePasses == panel.about = "http" /\ panel.now < MaxTime /\ panel' = [panel EXCEPT !.now = @ + 1]
replied == panel.about = "http" /\ panel.last # NoReply /\ panel' = [panel EXCEPT !.last = NoReply]
request ==
    /\ panel.about = "http" /\ panel.last = NoReply
    /\ \E q \in PanelRequests, bad \in AtMostOne :
         LET r == [q EXCEPT !.bad = bad]
             reply == handleRequest(r)
             opened == reply.effect = "session"
         IN panel' = [panel EXCEPT !.start = redeem(r), !.session = @ \/ opened, !.sessions = IF opened THEN @ + 1 ELSE @,
                                   !.last = [r |-> r, had |-> panel.session, reply |-> reply]]

-----------------------------------------------------------------------------
(* Bulk jobs (BulkJobs, Fleet.runBulk).  `touched` is what the control     *)
(* plane was asked for; `late` counts that after close().                  *)

MaxJobs == 3           \* bound: jobs submitted
ActiveMax == 2         \* DASHBOARD_JOBS_ACTIVE_MAX, scaled
Retained == 2          \* DASHBOARD_JOBS_RETAINED, scaled
Sandboxes == <<"s1", "s2">>
openJobs == panel.about = "none" /\ panel' = [about |-> "jobs", jobs |-> <<>>, queue |-> <<>>, running |-> 0, sequence |-> 1,
                                              touched |-> {}, thrown |-> {}, late |-> 0, closing |-> FALSE]
Unfinished(jobs) == {i \in DOMAIN jobs : jobs[i].status # "finished"}
active == Cardinality(Unfinished(panel.jobs))
RECURSIVE evictFinished(_)
evictFinished(jobs) ==
    LET done == DOMAIN jobs \ Unfinished(jobs)
    IN IF Len(jobs) <= Retained \/ done = {} THEN jobs
       ELSE evictFinished(RemoveAt(jobs, CHOOSE i \in done : \A k \in done : i <= k))
submit ==
    /\ panel.about = "jobs" /\ panel.sequence <= MaxJobs /\ active < ActiveMax
    /\ \E n \in 1..2 :
         panel' = [panel EXCEPT !.sequence = @ + 1, !.queue = Append(@, panel.sequence),
                                !.jobs = evictFinished(Append(@, [id |-> panel.sequence, ids |-> SubSeq(Sandboxes, 1, n), status |-> "queued", items |-> <<>>]))]
IndexOf(id) == CHOOSE i \in DOMAIN panel.jobs : panel.jobs[i].id = id
Reached(j) == {j.items[k].sandbox : k \in DOMAIN j.items}
abortUnreached(j) ==
    LET rest == SelectSeq(j.ids, LAMBDA s : s \notin Reached(j))
    IN j.items \o [k \in DOMAIN rest |-> [sandbox |-> rest[k], outcome |-> "aborted"]]
Finished(j, items) == [j EXCEPT !.status = "finished", !.items = items]
drainJobs ==
    /\ panel.about = "jobs" /\ panel.running = 0 /\ panel.queue # <<>>
    /\ LET i == IndexOf(Head(panel.queue))
           job == panel.jobs[i]
       IN panel' = [panel EXCEPT !.queue = Tail(@), !.running = IF panel.closing THEN 0 ELSE job.id,
                                 !.jobs[i] = IF panel.closing THEN Finished(job, abortUnreached(job)) ELSE [job EXCEPT !.status = "running"]]
record(j, items) ==
    IF panel.closing THEN Finished(j, abortUnreached([j EXCEPT !.items = items]))
    ELSE IF Len(items) = Len(j.ids) THEN Finished(j, items) ELSE [j EXCEPT !.items = items]
applyNext ==
    /\ panel.about = "jobs" /\ panel.running # 0
    /\ LET i == IndexOf(panel.running)
           job == panel.jobs[i]
           sandbox == job.ids[Len(job.items) + 1]
           late == IF panel.closing THEN 1 ELSE 0
           step(j, t, thrown) == panel' = [panel EXCEPT !.jobs[i] = j, !.touched = @ \cup t, !.thrown = @ \cup thrown, !.late = @ + late,
                                                        !.running = IF j.status = "finished" THEN 0 ELSE @]
       IN \/ step(record(job, Append(job.items, [sandbox |-> sandbox, outcome |-> "done"])), {<<job.id, sandbox>>}, {})
          \/ \E o \in {"unchanged", "failed"} : step(record(job, Append(job.items, [sandbox |-> sandbox, outcome |-> o])), {}, {})
          \* An error that is not of the SDK ends the job; the call may have had its effect.
          \/ \E t \in {{}, {<<job.id, sandbox>>}} : step(Finished(job, abortUnreached(job)), t, {<<job.id, sandbox>>})
closeJobs == panel.about = "jobs" /\ ~panel.closing /\ panel' = [panel EXCEPT !.closing = TRUE]

-----------------------------------------------------------------------------
(* The reads' cache: a job that ends clears it and opens a generation.     *)

MaxVersion == 3        \* bound: changes of the fleet
PanelReaders == {1, 2}
IdleReader == [at |-> "idle", gen |-> 0, seen |-> 0]
openCache == panel.about = "none" /\ panel' = [about |-> "cache", version |-> 0, floor |-> 0, generation |-> 0, cached |-> -1, age |-> 0,
                                               reader |-> [i \in PanelReaders |-> IdleReader], served |-> [value |-> 0, from |-> "none", floor |-> 0]]
readStarts(i) ==
    /\ panel.about = "cache" /\ panel.reader[i].at = "idle"
    /\ panel' = IF panel.cached # -1 THEN [panel EXCEPT !.served = [value |-> panel.cached, from |-> "cache", floor |-> panel.floor]]
                ELSE [panel EXCEPT !.reader[i] = [at |-> "loading", gen |-> panel.generation, seen |-> panel.version]]
Bug_putAlways(i) == TRUE
mayPut(i) == panel.reader[i].gen = panel.generation
\* AWS may answer with the fleet as it was when the request began.
readEnds(i) ==
    /\ panel.about = "cache" /\ panel.reader[i].at = "loading"
    /\ \E value \in panel.reader[i].seen .. panel.version :
         panel' = [panel EXCEPT !.reader[i] = IdleReader, !.served = [value |-> value, from |-> "load", floor |-> 0],
                                !.cached = IF mayPut(i) THEN value ELSE @, !.age = IF mayPut(i) THEN 0 ELSE @]
jobChanges == panel.about = "cache" /\ panel.version < MaxVersion /\ panel' = [panel EXCEPT !.version = @ + 1]
invalidate ==
    /\ panel.about = "cache" /\ panel.generation < MaxVersion
    /\ panel' = [panel EXCEPT !.generation = @ + 1, !.cached = -1, !.floor = panel.version]
cacheExpires == panel.about = "cache" /\ panel.cached # -1 /\ panel' = [panel EXCEPT !.cached = -1]

-----------------------------------------------------------------------------
(* TtlCache: at most MaxEntries, none older than its time to live.         *)

MaxEntries == 2
TtlMs == 2
CacheKeys == {"a", "b", "c"}
openTtl == panel.about = "none" /\ panel' = [about |-> "ttl", entries |-> <<>>, now |-> 0, puts |-> 0, got |-> [key |-> "", age |-> 0], last |-> ""]
NotExpired(e) == panel.now - e.at < TtlMs
boundEntries(s) == IF Len(s) > MaxEntries THEN SubSeq(s, Len(s) - MaxEntries + 1, Len(s)) ELSE s
ttlPut ==
    /\ panel.about = "ttl" /\ panel.puts < 4
    /\ \E k \in CacheKeys :
         panel' = [panel EXCEPT !.entries = boundEntries(Append(SelectSeq(@, LAMBDA e : e.key # k /\ NotExpired(e)), [key |-> k, at |-> panel.now])),
                                !.puts = @ + 1, !.last = k, !.got = [key |-> "", age |-> 0]]
ttlGet ==
    /\ panel.about = "ttl"
    /\ \E k \in CacheKeys :
         LET hit == SelectSeq(panel.entries, LAMBDA e : e.key = k)
         IN panel' = [panel EXCEPT !.last = "", !.entries = IF hit # <<>> /\ ~NotExpired(hit[1]) THEN SelectSeq(@, LAMBDA e : e.key # k) ELSE @,
                                   !.got = IF hit # <<>> /\ NotExpired(hit[1]) THEN [key |-> k, age |-> panel.now - hit[1].at] ELSE [key |-> "", age |-> 0]]
ttlTick == panel.about = "ttl" /\ panel.now < 4 /\ panel' = [panel EXCEPT !.now = @ + 1, !.last = "", !.got = [key |-> "", age |-> 0]]

-----------------------------------------------------------------------------
(* The credentials of an assumed role, shared by the requests of a panel.  *)

SessionLife == 3       \* DurationSeconds, scaled
RefreshMargin == 1     \* CREDENTIALS_REFRESH_MARGIN_MS, scaled
openRole == panel.about = "none" /\ panel' = [about |-> "role", now |-> 0, current |-> -1, pending |-> FALSE, inFlight |-> 0,
                                              waiting |-> {}, answer |-> [kind |-> "none", left |-> 0]]
stillValid == panel.current # -1 /\ panel.current - panel.now > RefreshMargin
askCredentials ==
    /\ panel.about = "role"
    /\ \E i \in PanelReaders \ panel.waiting :
         panel' = IF stillValid THEN [panel EXCEPT !.answer = [kind |-> "cached", left |-> panel.current - panel.now]]
                  ELSE [panel EXCEPT !.waiting = @ \cup {i}, !.pending = TRUE, !.inFlight = IF panel.pending THEN @ ELSE @ + 1]
fetchRole ==
    /\ panel.about = "role" /\ panel.inFlight > 0
    /\ \/ panel' = [panel EXCEPT !.current = panel.now + SessionLife, !.pending = FALSE, !.inFlight = @ - 1, !.waiting = {},
                                 !.answer = [kind |-> "fetched", left |-> SessionLife]]
       \/ panel' = [panel EXCEPT !.pending = FALSE, !.inFlight = @ - 1, !.waiting = {}, !.answer = [kind |-> "AuthenticationError", left |-> 0]]
roleTick == panel.about = "role" /\ panel.now < 6 /\ panel' = [panel EXCEPT !.now = @ + 1, !.answer = [kind |-> "none", left |-> 0]]

PanelNext == \/ startPanel \/ timePasses \/ request \/ replied
             \/ openJobs \/ submit \/ drainJobs \/ applyNext \/ closeJobs
             \/ openCache \/ (panel.about = "cache" /\ \E i \in PanelReaders : readStarts(i) \/ readEnds(i)) \/ jobChanges \/ invalidate \/ cacheExpires
             \/ openTtl \/ ttlPut \/ ttlGet \/ ttlTick
             \/ openRole \/ askCredentials \/ fetchRole \/ roleTick

-----------------------------------------------------------------------------

IsHttp == panel.about = "http"
Effect == panel.last.reply.effect

\* No request acts on the fleet unless the panel allows actions, it is for the main
\* account, it comes from the panel's own page with its session and CSRF token, and
\* the user confirmed it; one thing wrong with it is enough to stop it.
ActionsGated == IsHttp /\ Effect = "job" => panel.allow /\ panel.last.had /\ panel.last.r.bad = {} /\ panel.last.r.account = ""

\* A query that AWS bills is only made when the panel was started for it and by the
\* panel's own page, although it is a GET (requiresCsrf).
PaidQueriesGated ==
    IsHttp /\ Effect = "billed" => panel.explorer /\ panel.last.had /\ panel.last.r.account = ""
                                   /\ panel.last.r.bad \cap {"host", "origin", "site", "cookie", "csrf"} = {}

\* The link the panel prints opens one session, and none once it has expired,
\* however often it is presented (SessionGuard.redeem).
OneSessionPerLink == IsHttp => panel.sessions <= 1 /\ (panel.session => ~panel.start)

\* Without the session of this panel no request reads anything.
NothingWithoutSession == IsHttp /\ Effect \notin {"none", "session"} => panel.last.had /\ "cookie" \notin panel.last.r.bad

IsJobs == panel.about = "jobs"
Jobs == {panel.jobs[i] : i \in DOMAIN panel.jobs}
\* A finished job says what happened to every sandbox it was for, once each and in
\* order, whether it ran, was stopped by close() or failed on the way.
JobsAccounted == IsJobs => \A j \in Jobs : j.status = "finished" => [k \in DOMAIN j.items |-> j.items[k].sandbox] = j.ids

\* A sandbox reported as aborted was not touched by its job, except the one whose
\* call ended the job with an unknown error.
AbortedUntouched ==
    IsJobs => \A j \in Jobs : \A k \in DOMAIN j.items :
        j.items[k].outcome = "aborted" /\ <<j.id, j.items[k].sandbox>> \in panel.touched => <<j.id, j.items[k].sandbox>> \in panel.thrown

\* After close() at most the call in flight reaches the control plane, and the queue
\* never keeps more jobs than it may: an unfinished job is never forgotten.
CloseStopsJobs == IsJobs => panel.late <= 1
UnfinishedKept == IsJobs => (\A k \in DOMAIN panel.queue : panel.queue[k] \in {j.id : j \in Jobs}) /\ Len(panel.jobs) <= Retained

\* What the cache answers after a job ended was read after it ended: a load that
\* began before does not come back into the cache (#cached, #generation).
ReadsSeeFinishedJobs == panel.about = "cache" /\ panel.served.from = "cache" => panel.served.value >= panel.served.floor

\* The cache never answers with an expired entry, never outgrows its bound, and the
\* entry just stored is not the one it evicts.
CacheBounded ==
    panel.about = "ttl" => /\ Len(panel.entries) <= MaxEntries /\ panel.got.age < TtlMs
                           /\ panel.last # "" => \E k \in DOMAIN panel.entries : panel.entries[k].key = panel.last

\* PanelRequests that need the role at once share one AssumeRole, and credentials about to
\* expire are not handed out (assumedCredentials).
CredentialsShared ==
    panel.about = "role" => panel.inFlight <= 1 /\ (panel.answer.kind \in {"cached", "fetched"} => panel.answer.left > RefreshMargin)

-----------------------------------------------------------------------------
(***************************************************************************)
(* What the management panel computes from AWS (dashboard/): the quota     *)
(* report, the billed and the estimated cost, the inventory, a page of     *)
(* logs, the theme and the logo a user supplies, and the command that      *)
(* opens and closes the panel (cli/commands/dashboard.ts).                 *)
(***************************************************************************)

Absent == -1
ReportsInit == reports = [about |-> "none"]

SumOver(f) ==
    LET sum[S \in SUBSET DOMAIN f] == IF S = {} THEN 0 ELSE LET x == CHOOSE x \in S : TRUE IN f[x] + sum[S \ {x}]
    IN sum[DOMAIN f]

-----------------------------------------------------------------------------
(* Quotas (dashboard/domain.ts): memory, and rate and burst of an action.  *)

QuotaCodes == {"memory", "rate", "burst"}
quotaDefault(code, large) == IF code = "memory" THEN IF large THEN 4 ELSE 2 ELSE 3
\* A page lists quotas of other products too; only those of MicroVMs count.
startQuotas ==
    reports.about = "none" /\ \E large \in BOOLEAN, mib \in {<<>>, <<Absent>>, <<1, Absent>>, <<2, 2>>} :
        reports' = [about |-> "quotas", phase |-> "list", large |-> large, mib |-> mib, listed |-> <<>>, applied |-> <<>>, more |-> TRUE]
listMicrovmQuotas ==
    /\ reports.about = "quotas" /\ reports.phase = "list" /\ reports.more
    /\ \E page \in {<<>>} \cup {<<[code |-> c, microvm |-> m, value |-> v]>> : c \in QuotaCodes, m \in BOOLEAN, v \in {0, 2, 5}}, more \in BOOLEAN :
         /\ Len(reports.listed) < 2
         /\ reports' = [reports EXCEPT !.listed = @ \o page, !.applied = @ \o SelectSeq(page, LAMBDA q : q.microvm), !.more = more]
buildQuotaEntries(applied) ==
    [c \in QuotaCodes |-> LET mine == SelectSeq(applied, LAMBDA q : q.code = c) IN IF mine = <<>> THEN Absent ELSE mine[Len(mine)].value]
belowDefault(c, value, large) == value # Absent /\ value < quotaDefault(c, large)
tpsLimits(entries) == [rate |-> entries["rate"], burst |-> entries["burst"]]
\* Fractions as used * 100 against quota: 80 and 95 per cent.
classifyFraction(used, quota) ==
    IF quota \in {Absent, 0} THEN "ok"
    ELSE IF used * 100 >= quota * 95 THEN "critical" ELSE IF used * 100 >= quota * 80 THEN "warning" ELSE "ok"
memoryUsage(mib, quota) ==
    LET resolved == SelectSeq(mib, LAMBDA m : m # Absent)
        used == SumOver([i \in DOMAIN resolved |-> resolved[i]])
    IN [used |-> used, level |-> classifyFraction(used, quota), sandboxes |-> Len(mib), unresolved |-> Len(mib) - Len(resolved)]
memoryWarning(memory) == <<IF memory.level = "critical" THEN "memory_critical" ELSE "memory_high", "memory">>
quotaWarnings(entries, memory, large) ==
    {memoryWarning(memory) : x \in IF memory.level = "ok" THEN {} ELSE {1}}
    \cup {<<"not_listed", c>> : c \in {d \in QuotaCodes : entries[d] = Absent}}
    \cup {<<"below_default", c>> : c \in {d \in QuotaCodes : belowDefault(d, entries[d], large)}}
buildQuotaReport ==
    /\ reports.about = "quotas" /\ reports.phase = "list" /\ ~reports.more
    /\ LET entries == buildQuotaEntries(reports.applied)
           memory == memoryUsage(reports.mib, entries["memory"])
       IN reports' = [reports EXCEPT !.phase = "report"] @@ [entries |-> entries, memory |-> memory, warnings |-> quotaWarnings(entries, memory, reports.large)]

\* The rate of a bulk action; the report may have failed.
ApiRate == 3                            \* apiTps of the operation
appliedRate(read, entries) == IF read = "ok" THEN tpsLimits(entries).rate ELSE Absent
bulkRate(applied) == IF applied = Absent THEN ApiRate ELSE IF applied <= 0 THEN 0 ELSE IF applied < ApiRate THEN applied ELSE ApiRate
planBulk ==
    /\ reports.about = "quotas" /\ reports.phase = "report"
    /\ \E read \in {"ok", "failed", "crash"}, count \in 1..2 :
         LET tps == bulkRate(appliedRate(read, reports.entries))
         IN reports' = [reports EXCEPT !.phase = "plan"] @@
                [read |-> read, count |-> count, tps |-> tps,
                 answer |-> IF read = "crash" THEN "internal" ELSE IF tps = 0 THEN "InvalidArgument" ELSE "plan"]

-----------------------------------------------------------------------------
(* Cost.  Each page of Cost Explorer is billed; answers are kept for a     *)
(* while, by window (dashboard/cost.ts, aws.ts).                           *)

CostTtl == 2
CostCalls == 2
Windows == {"june", "july"}
windowOf(given, today) == IF given = "default" THEN today ELSE given
openCost == reports.about = "none" /\ reports' = [about |-> "cost", clock |-> 0, today |-> "june", kept |-> [w \in Windows |-> [at |-> Absent, sum |-> 0, requests |-> 0, partial |-> FALSE]],
                                                  call |-> [on |-> FALSE], calls |-> 0, answer |-> [w |-> "", sum |-> 0]]
microvmComponent(usage) == usage \in {"vcpu", "memory", "other"}
KeptAt(w) == reports.kept[w].at # Absent /\ reports.clock - reports.kept[w].at < CostTtl
billed(given, refresh) ==
    LET w == windowOf(given, reports.today)
    IN reports' = IF ~refresh /\ KeptAt(w) THEN [reports EXCEPT !.calls = @ + 1, !.answer = [w |-> w] @@ reports.kept[w] @@ [from |-> "cache", age |-> reports.clock - reports.kept[w].at]]
                  ELSE [reports EXCEPT !.calls = @ + 1, !.call = [on |-> TRUE, w |-> w, pages |-> <<>>, requests |-> 0]]
askBilled ==
    /\ reports.about = "cost" /\ ~reports.call.on /\ reports.calls < CostCalls
    /\ \E given \in Windows \cup {"default"}, refresh \in BOOLEAN : billed(given, refresh)
\* The groups of a page: usage, cost, and whether its period is estimated.
CostGroups == {<<>>, <<[usage |-> "vcpu", usd |-> 1, estimated |-> FALSE]>>, <<[usage |-> "memory", usd |-> 2, estimated |-> TRUE]>>, <<[usage |-> "lambda", usd |-> 4, estimated |-> FALSE]>>}
queryCostAndUsage(page) == [reports.call EXCEPT !.pages = @ \o page, !.requests = @ + 1]
foldBilledCost(call) ==
    [at |-> reports.clock, sum |-> SumOver([i \in {j \in DOMAIN call.pages : microvmComponent(call.pages[j].usage)} |-> call.pages[i].usd]),
     requests |-> call.requests, partial |-> \E i \in DOMAIN call.pages : call.pages[i].estimated]
costPage ==
    /\ reports.about = "cost" /\ reports.call.on /\ reports.call.requests < 2
    /\ \E page \in CostGroups, last \in BOOLEAN :
         LET call == queryCostAndUsage(page)
             cost == foldBilledCost(call)
         IN reports' = IF last THEN [reports EXCEPT !.call = [on |-> FALSE, last |-> call], !.kept[call.w] = cost,
                                                    !.answer = [w |-> call.w] @@ cost @@ [from |-> "aws"]]
                       ELSE [reports EXCEPT !.call = call]
costFails == reports.about = "cost" /\ reports.call.on /\ reports' = [reports EXCEPT !.call = [on |-> FALSE], !.answer = [w |-> "", sum |-> 0]]
costTime == reports.about = "cost" /\ ~reports.call.on /\ reports.clock < 2 /\ reports' = [reports EXCEPT !.clock = @ + 1, !.today = IF reports.clock = 1 THEN "july" ELSE @]

\* The estimate of what runs now, against the clock read before the listing.
estimateComputeUsd(mib, seconds) == mib * seconds
estimateSandboxCost(state, mib, started, now) ==
    IF state # "RUNNING" \/ mib = Absent THEN Absent ELSE estimateComputeUsd(mib, IF now > started THEN now - started ELSE 0)
buildCostEstimate(items) == SumOver([i \in DOMAIN items |-> IF items[i] = Absent THEN 0 ELSE items[i]])
estimate ==
    reports.about = "none" /\ \E a, b \in [state : {"RUNNING", "SUSPENDED"}, mib : {Absent, 1, 2}, started : {0, 2, 4}] :
        LET costs == <<estimateSandboxCost(a.state, a.mib, a.started, 2), estimateSandboxCost(b.state, b.mib, b.started, 2)>>
        IN reports' = [about |-> "estimate", boxes |-> <<a, b>>, costs |-> costs, total |-> buildCostEstimate(costs)]

-----------------------------------------------------------------------------
(* The inventory and the client it is read with.                           *)

\* Callers share one build; a build that failed is not kept.
openClient == reports.about = "none" /\ reports' = [about |-> "client", pending |-> 0, built |-> 0, state |-> <<>>, held |-> {}, asked |-> 0]
settleClient(b, ok) == [reports EXCEPT !.state[b] = IF ok THEN "ready" ELSE "failed", !.pending = IF ~ok /\ @ = b THEN 0 ELSE @]
memoizedClient ==
    /\ reports.about = "client" /\ reports.asked < 3
    /\ LET b == IF reports.pending = 0 THEN reports.built + 1 ELSE reports.pending
       IN reports' = [reports EXCEPT !.asked = @ + 1, !.pending = b, !.built = IF b > @ THEN b ELSE @,
                                     !.held = @ \cup {[build |-> b, failedThen |-> b <= reports.built /\ reports.state[b] = "failed"]},
                                     !.state = IF b > reports.built THEN Append(@, "building") ELSE @]
clientSettles == reports.about = "client" /\ \E b \in DOMAIN reports.state, ok \in BOOLEAN : reports.state[b] = "building" /\ reports' = settleClient(b, ok)

\* One listing; the size of an image version is looked up once.
startViews == reports.about = "none" /\ reports' = [about |-> "views", resolved |-> [v \in {1, 2} |-> "unread"], views |-> <<>>, lookups |-> <<>>, result |-> ""]
lookup(outcome) == IF outcome = "error" THEN "undefined" ELSE outcome
memoryMib(v, outcome) == [reports EXCEPT !.resolved[v] = lookup(outcome), !.lookups = Append(@, v), !.views = Append(@, [version |-> v, memory |-> lookup(outcome)])]
nextView ==
    /\ reports.about = "views" /\ reports.result = "" /\ Len(reports.views) < 4
    /\ \E v \in {1, 2} :
         IF reports.resolved[v] # "unread" THEN reports' = [reports EXCEPT !.views = Append(@, [version |-> v, memory |-> reports.resolved[v]])]
         ELSE \E outcome \in {"1 GiB", "2 GiB", "undefined", "error", "crash"} :
                reports' = IF outcome = "crash" THEN [reports EXCEPT !.result = "error"] ELSE memoryMib(v, outcome)
endViews == reports.about = "views" /\ reports.result = "" /\ reports' = [reports EXCEPT !.result = "ok"]

\* A page of logs: the newest stream first, until one line too many.
TailOf(n, size) == IF size < n THEN size ELSE n
startLogPage ==
    reports.about = "none" /\ \E streams \in {<<>>} \cup [1..1 -> 0..3] \cup [1..2 -> 0..3] \cup [1..3 -> 0..2], limit \in 1..4, expected \in BOOLEAN :
        reports' = [about |-> "logpage", streams |-> streams, limit |-> limit, expected |-> expected, at |-> 0, taken |-> <<>>, page |-> [lines |-> Absent, truncated |-> FALSE, fallback |-> FALSE]]
fullPage(taken) == SumOver(taken) > reports.limit
readLogPage ==
    /\ reports.about = "logpage" /\ reports.page.lines = Absent
    /\ LET taken == reports.taken
           done == reports.at = Len(reports.streams) \/ fullPage(taken)
       IN reports' = IF done THEN [reports EXCEPT !.page = [lines |-> TailOf(SumOver(taken), reports.limit), truncated |-> SumOver(taken) > reports.limit,
                                                            fallback |-> reports.streams # <<>> /\ ~(Len(reports.streams) = 1 /\ reports.expected)]]
                     ELSE [reports EXCEPT !.at = @ + 1, !.taken = Append(@, TailOf(reports.streams[reports.at + 1], reports.limit + 1 - SumOver(taken)))]

-----------------------------------------------------------------------------
(* Appearance: a theme of design tokens and a logo.                        *)

Colour == {"bg", "fg"}
Tokens == Colour \cup {"radius"}
\* A section gives tokens values; "bad" is a value of the wrong form, "extra" an unknown key.
SectionOf(keys) == UNION {[S -> {"a", "b", "bad"}] : S \in SUBSET keys}
validated(values, allowed) == DOMAIN values \subseteq allowed /\ \A k \in DOMAIN values : values[k] # "bad"
themeOf(doc) == doc.known /\ doc.version = 1 /\ doc.name /\ validated(doc.shared, Tokens) /\ validated(doc.dark, Colour) /\ validated(doc.light, Colour)
\* In CSS a second block of a section replaces the first.
loadCss(blocks, section) == LET mine == SelectSeq(blocks, LAMBDA b : b.section = section) IN IF mine = <<>> THEN <<>> ELSE mine[Len(mine)].values
themeCss(shared, own) == own @@ shared
parseTheme ==
    reports.about = "none" /\ \E format \in {"json", "css", "txt"}, big, known, name \in BOOLEAN, version \in {1, 2}, b1, b2 \in {"tokens", "dark", "light"},
                                 v1 \in SectionOf({"bg", "radius"}), v2 \in {<<>>} \cup [{"bg"} -> {"a", "b"}] \cup [{"extra"} -> {"a"}] :
        /\ (format # "json" => known /\ name /\ version = 1) /\ (format = "json" => b1 # b2) /\ (big => b1 = "tokens")
        /\ LET blocks == <<[section |-> b1, values |-> v1], [section |-> b2, values |-> v2]>>
               doc == [known |-> known, version |-> version, name |-> name, shared |-> loadCss(blocks, "tokens"), dark |-> loadCss(blocks, "dark"), light |-> loadCss(blocks, "light")]
               taken == ~big /\ format # "txt" /\ themeOf(doc)
           IN reports' = [about |-> "theme", doc |-> doc, taken |-> taken,
                          css |-> IF taken THEN [dark |-> themeCss(doc.shared, doc.dark), light |-> themeCss(doc.shared, doc.light)] ELSE [dark |-> <<>>, light |-> <<>>]]

\* The SVG reader, one token at a time.  "im", in text, and "port", in CDATA, are
\* together an @import.
SvgMax == 6
SvgDepth == 2                           \* a bound on nesting
startSvg == reports.about = "none" /\ \E doctype \in BOOLEAN : reports' = [about |-> "svg", doctype |-> doctype, seen |-> <<>>, open |-> <<>>, elements |-> <<>>, closed |-> FALSE, result |-> IF doctype THEN "refused" ELSE ""]
SvgReads == reports.about = "svg" /\ reports.result = "" /\ Len(reports.seen) < SvgMax
Saw(token) == Append(reports.seen, token)
appendText(text) == [i \in DOMAIN reports.elements |-> IF \E k \in DOMAIN reports.open : reports.open[k] = i THEN [reports.elements[i] EXCEPT !.text = Append(@, text)] ELSE reports.elements[i]]
readText ==
    /\ SvgReads
    /\ reports' = IF reports.open = <<>> THEN [reports EXCEPT !.seen = Saw("im"), !.result = "refused"]
                  ELSE [reports EXCEPT !.seen = Saw("im"), !.elements = appendText("im")]
readCdata ==
    /\ SvgReads
    /\ reports' = IF reports.open = <<>> THEN [reports EXCEPT !.seen = Saw("port"), !.result = "refused"]
                  ELSE [reports EXCEPT !.seen = Saw("port"), !.elements = appendText("port")]
readEndTag ==
    \E tag \in {"svg", "style"} :
        /\ SvgReads
        /\ LET n == Len(reports.open)
           IN reports' = IF n = 0 \/ (n > 0 /\ reports.elements[reports.open[n]].tag # tag) THEN [reports EXCEPT !.seen = Saw("/" \o tag), !.result = "refused"]
                         ELSE [reports EXCEPT !.seen = Saw("/" \o tag), !.open = SubSeq(@, 1, n - 1), !.closed = n = 1]
mayOpen == ~reports.closed
readStartTag ==
    \E tag \in {"svg", "style", "script"}, self \in BOOLEAN :
        /\ SvgReads /\ Len(reports.open) < SvgDepth /\ (tag = "script" => self) /\ (tag # "script" => ~self)
        /\ reports' = IF ~mayOpen THEN [reports EXCEPT !.seen = Saw(tag), !.result = "refused"]
                      ELSE [reports EXCEPT !.seen = Saw(tag), !.elements = Append(@, [tag |-> tag, text |-> <<>>]),
                                           !.open = IF self THEN @ ELSE Append(@, Len(reports.elements) + 1), !.closed = self /\ reports.open = <<>>]
unsafeStyle(text) == \E i \in 1..(Len(text) - 1) : text[i] = "im" /\ text[i + 1] = "port"
checkSvgElement(e) == e.tag = "script" \/ (e.tag = "style" /\ unsafeStyle(e.text))
checkSvg ==
    /\ reports.about = "svg" /\ reports.result = ""
    /\ reports' = [reports EXCEPT !.result = IF reports.open # <<>> \/ reports.elements = <<>> \/ (reports.elements # <<>> /\ reports.elements[1].tag # "svg")
                                                \/ \E i \in DOMAIN reports.elements : checkSvgElement(reports.elements[i]) THEN "refused" ELSE "taken"]

-----------------------------------------------------------------------------
(* The dashboard command.                                                  *)

openCommand ==
    reports.about = "none" /\ \E port \in {"bad", "free", "used"}, theme, logo \in {"none", "good", "bad", "unreadable"}, accounts \in {"none", "one", "same", "badArn"}, sts, browser \in BOOLEAN :
        reports' = [about |-> "command", port |-> port, theme |-> theme, logo |-> logo, accounts |-> accounts, sts |-> sts, browser |-> browser,
                    at |-> "options", session |-> FALSE, apis |-> 0, server |-> FALSE, result |-> ""]
loadAppearance(c) == c.theme \in {"none", "good"} /\ c.logo \in {"none", "good"}
parseAccountSpecs(c) == c.accounts \in {"none", "one"}
UsageEnds(c) == [c EXCEPT !.result = "usage", !.at = "end"]
checkOptions ==
    /\ reports.about = "command" /\ reports.at = "options"
    /\ reports' = IF reports.port = "bad" \/ ~loadAppearance(reports) \/ ~parseAccountSpecs(reports) THEN UsageEnds(reports) ELSE [reports EXCEPT !.at = "services"]
Services(c) == [c EXCEPT !.session = TRUE, !.at = "apis"]
openServices == reports.about = "command" /\ reports.at = "services" /\ \E ok \in BOOLEAN : reports' = IF ok THEN Services(reports) ELSE [reports EXCEPT !.result = "error", !.at = "end"]
buildAccountApi(c) == c.sts
buildApi ==
    /\ reports.about = "command" /\ reports.at = "apis"
    /\ reports' = IF reports.accounts = "one" /\ ~buildAccountApi(reports) THEN UsageEnds(reports)
                  ELSE [reports EXCEPT !.apis = IF reports.accounts = "one" THEN 2 ELSE 1, !.at = "start"]
startFailed(c) == UsageEnds([c EXCEPT !.apis = 0])
startServer ==
    /\ reports.about = "command" /\ reports.at = "start"
    /\ reports' = IF reports.port = "used" THEN startFailed(reports) ELSE [reports EXCEPT !.server = TRUE, !.at = "running"]
serveUntilAborted ==
    /\ reports.about = "command" /\ reports.at = "running"
    /\ \E opened \in BOOLEAN : reports' = [reports EXCEPT !.server = FALSE, !.apis = 0, !.at = "end", !.result = IF reports.browser /\ ~opened THEN "error" ELSE "ok"]

-----------------------------------------------------------------------------
ReportsNext ==
    \/ startQuotas \/ listMicrovmQuotas \/ buildQuotaReport \/ planBulk
    \/ openCost \/ askBilled \/ costPage \/ costFails \/ costTime \/ estimate
    \/ openClient \/ memoizedClient \/ clientSettles \/ startViews \/ nextView \/ endViews \/ startLogPage \/ readLogPage
    \/ parseTheme \/ startSvg \/ readText \/ readCdata \/ readEndTag \/ readStartTag \/ checkSvg
    \/ openCommand \/ checkOptions \/ openServices \/ buildApi \/ startServer \/ serveUntilAborted

-----------------------------------------------------------------------------
\* Every MicroVM quota of every page is in the report, the last one listed of
\* a code; a quota no page lists is reported as such and one below the
\* region's default too (listMicrovmQuotas, buildQuotaEntries, quotaWarnings).
QuotasAllReported ==
    (reports.about = "quotas" /\ reports.phase # "list") =>
        \A c \in QuotaCodes :
            LET at == {i \in DOMAIN reports.listed : reports.listed[i].code = c /\ reports.listed[i].microvm}
            IN IF at = {} THEN <<"not_listed", c>> \in reports.warnings
               ELSE LET v == reports.listed[CHOOSE i \in at : \A j \in at : j <= i].value
                    IN reports.entries[c] = v /\ ((<<"below_default", c>> \in reports.warnings) <=> v < quotaDefault(c, reports.large)) /\ <<"not_listed", c>> \notin reports.warnings

\* The sandboxes whose size could not be read are counted apart: used memory
\* and unresolved ones account for every sandbox (memoryUsage).
MemoryAccounted ==
    (reports.about = "quotas" /\ reports.phase # "list") =>
        /\ reports.memory.unresolved = Cardinality({i \in DOMAIN reports.mib : reports.mib[i] = Absent})
        /\ reports.memory.level = "critical" => (reports.entries["memory"] > 0 /\ 20 * reports.memory.used >= 19 * reports.entries["memory"])
        /\ ((\E w \in reports.warnings : w[1] \in {"memory_critical", "memory_high"}) <=> (reports.entries["memory"] > 0 /\ 5 * reports.memory.used >= 4 * reports.entries["memory"]))

\* A bulk action is planned at a positive rate that neither the API's nor the
\* account's own quota exceeds, and a report that cannot be read does not stop
\* it (bulkRate, planBulk, DashboardApi.#appliedRate).
BulkWithinRates ==
    (reports.about = "quotas" /\ reports.phase = "plan" /\ reports.answer = "plan") =>
        /\ reports.tps \in 1..ApiRate
        /\ (reports.read = "ok" /\ reports.entries["rate"] # Absent) => reports.tps <= reports.entries["rate"]

\* The cost answered is of the window asked for and never older than the
\* cache's time, also when the default window moves to the next month.
CostIsOfWindow ==
    (reports.about = "cost" /\ reports.answer.w # "") =>
        /\ reports.kept[reports.answer.w].at = reports.answer.at /\ reports.kept[reports.answer.w].sum = reports.answer.sum
        /\ reports.answer.from = "cache" => reports.answer.age < CostTtl

\* The billed total is the sum of the MicroVM groups of every page, and it is
\* marked partial when a period is an estimate (queryCostAndUsage, foldBilledCost).
BilledSumsMicrovms ==
    (reports.about = "cost" /\ reports.answer.w # "" /\ reports.answer.from = "aws" /\ "last" \in DOMAIN reports.call) =>
        /\ reports.answer.sum = SumOver([i \in {j \in DOMAIN reports.call.last.pages : reports.call.last.pages[j].usage \in {"vcpu", "memory"}} |-> reports.call.last.pages[i].usd])
        /\ reports.answer.partial = (\E i \in DOMAIN reports.call.last.pages : reports.call.last.pages[i].usage = "memory")

\* An estimate is never negative, also for a sandbox that started while the
\* listing ran, and what is not running costs nothing (estimateSandboxCost).
EstimateNotNegative ==
    reports.about = "estimate" =>
        /\ \A i \in 1..2 : (reports.costs[i] # Absent => reports.boxes[i].state = "RUNNING" /\ reports.costs[i] >= 0)
        /\ \A i \in 1..2 : (reports.costs[i] = Absent <=> (reports.boxes[i].state # "RUNNING" \/ reports.boxes[i].mib = Absent))
        /\ reports.total >= 0

\* No caller is handed a client whose build had already failed, and at most
\* one build runs at a time (memoizedClient).
ClientBuildShared ==
    reports.about = "client" =>
        /\ \A h \in reports.held : ~h.failedThen
        /\ Cardinality({b \in DOMAIN reports.state : reports.state[b] = "building"}) <= 1

\* An image version is looked up once per listing, so that all its sandboxes
\* are shown with one size (InventoryReader.#memoryMib).
OneSizePerVersion ==
    reports.about = "views" =>
        /\ Cardinality({reports.lookups[i] : i \in DOMAIN reports.lookups}) = Len(reports.lookups)
        /\ \A i, j \in DOMAIN reports.views : reports.views[i].version = reports.views[j].version => reports.views[i].memory = reports.views[j].memory

\* A page of logs has the last lines of all the streams, and says whether
\* there are more (CloudWatchLogsSource.#read).
LogPageIsTail ==
    (reports.about = "logpage" /\ reports.page.lines # Absent) =>
        LET all == SumOver(reports.streams)
        IN reports.page.lines = (IF all < reports.limit THEN all ELSE reports.limit) /\ reports.page.truncated = (all > reports.limit)

\* A scheme's own value of a token wins over the shared one, and only known
\* tokens with well-formed values reach the style sheet (Theme.css, validated).
SchemeOverridesShared ==
    (reports.about = "theme" /\ reports.taken) =>
        \A s \in {"dark", "light"} : \A k \in DOMAIN reports.css[s] :
            /\ k \in Tokens /\ reports.css[s][k] # "bad"
            /\ k \in DOMAIN reports.doc[s] => reports.css[s][k] = reports.doc[s][k]

\* A logo that is taken has one root, closes what it opens in order, has no
\* forbidden element and no import in a style, however its text is split
\* into runs and nested elements (checkSvg, SvgReader).
TakenSvgIsPlain ==
    (reports.about = "svg" /\ reports.result = "taken") =>
        LET s == reports.seen
            Depth(i) == Cardinality({j \in 1..i : s[j] \in {"svg", "style"}}) - Cardinality({j \in 1..i : s[j] \in {"/svg", "/style"}})
            Inside(a, i) == a < i /\ \A j \in a..i : Depth(j) >= Depth(a)
            Text(a) == SelectSeq([i \in DOMAIN s |-> IF Inside(a, i) THEN s[i] ELSE ""], LAMBDA t : t \in {"im", "port"})
        IN /\ s[1] = "svg"
           /\ \A i \in DOMAIN s : s[i] # "script" /\ (s[i] = "svg" => Depth(i) >= 1)
           /\ Cardinality({i \in DOMAIN s : s[i] \in {"svg", "style"} /\ Depth(i) = 1}) = 1
           /\ Depth(Len(s)) = 0
           /\ \A a \in DOMAIN s : s[a] = "style" => ~unsafeStyle(Text(a))

\* However the command ends, no server and no API is left open, and a wrong
\* option is told before any AWS session is opened (runDashboard, startServer).
CommandLeavesNothing ==
    (reports.about = "command" /\ reports.at = "end") =>
        /\ ~reports.server /\ reports.apis = 0
        /\ (reports.port = "bad" \/ reports.theme \in {"bad", "unreadable"} \/ reports.accounts \in {"same", "badArn"}) => (~reports.session /\ reports.result = "usage")

=============================================================================
