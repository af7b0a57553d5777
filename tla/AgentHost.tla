------------------------------ MODULE AgentHost ------------------------------
(***************************************************************************)
(* The processes of an agent host: its service, and the supervisor of the  *)
(* app behind a driver.                                                    *)
(***************************************************************************)
EXTENDS Integers, Sequences, SequencesExt, FiniteSets

VARIABLES host, crew

(***************************************************************************)
(* The agent host in `serve` mode (serve.py and __main__.py of agent_host, *)
(* shipped in host-assets.gen.ts): handler threads that take a slot or a   *)
(* place in a bounded FIFO queue, one thread per run of the driver, and a  *)
(* warm-up that goes on beside them.                                       *)
(***************************************************************************)

Callers == {1, 2, 3}                  \* in the order of their arrival
Header == [c \in Callers |-> IF c = 3 THEN "g" ELSE "h"]   \* AgentCore's session id

NoInvocation == [at |-> "out", told |-> FALSE, q |-> <<>>, closed |-> FALSE, ended |-> FALSE, thread |-> "none",
                 aborting |-> "no", sid |-> 0, killed |-> FALSE]

HostInit == host = [on |-> FALSE, slots |-> 1, queueMax |-> 0, warm |-> "warming", marker |-> {}, active |-> 0,
                    waiting |-> <<>>, last |-> 0, learned |-> [h \in {"g", "h"} |-> 0],
                    inv |-> [c \in Callers |-> NoInvocation]]

Inv(c) == host.inv[c]
Handler(c, s) == host.on /\ Inv(c).at = s

\* serve(): the markers of an earlier start are removed, then max_concurrency and
\* queue_max are read (a bad value falls back to the default).
serve ==
    /\ ~host.on
    /\ \E k \in {<<1, 1>>, <<2, 0>>, <<1, 0>>} :
          host' = [host EXCEPT !.on = TRUE, !.slots = k[1], !.queueMax = k[2], !.marker = {},
                      !.inv[3].at = IF k[2] = 0 THEN "over" ELSE "out"]      \* two callers are enough without a queue

\* _warm: mark_ready or mark_failed; both wake the requests that wait.
warm ==
    /\ host.on /\ host.warm = "warming"
    /\ \/ host' = [host EXCEPT !.warm = "ready", !.marker = @ \cup {"ready"}]
       \/ host' = [host EXCEPT !.warm = "failed", !.marker = @ \cup {"failed"}]

-----------------------------------------------------------------------------
(* Service: slots and the queue.                                           *)

\* Nothing of a request is kept once it is answered and its thread is out.
Forget(h, c) == IF h.inv[c].at = "over" /\ h.inv[c].thread \in {"none", "out"}
                THEN [h EXCEPT !.inv[c] = [NoInvocation EXCEPT !.at = "over", !.thread = h.inv[c].thread]] ELSE h
Answered(h, c) == Forget([h EXCEPT !.inv[c].at = "over", !.inv[c].q = <<>>, !.inv[c].told = FALSE], c)

\* _take, and start() of the invocation: the session of the header goes to the
\* driver as the one learned before, or none.
to_driver(c) == host.learned[Header[c]]
Take(h, c) == [h EXCEPT !.active = @ + 1, !.inv[c].at = "run", !.inv[c].thread = "start",
                        !.inv[c].sid = to_driver(c)]

\* do_POST up to acquire(): 401, 503 while not ready, 400 or 413, then a slot, a
\* place in the queue or 429.
mayTake(c) == host.waiting = <<>> /\ host.active < host.slots
do_POST(c) ==
    /\ Handler(c, "out") /\ \A d \in 1..(c - 1) : Inv(d).at # "out"
    /\ \/ host' = Answered(host, c)                                \* 401, 400, 413, 503
       \/ /\ host.warm = "ready"
          /\ host' = IF mayTake(c) THEN Take(host, c)
                     ELSE IF Len(host.waiting) >= host.queueMax THEN Answered(host, c)
                     ELSE [host EXCEPT !.waiting = Append(@, c), !.inv[c].at = "queue"]

\* _wait_for_turn: woken by notify_all, or the end of queue_timeout_seconds.
\* `finally` removes the ticket either way.
Leave(h, c) == [h EXCEPT !.waiting = Remove(@, c)]
wait_for_turn(c) ==
    /\ Handler(c, "queue")
    /\ \/ Head(host.waiting) = c /\ host.active < host.slots /\ host' = Take(Leave(host, c), c)
       \/ ~(Head(host.waiting) = c /\ host.active < host.slots) /\ host' = Answered(Leave(host, c), c)

releaseSlot(h) == [h EXCEPT !.active = @ - 1]

-----------------------------------------------------------------------------
(* Invocation: the thread of the run.                                      *)

\* _deliver, with _presented: a closed run is cut; a terminal ends it; a limit fails it.
learn(c) == [host EXCEPT !.learned[Header[c]] = c]
Put(h, c, e) == IF h.inv[c].at = "run" THEN [h EXCEPT !.inv[c].q = Append(@, e)] ELSE h   \* nobody reads it after

Cut(h, c) == Forget([h EXCEPT !.inv[c].thread = "out"], c)   \* LimitExceeded in the driver's thread

\* A session of its own when the request brought none.
runSession(c) ==
    /\ host.on /\ Inv(c).thread = "start"
    /\ LET h == IF Inv(c).sid = 0 THEN [learn(c) EXCEPT !.inv[c].sid = c] ELSE host
       IN host' = IF Inv(c).closed THEN Cut(host, c)
                  ELSE [Put(h, c, "session") EXCEPT !.inv[c].thread = "launch"]

\* The driver launches its child: cancel() reaches the last one launched.
runLaunch(c) ==
    /\ host.on /\ Inv(c).thread = "launch"
    /\ host' = [host EXCEPT !.last = c, !.inv[c].thread = "step"]

\* run_to_terminal: done, or agent_failed when it failed or its child was killed;
\* or LimitTracker.observe fails it on a progress event.
runEnds(c) ==
    /\ host.on /\ Inv(c).thread = "step"
    /\ IF Inv(c).closed THEN host' = Cut(host, c)
       ELSE \/ \E t \in IF Inv(c).killed THEN {"failed"} ELSE {"done", "failed"} :
                  host' = [Cut(Put(host, c, t), c) EXCEPT !.inv[c].ended = TRUE]
            \/ ~Inv(c).killed /\ host' = [Cut(Put(host, c, "limit"), c) EXCEPT !.inv[c].closed = TRUE]

-----------------------------------------------------------------------------
(* Invocation: the handler's side.                                         *)

Terminals == {"done", "failed", "timeout", "aborted", "limit"}

\* abort: a look at closed and ended, and later the terminal and the cancellation.
abortRun(c, why) ==
    /\ Handler(c, "run") /\ Inv(c).aborting = "no" /\ ~Inv(c).closed /\ ~Inv(c).ended
    /\ host' = [host EXCEPT !.inv[c].aborting = why]
timedOut(c) == abortRun(c, "timeout")
clientGone(c) == Inv(c).told /\ abortRun(c, "aborted")

\* driver.cancel(): kills what the driver launched last.
cancelled(h) == IF h.last = 0 \/ h.inv[h.last].thread # "step" THEN h ELSE [h EXCEPT !.inv[h.last].killed = TRUE]
Bug_cancelLate(c) ==
    \/ /\ Handler(c, "run") /\ Inv(c).aborting \in {"timeout", "aborted"}
       /\ host' = Answered(releaseSlot([Put(host, c, Inv(c).aborting) EXCEPT !.inv[c].closed = TRUE]), c)
    \/ /\ Handler(c, "over") /\ Inv(c).aborting \in {"timeout", "aborted"}
       /\ host' = [cancelled(host) EXCEPT !.inv[c].aborting = "done"]
abortActs(c) ==
    /\ Handler(c, "run") /\ Inv(c).aborting \in {"timeout", "aborted"}
    /\ LET h == [cancelled(Put(host, c, Inv(c).aborting)) EXCEPT !.inv[c].closed = TRUE]
       IN host' = IF Inv(c).aborting = "aborted"          \* the connection is lost: finish()
                  THEN Answered(releaseSlot([h EXCEPT !.inv[c].aborting = "done"]), c)
                  ELSE [h EXCEPT !.inv[c].aborting = "done"]

\* events(): one event to the client. finish() comes before a terminal is
\* written, so that its slot is free when the client reads it.
eventOut(c, e) ==
    LET h == [host EXCEPT !.inv[c].q = Tail(@), !.inv[c].told = TRUE]
    IN IF e \in Terminals THEN Answered(releaseSlot(h), c) ELSE h
events(c) ==
    /\ Handler(c, "run") /\ Inv(c).aborting \in {"no", "done"} /\ Inv(c).q # <<>>
    /\ host' = eventOut(c, Head(Inv(c).q))

HostNext ==
    \/ serve \/ warm
    \/ \E c \in Callers : \/ do_POST(c) \/ wait_for_turn(c) \/ runSession(c) \/ runLaunch(c) \/ runEnds(c)
                          \/ timedOut(c) \/ clientGone(c) \/ abortActs(c) \/ events(c)

\* The handler's threads are scheduled and its waits end; nothing is asked of the driver.
HostFairness == \A c \in Callers : WF_host(timedOut(c)) /\ WF_host(abortActs(c)) /\ WF_host(events(c))

-----------------------------------------------------------------------------
(* Properties.                                                             *)

\* The slots taken are those of the runs not yet finished, never more than
\* max_concurrency, and the queue holds the handlers that wait and no other:
\* neither a timeout, nor a lost client, nor a limit leaks a slot or a ticket.
SlotsAccounted ==
    /\ host.active = Cardinality({c \in Callers : Inv(c).at = "run"}) /\ host.active <= host.slots
    /\ ToSet(host.waiting) = {c \in Callers : Inv(c).at = "queue"}

\* First come, first served: who waits is not overtaken by a later arrival.
FifoTurns == \A c, d \in Callers : (Inv(c).at = "queue" /\ Inv(d).thread # "none") => d < c

\* With one run at a time, a cancellation kills only the run that was aborted: the
\* slot is given back after cancel(), not before.
CancelHitsOwner == host.slots = 1 => \A c \in Callers : Inv(c).killed => Inv(c).aborting # "no"

\* A session of AgentCore is continued with a driver session of its own.
OwnSession == \A c \in Callers : Inv(c).sid # 0 => Header[Inv(c).sid] = Header[c]

\* Every request that got a slot is answered, even if the driver never ends or
\* says anything: the deadline of events() is the handler's own.
RunsAnswered == \A c \in Callers : Inv(c).at = "run" ~> Inv(c).at = "over"

-----------------------------------------------------------------------------
(***************************************************************************)
(* Supervisor and RestartBudget of agent_host (process.py, shipped in      *)
(* host-assets.gen.ts), as the http-app and hermes drivers use them: the   *)
(* first start, the monitor that relaunches the app, and a stop() that may *)
(* come at any moment from another thread.                                 *)
(***************************************************************************)

CONSTANTS MaxRestarts,                \* RestartPolicy.max_restarts: 3 by default
          Window,                     \* window_seconds, in ticks
          LastTick, MaxApps           \* bounds: the clock, the processes launched

\* _non_negative: 0 is a valid setting of both.
ASSUME RestartPolicyAssumption == {MaxRestarts, Window, LastTick, MaxApps} \subseteq Nat

Apps == 1..MaxApps                    \* processes launched, in order

\* An app that dies may leave its group behind (the server that `npm run` launched).
CrewInit == crew = [on |-> FALSE, now |-> 0, app |-> [a \in Apps |-> "none"], next |-> 1, st |-> "stopped", stop |-> FALSE,
                    child |-> 0, main |-> "idle", mon |-> "none", mine |-> 0, stopper |-> "idle", taken |-> 0,
                    deaths |-> <<>>, hist |-> <<>>, told |-> FALSE, early |-> FALSE]

Main(s) == crew.on /\ crew.main = s
Mon(s) == crew.on /\ crew.mon = s
Alive(a) == crew.app[a] \in {"up", "ready"}

\* ChildProcess: a group of its own; kill() takes the whole group and may be repeated.
spawn(c) == [c EXCEPT !.app[c.next] = "up", !.next = @ + 1]
kill(c, a) == IF a = 0 THEN c ELSE [c EXCEPT !.app[a] = "gone"]
canSpawn == crew.next \in Apps

launchHost == ~crew.on /\ crew' = [crew EXCEPT !.on = TRUE]
tick == crew.on /\ crew.now < LastTick /\ crew' = [crew EXCEPT !.now = @ + 1]

\* The app answers its health path, or exits, with or without leaving its group.
appReady == \E a \in Apps : crew.on /\ crew.app[a] = "up" /\ crew' = [crew EXCEPT !.app[a] = "ready"]
appDies == \E a \in Apps, r \in {"rest", "gone"} : crew.on /\ Alive(a) /\ crew' = [crew EXCEPT !.app[a] = r]

-----------------------------------------------------------------------------
(* start(): synchronous, in the thread that warms the driver.              *)

start == Main("idle") /\ canSpawn /\ crew' = [spawn(crew) EXCEPT !.main = "keep", !.mine = crew.next]
startKeeps == Main("keep") /\ crew' = [crew EXCEPT !.child = crew.mine, !.main = "clear"]
startClears == Main("clear") /\ crew' = [crew EXCEPT !.stop = FALSE, !.main = "await"]

\* _await_ready: the app exited, answers, was stopped or is out of time.
awaitFails(a) == crew.app[a] # "ready"
startAwaits ==
    /\ Main("await")
    /\ \/ crew.app[crew.mine] = "ready" /\ crew' = [crew EXCEPT !.main = "state"]
       \/ awaitFails(crew.mine)          \* stop() and the failure goes up
             /\ crew' = [kill(crew, crew.child) EXCEPT !.main = "raised", !.stop = TRUE, !.child = 0, !.st = "stopped"]
startRuns == Main("state") /\ crew' = [crew EXCEPT !.st = "running", !.main = "returned", !.mon = "watch"]

-----------------------------------------------------------------------------
(* stop(): from the driver's cancel() or at exit.                          *)

Bug_flagForgotten ==
    crew.on /\ crew.main # "idle" /\ crew.stopper = "idle"
            /\ crew' = [crew EXCEPT !.stopper = "take", !.early = crew.main \in {"keep", "clear"}]
stopSets ==
    /\ crew.on /\ crew.main # "idle" /\ crew.stopper = "idle"
    /\ crew' = [crew EXCEPT !.stop = TRUE, !.stopper = "take", !.early = crew.main \in {"keep", "clear"}]
stopTakes == crew.on /\ crew.stopper = "take" /\ crew' = [crew EXCEPT !.taken = crew.child, !.child = 0, !.st = "stopped", !.stopper = "kill"]
stopKills == crew.on /\ crew.stopper = "kill" /\ crew' = [kill(crew, crew.taken) EXCEPT !.stopper = "done"]

-----------------------------------------------------------------------------
(* The monitor.                                                            *)

Over(c) == [c EXCEPT !.mon = "over"]
SetState(c, s) == IF c.st = "stopped" THEN c ELSE [c EXCEPT !.st = s]

\* _watch: waits for the current child, and looks at the stop flag again.
watch ==
    /\ Mon("watch")
    /\ \/ (crew.stop \/ crew.child = 0) /\ crew' = Over(crew)
       \/ ~crew.stop /\ crew.child # 0 /\ crew' = [crew EXCEPT !.mine = crew.child, !.mon = "wait"]
watchWakes ==
    /\ Mon("wait") /\ ~Alive(crew.mine)
    /\ crew' = IF crew.stop THEN Over(crew) ELSE [crew EXCEPT !.mon = "recover"]

\* _recover: first the group of the dead one is killed, then record_death.
clearGroup(c, a) == kill(c, a)
recover == Mon("recover") /\ crew' = [clearGroup(crew, crew.mine) EXCEPT !.mon = "budget"]

\* RestartBudget.record_death: the death number max_restarts + 1 of the window is
\* a crash loop.
outOfWindow(d) == d <= crew.now - Window
kept(k) == SubSeq(crew.deaths, k + 1, Len(crew.deaths))
popsOld(k) ==                         \* popleft, k times
    /\ \A i \in 1..k : outOfWindow(crew.deaths[i])
    /\ k < Len(crew.deaths) => ~outOfWindow(crew.deaths[k + 1])
recorded == [crew EXCEPT !.hist = Append(@, crew.now)]
record_death ==
    /\ Mon("budget")
    /\ \E k \in 0..Len(crew.deaths) :
          /\ popsOld(k)
          /\ \/ /\ Len(kept(k)) >= MaxRestarts                                            \* _give_up
                /\ crew' = [Over(SetState(recorded, "failed")) EXCEPT !.told = TRUE, !.deaths = kept(k)]
             \/ /\ Len(kept(k)) < MaxRestarts
                /\ crew' = [SetState(recorded, "restarting") EXCEPT !.deaths = Append(kept(k), crew.now),
                                                                   !.mon = "backoff"]

\* The wait before the relaunch is cut by stop().
backoff ==
    /\ Mon("backoff")
    /\ \/ crew.stop /\ crew' = Over(crew)
       \/ ~crew.stop /\ canSpawn /\ crew' = [spawn(crew) EXCEPT !.mine = crew.next, !.mon = "publish"]

\* Under the lock: a stop() that came while it was launched kills it here.
published == IF crew.stop THEN Over(kill(crew, crew.mine)) ELSE [crew EXCEPT !.child = crew.mine, !.mon = "await"]
publish == Mon("publish") /\ crew' = published
awaitAgain ==
    /\ Mon("await")
    /\ \/ crew.app[crew.mine] = "ready" /\ ~crew.stop /\ crew' = [SetState(crew, "running") EXCEPT !.mon = "watch"]
       \/ (awaitFails(crew.mine) \/ crew.stop) /\ crew' = [kill(crew, crew.mine) EXCEPT !.mon = "budget"]

CrewNext ==
    \/ launchHost \/ tick \/ appReady \/ appDies \/ start \/ startKeeps \/ startClears \/ startAwaits \/ startRuns
    \/ stopSets \/ stopTakes \/ stopKills \/ watch \/ watchWakes \/ recover \/ record_death \/ backoff \/ publish \/ awaitAgain

\* The monitor and the thread that stops are scheduled; so is the wait of the health path.
CrewFairness == /\ WF_crew(watch) /\ WF_crew(watchWakes) /\ WF_crew(recover) /\ WF_crew(record_death) /\ WF_crew(backoff)
                /\ WF_crew(publish) /\ WF_crew(awaitAgain) /\ WF_crew(stopTakes) /\ WF_crew(stopKills)

-----------------------------------------------------------------------------
(* Properties.                                                             *)

Present == {a \in Apps : crew.app[a] \notin {"none", "gone"}}

\* Two apps never compete for the port: the group of a dead one, and a relaunched
\* one that did not answer, are killed before the next is launched.
OneAppAtATime == Cardinality(Present) <= 1

\* After stop() nothing of the app is left and nothing is launched again, wherever
\* in a relaunch the stop came (what is launched but not yet published is killed by
\* the monitor); only a stop before start() cleared the flag is lost (see the hazards).
StopLeavesNothing ==
    (crew.stopper = "done" /\ ~crew.early /\ crew.mon # "publish") => Present = {}

\* The app is given up only after max_restarts + 1 deaths within one window.
GivesUpFairly ==
    crew.told => LET n == Len(crew.hist)
                 IN n > MaxRestarts /\ (MaxRestarts = 0 \/ crew.hist[n] - crew.hist[n - MaxRestarts] < Window)

\* A dead app is relaunched, given up or stopped: the monitor is never stuck with it.
AppRecovers == (crew.mon = "recover") ~> (crew.mon \in {"watch", "over"} \/ ~canSpawn)
=============================================================================
