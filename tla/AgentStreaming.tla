---------------------------- MODULE AgentStreaming ----------------------------
(***************************************************************************)
(* One run of an agent seen from the TypeScript SDK, in its three forms:   *)
(*   "local"     AgentStream (agent/stream.ts): the stdout of the runtime  *)
(*               in the sandbox, cut into lines, parsed and limited;       *)
(*   "deployed"  AgentDeployment (agent/deployment.ts): a request through  *)
(*               the AWS proxy, with one re-mint, and its event stream;    *)
(*   "sse"       SseParser (agent/sse.ts): bytes cut at any place.         *)
(* The fields of agentRun belong to the form `form`; "off" before.         *)
(***************************************************************************)
EXTENDS Naturals, Sequences, FiniteSets, SequencesExt, FiniteSetsExt

VARIABLE agentRun

MaxLines == 3                         \* lines the runtime writes in its session
MaxSteps == 1                         \* AgentLimits: steps and tokens
MaxTotalTokens == 1
RemintAttempts == 1                   \* PROXY_REMINT_ATTEMPTS

\* The two budgets are alike: "spent" is met in the shorter scripts.
LineKinds == {"step", "long", "failed", "done"}
Scripts == {<<"done">>} \union
           {<<"session">> \o s : s \in SeqOf(LineKinds, MaxLines) \union SeqOf({"spent", "done"}, 2)}

AgentRunInit ==
    agentRun = [form |-> "off", script |-> <<>>, proc |-> "none", read |-> 0,
                seen |-> <<>>, steps |-> 0, tokens |-> 0, dropped |-> 0, session |-> FALSE,
                done |-> FALSE, queue |-> <<>>, out |-> <<>>, final |-> "none",
                stopped |-> FALSE, aborted |-> FALSE, next |-> "none",
                lost |-> FALSE, threw |-> FALSE, iter |-> 1]

Running == agentRun.proc = "running"
IsLocal == agentRun.form = "local"
IsDeployed == agentRun.form = "deployed"

\* The final events, and those the SDK itself raises at a limit.
LimitReasons == {"max_steps", "token_budget"}
Finals == LimitReasons \union
          {"done", "failed", "aborted", "timeout", "runtime_error", "protocol_error"}

-----------------------------------------------------------------------------
(* AgentStream.  A line is two halves: a chunk may end within one.  `lost`  *)
(* says that a call on the handle failed, `threw` that the consumer was     *)
(* thrown an error by its iteration.                                        *)

startLocal ==
    /\ agentRun.form = "off"
    /\ \E s \in Scripts :
         agentRun' = [agentRun EXCEPT !.form = "local", !.script = s, !.proc = "running"]

\* It ends by itself, by a crash or by the timeout of the command.
runtimeEnds ==
    /\ IsLocal /\ Running
    /\ \E how \in {"ok", "crash", "timeout"} : agentRun' = [agentRun EXCEPT !.proc = how]

\* parseV1Line: the event of a line, or none; finishV1.
parseV1Line(r, line) ==
    CASE line = "session" -> [state |-> [r EXCEPT !.session = TRUE], event |-> "none"]
      [] line = "done" -> [state |-> [r EXCEPT !.done = TRUE], event |-> "none"]
      [] OTHER -> [state |-> r, event |-> line]
finishV1(r) ==
    IF Contains(r.seen, "failed") THEN "failed"
    ELSE IF r.proc # "ok" THEN "runtime_error"
    ELSE IF ~r.done \/ ~r.session THEN "protocol_error" ELSE "done"

\* LimitTracker.track.
track(r, event) ==
    CASE event = "step" -> [state |-> [r EXCEPT !.steps = @ + 1],
                            event |-> IF r.steps + 1 > MaxSteps THEN "max_steps" ELSE event]
      [] event = "spent" -> [state |-> [r EXCEPT !.tokens = @ + 1],
                             event |-> IF r.tokens + 1 > MaxTotalTokens THEN "token_budget" ELSE event]
      [] OTHER -> [state |-> r, event |-> event]

\* One line of a chunk: nothing of the chunk is looked at after a final.
OneLine(r, line) ==
    IF r.final # "none" THEN r
    ELSE IF line = "long" THEN [r EXCEPT !.dropped = @ + 1]
    ELSE LET p == parseV1Line([r EXCEPT !.seen = Append(@, line)], line)
             t == track(p.state, p.event)
         IN  IF p.event = "none" THEN p.state
             ELSE [t.state EXCEPT !.queue = Append(@, t.event),
                                  !.final = IF t.event \in Finals THEN t.event ELSE @]

\* LineBuffer.feed: the lines that `upto` halves complete.
feed(r, upto) == SubSeq(r.script, r.read \div 2 + 1, upto \div 2)

\* #stop then #drain, at a limit, before the event can be taken from the
\* queue: the handle is killed once, and read to the EndEvent, which rayd
\* sends when the process is gone.  A failed kill is thrown to the consumer;
\* a stream that fails while it is drained is not, and the runtime may still
\* be dying (or running, if a kill had failed before).
Stopped(proc) == IF proc = "running" THEN "killed" ELSE proc
Dying(r) == IF r.proc # "running" THEN r.proc ELSE IF r.stopped THEN "running" ELSE "dying"
stopAtLimit(r) ==
    LET stopped == [r EXCEPT !.stopped = TRUE, !.lost = TRUE]
    IN  IF r.final \notin LimitReasons THEN {r}
        ELSE {[r EXCEPT !.stopped = TRUE, !.proc = Stopped(@)],
              [stopped EXCEPT !.proc = Dying(r)]}
             \union (IF r.stopped THEN {} ELSE {[stopped EXCEPT !.threw = TRUE]})

\* #pump: one chunk; what a runtime wrote before it ended still comes.
Pumping ==
    IsLocal /\ agentRun.queue = <<>> /\ agentRun.final = "none" /\ ~agentRun.threw
pump ==
    /\ Pumping
    /\ \E upto \in (agentRun.read + 1)..(2 * Len(agentRun.script)) :
         agentRun' \in stopAtLimit(FoldLeft(OneLine, [agentRun EXCEPT !.read = upto],
                                            feed(agentRun, upto)))

\* The handle's iterator fails: a TimeoutError is a final event, anything else
\* is thrown as it is, and no final event comes.
enqueueFinal(r, event) == [r EXCEPT !.queue = Append(@, event), !.final = event]
handleFails ==
    /\ Pumping
    /\ LET r == [agentRun EXCEPT !.lost = TRUE]
       IN  agentRun' \in {enqueueFinal(r, "timeout"), [r EXCEPT !.threw = TRUE]}

finalOf(r) == IF r.aborted THEN "aborted" ELSE IF r.proc = "timeout" THEN "timeout" ELSE finishV1(r)
finish ==
    /\ Pumping /\ ~Running
    /\ agentRun.proc = "ok" => agentRun.read = 2 * Len(agentRun.script)
    /\ agentRun' = enqueueFinal(agentRun, finalOf(agentRun))
\* Iterated again (result() after the error): the handle's iterator is over and
\* knows no exit code.
iterateAgain ==
    /\ IsLocal /\ agentRun.threw /\ agentRun.final = "none"
    /\ agentRun' = enqueueFinal(agentRun, finalOf([agentRun EXCEPT !.proc = "unknown"]))

\* abort(), from any other task; its kill may fail, and is not tried again.
abort ==
    /\ IsLocal /\ ~agentRun.aborted /\ agentRun.next = "none"
    /\ agentRun' \in LET r == [agentRun EXCEPT !.aborted = TRUE, !.stopped = TRUE]
                      IN  {r, IF agentRun.stopped THEN r ELSE [r EXCEPT !.proc = Stopped(@)]}

yields ==
    /\ agentRun.queue # <<>>
    /\ agentRun' = [agentRun EXCEPT !.out = Append(@, Head(agentRun.queue)), !.queue = Tail(@)]
Ended == agentRun.final # "none" /\ agentRun.queue = <<>>
IsOver == Ended \/ agentRun.threw

\* The next run of the sandbox takes the lock of the run script, or is busy.
nextRun ==
    /\ IsLocal /\ IsOver /\ agentRun.next = "none"
    /\ agentRun' = [agentRun EXCEPT
                       !.next = IF agentRun.proc \in {"running", "dying"} THEN "busy" ELSE "runs"]

-----------------------------------------------------------------------------
(* AgentDeployment.stream: steps counts the requests of this iteration,     *)
(* tokens the times the agent ran, proc where the request is, read the      *)
(* messages taken of `script`, final what ResultBuilder has.                *)

startDeployed ==
    /\ agentRun.form = "off"
    /\ \E s \in SeqOf({"session", "step", "junk", "failed", "done"}, 2) :
         agentRun' = [agentRun EXCEPT !.form = "deployed", !.script = s, !.proc = "request"]

\* #request: the proxy may reject the token, the host answer 429 (thrown), the
\* connection fail before or after the agent ran (thrown).  An answer may
\* have no body.
Throws(r) == [r EXCEPT !.proc = "closed", !.threw = TRUE]
request ==
    /\ IsDeployed /\ agentRun.proc = "request"
    /\ LET sent == [agentRun EXCEPT !.steps = @ + 1]
           ran == [sent EXCEPT !.tokens = @ + 1]
       IN  agentRun' \in {[sent EXCEPT !.proc = "forbidden"], Throws(sent), Throws(ran),
                          [ran EXCEPT !.proc = "answer"],
                          [enqueueFinal(ran, "protocol_error") EXCEPT !.proc = "closed"]}
\* #send: one refreshProxyAccess, and one more request.
sendLine ==
    /\ IsDeployed /\ agentRun.proc = "forbidden"
    /\ agentRun' = IF agentRun.steps <= RemintAttempts THEN [agentRun EXCEPT !.proc = "request"]
                   ELSE Throws(agentRun)

\* EventDecoder.feed and AgentDeploymentStream: an event is given, and the
\* iteration returns when ResultBuilder has a final, this one or an earlier.
eventArrives ==
    /\ IsDeployed /\ agentRun.proc = "answer" /\ agentRun.read < Len(agentRun.script)
    /\ LET m == agentRun.script[agentRun.read + 1]
           r == [agentRun EXCEPT !.read = @ + 1]
           given == IF m \in Finals THEN enqueueFinal(r, m) ELSE [r EXCEPT !.queue = Append(@, m)]
       IN  agentRun' = IF m \notin Finals \union {"step"} THEN r
                       ELSE [given EXCEPT !.proc = IF given.final = "none" THEN @ ELSE "closed"]
\* The answer ends without a final: the iteration returns and gives none (only
\* result() says protocol_error), or the read fails and is thrown.
answerEnds ==
    /\ IsDeployed /\ agentRun.proc = "answer"
    /\ agentRun' \in {[agentRun EXCEPT !.proc = "closed"], Throws(agentRun)}
Returned == IsDeployed /\ agentRun.proc = "closed" /\ agentRun.queue = <<>>
\* result() after an iteration iterates the stream again, and that opens it
\* again.
resultAfter ==
    /\ Returned /\ agentRun.iter = 1
    /\ agentRun' = [agentRun EXCEPT !.iter = 2, !.proc = "request", !.steps = 0, !.read = 0,
                                    !.out = <<>>, !.threw = FALSE]

-----------------------------------------------------------------------------
(* SseParser: script is the text (x a character, r and n the line ends),   *)
(* seen the bytes of the partial line, queue and out the lines, dropped is  *)
(* 1 after a CR.                                                           *)

Endings == {<<"n">>, <<"r">>, <<"r", "n">>}
Texts == UNION {{a \o e \o b \o e : a, b \in {<<>>, <<"x">>}} : e \in Endings}

startSse ==
    /\ agentRun.form = "off"
    /\ \E t \in Texts : agentRun' = [agentRun EXCEPT !.form = "sse", !.script = t]

\* The lines of a text whose line ends are of one kind (reference): how many
\* x each one has.
LineEnds(t) ==
    {i \in DOMAIN t : t[i] = "n" \/ (t[i] = "r" /\ (i = Len(t) \/ t[i + 1] # "n"))}
LinesOf(t) ==
    LET prev(i) == Max({0} \union {j \in LineEnds(t) : j < i})
    IN  [k \in 1..Cardinality(LineEnds(t)) |->
            LET i == SetToSortSeq(LineEnds(t), LAMBDA a, b : a < b)[k]
            IN  Cardinality({j \in (prev(i) + 1)..i : t[j] = "x"})]

\* feed: an LF right after the CR that ended the last chunk is skipped.
feedBytes(r, chunk) ==
    LET data == IF r.dropped = 1 /\ Head(chunk) = "n" THEN Tail(chunk) ELSE chunk
        at(i) == data[i] = "n" /\ i > 1 /\ data[i - 1] = "r"
        scan(g, i) == IF data[i] = "x" THEN [g EXCEPT !.seen = Append(@, "x")]
                      ELSE IF at(i) THEN g
                      ELSE [g EXCEPT !.queue = Append(@, Len(g.seen)), !.seen = <<>>]
    IN  [FoldLeft(scan, r, [i \in 1..Len(data) |-> i]) EXCEPT
            !.dropped = IF data = <<>> THEN @ ELSE IF data[Len(data)] = "r" THEN 1 ELSE 0]
chunkArrives ==
    /\ agentRun.form = "sse"
    /\ \E upto \in (agentRun.read + 1)..Len(agentRun.script) :
         agentRun' = [feedBytes(agentRun, SubSeq(agentRun.script, agentRun.read + 1, upto))
                         EXCEPT !.read = upto]

-----------------------------------------------------------------------------
AgentRunNext ==
    \/ startLocal \/ runtimeEnds \/ pump \/ handleFails \/ finish \/ iterateAgain
    \/ abort \/ nextRun
    \/ startDeployed \/ request \/ sendLine \/ eventArrives \/ answerEnds \/ resultAfter
    \/ (agentRun.form # "sse" /\ yields)
    \/ startSse \/ chunkArrives

\* The command has a timeout, the request too; the consumer iterates.
AgentRunFairness ==
    /\ WF_agentRun(runtimeEnds) /\ WF_agentRun(pump \/ finish)
    /\ WF_agentRun(agentRun.form # "sse" /\ yields)
    /\ WF_agentRun(request \/ sendLine \/ answerEnds)

-----------------------------------------------------------------------------
\* Nothing comes after a final event (done or agent_failed), whatever the
\* chunks, the limits, an abort, a failed kill or the end of the connection
\* do, and the final a first iteration gives last is the one result() reads.
\* (A deployed stream whose connection ends before a final gives none.)
OneFinalLast ==
    agentRun.form \in {"local", "deployed"} =>
        LET all == agentRun.out \o agentRun.queue
        IN  /\ \A i \in DOMAIN all : all[i] \in Finals => i = Len(all)
            /\ (agentRun.final # "none" /\ agentRun.iter = 1) =>
                  all # <<>> /\ Last(all) = agentRun.final

\* A run the SDK stopped at a limit, or that was aborted, leaves the lock of
\* the sandbox free for the next one; only a failure the runtime reported
\* itself, or a call on the handle that failed (its stream, its kill), may
\* find it still there.
LimitFreesRuntime == agentRun.next = "busy" => agentRun.final = "failed" \/ agentRun.lost

\* A result was read from every line the runtime wrote, each one once, the
\* dropped ones counted, however the chunks cut them.
ResultFromAllLines ==
    (IsLocal /\ agentRun.final = "done") =>
        LET n(k) == Cardinality({i \in DOMAIN agentRun.script : agentRun.script[i] = k})
        IN  agentRun.steps = n("step") /\ agentRun.tokens = n("spent") /\ agentRun.dropped = n("long")

\* One iteration makes the agent run at most once: within it the request is
\* sent again only when the proxy rejected it.
InvokedOnce == IsDeployed => agentRun.tokens <= agentRun.iter

\* The lines of an event stream do not depend on how its bytes were cut into
\* chunks.
SseLinesRight ==
    agentRun.form = "sse" =>
        LET whole == LinesOf(agentRun.script)
        IN  /\ IsPrefix(agentRun.queue, whole)
            /\ agentRun.read = Len(agentRun.script) => agentRun.queue = whole

\* Every run ends: with its final event taken, with an error thrown, or, if
\* deployed, with the iteration returning.
RunsEnd == (agentRun.form \in {"local", "deployed"}) ~> (IsOver \/ Returned)
=============================================================================
