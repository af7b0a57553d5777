----------------------------- MODULE ProcessCalls -----------------------------
(***************************************************************************)
(* What the handles of the SDK are made of: the buffer that decodes and    *)
(* trims the output of a process (DecodedStream in sandbox/commands.ts),   *)
(* the opening of a stream with its retries (sandbox/core.ts), the clocks  *)
(* of a poll (sandbox/readiness.ts), the deadlines of a stream, the        *)
(* contexts of runCode (sandbox/code.ts) and the tables of errors          *)
(* (transport/errors.ts, stream-errors.ts).                                *)
(***************************************************************************)
EXTENDS Integers, Sequences, SequencesExt

VARIABLE proc

ProcInit == proc = [about |-> "none"]

-----------------------------------------------------------------------------
(* Output.  A byte is "a" (a character of its own), "L" or "T" (the first  *)
(* and the second byte of a character); a character is "a", "e" (L T) or   *)
(* "R", the replacement of a byte that does not decode.                    *)

MaxPayloads == 3       \* bound: payloads of one stream
Bytes == {"a", "L", "T"}
Payloads == [1..1 -> Bytes] \cup [1..2 -> Bytes]
Width(c) == CASE c = "a" -> 1 [] c = "e" -> 2 [] OTHER -> 3
Sum(s) == FoldSeq(+, 0, s)
TextBytes(text) == Sum([i \in DOMAIN text |-> Width(text[i])])
CharAt(b, i) ==
    CASE b[i] = "a" -> <<"a">>
      [] b[i] = "L" -> IF i < Len(b) /\ b[i + 1] = "T" THEN <<"e">> ELSE <<"R">>
      [] b[i] = "T" -> IF i > 1 /\ b[i - 1] = "L" THEN <<>> ELSE <<"R">>
\* TextDecoder: a first byte at the end is held back until the next payload.
Decode(b, stream) ==
    LET held == stream /\ b # <<>> /\ b[Len(b)] = "L"
        whole == IF held THEN Front(b) ELSE b
    IN [text |-> FlattenSeq([i \in DOMAIN whole |-> CharAt(whole, i)]), carry |-> IF held THEN <<"L">> ELSE <<>>]
StripReplacements(text) ==
    LET keep == {i \in DOMAIN text : text[i] # "R"}
    IN IF keep = {} THEN <<>> ELSE SubSeq(text, Min(keep), Len(text))
\* The text without its first n bytes; a character that is cut is lost whole.
CutText(text, n) ==
    LET at(i) == TextBytes(SubSeq(text, 1, i - 1))
        keep == {i \in DOMAIN text : at(i) >= n}
    IN IF keep = {} THEN <<>> ELSE StripReplacements(SubSeq(text, Min(keep), Len(text)))
RECURSIVE trim(_)
trim(s) ==
    IF s.kept <= s.max \/ s.parts = <<>> THEN s
    ELSE LET oldest == s.parts[1]
             overflow == s.kept - s.max
         IN IF oldest.size <= overflow
            THEN trim([s EXCEPT !.kept = @ - oldest.size, !.dropped = @ + oldest.size, !.parts = Tail(@)])
            ELSE [s EXCEPT !.kept = @ - overflow, !.dropped = @ + overflow,
                           !.parts = <<[text |-> CutText(oldest.text, overflow), size |-> oldest.size - overflow]>> \o Tail(@)]
emit(s, d) ==
    LET t == [s EXCEPT !.carry = d.carry]
    IN IF d.text = <<>> THEN t
       ELSE trim([t EXCEPT !.parts = Append(@, [text |-> d.text, size |-> s.pending]), !.kept = @ + s.pending,
                           !.pending = 0, !.heard = @ \o d.text])
StreamText(s) == FlattenSeq([i \in DOMAIN s.parts |-> s.parts[i].text])
truncated(s) == s.dropped > 0
openOutput ==
    proc.about = "none" /\ \E max \in 0..3 :
        proc' = [about |-> "output", max |-> max, parts |-> <<>>, kept |-> 0, pending |-> 0, dropped |-> 0, carry |-> <<>>,
                 heard |-> <<>>, fed |-> 0, feeds |-> 0, ended |-> FALSE]
feed ==
    /\ proc.about = "output" /\ ~proc.ended /\ proc.feeds < MaxPayloads
    /\ \E p \in Payloads :
         LET s == [proc EXCEPT !.pending = @ + Len(p), !.fed = @ + Len(p), !.feeds = @ + 1]
         IN proc' = emit(s, Decode(proc.carry \o p, TRUE))
finish == proc.about = "output" /\ ~proc.ended /\ proc' = [emit(proc, Decode(proc.carry, FALSE)) EXCEPT !.ended = TRUE]

-----------------------------------------------------------------------------
(* The clock of a poll, in eighths of a second.                            *)

timing(kind) ==
    IF kind = "readiness" THEN [initial |-> 2, max |-> 16, check |-> 40, maxRpc |-> 40, minRpc |-> 4, jitter |-> {4}]
    ELSE [initial |-> 4, max |-> 32, check |-> 40, maxRpc |-> 40, minRpc |-> 4, jitter |-> {3, 4, 5}]   \* quarters of the delay
remaining(p) == IF p.deadline > p.now THEN p.deadline - p.now ELSE 0
timedOut(p) == remaining(p) <= 0
Least(a, b) == IF a < b THEN a ELSE b
Most(a, b) == IF a > b THEN a ELSE b
rpcTimeout(p) == Least(timing(p.kind).maxRpc, Most(timing(p.kind).minRpc, remaining(p)))
shouldCheckState(p) == p.now - p.checked >= timing(p.kind).check
nextDelay(p, quarters) == Least((p.delay * quarters) \div 4, remaining(p))
\* waitUntilReady starts with a call, the polls of reconnect with a look at their clock;
\* one of a call may wake the sandbox (wake), one of a stream that waits may not.
startPoll ==
    proc.about = "none" /\ \E kind \in {"readiness", "reconnect"}, wake \in BOOLEAN, timeout \in {1, 24, 100} :
        /\ (kind = "readiness" => wake)
        /\ proc' = [about |-> "poll", kind |-> kind, wake |-> wake, now |-> 0, deadline |-> timeout, checked |-> 0, asked |-> 0, reminted |-> FALSE,
                    delay |-> timing(kind).initial, at |-> IF kind = "readiness" THEN "probe" ELSE "look", outcome |-> ""]
StateCall == 8         \* bound: what a get-microvm takes
Mint == 4              \* bound: what a new token takes
EndPoll(p, outcome) == [p EXCEPT !.at = "end", !.outcome = outcome]
\* probeHealth: it answers at once or not at all, and a 403 of the proxy mints a token
\* and asks again with the same timeout.
probe ==
    /\ proc.about = "poll" /\ proc.at = "probe"
    /\ \E reminted \in BOOLEAN, took \in {1, rpcTimeout(proc)} :
         LET p == [proc EXCEPT !.now = @ + took + (IF reminted THEN Mint + rpcTimeout(proc) ELSE 0), !.reminted = reminted]
         IN \/ proc' = EndPoll(p, "ready")
            \/ proc' = [p EXCEPT !.at = IF proc.kind = "readiness" THEN "look" ELSE IF proc.wake THEN "sleep" ELSE "state"]
\* get-microvm: a VM that ended ends the poll, and a poll that may not wake the sandbox
\* also ends when it finds it suspended.
askState(p, next) ==
    \E took \in {1, StateCall} :
       LET q == [p EXCEPT !.now = @ + took, !.asked = proc.now]
       IN \/ proc' = EndPoll(q, "gone")
          \/ proc' = [q EXCEPT !.at = next]
          \/ ~p.wake /\ proc' = EndPoll(q, "suspended")
\* The look at the clock: waitUntilReady asks for the state and then gives up,
\* #pollUntilBack gives up first.
look ==
    /\ proc.about = "poll" /\ proc.at = "look"
    /\ LET p == [proc EXCEPT !.checked = proc.now]
       IN CASE proc.kind = "reconnect" /\ timedOut(proc) -> proc' = EndPoll(proc, "notReady")
            [] proc.wake /\ shouldCheckState(proc) -> askState(p, IF proc.kind = "readiness" THEN "late" ELSE "probe")
            [] OTHER -> proc' = [proc EXCEPT !.at = IF proc.kind = "readiness" THEN "late" ELSE "probe"]
giveUp ==
    /\ proc.about = "poll" /\ proc.at = "late"
    /\ proc' = IF timedOut(proc) THEN EndPoll(proc, "notReady") ELSE [proc EXCEPT !.at = "sleep"]
checkState == proc.about = "poll" /\ proc.at = "state" /\ askState(proc, "sleep")
pause ==
    /\ proc.about = "poll" /\ proc.at = "sleep"
    /\ \E q \in timing(proc.kind).jitter :
         proc' = [proc EXCEPT !.now = @ + nextDelay(proc, q), !.delay = Least(@ * 2, timing(proc.kind).max),
                             !.at = IF proc.kind = "readiness" THEN "probe" ELSE "look"]

-----------------------------------------------------------------------------
(* Deadlines, in tenths of a millisecond where the caller gives them.      *)

GRACE == 5             \* STREAM_DEADLINE_GRACE_MS, scaled
Round(tenths) == (tenths + 5) \div 10
timeoutToMs(t) == IF t \in {-1, 0} THEN 0 ELSE Most(1, Round(t))          \* -1: no timeout given
streamDeadline(t) == IF timeoutToMs(t) = 0 THEN 0 ELSE timeoutToMs(t) + GRACE   \* 0: none
remainingDeadline(at, now) == Most(0, at - now)
resubscribeFor(d, now) ==
    IF d = 0 THEN [code |-> "", ms |-> 0]
    ELSE IF remainingDeadline(d, now) <= 0 THEN [code |-> "TimeoutError", ms |-> 0] ELSE [code |-> "", ms |-> remainingDeadline(d, now)]
startCommand ==
    proc.about = "none" /\ \E t \in {-1, 0, 3, 10, 16, 40}, now \in 0..12 :
        proc' = [about |-> "deadline", asked |-> t, agent |-> timeoutToMs(t), client |-> streamDeadline(t), now |-> now,
                 again |-> resubscribeFor(streamDeadline(t), now)]

-----------------------------------------------------------------------------
(* Opening a stream.  A try ends in a first message, in an error, or does  *)
(* not reach the agent; the signal of the caller may abort at any time.    *)

ConnectRetries == 5           \* CONNECT_RETRY_DELAYS_MS
isConnectionNotEstablished(e) == e = "unestablished"
isProxyForbidden(e) == e = "forbidden"
Reconnects(e) == e \in {"reset", "suspending"}      \* isReconnectable: a cut, or the phase gate
\* streamFailure: a reset asks Health and then the control plane what became of the sandbox.
streamFailureError(healthOk, state) ==
    IF healthOk THEN "SandboxError"
      ELSE IF state = "terminated" THEN "SandboxNotFoundError"
      ELSE IF state = "suspended" THEN "SandboxStateError"
      ELSE "SandboxError"
healthAnswers(vm) == vm = "running"
stateAfterReset(vm) == IF vm = "unanswered" THEN "unknown" ELSE vm
ErrorOf(e) == CASE e = "suspending" -> "SandboxStateError" [] e = "sandbox_timeout" -> "TimeoutError" [] OTHER -> e
streamFailure(e, vm) == IF e # "reset" THEN ErrorOf(e) ELSE streamFailureError(healthAnswers(vm), stateAfterReset(vm))
openFailure(e, vm) == streamFailure(e, vm)
openStream ==
    proc.about = "none" /\ \E reconnect, allowEmpty, paused \in BOOLEAN, vm \in {"running", "suspended", "terminated", "unanswered"} :
        proc' = [about |-> "open", paused |-> paused, at |-> "try", round |-> 1, tries |-> 0, reconnect |-> reconnect, allowEmpty |-> allowEmpty, vm |-> vm,
                 error |-> "", live |-> 0, linked |-> TRUE, aborted |-> FALSE, inTime |-> FALSE, starts |-> 0, reset |-> FALSE, outcome |-> ""]
Bug_keepsController(o) == o
released(o) == [o EXCEPT !.live = 0]
OpenEndsWith(o, code) == [released(o) EXCEPT !.at = "end", !.outcome = IF o.aborted THEN "aborted" ELSE code]
\* linkAbortSignal: a signal that is aborted already never fires again.
BeginTry(o) == [o EXCEPT !.live = 1, !.linked = ~o.aborted]
TryFails(o, e) ==
    IF isConnectionNotEstablished(e) /\ ~o.aborted /\ o.tries < ConnectRetries THEN [released(o) EXCEPT !.at = "wait", !.tries = @ + 1]
    ELSE IF isProxyForbidden(e) /\ o.round = 1 THEN [released(o) EXCEPT !.at = "remint", !.error = e]
    ELSE IF o.round < 3 /\ e = "sandbox_timeout" /\ o.paused THEN [released(o) EXCEPT !.at = "deadline", !.error = e]
    ELSE IF o.round < 3 /\ o.reconnect /\ Reconnects(e) THEN [released(o) EXCEPT !.at = "reconnect", !.error = e]
    ELSE OpenEndsWith(o, openFailure(e, o.vm))
firstMessage ==
    /\ proc.about = "open" /\ proc.at = "try"
    /\ LET o == BeginTry(proc)
       IN \/ proc' = IF o.allowEmpty THEN [o EXCEPT !.at = "end", !.outcome = "opened"] ELSE TryFails(o, "empty")
          \/ proc' = [o EXCEPT !.at = "end", !.outcome = "opened", !.starts = @ + 1]
          \/ proc' = TryFails(o, "unestablished")
          \/ proc' = TryFails(o, "forbidden")
          \/ \E e \in {"InvalidArgumentError", "suspending", "sandbox_timeout"} : proc' = TryFails(o, e)
          \/ \E took \in BOOLEAN : proc' = TryFails([o EXCEPT !.starts = IF took THEN @ + 1 ELSE @, !.reset = TRUE], "reset")
          \* The caller aborts while the first message is awaited.
          \/ o.linked /\ proc' = OpenEndsWith([o EXCEPT !.aborted = TRUE, !.inTime = TRUE], "aborted")
retryUnestablished ==
    /\ proc.about = "open" /\ proc.at = "wait"
    /\ proc' = IF proc.aborted THEN OpenEndsWith(proc, "aborted") ELSE [proc EXCEPT !.at = "try"]
abortBetween ==
    /\ proc.about = "open" /\ proc.at \in {"wait", "remint", "reconnect", "deadline"} /\ ~proc.aborted
    /\ proc' = [proc EXCEPT !.aborted = TRUE, !.inTime = proc.at = "wait"]
firstMessageReminting ==
    /\ proc.about = "open" /\ proc.at = "remint"
    /\ \/ proc' = [proc EXCEPT !.at = "try", !.round = 2, !.tries = 0]
       \/ proc' = OpenEndsWith(proc, "AuthenticationError")
\* #reopenedAfterDeadlinePause: only after a suspension this handle made, and then
\* also for a call that is not reconnected, since the agent refused it.
reopenedAfterDeadlinePause ==
    /\ proc.about = "open" /\ proc.at = "deadline"
    /\ \/ proc' = [proc EXCEPT !.at = "try", !.round = 3, !.tries = 0]
       \/ proc' = OpenEndsWith(proc, openFailure(proc.error, proc.vm))
Resumed(o) == [o EXCEPT !.at = "try", !.round = 3, !.tries = 0, !.vm = "running"]
reopen ==
    /\ proc.about = "open" /\ proc.at = "reconnect"
    /\ \/ proc.vm # "terminated" /\ proc' = Resumed(proc)
       \/ proc' = OpenEndsWith(proc, streamFailureError(FALSE, stateAfterReset(proc.vm)))

-----------------------------------------------------------------------------
(* Contexts: which cells get the secrets of the handle.  `contexts` is     *)
(* what the agent has, `known` what this client learned of it.             *)

Languages == {"python", "bash", "javascript"}
Spelled == {"python", "Python", "js", "bash", ""}
Lower(l) == IF l = "Python" THEN "python" ELSE l
normalizeLanguage(l) == IF Lower(l) = "js" THEN "javascript" ELSE Lower(l)
validateLanguage(l) == IF l = "" THEN "python" ELSE normalizeLanguage(l)
languageDefaultContextId(l) == IF l = "" THEN "default" ELSE IF normalizeLanguage(l) = "python" THEN "default" ELSE "default-" \o normalizeLanguage(l)
Defaults == ("default" :> "python") @@ ("default-bash" :> "bash") @@ ("default-javascript" :> "javascript")
ContextIds == {"c1", "c2"}
targetContextLanguage(ctx, known) ==
    IF ctx = "" THEN "python"
    ELSE IF ctx \in DOMAIN Defaults THEN Defaults[ctx]
    ELSE IF ctx \in DOMAIN known THEN known[ctx] ELSE "unknown"
codeSecretsScope(lang, target, secrets) ==
    LET t == IF lang # "" THEN Lower(lang) ELSE target
    IN IF t = "unknown" THEN "none" ELSE IF t = "python" THEN "bound" ELSE IF secrets THEN "invalid" ELSE "none"
buildExecuteRequest(ctx, lang) == IF ctx # "" /\ lang # "" THEN "invalid" ELSE "ok"
contextFromProto(l) == l
fallbackContext(lang) == validateLanguage(lang)
NoContext == [id \in {} |-> ""]
openCode == proc.about = "none" /\ proc' = [about |-> "code", contexts |-> NoContext, known |-> NoContext, cell |-> [ran |-> FALSE], made |-> [id |-> "", language |-> ""]]
Unused == ContextIds \ DOMAIN proc.contexts
createContext ==
    /\ proc.about = "code" /\ Unused # {}
    /\ \E lang \in Spelled, listed \in {"all", "missing", "failed"} :
         LET id == CHOOSE i \in Unused : \A j \in Unused : (i = "c1") \/ j = i
             all == (id :> validateLanguage(lang)) @@ proc.contexts
         IN proc' = [proc EXCEPT !.contexts = all,
                       !.known = CASE listed = "all" -> all @@ @ [] listed = "missing" -> (id :> fallbackContext(lang)) @@ proc.contexts @@ @ [] OTHER -> @,
                       !.made = CASE listed = "all" -> [id |-> id, language |-> contextFromProto(all[id])]
                                  [] listed = "missing" -> [id |-> id, language |-> fallbackContext(lang)] [] OTHER -> [id |-> "", language |-> ""]]
\* Another handle of the same sandbox.
otherCreates ==
    /\ proc.about = "code" /\ Unused # {}
    /\ \E id \in Unused, l \in Languages : proc' = [proc EXCEPT !.contexts = (id :> l) @@ @]
listContexts == proc.about = "code" /\ proc' = [proc EXCEPT !.known = proc.contexts @@ @]
runCode ==
    /\ proc.about = "code" /\ ~proc.cell.ran
    /\ \E ctx \in {"", "default", "default-bash"} \cup DOMAIN proc.contexts, lang \in Spelled, secrets \in BOOLEAN :
         LET scope == codeSecretsScope(lang, targetContextLanguage(ctx, proc.known), secrets)
             request == buildExecuteRequest(ctx, lang)
             target == IF ctx # "" THEN ctx ELSE languageDefaultContextId(lang)
         IN proc' = [proc EXCEPT !.cell = [ran |-> TRUE, code |-> IF scope = "invalid" \/ request = "invalid" THEN "InvalidArgumentError" ELSE "",
                                           bound |-> scope = "bound", asked |-> secrets,
                                           actual |-> IF target \in DOMAIN Defaults THEN Defaults[target] ELSE proc.contexts[target]]]

-----------------------------------------------------------------------------
(* The two tables of errors: of a call, and of an error inside a stream.   *)

Codes == {"not_found", "permission_denied", "deadline_exceeded", "invalid_argument", "failed_precondition", "resource_exhausted", "unavailable"}
Details == {"", "suspending", "kernel", "sandbox_timeout", "disk_full", "beyond", "unmanaged"}
isPhaseGate(e) == e.code = "unavailable" /\ e.detail = "suspending"
translateRpcError(e, files) ==
    IF isPhaseGate(e) THEN "SandboxStateError"
      ELSE IF e.code = "unavailable" /\ e.detail = "kernel" THEN "SandboxError"
      ELSE IF e.detail = "sandbox_timeout" THEN "TimeoutError"
      ELSE IF e.code \in {"invalid_argument", "failed_precondition"} THEN "InvalidArgumentError"
      ELSE IF e.code = "permission_denied" THEN "AuthenticationError"
      ELSE IF e.code = "not_found" THEN IF files THEN "FileNotFoundError" ELSE "NotFoundError"
      ELSE IF e.code = "resource_exhausted" THEN IF e.detail = "disk_full" THEN "DiskFullError" ELSE "RateLimitError"
      ELSE IF e.code = "deadline_exceeded" THEN "TimeoutError"
      ELSE "SandboxError"
translateStreamError(e, files) ==
    LET code == IF e.detail \in {"sandbox_timeout", "suspending"} THEN e.detail ELSE e.code
    IN CASE code = "not_found" -> IF files THEN "FileNotFoundError" ELSE "NotFoundError"
         [] code = "permission_denied" -> "AuthenticationError"
         [] code \in {"deadline_exceeded", "sandbox_timeout"} -> "TimeoutError"
         [] code \in {"invalid_argument", "failed_precondition"} -> "InvalidArgumentError"
         [] code = "resource_exhausted" -> IF e.detail = "disk_full" THEN "DiskFullError" ELSE "RateLimitError"
         [] code = "suspending" -> "SandboxStateError"
         [] OTHER -> "SandboxError"
translateSetTimeoutError(e) ==
    CASE e.code = "invalid_argument" /\ e.detail = "beyond" -> "beyondCap"
      [] e.code = "failed_precondition" /\ e.detail = "unmanaged" -> "unmanaged"
      [] OTHER -> translateRpcError(e, FALSE)
failCall ==
    proc.about = "none" /\ \E code \in Codes, detail \in Details, files \in BOOLEAN :
        LET e == [code |-> code, detail |-> detail]
        IN /\ (detail \in {"suspending", "kernel"} => code = "unavailable") /\ (detail = "disk_full" => code = "resource_exhausted")
           /\ (detail = "sandbox_timeout" => code \in {"unavailable", "failed_precondition"})
           /\ proc' = [about |-> "error", e |-> e, unary |-> translateRpcError(e, files), stream |-> translateStreamError(e, files),
                       timeout |-> translateSetTimeoutError(e)]

ProcNext == \/ openOutput \/ feed \/ finish \/ startPoll \/ probe \/ look \/ giveUp \/ checkState \/ pause \/ startCommand
            \/ openStream \/ firstMessage \/ retryUnestablished \/ abortBetween \/ firstMessageReminting \/ reopenedAfterDeadlinePause \/ reopen
            \/ openCode \/ createContext \/ otherCreates \/ listContexts \/ runCode \/ failCall

-----------------------------------------------------------------------------

IsOutput == proc.about = "output"
\* Every byte received is kept, counted as dropped, or waits for the rest of its
\* character, and never more than maxOutputBytes of them are kept, wherever the
\* payloads split a character (DecodedStream).
BytesAccounted == IsOutput => proc.kept + proc.dropped + proc.pending = proc.fed /\ proc.kept <= proc.max

\* The text of a result is the end of what the callback heard, and it is all of it
\* unless the result says that output was dropped (#trim, OutputAccumulator.truncated).
TailOfTheOutput == IsOutput => IsSuffix(StreamText(proc), proc.heard) /\ (~truncated(proc) => StreamText(proc) = proc.heard)

\* A poll ends at its deadline or with the calls it had begun by then: at most one
\* get-microvm and one Health, which near the deadline lasts the shortest timeout, or
\* twice its own timeout if the proxy asked for a new token.  No pause runs past it,
\* whatever the jitter (nextDelayMs, rpcTimeoutMs, waitUntilReady, #pollUntilBack).
PollEndsInTime ==
    proc.about = "poll" =>
        proc.now <= proc.deadline + StateCall + IF proc.reminted THEN Mint + timing(proc.kind).maxRpc ELSE timing(proc.kind).minRpc

\* While a poll lasts, the control plane is asked often enough to notice that the VM
\* ended: never later than one interval, one Health and one pause (shouldCheckState),
\* also when the poll is the one that may not wake the sandbox and asks every round.
StateIsWatched ==
    proc.about = "poll" =>
        proc.now - proc.asked < timing(proc.kind).check + (timing(proc.kind).max * 5) \div 4 + StateCall
                                + IF proc.reminted THEN 2 * timing(proc.kind).maxRpc + Mint ELSE timing(proc.kind).maxRpc

\* The agent ends a command before the client's own deadline does, a command without
\* a timeout has no deadline either, and the shortest timeout is not taken for none.
AgentEndsFirst ==
    proc.about = "deadline" =>
        /\ (proc.agent = 0 <=> proc.asked \in {-1, 0}) /\ (proc.agent = 0 <=> proc.client = 0)
        /\ proc.agent # 0 => proc.client > proc.agent

\* A stream opened again after a cut ends when the first one would have: its deadline
\* is never extended, and one that has passed does not become no deadline.
ReopenKeepsDeadline ==
    proc.about = "deadline" /\ proc.client # 0 =>
        IF proc.now >= proc.client THEN proc.again.code = "TimeoutError" ELSE proc.again.ms > 0 /\ proc.now + proc.again.ms = proc.client

OpenEnded == proc.about = "open" /\ proc.at = "end"
\* A call that gave up, was refused or was aborted leaves no stream open, and one
\* that succeeded leaves one: the tries before it were released (#firstMessage).
NoStreamLeft == OpenEnded => proc.live = IF proc.outcome = "opened" THEN 1 ELSE 0

\* A request that the agent may have carried out is sent again at most once, after a
\* reconnection, and never when the call must not run twice (runCode): what is sent
\* again then, after a new token or a reopened deadline, is what had been refused.
StartsBounded == proc.about = "open" => proc.starts <= IF proc.reconnect THEN 2 ELSE 1

\* An abort while a try or the pause before the next one is awaited ends the call with
\* the reason of the signal (retryUnestablished, linkAbortSignal).
AbortRejects == OpenEnded /\ proc.inTime => proc.outcome = "aborted"

\* The caller is told that the sandbox is gone only if the control plane says so.
GoneOnlyIfTerminated == OpenEnded /\ proc.outcome = "SandboxNotFoundError" => proc.vm = "terminated"

\* The secrets of the handle reach only Python cells, whoever made the context and
\* whatever this client knows of it; a cell with secrets of its own that is certainly
\* not Python is refused (codeSecretsScope).
SecretsOnlyInPython ==
    proc.about = "code" /\ proc.cell.ran /\ proc.cell.code = "" /\ proc.cell.bound => proc.cell.actual = "python"

\* A context is handed to the caller with the language the agent runs it in, listed
\* or not.
ContextAsMade == proc.about = "code" /\ proc.made.id # "" => proc.contexts[proc.made.id] = proc.made.language

\* An error means the same to the caller whether it ended a call or came inside a
\* stream.
TablesAgree == proc.about = "error" => proc.unary = proc.stream
=============================================================================
