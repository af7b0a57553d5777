--------------------------- MODULE DriverTranslation ---------------------------
(***************************************************************************)
(* The drivers of the agent host (agent/assets: drivers/*.py and the Node  *)
(* bridge): what a framework reports while it runs, translated into the    *)
(* events of protocol v1, and the LimitTracker that watches them in the    *)
(* service.  The framework is external: it starts a model step, streams    *)
(* text, ends the step with its usage and tool calls, answers those calls  *)
(* (a sub-agent spends tokens of its own meanwhile), and goes on or ends,  *)
(* or fails anywhere.                                                      *)
(***************************************************************************)
EXTENDS Integers, Sequences, SequencesExt

VARIABLE play

Frameworks == {"strands", "strands_ts", "deepagents", "langgraph_js", "vercel",
               "opencode", "hermes", "http_app"}
OneStep == {"hermes", "http_app"}       \* a run is one step
ToolsInside == {"vercel", "opencode"}   \* the tools run before the step ends
SubAgents == {"deepagents"}             \* the framework reports the usage of sub-agents
CallIds == {"c1", "c2"}
StepsMade == 3                          \* bound on the steps of the framework
MaxRunSteps == 2                        \* AgentLimits.max_steps
MaxRunTokens == 4                       \* AgentLimits.max_total_tokens

\* A step of the framework spends `new` tokens and reads `cached` ones.
Spending == [new : {1}, cached : {0, 1}]

NewFramework == [at |-> "between", n |-> 0, open |-> {}, spent |-> 0, streamed |-> FALSE, called |-> FALSE]
NewTranslator == [inStep |-> FALSE, steps |-> 0, text |-> 0, usage |-> 0, nested |-> 0, pending |-> {}]
NewReading == [session |-> FALSE, open |-> FALSE, steps |-> 0, deltas |-> 0, usage |-> 0,
               answered |-> {}, terminal |-> "", odd |-> {}]

PlayInit ==
    play = [on |-> FALSE, fw |-> "strands", framework |-> NewFramework, tr |-> NewTranslator,
            seen |-> NewReading, closed |-> FALSE, failure |-> FALSE]

-----------------------------------------------------------------------------
(* The events, and their reader: Invocation._deliver and LimitTracker.     *)

Ev(t) == [t |-> t, i |-> 0, u |-> 0, n |-> 0, id |-> <<>>, known |-> TRUE]
StepStarted(i) == [Ev("step_started") EXCEPT !.i = i]
TextDelta == Ev("text_delta")
Text(n) == IF n = 0 THEN <<>> ELSE <<[Ev("text") EXCEPT !.n = n]>>
StepFinished(i, u) == [Ev("step_finished") EXCEPT !.i = i, !.u = u]
ToolCall(id, known) == [Ev("tool_call") EXCEPT !.id = id, !.known = known]

\* observe: the reason why the event ends the run, or "".
observe(s, e) ==
    CASE e.t = "step_started" /\ s.steps + 1 > MaxRunSteps -> "max_steps"
      [] e.t = "step_finished" /\ s.usage + e.u > MaxRunTokens -> "token_budget"
      [] OTHER -> ""

\* What the consumer of the stream knows after the event; `odd` collects what it
\* could not make sense of.
Read(s, e) ==
    LET odd == IF s.terminal # "" THEN {"after the end"} ELSE {}
        before == IF ~s.session /\ e.t # "session" THEN {"before the session"} ELSE {}
        more == CASE e.t = "step_started" -> IF s.open \/ e.i # s.steps + 1 THEN {"step"} ELSE {}
                  [] e.t = "step_finished" -> IF ~s.open \/ e.i # s.steps THEN {"step end"} ELSE {}
                  [] e.t = "text_delta" -> IF ~s.open THEN {"text outside"} ELSE {}
                  [] e.t = "text" -> IF ~s.open \/ (s.deltas > 0 /\ e.n # s.deltas) THEN {"text"} ELSE {}
                  [] e.t = "tool_call" -> IF ~e.known \/ e.id \in s.answered THEN {"tool"} ELSE {}
                  [] OTHER -> {}
        read == [s EXCEPT !.odd = @ \cup odd \cup before \cup more]
    IN CASE e.t = "session" -> [read EXCEPT !.session = TRUE]
         [] e.t = "step_started" -> [read EXCEPT !.open = TRUE, !.steps = @ + 1, !.deltas = 0, !.answered = {}]
         [] e.t = "text_delta" -> [read EXCEPT !.deltas = @ + 1]
         [] e.t = "step_finished" -> [read EXCEPT !.open = FALSE, !.usage = @ + e.u]
         [] e.t = "tool_call" -> [read EXCEPT !.answered = @ \cup {e.id}]
         [] e.t \in {"done", "agent_failed"} -> [read EXCEPT !.terminal = e.t]
         [] OTHER -> read

\* _deliver: nothing passes once the run is closed; a limit closes it.
Deliver(p, e) ==
    IF p.closed THEN p
    ELSE IF e.t \in {"done", "agent_failed"} THEN [p EXCEPT !.seen = Read(@, e), !.closed = TRUE]
    ELSE IF observe(p.seen, e) # "" THEN [p EXCEPT !.seen = Read(@, Ev("agent_failed")), !.closed = TRUE]
    ELSE [p EXCEPT !.seen = Read(@, e)]
Out(p, events) == FoldLeft(Deliver, p, events)

-----------------------------------------------------------------------------
(* The translators: what they know after an item of the framework, and the *)
(* events it gives.  An item is made by Item.                               *)

Item(k) == [k |-> k, s |-> [new |-> 0, cached |-> 0], calls |-> {}, id |-> <<>>]
Told(tr, out) == [tr |-> tr, out |-> out]
Silent(tr) == Told(tr, <<>>)

messageStart(tr) == [tr EXCEPT !.steps = @ + 1, !.text = 0]

\* _tool_call: the name and the input come from the call, kept until its result.
_tool_call(tr, id) == Told([tr EXCEPT !.pending = @ \ {id}], <<ToolCall(id, id \in tr.pending)>>)

\* Strands: the assistant's message has the tool uses and closes the step, the
\* user's message has the results.
strandsFeed(tr, x) ==
    CASE x.k = "start" -> Told(messageStart(tr), <<StepStarted(tr.steps + 1)>>)
      [] x.k = "chunk" -> Told([tr EXCEPT !.text = @ + 1], <<TextDelta>>)
      [] x.k = "message" -> Told([tr EXCEPT !.pending = @ \cup x.calls],
                                 Text(tr.text) \o <<StepFinished(tr.steps, x.s.new + x.s.cached)>>)
      [] x.k = "result" -> _tool_call(tr, x.id)

\* Strands in TypeScript: the result of a tool comes with its call.
bridgeFeed(tr, x) ==
    CASE x.k = "start" -> Told(messageStart(tr), <<StepStarted(tr.steps + 1)>>)
      [] x.k = "chunk" -> Told([tr EXCEPT !.text = @ + 1], <<TextDelta>>)
      [] x.k = "message" -> Told(tr, Text(tr.text) \o <<StepFinished(tr.steps, x.s.new + x.s.cached)>>)
      [] x.k = "result" -> Told(tr, <<ToolCall(x.id, TRUE)>>)

\* LangChain counts what it read from its cache as input too: usage_of takes it off,
\* graphUsage of the bridge does not.
usage_of(s) == (s.new + s.cached) - s.cached + s.cached
graphUsage(s) == s.new + s.cached + s.cached

\* DeepAgents: a step begins with its first text or with its message, which ends it;
\* the sub-agents' usage goes to the step that follows.
_step_usage(tr, s) == usage_of(s) + tr.nested
_start(tr) ==
    IF tr.inStep THEN Silent(tr)
    ELSE Told([tr EXCEPT !.inStep = TRUE, !.steps = @ + 1, !.text = 0], <<StepStarted(tr.steps + 1)>>)
deepFeed(tr, x) ==
    CASE x.k = "start" -> Silent(tr)
      [] x.k = "chunk" -> LET b == _start(tr) IN Told([b.tr EXCEPT !.text = @ + 1], Append(b.out, TextDelta))
      [] x.k = "message" ->
            LET b == _start(tr)
            IN Told([b.tr EXCEPT !.inStep = FALSE, !.nested = 0, !.pending = @ \cup x.calls],
                    b.out \o Text(b.tr.text) \o <<StepFinished(b.tr.steps, _step_usage(tr, x.s))>>)
      [] x.k = "result" -> _tool_call(tr, x.id)
      [] x.k = "nested" -> Silent([tr EXCEPT !.nested = @ + x.s.new])

\* LangGraph in TypeScript: whole messages, each a step.
graphFeed(tr, x) ==
    CASE x.k \in {"start", "chunk"} -> Silent(tr)
      [] x.k = "message" ->
            Told([tr EXCEPT !.steps = @ + 1, !.pending = @ \cup x.calls],
                 <<StepStarted(tr.steps + 1), StepFinished(tr.steps + 1, graphUsage(x.s))>>)
      [] x.k = "result" -> Told(tr, <<ToolCall(x.id, x.id \in tr.pending)>>)

\* Vercel AI SDK: the tools run inside the step.
aiFeed(tr, x) ==
    CASE x.k = "start" -> Told(messageStart(tr), <<StepStarted(tr.steps + 1)>>)
      [] x.k = "chunk" -> Told([tr EXCEPT !.text = @ + 1], <<TextDelta>>)
      [] x.k = "call" -> Silent([tr EXCEPT !.pending = @ \cup x.calls])
      [] x.k = "result" -> Told(tr, <<ToolCall(x.id, x.id \in tr.pending)>>)
      [] x.k = "message" -> Told(tr, Text(tr.text) \o <<StepFinished(tr.steps, x.s.new + x.s.cached)>>)

\* OpenCode: its lines are whole parts; tool_use is one line, with call and result.
_step_events(tr, x) ==
    CASE x.k = "start" -> Told(messageStart(tr), <<StepStarted(tr.steps + 1)>>)
      [] x.k = "chunk" -> Told(tr, Text(1))
      [] x.k = "call" -> Silent(tr)
      [] x.k = "result" -> Told(tr, <<ToolCall(x.id, TRUE)>>)
      [] x.k = "message" -> Told(tr, <<StepFinished(tr.steps, x.s.new + x.s.cached)>>)

\* Hermes: run.completed has the whole output and usage; the tools are numbered here.
hermesFeed(tr, x) ==
    CASE x.k = "chunk" -> Told([tr EXCEPT !.text = @ + 1], <<TextDelta>>)
      [] x.k = "result" -> Told(tr, <<ToolCall(x.id, TRUE)>>)
      [] x.k = "message" -> Silent([tr EXCEPT !.usage = @ + x.s.new + x.s.cached])
      [] x.k = "completed" -> Told(tr, Text(tr.text) \o <<StepFinished(1, tr.usage)>>)
      [] OTHER -> Silent(tr)

\* An HTTP app: server-sent pieces of text, and at most one usage at the end.
_read(tr, x) ==
    CASE x.k = "chunk" -> Told([tr EXCEPT !.text = @ + 1], <<TextDelta>>)
      [] x.k = "message" -> Silent([tr EXCEPT !.usage = @ + x.s.new + x.s.cached])
      [] x.k = "completed" -> Told(tr, Text(tr.text) \o <<StepFinished(1, tr.usage)>>)
      [] OTHER -> Silent(tr)

Translate(fw, tr, x) ==
    CASE fw = "strands" -> strandsFeed(tr, x)
      [] fw = "strands_ts" -> bridgeFeed(tr, x)
      [] fw = "deepagents" -> deepFeed(tr, x)
      [] fw = "langgraph_js" -> graphFeed(tr, x)
      [] fw = "vercel" -> aiFeed(tr, x)
      [] fw = "opencode" -> _step_events(tr, x)
      [] fw = "hermes" -> hermesFeed(tr, x)
      [] fw = "http_app" -> _read(tr, x)

-----------------------------------------------------------------------------
(* A run.                                                                  *)

Fw == play.framework
Feed(item, fwNext) ==
    LET t == Translate(play.fw, play.tr, item)
    IN Out([play EXCEPT !.framework = fwNext, !.tr = t.tr], t.out)
Live == play.on /\ ~play.closed /\ Fw.at # "ended"

\* run(): the session first; one-step drivers also open their step.
startRun ==
    /\ ~play.on
    /\ \E f \in Frameworks :
          play' = Out([play EXCEPT !.on = TRUE, !.fw = f],
                      <<Ev("session")>> \o (IF f \in OneStep THEN <<StepStarted(1)>> ELSE <<>>))

modelStarts ==
    /\ Live /\ Fw.at = "between" /\ Fw.n < StepsMade
    /\ play' = Feed(Item("start"), [Fw EXCEPT !.at = "model", !.n = @ + 1, !.streamed = FALSE, !.called = FALSE])
modelStreams ==
    /\ Live /\ Fw.at = "model" /\ ~Fw.streamed
    /\ play' = Feed(Item("chunk"), [Fw EXCEPT !.streamed = TRUE])
modelCalls ==
    /\ Live /\ Fw.at = "model" /\ play.fw \in ToolsInside /\ ~Fw.called
    /\ \E calls \in (SUBSET {<<Fw.n, c>> : c \in CallIds}) \ {{}} :
          play' = Feed([Item("call") EXCEPT !.calls = calls],
                       [Fw EXCEPT !.at = "tools", !.open = calls, !.called = TRUE])
modelEnds ==
    /\ Live /\ Fw.at = "model"
    /\ \E s \in Spending, calls \in SUBSET {<<Fw.n, c>> : c \in CallIds} :
          /\ play.fw = "langgraph_js" => s.cached = 0
          /\ play.fw \in ToolsInside => calls = {}
          /\ play' = Feed([Item("message") EXCEPT !.s = s, !.calls = calls],
                          [Fw EXCEPT !.at = IF calls # {} THEN "tools" ELSE IF Fw.called THEN "between" ELSE "last",
                                     !.open = calls, !.spent = @ + s.new + s.cached])
toolAnswers ==
    /\ Live /\ Fw.at = "tools"
    /\ \E id \in Fw.open :
          play' = Feed([Item("result") EXCEPT !.id = id],
                       [Fw EXCEPT !.open = @ \ {id},
                                  !.at = IF Fw.open # {id} THEN "tools" ELSE IF Fw.called THEN "model" ELSE "between"])
subAgentSpends ==
    /\ Live /\ Fw.at = "tools" /\ play.fw \in SubAgents /\ play.tr.nested = 0
    /\ play' = Feed([Item("nested") EXCEPT !.s.new = 1], [Fw EXCEPT !.spent = @ + 1])

\* run_to_terminal and the drivers' _finish: done, or agent_failed.
runEndsWell ==
    /\ Live /\ Fw.at = "last"
    /\ LET t == IF play.fw \in OneStep THEN Translate(play.fw, play.tr, Item("completed")).out ELSE <<>>
       IN play' = Out([play EXCEPT !.framework.at = "ended"], t \o <<Ev("done")>>)
runFails ==
    /\ Live
    /\ play' = Out([play EXCEPT !.framework.at = "ended", !.failure = TRUE], <<Ev("agent_failed")>>)

PlayNext == \/ startRun \/ modelStarts \/ modelStreams \/ modelCalls \/ modelEnds \/ toolAnswers
            \/ subAgentSpends \/ runEndsWell \/ runFails

\* Whatever the framework, the reader of the stream sees a session, steps numbered one
\* after the other that each end before the next, the text of a step equal to what was
\* streamed, each tool call once and with the name of its call, and one terminal.
StreamMakesSense == play.seen.odd = {}

\* A run that ends well has reported all the tokens it spent, those of its sub-agents
\* and those read from a cache once (usage_of, _step_usage).
UsageConserved ==
    play.seen.terminal = "done" => play.seen.usage = play.framework.spent

\* No more steps and tokens reach the reader than the limits allow (LimitTracker).
LimitsHold == play.seen.steps <= MaxRunSteps /\ play.seen.usage <= MaxRunTokens

=============================================================================
