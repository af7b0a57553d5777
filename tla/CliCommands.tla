----------------------------- MODULE CliCommands ----------------------------
(***************************************************************************)
(* The command line (cli/run.ts, parse.ts, failures.ts, tokens.ts,         *)
(* console.ts, interactive-terminal.ts, commands/sandbox*.ts): the words   *)
(* of an invocation, and the commands on one sandbox with their terminal,  *)
(* their token, Ctrl-C and exit code.                                      *)
(***************************************************************************)
EXTENDS Integers, Sequences, FiniteSets, TLC

VARIABLES cli, doctor

CliInit == cli = [about |-> "none"]

-----------------------------------------------------------------------------
(* parse.ts.  The tree has a group with a command, and a group with a root *)
(* command and a command below it.                                         *)

Leaf == <<"sandbox", "list">>
Rooted == <<"dashboard">>
Below == <<"dashboard", "cloudwatch">>
TreeCommands == {Leaf, Below}
TreeGroups == {<<"sandbox">>, Rooted}
CliTokens == {"--json", "--version", "--help", "--region", "--region=r", "--other", "sandbox", "list", "dashboard", "cloudwatch"}
IsOption(w) == w \in {"--json", "--version", "--help", "--region", "--region=r", "--other"}
WordsMax == 3
childNames(path) == {Append(path, w) : w \in CliTokens} \cap (TreeCommands \cup TreeGroups)

startParse ==
    cli.about = "none" /\ \E argv \in UNION {[1..n -> CliTokens] : n \in 0..WordsMax} :
        cli' = [about |-> "parse", at |-> "globals", argv |-> argv, rest |-> argv, json |-> FALSE, version |-> FALSE, help |-> FALSE, path |-> <<>>, result |-> "", exit |-> 0]
Parsed(result, exit) == [cli EXCEPT !.at = "end", !.result = result, !.exit = exit]
UsageExit == 2
\* What the root options decide before any command.
afterGlobals ==
    IF cli.version THEN Parsed("version", 0)
    ELSE IF cli.help THEN Parsed("help", 0)
    ELSE IF cli.argv = <<>> THEN Parsed("help", UsageExit) ELSE [cli EXCEPT !.at = "path"]
scanGlobals ==
    /\ cli.about = "parse" /\ cli.at = "globals"
    /\ cli' = IF cli.rest = <<>> \/ ~IsOption(Head(cli.rest)) THEN afterGlobals
              ELSE LET w == Head(cli.rest) later == Tail(cli.rest)
                   IN CASE w = "--json" -> [cli EXCEPT !.json = TRUE, !.rest = later]
                        [] w = "--version" -> [cli EXCEPT !.version = TRUE, !.rest = later]
                        [] w = "--help" -> [cli EXCEPT !.help = TRUE, !.rest = later]
                        [] w = "--region=r" -> [cli EXCEPT !.rest = later]
                        [] w = "--region" -> IF later = <<>> THEN Parsed("usage", UsageExit) ELSE [cli EXCEPT !.rest = Tail(later)]
                        [] OTHER -> Parsed("usage", UsageExit)
\* The arguments of the command: none of these commands takes a word, and its only option here is --help.
runInvocation(path) ==
    IF \E i \in DOMAIN cli.rest : IsOption(cli.rest[i]) /\ cli.rest[i] # "--help" THEN Parsed("usage", UsageExit)
    ELSE IF \E i \in DOMAIN cli.rest : cli.rest[i] = "--help" THEN Parsed("help", 0)
    ELSE IF cli.rest # <<>> THEN Parsed("usage", UsageExit)
    ELSE [Parsed("run", 0) EXCEPT !.path = path]
rootRuns == cli.path = Rooted /\ (cli.rest = <<>> \/ Append(cli.path, Head(cli.rest)) \notin childNames(cli.path))
parseInvocation ==
    /\ cli.about = "parse" /\ cli.at = "path"
    /\ cli' = IF cli.path \in TreeCommands \/ rootRuns THEN runInvocation(cli.path)
              ELSE IF cli.rest = <<>> THEN Parsed("help", UsageExit)
              ELSE IF Head(cli.rest) = "--help" THEN Parsed("help", 0)
              ELSE IF Append(cli.path, Head(cli.rest)) \in childNames(cli.path) THEN [cli EXCEPT !.path = Append(@, Head(cli.rest)), !.rest = Tail(cli.rest)]
              ELSE Parsed("usage", UsageExit)

\* The values of one option: its flag, its variable, its default; and of the arguments.
coerce(text) == IF text = "bad" THEN "usage" ELSE text
defaultValue(multiple, default) == IF default = "null" THEN IF multiple THEN <<>> ELSE "undefined" ELSE IF multiple THEN <<default>> ELSE default
envEntries(multiple, text) == IF multiple THEN (IF text = "" THEN <<>> ELSE <<text>>) ELSE <<text>>
supplied(raw, env) == IF raw # <<>> THEN raw ELSE env
optionValue(raw, variable, multiple, default) ==
    LET texts == supplied(raw, IF variable = "unset" THEN <<>> ELSE envEntries(multiple, variable))
    IN IF raw = <<>> /\ variable = "unset" THEN defaultValue(multiple, default)
       ELSE IF \E i \in DOMAIN texts : (multiple \/ i = Len(texts)) /\ coerce(texts[i]) = "usage" THEN "usage"
       ELSE IF multiple THEN texts ELSE texts[Len(texts)]
chooseOption ==
    cli.about = "none" /\ \E raw \in {<<>>, <<"a">>, <<"a", "b">>, <<"a", "bad">>, <<"bad", "a">>}, variable \in {"unset", "", "e", "bad"}, multiple \in BOOLEAN, default \in {"null", "d"} :
        cli' = [about |-> "option", raw |-> raw, variable |-> variable, multiple |-> multiple, default |-> default, value |-> [is |-> optionValue(raw, variable, multiple, default)]]
flagValue(given, default) == IF "no" \in given THEN "false" ELSE IF "yes" \in given THEN "true" ELSE IF default = "null" THEN "undefined" ELSE default
chooseFlag ==
    cli.about = "none" /\ \E given \in SUBSET {"yes", "no"}, default \in {"null", "true", "false"} :
        cli' = [about |-> "flag", given |-> given, value |-> flagValue(given, default)]
\* Positionals are dealt from the left; a variadic argument takes all that is left.
startArguments ==
    cli.about = "none" /\ \E specs \in UNION {[1..n -> [variadic : BOOLEAN, required : BOOLEAN]] : n \in 0..2}, words \in 0..3 :
        cli' = [about |-> "arguments", specs |-> specs, words |-> words, next |-> 1, pending |-> words, given |-> <<>>, result |-> ""]
surplus(pending) == IF pending > 0 THEN "usage" ELSE "ok"
argumentValues ==
    /\ cli.about = "arguments" /\ cli.result = ""
    /\ cli' = IF cli.next > Len(cli.specs) THEN [cli EXCEPT !.result = surplus(cli.pending)]
              ELSE LET spec == cli.specs[cli.next] n == IF spec.variadic THEN cli.pending ELSE IF cli.pending > 0 THEN 1 ELSE 0
                   IN IF n = 0 /\ spec.required THEN [cli EXCEPT !.result = "usage"]
                      ELSE [cli EXCEPT !.next = @ + 1, !.pending = @ - n, !.given = Append(@, n)]

-----------------------------------------------------------------------------
(* `sandbox kill`: ids, or --all after a confirmation.                     *)

Vms == {"a", "b"}
startKill ==
    cli.about = "none" /\ \E ids \in {<<>>, <<"a">>, <<"a", "b">>, <<"a", "a">>}, all, yes \in BOOLEAN, alive \in SUBSET Vms :
        cli' = [about |-> "kill", at |-> IF (all /\ ids # <<>>) \/ (~all /\ ids = <<>>) THEN "usage" ELSE IF all THEN "list" ELSE "kill", all |-> all, yes |-> yes,
                asked |-> ids, ids |-> ids, listed |-> {}, alive |-> alive, agreed |-> FALSE, asks |-> 0, outcomes |-> <<>>, killed |-> {}, exit |-> -1]
refuseKill == cli.about = "kill" /\ cli.at = "usage" /\ cli' = [cli EXCEPT !.at = "end", !.exit = UsageExit]
askFirst == IF cli.yes THEN "kill" ELSE "confirm"
listForKill ==
    /\ cli.about = "kill" /\ cli.at = "list"
    /\ LET found == IF cli.alive = {} THEN <<>> ELSE CHOOSE s \in [1..Cardinality(cli.alive) -> cli.alive] : \A v \in cli.alive : \E i \in DOMAIN s : s[i] = v
       IN cli' = IF found = <<>> THEN [cli EXCEPT !.at = "end", !.exit = 0] ELSE [cli EXCEPT !.ids = found, !.listed = cli.alive, !.at = askFirst]
\* Others act while the question is open.
othersAct == cli.about = "kill" /\ cli.at \in {"confirm", "kill"} /\ \E v \in Vms :
    cli' = [cli EXCEPT !.alive = IF v \in @ THEN @ \ {v} ELSE IF v \in cli.killed \cup cli.listed THEN @ ELSE @ \cup {v}]
QuestionsMax == 2
confirm ==
    /\ cli.about = "kill" /\ cli.at = "confirm" /\ cli.asks < QuestionsMax
    /\ \E answer \in {"yes", "no", "eof", "other"} :
         cli' = [cli EXCEPT !.asks = @ + 1, !.agreed = answer = "yes", !.at = IF answer = "yes" THEN "kill" ELSE IF answer = "other" THEN "confirm" ELSE "end",
                            !.exit = IF answer \in {"no", "eof"} THEN 1 ELSE @]
killOne ==
    /\ cli.about = "kill" /\ cli.at = "kill" /\ Len(cli.outcomes) < Len(cli.ids)
    /\ \E error \in BOOLEAN :
         LET v == cli.ids[Len(cli.outcomes) + 1]
         IN cli' = IF error THEN [cli EXCEPT !.at = "end", !.exit = 1]
                   ELSE [cli EXCEPT !.outcomes = Append(@, v \in cli.alive), !.alive = @ \ {v}, !.killed = IF v \in cli.alive THEN @ \cup {v} ELSE @]
everyFound(outcomes) == \A i \in DOMAIN outcomes : outcomes[i]
reportKills ==
    /\ cli.about = "kill" /\ cli.at = "kill" /\ Len(cli.outcomes) = Len(cli.ids)
    /\ cli' = [cli EXCEPT !.at = "end", !.exit = IF ~cli.all /\ ~everyFound(cli.outcomes) THEN 1 ELSE 0]

\* `sandbox logs`: the streams in order, until the limit.
remainingEvents(limit, taken) == limit - taken
collectFrom(streams, limit) ==
    LET one(s, got) == LET n == remainingEvents(limit, Len(got)) IN IF limit - Len(got) <= 0 THEN got ELSE got \o [i \in 1..(IF streams[s] < n THEN streams[s] ELSE n) |-> <<s, i>>]
    IN one(3, one(2, one(1, <<>>)))
collectEvents ==
    cli.about = "none" /\ \E streams \in [1..3 -> 0..2], limit \in 0..4 :
        cli' = [about |-> "logs", streams |-> streams, limit |-> limit, events |-> collectFrom(streams, limit)]

-----------------------------------------------------------------------------
(* The commands on one sandbox: create, create --detach, connect, exec and *)
(* metrics.  A token file is absent from the options, new, existing or     *)
(* empty; its content is what a later command reads.                       *)

RemoteCommands == {"create", "detach", "connect", "exec", "metrics"}
startRemote ==
    cli.about = "none" /\ \E cmd \in RemoteCommands, envToken, tty, stdin, pairs \in BOOLEAN, file \in {"none", "new", "existing", "empty"} :
        /\ (cmd \in {"exec", "metrics", "detach"} => ~tty /\ ~stdin) /\ (tty => stdin)
        /\ cli' = [about |-> "remote", cmd |-> cmd, at |-> "check", envToken |-> envToken, tty |-> tty, stdin |-> stdin, pairs |-> pairs, file |-> file,
                   content |-> IF file = "existing" THEN "old" ELSE "", token |-> "", built |-> 0, vm |-> IF cmd \in {"create", "detach"} THEN "none" ELSE "alive", conn |-> "none",
                   pty |-> "none", raw |-> FALSE, listeners |-> {}, typed |-> 0, sent |-> 0, delivered |-> <<>>, stopped |-> FALSE, outcome |-> "", aborted |-> FALSE, lateReads |-> 0, cut |-> "", exit |-> -1]
Remote(at) == cli.about = "remote" /\ cli.at = at
Finish(exit) == [cli EXCEPT !.at = "end", !.exit = exit]
readTokenFile(file) == IF file = "existing" THEN "old" ELSE IF file = "empty" THEN "" ELSE "unreadable"
resolveToken(file, envToken) == IF file # "none" THEN readTokenFile(file) ELSE IF envToken THEN "env" ELSE ""
tokenOrUsage == resolveToken(cli.file, cli.envToken) \notin {"", "unreadable"}
interactiveOrUsage == cli.cmd \in {"create", "connect"} => cli.stdin
pairsOrUsage == cli.cmd # "metrics" => cli.pairs
writeTokenFile(file) == file = "new"
detachNamesFile == cli.envToken \/ cli.file # "none"
\* launchToken: the token of the environment, or a fresh one; a detached sandbox leaves it in the file.
launchToken ==
    LET token == IF cli.envToken THEN "env" ELSE "fresh"
    IN IF cli.cmd = "create" \/ cli.file = "none" THEN IF cli.cmd = "create" \/ detachNamesFile THEN [cli EXCEPT !.token = token, !.at = "services"] ELSE Finish(UsageExit)
       ELSE IF writeTokenFile(cli.file) THEN [cli EXCEPT !.token = token, !.content = token, !.at = "services"] ELSE Finish(UsageExit)
checkRemote ==
    /\ Remote("check")
    /\ cli' = IF ~(interactiveOrUsage /\ pairsOrUsage) THEN Finish(UsageExit)
              ELSE IF cli.cmd \in {"create", "detach"} THEN launchToken
              ELSE IF tokenOrUsage THEN [cli EXCEPT !.token = resolveToken(cli.file, cli.envToken), !.at = "services"] ELSE Finish(UsageExit)
\* failures.ts: the exit code of an error a command lets through.
translateFailure(error) == IF error \in {"usage", "credentials"} THEN UsageExit ELSE 1
\* run.ts: the services are built by the first command that asks.
servicesOf(c) == IF c.built > 0 THEN c ELSE [c EXCEPT !.built = @ + 1]
buildServices ==
    /\ Remote("services")
    /\ \E ok \in BOOLEAN : cli' = LET c == servicesOf(cli) IN IF ok THEN [c EXCEPT !.at = "open"] ELSE [c EXCEPT !.at = "end", !.exit = translateFailure("credentials")]
\* create or connect; a sandbox may be gone when connect asks.
openSandbox ==
    /\ Remote("open")
    /\ \E ok \in BOOLEAN :
         cli' = IF ~ok THEN Finish(translateFailure("sdk"))
                ELSE [cli EXCEPT !.vm = "alive", !.conn = "open", !.at = CASE cli.cmd \in {"create", "connect"} -> "pty" [] cli.cmd = "exec" -> "exec" [] cli.cmd = "metrics" -> "read" [] OTHER -> "announce"]
announceDetached == Remote("announce") /\ cli' = [cli EXCEPT !.conn = "closed", !.at = "end", !.exit = 0]

\* The terminal: a PTY is opened, the local input attached to it.
AfterTerminal(c) == IF c.cmd = "create" THEN "kill" ELSE "close"
startInput(c) == [c EXCEPT !.raw = c.tty, !.listeners = {"data", IF c.tty THEN "resize" ELSE "end"}]
restoreTerminal(c) == [c EXCEPT !.listeners = {}, !.raw = FALSE]
openPty ==
    /\ Remote("pty")
    /\ \E ok \in BOOLEAN :
         cli' = IF ~ok THEN [cli EXCEPT !.at = AfterTerminal(cli), !.outcome = "error"]
                ELSE [startInput(cli) EXCEPT !.at = "terminal", !.listeners = @ \cup {"abort"}, !.pty = IF cli.aborted THEN "killed" ELSE "open"]
TypedMax == 3
\* onData (or onEnd): one more piece for the queue.
typeInput == Remote("terminal") /\ cli.typed < TypedMax /\ cli' = [cli EXCEPT !.typed = @ + 1]
stopSending(c) == [c EXCEPT !.stopped = TRUE]
Times(piece, n) == [i \in 1..n |-> piece]
\* One piece at a time; the queue outlives the terminal.  sendInput is a unary call: one
\* that is cut is sent again after the reconnection, and the shell may have read it the
\* first time.  One that fails in the end may have been read too.
deliver ==
    /\ cli.about = "remote" /\ cli.sent < cli.typed
    /\ \E ok \in BOOLEAN, read \in 0..2 :
         LET c == [cli EXCEPT !.sent = @ + 1, !.delivered = @ \o Times(cli.sent + 1, read)]
         IN IF cli.stopped THEN read = 0 /\ cli' = c ELSE (ok => read > 0) /\ cli' = IF ok THEN c ELSE stopSending(c)
\* exitCodeOf: the shell ends, the agent closes the PTY, or the stream breaks.
exitCodeOf(how) == CASE how = "zero" -> 0 [] how = "code" -> 7 [] how = "timeout" -> 124 [] OTHER -> 1
endTerminal ==
    /\ Remote("terminal")
    /\ \E how \in {"zero", "code", "timeout", "error"} :
         /\ cli.pty = "killed" => how # "zero"
         /\ cli' = LET c == restoreTerminal(cli) IN [c EXCEPT !.at = AfterTerminal(cli), !.outcome = how, !.listeners = @ \ {"abort"}, !.pty = "ended"]
Bug_killOnSuccess(c) == c.outcome = "zero"
killsSandbox(c) == TRUE
terminateAfterTerminal ==
    /\ Remote("kill")
    /\ \E ok \in BOOLEAN :
         cli' = IF killsSandbox(cli) THEN [cli EXCEPT !.at = "close", !.vm = IF ok THEN "gone" ELSE "killFailed", !.outcome = IF ok THEN @ ELSE "error"]
                ELSE [cli EXCEPT !.at = "close"]
closed(c) == "closed"
closeSandbox == Remote("close") /\ cli' = [cli EXCEPT !.conn = closed(cli), !.at = "end", !.exit = exitCodeOf(cli.outcome)]

\* `sandbox exec`: the remote command ends, times out or the stream breaks; --background only starts it.
runRemoteCommand == Remote("exec") /\ \E how \in {"zero", "code", "timeout", "error"} : cli' = [cli EXCEPT !.outcome = how, !.at = "close"]

\* `sandbox metrics`: samples until Ctrl-C or until the sandbox is gone.
readMetrics ==
    /\ Remote("read")
    /\ \E outcome \in {"sample", "error", "gone"}, follow \in BOOLEAN :
         cli' = IF outcome # "sample" THEN [servicesOf(cli) EXCEPT !.outcome = "error", !.at = "close"]
                ELSE IF ~follow \/ cli.aborted THEN [cli EXCEPT !.outcome = "zero", !.at = "close"] ELSE [cli EXCEPT !.at = "sleep"]
afterSleep(c) == IF c.aborted THEN "close" ELSE "read"
printMetrics ==
    /\ Remote("sleep")
    /\ cli' = [cli EXCEPT !.at = afterSleep(cli), !.outcome = "zero", !.lateReads = IF afterSleep(cli) = "read" /\ cli.aborted THEN @ + 1 ELSE @]

\* main.ts: Ctrl-C aborts, kills an open PTY, and after a grace ends the process whatever it does.
Interrupted == 130
interrupt ==
    /\ cli.about = "remote" /\ cli.at # "end" /\ ~cli.aborted
    /\ cli' = [cli EXCEPT !.aborted = TRUE, !.pty = IF cli.at = "terminal" THEN "killed" ELSE @]
forcedExit == cli.about = "remote" /\ cli.aborted /\ cli.at # "end" /\ cli' = [cli EXCEPT !.at = "end", !.exit = Interrupted, !.cut = "interrupt"]
\* closed-pipe.ts: whoever read the output left, and the next write ends the process with
\* no `finally`.  Any other error of the stream is uncaught, and ends it too.
exitOnClosedPipe ==
    /\ cli.about = "remote" /\ cli.at # "end"
    /\ cli' = [cli EXCEPT !.at = "end", !.exit = 1, !.cut = "pipe"]

-----------------------------------------------------------------------------
CliNext ==
    \/ startParse \/ scanGlobals \/ parseInvocation \/ chooseOption \/ chooseFlag \/ startArguments \/ argumentValues
    \/ startKill \/ refuseKill \/ listForKill \/ othersAct \/ confirm \/ killOne \/ reportKills \/ collectEvents
    \/ startRemote \/ checkRemote \/ buildServices \/ openSandbox \/ announceDetached \/ openPty \/ typeInput \/ deliver \/ endTerminal
    \/ terminateAfterTerminal \/ closeSandbox \/ runRemoteCommand \/ readMetrics \/ printMetrics \/ interrupt \/ forcedExit \/ exitOnClosedPipe

-----------------------------------------------------------------------------
(* Properties.                                                             *)

LeadingOptions(argv, n) == \A i \in 1..n : argv[i] \in {"--json", "--region=r"} \/ (argv[i] = "--region" /\ i < Len(argv)) \/ (i > 1 /\ argv[i - 1] = "--region")
\* A command runs only when the words after the root options are exactly its path (parseInvocation): nothing typed is ignored.
ParseDecides ==
    cli.about = "parse" /\ cli.result = "run" =>
        /\ cli.path \in TreeCommands \cup {Rooted} /\ cli.exit = 0
        /\ LET n == Len(cli.argv) - Len(cli.path) IN n >= 0 /\ SubSeq(cli.argv, n + 1, Len(cli.argv)) = cli.path /\ LeadingOptions(cli.argv, n)
\* Every known path runs its command when it is all that is typed (parseInvocation, with the root of a group giving way to a command below it),
\* and --version wins over --help when both lead.
PathReachable ==
    cli.about = "parse" /\ cli.at = "end" =>
        /\ cli.argv \in TreeCommands \cup {Rooted} => cli.result = "run" /\ cli.path = cli.argv
        /\ cli.argv \in {<<"--version", "--help">>, <<"--help", "--version">>} => cli.result = "version"
\* An option takes what was typed, then its variable, then its default, the last of several; a bad text that counts is never replaced by another (optionValue, flagValue).
OptionPrecedence ==
    /\ cli.about = "option" =>
         LET v == cli.value.is last == IF cli.raw # <<>> THEN cli.raw[Len(cli.raw)] ELSE cli.variable
         IN /\ ~cli.multiple /\ (cli.raw # <<>> \/ cli.variable # "unset") => v = IF last = "bad" THEN "usage" ELSE last
            /\ cli.multiple /\ cli.raw # <<>> => v = IF \E i \in DOMAIN cli.raw : cli.raw[i] = "bad" THEN "usage" ELSE cli.raw
            /\ cli.raw = <<>> /\ cli.variable = "unset" => v # "usage"
    /\ cli.about = "flag" => (cli.value = "true" => "yes" \in cli.given \/ cli.given = {}) /\ ("no" \in cli.given => cli.value = "false")
\* Every word of an accepted command line belongs to exactly one argument, and every required argument has one (argumentValues).
WordsAllPlaced ==
    cli.about = "arguments" /\ cli.result = "ok" =>
        LET total == IF cli.given = <<>> THEN 0 ELSE IF Len(cli.given) = 1 THEN cli.given[1] ELSE cli.given[1] + cli.given[2]
        IN total = cli.words /\ \A i \in DOMAIN cli.specs : cli.specs[i].required => cli.given[i] > 0
\* A kill ends only sandboxes named on the line, or listed and agreed to (killCommand, confirm), whatever appears or goes in between.
KillsOnlyAsked ==
    cli.about = "kill" =>
        \A v \in cli.killed : IF cli.all THEN v \in cli.listed /\ (cli.yes \/ cli.agreed) ELSE \E i \in DOMAIN cli.asked : cli.asked[i] = v
\* The exit code of a kill by id is 0 only when every id was found (killCommand, reportKills).
KillTells == cli.about = "kill" /\ cli.at = "end" /\ cli.exit = 0 /\ ~cli.all => \A i \in DOMAIN cli.asked : cli.asked[i] \in cli.killed
\* The logs shown are the first `limit` events of the streams in their order (collectEvents).
LogsWithinLimit ==
    cli.about = "logs" =>
        LET total == cli.streams[1] + cli.streams[2] + cli.streams[3] n == Len(cli.events)
        IN /\ n = IF total < cli.limit THEN total ELSE cli.limit
           /\ \A i, j \in 1..n : i < j => cli.events[i][1] < cli.events[j][1] \/ (cli.events[i][1] = cli.events[j][1] /\ cli.events[i][2] < cli.events[j][2])
RemoteEnded == cli.about = "remote" /\ cli.at = "end"
\* A `create` with a terminal has asked to end its sandbox however the terminal ended (terminateAfterTerminal); what escapes is a process that main.ts
\* ends at once: the grace after Ctrl-C ran out, or its output was closed.
NoTerminalSandboxLeft == RemoteEnded /\ cli.cmd = "create" /\ cli.cut = "" => cli.vm # "alive"
\* A detached sandbox can be reached later: its token is in the environment or in the file; and a file that existed keeps its content (launchToken, writeTokenFile).
DetachedIsReachable ==
    cli.about = "remote" =>
        /\ RemoteEnded /\ cli.cmd = "detach" /\ cli.vm = "alive" => cli.token = "env" \/ cli.content = cli.token
        /\ cli.file = "existing" => cli.content = "old"
\* Every opened connection is closed when the command ends by itself (the `finally` of each command).
ConnectionReleased == RemoteEnded /\ cli.cut = "" => cli.conn # "open"
\* The local terminal is back in its mode, with no listener left, however the remote one ended (startInput, runTerminal).
TerminalRestored == RemoteEnded /\ cli.cut = "" => ~cli.raw /\ cli.listeners = {}
\* What the shell received is what was typed, from its beginning and in order, each piece whole before the next and at most twice: nothing is
\* skipped and nothing comes after a failed piece.  Twice is a piece whose answer was cut (InputQueue, Pty.sendInput, callUnary).
InputInOrder ==
    cli.about = "remote" =>
        LET got == cli.delivered
            times(k) == Cardinality({i \in DOMAIN got : got[i] = k})
        IN /\ \A i \in DOMAIN got : got[i] = IF i = 1 THEN 1 ELSE IF got[i] = got[i - 1] THEN got[i - 1] ELSE got[i - 1] + 1
           /\ \A k \in 1..TypedMax : times(k) <= IF k <= cli.typed THEN 2 ELSE 0
\* No sample is asked for after Ctrl-C (printMetrics).
NoReadAfterAbort == cli.about = "remote" => cli.lateReads = 0

-----------------------------------------------------------------------------
(***************************************************************************)
(* `rayito doctor` (cli/doctor/*.ts): ten checks in order over a shared    *)
(* context, each of them reading what earlier ones found; with --launch a  *)
(* sandbox is created for the last ones and killed at the end.             *)
(***************************************************************************)

DoctorInit == doctor = [about |-> "none"]
CheckOrder == <<"credentials", "managed", "quotas", "iam", "bucket", "gate", "sandboxes", "token", "agent", "compatibility">>
RunningLimit == 1                       \* MAX_RUNNING_BEFORE_FAIL

\* --launch, and --template with or without what the checks need.
startDoctor ==
    doctor.about = "none" /\ \E launch, efs, bucket \in BOOLEAN :
        doctor' = [about |-> "doctor", at |-> "checks", next |-> 1, launch |-> launch, efs |-> efs, bucket |-> bucket, results |-> [seen |-> {}, last |-> "", token |-> "", compatibility |-> ""], identity |-> "", arn |-> FALSE,
                   target |-> "", launched |-> "", token |-> "", health |-> "", probed |-> "", created |-> 0, warned |-> FALSE, failed |-> FALSE, exit |-> -1]
OnCheck(name) == doctor.about = "doctor" /\ doctor.at = "checks" /\ doctor.next <= Len(CheckOrder) /\ CheckOrder[doctor.next] = name /\ (name = "token" => ~doctor.efs)
\* runCheck: whatever a check does, it leaves one result and the next one runs.
KeptResult(results, name, status) == [seen |-> results.seen \cup {status}, last |-> status, token |-> IF name = "token" THEN status ELSE results.token, compatibility |-> IF name = "compatibility" THEN status ELSE results.compatibility]
Reported(d, name, status) == [d EXCEPT !.results = KeptResult(@, name, status), !.next = @ + 1, !.failed = @ \/ status = "FAIL"]
deniedStatus(name) == IF name \in {"quotas", "iam"} THEN "SKIP" ELSE "FAIL"
\* failureOf: a denied call or a missing peer is what the check says; any other error is a failure.
failureOf(name, error) == IF error \in {"denied", "missingPeer"} THEN deniedStatus(name) ELSE "FAIL"
CheckErrors == {"denied", "missingPeer", "aws", "other"}
FailsCheck(d, name) == \E error \in CheckErrors : doctor' = Reported(d, name, failureOf(name, error))

principalKind(arn) == IF arn \in {"user", "assumed-role", "root", "federated-user"} THEN arn ELSE "other"
checkCredentials ==
    /\ OnCheck("credentials")
    /\ \/ FailsCheck(doctor, "credentials")
       \/ \E arn \in {"user", "assumed-role", "root", "service"}, supported \in BOOLEAN :
            doctor' = Reported([doctor EXCEPT !.identity = principalKind(arn)], "credentials", IF supported THEN "OK" ELSE "WARN")
checkManagedImages == OnCheck("managed") /\ (FailsCheck(doctor, "managed") \/ \E listed \in BOOLEAN : doctor' = Reported(doctor, "managed", IF listed THEN "OK" ELSE "WARN"))
checkQuotas == OnCheck("quotas") /\ (FailsCheck(doctor, "quotas") \/ \E below, missing \in BOOLEAN : doctor' = Reported(doctor, "quotas", IF below \/ missing THEN "WARN" ELSE "OK"))
\* Nothing to simulate for a principal that is neither a user nor a role.
policySourceArn(kind) == kind \in {"user", "assumed-role"}
checkIamSimulation ==
    /\ OnCheck("iam")
    /\ IF ~policySourceArn(doctor.identity) THEN doctor' = Reported(doctor, "iam", "SKIP")
       ELSE \/ FailsCheck(doctor, "iam")
            \/ \E decisions \in SUBSET {"allowed", "explicitDeny", "implicitDeny", "scp"} :
                 doctor' = Reported(doctor, "iam", IF decisions \cap {"explicitDeny", "scp"} # {} THEN "FAIL" ELSE IF "implicitDeny" \in decisions THEN "WARN" ELSE "OK")
checkBucket ==
    /\ OnCheck("bucket")
    /\ IF ~doctor.bucket THEN doctor' = Reported(doctor, "bucket", "SKIP")
       ELSE \/ FailsCheck(doctor, "bucket")
            \/ \E region \in {"same", "other", "unknown"} : doctor' = Reported(doctor, "bucket", IF region = "same" THEN "OK" ELSE "WARN")
\* The ARN is kept even when the image turns out not to exist.
checkImageGate ==
    /\ OnCheck("gate")
    /\ \/ \E resolved \in BOOLEAN : FailsCheck([doctor EXCEPT !.arn = resolved], "gate")
       \/ \E image \in {"absent", "noVersion", "broken", "launchable"}, failedListed \in BOOLEAN :
            doctor' = Reported([doctor EXCEPT !.arn = TRUE], "gate", IF image # "launchable" THEN "FAIL" ELSE IF failedListed THEN "WARN" ELSE "OK")
\* The newest running sandbox becomes the target; reading it may fail.
checkSandboxes ==
    /\ OnCheck("sandboxes")
    /\ \/ FailsCheck([doctor EXCEPT !.arn = TRUE], "sandboxes")
       \/ \E running \in 0..(RunningLimit + 1) :
            doctor' = Reported([doctor EXCEPT !.arn = TRUE, !.target = IF running > 0 THEN "running" ELSE ""], "sandboxes",
                               IF running > RunningLimit THEN "FAIL" ELSE IF running > 0 THEN "WARN" ELSE "OK")
checkEfsNetwork ==
    /\ doctor.about = "doctor" /\ doctor.at = "checks" /\ doctor.efs /\ doctor.next = 8
    /\ \E status \in {"OK", "WARN", "FAIL"} : doctor' = [doctor EXCEPT !.results = KeptResult(@, "efs", status), !.failed = @ \/ status = "FAIL", !.efs = FALSE]
launches == doctor.launch
checkToken ==
    /\ OnCheck("token")
    /\ IF launches THEN \/ FailsCheck(doctor, "token")
                        \/ doctor' = Reported([doctor EXCEPT !.launched = "launched", !.target = "launched", !.created = @ + 1], "token", "OK")
       ELSE IF doctor.target = "" THEN doctor' = Reported(doctor, "token", "SKIP")
       ELSE FailsCheck(doctor, "token") \/ doctor' = Reported([doctor EXCEPT !.token = doctor.target], "token", "OK")
\* readHealth: the launched sandbox, or the target when its token was minted.
readHealth == IF doctor.launched # "" THEN doctor.launched ELSE IF doctor.target = "" \/ doctor.token = "" THEN "" ELSE doctor.target
agentWarnings(kernel, anomalies, imds) == ~kernel \/ anomalies \/ ~imds
checkAgent ==
    /\ OnCheck("agent")
    /\ IF readHealth = "" THEN doctor' = Reported(doctor, "agent", "SKIP")
       ELSE \/ FailsCheck([doctor EXCEPT !.probed = readHealth], "agent")
            \/ \E ready, kernel, anomalies, imds \in BOOLEAN :
                 doctor' = Reported([doctor EXCEPT !.probed = readHealth, !.health = readHealth], "agent", IF ~ready THEN "FAIL" ELSE IF agentWarnings(kernel, anomalies, imds) THEN "WARN" ELSE "OK")
checkCompatibility ==
    /\ OnCheck("compatibility")
    /\ IF doctor.health = "" THEN doctor' = Reported(doctor, "compatibility", "SKIP")
       ELSE \E status \in {"OK", "WARN", "FAIL"} : doctor' = Reported(doctor, "compatibility", status)
\* killLaunched: in the `finally`; a kill that fails is a warning.
killLaunched(d, ok) == IF d.launched = "" THEN d ELSE IF ok THEN [d EXCEPT !.launched = "killed"] ELSE [d EXCEPT !.warned = TRUE]
exitCodeFor(results) == IF "FAIL" \in results.seen THEN 1 ELSE 0
runDoctor ==
    /\ doctor.about = "doctor" /\ doctor.at = "checks" /\ doctor.next > Len(CheckOrder)
    /\ \E ok \in BOOLEAN : doctor' = [killLaunched(doctor, ok) EXCEPT !.at = "end", !.exit = exitCodeFor(doctor.results)]

-----------------------------------------------------------------------------
(* compat.ts: versions <<major, minor, patch>>, and the rows of the table. *)

Versions == {<<a, b, c>> : a \in 0..1, b \in {0, 1, 2, 16, 17, 18, 19}, c \in 0..1}
\* A row per series of the SDK from 0.1 to 0.18; each asks for the agent of its own series, except 0.18.
CompatibilityRows == [s \in {<<0, n>> : n \in 1..18} |-> IF s[2] = 18 THEN <<0, 17, 0>> ELSE <<0, s[2], 0>>]
seriesOf(v) == <<v[1], v[2]>>
isBefore(l, r) == \E i \in 1..3 : l[i] < r[i] /\ \A j \in 1..(i - 1) : l[j] = r[j]
isNewerSeries(l, r) == IF l[1] # r[1] THEN l[1] > r[1] ELSE l[2] > r[2]
assess(sdk, agent) ==
    IF seriesOf(sdk) \notin DOMAIN CompatibilityRows THEN "FAIL"
    ELSE IF isBefore(agent, CompatibilityRows[seriesOf(sdk)]) THEN "FAIL"
    ELSE IF isNewerSeries(agent, sdk) THEN "WARN" ELSE "OK"
chooseVersions == doctor.about = "none" /\ \E sdk, agent \in Versions : doctor' = [about |-> "compat", sdk |-> sdk, agent |-> agent, status |-> assess(sdk, agent)]

\* withPreminted: the control plane of a probe hands out the token of check 8 first, and mints afterwards.
startProbe == doctor.about = "none" /\ \E token \in {"preminted", ""} : doctor' = [about |-> "probe", first |-> token, pending |-> token, handed |-> <<>>, minted |-> 0]
pendingAfter(d) == ""
withPreminted ==
    /\ doctor.about = "probe" /\ Len(doctor.handed) < 3
    /\ doctor' = IF doctor.pending # "" THEN [doctor EXCEPT !.handed = Append(@, doctor.pending), !.pending = pendingAfter(doctor)]
                 ELSE [doctor EXCEPT !.handed = Append(@, "minted"), !.minted = @ + 1]

-----------------------------------------------------------------------------
DoctorNext ==
    \/ startDoctor \/ checkCredentials \/ checkManagedImages \/ checkQuotas \/ checkIamSimulation \/ checkBucket \/ checkImageGate \/ checkSandboxes
    \/ checkEfsNetwork \/ checkToken \/ checkAgent \/ checkCompatibility \/ runDoctor \/ chooseVersions \/ startProbe \/ withPreminted

-----------------------------------------------------------------------------
(* Properties.                                                             *)

DoctorDone == doctor.about = "doctor" /\ doctor.at = "end"
\* A sandbox created by --launch is killed when the command ends, or the user is told that it was not (runDoctor, killLaunched); without --launch none is created.
EphemeralKilled ==
    doctor.about = "doctor" =>
        /\ DoctorDone /\ doctor.created > 0 => doctor.launched = "killed" \/ doctor.warned
        /\ ~doctor.launch => doctor.created = 0
\* The report fails exactly when a check failed, wherever it is in the order (exitCodeFor).
ExitReportsFailure == DoctorDone => ((doctor.exit = 1) <=> doctor.failed)
\* With --launch the agent that is judged is the launched one, never another running sandbox, and it is judged only with a token (checkToken, readHealth).
JudgesOwnSandbox ==
    DoctorDone =>
        /\ doctor.results.compatibility # "SKIP" => doctor.results.token = "OK"
        /\ doctor.launch => doctor.probed # "running"
VersionNumber(v) == 10000 * v[1] + 100 * v[2] + v[3]
\* The agent is accepted exactly from the minimum of the SDK's series on, in the order of version numbers, and an agent of a newer series is never plain OK (assess).
AssessFollowsOrder ==
    doctor.about = "compat" =>
        LET known == seriesOf(doctor.sdk) \in DOMAIN CompatibilityRows
        IN /\ (doctor.status = "FAIL") <=> ~known \/ VersionNumber(doctor.agent) < VersionNumber(CompatibilityRows[seriesOf(doctor.sdk)])
           /\ doctor.status = "OK" => 100 * doctor.agent[1] + doctor.agent[2] <= 100 * doctor.sdk[1] + doctor.sdk[2]
\* The token of the token check is used for one connection; a second one is minted anew (withPreminted).
PremintedOnce == doctor.about = "probe" => Cardinality({i \in DOMAIN doctor.handed : doctor.handed[i] = "preminted"}) <= 1 /\ doctor.minted + (IF doctor.first = "" \/ doctor.handed = <<>> THEN 0 ELSE 1) = Len(doctor.handed)

=============================================================================
