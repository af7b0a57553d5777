---------------------------- MODULE WorkspaceCalls ----------------------------
(***************************************************************************)
(* What a caller does with the files of a sandbox: the Filesystem class    *)
(* and the git operations.                                                 *)
(***************************************************************************)
EXTENDS Integers, Sequences, SequencesExt, FiniteSets, Functions

VARIABLES files, git

(***************************************************************************)
(* The Filesystem class of the SDK (sandbox/filesystem.ts): the messages a *)
(* write becomes and the files the agent makes of them, the calls that     *)
(* answer from an error (exists, makeDir), the stream behind a read, and   *)
(* the events and the failure a watch keeps for its reader.  The agent is  *)
(* external.                                                               *)
(***************************************************************************)

WriteChunk == 2                         \* WRITE_CHUNK_BYTES
MaxLength == 4                          \* bound on the bytes of a file
FilePaths == {"a", "b"}
MaxWatchEvents == 3                     \* bound on the events of a watch
MaxCalls == 3                           \* bound on the calls made
ReadChunks == <<1, 2, 3>>               \* what a read streams

NewWatch == [pending |-> <<>>, failure |-> "none", stopped |-> FALSE, ended |-> FALSE,
             fed |-> 0, drained |-> <<>>, thrown |-> 0]
NewRead == [at |-> "none", left |-> ReadChunks, got |-> <<>>, aborted |-> FALSE]

Nothing == [call |-> "none", answer |-> "none", before |-> "missing", after |-> "missing"]

FilesInit ==
    files = [task |-> "none", entries |-> <<>>, sent |-> <<>>, metadata |-> {}, accepted |-> {},
             disk |-> [p \in FilePaths |-> "missing"], told |-> Nothing, calls |-> 0,
             watch |-> NewWatch, read |-> NewRead]

-----------------------------------------------------------------------------
(* Writing.                                                                *)

\* A file's bytes are its positions: subarray and the agent's appends keep them.
Content(n) == [i \in 1..n |-> i]
Slice(data, from, to) == SubSeq(data, from + 1, IF to < Len(data) THEN to ELSE Len(data))

\* buildWriteRequests: the first message of a file has its path, mode, user and
\* metadata, the others only their chunk.  A file of no bytes is one message.
buildWriteRequests(entry) ==
    LET data == Content(entry.size)
        later == {k \in 1..MaxLength : k * WriteChunk < Len(data)}
    IN <<[path |-> entry.path, chunk |-> Slice(data, 0, WriteChunk)]>>
       \o [k \in 1..Cardinality(later) |-> [path |-> "", chunk |-> Slice(data, k * WriteChunk, (k + 1) * WriteChunk)]]

\* The agent: a message with a path opens that file, truncated; one without appends.
AgentTakes(made, m) ==
    IF m.path # "" THEN Append(made, [path |-> m.path, data |-> m.chunk])
    ELSE [made EXCEPT ![Len(made)].data = @ \o m.chunk]
AgentMakes(messages) == FoldLeft(AgentTakes, <<>>, messages)

\* validateMetadata: keys are lowered, and two that then agree are refused.  A key is a
\* letter and its case.
MetadataKeys == {"x", "y"} \X {"upper", "lower"}
validateMetadata(keys) ==
    IF \E j, k \in keys : j # k /\ j[1] = k[1] THEN [ok |-> FALSE, keys |-> {}]
    ELSE [ok |-> TRUE, keys |-> {k[1] : k \in keys}]

\* writeFiles through gRPC: every source is validated and brought into memory before
\* the first message is sent.
writeGrpc ==
    /\ files.task = "none"
    /\ \E n \in 1..2 : \E entries \in [1..n -> [path : FilePaths, size : 0..MaxLength]],
          keys \in SUBSET MetadataKeys :
          LET m == validateMetadata(keys)
          IN files' = [files EXCEPT !.task = "write", !.entries = entries, !.metadata = keys, !.accepted = m.keys,
                         !.sent = IF m.ok THEN FlattenSeq([i \in 1..n |-> buildWriteRequests(entries[i])]) ELSE <<>>]

-----------------------------------------------------------------------------
(* The calls that answer with what an error says.                          *)

Answers == {"unavailable", "permission"} \* the failures that say nothing of the path

\* The agent's answer to Stat and MakeDir of a path it finds so, when it answers.
statAnswer(found) == IF found = "missing" THEN "not_found" ELSE "ok"
makeDirAnswer(found) == IF found = "missing" THEN "ok" ELSE "already_exists"

existsOf(code) == CASE code = "ok" -> "yes" [] code = "not_found" -> "no" [] OTHER -> "throws"
makeDirOf(code) == CASE code = "ok" -> "yes" [] code = "already_exists" -> "no" [] OTHER -> "throws"

Calling(p) == files.task \in {"none", "calls"} /\ files.calls < MaxCalls /\ p \in FilePaths
Reply(call, answer, before, after) == [call |-> call, answer |-> answer, before |-> before, after |-> after]
exists ==
    \E p \in FilePaths : \E code \in Answers \cup {statAnswer(files.disk[p])} :
       /\ Calling(p)
       /\ files' = [files EXCEPT !.task = "calls", !.calls = @ + 1,
                       !.told = Reply("exists", existsOf(code), files.disk[p], files.disk[p])]
\* callUnary: a call that is cut, which the agent may have carried out, is sent once
\* more after the reconnection.  The second one may fail too, carried out or not.
makeDir ==
    \E p \in FilePaths, first \in {"answered", "cut", "cutAfter"}, took \in BOOLEAN :
    LET before == files.disk[p]
        found == IF first = "cutAfter" THEN "dir" ELSE before
    IN \E code \in Answers \cup {makeDirAnswer(found)} :
       LET after == IF code = "ok" \/ (code = "unavailable" /\ took) THEN "dir" ELSE found
       IN /\ Calling(p)
          /\ files' = [files EXCEPT !.task = "calls", !.calls = @ + 1, !.disk[p] = after,
                          !.told = Reply("makeDir", makeDirOf(code), before, after)]
\* A removal or a move that fails without effect is no step here; one that is sent again
\* after it took effect changes nothing more, whatever the caller is told.
remove ==
    \E p \in FilePaths :
       /\ Calling(p) /\ files.disk[p] # "missing"
       /\ files' = [files EXCEPT !.task = "calls", !.calls = @ + 1, !.told = Nothing, !.disk[p] = "missing"]
rename ==
    \E p, q \in FilePaths :
       /\ Calling(p) /\ p # q /\ files.disk[p] # "missing"
       /\ files' = [files EXCEPT !.task = "calls", !.calls = @ + 1, !.told = Nothing,
                       !.disk[q] = files.disk[p], !.disk[p] = "missing"]

-----------------------------------------------------------------------------
(* The stream behind a read: the first chunk came with the opening.        *)

openRead ==
    /\ files.task = "none"
    /\ files' = [files EXCEPT !.task = "read", !.read.at = "open"]
pullChunk ==
    /\ files.read.at = "open" /\ files.read.left # <<>>
    /\ files' = [files EXCEPT !.read.got = Append(@, Head(files.read.left)), !.read.left = Tail(@)]
\* The end of the stream, and its failures: an error, or nothing for the idle time.
leaveRead(at) == [files EXCEPT !.read.at = at, !.read.aborted = TRUE]
pullEnds == files.read.at = "open" /\ files.read.left = <<>> /\ files' = leaveRead("closed")
pullFails == files.read.at = "open" /\ files' = leaveRead("failed")
cancelRead == files.read.at = "open" /\ files' = leaveRead("cancelled")

-----------------------------------------------------------------------------
(* A watch without onEvent: its events wait for getNewEvents.              *)

W == files.watch
feedEvent ==
    /\ files.task \in {"none", "watch"} /\ ~W.ended /\ W.fed < MaxWatchEvents
    /\ files' = [files EXCEPT !.task = "watch", !.watch.fed = @ + 1, !.watch.pending = Append(@, W.fed + 1)]
recordEnd ==
    /\ files.task = "watch" /\ ~W.ended
    /\ \E f \in {"none", "pending"} :
          /\ W.stopped => f = "none"
          /\ files' = [files EXCEPT !.watch.ended = TRUE, !.watch.failure = f]
stopWatch ==
    /\ files.task = "watch" /\ ~W.stopped
    /\ files' = [files EXCEPT !.watch.stopped = TRUE]

\* drain: the failure is thrown once, and only when no event waits.
drain(w) ==
    IF w.pending = <<>> /\ w.failure = "pending" THEN [w EXCEPT !.failure = "told", !.thrown = @ + 1]
    ELSE [w EXCEPT !.drained = @ \o w.pending, !.pending = <<>>]
getNewEvents == files.task = "watch" /\ files' = [files EXCEPT !.watch = drain(W)]

FilesNext == \/ writeGrpc \/ exists \/ makeDir \/ remove \/ rename
             \/ openRead \/ pullChunk \/ pullEnds \/ pullFails \/ cancelRead
             \/ feedEvent \/ recordEnd \/ stopWatch \/ getNewEvents

-----------------------------------------------------------------------------

\* What the agent makes of the messages of a write is the files that were given, one
\* after the other, the empty ones and those of a whole number of chunks included
\* (buildWriteRequests).
AgentRebuildsWrites ==
    files.sent # <<>> => AgentMakes(files.sent) =
        [i \in DOMAIN files.entries |-> [path |-> files.entries[i].path, data |-> Content(files.entries[i].size)]]

\* A write that is sent carries every metadata key it was given (validateMetadata).
NoMetadataLost == files.sent # <<>> => Cardinality(files.accepted) = Cardinality(files.metadata)

\* exists answers yes or no only when that is true, and makeDir answers yes only when
\* this call made the directory; its no says that the directory is there, made perhaps
\* by this very call, whose answer was cut and which was sent again.  An error that says
\* nothing of the path is thrown, and answers neither (filesystem.ts exists, makeDir).
AnswersAreTrue ==
    LET t == files.told
    IN /\ t.call = "exists" /\ t.answer \in {"yes", "no"} => (t.answer = "yes" <=> t.before # "missing")
       /\ t.call = "makeDir" /\ t.answer = "yes" => t.before = "missing" /\ t.after = "dir"
       /\ t.call = "makeDir" /\ t.answer = "no" => t.after # "missing"

\* A read that closes has given all chunks in order, and however it ends the call is
\* aborted, so the agent does not keep it.
ReadsWholeAndLetsGo ==
    /\ files.read.at = "closed" => files.read.got = ReadChunks
    /\ files.read.at \in {"closed", "failed", "cancelled"} => files.read.aborted

\* The reader of a watch gets every event, in order, before its failure, and the
\* failure once (WatchState.drain).
FailureAfterEvents ==
    /\ W.drained \o W.pending = [i \in 1..W.fed |-> i]
    /\ W.thrown <= 1
    /\ W.thrown = 1 => Len(W.drained) = W.fed

-----------------------------------------------------------------------------
(***************************************************************************)
(* clone, push and pull in a sandbox (sandbox/git.ts, git-args.ts).  Each  *)
(* is several commands; any may exit with an error, or be lost after it    *)
(* ran or before.  With a password, the URL of the remote holds it for as  *)
(* long as the operation takes.                                            *)
(***************************************************************************)

GitInit == git = [phase |-> "none"]

-----------------------------------------------------------------------------
(* Plans and parsers (git-args.ts).                                        *)

withCredentials(url) == IF url.scheme = "http" THEN [url EXCEPT !.user = "asked"] ELSE [scheme |-> "invalid", user |-> "none"]
stripCredentials(url) == IF url.scheme = "http" THEN [url EXCEPT !.user = "none"] ELSE url
hasPassword(o) == o.username /\ o.password
buildClonePlan(o) ==
    LET cloneUrl == IF hasPassword(o) THEN withCredentials(o.url) ELSE o.url
        strip == ~o.store /\ stripCredentials(cloneUrl) # cloneUrl
    IN [url |-> cloneUrl, strip |-> strip, credentialed |-> cloneUrl # o.url,
        code |-> IF (o.password /\ ~o.username) \/ cloneUrl.scheme = "invalid" \/ (strip /\ ~o.path /\ ~o.named) THEN "invalid" ELSE ""]
resolveRemoteName(o, remotes) ==
    IF o.remote # "" THEN o.remote ELSE IF Cardinality(remotes) = 1 THEN CHOOSE r \in remotes : TRUE
    ELSE IF "origin" \in remotes THEN "origin" ELSE "ambiguous"
resolveRestoreTargets(staged, worktree) ==
    LET w == IF worktree # "unset" THEN worktree ELSE IF staged = "yes" THEN "no" ELSE IF staged = "unset" THEN "yes" ELSE "unset"
    IN IF staged # "yes" /\ w # "yes" THEN {} ELSE (IF staged = "yes" THEN {"staged"} ELSE {}) \cup (IF w = "yes" THEN {"worktree"} ELSE {})
ConflictCodes == {<<"D", "D">>, <<"A", "U">>, <<"U", "D">>, <<"U", "A">>, <<"D", "U">>, <<"A", "A">>, <<"U", "U">>}
Labels == <<<<"R", "renamed">>, <<"C", "copied">>, <<"D", "deleted">>, <<"A", "added">>, <<"M", "modified">>, <<"T", "typechange">>, <<"?", "untracked">>>>
FirstLabel(codes) ==
    LET hit == {i \in DOMAIN Labels : Labels[i][1] \in codes}
    IN IF hit = {} THEN "unknown" ELSE Labels[CHOOSE i \in hit : \A j \in hit : i <= j][2]
deriveStatus(x, y) == IF <<x, y>> \in ConflictCodes \/ "U" \in {x, y} THEN "conflict" ELSE FirstLabel({x, y})
parseFileLine(x, y) == [status |-> deriveStatus(x, y), staged |-> x \notin {" ", "?"}]
parseGitStatus(lines) ==
    LET rows == [i \in DOMAIN lines |-> parseFileLine(lines[i][1], lines[i][2])]
        count(P(_)) == Cardinality({i \in DOMAIN rows : P(rows[i])})
    IN [files |-> rows, staged |-> count(LAMBDA f : f.staged), unstaged |-> Len(rows) - count(LAMBDA f : f.staged),
        conflicts |-> count(LAMBDA f : f.status = "conflict"), clean |-> Len(rows) = 0]
Unmerged == ConflictCodes
Changed == ({<<x, y>> : x \in {" ", "M", "A", "R"}, y \in {" ", "M", "D"}} \ {<<" ", " ">>}) \cup {<<"D", " ">>, <<"?", "?">>}
status ==
    git.phase = "none" /\ \E n \in 0..2 : \E lines \in [1..n -> Unmerged \cup Changed] :
        git' = [phase |-> "status", lines |-> lines, got |-> parseGitStatus(lines)]
restore ==
    git.phase = "none" /\ \E staged, worktree \in {"unset", "yes", "no"} :
        git' = [phase |-> "targets", staged |-> staged, worktree |-> worktree, got |-> resolveRestoreTargets(staged, worktree)]

-----------------------------------------------------------------------------
(* Failures: what stderr holds decides the error (gitFailure).             *)

isAuthFailure(text) == "auth" \in text
isMissingUpstream(text) == "upstream" \in text
redact(text) == text \ {"password", "encoded"}
gitFailure(text, action, o) ==
    IF text = {"lost"} THEN [code |-> "transport", text |-> {}]
    ELSE IF action # "" /\ isAuthFailure(text) THEN [code |-> "GitAuthError", text |-> {}]
    ELSE IF action \in {"push", "pull"} /\ isMissingUpstream(text) THEN [code |-> "GitUpstreamError", text |-> {}]
    ELSE [code |-> "CommandExitError", text |-> IF o.password THEN redact(text) ELSE text]
NoError == [code |-> "", text |-> {}]
Refused(code) == [code |-> code, text |-> {}]
\* What a command may leave on stderr; only one that has the password can show it.
Texts(secret) == {{}, {"auth"}, {"upstream"}} \cup IF secret THEN {{"password", "encoded"}} ELSE {}

-----------------------------------------------------------------------------
(* The operations.  One command at a time: `done` tells whether it had its *)
(* effect, which a lost answer does not tell.                              *)

Urls == {[scheme |-> "http", user |-> "none"], [scheme |-> "http", user |-> "embedded"], [scheme |-> "ssh", user |-> "none"]}
startGit ==
    git.phase = "none" /\ \E verb \in {"clone", "push", "pull"}, username, password, store \in BOOLEAN, url \in Urls, rewrites \in BOOLEAN,
        path \in BOOLEAN, remotes \in {{"origin"}, {"a", "b"}}, tracked \in BOOLEAN :
        /\ (verb # "clone" => ~store /\ url.user = "none" /\ path) /\ (verb = "clone" => remotes = {"origin"} /\ tracked)
        /\ git' = [phase |-> "plan", verb |-> verb, rewrites |-> rewrites, remotes |-> remotes, tracked |-> tracked,
                   o |-> [username |-> username, password |-> password, store |-> store, url |-> url, path |-> path, named |-> TRUE, remote |-> "", setUpstream |-> TRUE],
                   repo |-> IF verb = "clone" THEN [scheme |-> "none", user |-> "none"] ELSE url, original |-> url, strip |-> FALSE,
                   pending |-> NoError, error |-> NoError, warned |-> FALSE, exposed |-> FALSE]
Fail(e) == [git EXCEPT !.phase = "done", !.error = e]
Lost == {"lost"}
\* requireUsernameForPassword, the clone plan, and for push and pull the remote.
planGit ==
    /\ git.phase = "plan"
    /\ LET p == buildClonePlan(git.o)
           no == IF git.o.password /\ ~git.o.username THEN "InvalidArgumentError"
                 ELSE IF git.verb = "clone" THEN (IF p.code # "" THEN "InvalidArgumentError" ELSE "")
                 ELSE IF git.verb = "pull" /\ ~git.tracked THEN "GitUpstreamError"
                 ELSE IF hasPassword(git.o) /\ resolveRemoteName(git.o, git.remotes) = "ambiguous" THEN "InvalidArgumentError" ELSE ""
       IN git' = IF no # "" THEN Fail(Refused(no))
                 ELSE [git EXCEPT !.phase = IF (git.verb = "clone" /\ p.credentialed) \/ (git.verb # "clone" /\ hasPassword(git.o)) THEN "check" ELSE "run",
                                  !.strip = git.verb = "clone" /\ p.strip]
refuseUrlRewrites ==
    /\ git.phase = "check"
    /\ \/ git' = IF git.rewrites THEN Fail(Refused("GitAuthError")) ELSE [git EXCEPT !.phase = IF git.verb = "clone" THEN "run" ELSE "read"]
       \/ git' = Fail(gitFailure(Lost, "", git.o))
remoteUrl ==
    /\ git.phase = "read"
    /\ \/ git' = IF git.repo.scheme # "http" THEN Fail(Refused("InvalidArgumentError")) ELSE [git EXCEPT !.phase = "set", !.original = git.repo]
       \/ git' = Fail(gitFailure(Lost, "", git.o))
setRemote ==
    /\ git.phase = "set"
    /\ \/ git' = [git EXCEPT !.phase = "run", !.repo = withCredentials(git.original), !.exposed = TRUE]
       \/ \E took \in BOOLEAN : git' = [git EXCEPT !.phase = "restore", !.pending = gitFailure(Lost, git.verb, git.o),
                                                   !.repo = IF took THEN withCredentials(git.original) ELSE @, !.exposed = took]
       \/ \E t \in Texts(TRUE) : git' = [git EXCEPT !.phase = "restore", !.pending = gitFailure(t, git.verb, git.o)]
cleanUp == IF git.verb = "clone" THEN git.strip ELSE hasPassword(git.o)
runGit ==
    /\ git.phase = "run"
    /\ LET url == IF git.verb = "clone" THEN buildClonePlan(git.o).url ELSE git.repo
           after == IF cleanUp THEN "restore" ELSE "done"
       IN \/ git' = [git EXCEPT !.phase = after, !.repo = url, !.exposed = @ \/ url.user = "asked"]
          \/ \E took \in BOOLEAN :
               LET e == gitFailure(Lost, git.verb, git.o)
               IN git' = [git EXCEPT !.phase = after, !.repo = IF took THEN url ELSE @, !.exposed = @ \/ (took /\ url.user = "asked"),
                                     !.pending = e, !.error = IF after = "done" THEN e ELSE @]
          \* A clone that exits with an error removes what it made.
          \/ \E t \in Texts(git.o.password) :
               LET e == gitFailure(t, git.verb, git.o)
               IN git' = IF git.verb = "clone" \/ ~cleanUp THEN Fail(e) ELSE [git EXCEPT !.phase = "restore", !.pending = e]
Clean == IF git.verb = "clone" THEN stripCredentials(buildClonePlan(git.o).url) ELSE git.original
outcome(failed) == IF git.pending # NoError THEN git.pending ELSE failed
restoreRemote ==
    /\ git.phase = "restore"
    /\ \/ git' = [Fail(outcome(NoError)) EXCEPT !.repo = IF git.repo.scheme = "none" THEN @ ELSE Clean]
       \/ \E took \in BOOLEAN : git' = [Fail(outcome(gitFailure(Lost, git.verb, git.o))) EXCEPT !.warned = TRUE, !.repo = IF took /\ @.scheme # "none" THEN Clean ELSE @]
       \/ \E t \in Texts(git.o.password) : git' = [Fail(outcome(gitFailure(t, git.verb, git.o))) EXCEPT !.warned = TRUE]

GitNext == status \/ restore \/ startGit \/ planGit \/ refuseUrlRewrites \/ remoteUrl \/ setRemote \/ runGit \/ restoreRemote

-----------------------------------------------------------------------------

GitEnded == git.phase = "done"

\* Whatever fails or gets lost, the password is not in the configuration of the
\* repository when the operation ends, unless the caller asked to store it or the
\* warning says that it may have remained (#withRemoteCredentials, clone).
PasswordNotLeft == GitEnded /\ git.repo.user = "asked" => git.o.store \/ git.warned

\* An operation that fails or succeeds leaves the remote of the repository as it was.
RemotePutBack == GitEnded /\ git.verb # "clone" /\ ~git.warned => git.repo = git.original

\* The password never reaches a repository whose configuration rewrites URLs.
NoPasswordUnderRewrite == git.phase \notin {"none", "status", "targets"} /\ git.rewrites => ~git.exposed

\* A success means that the operation and the clean-up both succeeded, and of two
\* failures the one of the operation is reported (#settle).
SuccessIsWhole == GitEnded => /\ git.error = NoError => git.pending = NoError /\ ~git.warned
                              /\ git.pending # NoError => git.error = git.pending

\* An error that carries the output of a command does not show the password.
ErrorHidesPassword == GitEnded => git.error.text \cap {"password", "encoded"} = {}

\* The status of a repository names every unmerged file a conflict and no other, and
\* its counts add up (parseGitStatus, deriveStatus).
ConflictsSeen ==
    git.phase = "status" =>
        /\ \A i \in DOMAIN git.lines : git.got.files[i].status = "conflict" <=> git.lines[i] \in Unmerged
        /\ \A i \in DOMAIN git.lines : git.got.files[i].status # "unknown"
        /\ git.got.staged + git.got.unstaged = Len(git.lines) /\ (git.got.clean <=> git.lines = <<>>)
=============================================================================
