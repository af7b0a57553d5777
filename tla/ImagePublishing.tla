--------------------------- MODULE ImagePublishing --------------------------
(***************************************************************************)
(* Versions of one MicroVM image: two builds (templates/build.ts,          *)
(* images/publish-service.ts over images/gateway.ts) and one               *)
(* `rayito image prune` (images/prune-*.ts) at the same time.              *)
(***************************************************************************)
EXTENDS Integers, Sequences, SequencesExt, FiniteSets, FiniteSetsExt, TLC

VARIABLES imagery, publication

Builders == {"b1", "b2"}
MaxVersions == 4 
MaxTries == 2                         \* RETRY_BACKOFF_MS has five entries
MaxOddities == 1                      \* bound on refusals, failed builds and new VMs

\* `what`: everything settingsMatch compares (artifact digest, memory, base...);
\* `env`: the environment variables baked in, which the list of versions leaves out.
Version(w, e, s) == [what |-> w, env |-> e, st |-> s, active |-> TRUE, live |-> FALSE]
Idle == [at |-> "idle", what |-> "x", env |-> "none", ver |-> 0, exists |-> FALSE, image |-> "", result |-> "none"]

ImageryInit ==
    imagery = [on |-> FALSE, sameProcess |-> FALSE, keep |-> 1, vs |-> <<>>, img |-> "none", mover |-> 0,
               b |-> [k \in Builders |-> Idle], slots |-> 0, odd |-> 0,
               prune |-> [at |-> "idle", todo |-> <<>>, kept |-> {}, tries |-> 0, gone |-> {}, spared |-> {},
                          live |-> {}, wasLive |-> {}, acted |-> {}, clean |-> TRUE]]

\* Histories an image may have: launchable, failed, inactive.
Histories == {<<>>, <<Version("y", "none", "ok"), Version("x", "none", "ok"), Version("x", "none", "failed")>>,
              <<Version("x", "baked", "ok"), [Version("y", "none", "ok") EXCEPT !.active = FALSE]>>,
              <<[Version("x", "none", "ok") EXCEPT !.live = TRUE], Version("y", "none", "ok")>>}

chooseImage ==
    /\ ~imagery.on
    /\ \E h \in Histories, s \in BOOLEAN, w \in {"x", "y"}, e \in {"none", "baked"} :
          /\ e = "baked" => ~s /\ w = "x"             \* variables: of two builds of the same tree
          /\ imagery' = [imagery EXCEPT !.on = TRUE, !.vs = h, !.sameProcess = s,
                         !.img = IF h = <<>> THEN "none" ELSE "ready",
                         !.b["b2"].what = w, !.b["b1"].env = e]

VS == imagery.vs
Launchable(v) == VS[v].st = "ok" /\ VS[v].active
Odd == imagery.odd < MaxOddities
Busy == imagery.img = "busy"
NoBuild(k, s) == imagery.on /\ imagery.b[k].at = s
Ends(i, k, r) == [i EXCEPT !.b[k].at = "over", !.b[k].result = r, !.slots = @ - 1]

-----------------------------------------------------------------------------
(* build().                                                                *)

MaxBuilds == 1                        \* MAX_CONCURRENT_BUILDS: 10 in the code

\* withBuildSlot: refused at once when the process has no slot left.
withBuildSlot(k) ==
    /\ NoBuild(k, "idle")
    /\ imagery' = IF imagery.sameProcess /\ imagery.slots >= MaxBuilds
                  THEN [imagery EXCEPT !.b[k].at = "over", !.b[k].result = "quota"]
                  ELSE [imagery EXCEPT !.b[k].at = "reuse", !.slots = @ + 1]

\* findReusableVersion: the newest active and successful version with the same
\* settings.  Only a build that asks for variables reads those of each candidate
\* (GetMicrovmImageVersion); one without compares with the list, which has none.
reusable(k) == {v \in DOMAIN VS : /\ Launchable(v) /\ VS[v].what = imagery.b[k].what
                                  /\ imagery.b[k].env = "none" \/ VS[v].env = imagery.b[k].env}
findReusableVersion(k) ==
    /\ NoBuild(k, "reuse")
    /\ imagery' = IF reusable(k) # {} THEN [imagery EXCEPT !.b[k].ver = Max(reusable(k)), !.b[k].at = "gate"]
                  ELSE [imagery EXCEPT !.b[k].at = "submit"]

\* submitImageBuild: looks whether the image exists, then creates or updates.
lookImage(k) ==
    /\ NoBuild(k, "submit")
    /\ imagery' = [imagery EXCEPT !.b[k].at = "send", !.b[k].exists = imagery.img # "none"]
submitImageBuild(k) ==
    /\ NoBuild(k, "send")
    /\ IF Busy \/ imagery.b[k].exists # (imagery.img # "none") \/ Len(VS) >= MaxVersions
       THEN imagery' = Ends(imagery, k, "rejected")                 \* BuildError aws_error
       ELSE imagery' = [imagery EXCEPT !.vs = Append(@, Version(imagery.b[k].what, imagery.b[k].env, "building")),
                           !.img = "busy", !.mover = Len(VS) + 1,
                           !.b[k].ver = Len(VS) + 1, !.b[k].at = "gate"]

\* readGate: the image and then the version, in two calls.
readImage(k) ==
    /\ NoBuild(k, "gate")
    /\ imagery' = [imagery EXCEPT !.b[k].at = "gate2", !.b[k].image = imagery.img]

\* VersionGate: settled and launchable need both, except that a failed version
\* settles alone.
settled(image, v) == VS[v].st = "failed" \/ (VS[v].st = "ok" /\ image \in {"ready", "failed"})
gateLaunchable(image, v) == image = "ready" /\ VS[v].st = "ok" /\ VS[v].active

\* waitForGate and awaitBuild: settled, or the timeout, or another poll.
awaitBuild(k) ==
    /\ NoBuild(k, "gate2")
    /\ LET img == imagery.b[k].image  v == imagery.b[k].ver
       IN \/ /\ gateLaunchable(img, v) /\ imagery' = Ends(imagery, k, "built")
          \/ /\ ~gateLaunchable(img, v) /\ settled(img, v) /\ imagery' = Ends(imagery, k, "failed")
          \/ /\ ~gateLaunchable(img, v) /\ ~settled(img, v) /\ imagery' = [imagery EXCEPT !.b[k].at = "gate"]
          \/ /\ ~settled(img, v) /\ Odd
             /\ imagery' = [Ends(imagery, k, "timeout") EXCEPT !.odd = @ + 1]

-----------------------------------------------------------------------------
(* prune.                                                                  *)

P == imagery.prune

\* buildPlan: the newest `keep` launchable versions, the live ones and those in
\* flight stay; the rest goes, oldest first.
keptNewest(keep) ==
    {v \in DOMAIN VS : Launchable(v) /\ Cardinality({w \in DOMAIN VS : w > v /\ Launchable(w)}) < keep}
InFlight(v) == VS[v].st \in {"building", "deleting", "gone"}
LiveNow == {v \in DOMAIN VS : VS[v].live}
planPrune ==
    /\ imagery.on /\ P.at = "idle" /\ VS # <<>>
    /\ LET kept == keptNewest(imagery.keep)
           doomed == {v \in DOMAIN VS : v \notin kept /\ ~VS[v].live /\ ~InFlight(v)}
       IN imagery' = [imagery EXCEPT !.prune.at = "next", !.prune.kept = {v \in DOMAIN VS : Launchable(v)},
                         !.prune.live = LiveNow, !.prune.todo = SetToSortSeq(doomed, LAMBDA a, c : a < c)]

\* Just before each one, liveVersions again: a VM may have started meanwhile.
Bug_liveOfPlan == P.live
liveVersions == LiveNow
nextVersion ==
    /\ imagery.on /\ P.at = "next" /\ P.todo # <<>>
    /\ LET v == Head(P.todo)
       IN imagery' = IF v \in liveVersions
                     THEN [imagery EXCEPT !.prune.todo = Tail(@), !.prune.spared = @ \cup {v}]
                     ELSE [imagery EXCEPT !.prune.at = "delete", !.prune.tries = 1,
                              !.prune.wasLive = IF VS[v].live THEN @ \cup {v} ELSE @]

PruneNext(i, ok) == [i EXCEPT !.prune.at = "next", !.prune.todo = Tail(@), !.prune.clean = @ /\ ok,
                             !.prune.gone = IF ok THEN @ \cup {Head(P.todo)} ELSE @]
Retry(i) == IF P.tries >= MaxTries THEN PruneNext(i, FALSE) ELSE [i EXCEPT !.prune.tries = @ + 1]

\* #deleteOnce: accepted; ConflictException while the image moves; or refused because
\* the version is ACTIVE, which deactivates it before the next try.
deleteOnce ==
    /\ imagery.on /\ P.at = "delete"
    /\ LET v == Head(P.todo)
       IN \/ /\ Busy /\ imagery' = [Retry(imagery) EXCEPT !.prune.at = IF @ = "next" THEN @ ELSE "settle"]
          \/ /\ ~Busy
             /\ imagery' = [imagery EXCEPT !.vs[v].st = "deleting", !.img = "busy", !.mover = v,
                               !.prune.at = "gone", !.prune.acted = @ \cup {v}]
          \/ /\ ~Busy /\ Odd /\ VS[v].active
             /\ imagery' = [Retry(imagery) EXCEPT !.vs[v].active = FALSE, !.odd = @ + 1, !.prune.acted = @ \cup {v}]
          \/ /\ ~Busy /\ Odd /\ ~VS[v].active                       \* another refusal
             /\ imagery' = [PruneNext(imagery, FALSE) EXCEPT !.odd = @ + 1]

\* #waitUntilImageSettled, before the next try.
waitSettled ==
    /\ imagery.on /\ P.at = "settle"
    /\ \/ ~Busy /\ imagery' = [imagery EXCEPT !.prune.at = "delete"]
       \/ Busy /\ Odd /\ imagery' = [imagery EXCEPT !.prune.at = "delete", !.odd = @ + 1]

\* #waitUntilVersionGone: the version gone and the image settled, or a timeout.
goneAndSettled(v) == VS[v].st = "gone" /\ ~Busy
waitGone ==
    /\ imagery.on /\ P.at = "gone"
    /\ \/ goneAndSettled(Head(P.todo)) /\ imagery' = PruneNext(imagery, TRUE)
       \/ ~goneAndSettled(Head(P.todo)) /\ Odd /\ imagery' = [PruneNext(imagery, FALSE) EXCEPT !.odd = @ + 1]

pruneOver ==
    /\ imagery.on /\ P.at = "next" /\ P.todo = <<>>
    /\ imagery' = [imagery EXCEPT !.prune.at = "over"]

-----------------------------------------------------------------------------
(* The service, and VMs.                                                   *)

imageMoves ==
    /\ imagery.on /\ Busy
    /\ LET v == imagery.mover
       IN \/ imagery' = [imagery EXCEPT !.img = "ready",
                            !.vs[v].st = IF @ = "deleting" THEN "gone" ELSE "ok"]
          \/ /\ VS[v].st = "building" /\ Odd
             /\ imagery' = [imagery EXCEPT !.img = "failed", !.vs[v].st = "failed", !.odd = @ + 1]
startVm ==
    /\ imagery.on /\ Odd
    /\ \E v \in DOMAIN VS : /\ Launchable(v) /\ ~VS[v].live
                            /\ imagery' = [imagery EXCEPT !.vs[v].live = TRUE, !.odd = @ + 1]

ImageryNext ==
    \/ chooseImage \/ planPrune \/ nextVersion \/ deleteOnce \/ waitSettled \/ waitGone \/ pruneOver
    \/ imageMoves \/ startVm
    \/ \E k \in Builders : \/ withBuildSlot(k) \/ findReusableVersion(k) \/ lookImage(k)
                           \/ submitImageBuild(k) \/ readImage(k) \/ awaitBuild(k)

-----------------------------------------------------------------------------
(* Properties.                                                             *)

\* A build that succeeded names a version of its own settings that was built, with
\* the variables it asked for, even when the other build moved the image meanwhile.
\* One that asked for no variables may be given a version that has some
\* (findReusableVersion reads the list only, AWS_API_NOTES.md Q118).
BuiltIsMine ==
    \A k \in Builders : imagery.b[k].result = "built" =>
        LET b == imagery.b[k]
        IN /\ VS[b.ver].what = b.what /\ VS[b.ver].st \in {"ok", "deleting", "gone"}
           /\ b.env # "none" => VS[b.ver].env = b.env

\* prune never touches the newest launchable versions: what could be launched when
\* it planned can still be launched, `keep` versions deep.
PruneLeavesLaunchable ==
    P.at # "idle" => Cardinality({v \in P.kept : Launchable(v)}) >= (IF Cardinality(P.kept) < imagery.keep
                                                                   THEN Cardinality(P.kept) ELSE imagery.keep)

\* A version on which a VM was running when its turn came is not touched.
PruneSparesLive == P.wasLive \cap P.acted = {}

\* A clean exit means that every version planned and not spared is really gone.
CleanExitMeansGone == \A v \in P.gone : VS[v].st = "gone"

-----------------------------------------------------------------------------
(***************************************************************************)
(* `rayito image publish` (cli/commands/image-tools.ts over                *)
(* images/publish-domain.ts and publish-service.ts): the settings, then    *)
(* the baseline image and one image per extra size, from one artifact.     *)
(***************************************************************************)

PublicationInit == publication = [about |-> "none"]
ExtraSizes == {"small", "large", "huge"}
BatchMax == 2                           \* MAX_CONCURRENT_IMAGE_BUILDS
ImagesOf(sizes) == {"baseline"} \cup {sizes[i] : i \in DOMAIN sizes}

-----------------------------------------------------------------------------
(* The settings.                                                           *)

validateSizes(sizes) == (\A i \in DOMAIN sizes : sizes[i] \in ExtraSizes) /\ \A i, j \in DOMAIN sizes : i # j => sizes[i] # sizes[j]
validateBaselineMemory(memory, sizes) == sizes # <<>> => memory = "default"
validateOsCapabilities(caps) == caps \in {"", "ALL"}
requireEfsCombination(variant, caps) == variant = "full" /\ caps = "ALL"
parseEnvironmentAssignments(env) == env # "malformed"
validSettings(s) ==
    /\ s.runId # "invalid" /\ validateSizes(s.sizes) /\ validateBaselineMemory(s.memory, s.sizes) /\ parseEnvironmentAssignments(s.env)
    /\ validateOsCapabilities(s.caps) /\ s.variant # "unknown" /\ (s.efs => requireEfsCombination(s.variant, s.caps))
GoodSettings == [runId |-> "none", sizes |-> <<>>, memory |-> "default", env |-> "none", caps |-> "", variant |-> "full", efs |-> FALSE, zip |-> "full", marker |-> FALSE, bucket |-> TRUE, latest |-> FALSE, force |-> FALSE]
SizeChoices == {<<>>, <<"small">>, <<"small", "small">>, <<"small", "large", "huge">>, <<"baseline">>}
\* One odd thing at a time, or a mix of the EFS ones.
startPublication ==
    publication.about = "none" /\
    \/ \E variant \in {"full", "slim", "unknown"}, caps \in {"", "ALL", "other"}, efs, marker \in BOOLEAN, zip \in {"full", "slim", "absent"} :
         publication' = [about |-> "settings", at |-> "check", s |-> [GoodSettings EXCEPT !.variant = variant, !.caps = caps, !.efs = efs, !.zip = zip, !.marker = marker], exit |-> -1]
    \/ \E runId \in {"none", "given", "invalid"}, memory \in {"default", "other"}, env \in {"none", "ok", "malformed", "memoryVariable"}, sizes \in SizeChoices, bucket, latest, force \in BOOLEAN :
         publication' = [about |-> "settings", at |-> "check", s |-> [GoodSettings EXCEPT !.runId = runId, !.memory = memory, !.env = env, !.sizes = sizes, !.bucket = bucket, !.latest = latest, !.force = force], exit |-> -1]
RefusedPublish(exit) == [publication EXCEPT !.at = "end", !.exit = exit]
\* resolveBaseImageVersion: `latest` asks the managed image.
resolveBaseImageVersion ==
    /\ publication.about = "settings" /\ publication.at = "check"
    /\ \E newest \in BOOLEAN :
         publication' = IF ~validSettings(publication.s) THEN RefusedPublish(2) ELSE IF publication.s.latest /\ ~newest THEN RefusedPublish(1)
                        ELSE IF ~publication.s.bucket THEN RefusedPublish(2) ELSE [publication EXCEPT !.at = "artifact"]
\* requireMatchingVariant: the zip is what the options say.
requireMatchingVariant(s) == s.zip = s.variant /\ s.marker = s.efs /\ (s.efs => requireEfsCombination(s.variant, s.caps))
artifactKey(runId) == IF runId = "none" THEN "shared" ELSE "ofRun"
\* sizedSettings: the memory of the size, and its variable over one given by the user.
memoryVariable(size, env) == IF size # "baseline" THEN size ELSE IF env = "memoryVariable" THEN "user" ELSE ""
Fresh(size, env) == [state |-> "todo", memory |-> size, variable |-> memoryVariable(size, env), owner |-> "cli", uploaded |-> FALSE]
publishWithSizes ==
    /\ publication.about = "settings" /\ publication.at = "artifact"
    /\ LET s == publication.s
       IN \E cdk \in SUBSET (ImagesOf(s.sizes) \cap {"baseline", "large"}) :
         publication' = IF ~requireMatchingVariant(s) THEN RefusedPublish(1)
                        ELSE [about |-> "publish", at |-> "baseline", s |-> s, sizes |-> s.sizes, key |-> artifactKey(s.runId), current |-> "baseline", batch |-> 1, next |-> 1, pending |-> <<>>, builds |-> [i \in ImagesOf(s.sizes) |-> 0],
                              img |-> [i \in ImagesOf(s.sizes) |-> [Fresh(i, s.env) EXCEPT !.owner = IF i \in cdk THEN "cdk" ELSE "cli"]], summaries |-> {}, failed |-> FALSE, exit |-> -1]

-----------------------------------------------------------------------------
(* One image: prepareBuild, then an equal version is reused or a build is  *)
(* submitted, and its gate awaited.  States of an image: todo, prepared,   *)
(* building, launchable, broken, timedOut.                                 *)

OnImage(at) == publication.about = "publish" /\ publication.at = at
Img == publication.img[publication.current]
mayBuild(owner) == owner # "cdk"
Stops == [publication EXCEPT !.at = "end", !.exit = 1]
prepareBuild ==
    /\ publication.about = "publish" /\ publication.at \in {"baseline", "size"} /\ Img.state = "todo"
    /\ \E role \in BOOLEAN :
         publication' = IF ~mayBuild(Img.owner) THEN Stops
                        ELSE IF ~role THEN [Stops EXCEPT !.img[publication.current].uploaded = TRUE]
                        ELSE [publication EXCEPT !.img[publication.current].uploaded = TRUE, !.img[publication.current].state = "prepared"]
Summarised(p, i, state) == [p EXCEPT !.img[i].state = state, !.summaries = @ \cup {i}]
NextInBatch(p) == [p EXCEPT !.next = @ + 1]
\* --force never reuses; an image that does not exist has nothing to reuse.
reusableSummary ==
    /\ publication.about = "publish" /\ publication.at \in {"baseline", "size"} /\ Img.state = "prepared" /\ ~publication.s.force
    /\ publication' = LET p == Summarised(publication, publication.current, "launchable")
                      IN IF publication.at = "baseline" THEN [p EXCEPT !.at = "afterBaseline"] ELSE [NextInBatch(p) EXCEPT !.at = "pick"]
submitBuild ==
    /\ publication.about = "publish" /\ publication.at \in {"baseline", "size"} /\ Img.state = "prepared"
    /\ \E ok \in BOOLEAN :
         publication' = IF ~ok THEN Stops
                        ELSE LET p == [publication EXCEPT !.img[publication.current].state = "building", !.builds[publication.current] = @ + 1]
                             IN IF publication.at = "baseline" THEN [p EXCEPT !.at = "gate"] ELSE [NextInBatch(p) EXCEPT !.at = "pick", !.pending = Append(@, publication.current)]
\* waitForGate: settled, or given up at the timeout while the build goes on.
finalizeBuild(i, outcome) == Summarised(publication, i, outcome)
awaitBaseline == OnImage("gate") /\ \E outcome \in {"launchable", "broken", "timedOut"} : publication' = [finalizeBuild("baseline", outcome) EXCEPT !.at = "afterBaseline"]
goesOn(state) == state = "launchable"
afterBaseline == OnImage("afterBaseline") /\ publication' = [publication EXCEPT !.at = IF goesOn(publication.img["baseline"].state) THEN "pick" ELSE "report"]
batchIsFull(next, batch) == next > batch + BatchMax - 1
\* publishSizes: a batch is submitted whole, and then awaited.
publishSizes ==
    /\ OnImage("pick")
    /\ publication' = IF publication.next > Len(publication.sizes) \/ batchIsFull(publication.next, publication.batch) THEN [publication EXCEPT !.at = "await"]
                      ELSE [publication EXCEPT !.at = "size", !.current = publication.sizes[publication.next]]
awaitBatch ==
    /\ OnImage("await")
    /\ IF publication.pending # <<>>
       THEN \E outcome \in {"launchable", "broken", "timedOut"} : publication' = [finalizeBuild(Head(publication.pending), outcome) EXCEPT !.pending = Tail(@)]
       ELSE publication' = [publication EXCEPT !.batch = publication.next, !.at = IF publication.next > Len(publication.sizes) THEN "report" ELSE "pick"]
publicationFailed(p) == p.img["baseline"].state # "launchable" \/ \E i \in p.summaries : p.img[i].state # "launchable"
reportPublish == OnImage("report") /\ publication' = LET f == publicationFailed(publication) IN [publication EXCEPT !.at = "end", !.failed = f, !.exit = IF f THEN 1 ELSE 0]

-----------------------------------------------------------------------------
PublicationNext ==
    \/ startPublication \/ resolveBaseImageVersion \/ publishWithSizes \/ prepareBuild \/ reusableSummary \/ submitBuild
    \/ awaitBaseline \/ afterBaseline \/ publishSizes \/ awaitBatch \/ reportPublish

-----------------------------------------------------------------------------
(* Properties.                                                             *)

\* Exit 0 means that the baseline and every size asked for can be launched (publishWithSizes, publishCommand).
PublishedMeansAll == publication.about = "publish" /\ publication.exit = 0 => \A i \in ImagesOf(publication.sizes) : publication.img[i].state = "launchable"
\* At most a batch of builds is under way, not counting those given up at their timeout (publishSizes).
BuildsWithinQuota == publication.about = "publish" => Cardinality({i \in DOMAIN publication.img : publication.img[i].state = "building"}) <= BatchMax
\* No size is touched before the baseline can be launched (publishWithSizes).
BaselineFirst == publication.about = "publish" => \A i \in DOMAIN publication.img : i # "baseline" /\ publication.img[i].state # "todo" => publication.img["baseline"].state = "launchable"
\* An image that CloudFormation manages receives neither an artifact nor a build (prepareBuild).
CdkImageUntouched == publication.about = "publish" => \A i \in DOMAIN publication.img : publication.img[i].owner = "cdk" => ~publication.img[i].uploaded /\ publication.builds[i] = 0
\* One build per image in one publication, whatever is asked for (validateSizes, publishSizes).
OneBuildEach == publication.about = "publish" => \A i \in DOMAIN publication.img : publication.builds[i] <= 1 /\ Cardinality({k \in DOMAIN publication.sizes : publication.sizes[k] = i}) <= 1
\* What is built with EFS has its package, its variant and the capability to mount; what is built without has no package (requireMatchingVariant).
EfsAllOrNothing == publication.about = "publish" => publication.s.efs = publication.s.marker /\ (publication.s.efs => publication.s.variant = "full" /\ publication.s.caps = "ALL")
\* An image of a size tells its own memory, also when the user set that variable (sizedSettings).
SizeTellsItself == publication.about = "publish" => \A i \in DOMAIN publication.img : i # "baseline" => publication.img[i].variable = publication.img[i].memory

=============================================================================
