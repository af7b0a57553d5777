----------------------------- MODULE MCServices -----------------------------
(***************************************************************************)
(* The services around a sandbox, checked in one run: a behaviour is about *)
(* one of them, chosen at the start, so that their state spaces add up     *)
(* instead of multiplying.                                                 *)
(***************************************************************************)
EXTENDS AgentCore, TemplateAssembly, CliCommands, DeployFlow,
        ProjectDetection, DriverTranslation, VolumeService, FeaturePlanning,
        WorkspaceCalls, ImagePublishing, PagedReads, Dashboard, SdkPlanning,
        ProcessCalls, ProjectFile, LocalProxy, RouteRegistry,
        SecretHandling, AccountStacks, FleetUpkeep

VARIABLE subject                      \* the component this behaviour is about

vars == <<subject, core, wish, asm, cli, rollout, find, doctor, play, efs,
          ask, conf, files, git, imagery, pages, panel, plan, proc, paper,
          tunnel, publication, reports, edge, kit, vault, keyring, spec,
          estate, stk, terms, upkeep>>

Init ==
    /\ subject \in {"core", "wish", "asm", "cli", "rollout", "find",
                   "doctor", "play", "efs", "ask", "conf", "files", "git",
                   "imagery", "pages", "panel", "plan", "proc", "paper",
                   "tunnel", "publication", "reports", "edge", "kit",
                   "vault", "keyring", "spec", "estate", "stk", "terms",
                   "upkeep"}
    /\ CoreInit
    /\ WishInit
    /\ AsmInit
    /\ CliInit
    /\ RolloutInit
    /\ FindInit
    /\ DoctorInit
    /\ PlayInit
    /\ EfsInit
    /\ AskInit
    /\ ConfInit
    /\ FilesInit
    /\ GitInit
    /\ ImageryInit
    /\ PagesInit
    /\ PanelInit
    /\ PlanInit
    /\ ProcInit
    /\ PaperInit
    /\ TunnelInit
    /\ PublicationInit
    /\ ReportsInit
    /\ EdgeInit
    /\ KitInit
    /\ VaultInit
    /\ KeyringInit
    /\ SpecInit
    /\ EstateInit
    /\ StkInit
    /\ TermsInit
    /\ UpkeepInit

Next ==
    /\ UNCHANGED subject
    /\ \/ subject = "core" /\ CoreNext
          /\ UNCHANGED <<wish, asm, cli, rollout, find, doctor, play, efs, ask, conf,
                       files, git, imagery, pages, panel, plan, proc, paper, tunnel,
                       publication, reports, edge, kit, vault, keyring, spec, estate,
                       stk, terms, upkeep>>
       \/ subject = "wish" /\ WishNext
          /\ UNCHANGED <<core, asm, cli, rollout, find, doctor, play, efs, ask, conf,
                       files, git, imagery, pages, panel, plan, proc, paper, tunnel,
                       publication, reports, edge, kit, vault, keyring, spec, estate,
                       stk, terms, upkeep>>
       \/ subject = "asm" /\ AsmNext
          /\ UNCHANGED <<core, wish, cli, rollout, find, doctor, play, efs, ask,
                       conf, files, git, imagery, pages, panel, plan, proc, paper,
                       tunnel, publication, reports, edge, kit, vault, keyring, spec,
                       estate, stk, terms, upkeep>>
       \/ subject = "cli" /\ CliNext
          /\ UNCHANGED <<core, wish, asm, rollout, find, doctor, play, efs, ask,
                       conf, files, git, imagery, pages, panel, plan, proc, paper,
                       tunnel, publication, reports, edge, kit, vault, keyring, spec,
                       estate, stk, terms, upkeep>>
       \/ subject = "rollout" /\ RolloutNext
          /\ UNCHANGED <<core, wish, asm, cli, find, doctor, play, efs, ask, conf,
                       files, git, imagery, pages, panel, plan, proc, paper, tunnel,
                       publication, reports, edge, kit, vault, keyring, spec, estate,
                       stk, terms, upkeep>>
       \/ subject = "find" /\ FindNext
          /\ UNCHANGED <<core, wish, asm, cli, rollout, doctor, play, efs, ask, conf,
                       files, git, imagery, pages, panel, plan, proc, paper, tunnel,
                       publication, reports, edge, kit, vault, keyring, spec, estate,
                       stk, terms, upkeep>>
       \/ subject = "doctor" /\ DoctorNext
          /\ UNCHANGED <<core, wish, asm, cli, rollout, find, play, efs, ask, conf,
                       files, git, imagery, pages, panel, plan, proc, paper, tunnel,
                       publication, reports, edge, kit, vault, keyring, spec, estate,
                       stk, terms, upkeep>>
       \/ subject = "play" /\ PlayNext
          /\ UNCHANGED <<core, wish, asm, cli, rollout, find, doctor, efs, ask, conf,
                       files, git, imagery, pages, panel, plan, proc, paper, tunnel,
                       publication, reports, edge, kit, vault, keyring, spec, estate,
                       stk, terms, upkeep>>
       \/ subject = "efs" /\ EfsNext
          /\ UNCHANGED <<core, wish, asm, cli, rollout, find, doctor, play, ask,
                       conf, files, git, imagery, pages, panel, plan, proc, paper,
                       tunnel, publication, reports, edge, kit, vault, keyring, spec,
                       estate, stk, terms, upkeep>>
       \/ subject = "ask" /\ AskNext
          /\ UNCHANGED <<core, wish, asm, cli, rollout, find, doctor, play, efs,
                       conf, files, git, imagery, pages, panel, plan, proc, paper,
                       tunnel, publication, reports, edge, kit, vault, keyring, spec,
                       estate, stk, terms, upkeep>>
       \/ subject = "conf" /\ ConfNext
          /\ UNCHANGED <<core, wish, asm, cli, rollout, find, doctor, play, efs, ask,
                       files, git, imagery, pages, panel, plan, proc, paper, tunnel,
                       publication, reports, edge, kit, vault, keyring, spec, estate,
                       stk, terms, upkeep>>
       \/ subject = "files" /\ FilesNext
          /\ UNCHANGED <<core, wish, asm, cli, rollout, find, doctor, play, efs, ask,
                       conf, git, imagery, pages, panel, plan, proc, paper, tunnel,
                       publication, reports, edge, kit, vault, keyring, spec, estate,
                       stk, terms, upkeep>>
       \/ subject = "git" /\ GitNext
          /\ UNCHANGED <<core, wish, asm, cli, rollout, find, doctor, play, efs, ask,
                       conf, files, imagery, pages, panel, plan, proc, paper, tunnel,
                       publication, reports, edge, kit, vault, keyring, spec, estate,
                       stk, terms, upkeep>>
       \/ subject = "imagery" /\ ImageryNext
          /\ UNCHANGED <<core, wish, asm, cli, rollout, find, doctor, play, efs, ask,
                       conf, files, git, pages, panel, plan, proc, paper, tunnel,
                       publication, reports, edge, kit, vault, keyring, spec, estate,
                       stk, terms, upkeep>>
       \/ subject = "pages" /\ PagesNext
          /\ UNCHANGED <<core, wish, asm, cli, rollout, find, doctor, play, efs, ask,
                       conf, files, git, imagery, panel, plan, proc, paper, tunnel,
                       publication, reports, edge, kit, vault, keyring, spec, estate,
                       stk, terms, upkeep>>
       \/ subject = "panel" /\ PanelNext
          /\ UNCHANGED <<core, wish, asm, cli, rollout, find, doctor, play, efs, ask,
                       conf, files, git, imagery, pages, plan, proc, paper, tunnel,
                       publication, reports, edge, kit, vault, keyring, spec, estate,
                       stk, terms, upkeep>>
       \/ subject = "plan" /\ PlanNext
          /\ UNCHANGED <<core, wish, asm, cli, rollout, find, doctor, play, efs, ask,
                       conf, files, git, imagery, pages, panel, proc, paper, tunnel,
                       publication, reports, edge, kit, vault, keyring, spec, estate,
                       stk, terms, upkeep>>
       \/ subject = "proc" /\ ProcNext
          /\ UNCHANGED <<core, wish, asm, cli, rollout, find, doctor, play, efs, ask,
                       conf, files, git, imagery, pages, panel, plan, paper, tunnel,
                       publication, reports, edge, kit, vault, keyring, spec, estate,
                       stk, terms, upkeep>>
       \/ subject = "paper" /\ PaperNext
          /\ UNCHANGED <<core, wish, asm, cli, rollout, find, doctor, play, efs, ask,
                       conf, files, git, imagery, pages, panel, plan, proc, tunnel,
                       publication, reports, edge, kit, vault, keyring, spec, estate,
                       stk, terms, upkeep>>
       \/ subject = "tunnel" /\ TunnelNext
          /\ UNCHANGED <<core, wish, asm, cli, rollout, find, doctor, play, efs, ask,
                       conf, files, git, imagery, pages, panel, plan, proc, paper,
                       publication, reports, edge, kit, vault, keyring, spec, estate,
                       stk, terms, upkeep>>
       \/ subject = "publication" /\ PublicationNext
          /\ UNCHANGED <<core, wish, asm, cli, rollout, find, doctor, play, efs, ask,
                       conf, files, git, imagery, pages, panel, plan, proc, paper,
                       tunnel, reports, edge, kit, vault, keyring, spec, estate, stk,
                       terms, upkeep>>
       \/ subject = "reports" /\ ReportsNext
          /\ UNCHANGED <<core, wish, asm, cli, rollout, find, doctor, play, efs, ask,
                       conf, files, git, imagery, pages, panel, plan, proc, paper,
                       tunnel, publication, edge, kit, vault, keyring, spec, estate,
                       stk, terms, upkeep>>
       \/ subject = "edge" /\ EdgeNext
          /\ UNCHANGED <<core, wish, asm, cli, rollout, find, doctor, play, efs, ask,
                       conf, files, git, imagery, pages, panel, plan, proc, paper,
                       tunnel, publication, reports, kit, vault, keyring, spec,
                       estate, stk, terms, upkeep>>
       \/ subject = "kit" /\ KitNext
          /\ UNCHANGED <<core, wish, asm, cli, rollout, find, doctor, play, efs, ask,
                       conf, files, git, imagery, pages, panel, plan, proc, paper,
                       tunnel, publication, reports, edge, vault, keyring, spec,
                       estate, stk, terms, upkeep>>
       \/ subject = "vault" /\ VaultNext
          /\ UNCHANGED <<core, wish, asm, cli, rollout, find, doctor, play, efs, ask,
                       conf, files, git, imagery, pages, panel, plan, proc, paper,
                       tunnel, publication, reports, edge, kit, keyring, spec,
                       estate, stk, terms, upkeep>>
       \/ subject = "keyring" /\ KeyringNext
          /\ UNCHANGED <<core, wish, asm, cli, rollout, find, doctor, play, efs, ask,
                       conf, files, git, imagery, pages, panel, plan, proc, paper,
                       tunnel, publication, reports, edge, kit, vault, spec, estate,
                       stk, terms, upkeep>>
       \/ subject = "spec" /\ SpecNext
          /\ UNCHANGED <<core, wish, asm, cli, rollout, find, doctor, play, efs, ask,
                       conf, files, git, imagery, pages, panel, plan, proc, paper,
                       tunnel, publication, reports, edge, kit, vault, keyring,
                       estate, stk, terms, upkeep>>
       \/ subject = "estate" /\ EstateNext
          /\ UNCHANGED <<core, wish, asm, cli, rollout, find, doctor, play, efs, ask,
                       conf, files, git, imagery, pages, panel, plan, proc, paper,
                       tunnel, publication, reports, edge, kit, vault, keyring, spec,
                       stk, terms, upkeep>>
       \/ subject = "stk" /\ StkNext
          /\ UNCHANGED <<core, wish, asm, cli, rollout, find, doctor, play, efs, ask,
                       conf, files, git, imagery, pages, panel, plan, proc, paper,
                       tunnel, publication, reports, edge, kit, vault, keyring, spec,
                       estate, terms, upkeep>>
       \/ subject = "terms" /\ TermsNext
          /\ UNCHANGED <<core, wish, asm, cli, rollout, find, doctor, play, efs, ask,
                       conf, files, git, imagery, pages, panel, plan, proc, paper,
                       tunnel, publication, reports, edge, kit, vault, keyring, spec,
                       estate, stk, upkeep>>
       \/ subject = "upkeep" /\ UpkeepNext
          /\ UNCHANGED <<core, wish, asm, cli, rollout, find, doctor, play, efs, ask,
                       conf, files, git, imagery, pages, panel, plan, proc, paper,
                       tunnel, publication, reports, edge, kit, vault, keyring, spec,
                       estate, stk, terms>>

\* Only the steps of the subject are ever enabled: the other components have
\* not started, and nothing of theirs is fair before their first step.
Spec ==
    /\ Init /\ [][Next]_vars

-----------------------------------------------------------------------------
(***************************************************************************)
(* Secrets (store.ts, cache.ts, secret-env.ts): an acknowledged version    *)
(* stays the one readers get when two writers race, the cache serves       *)
(* nothing of before an invalidation nor past its time and keeps one       *)
(* flight per key, and SDK and host expand one specification to the same   *)
(* variables, each from one source.                                        *)
(***************************************************************************)
SecretsSound ==
    /\ AckedVersionHolds
    /\ NothingStaleAfterInvalidate
    /\ NothingExpired
    /\ OneRequestPerKey
    /\ HostAgreesWithSdk
    /\ EachVariableOnce
    /\ CallSecretsWin

(***************************************************************************)
(* Deployments (project-service.ts, deploy.ts, the AgentCore services):    *)
(* the fleet runs the image of its own build, a ready marker is of this    *)
(* host, a failure leaves no VM and no uploaded source, a recipe names a   *)
(* fleet that is ready, a gateway has one secret; of two AgentCore deploys *)
(* the loser of the conflict takes over nothing, an update that answers    *)
(* was applied, and what was created ends hardened.                        *)
(***************************************************************************)
DeploymentsSound ==
    /\ FleetOnBuiltImage
    /\ ReadyOfThisHost
    /\ FailedLeavesNoVm
    /\ OneSecretPerGateway
    /\ RecipeOfReadyFleet
    /\ DeployWasApplied
    /\ EndsHardened
    /\ OtherRuntimesUntouched
    /\ SourcesDeleted
    /\ NamesCollideTogether
    /\ LifecycleFits
    /\ DeployVariablesWin
    /\ RoleStaysHome
    /\ SessionsApart

(***************************************************************************)
(* Account setup and stacks (account-setup/service.ts, stacks/): after a   *)
(* setup that ends well and that no other overtook the role reads the      *)
(* bucket in use, however earlier runs died and whatever CloudFormation    *)
(* was doing; no setup replaces a newer template it could see when it      *)
(* decided; no image comes of a release that fails its checksum; a         *)
(* deployment keeps the parameters nobody gave, applies the changes it     *)
(* showed, and a refusal touches nothing.                                  *)
(***************************************************************************)
StacksSound ==
    /\ RoleReadsBucket
    /\ DoneMeansReady
    /\ NeverDowngrades
    /\ ExplicitBucketWins
    /\ OnlyVerifiedZip
    /\ NotGivenKept
    /\ CodeIsStored
    /\ ReasonIsLast
    /\ ChangesWereShown
    /\ ThresholdsOrdered
    /\ RefusalTouchesNothing

(***************************************************************************)
(* Images (images/): a reused image was built with these settings and with *)
(* the variables asked for (one asked for none may have some), pruning     *)
(* spares every version a sandbox or a plan uses and leaves one to launch, *)
(* a clean exit means that what was deleted is gone; a publication that    *)
(* succeeds published every size, within the quota, the baseline first.    *)
(***************************************************************************)
ImagesSound ==
    /\ BuiltIsMine
    /\ PruneLeavesLaunchable
    /\ PruneSparesLive
    /\ CleanExitMeansGone
    /\ PublishedMeansAll
    /\ BuildsWithinQuota
    /\ BaselineFirst
    /\ CdkImageUntouched
    /\ OneBuildEach
    /\ EfsAllOrNothing
    /\ SizeTellsItself

(***************************************************************************)
(* Templates and runtimes (template.ts, install-plan.ts, the runtimes): on *)
(* every install path each step finds what it reads, nothing is copied     *)
(* after the permissions were set, the manifest tells what was installed;  *)
(* a runtime written to a project reads back the same, a denied tool is    *)
(* closed as finely as its runtime can close it, an entry of an imported   *)
(* permission block is taken whole or reported, and a failure reported     *)
(* once is not undone by a later line.                                     *)
(***************************************************************************)
TemplatesSound ==
    /\ StepsFindInputs
    /\ HostStarts
    /\ InstallSecured
    /\ ManifestTells
    /\ CredentialsShipped
    /\ RuntimeReadsBack
    /\ AppReadsBack
    /\ PlaceholderWithGateway
    /\ DeniedToolsClosed
    /\ ImportIsReported
    /\ FailureSticks

(***************************************************************************)
(* Projects (detect-*.ts, project.ts): a detected version meets the        *)
(* constraint in its own dialect, an entry is chosen only when it is       *)
(* clear, overrides and declared values win over detected ones; a project  *)
(* that is saved reads back the same, no key is silently dropped, and a    *)
(* plain variable is given once.                                           *)
(***************************************************************************)
ProjectsSound ==
    /\ BuildMeetsConstraint
    /\ EntryIsClear
    /\ OverridesObeyed
    /\ AppRouteExists
    /\ ProviderFits
    /\ DeclaredKept
    /\ InstallPicksLock
    /\ SavedReadsBack
    /\ NoKeyIgnored
    /\ PlainHasOneSource
    /\ PathsStayInside

(***************************************************************************)
(* Volumes, mounts, sizes and gateways (volumes/, configure/, sizing/):    *)
(* creates repeated or racing make one access point, one of two destroyers *)
(* is told that it destroyed, nothing of others is deleted and what was    *)
(* removed does not come back; plans refuse overlapping mounts and a       *)
(* section is ready only when all of it is mounted, within its own time.   *)
(***************************************************************************)
FeaturesSound ==
    /\ OnePointPerName
    /\ OneDestroyed
    /\ ForeignKept
    /\ RemovedForGood
    /\ OneAddress
    /\ MountsApart
    /\ RefusedUnlaunched
    /\ SizeHolds
    /\ RouteStaysPut
    /\ OneTargetPerZone
    /\ ReadyMeansMounted
    /\ OwnTimeToSettle
    /\ RefreshedSecret

(***************************************************************************)
(* The calls of a sandbox handle (filesystem.ts, commands.ts, code.ts,     *)
(* core.ts, git): the agent rebuilds the files that were written, answers  *)
(* come from the error that means them, a reader lets go of its stream;    *)
(* kept output is the tail of what was printed, polls end in time, no      *)
(* stream is left open by a retry, an abort rejects; a git operation       *)
(* leaves no password in the remote, whatever fails.                       *)
(***************************************************************************)
SandboxCallsSound ==
    /\ AgentRebuildsWrites
    /\ NoMetadataLost
    /\ AnswersAreTrue
    /\ ReadsWholeAndLetsGo
    /\ FailureAfterEvents
    /\ BytesAccounted
    /\ TailOfTheOutput
    /\ PollEndsInTime
    /\ StateIsWatched
    /\ AgentEndsFirst
    /\ ReopenKeepsDeadline
    /\ NoStreamLeft
    /\ StartsBounded
    /\ AbortRejects
    /\ GoneOnlyIfTerminated
    /\ SecretsOnlyInPython
    /\ ContextAsMade
    /\ TablesAgree
    /\ PasswordNotLeft
    /\ RemotePutBack
    /\ NoPasswordUnderRewrite
    /\ SuccessIsWhole
    /\ ErrorHidesPassword
    /\ ConflictsSeen

(***************************************************************************)
(* The commands of the CLI (cli/): what is parsed decides what runs, only  *)
(* what was asked for is killed, a command that owns a sandbox, a terminal *)
(* or a connection releases it however it ends, short of a process that    *)
(* main.ts ends at once; keys arrive in order, a piece whose answer was    *)
(* cut perhaps twice, and nothing is read after Ctrl-C; the doctor kills   *)
(* what it launched, judges that sandbox and no other, and its exit code   *)
(* tells any failure.                                                      *)
(***************************************************************************)
CommandsSound ==
    /\ ParseDecides
    /\ PathReachable
    /\ OptionPrecedence
    /\ WordsAllPlaced
    /\ KillsOnlyAsked
    /\ KillTells
    /\ LogsWithinLimit
    /\ NoTerminalSandboxLeft
    /\ DetachedIsReachable
    /\ ConnectionReleased
    /\ TerminalRestored
    /\ InputInOrder
    /\ NoReadAfterAbort
    /\ EphemeralKilled
    /\ ExitReportsFailure
    /\ JudgesOwnSandbox
    /\ AssessFollowsOrder
    /\ PremintedOnce

(***************************************************************************)
(* Traffic to a sandbox (the local proxy and the custom domain): every     *)
(* slot and socket of the proxy comes back, nothing passes before the      *)
(* request's body is through, one final answer, one framing of a body; a   *)
(* route is never announced in the store past the life of its token, and   *)
(* what was unregistered is gone from the store although a step failed and *)
(* was repeated, and from every server of the edge the deletion reached.   *)
(***************************************************************************)
TrafficSound ==
    /\ SlotsComeBack
    /\ NoSocketLeft
    /\ CommandClosesAll
    /\ NothingPastBody
    /\ OneFinalAnswer
    /\ DelimiterFound
    /\ FramingUnambiguous
    /\ ChunksWellFormed
    /\ HeadIsOwn
    /\ OnlyNamedHosts
    /\ NeverPastToken
    /\ RefreshKeepsRoute
    /\ UnregisteredGone
    /\ HostNamesOneRoute

(***************************************************************************)
(* The dashboard (dashboard/, dashboard-server.ts): no request acts        *)
(* without its session, its confirmation and its CSRF token; a job         *)
(* accounts for every sandbox and an aborted one was not touched; a read   *)
(* that began before a job ended does not fill the cache with what it saw; *)
(* sessions, credentials and clients are shared and bounded; quotas,       *)
(* memory and costs are those of what they name.                           *)
(***************************************************************************)
DashboardSound ==
    /\ ActionsGated
    /\ PaidQueriesGated
    /\ OneSessionPerLink
    /\ NothingWithoutSession
    /\ JobsAccounted
    /\ AbortedUntouched
    /\ CloseStopsJobs
    /\ UnfinishedKept
    /\ ReadsSeeFinishedJobs
    /\ CacheBounded
    /\ CredentialsShared
    /\ QuotasAllReported
    /\ MemoryAccounted
    /\ BulkWithinRates
    /\ CostIsOfWindow
    /\ BilledSumsMicrovms
    /\ EstimateNotNegative
    /\ ClientBuildShared
    /\ OneSizePerVersion
    /\ LogPageIsTail
    /\ SchemeOverridesShared
    /\ TakenSvgIsPlain
    /\ CommandLeavesNothing

(***************************************************************************)
(* What fleets, pools and handles plan and read (fleet.ts, lifecycle.ts,   *)
(* config.ts, the paged readers, the drivers): calls of one process that   *)
(* overlap keep the VM's hold and share one key renewal; plans fit the     *)
(* limits they are made for and reopen a deadline only when asked; paged   *)
(* reads are complete, ordered and of their own deployment; and what a     *)
(* driver streams, counts and limits is what the framework did.            *)
(***************************************************************************)
PlansAndReadsSound ==
    /\ HoldKept
    /\ OneWritePerWindow
    /\ NewVmKeyGood
    /\ AcceptedPlansFit
    /\ DefaultsAlwaysFit
    /\ ReopensWithinCap
    /\ NoUnaskedReopen
    /\ ClosedMeansClosed
    /\ SlotsKeepThePolicy
    /\ SlotsAreUsable
    /\ StagingApart
    /\ LinksWithinLimits
    /\ PartsCover
    /\ InterruptedIsTold
    /\ BatchIsComplete
    /\ MetadataIsOwn
    /\ EventsAreFirst
    /\ WebhookAddressJudged
    /\ TableOfOwnDeploy
    /\ LogHasNoGap
    /\ StreamMakesSense
    /\ UsageConserved
    /\ LimitsHold

=============================================================================
