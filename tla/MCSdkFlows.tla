----------------------------- MODULE MCSdkFlows -----------------------------
(***************************************************************************)
(* The flows of the TypeScript SDK, checked in one run: a behaviour is     *)
(* about one of them, chosen at the start, so that their state spaces add  *)
(* up instead of multiplying.                                              *)
(***************************************************************************)
EXTENDS AgentStreaming, MicroVmControl, SandboxCreation, AgentHost,
        SandboxListing, StagedTransfer

VARIABLE subject                      \* the component this behaviour is about

vars == <<subject, agentRun, control, creation, host, crew, listing, plane,
          transfer>>

Init ==
    /\ subject \in {"agentRun", "control", "creation", "host", "crew",
                   "listing", "plane", "transfer"}
    /\ AgentRunInit
    /\ ControlInit
    /\ CreationInit
    /\ HostInit
    /\ CrewInit
    /\ ListingInit
    /\ PlaneInit
    /\ TransferInit

Next ==
    /\ UNCHANGED subject
    /\ \/ subject = "agentRun" /\ AgentRunNext
          /\ UNCHANGED <<control, creation, host, crew, listing, plane, transfer>>
       \/ subject = "control" /\ ControlNext
          /\ UNCHANGED <<agentRun, creation, host, crew, listing, plane, transfer>>
       \/ subject = "creation" /\ CreationNext
          /\ UNCHANGED <<agentRun, control, host, crew, listing, plane, transfer>>
       \/ subject = "host" /\ HostNext
          /\ UNCHANGED <<agentRun, control, creation, crew, listing, plane,
                       transfer>>
       \/ subject = "crew" /\ CrewNext
          /\ UNCHANGED <<agentRun, control, creation, host, listing, plane,
                       transfer>>
       \/ subject = "listing" /\ ListingNext
          /\ UNCHANGED <<agentRun, control, creation, host, crew, plane, transfer>>
       \/ subject = "plane" /\ PlaneNext
          /\ UNCHANGED <<agentRun, control, creation, host, crew, listing, transfer>>
       \/ subject = "transfer" /\ TransferNext
          /\ UNCHANGED <<agentRun, control, creation, host, crew, listing, plane>>

\* Only the steps of the subject are ever enabled: the other components have
\* not started, and nothing of theirs is fair before their first step.
Spec ==
    /\ Init /\ [][Next]_vars
    /\ AgentRunFairness
    /\ ControlFairness
    /\ CreationFairness
    /\ HostFairness
    /\ CrewFairness
    /\ ListingFairness
    /\ PlaneFairness
    /\ TransferFairness

-----------------------------------------------------------------------------
(***************************************************************************)
(* Agent runs, in the SDK and in the host of the sandbox (stream.ts, the   *)
(* host's service): a stream gives nothing after a final event, a limit    *)
(* frees the runtime before the consumer is told unless a call on the      *)
(* handle failed, every line counts however the chunks are cut, within one *)
(* iteration a request the proxy may have forwarded is not sent again;     *)
(* turns are first come first served, the slots of the host match its      *)
(* runs, a cancel hits the run it names, and a session id is learned by    *)
(* its own run only.                                                       *)
(***************************************************************************)
AgentRunsSound ==
    /\ OneFinalLast
    /\ LimitFreesRuntime
    /\ ResultFromAllLines
    /\ InvokedOnce
    /\ SseLinesRight
    /\ SlotsAccounted
    /\ FifoTurns
    /\ CancelHitsOwner
    /\ OwnSession

(***************************************************************************)
(* Creation, control and the rate of the control plane (sandbox.ts,        *)
(* control-plane.ts): a create that fails leaves neither a MicroVM nor a   *)
(* lost predecessor's files, "ready" is said of a sandbox whose agent could *)
(* answer, a pause is reported of a VM that ran and then slept, connect     *)
(* wakes what it finds suspended, and queued calls never go over the rate.  *)
(***************************************************************************)
SandboxControlSound ==
    /\ ReadyIsReal
    /\ PauseIsTrue
    /\ ConnectWakes
    /\ NothingLeaks
    /\ FilesSurvive
    /\ NeverOverRate

(***************************************************************************)
(* Staged transfers and listings (transfer.ts, the paginator): a success   *)
(* is a file that arrived whole, an object stays in the staging bucket only *)
(* in the ways the code leaves to the bucket's expiry rule and a multipart  *)
(* upload stays open only when its abort failed; a listing resumed from any *)
(* token gives every sandbox once and its token is accepted.                *)
(***************************************************************************)
TransfersSound ==
    /\ SuccessIsTrue
    /\ NothingLeftInS3
    /\ MultipartSettled
    /\ NoneTwice
    /\ NoneMissed
    /\ TokenAccepted

(***************************************************************************)
(* The supervisor of the deployed application: never two applications at a *)
(* time, a stop leaves no process of the group, and it gives up only on    *)
(* deaths that are close together.                                         *)
(***************************************************************************)
AppSupervisorSound ==
    /\ OneAppAtATime
    /\ StopLeavesNothing
    /\ GivesUpFairly

(***************************************************************************)
(* Every flow ends under the fairness of its own steps: runs end and are   *)
(* answered, waits for a state and creates end (a rejected create is       *)
(* closed), an application comes back or is given up, listings and         *)
(* transfers end, and concurrent first calls get an identity.              *)
(***************************************************************************)
FlowsEnd ==
    /\ RunsEnd
    /\ ControlEnds
    /\ RejectedIsClosed
    /\ CreationEnds
    /\ RunsAnswered
    /\ AppRecovers
    /\ ListingEnds
    /\ IdentityAnswered
    /\ TransferEnds

=============================================================================
