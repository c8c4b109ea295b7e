---------------------------- MODULE AgentProofs -----------------------------
(***************************************************************************)
(* Proofs about Agent.tla, for any number of handlers, requests, crashes,  *)
(* outages and faults.  Whatever the reconciler and the handlers do, they  *)
(* do it to the node through the Runtime's operations: the agent's         *)
(* specification implements ContainerRuntime's, and what is proved of that *)
(* one (ContainerRuntimeProofs.tla, RuntimeApiProofs.tla) holds of the     *)
(* agent.                                                                  *)
(***************************************************************************)
EXTENDS Agent, RuntimeApiProofs

\* Everything the agent does is a step of the Runtime or leaves it alone.
LEMMA AgentStep ==
    ASSUME [AgentNext]_agentVars PROVE [Next]_vars
<1>1. ASSUME NEW c \in Callers, BeginRun(c) \/ BeginStop(c) \/ BeginList(c) PROVE Next
    BY <1>1 DEF Next
<1>2. Rec \in Callers BY RecAssumption
<1>3. CASE Tick BY <1>1, <1>2, <1>3 DEF Tick
<1>4. CASE Listed \/ HeartbeatFails \/ Started
    BY <1>4 DEF Listed, HeartbeatFails, Started
<1>5. CASE HeartbeatAnswered BY <1>1, <1>2, <1>5 DEF HeartbeatAnswered
<1>6. CASE Cleared BY <1>1, <1>2, <1>6 DEF Cleared
<1>7. ASSUME NEW c \in Callers, RuntimeStep(c) PROVE Next
    BY <1>7 DEF RuntimeStep, Next
<1>8. ASSUME NEW h \in Handlers, NEW r \in Requests, Accept(h, r) PROVE Next
    BY <1>1, <1>8 DEF Accept, Handlers
<1>9. ASSUME NEW h \in Handlers, Handle(h) \/ ClientGone(h) PROVE [Next]_vars
    <2>0. h \in Callers BY DEF Handlers
    <2>1. CASE Found(h) BY <1>1, <2>0, <2>1 DEF Found
    <2>2. CASE RestartStopped(h) BY <1>1, <2>0, <2>2 DEF RestartStopped
    <2>3. CASE Replied(h) BY <2>3 DEF Replied
    <2>4. CASE ClientGone(h) BY <2>0, <2>4 DEF ClientGone, Next
    <2>5. QED BY <1>7, <1>9, <2>0, <2>1, <2>2, <2>3, <2>4 DEF Handle
<1>10. CASE ProcessExits \/ AgentRestarts
    BY <1>10 DEF ProcessExits, AgentRestarts, Next
<1>11. CASE Deploy \/ ControlPlaneDown \/ ControlPlaneUp
    BY <1>11 DEF Deploy, ControlPlaneDown, ControlPlaneUp
<1>12. CASE UNCHANGED agentVars BY <1>12 DEF agentVars
<1>13. QED
    BY <1>2, <1>3, <1>4, <1>5, <1>6, <1>7, <1>8, <1>9, <1>10, <1>11, <1>12
    DEF AgentNext, Reconcile

\* The reconciler and the handlers together use the Runtime the way its
\* specification lets concurrent callers use it.
THEOREM AgentUsesRuntime == AgentSpec => Spec
<1>1. AgentInit => Init BY DEF AgentInit
<1>2. [AgentNext]_agentVars => [Next]_vars BY AgentStep
<1>3. QED BY <1>1, <1>2, PTL DEF AgentSpec, Spec

\* As long as nobody uses the local API the reconciler is the only caller,
\* and its workload, while it runs, has its network: through crashes of the
\* agent, failures of every kind and the Stops of reconcile itself.
THEOREM ReconcilerKeepsReachable ==
    ASSUME Callers = {Rec} PROVE AgentSpec => []RunningReachable
<1>1. OneAtATime BY DEF OneAtATime
<1>2. Spec => []RunningReachable BY <1>1, TurnsKeepReachable
<1>3. QED BY <1>2, AgentUsesRuntime, PTL

\* And unless it dies or an undo step fails, its Runs, Stops and Lists are
\* what the interface promises: what Cluster.tla builds on.
THEOREM ReconcilerUsesApi ==
    ASSUME Callers = {Rec}, Faults \subseteq {"step", "cleanup"}
    PROVE  AgentSpec => ImplementsRuntime
<1>1. TurnsTaken BY DEF OneAtATime, TurnsTaken
<1>2. Spec => ImplementsRuntime BY <1>1, RuntimeRefines
<1>3. QED BY <1>2, AgentUsesRuntime, PTL
-----------------------------------------------------------------------------
(* The types                                                               *)

\* What List says of a container, or that it failed.
ListReplies == {"absent", "running", "stopped", "unknown", "Error"}

\* The reconciler's List returns an answer of List.
ListCalls ==
    \A c \in Callers : job[c] = "list" =>
        \/ pc[c] \in ListPc
        \/ pc[c] = "idle" /\ result[c] \in ListReplies

\* A heartbeat that is sent reports what a List that did not fail has said.
Truthful == job[Rec] = "heartbeat" => snapshot \in ListReplies \ {"Error"}

\* The inductive invariant.
AgentInv == TypeOK /\ AgentTypeOK /\ ListCalls /\ Truthful

\* A caller that is in List stays there until List returns.
LEMMA ListReturns ==
    ASSUME TypeOK, NEW c \in Callers, pc[c] \in ListPc,
           RunStep(c) \/ StopStep(c) \/ ListStep(c)
    PROVE  \/ pc'[c] \in ListPc
           \/ pc'[c] = "idle" /\ result'[c] \in ListReplies
<1> USE DEF TypeOK, ListPc, Goto, Fail, Return
<1>1. CASE RunStep(c)
    BY <1>1 DEF RunStep, PullImage, CreateNetNS, NewContainer, SetupNetwork, NewTask,
        StartTask, UndoTask, UndoNetwork, UndoCheck, UndoContainer, UndoNetNS
<1>2. CASE StopStep(c)
    BY <1>2 DEF StopStep, LoadContainer, LoadTask, TaskStatus, KillTask, DeleteTask,
        Teardown, RemoveNetNS, DeleteCheck, DeleteContainer
<1>3. CASE ListStep(c)
    BY <1>3 DEF ListStep, ListContainers, ContainerInfo, ListTask, ListStatus, ListReplies
<1>4. QED BY <1>1, <1>2, <1>3

\* The reconciler's part of the invariant.
LEMMA ReconcileTypes ==
    ASSUME AgentInv, TypeOK', Reconcile
    PROVE  AgentTypeOK' /\ ListCalls' /\ Truthful'
<1>0. Rec \in Callers BY RecAssumption
<1> USE <1>0 DEF AgentInv, TypeOK, AgentTypeOK, ListCalls, Truthful, RecJobs, HandlerJobs,
        SetJob, Returned, cpVars, vars, Begin, BeginList, BeginRun, BeginStop
<1>1. CASE Tick BY <1>1 DEF Tick, ListPc
<1>2. CASE Listed BY <1>2 DEF Listed, ListPc, ListReplies
<1>3. CASE HeartbeatAnswered \/ HeartbeatFails
    <2>1. job[Rec] = "heartbeat" /\ Reported \in {"pending", "running", "stopped", "unknown"}
        BY <1>3 DEF HeartbeatAnswered, HeartbeatFails, Reported, ListReplies
    <2>2. CASE HeartbeatAnswered BY <2>1, <2>2 DEF HeartbeatAnswered
    <2>3. CASE HeartbeatFails BY <2>1, <2>3 DEF HeartbeatFails
    <2>4. QED BY <1>3, <2>2, <2>3
<1>4. CASE Cleared BY <1>4 DEF Cleared
<1>5. CASE Started BY <1>5 DEF Started
<1>6. CASE RuntimeStep(Rec) BY <1>6, CallerStep, ListReturns DEF RuntimeStep
<1>7. QED BY <1>1, <1>2, <1>3, <1>4, <1>5, <1>6 DEF Reconcile

\* The handlers' part.
LEMMA HandlerTypes ==
    ASSUME AgentInv, TypeOK', NEW h \in Handlers,
           (\E r \in Requests : Accept(h, r)) \/ Handle(h) \/ ClientGone(h)
    PROVE  AgentTypeOK' /\ ListCalls' /\ Truthful'
<1>0. h \in Callers /\ h # Rec /\ Rec \in Callers BY RecAssumption DEF Handlers
<1> USE <1>0 DEF AgentInv, TypeOK, AgentTypeOK, ListCalls, Truthful, RecJobs, HandlerJobs,
        SetJob, Returned, cpVars, vars, Begin, BeginList, BeginRun, BeginStop
<1>1. ASSUME NEW r \in Requests, Accept(h, r)
      PROVE  AgentTypeOK' /\ ListCalls' /\ Truthful'
    <2>1. requests' \in 0..MaxRequests BY <1>1, BoundsAssumption DEF Accept
    <2>2. QED BY <1>1, <2>1 DEF Accept
<1>2. CASE Found(h) BY <1>2 DEF Found
<1>3. CASE RestartStopped(h) BY <1>3 DEF RestartStopped
<1>4. CASE Replied(h) BY <1>4 DEF Replied
<1>5. CASE RuntimeStep(h) BY <1>5, CallerStep, ListReturns DEF RuntimeStep
<1>6. CASE ClientGone(h) BY <1>6 DEF ClientGone, Cancel
<1>7. QED BY <1>1, <1>2, <1>3, <1>4, <1>5, <1>6 DEF Handle

\* What happens around the agent.
LEMMA EnvironmentTypes ==
    ASSUME AgentInv, TypeOK',
           \/ ProcessExits \/ AgentRestarts
           \/ Deploy \/ ControlPlaneDown \/ ControlPlaneUp \/ UNCHANGED agentVars
    PROVE  AgentTypeOK' /\ ListCalls' /\ Truthful'
<1>0. Rec \in Callers BY RecAssumption
<1> USE <1>0 DEF AgentInv, TypeOK, AgentTypeOK, ListCalls, Truthful, RecJobs, HandlerJobs,
        cpVars, vars
<1>1. CASE ProcessExits BY <1>1 DEF ProcessExits, TaskExits
<1>2. CASE AgentRestarts
    <2>1. crashes' \in 0..MaxCrashes BY <1>2, BoundsAssumption DEF AgentRestarts
    <2>2. heard' \in BOOLEAN BY Zenon, <1>2 DEF AgentRestarts
    <2>3. QED BY <1>2, <2>1, <2>2 DEF AgentRestarts
<1>3. CASE Deploy
    <2>1. desired' \in BOOLEAN BY Zenon, <1>3 DEF Deploy
    <2>2. QED BY <1>3, <2>1 DEF Deploy
<1>4. CASE ControlPlaneDown
    <2>1. cpUp' \in BOOLEAN BY Zenon, <1>4 DEF ControlPlaneDown
    <2>2. outages' \in 0..MaxOutages BY <1>4, BoundsAssumption DEF ControlPlaneDown
    <2>3. QED BY <1>4, <2>1, <2>2 DEF ControlPlaneDown
<1>5. CASE ControlPlaneUp
    <2>1. cpUp' \in BOOLEAN BY Zenon, <1>5 DEF ControlPlaneUp
    <2>2. QED BY <1>5, <2>1 DEF ControlPlaneUp
<1>6. CASE UNCHANGED agentVars BY <1>6 DEF agentVars
<1>7. QED BY <1>1, <1>2, <1>3, <1>4, <1>5, <1>6

\* The agent's state keeps its types: in particular the control plane is
\* only ever told a state that a container can have, never the error of a
\* List or the absence of a container.
THEOREM AgentTypes == AgentSpec => []AgentTypeOK
<1>1. AgentInit => AgentInv
    <2> SUFFICES ASSUME AgentInit PROVE AgentInv OBVIOUS
    <2>1. TypeOK BY DEF AgentInit, Init, TypeOK, Results, Busy
    <2>2. desired \in BOOLEAN /\ cpUp \in BOOLEAN /\ heard \in BOOLEAN
        BY Zenon DEF AgentInit
    <2>3. AgentTypeOK
        BY <2>2, BoundsAssumption DEF AgentInit, AgentTypeOK, Results
    <2>4. QED
        BY <2>1, <2>3, RecAssumption DEF AgentInit, AgentInv, ListCalls, Truthful
<1>2. AgentInv /\ [AgentNext]_agentVars => AgentInv'
    <2> SUFFICES ASSUME AgentInv, [AgentNext]_agentVars PROVE AgentInv' OBVIOUS
    <2>1. TypeOK'
        BY AgentStep, RunTypes, StopTypes, OtherTypes DEF AgentInv, Next
    <2>2. QED
        BY <2>1, ReconcileTypes, HandlerTypes, EnvironmentTypes DEF AgentInv, AgentNext
<1>3. AgentInv => AgentTypeOK BY DEF AgentInv
<1>4. QED BY <1>1, <1>2, <1>3, PTL DEF AgentSpec
=============================================================================
