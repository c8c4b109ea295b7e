------------------------------- MODULE Agent --------------------------------
(***************************************************************************)
(* One node's agent: the reconciler's loop (heartbeatOnce and reconcile)   *)
(* and the HTTP handlers of the local API, calling the step-level runtime  *)
(* of ContainerRuntime.tla concurrently, for one container name.  The      *)
(* control plane appears as the agent meets it: it may be down, it may     *)
(* have assigned the workload, and it records the status it is told.       *)
(***************************************************************************)
EXTENDS ContainerRuntime, Naturals

CONSTANTS
    Rec,          \* the caller that is the reconciler's goroutine
    Requests,     \* what the operator asks of the local API
    MaxRequests,  \* bound on the operator's requests
    MaxCrashes,   \* bound on the crashes of the agent
    MaxOutages    \* bound on the control plane's outages

AllRequests == {"create", "stop", "restart"}

ASSUME RecAssumption == Rec \in Callers
ASSUME RequestsAssumption == Requests \subseteq AllRequests
ASSUME BoundsAssumption == {MaxRequests, MaxCrashes, MaxOutages} \subseteq Nat

VARIABLES
    job,        \* what a caller is doing with its current Runtime call
    snapshot,   \* what List told heartbeatOnce about the container
    desired,    \* the control plane has assigned the workload to this node
    status,     \* workloads.state as last reported to the control plane
    cpUp,       \* the control plane can be reached
    heard,      \* the agent has been told, since it started, to run it
    requests,   \* operator requests so far
    crashes,    \* crashes so far
    outages     \* outages so far

cpVars == <<desired, status, cpUp, outages>>
agentVars == <<vars, job, snapshot, cpVars, heard, requests, crashes>>

RecJobs == {"list", "heartbeat", "clear", "start"}
HandlerJobs == {"create", "stop", "find", "restart_stop", "restart_run"}

\* Type correctness of the agent's own state.
AgentTypeOK ==
    /\ job \in [Callers -> RecJobs \cup HandlerJobs \cup {"none"}]
    /\ snapshot \in Results
    /\ desired \in BOOLEAN /\ cpUp \in BOOLEAN /\ heard \in BOOLEAN
    /\ status \in {"pending", "running", "stopped", "unknown"}
    /\ requests \in 0..MaxRequests
    /\ crashes \in 0..MaxCrashes
    /\ outages \in 0..MaxOutages

AgentInit ==
    /\ Init
    /\ job = [c \in Callers |-> "none"]
    /\ snapshot = "none"
    /\ desired = FALSE /\ cpUp = TRUE /\ heard = FALSE
    /\ status = "pending"
    /\ requests = 0 /\ crashes = 0 /\ outages = 0

Returned(c, j) == job[c] = j /\ pc[c] = "idle"
SetJob(c, j) == job' = [job EXCEPT ![c] = j]
-----------------------------------------------------------------------------
(* The reconciler                                                          *)

\* heartbeatOnce begins: on start-up, then on every tick.
Tick ==
    /\ Returned(Rec, "none")
    /\ SetJob(Rec, "list")
    /\ BeginList(Rec)
    /\ UNCHANGED <<snapshot, cpVars, heard, requests, crashes>>

\* Mutant of Listed: an error of List is not noticed.
ListedUnchecked ==
    /\ Returned(Rec, "list")
    /\ SetJob(Rec, "heartbeat")
    /\ snapshot' = result[Rec]
    /\ UNCHANGED <<vars, cpVars, heard, requests, crashes>>

\* List returned: an error skips the heartbeat altogether.
Listed ==
    /\ Returned(Rec, "list")
    /\ SetJob(Rec, IF result[Rec] = "Error" THEN "none" ELSE "heartbeat")
    /\ snapshot' = result[Rec]
    /\ UNCHANGED <<vars, cpVars, heard, requests, crashes>>

\* Mutant of Reported: a status is recorded only for a pending workload.
ReportedOnce ==
    IF desired /\ status = "pending" /\ snapshot # "absent"
      THEN snapshot ELSE status

\* What the heartbeat handler writes: the state of a container it was told
\* of, if the workload is assigned to the node.
Reported ==
    IF desired /\ snapshot # "absent" THEN snapshot ELSE status

\* Mutant of HeartbeatAnswered: a container that is present is left alone.
HeartbeatPresence ==
    /\ Returned(Rec, "heartbeat")
    /\ cpUp
    /\ status' = Reported
    /\ heard' = desired
    /\ \/ /\ ~desired \/ snapshot # "absent"
          /\ SetJob(Rec, "none")
          /\ UNCHANGED vars
       \/ /\ desired /\ snapshot = "absent"
          /\ SetJob(Rec, "start")
          /\ BeginRun(Rec)
    /\ UNCHANGED <<snapshot, desired, cpUp, outages, requests, crashes>>

\* The heartbeat is answered and reconcile looks at the workload: a snapshot
\* that shows it running ends the round, any other record is cleared first.
HeartbeatAnswered ==
    /\ Returned(Rec, "heartbeat")
    /\ cpUp
    /\ status' = Reported
    /\ heard' = desired
    /\ \/ /\ ~desired \/ snapshot = "running"
          /\ SetJob(Rec, "none")
          /\ UNCHANGED vars
       \/ /\ desired /\ snapshot = "absent"
          /\ SetJob(Rec, "start")
          /\ BeginRun(Rec)
       \/ /\ desired /\ snapshot \notin {"absent", "running"}
          /\ SetJob(Rec, "clear")
          /\ BeginStop(Rec)
    /\ UNCHANGED <<snapshot, desired, cpUp, outages, requests, crashes>>

\* The control plane is down, or its answer is lost after it recorded the
\* report: heartbeatOnce returns without reconciling.
HeartbeatFails ==
    /\ Returned(Rec, "heartbeat")
    /\ \/ ~cpUp /\ UNCHANGED status
       \/ cpUp /\ status' = Reported
    /\ SetJob(Rec, "none")
    /\ UNCHANGED <<vars, snapshot, desired, cpUp, outages, heard, requests, crashes>>

\* reconcile: Stop returned; an error other than NotFound skips the workload.
Cleared ==
    /\ Returned(Rec, "clear")
    /\ \/ /\ result[Rec] \in {"ok", "NotFound"}
          /\ SetJob(Rec, "start")
          /\ BeginRun(Rec)
       \/ /\ result[Rec] \notin {"ok", "NotFound"}
          /\ SetJob(Rec, "none")
          /\ UNCHANGED vars
    /\ UNCHANGED <<snapshot, cpVars, heard, requests, crashes>>

\* reconcile: Run returned; its error is only logged.
Started ==
    /\ Returned(Rec, "start")
    /\ SetJob(Rec, "none")
    /\ UNCHANGED <<vars, snapshot, cpVars, heard, requests, crashes>>
-----------------------------------------------------------------------------
(* The handlers of the local API                                           *)

Handlers == Callers \ {Rec}

\* A request arrives: createContainer calls Run, stopContainer Stop,
\* restartContainer looks the container up with List first.
Accept(h, r) ==
    /\ r \in Requests
    /\ requests < MaxRequests
    /\ Returned(h, "none")
    /\ requests' = requests + 1
    /\ \/ r = "create" /\ SetJob(h, "create") /\ BeginRun(h)
       \/ r = "stop" /\ SetJob(h, "stop") /\ BeginStop(h)
       \/ r = "restart" /\ SetJob(h, "find") /\ BeginList(h)
    /\ UNCHANGED <<snapshot, cpVars, heard, crashes>>

\* restartContainer: 404 or 500, or on to Stop.
Found(h) ==
    /\ Returned(h, "find")
    /\ \/ /\ result[h] \notin {"absent", "Error"}
          /\ SetJob(h, "restart_stop")
          /\ BeginStop(h)
       \/ /\ result[h] \in {"absent", "Error"}
          /\ SetJob(h, "none")
          /\ UNCHANGED vars
    /\ UNCHANGED <<snapshot, cpVars, heard, requests, crashes>>

\* restartContainer: a Stop that found nothing is no reason not to Run.
RestartStopped(h) ==
    /\ Returned(h, "restart_stop")
    /\ \/ /\ result[h] \in {"ok", "NotFound"}
          /\ SetJob(h, "restart_run")
          /\ BeginRun(h)
       \/ /\ result[h] \notin {"ok", "NotFound"}
          /\ SetJob(h, "none")
          /\ UNCHANGED vars
    /\ UNCHANGED <<snapshot, cpVars, heard, requests, crashes>>

\* The handler's last Runtime call returned and the reply is written.
Replied(h) ==
    /\ pc[h] = "idle"
    /\ job[h] \in {"create", "stop", "restart_run"}
    /\ SetJob(h, "none")
    /\ UNCHANGED <<vars, snapshot, cpVars, heard, requests, crashes>>
-----------------------------------------------------------------------------
(* The runtime's steps, and the environment                                *)

RuntimeStep(c) ==
    /\ RunStep(c) \/ StopStep(c) \/ ListStep(c)
    /\ UNCHANGED <<job, snapshot, cpVars, heard, requests, crashes>>

ProcessExits ==
    /\ TaskExits
    /\ UNCHANGED <<job, snapshot, cpVars, heard, requests, crashes>>

\* The operator's client goes away; its request's context is cancelled.
ClientGone(h) ==
    /\ Cancel(h)
    /\ UNCHANGED <<job, snapshot, cpVars, heard, requests, crashes>>

\* The agent dies, in whatever it was doing, and is started again.
AgentRestarts ==
    /\ AgentCrash
    /\ crashes < MaxCrashes
    /\ crashes' = crashes + 1
    /\ job' = [c \in Callers |-> "none"]
    /\ heard' = FALSE
    /\ UNCHANGED <<snapshot, cpVars, requests>>

Deploy ==
    /\ ~desired
    /\ desired' = TRUE
    /\ UNCHANGED <<vars, job, snapshot, status, cpUp, outages, heard, requests, crashes>>

ControlPlaneDown ==
    /\ cpUp /\ outages < MaxOutages
    /\ cpUp' = FALSE
    /\ outages' = outages + 1
    /\ UNCHANGED <<vars, job, snapshot, desired, status, heard, requests, crashes>>

ControlPlaneUp ==
    /\ ~cpUp
    /\ cpUp' = TRUE
    /\ UNCHANGED <<vars, job, snapshot, desired, status, outages, heard, requests, crashes>>

Reconcile ==
    \/ Tick \/ Listed \/ HeartbeatAnswered \/ HeartbeatFails
    \/ Cleared \/ Started \/ RuntimeStep(Rec)

Handle(h) ==
    Found(h) \/ RestartStopped(h) \/ Replied(h) \/ RuntimeStep(h)

AgentNext ==
    \/ Reconcile
    \/ \E h \in Handlers :
          \/ \E r \in Requests : Accept(h, r)
          \/ Handle(h)
          \/ ClientGone(h)
    \/ ProcessExits \/ AgentRestarts
    \/ Deploy \/ ControlPlaneDown \/ ControlPlaneUp

\* Goroutines are scheduled, and a heartbeat that reaches a working control
\* plane again and again does not lose every answer.  Nothing makes a
\* request arrive, a process exit, or an outage begin or end.
AgentSpec ==
    /\ AgentInit /\ [][AgentNext]_agentVars
    /\ WF_agentVars(Reconcile)
    /\ SF_agentVars(HeartbeatAnswered)
    /\ \A h \in Handlers : WF_agentVars(Handle(h))

\* Moreover outages end.
ConnectedSpec == AgentSpec /\ WF_agentVars(ControlPlaneUp)
-----------------------------------------------------------------------------
(* Properties                                                              *)

\* The container is there for List to see, and its process runs.
Up == record /\ task = "running"

\* "reconcile starts any desired workload that isn't currently running
\* locally - including one that crashed": a desired workload runs, again and
\* again if its process keeps exiting, outages and lost heartbeats in
\* between notwithstanding.
Converges == desired ~> Up

\* A namespace, CNI state for the name or a task is left without a record,
\* and no operation in progress is going to remove it or to create the
\* record: what is left by an agent that died in the middle of Run, by an
\* undo step that failed, or by a Stop that overlapped a Run.
Orphaned ==
    /\ ~record
    /\ ns \/ cni # "none" \/ task # "none"
    /\ \A c \in Callers :
          pc[c] \notin (RunPc \ {"pull", "netns"}) \cup UndoPc \cup StopPc

\* The same with a crash, a cancelled request and failing undo steps, beside
\* a handler: leftovers that no Stop can find are the only thing that can
\* keep a desired workload from running.
ConvergesUnlessOrphaned == desired ~> (Up \/ Orphaned)

\* The control plane learns the truth: once a desired container stays up,
\* every later heartbeat leaves its status at running.
StatusCatchesUp ==
    <>[](desired /\ Up) => <>[](status = "running")

\* docs/ARCHITECTURE.md:240 "A node agent that loses its connection to the
\* control plane [...] keeps reconciling toward the last desired state it
\* knows about": a workload the agent has been told to run is started again
\* after it exits, with or without the control plane.
KeepsReconciling == (heard /\ task = "stopped") ~> (task = "running" \/ ~heard)
=============================================================================
