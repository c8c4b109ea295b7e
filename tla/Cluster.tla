------------------------------ MODULE Cluster -------------------------------
(***************************************************************************)
(* The whole path of a workload: an operator deploys it through ambudctl   *)
(* or another client, the control plane stores it (WorkloadStore.tla), the *)
(* agent of its node learns of it by a heartbeat and reconciles, container *)
(* by container, beside the local API, and reports back.  Several agents,  *)
(* several workloads, with images and ports.  The runtime is taken by what *)
(* its interface promises (RuntimeApi.tla); Agent.tla looks inside it.     *)
(***************************************************************************)
EXTENDS PortSpec, Naturals, FiniteSets

CONSTANTS
    Reqs,         \* requests to deploy; a request stands for its image too
    Names, Nodes,
    Asked,        \* a request's client, name, node and ports as typed
    Bad,          \* requests whose image can never be pulled
    Local,        \* the image of containers created through the local API
    LocalPorts,   \* the lists of ports they may be created with
    None,
    MaxRequests,  \* bound on requests to the local APIs
    MaxFaults     \* bound on crashes and on heartbeats, Runs and Stops that
                  \* fail once

ASSUME AskedAssumption ==
    \A r \in Reqs : /\ Asked[r].name \in Names /\ Asked[r].node \in Nodes
                    /\ Asked[r].client \in {"ambudctl", "other"}

\* What is typed has numbers and some protocol.  Clients other than ambudctl
\* keep to the wire type: 'Protocol is "tcp" or "udp"; empty defaults to
\* "tcp"' (internal/apitypes/apitypes.go:21), which the API does not verify.
ASSUME PortsAssumption ==
    \A r \in Reqs :
        /\ Asked[r].ports \subseteq [host : Int, container : Int, proto : STRING]
        /\ Asked[r].client = "other" =>
              \A s \in Asked[r].ports : s.proto \in {"", "tcp", "udp"}

ASSUME LocalPortsAssumption ==
    \A P \in LocalPorts :
        P \subseteq [host : 0..MaxPort, container : 0..MaxPort, proto : STRING]
ASSUME BadAssumption == Bad \subseteq Reqs
ASSUME LocalAssumption == Local \notin Reqs /\ None \notin Reqs
ASSUME BoundsAssumption == {MaxRequests, MaxFaults} \subseteq Nat

VARIABLES
    rows, status,  \* the store: see WorkloadStore.tla
    desired,       \* the desired state an agent has been told, or None
    box,           \* a node's containers: image, ports label and state
    stage,         \* where an agent is in heartbeatOnce
    seen,          \* the states its List returned
    todo,          \* the desired workloads reconcile has still to look at
    clearing,      \* the one whose stale container it has just removed
    op,            \* a restartContainer in progress
    touched,       \* ghost: names the local API has run since that List
    requests, faults

storeVars == <<rows, status, desired>>
agentVars == <<stage, seen, todo, clearing>>
counters == <<requests, faults>>
vars == <<storeVars, box, agentVars, op, touched, counters>>

States == {"running", "stopped"}

\* What the client sends: ambudctl parses every port and sends nothing if
\* one is wrong; another client sends what it likes, if it can be decoded.
Sends(q) ==
    \A s \in q.ports : IF q.client = "ambudctl" THEN Accepts(s) ELSE Decodes(s)

Sent(q) == IF q.client = "ambudctl" THEN {ParsePortSpec(s) : s \in q.ports} ELSE q.ports

Stored(q) == {Normalise(p) : p \in Sent(q)}

Store == INSTANCE WorkloadStore WITH
    PortSets <- {Stored(Asked[r]) : r \in Reqs}, Beats <- Nodes, answers <- desired,
    NoRow <- None, NoAnswer <- None

\* A container, and the restart of one.
Ports == UNION (LocalPorts \cup {Stored(Asked[r]) : r \in Reqs})
Image == Reqs \cup {Local}
Container == [image : Image, ports : SUBSET Ports, state : States]
Restart == [next : {"stop", "run"}, name : Names, image : Image, ports : SUBSET Ports]

\* Type correctness: containers and agents only hold what requests brought.
ClusterTypeOK ==
    /\ rows \in [Reqs -> Store!Row \cup {None}]
    /\ status \in [Reqs -> States \cup {"pending"}]
    /\ box \in [Nodes -> [Names -> Container \cup {None}]]
    /\ stage \in [Nodes -> {"idle", "asked", "recorded", "reconcile"}]
    /\ seen \in [Nodes -> [Names -> States \cup {"absent"}]]
    /\ todo \in [Nodes -> SUBSET Reqs]
    /\ DOMAIN desired = Nodes
    /\ \A n \in Nodes : desired[n] # None => todo[n] \subseteq DOMAIN desired[n]
    /\ clearing \in [Nodes -> Reqs \cup {None}]
    /\ \A n \in Nodes : clearing[n] \in todo[n] \cup {None}
    /\ op \in [Nodes -> Restart \cup {None}]
    /\ touched \in [Nodes -> SUBSET Names]
    /\ requests \in 0..MaxRequests /\ faults \in 0..MaxFaults

Nothing == [w \in Names |-> "absent"]

Init ==
    /\ Store!Init
    /\ box = [n \in Nodes |-> [w \in Names |-> None]]
    /\ stage = [n \in Nodes |-> "idle"]
    /\ seen = [n \in Nodes |-> Nothing]
    /\ todo = [n \in Nodes |-> {}]
    /\ clearing = [n \in Nodes |-> None]
    /\ op = [n \in Nodes |-> None]
    /\ touched = [n \in Nodes |-> {}]
    /\ requests = 0 /\ faults = 0
-----------------------------------------------------------------------------
(* Deploying                                                               *)

\* ambudctl deploy, createWorkload and CreateWorkload.  A request that is
\* refused changes nothing, and may be repeated.
Deploy(r) ==
    /\ Sends(Asked[r])
    /\ Store!CreateWorkload(r, [name |-> Asked[r].name, node |-> Asked[r].node,
                                ports |-> Stored(Asked[r])])
    /\ UNCHANGED <<box, agentVars, op, touched, counters>>
-----------------------------------------------------------------------------
(* The Runtime's operations                                                *)

MayFail == faults < MaxFaults /\ faults' = faults + 1

Put(n, w, c) == box' = [box EXCEPT ![n][w] = c]

\* CNI's portmap does not mind a host port that another container forwards.
Run(n, w, image, ports) ==
    /\ box[n][w] = None
    /\ image \notin Bad
    /\ Put(n, w, [image |-> image, ports |-> ports, state |-> "running"])
    /\ UNCHANGED faults

\* Run fails: the name is taken, or the image cannot be pulled, or some step
\* of it fails and is undone.
RunFails(n, w, image) ==
    /\ \/ (box[n][w] # None \/ image \in Bad) /\ UNCHANGED faults
       \/ MayFail
    /\ UNCHANGED box

\* Stop; finding nothing is as good to both of its callers here.
Stop(n, w) == Put(n, w, None) /\ UNCHANGED faults

StopFails == MayFail /\ UNCHANGED box

Exits(n, w) ==
    /\ box[n][w] # None /\ box[n][w].state = "running"
    /\ Put(n, w, [box[n][w] EXCEPT !.state = "stopped"])
    /\ UNCHANGED <<storeVars, agentVars, op, touched, counters>>
-----------------------------------------------------------------------------
(* The agent's loop                                                        *)

GoTo(n, s) == stage' = [stage EXCEPT ![n] = s]

\* heartbeatOnce begins: List.
ListContainers(n) ==
    /\ stage[n] = "idle"
    /\ GoTo(n, "asked")
    /\ seen' = [seen EXCEPT ![n] =
          [w \in Names |-> IF box[n][w] = None THEN "absent" ELSE box[n][w].state]]
    /\ touched' = [touched EXCEPT ![n] = {}]
    /\ UNCHANGED <<storeVars, box, todo, clearing, op, counters>>

\* The control plane records the report.
RecordReport(n) ==
    /\ stage[n] = "asked"
    /\ Store!UpdateWorkloadStatus(n, seen[n])
    /\ GoTo(n, "recorded")
    /\ UNCHANGED <<box, seen, todo, clearing, op, touched, counters>>

\* The control plane answers with the node's desired state.  reconcile takes
\* the workloads in the order of their creation; any order is allowed here.
Answer(n) ==
    /\ stage[n] = "recorded"
    /\ Store!ListWorkloadsForNode(n, n)
    /\ todo' = [todo EXCEPT ![n] = Store!Assigned(n)]
    /\ GoTo(n, "reconcile")
    /\ UNCHANGED <<box, seen, clearing, op, touched, counters>>

\* heartbeatOnce returns.
Return(n) ==
    /\ GoTo(n, "idle")
    /\ seen' = [seen EXCEPT ![n] = Nothing]
    /\ desired' = [desired EXCEPT ![n] = None]
    /\ todo' = [todo EXCEPT ![n] = {}]
    /\ clearing' = [clearing EXCEPT ![n] = None]

\* The control plane is unreachable, fails after recording some of the
\* report, or its answer is lost.
HeartbeatFails(n) ==
    /\ MayFail
    /\ \/ /\ stage[n] = "asked"
          /\ \E D \in SUBSET Names :
                status' = Store!Recorded(n,
                    [w \in Names |-> IF w \in D THEN seen[n][w] ELSE "absent"])
       \/ stage[n] = "recorded" /\ UNCHANGED status
    /\ Return(n)
    /\ UNCHANGED <<rows, box, op, touched, requests>>

\* Mutant of Done: a flag of the last workload is still set for the next.
DoneKeepsFlag(n, r) ==
    todo' = [todo EXCEPT ![n] = @ \ {r}] /\ UNCHANGED clearing

\* reconcile is done with workload r.
Done(n, r) ==
    /\ todo' = [todo EXCEPT ![n] = @ \ {r}]
    /\ clearing' = [clearing EXCEPT ![n] = None]

\* The state of workload r's name in the List.
SeenState(n, r) == seen[n][rows[r].name]

Reconciling(n, r) ==
    /\ stage[n] = "reconcile" /\ r \in todo[n]
    /\ clearing[n] \in {None, r}
    /\ UNCHANGED <<storeVars, stage, seen, op, touched, requests>>

\* The List showed it running: nothing to do.
LeaveAlone(n, r) ==
    /\ Reconciling(n, r)
    /\ SeenState(n, r) = "running"
    /\ Done(n, r)
    /\ UNCHANGED <<box, faults>>

\* Mutant of ClearStale: whatever exists is cleared.
ClearAny(n, r) ==
    /\ Reconciling(n, r)
    /\ SeenState(n, r) # "absent" /\ clearing[n] = None
    /\ Stop(n, rows[r].name)
    /\ clearing' = [clearing EXCEPT ![n] = r]
    /\ UNCHANGED todo

\* The List showed a container that is not running: Stop it; on an error go
\* on to the next workload.
ClearStale(n, r) ==
    /\ Reconciling(n, r)
    /\ SeenState(n, r) = "stopped" /\ clearing[n] = None
    /\ \/ /\ Stop(n, rows[r].name)
          /\ clearing' = [clearing EXCEPT ![n] = r]
          /\ UNCHANGED todo
       \/ StopFails /\ Done(n, r)

\* Mutant of Start: an error ends the round.
StartOrReturn(n, r) ==
    /\ Reconciling(n, r)
    /\ SeenState(n, r) = "absent" \/ clearing[n] = r
    /\ \/ Run(n, rows[r].name, r, desired[n][r]) /\ Done(n, r)
       \/ /\ RunFails(n, rows[r].name, r)
          /\ todo' = [todo EXCEPT ![n] = {}]
          /\ clearing' = [clearing EXCEPT ![n] = None]

\* Run it with its ports; an error is only logged.
Start(n, r) ==
    /\ Reconciling(n, r)
    /\ SeenState(n, r) = "absent" \/ clearing[n] = r
    /\ \/ Run(n, rows[r].name, r, desired[n][r])
       \/ RunFails(n, rows[r].name, r)
    /\ Done(n, r)

EndRound(n) ==
    /\ stage[n] = "reconcile" /\ todo[n] = {}
    /\ Return(n)
    /\ UNCHANGED <<rows, status, box, op, touched, counters>>

Reconcile(n) ==
    \/ ListContainers(n) \/ RecordReport(n) \/ Answer(n) \/ HeartbeatFails(n)
    \/ \E r \in Reqs : LeaveAlone(n, r) \/ ClearStale(n, r) \/ Start(n, r)
    \/ EndRound(n)
-----------------------------------------------------------------------------
(* The local API                                                           *)

Touch(n, w) == touched' = [touched EXCEPT ![n] = @ \cup {w}]

AcceptRequest ==
    /\ requests < MaxRequests
    /\ requests' = requests + 1
    /\ UNCHANGED <<storeVars, agentVars>>

\* createContainer, through ambudctl run, with the ports it is sent, which
\* no table guards; a failure changes nothing.
CreateContainer(n, w) ==
    /\ AcceptRequest
    /\ \E p \in LocalPorts : Run(n, w, Local, p)
    /\ Touch(n, w)
    /\ UNCHANGED op

\* stopContainer.
StopContainer(n, w) ==
    /\ AcceptRequest
    /\ box[n][w] # None
    /\ Stop(n, w)
    /\ UNCHANGED <<op, touched>>

\* restartContainer looks the image and the ports up ...
FindContainer(n, w) ==
    /\ AcceptRequest
    /\ op[n] = None /\ box[n][w] # None
    /\ op' = [op EXCEPT ![n] = [next |-> "stop", name |-> w,
                 image |-> box[n][w].image, ports |-> box[n][w].ports]]
    /\ UNCHANGED <<box, touched, faults>>

Restarting(n, step) ==
    /\ op[n] # None /\ op[n].next = step
    /\ UNCHANGED <<storeVars, agentVars, requests>>

\* ... stops the container ...
RestartStop(n) ==
    /\ Restarting(n, "stop")
    /\ \/ Stop(n, op[n].name) /\ op' = [op EXCEPT ![n].next = "run"]
       \/ StopFails /\ op' = [op EXCEPT ![n] = None]
    /\ UNCHANGED touched

\* Mutant of RestartRun: the ports are not looked up.
RestartRunBare(n) ==
    /\ Restarting(n, "run")
    /\ Run(n, op[n].name, op[n].image, {}) /\ Touch(n, op[n].name)
    /\ op' = [op EXCEPT ![n] = None]

\* ... and runs it again, or fails to, with nothing to go back to.
RestartRun(n) ==
    /\ Restarting(n, "run")
    /\ \/ Run(n, op[n].name, op[n].image, op[n].ports) /\ Touch(n, op[n].name)
       \/ RunFails(n, op[n].name, op[n].image) /\ UNCHANGED touched
    /\ op' = [op EXCEPT ![n] = None]

\* The agent dies and is started again; its containers live on.
Crash(n) ==
    /\ MayFail
    /\ Return(n)
    /\ op' = [op EXCEPT ![n] = None]
    /\ UNCHANGED <<rows, status, box, touched, requests>>

Next ==
    \/ \E r \in Reqs : Deploy(r)
    \/ \E n \in Nodes :
          \/ Reconcile(n) \/ RestartStop(n) \/ RestartRun(n) \/ Crash(n)
          \/ \E w \in Names : \/ Exits(n, w)
                              \/ CreateContainer(n, w) \/ StopContainer(n, w)
                              \/ FindContainer(n, w)

\* Goroutines are scheduled, and tickers go on.
Fairness ==
    \A n \in Nodes :
        /\ WF_vars(Reconcile(n))
        /\ WF_vars(RestartStop(n) \/ RestartRun(n))

Spec == Init /\ [][Next]_vars /\ Fairness
-----------------------------------------------------------------------------
(* Properties                                                              *)

\* What is reachable from outside: the ports network.setup passes to CNI.
Forwarded(c) == {Setup(p) : p \in c.ports}

\* What an operator means by a port, said independently of the code: the
\* protocol in any case of letters, tcp if there is none.
Meant(s) == [s EXCEPT !.proto =
    IF @ \in {NoProto, "", "tcp", "TCP"} THEN "tcp" ELSE "udp"]

\* The container is one of a deployed workload, by its image.
Deployed(n, w) == box[n][w] # None /\ box[n][w].image # Local

\* Both numbers of a port mapping are from 1 to 65535.
InRange(s) == {s.host, s.container} \subseteq 1..MaxPort

\* From what was typed to the network: a container with a deployed image is
\* on the workload's node, under its name, and forwards exactly the ports
\* that were asked for, after any number of restarts by the reconciler or
\* the local API; through ambudctl no port comes, of the host or of the
\* container, that is not from 1 to 65535.  (heartbeat.go:86 says so of every
\* port in the store; but the API and the table take 0 from other clients.)
RunsAsDeployed ==
    \A n \in Nodes, w \in Names :
        Deployed(n, w) =>
            LET q == Asked[box[n][w].image]
            IN  /\ q.node = n /\ q.name = w
                /\ Forwarded(box[n][w]) = {Meant(s) : s \in q.ports}
                /\ q.client = "ambudctl" => \A s \in q.ports : InRange(s)

\* "two workloads on the same node cannot claim the same host port", end to
\* end: no two containers of deployed workloads forward the same host port
\* and protocol of their node.  (One created through the local API may.)
HostPortsDisjoint ==
    \A n \in Nodes : \A v, w \in Names :
        v # w /\ Deployed(n, v) /\ Deployed(n, w)
        => \A p \in Forwarded(box[n][v]), q \in Forwarded(box[n][w]) :
              <<p.host, p.proto>> # <<q.host, q.proto>>

\* Fail static: the reconciler ends a running container only in the one race
\* the code leaves open, when the local API has run that name since the List
\* in which the reconciler saw it stopped.
ReconcilerSparesRunning ==
    [][\A n \in Nodes, w \in Names :
          /\ box[n][w] # None /\ box[n][w].state = "running"
          /\ box'[n][w] = None
          /\ todo'[n] # todo[n] \/ clearing'[n] # clearing[n]
          => w \in touched[n]]_vars

\* The container of r's name on its node.
Where(r) == box[Asked[r].node][Asked[r].name]

Up(r) == rows[r] # None /\ Where(r) # None /\ Where(r).state = "running"

\* A deployed workload runs, again and again, whatever is lost, crashes or
\* fails once on the way, and although another workload of the node can
\* never be started.  The exception is a container of its name that was
\* created through the local API and never exits: reconcile goes by the name
\* alone and takes it for the workload.  (A Run interrupted by a crash is one
\* step here, done or not; Agent.tla says what else it may leave behind.)
DeployedRuns ==
    \A r \in Reqs \ Bad :
        rows[r] # None ~> \/ Up(r) /\ Where(r).image = r
                          \/ [](Up(r) /\ Where(r).image = Local)

\* The operator sees the truth: a workload that stays up is shown running
\* for good in the end.
StatusTrue ==
    \A r \in Reqs : <>[]Up(r) => <>[](status[r] = "running")
=============================================================================
