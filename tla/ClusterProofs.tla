--------------------------- MODULE ClusterProofs ----------------------------
(***************************************************************************)
(* Proofs about Cluster.tla, for any nodes, names and requests, any bound  *)
(* on requests to the local APIs and any bound on faults.                  *)
(*                                                                         *)
(* What was asked for travels through copies: the store's row, the desired *)
(* state an agent holds, the container, and what a restart remembers of    *)
(* it.  The invariant says that every copy in use agrees with the request  *)
(* (RowInv, TodoInv, BoxInv, OpInv), that the rows exclude each other      *)
(* (UniqueInv), and that what an agent has listed as stopped has not been  *)
(* started since by anyone but the local API (SeenInv).                    *)
(***************************************************************************)
EXTENDS Cluster, TLAPS

\* A row is what its request asked for, and was sent.
RowInv ==
    \A r \in Reqs : rows[r] # None =>
        /\ Sends(Asked[r])
        /\ rows[r] = [name |-> Asked[r].name, node |-> Asked[r].node,
                      ports |-> Stored(Asked[r])]

\* Two rows have neither a name nor a port of a node in common.
UniqueInv ==
    \A r, o \in Reqs :
        /\ rows[r] # None /\ rows[o] # None /\ r # o
        => /\ Asked[r].name # Asked[o].name
           /\ Store!Claims(rows[r]) \cap Store!Claims(rows[o]) = {}

\* An agent only reconciles workloads of its node, with their ports.
TodoInv ==
    \A n \in Nodes : \A r \in todo[n] :
        /\ stage[n] = "reconcile"
        /\ rows[r] # None /\ Asked[r].node = n
        /\ desired[n][r] = Stored(Asked[r])

\* What runs on node n as w is a deployed workload with its ports, or comes
\* from the local API.
Genuine(n, w, c) ==
    \/ c.image = Local
    \/ /\ c.image \in Reqs /\ rows[c.image] # None
       /\ Asked[c.image].node = n /\ Asked[c.image].name = w
       /\ c.ports = Stored(Asked[c.image])

\* Every container on a node is genuine.
BoxInv == \A n \in Nodes, w \in Names : box[n][w] # None => Genuine(n, w, box[n][w])

\* So is what a restart has found and is going to run.
OpInv == \A n \in Nodes : op[n] # None => Genuine(n, op[n].name, op[n])

\* The container w of n runs.
Running(n, w) == box[n][w] # None /\ box[n][w].state = "running"

\* A container that was listed as stopped and runs by now was run by the
\* local API, or by the agent itself, which is done with it.
SeenInv ==
    /\ \A n \in Nodes, w \in Names :
          /\ stage[n] \in {"asked", "recorded"}
          /\ seen[n][w] = "stopped" /\ Running(n, w)
          => w \in touched[n]
    /\ \A n \in Nodes : \A r \in todo[n] :
          /\ SeenState(n, r) = "stopped" /\ clearing[n] # r
          /\ Running(n, Asked[r].name)
          => Asked[r].name \in touched[n]

\* The inductive invariant.
IInv ==
    /\ ClusterTypeOK
    /\ RowInv
    /\ UniqueInv
    /\ TodoInv
    /\ BoxInv
    /\ OpInv
    /\ SeenInv
-----------------------------------------------------------------------------
(* Types                                                                   *)

\* The ports of a request are ports.
LEMMA StoredPorts ==
    ASSUME NEW r \in Reqs PROVE Stored(Asked[r]) \in SUBSET Ports
BY DEF Ports

\* The row that a request asks for.
LEMMA AskedRow ==
    ASSUME NEW r \in Reqs
    PROVE  [name |-> Asked[r].name, node |-> Asked[r].node,
            ports |-> Stored(Asked[r])] \in Store!Row
BY AskedAssumption DEF Store!Row

\* Recording a report of a node yields a status column.
LEMMA RecordedType ==
    ASSUME ClusterTypeOK, NEW n \in Nodes, NEW rep \in [Names -> States \cup {"absent"}]
    PROVE  Store!Recorded(n, rep) \in [Reqs -> States \cup {"pending"}]
<1>1. \A r \in Store!Assigned(n) : rows[r].name \in Names
    BY DEF Store!Assigned, Store!Existing, Store!Row, ClusterTypeOK
<1>2. QED BY <1>1 DEF Store!Recorded, ClusterTypeOK

\* A failure is counted within its bound.
LEMMA FailureCounted ==
    ASSUME faults \in 0..MaxFaults, MayFail PROVE faults' \in 0..MaxFaults
BY BoundsAssumption DEF MayFail

\* The types of the boxes and of faults after an operation of the runtime.
BoxTypes ==
    /\ box \in [Nodes -> [Names -> Container \cup {None}]]
    /\ faults \in 0..MaxFaults

\* Each operation of the runtime keeps the containers' types.
LEMMA RuntimeTypes ==
    ASSUME BoxTypes, NEW n \in Nodes, NEW w \in Names
    PROVE  /\ \A i \in Image, p \in SUBSET Ports : Run(n, w, i, p) => BoxTypes'
           /\ \A i \in Image : RunFails(n, w, i) => BoxTypes'
           /\ Stop(n, w) => BoxTypes'
           /\ StopFails => BoxTypes'
<1>1. ASSUME NEW c \in Container \cup {None}, Put(n, w, c)
      PROVE  box' \in [Nodes -> [Names -> Container \cup {None}]]
    BY <1>1 DEF BoxTypes, Put
<1>2. ASSUME NEW i \in Image, NEW p \in SUBSET Ports, Run(n, w, i, p)
      PROVE  BoxTypes'
    <2>1. [image |-> i, ports |-> p, state |-> "running"] \in Container
        BY DEF Container, States
    <2>2. QED BY <1>1, <1>2, <2>1 DEF Run, BoxTypes
<1>3. Stop(n, w) => BoxTypes' BY <1>1 DEF Stop, BoxTypes
<1>4. StopFails => BoxTypes' BY FailureCounted DEF StopFails, BoxTypes
<1>5. ASSUME NEW i \in Image, RunFails(n, w, i) PROVE BoxTypes'
    BY <1>5, FailureCounted DEF RunFails, BoxTypes
<1>6. QED BY <1>2, <1>3, <1>4, <1>5

\* The steps of the agent's loop preserve the types,
LEMMA LoopTypes ==
    ASSUME ClusterTypeOK, RowInv, TodoInv, NEW n \in Nodes, Reconcile(n)
    PROVE  ClusterTypeOK'
<1> USE DEF ClusterTypeOK, storeVars, counters, agentVars
<1>1. CASE ListContainers(n)
    <2>1. \A w \in Names : box[n][w] # None => box[n][w].state \in States
        BY DEF Container
    <2>2. QED BY <1>1, <2>1 DEF ListContainers, GoTo
<1>2. CASE RecordReport(n)
    BY <1>2, RecordedType DEF RecordReport, GoTo, Store!UpdateWorkloadStatus
<1>3. CASE Answer(n)
    <2>1. Store!Assigned(n) \subseteq Reqs
        BY DEF Store!Assigned, Store!Existing
    <2>2. clearing[n] = None
        BY <1>3 DEF Answer, TodoInv
    <2>3. QED BY <1>3, <2>1, <2>2 DEF Answer, GoTo, Store!ListWorkloadsForNode
<1>4. ASSUME Return(n)
      PROVE  /\ stage' \in [Nodes -> {"idle", "asked", "recorded", "reconcile"}]
             /\ seen' \in [Nodes -> [Names -> States \cup {"absent"}]]
             /\ todo' \in [Nodes -> SUBSET Reqs]
             /\ DOMAIN desired' = Nodes
             /\ \A x \in Nodes : desired'[x] # None => todo'[x] \subseteq DOMAIN desired'[x]
             /\ clearing' \in [Nodes -> Reqs \cup {None}]
             /\ \A x \in Nodes : clearing'[x] \in todo'[x] \cup {None}
    BY <1>4 DEF Return, GoTo, Nothing
<1>5. CASE HeartbeatFails(n)
    <2>1. faults' \in 0..MaxFaults BY <1>5, FailureCounted DEF HeartbeatFails
    <2>2. status' \in [Reqs -> States \cup {"pending"}]
        <3>1. CASE UNCHANGED status BY <3>1
        <3>2. ASSUME NEW D \in SUBSET Names,
                     status' = Store!Recorded(n,
                        [w \in Names |-> IF w \in D THEN seen[n][w] ELSE "absent"])
              PROVE  status' \in [Reqs -> States \cup {"pending"}]
            <4>1. [w \in Names |-> IF w \in D THEN seen[n][w] ELSE "absent"] \in
                      [Names -> States \cup {"absent"}]
                OBVIOUS
            <4>2. QED BY ONLY <3>2, <4>1, RecordedType, ClusterTypeOK, n \in Nodes
        <3>3. QED BY <1>5, <3>1, <3>2 DEF HeartbeatFails
    <2>3. QED BY <1>4, <1>5, <2>1, <2>2 DEF HeartbeatFails
<1>6. CASE EndRound(n) BY <1>4, <1>6 DEF EndRound
<1>7. ASSUME NEW r \in Reqs, Reconciling(n, r)
      PROVE  rows[r].name \in Names /\ desired[n][r] \in SUBSET Ports /\ r \in Image
    <2>1. rows[r] # None /\ desired[n][r] = Stored(Asked[r])
        BY <1>7 DEF Reconciling, TodoInv
    <2>2. rows[r].name = Asked[r].name
        BY <2>1 DEF RowInv
    <2>3. QED BY <2>1, <2>2, StoredPorts, AskedAssumption DEF Image
<1>8. ASSUME NEW r \in Reqs, Reconciling(n, r), Done(n, r), BoxTypes'
      PROVE  ClusterTypeOK'
    BY <1>8 DEF Reconciling, Done, BoxTypes
<1>9. ASSUME NEW r \in Reqs, LeaveAlone(n, r) PROVE ClusterTypeOK'
    BY <1>8, <1>9 DEF LeaveAlone, BoxTypes
<1>10. ASSUME NEW r \in Reqs, Start(n, r) PROVE ClusterTypeOK'
    BY <1>7, <1>8, <1>10, RuntimeTypes DEF Start, BoxTypes
<1>11. ASSUME NEW r \in Reqs, ClearStale(n, r) PROVE ClusterTypeOK'
    <2>1. CASE /\ Stop(n, rows[r].name)
               /\ clearing' = [clearing EXCEPT ![n] = r] /\ UNCHANGED todo
        <3>1. BoxTypes' BY <1>7, <1>11, <2>1, RuntimeTypes DEF ClearStale, BoxTypes
        <3>2. r \in todo[n] BY <1>11 DEF ClearStale, Reconciling
        <3>3. QED BY <1>11, <2>1, <3>1, <3>2 DEF ClearStale, Reconciling, BoxTypes
    <2>2. CASE StopFails /\ Done(n, r)
        BY <1>7, <1>8, <1>11, <2>2, RuntimeTypes DEF ClearStale, BoxTypes
    <2>3. QED BY <1>11, <2>1, <2>2 DEF ClearStale
<1>12. QED
    BY <1>1, <1>2, <1>3, <1>5, <1>6, <1>9, <1>10, <1>11 DEF Reconcile

\* and so do those of the local API, of the containers and of the operator.
LEMMA OtherTypes ==
    ASSUME ClusterTypeOK,
           \/ \E r \in Reqs : Deploy(r)
           \/ \E n \in Nodes :
                 \/ RestartStop(n) \/ RestartRun(n) \/ Crash(n)
                 \/ \E w \in Names : \/ Exits(n, w) \/ CreateContainer(n, w)
                                     \/ StopContainer(n, w) \/ FindContainer(n, w)
           \/ UNCHANGED vars
    PROVE  ClusterTypeOK'
<1>0. BoxTypes BY DEF ClusterTypeOK, BoxTypes
<1> USE DEF ClusterTypeOK, storeVars, counters, agentVars
<1>1. ASSUME NEW r \in Reqs, Deploy(r) PROVE ClusterTypeOK'
    BY <1>1, AskedRow DEF Deploy, Store!CreateWorkload
<1>2. ASSUME NEW n \in Nodes, op[n] # None
      PROVE  /\ op[n] \in Restart /\ op[n].name \in Names
             /\ op[n].image \in Image /\ op[n].ports \in SUBSET Ports
    BY <1>2 DEF Restart
<1>3. ASSUME NEW n \in Nodes, Restarting(n, "stop") \/ Restarting(n, "run"),
             BoxTypes', op' \in [Nodes -> Restart \cup {None}],
             touched' \in [Nodes -> SUBSET Names]
      PROVE  ClusterTypeOK'
    BY <1>3 DEF Restarting, BoxTypes
<1>4. ASSUME NEW n \in Nodes, RestartStop(n) PROVE ClusterTypeOK'
    <2>1. op[n] # None BY <1>4 DEF RestartStop, Restarting
    <2>2. BoxTypes' BY <1>0, <1>2, <1>4, <2>1, RuntimeTypes DEF RestartStop
    <2>3. [op[n] EXCEPT !.next = "run"] \in Restart BY <1>2, <2>1 DEF Restart
    <2>4. op' \in [Nodes -> Restart \cup {None}] BY <1>4, <2>3 DEF RestartStop
    <2>5. QED BY <1>3, <1>4, <2>2, <2>4 DEF RestartStop
<1>5. ASSUME NEW n \in Nodes, RestartRun(n) PROVE ClusterTypeOK'
    <2>1. op[n] # None BY <1>5 DEF RestartRun, Restarting
    <2>2. BoxTypes' BY <1>0, <1>2, <1>5, <2>1, RuntimeTypes DEF RestartRun
    <2>3. op' \in [Nodes -> Restart \cup {None}] BY <1>5 DEF RestartRun
    <2>4. touched' \in [Nodes -> SUBSET Names]
        BY <1>2, <1>5, <2>1 DEF RestartRun, Touch
    <2>5. QED BY <1>3, <1>5, <2>2, <2>3, <2>4 DEF RestartRun
<1>6. ASSUME NEW n \in Nodes, Crash(n) PROVE ClusterTypeOK'
    BY <1>6, FailureCounted DEF Crash, Return, GoTo, Nothing
<1>7. ASSUME NEW n \in Nodes, NEW w \in Names, box[n][w] # None
      PROVE  box[n][w] \in Container
    BY <1>7
<1>8. ASSUME NEW n \in Nodes, NEW w \in Names, Exits(n, w) PROVE ClusterTypeOK'
    <2>1. [box[n][w] EXCEPT !.state = "stopped"] \in Container
        BY <1>7, <1>8 DEF Exits, Container, States
    <2>2. QED BY <1>8, <2>1 DEF Exits, Put
<1>9. ASSUME NEW n \in Nodes, NEW w \in Names, AcceptRequest,
             BoxTypes', op' \in [Nodes -> Restart \cup {None}],
             touched' \in [Nodes -> SUBSET Names]
      PROVE  ClusterTypeOK'
    BY <1>9, BoundsAssumption DEF AcceptRequest, BoxTypes
<1>10. ASSUME NEW n \in Nodes, NEW w \in Names, CreateContainer(n, w)
       PROVE  ClusterTypeOK'
    <2>1. Local \in Image /\ LocalPorts \subseteq SUBSET Ports BY DEF Image, Ports
    <2>2. BoxTypes' BY <1>0, <1>10, <2>1, RuntimeTypes DEF CreateContainer
    <2>3. QED BY <1>9, <1>10, <2>2 DEF CreateContainer, Touch
<1>11. ASSUME NEW n \in Nodes, NEW w \in Names, StopContainer(n, w)
       PROVE  ClusterTypeOK'
    BY <1>0, <1>9, <1>11, RuntimeTypes DEF StopContainer
<1>12. ASSUME NEW n \in Nodes, NEW w \in Names, FindContainer(n, w)
       PROVE  ClusterTypeOK'
    <2>1. [next |-> "stop", name |-> w, image |-> box[n][w].image,
           ports |-> box[n][w].ports] \in Restart
        BY <1>7, <1>12 DEF FindContainer, Container, Restart
    <2>2. op' \in [Nodes -> Restart \cup {None}] BY <1>12, <2>1 DEF FindContainer
    <2>3. QED BY <1>9, <1>12, <2>2 DEF FindContainer, BoxTypes
<1>13. CASE UNCHANGED vars BY <1>13 DEF vars
<1>14. QED
    BY <1>1, <1>4, <1>5, <1>6, <1>8, <1>10, <1>11, <1>12, <1>13
-----------------------------------------------------------------------------
(* From the request to the container                                       *)

\* Only a deployment changes the rows, and it only adds one.
LEMMA OnlyDeployWrites ==
    ASSUME ClusterTypeOK, [Next]_vars
    PROVE  rows' = rows \/ \E r \in Reqs : Deploy(r)
BY DEF Next, Reconcile, ListContainers, RecordReport, Store!UpdateWorkloadStatus,
    Answer, Store!ListWorkloadsForNode, HeartbeatFails, LeaveAlone, ClearStale, Start,
    Reconciling, EndRound, RestartStop, RestartRun, Restarting, Crash, Exits,
    CreateContainer, StopContainer, FindContainer, AcceptRequest, storeVars, vars

\* A row that was written stays as it is.
LEMMA RowsStay ==
    ASSUME ClusterTypeOK, [Next]_vars
    PROVE  \A r \in Reqs : rows[r] # None => rows'[r] = rows[r]
BY OnlyDeployWrites DEF Deploy, Store!CreateWorkload, ClusterTypeOK

\* Rows agree with their requests and exclude each other.
LEMMA RowsStep ==
    ASSUME ClusterTypeOK, RowInv, UniqueInv, [Next]_vars
    PROVE  RowInv' /\ UniqueInv'
<1>1. CASE rows' = rows
    BY <1>1 DEF RowInv, UniqueInv, Store!Claims
<1>2. ASSUME NEW r \in Reqs, Deploy(r) PROVE RowInv' /\ UniqueInv'
    <2> DEFINE row == [name |-> Asked[r].name, node |-> Asked[r].node,
                       ports |-> Stored(Asked[r])]
    <2>1. /\ Sends(Asked[r]) /\ rows' = [rows EXCEPT ![r] = row]
          /\ rows'[r] = row /\ \A o \in Reqs \ {r} : rows'[o] = rows[o]
        BY <1>2 DEF Deploy, Store!CreateWorkload, ClusterTypeOK
    <2>2. RowInv' BY <2>1 DEF RowInv
    <2>3. \A o \in Reqs \ {r} : rows[o] # None =>
              /\ rows[o].name # row.name
              /\ Store!Claims(rows[o]) \cap Store!Claims(row) = {}
        BY <1>2 DEF Deploy, Store!CreateWorkload, Store!Free, Store!Existing
    <2>4. ASSUME NEW o \in Reqs, rows[o] # None PROVE rows[o].name = Asked[o].name
        <3>1. rows[o] = [name |-> Asked[o].name, node |-> Asked[o].node,
                         ports |-> Stored(Asked[o])]
            BY <2>4 DEF RowInv
        <3>2. QED BY ONLY <3>1
    <2>5. \A x, y : Store!Claims(x) \cap Store!Claims(y) =
                    Store!Claims(y) \cap Store!Claims(x)
        OBVIOUS
    <2>6. ASSUME NEW x \in Reqs, NEW y \in Reqs, rows'[x] # None, rows'[y] # None, x # y
          PROVE  /\ Asked[x].name # Asked[y].name
                 /\ Store!Claims(rows'[x]) \cap Store!Claims(rows'[y]) = {}
        <3>1. CASE x = r BY <2>1, <2>3, <2>4, <2>5, <2>6, <3>1
        <3>2. CASE y = r BY <2>1, <2>3, <2>4, <2>6, <3>2
        <3>3. CASE x # r /\ y # r BY <2>1, <2>6, <3>3 DEF UniqueInv
        <3>4. QED BY <3>1, <3>2, <3>3
    <2>7. QED BY <2>2, <2>6 DEF UniqueInv, Store!Claims
<1>3. QED BY <1>1, <1>2, OnlyDeployWrites

\* The steps that are not of the agent's loop, nor a crash, leave its state.
Outside ==
    \/ \E r \in Reqs : Deploy(r)
    \/ \E n \in Nodes : RestartStop(n) \/ RestartRun(n)
    \/ \E n \in Nodes, w \in Names :
          \/ Exits(n, w) \/ CreateContainer(n, w) \/ StopContainer(n, w)
          \/ FindContainer(n, w)
    \/ UNCHANGED vars

\* What happens outside the loops changes nothing that a loop knows.
LEMMA OutsideKeepsAgents ==
    ASSUME Outside
    PROVE  UNCHANGED <<desired, agentVars>>
BY DEF Outside, Deploy, Store!CreateWorkload, RestartStop, RestartRun, Restarting,
    Exits, CreateContainer, StopContainer, FindContainer, AcceptRequest, storeVars,
    agentVars, vars

\* There are no other steps.
LEMMA NextCases ==
    ASSUME [Next]_vars
    PROVE  Outside \/ \E n \in Nodes : Reconcile(n) \/ Crash(n)
BY DEF Next, Outside

\* An agent goes through the workloads it was told, with the ports it was
\* told, which stay those of the rows.
LEMMA TodoStep ==
    ASSUME ClusterTypeOK, RowInv, TodoInv, [Next]_vars
    PROVE  TodoInv'
<1>0. \A r \in Reqs : rows[r] # None => rows'[r] # None
    BY RowsStay
<1> USE DEF ClusterTypeOK
<1>1. CASE UNCHANGED <<desired, agentVars>>
    BY <1>0, <1>1 DEF TodoInv, agentVars
<1>2. ASSUME NEW n \in Nodes, Return(n) PROVE TodoInv'
    BY <1>0, <1>2 DEF TodoInv, Return, GoTo
<1>3. ASSUME NEW n \in Nodes, ListContainers(n) PROVE TodoInv'
    BY <1>0, <1>3 DEF TodoInv, ListContainers, GoTo, storeVars
<1>4. ASSUME NEW n \in Nodes, RecordReport(n) PROVE TodoInv'
    BY <1>0, <1>4 DEF TodoInv, RecordReport, GoTo, Store!UpdateWorkloadStatus
<1>5. ASSUME NEW n \in Nodes, Answer(n) PROVE TodoInv'
    <2>1. /\ desired' = [desired EXCEPT ![n] = [r \in Store!Assigned(n) |-> rows[r].ports]]
          /\ todo' = [todo EXCEPT ![n] = Store!Assigned(n)]
          /\ stage' = [stage EXCEPT ![n] = "reconcile"]
        BY <1>5 DEF Answer, GoTo, Store!ListWorkloadsForNode
    <2>2. ASSUME NEW r \in Store!Assigned(n)
          PROVE  /\ rows[r] # None /\ r \in Reqs
                 /\ Asked[r].node = n /\ rows[r].ports = Stored(Asked[r])
        <3>1. r \in Reqs /\ rows[r] # None /\ rows[r].node = n
            BY <2>2 DEF Store!Assigned, Store!Existing
        <3>2. rows[r] = [name |-> Asked[r].name, node |-> Asked[r].node,
                         ports |-> Stored(Asked[r])]
            BY <3>1 DEF RowInv
        <3>3. QED BY <3>1, <3>2
    <2>3. QED BY <1>0, <2>1, <2>2 DEF TodoInv
<1>6. ASSUME NEW n \in Nodes, NEW r \in Reqs,
             LeaveAlone(n, r) \/ ClearStale(n, r) \/ Start(n, r)
      PROVE  TodoInv'
    BY <1>0, <1>6 DEF TodoInv, LeaveAlone, ClearStale, Start, Reconciling, Done, storeVars
<1>7. QED
    BY <1>1, <1>2, <1>3, <1>4, <1>5, <1>6, OutsideKeepsAgents, NextCases
    DEF Reconcile, HeartbeatFails, EndRound, Crash

\* Whoever runs a container, it is a genuine one.
LEMMA RunGenuine ==
    ASSUME ClusterTypeOK, BoxInv, NEW n \in Nodes, NEW w \in Names,
           NEW image, NEW ports,
           Genuine(n, w, [image |-> image, ports |-> ports]),
           \A r \in Reqs : rows[r] # None => rows'[r] # None,
           Run(n, w, image, ports) \/ RunFails(n, w, image) \/ Stop(n, w) \/ StopFails
    PROVE  BoxInv'
<1>1. CASE UNCHANGED box
    BY <1>1 DEF BoxInv, Genuine
<1>2. ASSUME NEW c, Put(n, w, c), c = None \/ Genuine(n, w, c) PROVE BoxInv'
    BY <1>2 DEF BoxInv, Genuine, Put, ClusterTypeOK
<1>3. CASE Run(n, w, image, ports)
    <2> DEFINE c == [image |-> image, ports |-> ports, state |-> "running"]
    <2>1. Genuine(n, w, c) BY DEF Genuine
    <2>2. QED BY <1>2, <1>3, <2>1 DEF Run
<1>4. CASE Stop(n, w) BY <1>2, <1>4 DEF Stop
<1>5. QED BY <1>1, <1>3, <1>4 DEF RunFails, StopFails

\* The reconciler is about to treat a workload of its node.
LEMMA ReconciledRow ==
    ASSUME ClusterTypeOK, RowInv, TodoInv,
           NEW n \in Nodes, NEW r \in Reqs, Reconciling(n, r)
    PROVE  /\ rows[r].name = Asked[r].name /\ rows[r].name \in Names
           /\ rows[r] # None /\ Asked[r].node = n /\ r \in todo[n]
           /\ desired[n][r] = Stored(Asked[r])
<1>1. /\ rows[r] # None /\ Asked[r].node = n /\ r \in todo[n]
      /\ desired[n][r] = Stored(Asked[r])
    BY DEF Reconciling, TodoInv
<1>2. rows[r] = [name |-> Asked[r].name, node |-> Asked[r].node,
                 ports |-> Stored(Asked[r])]
    BY <1>1 DEF RowInv
<1>3. QED BY <1>1, <1>2, AskedAssumption

\* Containers stay genuine,
LEMMA BoxStep ==
    ASSUME ClusterTypeOK, RowInv, TodoInv, BoxInv, OpInv, [Next]_vars
    PROVE  BoxInv'
<1>0. \A r \in Reqs : rows[r] # None => rows'[r] # None
    BY RowsStay
<1>1. CASE UNCHANGED box
    BY <1>0, <1>1 DEF BoxInv, Genuine
<1>2. ASSUME NEW n \in Nodes, NEW w \in Names, NEW p
      PROVE  Genuine(n, w, [image |-> Local, ports |-> p])
    BY DEF Genuine
<1>3. ASSUME NEW n \in Nodes, NEW r \in Reqs, ClearStale(n, r) PROVE BoxInv'
    <2>1. rows[r].name \in Names BY <1>3, ReconciledRow DEF ClearStale
    <2>2. QED BY <1>0, <1>2, <1>3, <2>1, RunGenuine DEF ClearStale
<1>4. ASSUME NEW n \in Nodes, NEW r \in Reqs, Start(n, r) PROVE BoxInv'
    <2>1. /\ rows[r].name = Asked[r].name /\ rows[r].name \in Names
          /\ rows[r] # None /\ Asked[r].node = n /\ desired[n][r] = Stored(Asked[r])
        BY <1>4, ReconciledRow DEF Start
    <2>2. Genuine(n, rows[r].name, [image |-> r, ports |-> desired[n][r]])
        BY <2>1 DEF Genuine
    <2>3. QED BY <1>0, <1>4, <2>1, <2>2, RunGenuine DEF Start
<1>5. ASSUME NEW n \in Nodes, op[n] # None
      PROVE  /\ op[n].name \in Names
             /\ Genuine(n, op[n].name, [image |-> op[n].image, ports |-> op[n].ports])
    <2>1. op[n].name \in Names BY <1>5 DEF ClusterTypeOK, Restart
    <2>2. QED BY <1>5, <2>1 DEF OpInv, Genuine
<1>6. ASSUME NEW n \in Nodes, RestartStop(n) \/ RestartRun(n) PROVE BoxInv'
    <2>1. op[n] # None BY <1>6 DEF RestartStop, RestartRun, Restarting
    <2>2. QED BY <1>0, <1>5, <1>6, <2>1, RunGenuine DEF RestartStop, RestartRun
<1>7. ASSUME NEW n \in Nodes, NEW w \in Names, CreateContainer(n, w) \/ StopContainer(n, w)
      PROVE  BoxInv'
    BY <1>0, <1>2, <1>7, RunGenuine DEF CreateContainer, StopContainer
<1>8. ASSUME NEW n \in Nodes, NEW w \in Names, Exits(n, w) PROVE BoxInv'
    <2>1. /\ box[n][w] \in Container /\ Genuine(n, w, box[n][w])
          /\ box' = [box EXCEPT ![n][w] = [box[n][w] EXCEPT !.state = "stopped"]]
        BY <1>8 DEF Exits, Put, BoxInv, ClusterTypeOK
    <2>2. Genuine(n, w, [box[n][w] EXCEPT !.state = "stopped"])
        BY <2>1 DEF Genuine, Container
    <2>3. QED BY <1>0, <2>1, <2>2 DEF BoxInv, Genuine, ClusterTypeOK
<1>9. QED
    BY <1>1, <1>3, <1>4, <1>6, <1>7, <1>8, NextCases
    DEF Outside, Reconcile, ListContainers, RecordReport, Answer, HeartbeatFails,
        LeaveAlone, EndRound, Crash, Deploy, FindContainer, vars

\* and so does what a restart remembers.
LEMMA OpStep ==
    ASSUME ClusterTypeOK, BoxInv, OpInv, [Next]_vars
    PROVE  OpInv'
<1>0. \A r \in Reqs : rows[r] # None => rows'[r] # None
    BY RowsStay
<1>1. CASE UNCHANGED op
    BY <1>0, <1>1 DEF OpInv, Genuine
<1>2. ASSUME NEW n \in Nodes, op' = [op EXCEPT ![n] = None] PROVE OpInv'
    BY <1>0, <1>2 DEF OpInv, Genuine, ClusterTypeOK
<1>3. ASSUME NEW n \in Nodes, RestartStop(n) PROVE OpInv'
    <2>1. CASE op' = [op EXCEPT ![n].next = "run"]
        <3>1. op[n] # None /\ op[n] \in Restart
            BY <1>3 DEF RestartStop, Restarting, ClusterTypeOK
        <3>2. /\ op'[n].name = op[n].name /\ op'[n].image = op[n].image
              /\ op'[n].ports = op[n].ports
            BY <2>1, <3>1 DEF Restart, ClusterTypeOK
        <3>3. \A x \in Nodes \ {n} : op'[x] = op[x]
            BY <2>1 DEF ClusterTypeOK
        <3>4. QED BY <1>0, <3>1, <3>2, <3>3 DEF OpInv, Genuine
    <2>2. QED BY <1>2, <1>3, <2>1 DEF RestartStop
<1>4. ASSUME NEW n \in Nodes, NEW w \in Names, FindContainer(n, w) PROVE OpInv'
    <2> DEFINE o == [next |-> "stop", name |-> w, image |-> box[n][w].image,
                     ports |-> box[n][w].ports]
    <2>1. Genuine(n, w, box[n][w]) /\ op' = [op EXCEPT ![n] = o]
        BY <1>4 DEF FindContainer, BoxInv
    <2>2. Genuine(n, o.name, o) BY <2>1 DEF Genuine
    <2>3. QED BY <1>0, <2>1, <2>2 DEF OpInv, Genuine, ClusterTypeOK
<1>5. QED
    BY <1>1, <1>2, <1>3, <1>4, NextCases
    DEF Outside, Reconcile, ListContainers, RecordReport, Answer, HeartbeatFails,
        LeaveAlone, ClearStale, Start, Reconciling, EndRound, RestartRun, Crash, Deploy,
        Exits, CreateContainer, StopContainer, vars
-----------------------------------------------------------------------------
(* What was listed, and what runs by now                                   *)

\* How a step other than one of the loop may make a container run: the local
\* API runs it, and marks it.
LEMMA OutsideRunsTouched ==
    ASSUME ClusterTypeOK, Outside
    PROVE  \A n \in Nodes, w \in Names :
              /\ touched[n] \subseteq touched'[n]
              /\ Running(n, w)' => Running(n, w) \/ w \in touched'[n]
<1> DEFINE Goal == \A n \in Nodes, w \in Names :
                      /\ touched[n] \subseteq touched'[n]
                      /\ Running(n, w)' => Running(n, w) \/ w \in touched'[n]
<1>1. CASE UNCHANGED <<box, touched>> BY <1>1 DEF Running
<1>2. ASSUME NEW n \in Nodes, NEW w \in Names, NEW i, NEW p,
             Run(n, w, i, p), touched' = [touched EXCEPT ![n] = @ \cup {w}]
      PROVE  Goal
    BY <1>2 DEF Run, Put, Running, ClusterTypeOK
<1>3. ASSUME NEW n \in Nodes, NEW w \in Names, Stop(n, w), UNCHANGED touched PROVE Goal
    BY <1>3 DEF Stop, Put, Running, ClusterTypeOK
<1>4. ASSUME NEW n \in Nodes, NEW w \in Names, Exits(n, w) PROVE Goal
    BY <1>4 DEF Exits, Put, Running, ClusterTypeOK, Container
<1>5. ASSUME NEW n \in Nodes, op[n] # None PROVE op[n].name \in Names
    BY <1>5 DEF ClusterTypeOK, Restart
<1>6. ASSUME NEW n \in Nodes, RestartStop(n) \/ RestartRun(n) PROVE Goal
    <2>1. op[n].name \in Names
        BY <1>5, <1>6 DEF RestartStop, RestartRun, Restarting
    <2>2. QED
        BY <1>1, <1>2, <1>3, <1>6, <2>1
        DEF RestartStop, RestartRun, RunFails, StopFails, Touch
<1>7. QED
    BY <1>1, <1>2, <1>3, <1>4, <1>6
    DEF Outside, Deploy, CreateContainer, StopContainer, FindContainer, Touch, vars

\* The steps of the loop leave the other nodes' agents and containers alone.
OthersKept(n) ==
    \A x \in Nodes \ {n} :
        /\ stage'[x] = stage[x] /\ seen'[x] = seen[x] /\ todo'[x] = todo[x]
        /\ clearing'[x] = clearing[x] /\ box'[x] = box[x] /\ touched'[x] = touched[x]

\* A round of one node's loop, or its crash, is no concern of other nodes.
LEMMA LoopKeepsOthers ==
    ASSUME ClusterTypeOK, RowInv, TodoInv, NEW n \in Nodes, Reconcile(n) \/ Crash(n)
    PROVE  OthersKept(n) /\ rows' = rows
<1> USE DEF ClusterTypeOK, OthersKept, GoTo, Return
<1>1. CASE ListContainers(n) BY <1>1 DEF ListContainers, storeVars
<1>2. CASE RecordReport(n) BY <1>2 DEF RecordReport, Store!UpdateWorkloadStatus
<1>3. CASE Answer(n) BY <1>3 DEF Answer, Store!ListWorkloadsForNode
<1>4. CASE HeartbeatFails(n) \/ EndRound(n) \/ Crash(n)
    BY <1>4 DEF HeartbeatFails, EndRound, Crash
<1>5. ASSUME NEW r \in Reqs, LeaveAlone(n, r) \/ ClearStale(n, r) \/ Start(n, r)
      PROVE  OthersKept(n) /\ rows' = rows
    <2>1. \A w : \A x \in Nodes \ {n} : \A c : Put(n, w, c) => box'[x] = box[x]
        BY DEF Put
    <2>2. \A x \in Nodes \ {n} : box'[x] = box[x]
        BY <1>5, <2>1 DEF LeaveAlone, ClearStale, Start, Run, RunFails, Stop, StopFails
    <2>3. QED
        BY <1>5, <2>2 DEF LeaveAlone, ClearStale, Start, Reconciling, Done, storeVars
<1>6. QED BY <1>1, <1>2, <1>3, <1>4, <1>5 DEF Reconcile

\* A container that was listed as stopped is run by the local API, or by the
\* agent when it is done with it: names are unique, so no other workload on
\* its list has that name.
LEMMA SeenStep ==
    ASSUME ClusterTypeOK, RowInv, UniqueInv, TodoInv, SeenInv, [Next]_vars
    PROVE  SeenInv'
<1>0. \A n \in Nodes : \A r \in todo[n] :
          r \in Reqs /\ rows[r] # None /\ stage[n] = "reconcile" /\ Asked[r].name \in Names
    BY AskedAssumption DEF TodoInv, ClusterTypeOK
<1>1. ASSUME Outside PROVE SeenInv'
    <2>1. UNCHANGED <<stage, seen, todo, clearing>>
        BY <1>1, OutsideKeepsAgents DEF agentVars
    <2>2. \A n \in Nodes : \A r \in todo[n] : SeenState(n, r)' = SeenState(n, r)
        BY <1>0, <2>1, RowsStay DEF SeenState
    <2>3. QED BY <1>0, <1>1, <2>1, <2>2, OutsideRunsTouched DEF SeenInv
<1>2. ASSUME NEW n \in Nodes, Reconcile(n) \/ Crash(n),
             \A w \in Names :
                /\ stage'[n] \in {"asked", "recorded"}
                /\ seen'[n][w] = "stopped" /\ Running(n, w)'
                => w \in touched'[n],
             \A r \in todo'[n] :
                /\ SeenState(n, r)' = "stopped" /\ clearing'[n] # r
                /\ Running(n, Asked[r].name)'
                => Asked[r].name \in touched'[n]
      PROVE  SeenInv'
    <2>1. OthersKept(n) /\ rows' = rows BY <1>2, LoopKeepsOthers
    <2>2. ASSUME NEW x \in Nodes \ {n}
          PROVE  /\ \A w \in Names :
                       /\ stage'[x] \in {"asked", "recorded"}
                       /\ seen'[x][w] = "stopped" /\ Running(x, w)'
                       => w \in touched'[x]
                 /\ \A r \in todo'[x] :
                       /\ SeenState(x, r)' = "stopped" /\ clearing'[x] # r
                       /\ Running(x, Asked[r].name)'
                       => Asked[r].name \in touched'[x]
        BY <2>1 DEF OthersKept, SeenInv, SeenState, Running
    <2>3. QED BY <1>2, <2>2 DEF SeenInv
<1>3. ASSUME NEW n \in Nodes, Reconcile(n) \/ Crash(n), todo'[n] = {},
             stage'[n] \notin {"asked", "recorded"}
      PROVE  SeenInv'
    BY <1>2, <1>3
<1>4. ASSUME NEW n \in Nodes, ListContainers(n) PROVE SeenInv'
    <2>1. todo'[n] = {} BY <1>0, <1>4 DEF ListContainers, ClusterTypeOK
    <2>2. \A w \in Names : seen'[n][w] = "stopped" => ~Running(n, w)'
        BY <1>4 DEF ListContainers, Running, ClusterTypeOK
    <2>3. QED BY <1>2, <1>4, <2>1, <2>2 DEF Reconcile
<1>5. ASSUME NEW n \in Nodes, RecordReport(n) PROVE SeenInv'
    <2>1. todo'[n] = {} BY <1>0, <1>5 DEF RecordReport, ClusterTypeOK
    <2>2. stage[n] = "asked" /\ UNCHANGED <<seen, box, touched>>
        BY <1>5 DEF RecordReport
    <2>3. \A w \in Names : seen[n][w] = "stopped" /\ Running(n, w) => w \in touched[n]
        BY <2>2 DEF SeenInv
    <2>4. QED BY <1>2, <1>5, <2>1, <2>2, <2>3 DEF Reconcile, Running
<1>6. ASSUME NEW n \in Nodes, Answer(n) PROVE SeenInv'
    <2>1. stage[n] = "recorded" /\ stage'[n] = "reconcile" /\ UNCHANGED <<rows, seen, box, touched>>
        BY <1>6 DEF Answer, GoTo, Store!ListWorkloadsForNode, ClusterTypeOK
    <2>2. \A w \in Names : seen[n][w] = "stopped" /\ Running(n, w) => w \in touched[n]
        BY <2>1 DEF SeenInv
    <2>3. ASSUME NEW r \in todo'[n]
          PROVE  rows[r].name = Asked[r].name /\ Asked[r].name \in Names
        <3>1. r \in Reqs /\ rows[r] # None
            BY <1>6, <2>3 DEF Answer, Store!Assigned, Store!Existing, ClusterTypeOK
        <3>2. rows[r] = [name |-> Asked[r].name, node |-> Asked[r].node,
                         ports |-> Stored(Asked[r])]
            BY <3>1 DEF RowInv
        <3>3. QED BY <3>1, <3>2, AskedAssumption
    <2>4. QED BY <1>2, <1>6, <2>1, <2>2, <2>3 DEF Reconcile, Running, SeenState
<1>7. ASSUME NEW n \in Nodes, HeartbeatFails(n) \/ EndRound(n) \/ Crash(n)
      PROVE  SeenInv'
    BY <1>3, <1>7 DEF HeartbeatFails, EndRound, Crash, Return, GoTo, Reconcile, ClusterTypeOK
<1>8. ASSUME NEW n \in Nodes, NEW r \in Reqs,
             LeaveAlone(n, r) \/ ClearStale(n, r) \/ Start(n, r)
      PROVE  SeenInv'
    <2>1. /\ Reconciling(n, r) /\ r \in todo[n] /\ stage'[n] = "reconcile"
          /\ UNCHANGED <<rows, seen, touched>> /\ clearing[n] \in {None, r}
        BY <1>8 DEF LeaveAlone, ClearStale, Start, Reconciling, storeVars
    <2>2. rows[r].name = Asked[r].name /\ Asked[r].name \in Names
        BY <2>1, ReconciledRow
    <2>3. ASSUME NEW o \in todo'[n], o # r, SeenState(n, o)' = "stopped",
                 Running(n, Asked[o].name)'
          PROVE  Asked[o].name \in touched'[n]
        <3>1. o \in todo[n] /\ SeenState(n, o) = "stopped" /\ clearing[n] # o
            BY <1>8, <2>1, <2>3, LocalAssumption, <1>0
            DEF LeaveAlone, ClearStale, Start, Done, SeenState, ClusterTypeOK
        <3>2. Asked[o].name # Asked[r].name
            BY <1>0, <2>1, <2>3, <3>1 DEF UniqueInv
        <3>3. box'[n][Asked[o].name] = box[n][Asked[o].name]
            BY <1>0, <1>8, <2>2, <3>1, <3>2
            DEF LeaveAlone, ClearStale, Start, Run, RunFails, Stop, StopFails, Put,
                ClusterTypeOK
        <3>4. QED BY <2>1, <2>3, <3>1, <3>3 DEF SeenInv, Running
    <2>4. ASSUME r \in todo'[n] PROVE clearing'[n] = r
        BY <1>8, <2>4 DEF LeaveAlone, ClearStale, Start, Done, ClusterTypeOK
    <2>5. QED BY <1>2, <1>8, <2>1, <2>3, <2>4 DEF Reconcile
<1>9. QED
    BY <1>1, <1>4, <1>5, <1>6, <1>7, <1>8, NextCases DEF Reconcile
-----------------------------------------------------------------------------
(* The safety properties                                                   *)

\* The invariant is inductive.
THEOREM Invariance == Spec => []IInv
<1>1. Init => IInv
    <2> SUFFICES ASSUME Init PROVE IInv OBVIOUS
    <2> USE DEF Init, Store!Init
    <2>1. ClusterTypeOK BY BoundsAssumption DEF ClusterTypeOK, Nothing
    <2>2. RowInv /\ UniqueInv BY DEF RowInv, UniqueInv
    <2>3. TodoInv /\ BoxInv /\ OpInv BY DEF TodoInv, BoxInv, OpInv
    <2>4. SeenInv BY DEF SeenInv
    <2>5. QED BY <2>1, <2>2, <2>3, <2>4 DEF IInv
<1>2. IInv /\ [Next]_vars => IInv'
    <2> SUFFICES ASSUME IInv, [Next]_vars PROVE IInv' OBVIOUS
    <2> USE DEF IInv
    <2>1. ClusterTypeOK' BY LoopTypes, OtherTypes DEF Next
    <2>2. RowInv' /\ UniqueInv' BY RowsStep
    <2>3. TodoInv' BY TodoStep
    <2>4. BoxInv' /\ OpInv' BY BoxStep, OpStep
    <2>5. SeenInv' BY SeenStep
    <2>6. QED BY <2>1, <2>2, <2>3, <2>4, <2>5
<1>3. QED BY <1>1, <1>2, PTL DEF Spec

\* Type correctness, for any number of nodes, workloads and faults.
THEOREM ClusterTypes == Spec => []ClusterTypeOK
<1>1. IInv => ClusterTypeOK BY DEF IInv
<1>2. QED BY <1>1, Invariance, PTL

\* What parsePortSpec, CreateWorkload and network.setup make of a port that
\* was sent is what the operator meant by it.
LEMMA PortConverted ==
    ASSUME NEW r \in Reqs, Sends(Asked[r]), NEW s \in Asked[r].ports
    PROVE  /\ Asked[r].client = "ambudctl" =>
                 /\ Setup(Normalise(ParsePortSpec(s))) = Meant(s)
                 /\ Setup(Normalise(ParsePortSpec(s))) = Normalise(ParsePortSpec(s))
                 /\ InRange(s)
           /\ Asked[r].client = "other" =>
                 Setup(Normalise(s)) = Meant(s) /\ Setup(Normalise(s)) = Normalise(s)
<1>1. s \in [host : Int, container : Int, proto : STRING]
    BY PortsAssumption
<1>2. CASE Asked[r].client = "ambudctl"
    <2>1. Accepts(s) BY <1>2 DEF Sends
    <2>2. InRange(s) BY <2>1 DEF Accepts, ParsePortNumber, InRange
    <2>3. s.proto \in {NoProto, "tcp", "TCP", "udp", "UDP"}
        BY <1>1, <2>1 DEF Accepts, ParsePortSpec, Lower, NoProto
    <2>4. /\ Setup(Normalise(ParsePortSpec(s))) = Meant(s)
          /\ Setup(Normalise(ParsePortSpec(s))) = Normalise(ParsePortSpec(s))
        BY <1>1, <2>3 DEF Setup, Normalise, ParsePortSpec, Lower, Meant, NoProto
    <2>5. QED BY <1>2, <2>2, <2>4
<1>3. CASE Asked[r].client = "other"
    <2>1. s.proto \in {"", "tcp", "udp"} BY <1>3, PortsAssumption
    <2>2. QED BY <1>1, <1>3, <2>1 DEF Setup, Normalise, Meant, NoProto
<1>4. QED BY <1>2, <1>3, AskedAssumption

\* The ports that are forwarded for a deployed workload are the ones meant,
\* and setting them up does not change what is stored.
LEMMA ForwardedPorts ==
    ASSUME NEW r \in Reqs, Sends(Asked[r])
    PROVE  /\ {Setup(p) : p \in Stored(Asked[r])} = {Meant(s) : s \in Asked[r].ports}
           /\ \A p \in Stored(Asked[r]) : Setup(p) = p
<1>1. CASE Asked[r].client = "ambudctl"
    <2>1. Stored(Asked[r]) = {Normalise(ParsePortSpec(s)) : s \in Asked[r].ports}
        BY <1>1 DEF Stored, Sent
    <2>2. QED BY <1>1, <2>1, PortConverted
<1>2. CASE Asked[r].client = "other"
    <2>1. Stored(Asked[r]) = {Normalise(s) : s \in Asked[r].ports}
        BY <1>2 DEF Stored, Sent
    <2>2. QED BY <1>2, <2>1, PortConverted
<1>3. QED BY <1>1, <1>2, AskedAssumption

\* A deployed image runs where, as and with the ports that were asked for.
THEOREM WorkloadsRunAsDeployed == Spec => []RunsAsDeployed
<1>1. ASSUME IInv PROVE RunsAsDeployed
    <2> SUFFICES ASSUME NEW n \in Nodes, NEW w \in Names,
                        Deployed(n, w)
                 PROVE  LET q == Asked[box[n][w].image]
                        IN  /\ q.node = n /\ q.name = w
                            /\ Forwarded(box[n][w]) = {Meant(s) : s \in q.ports}
                            /\ q.client = "ambudctl" => \A s \in q.ports : InRange(s)
        BY DEF RunsAsDeployed
    <2> DEFINE r == box[n][w].image
    <2>1. /\ r \in Reqs /\ rows[r] # None /\ Asked[r].node = n /\ Asked[r].name = w
          /\ box[n][w].ports = Stored(Asked[r])
        BY <1>1 DEF IInv, BoxInv, Genuine, Deployed
    <2>2. Sends(Asked[r]) BY <1>1, <2>1 DEF IInv, RowInv
    <2>3. Forwarded(box[n][w]) = {Meant(s) : s \in Asked[r].ports}
        BY <2>1, <2>2, ForwardedPorts DEF Forwarded
    <2>4. Asked[r].client = "ambudctl" => \A s \in Asked[r].ports : InRange(s)
        BY <2>1, <2>2, PortConverted
    <2>5. QED BY <2>1, <2>3, <2>4
<1>2. QED BY <1>1, Invariance, PTL

\* No two deployed workloads forward the same host port and protocol of
\* their node.
THEOREM HostPortsAreDisjoint == Spec => []HostPortsDisjoint
<1>1. ASSUME IInv PROVE HostPortsDisjoint
    <2> SUFFICES ASSUME NEW n \in Nodes, NEW v \in Names, NEW w \in Names, v # w,
                        Deployed(n, v), Deployed(n, w),
                        NEW p \in Forwarded(box[n][v]), NEW q \in Forwarded(box[n][w]),
                        p.host = q.host, p.proto = q.proto
                 PROVE  FALSE
        BY DEF HostPortsDisjoint
    <2> DEFINE r == box[n][v].image
               o == box[n][w].image
    <2>1. /\ r \in Reqs /\ rows[r] # None /\ Asked[r].node = n /\ Asked[r].name = v
          /\ box[n][v].ports = Stored(Asked[r])
        BY <1>1 DEF IInv, BoxInv, Genuine, Deployed
    <2>2. /\ o \in Reqs /\ rows[o] # None /\ Asked[o].node = n /\ Asked[o].name = w
          /\ box[n][w].ports = Stored(Asked[o])
        BY <1>1 DEF IInv, BoxInv, Genuine, Deployed
    <2>3. Sends(Asked[r]) /\ Sends(Asked[o])
        BY <1>1, <2>1, <2>2 DEF IInv, RowInv
    <2>4. p \in Stored(Asked[r]) /\ q \in Stored(Asked[o])
        BY <2>1, <2>2, <2>3, ForwardedPorts DEF Forwarded
    <2>5. /\ rows[r] = [name |-> v, node |-> n, ports |-> Stored(Asked[r])]
          /\ rows[o] = [name |-> w, node |-> n, ports |-> Stored(Asked[o])]
        BY <1>1, <2>1, <2>2 DEF IInv, RowInv
    <2>6. /\ <<n, p.host, p.proto>> \in Store!Claims(rows[r])
          /\ <<n, q.host, q.proto>> \in Store!Claims(rows[o])
        BY <2>4, <2>5 DEF Store!Claims
    <2>7. Store!Claims(rows[r]) \cap Store!Claims(rows[o]) = {}
        BY <1>1, <2>1, <2>2 DEF IInv, UniqueInv
    <2>8. QED BY <2>6, <2>7
<1>2. QED BY <1>1, Invariance, PTL

\* The reconciler ends a running container only if the local API has run
\* that name since the agent listed it as stopped.
THEOREM ReconcilerSpares == Spec => ReconcilerSparesRunning
<1> DEFINE Spares ==
        \A n \in Nodes, w \in Names :
           /\ box[n][w] # None /\ box[n][w].state = "running"
           /\ box'[n][w] = None
           /\ todo'[n] # todo[n] \/ clearing'[n] # clearing[n]
           => w \in touched[n]
<1>1. ASSUME IInv, [Next]_vars PROVE [Spares]_vars
    <2>0. ClusterTypeOK /\ RowInv /\ TodoInv /\ SeenInv BY <1>1 DEF IInv
    <2>1. CASE Outside
        BY <2>1, OutsideKeepsAgents DEF agentVars
    <2>2. CASE UNCHANGED box BY <2>2
    <2>3. ASSUME NEW n \in Nodes, NEW r \in Reqs, ClearStale(n, r) PROVE Spares
        <3>1. /\ rows[r].name = Asked[r].name /\ rows[r].name \in Names /\ r \in todo[n]
            BY <2>0, <2>3, ReconciledRow DEF ClearStale
        <3>2. SeenState(n, r) = "stopped" /\ clearing[n] # r
            BY <2>3, LocalAssumption DEF ClearStale
        <3>3. \A x \in Nodes, w \in Names :
                  box'[x][w] # box[x][w] => x = n /\ w = Asked[r].name
            BY <2>0, <2>3, <3>1 DEF ClearStale, Stop, StopFails, Put, ClusterTypeOK
        <3>4. Running(n, Asked[r].name) => Asked[r].name \in touched[n]
            BY <2>0, <3>1, <3>2 DEF SeenInv
        <3>5. QED BY <3>3, <3>4 DEF Running
    <2>4. ASSUME NEW n \in Nodes, NEW r \in Reqs, Start(n, r) PROVE Spares
        <3>1. rows[r].name \in Names
            BY <2>0, <2>4, ReconciledRow DEF Start
        <3>2. \A x \in Nodes, w \in Names :
                  box[x][w] # None => box'[x][w] = box[x][w]
            <4>1. CASE UNCHANGED box BY <4>1
            <4>2. CASE Run(n, rows[r].name, r, desired[n][r])
                BY <2>0, <3>1, <4>2 DEF Run, Put, ClusterTypeOK
            <4>3. QED BY <2>4, <4>1, <4>2 DEF Start, RunFails
        <3>3. QED BY <3>2
    <2>5. QED
        BY <1>1, <2>1, <2>2, <2>3, <2>4, NextCases
        DEF Reconcile, ListContainers, RecordReport, Answer, HeartbeatFails, LeaveAlone,
            EndRound, Crash
<1>2. QED BY <1>1, Invariance, PTL DEF Spec, ReconcilerSparesRunning
=============================================================================
