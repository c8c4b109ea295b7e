----------------------------- MODULE Workloads ------------------------------
(***************************************************************************)
(* The control plane's workloads: the createWorkload handler with the SQL  *)
(* transaction of Store.CreateWorkload, the heartbeat handler, which       *)
(* records what a node reports and answers with the node's desired state,  *)
(* and the listWorkloads handler.                                          *)
(* Requests are served concurrently; one action per SQL statement.         *)
(*                                                                         *)
(* A request to create a workload is identified with the row (uuid.New())  *)
(* it inserts.  Registering a node is one step here, which Registration    *)
(* justifies.  PostgreSQL is modelled as in Registration.tla; in addition, *)
(* its deadlock detector fails one transaction of a cycle of waits.        *)
(* Images, container ports and resource samples are carried through        *)
(* unchanged by the code and left out; Cluster.tla follows the former two. *)
(***************************************************************************)
EXTENDS PortSpec, Sequences, FiniteSets

CONSTANTS
    Reqs,        \* requests to create a workload; bounds their number
    Names,       \* workload names
    Nodes,       \* nodes that may register
    Hosts,       \* host ports
    Protos,      \* protocols as a client may give them; "" means none given
    PortLists,   \* the port lists that requests ask for
    States,      \* the states a node reports its containers in
    Beats,       \* heartbeat requests, in the order the agents send them
    Readers,     \* clients that list the workloads, again and again
    AnyNode,     \* a request that names no node
    NoName, NoNode,
    Faults       \* TRUE: statements fail, answers to heartbeats get lost

Port == [host : Hosts, proto : Protos]

ASSUME NullAssumption ==
    /\ NoName \notin Names /\ NoNode \notin Nodes /\ AnyNode \notin Nodes
ASSUME PortsAssumption == {"", "tcp"} \subseteq Protos /\ PortLists \subseteq Seq(Port)

\* The rows a port list becomes.
PortSets == {{Normalise(q[i]) : i \in DOMAIN q} : q \in PortLists}

\* The marker is none of the rows and answers it stands in for.
ASSUME MarkerAssumption ==
    /\ NoName \notin [name : Names, node : Nodes, ports : PortSets]
    /\ \A S \in SUBSET Reqs : NoName \notin [S -> PortSets]

ASSUME StatesAssumption == States \subseteq {"running", "stopped", "unknown"}
ASSUME BeatsAssumption == Beats \subseteq Nat \ {0}
ASSUME FaultsAssumption == Faults \in BOOLEAN

VARIABLES
    nodes,      \* registered nodes
    req,        \* a request's name, node (or AnyNode) and ports
    pc,         \* the next statement of a createWorkload request
    target,     \* the node that resolveTargetNode chose
    wname,      \* workloads.name of the row a request inserted, if any
    ports,      \* its rows in workload_ports
    committed,  \* the requests whose transaction has committed
    reply,      \* the HTTP status of the reply
    status,     \* workloads.state
    lastBeat,   \* the heartbeat that last updated the node's row, 0: none
    bpc,        \* the next statement of a heartbeat request
    bnode,      \* the node that sent it
    report,     \* the containers it reports, by name
    todo,       \* the reported names still to be recorded
    due,        \* ghost: workloads acknowledged before it was sent
    alone,      \* ghost: the node's earlier ones had been served by then
    answer,     \* its desired-state list: workload -> ports
    inFlight,   \* the heartbeat a node's agent is waiting for, 0: none
    lpc,        \* the next statement of a listWorkloads request
    list,       \* the workloads it has read: workload -> ports
    lnodes,     \* the nodes it has read
    ldue        \* ghost: workloads acknowledged before it was sent

deployVars == <<req, pc, target, wname, ports, committed, reply>>
beatVars == <<lastBeat, bpc, bnode, report, todo, due, alone, answer, inFlight>>
listVars == <<lpc, list, lnodes, ldue>>
vars == <<nodes, deployVars, status, beatVars, listVars>>

CreatePc == {"idle", "resolve", "insert", "ports", "commit", "getnode", "done"}
BeatPc == {"idle", "node", "status", "list", "attach", "done", "failed"}
Replies == {"none", "201", "400", "409", "500"}
NoRequest == [name |-> NoName, node |-> AnyNode, ports |-> << >>]
Request == [name : Names, node : Nodes \cup {AnyNode}, ports : PortLists]

\* Type correctness of the tables and of the requests in progress.
TypeOK ==
    /\ nodes \subseteq Nodes
    /\ req \in [Reqs -> Request \cup {NoRequest}]
    /\ pc \in [Reqs -> CreatePc]
    /\ target \in [Reqs -> Nodes \cup {NoNode}]
    /\ wname \in [Reqs -> Names \cup {NoName}]
    /\ ports \in [Reqs -> Seq(Port)]
    /\ committed \subseteq Reqs
    /\ reply \in [Reqs -> Replies]
    /\ status \in [Reqs -> States \cup {"pending"}]
    /\ lastBeat \in [Nodes -> Beats \cup {0}]
    /\ bpc \in [Beats -> BeatPc]
    /\ bnode \in [Beats -> Nodes \cup {NoNode}]
    /\ report \in [Beats -> [Names -> States \cup {"absent"}]]
    /\ todo \in [Beats -> SUBSET Names]
    /\ due \in [Beats -> SUBSET Reqs]
    /\ alone \in [Beats -> BOOLEAN]
    /\ DOMAIN answer = Beats /\ \A b \in Beats : DOMAIN answer[b] \subseteq Reqs
    /\ inFlight \in [Nodes -> Beats \cup {0}]
    /\ lpc \in [Readers -> {"idle", "ports", "nodes", "shown"}]
    /\ DOMAIN list = Readers /\ \A l \in Readers : DOMAIN list[l] \subseteq Reqs
    /\ lnodes \in [Readers -> SUBSET nodes]
    /\ ldue \in [Readers -> SUBSET Reqs]

Nothing == [r \in {} |-> << >>]

Init ==
    /\ nodes = {}
    /\ req = [r \in Reqs |-> NoRequest]
    /\ pc = [r \in Reqs |-> "idle"]
    /\ target = [r \in Reqs |-> NoNode]
    /\ wname = [r \in Reqs |-> NoName]
    /\ ports = [r \in Reqs |-> << >>]
    /\ committed = {}
    /\ reply = [r \in Reqs |-> "none"]
    /\ status = [r \in Reqs |-> "pending"]
    /\ lastBeat = [n \in Nodes |-> 0]
    /\ bpc = [b \in Beats |-> "idle"]
    /\ bnode = [b \in Beats |-> NoNode]
    /\ report = [b \in Beats |-> [w \in Names |-> "absent"]]
    /\ todo = [b \in Beats |-> {}]
    /\ due = [b \in Beats |-> {}]
    /\ alone = [b \in Beats |-> FALSE]
    /\ answer = [b \in Beats |-> Nothing]
    /\ inFlight = [n \in Nodes |-> 0]
    /\ lpc = [l \in Readers |-> "idle"]
    /\ list = [l \in Readers |-> Nothing]
    /\ lnodes = [l \in Readers |-> {}]
    /\ ldue = [l \in Readers |-> {}]

RegisterNode(n) ==
    /\ n \notin nodes
    /\ nodes' = nodes \cup {n}
    /\ UNCHANGED <<deployVars, status, beatVars, listVars>>
-----------------------------------------------------------------------------
(* createWorkload                                                          *)

\* The request is decoded; an empty name or image is refused before this.
Receive(r, q) ==
    /\ pc[r] = "idle"
    /\ req' = [req EXCEPT ![r] = q]
    /\ pc' = [pc EXCEPT ![r] = "resolve"]
    /\ UNCHANGED <<nodes, target, wname, ports, committed, reply, status, beatVars, listVars>>

Finish(r, code) ==
    /\ pc' = [pc EXCEPT ![r] = "done"]
    /\ reply' = [reply EXCEPT ![r] = code]

\* Mutant of Rollback: no deferred tx.Rollback on an early return.
RollbackForgotten(r, code) ==
    /\ Finish(r, code)
    /\ UNCHANGED <<nodes, req, target, wname, ports, committed, status, beatVars, listVars>>

\* The deferred tx.Rollback: the workload and its ports disappear.
Rollback(r, code) ==
    /\ Finish(r, code)
    /\ wname' = [wname EXCEPT ![r] = NoName]
    /\ ports' = [ports EXCEPT ![r] = << >>]
    /\ UNCHANGED <<nodes, req, target, committed, status, beatVars, listVars>>

\* resolveTargetNode: the node asked for, if it is registered (GetNode), or
\* the only registered node (ListNodes).  Any error, of the database too, is
\* answered with 400.
Resolvable(r, n) ==
    /\ n \in nodes
    /\ n = req[r].node \/ (req[r].node = AnyNode /\ nodes = {n})

ResolveTargetNode(r) ==
    /\ pc[r] = "resolve"
    /\ \/ \E n \in nodes :
             /\ Resolvable(r, n)
             /\ target' = [target EXCEPT ![r] = n]
             /\ pc' = [pc EXCEPT ![r] = "insert"]
             /\ UNCHANGED reply
       \/ /\ Faults \/ ~ \E n \in nodes : Resolvable(r, n)
          /\ Finish(r, "400")
          /\ UNCHANGED target
    /\ UNCHANGED <<nodes, req, wname, ports, committed, status, beatVars, listVars>>

\* Whose row in workloads, or in workload_ports, has the key that r inserts
\* next.  A request can collide with itself on a port.
SameName(r) == {o \in Reqs \ {r} : wname[o] = req[r].name}

NextPort(r) == Normalise(req[r].ports[Len(ports[r]) + 1])

SamePort(r) ==
    {o \in Reqs : /\ target[o] = target[r]
                  /\ \E i \in DOMAIN ports[o] : ports[o][i] = NextPort(r)}

\* An insert waits for the uncommitted row of another transaction.
Blockers(r) ==
    (IF pc[r] = "insert" THEN SameName(r)
     ELSE IF pc[r] = "ports" THEN SamePort(r) \ {r} ELSE {}) \ committed

\* Mutant of InsertWorkload: the name is looked up, not guarded by an index.
InsertWorkloadUnindexed(r) ==
    /\ pc[r] = "insert"
    /\ SameName(r) \cap committed = {}
    /\ wname' = [wname EXCEPT ![r] = req[r].name]
    /\ pc' = [pc EXCEPT ![r] = IF req[r].ports = << >> THEN "commit" ELSE "ports"]
    /\ UNCHANGED <<nodes, req, target, ports, committed, reply, status, beatVars, listVars>>

\* Mutant of InsertWorkload: executed on the pool, not in the transaction.
InsertWorkloadAutocommit(r) ==
    /\ pc[r] = "insert"
    /\ SameName(r) = {}
    /\ wname' = [wname EXCEPT ![r] = req[r].name]
    /\ committed' = committed \cup {r}
    /\ pc' = [pc EXCEPT ![r] = IF req[r].ports = << >> THEN "commit" ELSE "ports"]
    /\ UNCHANGED <<nodes, req, target, ports, reply, status, beatVars, listVars>>

\* INSERT INTO workloads: unique by name.  Nodes are never deleted, so the
\* foreign key on node_id cannot fail any more.
InsertWorkload(r) ==
    /\ pc[r] = "insert"
    /\ Blockers(r) = {}
    /\ \/ /\ SameName(r) # {}
          /\ Rollback(r, "409")
       \/ /\ SameName(r) = {}
          /\ wname' = [wname EXCEPT ![r] = req[r].name]
          /\ pc' = [pc EXCEPT
                      ![r] = IF req[r].ports = << >> THEN "commit" ELSE "ports"]
          /\ UNCHANGED <<nodes, req, target, ports, committed, reply, status, beatVars, listVars>>

\* Mutant of InsertPort: a port that is taken is left out.
InsertPortSkips(r) ==
    /\ pc[r] = "ports"
    /\ Blockers(r) = {}
    /\ ports' = [ports EXCEPT
                   ![r] = IF SamePort(r) = {} THEN Append(@, NextPort(r)) ELSE @]
    /\ pc' = [pc EXCEPT
                ![r] = IF SamePort(r) # {} \/ Len(ports'[r]) = Len(req[r].ports)
                         THEN "commit" ELSE "ports"]
    /\ UNCHANGED <<nodes, req, target, wname, committed, reply, status, beatVars, listVars>>

\* INSERT INTO workload_ports, one by one: unique by node, host port and
\* protocol; a conflict undoes the whole workload.
InsertPort(r) ==
    /\ pc[r] = "ports"
    /\ Blockers(r) = {}
    /\ \/ /\ SamePort(r) # {}
          /\ Rollback(r, "409")
       \/ /\ SamePort(r) = {}
          /\ ports' = [ports EXCEPT ![r] = Append(@, NextPort(r))]
          /\ pc' = [pc EXCEPT
                      ![r] = IF Len(ports'[r]) = Len(req[r].ports)
                               THEN "commit" ELSE "ports"]
          /\ UNCHANGED <<nodes, req, target, wname, committed, reply, status, beatVars, listVars>>

CommitWorkload(r) ==
    /\ pc[r] = "commit"
    /\ committed' = committed \cup {r}
    /\ pc' = [pc EXCEPT ![r] = "getnode"]
    /\ UNCHANGED <<nodes, req, target, wname, ports, reply, status, beatVars, listVars>>

\* GetNode for the reply; when it fails the client gets an error for a
\* workload that exists.
ReplyCreated(r) ==
    /\ pc[r] = "getnode"
    /\ \/ Finish(r, "201")
       \/ Faults /\ Finish(r, "500")
    /\ UNCHANGED <<nodes, req, target, wname, ports, committed, status, beatVars, listVars>>

\* A statement fails, or the client's request is cancelled.
AbortWorkload(r) ==
    /\ Faults
    /\ pc[r] \in {"insert", "ports", "commit"}
    /\ Rollback(r, "500")

\* r is on a cycle of transactions each waiting for the next.
InDeadlock(r) ==
    \E S \in SUBSET Reqs :
        /\ r \in S
        /\ \A x \in S : S \cap Blockers(x) # {}
        /\ \A x \in S : \E y \in S : x \in Blockers(y)

\* PostgreSQL's deadlock detector fails the statement.
DeadlockVictim(r) ==
    /\ InDeadlock(r)
    /\ Rollback(r, "500")

CreateStep(r) ==
    \/ ResolveTargetNode(r) \/ InsertWorkload(r) \/ InsertPort(r)
    \/ CommitWorkload(r) \/ ReplyCreated(r)
-----------------------------------------------------------------------------
(* heartbeat                                                               *)

\* Mutant of Send: names without a container are reported too.
SendEverything(b, n, rep) ==
    /\ n \in nodes
    /\ inFlight[n] = 0
    /\ bpc[b] = "idle"
    /\ \A o \in Beats : o < b => bpc[o] # "idle"
    /\ inFlight' = [inFlight EXCEPT ![n] = b]
    /\ bpc' = [bpc EXCEPT ![b] = "node"]
    /\ bnode' = [bnode EXCEPT ![b] = n]
    /\ report' = [report EXCEPT ![b] = rep]
    /\ todo' = [todo EXCEPT ![b] = Names]
    /\ UNCHANGED <<nodes, deployVars, listVars, status, lastBeat, due, alone, answer>>

\* The workloads whose client has been told that they exist.
Acknowledged == {r \in Reqs : reply[r] = "201"}

\* The server is not working on heartbeat b any more.
Served(b) == bpc[b] \in {"done", "failed"}

\* The agent of a registered node sends its next heartbeat: heartbeats are
\* numbered in the order they are sent, one at a time per agent.
Send(b, n, rep) ==
    /\ n \in nodes
    /\ inFlight[n] = 0
    /\ bpc[b] = "idle"
    /\ \A o \in Beats : o < b => bpc[o] # "idle"
    /\ inFlight' = [inFlight EXCEPT ![n] = b]
    /\ bpc' = [bpc EXCEPT ![b] = "node"]
    /\ bnode' = [bnode EXCEPT ![b] = n]
    /\ report' = [report EXCEPT ![b] = rep]
    /\ todo' = [todo EXCEPT ![b] = {w \in Names : rep[w] # "absent"}]
    /\ due' = [due EXCEPT ![b] = {r \in Acknowledged : target[r] = n}]
    /\ alone' = [alone EXCEPT ![b] = \A o \in Beats : bnode[o] = n => Served(o)]
    /\ UNCHANGED <<nodes, deployVars, listVars, status, lastBeat, answer>>

\* AuthenticateNode, the check of the path, and UpdateNodeHeartbeat.
UpdateNodeHeartbeat(b) ==
    /\ bpc[b] = "node"
    /\ lastBeat' = [lastBeat EXCEPT ![bnode[b]] = b]
    /\ bpc' = [bpc EXCEPT ![b] = IF todo[b] = {} THEN "list" ELSE "status"]
    /\ UNCHANGED <<nodes, deployVars, listVars, status, bnode, report, todo, due, alone, answer, inFlight>>

\* Mutant of Recorded: any node may update a workload by its name.
RecordedUnscoped(b, w, r) == r \in committed /\ wname[r] = w

\* Mutant of Recorded: only the first report counts.
RecordedOnce(b, w, r) ==
    /\ r \in committed /\ target[r] = bnode[b] /\ wname[r] = w
    /\ status[r] = "pending"

\* WHERE node_id = $1 AND name = $2: the row a report of name w updates.
Recorded(b, w, r) == r \in committed /\ target[r] = bnode[b] /\ wname[r] = w

\* One UpdateWorkloadStatus per reported container, each on its own: scoped
\* to the node and the name, no error if there is no such workload.
UpdateWorkloadStatus(b) ==
    /\ bpc[b] = "status"
    /\ \E w \in todo[b] :
          /\ status' = [r \in Reqs |->
                IF Recorded(b, w, r) THEN report[b][w] ELSE status[r]]
          /\ todo' = [todo EXCEPT ![b] = @ \ {w}]
    /\ bpc' = [bpc EXCEPT ![b] = IF todo'[b] = {} THEN "list" ELSE "status"]
    /\ UNCHANGED <<nodes, deployVars, listVars, lastBeat, bnode, report, due, alone, answer, inFlight>>

\* ListWorkloadsForNode: the committed rows of the node, ports not yet read.
ListWorkloadsForNode(b) ==
    /\ bpc[b] = "list"
    /\ answer' = [answer EXCEPT ![b] =
          [r \in {o \in committed : target[o] = bnode[b]} |-> << >>]]
    /\ bpc' = [bpc EXCEPT ![b] = "attach"]
    /\ UNCHANGED <<nodes, deployVars, listVars, status, lastBeat, bnode, report, todo, due, alone, inFlight>>

\* attachPorts, a second query, and the reply.
AttachPorts(b) ==
    /\ bpc[b] = "attach"
    /\ answer' = [answer EXCEPT ![b] = [r \in DOMAIN answer[b] |-> ports[r]]]
    /\ bpc' = [bpc EXCEPT ![b] = "done"]
    /\ inFlight' = [n \in Nodes |-> IF inFlight[n] = b THEN 0 ELSE inFlight[n]]
    /\ UNCHANGED <<nodes, deployVars, listVars, status, lastBeat, bnode, report, todo, due, alone>>

\* A statement fails: what was recorded so far stays.
BeatFails(b) ==
    /\ Faults
    /\ bpc[b] \in {"node", "status", "list", "attach"}
    /\ bpc' = [bpc EXCEPT ![b] = "failed"]
    /\ inFlight' = [n \in Nodes |-> IF inFlight[n] = b THEN 0 ELSE inFlight[n]]
    /\ UNCHANGED <<nodes, deployVars, listVars, status, lastBeat, bnode, report, todo, due, alone, answer>>

\* The agent times out or restarts, and will send the next heartbeat while
\* the control plane may still be working on this one.
GiveUp(n) ==
    /\ Faults
    /\ inFlight[n] # 0
    /\ inFlight' = [inFlight EXCEPT ![n] = 0]
    /\ UNCHANGED <<nodes, deployVars, listVars, status, lastBeat, bpc, bnode, report, todo, due, alone, answer>>

BeatStep(b) ==
    \/ UpdateNodeHeartbeat(b) \/ UpdateWorkloadStatus(b)
    \/ ListWorkloadsForNode(b) \/ AttachPorts(b)
-----------------------------------------------------------------------------
(* listWorkloads                                                           *)

\* ListWorkloads: every committed row, ports not yet read.
ListWorkloads(l) ==
    /\ lpc[l] \in {"idle", "shown"}
    /\ lpc' = [lpc EXCEPT ![l] = "ports"]
    /\ list' = [list EXCEPT ![l] = [r \in committed |-> << >>]]
    /\ lnodes' = [lnodes EXCEPT ![l] = {}]
    /\ ldue' = [ldue EXCEPT ![l] = Acknowledged]
    /\ UNCHANGED <<nodes, deployVars, status, beatVars>>

\* Mutant of ListPorts: an inner join, which loses workloads without ports.
ListPortsJoined(l) ==
    /\ lpc[l] = "ports"
    /\ lpc' = [lpc EXCEPT ![l] = "nodes"]
    /\ list' = [list EXCEPT ![l] =
                   [r \in {o \in DOMAIN @ : ports[o] # << >>} |-> ports[r]]]
    /\ UNCHANGED <<nodes, deployVars, status, beatVars, lnodes, ldue>>

\* attachPorts.
ListPorts(l) ==
    /\ lpc[l] = "ports"
    /\ lpc' = [lpc EXCEPT ![l] = "nodes"]
    /\ list' = [list EXCEPT ![l] = [r \in DOMAIN list[l] |-> ports[r]]]
    /\ UNCHANGED <<nodes, deployVars, status, beatVars, lnodes, ldue>>

\* ListNodes, for the name and the address of every workload's node, and
\* the reply.
ListNodes(l) ==
    /\ lpc[l] = "nodes"
    /\ lpc' = [lpc EXCEPT ![l] = "shown"]
    /\ lnodes' = [lnodes EXCEPT ![l] = nodes]
    /\ UNCHANGED <<nodes, deployVars, status, beatVars, list, ldue>>

\* A statement fails, and with it the request.
ListFails(l) ==
    /\ Faults
    /\ lpc[l] \in {"ports", "nodes"}
    /\ lpc' = [lpc EXCEPT ![l] = "idle"]
    /\ list' = [list EXCEPT ![l] = Nothing]
    /\ UNCHANGED <<nodes, deployVars, status, beatVars, lnodes, ldue>>
-----------------------------------------------------------------------------
Next ==
    \/ \E n \in Nodes : RegisterNode(n) \/ GiveUp(n)
    \/ \E r \in Reqs :
          \/ \E q \in Request : Receive(r, q)
          \/ CreateStep(r) \/ AbortWorkload(r) \/ DeadlockVictim(r)
    \/ \E b \in Beats :
          \/ \E n \in Nodes, rep \in [Names -> States \cup {"absent"}] : Send(b, n, rep)
          \/ BeatStep(b) \/ BeatFails(b)
    \/ \E l \in Readers :
          ListWorkloads(l) \/ ListPorts(l) \/ ListNodes(l) \/ ListFails(l)

\* The server executes the requests it has begun, and PostgreSQL breaks
\* deadlocks; nobody has to send a request.
Fairness ==
    /\ \A r \in Reqs : WF_vars(CreateStep(r)) /\ WF_vars(DeadlockVictim(r))
    /\ \A b \in Beats : WF_vars(BeatStep(b))

Spec == Init /\ [][Next]_vars /\ Fairness
-----------------------------------------------------------------------------
(* Properties                                                              *)

\* No two workloads have the same name, whatever transactions overlap.
UniqueWorkloadNames ==
    \A r, o \in Reqs : wname[r] # NoName /\ wname[r] = wname[o] => r = o

\* "two workloads on the same node cannot claim the same host port"
\* (0002_networking.up.sql): no two port rows of a node, of one workload or
\* of two, have the same host port and the same protocol, where a protocol
\* that was not given means tcp.
PortsExclusive ==
    LET Means(p) == <<p.host, IF p.proto = "" THEN "tcp" ELSE p.proto>>
    IN  \A r, o \in Reqs : \A i \in DOMAIN ports[r], j \in DOMAIN ports[o] :
            target[r] = target[o] /\ Means(ports[r][i]) = Means(ports[o][j]) =>
                r = o /\ i = j

\* ps are the ports that request r asked for, in its order.
AllPorts(r, ps) ==
    /\ Len(ps) = Len(req[r].ports)
    /\ \A i \in DOMAIN ps : ps[i] = Normalise(req[r].ports[i])

\* A client can trust its reply: 201 means the workload is committed with
\* every port it asked for, a 4xx that nothing of it remains.  (A 500 says
\* nothing: the workload may exist.)
ReplyIsTrue ==
    \A r \in Reqs :
        /\ reply[r] = "201" => r \in committed /\ AllPorts(r, ports[r])
        /\ reply[r] \in {"400", "409"} =>
              r \notin committed /\ wname[r] = NoName /\ ports[r] = << >>

\* The desired state a node is told is complete: although the workloads and
\* their ports are read by two queries while others are being created, the
\* answer holds only workloads of that node, each with all its ports, and
\* every workload acknowledged before the heartbeat was sent.
DesiredComplete ==
    \A b \in Beats : bpc[b] = "done" =>
        /\ due[b] \subseteq DOMAIN answer[b]
        /\ \A r \in DOMAIN answer[b] :
              /\ target[r] = bnode[b]
              /\ AllPorts(r, answer[b][r])

\* What ambudctl and the dashboard list is complete: although workloads,
\* ports and nodes are read by three queries outside any transaction, the
\* list has every workload acknowledged before, each with all its ports, and
\* with a node whose name and address are known.
ListingComplete ==
    \A l \in Readers : lpc[l] = "shown" =>
        /\ ldue[l] \subseteq DOMAIN list[l]
        /\ \A r \in DOMAIN list[l] :
              target[r] \in lnodes[l] /\ AllPorts(r, list[l][r])

\* The refinement mapping to WorkloadStore.tla.  A workload exists from its
\* COMMIT on; a desired state is read when its rows are, although its ports
\* follow by a second query.
Rows(r) == {ports[r][i] : i \in DOMAIN ports[r]}

absRows == [r \in Reqs |->
    IF r \in committed
      THEN [name |-> wname[r], node |-> target[r], ports |-> Rows(r)]
      ELSE NoName]

absAnswers == [b \in Beats |->
    IF bpc[b] = "attach" THEN [r \in DOMAIN answer[b] |-> Rows(r)]
    ELSE IF bpc[b] = "done"
      THEN [r \in DOMAIN answer[b] |->
               {answer[b][r][i] : i \in DOMAIN answer[b][r]}]
    ELSE NoName]

Store == INSTANCE WorkloadStore WITH
    NoRow <- NoName, NoAnswer <- NoName, rows <- absRows, answers <- absAnswers

\* The statements of createWorkload and heartbeat, interleaved with those of
\* other requests and failing anywhere, amount to single steps on one table:
\* a workload appears at once, under a free name and with all its ports free
\* on its node, and a node is told what was assigned to it at one moment.
ImplementsStore == Store!Spec

\* "a heartbeat can only update the state of workloads actually assigned to
\* the node sending it" (UpdateWorkloadStatus): a status changes only to
\* what the workload's own node reports for it.
StatusFromOwnNode ==
    [][\A r \in Reqs : status'[r] # status[r] =>
          \E b \in Beats : /\ bnode[b] = target[r]
                           /\ bpc[b] = "status"
                           /\ report[b][wname[r]] = status'[r]]_vars

\* Every createWorkload request is answered: waits for uncommitted names and
\* ports, in whatever order two requests list their ports, come to an end.
CreateSettles == \A r \in Reqs : pc[r] # "idle" ~> reply[r] # "none"

\* A Workload holds "the last state an agent heartbeat reported for it"
\* (internal/controlplane/store/workloads.go:13).  When a node's latest
\* heartbeat has been answered, the status of a workload that it reports is
\* the one it reported, unless the agent sent it while an earlier one, which
\* it had given up, was still being served.
StatusIsLatest ==
    \A b \in Beats :
        /\ bpc[b] = "done" /\ alone[b]
        /\ \A o \in Beats \ {b} : bnode[o] = bnode[b] => o < b
        => \A r \in due[b] :
              report[b][wname[r]] # "absent" => status[r] = report[b][wname[r]]
=============================================================================
