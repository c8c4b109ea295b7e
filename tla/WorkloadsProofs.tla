-------------------------- MODULE WorkloadsProofs ---------------------------
(***************************************************************************)
(* Proofs about Workloads.tla, for any sets of requests, names, nodes,     *)
(* port lists, heartbeats and readers, with and without faults.            *)
(*                                                                         *)
(* TxInv ties a workload's row and its ports to the position of the        *)
(* transaction that writes them; with it a committed row never changes     *)
(* (CommittedStays), which is all that the heartbeats' and the readers'    *)
(* queries, executed outside of any transaction, rely on.                  *)
(***************************************************************************)
EXTENDS Workloads, TLAPS

\* Where a request has its row inserted, and where its transaction is open.
HasRow == {"ports", "commit", "getnode"}
Open == {"insert", "ports", "commit"}

\* What a createWorkload request has written by the time it is at pc: the
\* row from the INSERT on, the ports in the order of the request, all of
\* them by the COMMIT, and nothing if it ended without one.
Tx(r) ==
    /\ pc[r] # "idle" => req[r] \in Request
    /\ pc[r] \in Open \/ r \in committed => target[r] \in nodes
    /\ wname[r] # NoName <=> pc[r] \in HasRow \/ r \in committed
    /\ wname[r] # NoName => wname[r] = req[r].name
    /\ wname[r] = NoName => ports[r] = << >>
    /\ Len(ports[r]) <= Len(req[r].ports)
    /\ pc[r] = "ports" => Len(ports[r]) < Len(req[r].ports)
    /\ pc[r] = "commit" \/ r \in committed => Len(ports[r]) = Len(req[r].ports)
    /\ r \in committed => pc[r] \in {"getnode", "done"}
    /\ pc[r] = "getnode" => r \in committed
    /\ pc[r] # "done" => reply[r] = "none"

\* All requests are like that.
TxInv == \A r \in Reqs : Tx(r)

\* What a reply says of its own workload.
ReplyAt(r) ==
    /\ reply[r] = "201" => r \in committed /\ Len(ports[r]) = Len(req[r].ports)
    /\ reply[r] \in {"400", "409"} =>
          r \notin committed /\ wname[r] = NoName /\ ports[r] = << >>

\* All replies are like that: ReplyIsTrue, but for what the ports are.
ReplyInv == \A r \in Reqs : ReplyAt(r)

\* The rows in workload_ports are the request's ports, normalised.
PortInv ==
    \A r \in Reqs : \A i \in DOMAIN ports[r] :
        ports[r][i] = Normalise(req[r].ports[i])

\* The unique index on workload_ports.
PortKeys ==
    \A r, o \in Reqs : \A i \in DOMAIN ports[r], j \in DOMAIN ports[o] :
        target[r] = target[o] /\ ports[r][i] = ports[o][j] => r = o /\ i = j

\* What a heartbeat request has read: from the first query on it holds
\* committed workloads of its node, among them those acknowledged before it
\* was sent, and after the second one their ports.
BeatInv ==
    \A b \in Beats :
        /\ bpc[b] = "idle" <=> bnode[b] = NoNode
        /\ due[b] \subseteq {r \in committed : target[r] = bnode[b]}
        /\ bpc[b] \in {"attach", "done"} =>
              /\ due[b] \subseteq DOMAIN answer[b]
              /\ DOMAIN answer[b] \subseteq {r \in committed : target[r] = bnode[b]}
        /\ bpc[b] = "done" =>
              \A r \in DOMAIN answer[b] : answer[b][r] = ports[r]

\* The same for a listWorkloads request.
ListInv ==
    \A l \in Readers :
        /\ lpc[l] # "idle" =>
              ldue[l] \subseteq DOMAIN list[l] /\ DOMAIN list[l] \subseteq committed
        /\ lpc[l] \in {"nodes", "shown"} =>
              \A r \in DOMAIN list[l] : list[l][r] = ports[r]
        /\ lpc[l] = "shown" => \A r \in DOMAIN list[l] : target[r] \in lnodes[l]

\* Heartbeats are sent in the order of their numbers, and those sent before
\* one that is alone have been served.
OrderInv ==
    /\ \A b, o \in Beats : bpc[b] # "idle" /\ o < b => bpc[o] # "idle"
    /\ \A b \in Beats : alone[b] => bpc[b] # "idle"
    /\ \A b, o \in Beats : alone[b] /\ o < b /\ bnode[o] = bnode[b] => Served(o)

\* The names a heartbeat has still to record are reported ones: all of them
\* at first, none after the last update.
TodoInv ==
    \A b \in Beats :
        /\ \A w \in todo[b] : report[b][w] # "absent"
        /\ bpc[b] = "node" => todo[b] = {w \in Names : report[b][w] # "absent"}
        /\ bpc[b] \in {"list", "attach", "done"} => todo[b] = {}

\* b is the latest heartbeat its node has sent.
Last(b) == \A o \in Beats \ {b} : bnode[o] = bnode[b] => o < b

\* StatusIsLatest, name by name as b goes through its report.
StatusInv ==
    \A b \in Beats :
        alone[b] /\ Last(b) /\ bpc[b] \in {"status", "list", "attach", "done"} =>
            \A r \in due[b] :
                report[b][wname[r]] # "absent" /\ wname[r] \notin todo[b] =>
                    status[r] = report[b][wname[r]]

\* The inductive invariant.
IInv ==
    /\ TypeOK
    /\ TxInv
    /\ ReplyInv
    /\ UniqueWorkloadNames
    /\ PortInv
    /\ PortKeys
    /\ BeatInv
    /\ ListInv
    /\ OrderInv
    /\ TodoInv
    /\ StatusInv
-----------------------------------------------------------------------------
(* Types                                                                   *)

\* The actions of a createWorkload request, of a heartbeat and of a reader.
CreateAction(r) ==
    \/ \E q \in Request : Receive(r, q)
    \/ CreateStep(r) \/ AbortWorkload(r) \/ DeadlockVictim(r)

BeatAction(b) ==
    \/ \E n \in Nodes, rep \in [Names -> States \cup {"absent"}] : Send(b, n, rep)
    \/ BeatStep(b) \/ BeatFails(b)

ListAction(l) == ListWorkloads(l) \/ ListPorts(l) \/ ListNodes(l) \/ ListFails(l)

\* Only a transaction that waits can be chosen by the deadlock detector.
LEMMA VictimWaits ==
    ASSUME NEW r \in Reqs, InDeadlock(r)
    PROVE  pc[r] \in {"insert", "ports"}
BY DEF InDeadlock, Blockers

\* The next port to insert is one.
LEMMA NextPortType ==
    ASSUME NEW r \in Reqs, TypeOK, TxInv, pc[r] = "ports"
    PROVE  /\ NextPort(r) \in Port
           /\ NextPort(r).proto # ""
           /\ Len(ports[r]) + 1 \in DOMAIN req[r].ports
<1>1. req[r].ports \in Seq(Port)
    BY PortsAssumption DEF TxInv, Tx, Request, CreatePc
<1>2. Len(ports[r]) + 1 \in DOMAIN req[r].ports
    BY <1>1 DEF TypeOK, TxInv, Tx
<1>3. req[r].ports[Len(ports[r]) + 1] \in Port
    BY <1>1, <1>2
<1>4. QED BY <1>2, <1>3, PortsAssumption DEF NextPort, Normalise, Port

\* A step of a createWorkload request preserves the types.
LEMMA CreateTypes ==
    ASSUME NEW r \in Reqs, CreateAction(r), TypeOK, TxInv
    PROVE  TypeOK'
<1> USE NullAssumption DEF TypeOK, CreatePc, Replies, beatVars, listVars
<1>1. ASSUME NEW q \in Request, Receive(r, q) PROVE TypeOK'
    BY <1>1 DEF Receive
<1>2. CASE ResolveTargetNode(r)
    <2>1. ASSUME NEW n \in nodes, target' = [target EXCEPT ![r] = n],
                 pc' = [pc EXCEPT ![r] = "insert"], UNCHANGED reply
          PROVE  TypeOK'
        BY <1>2, <2>1 DEF ResolveTargetNode
    <2>2. CASE Finish(r, "400") /\ UNCHANGED target
        BY <1>2, <2>2 DEF ResolveTargetNode, Finish
    <2>3. QED BY <1>2, <2>1, <2>2 DEF ResolveTargetNode
<1>3. ASSUME NEW code \in Replies, Rollback(r, code) PROVE TypeOK'
    BY <1>3 DEF Rollback, Finish
<1>4. CASE InsertWorkload(r)
    <2>1. req[r].name \in Names
        BY <1>4 DEF InsertWorkload, TxInv, Tx, Request, Open
    <2>2. CASE SameName(r) = {}
        BY <1>4, <2>1, <2>2 DEF InsertWorkload
    <2>3. CASE SameName(r) # {}
        BY <1>3, <1>4, <2>3 DEF InsertWorkload
    <2>4. QED BY <2>2, <2>3
<1>5. CASE InsertPort(r)
    <2>1. NextPort(r) \in Port
        BY <1>5, NextPortType DEF InsertPort
    <2>2. CASE SamePort(r) = {}
        <3>1. Append(ports[r], NextPort(r)) \in Seq(Port)
            BY <2>1
        <3>2. ports' \in [Reqs -> Seq(Port)]
            BY <1>5, <2>2, <3>1 DEF InsertPort
        <3>3. QED BY <1>5, <2>2, <3>2 DEF InsertPort
    <2>3. CASE SamePort(r) # {}
        BY <1>3, <1>5, <2>3 DEF InsertPort
    <2>4. QED BY <2>2, <2>3
<1>6. CASE CommitWorkload(r) BY <1>6 DEF CommitWorkload
<1>7. CASE ReplyCreated(r)
    <2>1. CASE Finish(r, "201") BY <1>7, <2>1 DEF ReplyCreated, Finish
    <2>2. CASE Finish(r, "500") BY <1>7, <2>2 DEF ReplyCreated, Finish
    <2>3. QED BY <1>7, <2>1, <2>2 DEF ReplyCreated
<1>8. CASE AbortWorkload(r) \/ DeadlockVictim(r)
    BY <1>3, <1>8 DEF AbortWorkload, DeadlockVictim
<1>9. QED
    BY <1>1, <1>2, <1>4, <1>5, <1>6, <1>7, <1>8 DEF CreateAction, CreateStep

\* So does a step of a heartbeat,
LEMMA BeatTypes ==
    ASSUME NEW b \in Beats, BeatAction(b), TypeOK, BeatInv, TodoInv
    PROVE  TypeOK'
<1> USE NullAssumption, BeatsAssumption DEF TypeOK, BeatPc, deployVars, listVars
<1>1. ASSUME NEW n \in Nodes, NEW rep \in [Names -> States \cup {"absent"}],
             Send(b, n, rep)
      PROVE  TypeOK'
    BY <1>1 DEF Send, Acknowledged
<1>2. CASE UpdateNodeHeartbeat(b) BY <1>2 DEF UpdateNodeHeartbeat, BeatInv
<1>3. CASE UpdateWorkloadStatus(b)
    <2>1. PICK w \in todo[b] :
              /\ status' = [r \in Reqs |->
                    IF Recorded(b, w, r) THEN report[b][w] ELSE status[r]]
              /\ todo' = [todo EXCEPT ![b] = @ \ {w}]
        BY <1>3 DEF UpdateWorkloadStatus
    <2>2. report[b][w] \in States
        BY <1>3, <2>1 DEF UpdateWorkloadStatus, TodoInv
    <2>3. status' \in [Reqs -> States \cup {"pending"}]
        BY <2>1, <2>2
    <2>4. QED BY <1>3, <2>1, <2>3 DEF UpdateWorkloadStatus
<1>4. CASE ListWorkloadsForNode(b) BY <1>4 DEF ListWorkloadsForNode
<1>5. CASE AttachPorts(b) BY <1>5 DEF AttachPorts
<1>6. CASE BeatFails(b) BY <1>6 DEF BeatFails
<1>7. QED BY <1>1, <1>2, <1>3, <1>4, <1>5, <1>6 DEF BeatAction, BeatStep

\* and any other step.
LEMMA OtherTypes ==
    ASSUME TypeOK,
           \/ \E n \in Nodes : RegisterNode(n) \/ GiveUp(n)
           \/ \E l \in Readers : ListAction(l)
           \/ UNCHANGED vars
    PROVE  TypeOK'
<1> USE DEF TypeOK, deployVars, beatVars, listVars
<1>1. ASSUME NEW n \in Nodes, RegisterNode(n) PROVE TypeOK'
    BY <1>1 DEF RegisterNode
<1>2. ASSUME NEW n \in Nodes, GiveUp(n) PROVE TypeOK'
    BY <1>2 DEF GiveUp
<1>3. ASSUME NEW l \in Readers, ListAction(l) PROVE TypeOK'
    <2>1. CASE ListWorkloads(l) BY <2>1 DEF ListWorkloads, Acknowledged
    <2>2. CASE ListPorts(l) BY <2>2 DEF ListPorts
    <2>3. CASE ListNodes(l) BY <2>3 DEF ListNodes
    <2>4. CASE ListFails(l) BY <2>4 DEF ListFails, Nothing
    <2>5. QED BY <1>3, <2>1, <2>2, <2>3, <2>4 DEF ListAction
<1>4. CASE UNCHANGED vars BY <1>4 DEF vars
<1>5. QED BY <1>1, <1>2, <1>3, <1>4
-----------------------------------------------------------------------------
(* Transactions                                                            *)

\* A createWorkload request writes no row but its own, and nothing that
\* heartbeats and readers write.
OthersKept(r) ==
    /\ UNCHANGED <<nodes, status, beatVars, listVars>>
    /\ \A o \in Reqs \ {r} :
          /\ req'[o] = req[o] /\ pc'[o] = pc[o] /\ target'[o] = target[o]
          /\ wname'[o] = wname[o] /\ ports'[o] = ports[o] /\ reply'[o] = reply[o]
          /\ o \in committed' <=> o \in committed

\* A request does nothing to the rows of another.
LEMMA CreateFrame ==
    ASSUME NEW r \in Reqs, CreateAction(r), TypeOK
    PROVE  OthersKept(r)
<1> USE DEF TypeOK, OthersKept, Finish, Rollback
<1>1. ASSUME NEW q \in Request, Receive(r, q) PROVE OthersKept(r)
    BY <1>1 DEF Receive
<1>2. CASE ResolveTargetNode(r) BY <1>2 DEF ResolveTargetNode
<1>3. CASE InsertWorkload(r) BY <1>3 DEF InsertWorkload
<1>4. CASE InsertPort(r) BY <1>4 DEF InsertPort
<1>5. CASE CommitWorkload(r) BY <1>5 DEF CommitWorkload
<1>6. CASE ReplyCreated(r) BY <1>6 DEF ReplyCreated
<1>7. CASE AbortWorkload(r) \/ DeadlockVictim(r)
    BY <1>7 DEF AbortWorkload, DeadlockVictim
<1>8. QED
    BY <1>1, <1>2, <1>3, <1>4, <1>5, <1>6, <1>7 DEF CreateAction, CreateStep

\* A roll-back leaves nothing of the workload.
LEMMA RollbackTx ==
    ASSUME NEW r \in Reqs, NEW code, Rollback(r, code), TypeOK, Tx(r),
           pc[r] \in Open
    PROVE  /\ Tx(r)'
           /\ r \notin committed' /\ wname'[r] = NoName /\ ports'[r] = << >>
           /\ reply'[r] = code
<1>1. req[r] \in Request /\ req[r].ports \in Seq(Port)
    BY PortsAssumption DEF Tx, Open, Request
<1>2. QED
    BY <1>1 DEF Rollback, Finish, TypeOK, Tx, Open, HasRow

\* The position of a transaction and what it has written stay together.
LEMMA CreateTx ==
    ASSUME NEW r \in Reqs, CreateAction(r), TypeOK, Tx(r)
    PROVE  Tx(r)'
<1>0. ASSUME req[r] \in Request PROVE req[r].ports \in Seq(Port)
    BY <1>0, PortsAssumption DEF Request
<1> USE NullAssumption DEF TypeOK, Tx, Open, HasRow
<1>1. ASSUME NEW q \in Request, Receive(r, q) PROVE Tx(r)'
    <2>1. q.ports \in Seq(Port)
        BY PortsAssumption DEF Request
    <2>2. QED BY <1>1, <2>1 DEF Receive
<1>2. CASE ResolveTargetNode(r) BY <1>2 DEF ResolveTargetNode, Finish
<1>3. CASE InsertWorkload(r)
    <2>1. req[r] \in Request /\ req[r].ports \in Seq(Port) /\ req[r].name \in Names
        BY <1>0, <1>3 DEF InsertWorkload, Request
    <2>2. CASE SameName(r) = {}
        BY <1>3, <2>1, <2>2 DEF InsertWorkload
    <2>3. CASE SameName(r) # {}
        BY <1>3, <2>3, RollbackTx DEF InsertWorkload
    <2>4. QED BY <2>2, <2>3
<1>4. CASE InsertPort(r)
    <2>1. req[r] \in Request /\ req[r].ports \in Seq(Port)
        BY <1>0, <1>4 DEF InsertPort
    <2>2. CASE SamePort(r) = {}
        <3>1. ports'[r] = Append(ports[r], NextPort(r))
            BY <1>4, <2>2 DEF InsertPort
        <3>2. Len(ports'[r]) = Len(ports[r]) + 1
            BY <3>1
        <3>3. QED BY <1>4, <2>1, <2>2, <3>2 DEF InsertPort
    <2>3. CASE SamePort(r) # {}
        BY <1>4, <2>3, RollbackTx DEF InsertPort
    <2>4. QED BY <2>2, <2>3
<1>5. CASE CommitWorkload(r) BY <1>5 DEF CommitWorkload
<1>6. CASE ReplyCreated(r) BY <1>6 DEF ReplyCreated, Finish
<1>7. CASE AbortWorkload(r) \/ DeadlockVictim(r)
    BY <1>7, RollbackTx, VictimWaits DEF AbortWorkload, DeadlockVictim
<1>8. QED
    BY <1>1, <1>2, <1>3, <1>4, <1>5, <1>6, <1>7 DEF CreateAction, CreateStep

\* The reply a request gets is true when it gets it.
LEMMA CreateReply ==
    ASSUME NEW r \in Reqs, CreateAction(r), TypeOK, Tx(r), Tx(r)'
    PROVE  ReplyAt(r)'
<1>0. ASSUME NEW code \in {"409", "500"}, Rollback(r, code), pc[r] \in Open
      PROVE  ReplyAt(r)'
    BY <1>0, RollbackTx DEF ReplyAt
<1> USE DEF TypeOK, Tx, Open, HasRow, ReplyAt
<1>1. ASSUME NEW q \in Request, Receive(r, q) PROVE ReplyAt(r)'
    BY <1>1 DEF Receive
<1>2. CASE ResolveTargetNode(r) BY <1>2 DEF ResolveTargetNode, Finish
<1>3. CASE InsertWorkload(r)
    <2>1. CASE SameName(r) = {} BY <1>3, <2>1 DEF InsertWorkload
    <2>2. CASE SameName(r) # {} BY <1>3, <1>0, <2>2 DEF InsertWorkload
    <2>3. QED BY <2>1, <2>2
<1>4. CASE InsertPort(r)
    <2>1. CASE SamePort(r) = {} BY <1>4, <2>1 DEF InsertPort
    <2>2. CASE SamePort(r) # {} BY <1>4, <1>0, <2>2 DEF InsertPort
    <2>3. QED BY <2>1, <2>2
<1>5. CASE CommitWorkload(r) BY <1>5 DEF CommitWorkload
<1>6. CASE ReplyCreated(r) BY <1>6 DEF ReplyCreated, Finish
<1>7. CASE AbortWorkload(r) \/ DeadlockVictim(r)
    BY <1>7, <1>0, VictimWaits DEF AbortWorkload, DeadlockVictim
<1>8. QED
    BY <1>1, <1>2, <1>3, <1>4, <1>5, <1>6, <1>7 DEF CreateAction, CreateStep

\* A request takes a name only by an INSERT that finds no other row with it.
LEMMA CreateName ==
    ASSUME NEW r \in Reqs, CreateAction(r), TypeOK, TxInv
    PROVE  \/ wname'[r] = wname[r] \/ wname'[r] = NoName
           \/ \A o \in Reqs \ {r} : wname[o] # wname'[r]
<1> DEFINE Goal == \/ wname'[r] = wname[r] \/ wname'[r] = NoName
                   \/ \A o \in Reqs \ {r} : wname[o] # wname'[r]
<1> USE DEF TypeOK
<1>1. ASSUME NEW q \in Request, Receive(r, q) PROVE Goal
    BY <1>1 DEF Receive
<1>2. CASE ResolveTargetNode(r) BY <1>2 DEF ResolveTargetNode
<1>3. CASE InsertWorkload(r) BY <1>3 DEF InsertWorkload, SameName, Rollback
<1>4. CASE InsertPort(r) BY <1>4 DEF InsertPort, Rollback
<1>5. CASE CommitWorkload(r) BY <1>5 DEF CommitWorkload
<1>6. CASE ReplyCreated(r) BY <1>6 DEF ReplyCreated
<1>7. CASE AbortWorkload(r) \/ DeadlockVictim(r)
    BY <1>7 DEF AbortWorkload, DeadlockVictim, Rollback
<1>8. QED
    BY <1>1, <1>2, <1>3, <1>4, <1>5, <1>6, <1>7 DEF CreateAction, CreateStep

\* A request's port rows, their node and the request itself stay as they
\* are, or go, or grow by the next port, if no row of the node has it; the
\* node and the request are only set while there are no port rows.
PortsKept(r) == ports'[r] = ports[r] /\ target'[r] = target[r] /\ req'[r] = req[r]
PortTaken(r) ==
    /\ pc[r] = "ports" /\ SamePort(r) = {}
    /\ ports'[r] = Append(ports[r], NextPort(r))
    /\ target'[r] = target[r] /\ req'[r] = req[r]

\* No step of a request treats its port rows in any other way.
LEMMA CreatePorts ==
    ASSUME NEW r \in Reqs, CreateAction(r), TypeOK, TxInv
    PROVE  PortsKept(r) \/ ports'[r] = << >> \/ PortTaken(r)
<1> DEFINE Goal == PortsKept(r) \/ ports'[r] = << >> \/ PortTaken(r)
<1> USE DEF TypeOK, PortsKept, PortTaken
<1>1. ASSUME NEW q \in Request, Receive(r, q) PROVE Goal
    BY <1>1 DEF Receive, TxInv, Tx, HasRow
<1>2. CASE ResolveTargetNode(r)
    BY <1>2 DEF ResolveTargetNode, TxInv, Tx, HasRow
<1>3. CASE InsertWorkload(r) BY <1>3 DEF InsertWorkload, Rollback
<1>4. CASE InsertPort(r) BY <1>4 DEF InsertPort, Rollback
<1>5. CASE CommitWorkload(r) BY <1>5 DEF CommitWorkload
<1>6. CASE ReplyCreated(r) BY <1>6 DEF ReplyCreated
<1>7. CASE AbortWorkload(r) \/ DeadlockVictim(r)
    BY <1>7 DEF AbortWorkload, DeadlockVictim, Rollback
<1>8. QED
    BY <1>1, <1>2, <1>3, <1>4, <1>5, <1>6, <1>7 DEF CreateAction, CreateStep

\* Every port row stays the request's port, normalised,
LEMMA CreatePortInv ==
    ASSUME NEW r \in Reqs, CreateAction(r), TypeOK, TypeOK', TxInv, PortInv
    PROVE  PortInv'
<1> SUFFICES ASSUME NEW x \in Reqs, NEW i \in DOMAIN ports'[x]
             PROVE  ports'[x][i] = Normalise(req'[x].ports[i])
    BY DEF PortInv
<1>1. CASE x # r
    BY <1>1, CreateFrame DEF PortInv, OthersKept
<1>2. CASE x = r /\ PortsKept(r)
    BY <1>2 DEF PortInv, PortsKept
<1>3. CASE x = r /\ PortTaken(r)
    <2>1. ports[r] \in Seq(Port) /\ NextPort(r) \in Port
        BY <1>3, NextPortType DEF TypeOK, PortTaken
    <2>2. CASE i = Len(ports[r]) + 1
        BY <1>3, <2>1, <2>2 DEF PortTaken, NextPort
    <2>3. CASE i # Len(ports[r]) + 1
        <3>1. i \in DOMAIN ports[r] /\ ports'[r][i] = ports[r][i]
            BY <1>3, <2>1, <2>3 DEF PortTaken
        <3>2. QED BY <1>3, <3>1 DEF PortInv, PortTaken
    <2>4. QED BY <2>2, <2>3
<1>4. QED BY <1>1, <1>2, <1>3, CreatePorts

\* and no key is in the index twice.
LEMMA CreatePortKeys ==
    ASSUME NEW r \in Reqs, CreateAction(r), TypeOK, TypeOK', TxInv, PortKeys
    PROVE  PortKeys'
<1>1. CASE PortsKept(r)
    BY <1>1, CreateFrame DEF PortKeys, PortsKept, OthersKept
<1>2. CASE ports'[r] = << >>
    BY <1>2, CreateFrame DEF PortKeys, OthersKept
<1>3. CASE PortTaken(r)
    <2> DEFINE k == Len(ports[r]) + 1
    <2>1. ports[r] \in Seq(Port) /\ NextPort(r) \in Port
        BY <1>3, NextPortType DEF TypeOK, PortTaken
    <2>2. /\ DOMAIN ports'[r] = DOMAIN ports[r] \cup {k}
          /\ \A i \in DOMAIN ports[r] : ports'[r][i] = ports[r][i]
          /\ ports'[r][k] = NextPort(r)
        BY <1>3, <2>1 DEF PortTaken
    <2>3. \A o \in Reqs : \A j \in DOMAIN ports[o] :
              target[o] = target[r] => ports[o][j] # NextPort(r)
        BY <1>3 DEF PortTaken, SamePort
    <2>4. target'[r] = target[r]
        BY <1>3 DEF PortTaken
    <2> SUFFICES ASSUME NEW x \in Reqs, NEW o \in Reqs,
                        NEW i \in DOMAIN ports'[x], NEW j \in DOMAIN ports'[o],
                        target'[x] = target'[o], ports'[x][i] = ports'[o][j]
                 PROVE  x = o /\ i = j
        BY DEF PortKeys
    <2>5. target[x] = target[o]
        BY <2>4, CreateFrame DEF OthersKept
    <2>6. CASE x = r /\ i = k
        BY <2>2, <2>3, <2>5, <2>6, CreateFrame DEF OthersKept
    <2>7. CASE o = r /\ j = k
        BY <2>2, <2>3, <2>5, <2>7, CreateFrame DEF OthersKept
    <2>8. CASE ~(x = r /\ i = k) /\ ~(o = r /\ j = k)
        <3>1. i \in DOMAIN ports[x] /\ ports'[x][i] = ports[x][i]
            BY <2>2, <2>8, CreateFrame DEF OthersKept
        <3>2. j \in DOMAIN ports[o] /\ ports'[o][j] = ports[o][j]
            BY <2>2, <2>8, CreateFrame DEF OthersKept
        <3>3. ports[x][i] = ports[o][j] BY <3>1, <3>2
        <3>4. QED BY <2>5, <3>1, <3>2, <3>3 DEF PortKeys
    <2>9. QED BY <2>6, <2>7, <2>8
<1>4. QED BY <1>1, <1>2, <1>3, CreatePorts

\* Next, by the kind of the request that takes the step.
LEMMA NextCases ==
    ASSUME [Next]_vars
    PROVE  \/ \E r \in Reqs : CreateAction(r)
           \/ \E b \in Beats : BeatAction(b) /\ UNCHANGED <<nodes, deployVars, listVars>>
           \/ \E l \in Readers : ListAction(l) /\ UNCHANGED <<nodes, deployVars, status, beatVars>>
           \/ \E n \in Nodes : RegisterNode(n) \/ GiveUp(n)
           \/ UNCHANGED vars
<1>1. ASSUME NEW b \in Beats, BeatAction(b)
      PROVE  UNCHANGED <<nodes, deployVars, listVars>>
    BY <1>1 DEF BeatAction, BeatStep, Send, UpdateNodeHeartbeat, UpdateWorkloadStatus,
        ListWorkloadsForNode, AttachPorts, BeatFails
<1>2. ASSUME NEW l \in Readers, ListAction(l)
      PROVE  UNCHANGED <<nodes, deployVars, status, beatVars>>
    BY <1>2 DEF ListAction, ListWorkloads, ListPorts, ListNodes, ListFails
<1>3. QED BY <1>1, <1>2 DEF Next, CreateAction, BeatAction, ListAction

\* The transactions' invariants depend on the tables of the deployment only.
DeployInv == TxInv /\ ReplyInv /\ UniqueWorkloadNames /\ PortInv /\ PortKeys

\* Every step keeps them.
LEMMA DeployInvStep ==
    ASSUME TypeOK, TypeOK', DeployInv, [Next]_vars
    PROVE  DeployInv'
<1>1. ASSUME NEW r \in Reqs, CreateAction(r) PROVE DeployInv'
    <2>1. OthersKept(r) BY <1>1, CreateFrame
    <2>2. TxInv'
        BY <1>1, <2>1, CreateTx DEF DeployInv, TxInv, Tx, OthersKept
    <2>3. ReplyInv'
        <3>1. ReplyAt(r)' BY <1>1, <2>2, CreateReply DEF DeployInv, TxInv
        <3>2. QED BY <2>1, <3>1 DEF DeployInv, ReplyInv, ReplyAt, OthersKept
    <2>4. UniqueWorkloadNames'
        BY <1>1, <2>1, CreateName DEF DeployInv, UniqueWorkloadNames, OthersKept
    <2>5. PortInv' /\ PortKeys'
        BY <1>1, CreatePortInv, CreatePortKeys DEF DeployInv
    <2>6. QED BY <2>2, <2>3, <2>4, <2>5 DEF DeployInv
<1>2. CASE UNCHANGED deployVars /\ nodes \subseteq nodes'
    BY <1>2 DEF deployVars, DeployInv, TxInv, Tx, ReplyInv, ReplyAt, UniqueWorkloadNames,
        PortInv, PortKeys
<1>3. QED BY <1>1, <1>2, NextCases DEF RegisterNode, GiveUp, vars

\* What has been committed never changes, and nodes are never deleted.
Stays ==
    /\ committed \subseteq committed' /\ nodes \subseteq nodes'
    /\ \A r \in committed : /\ target'[r] = target[r] /\ wname'[r] = wname[r]
                            /\ ports'[r] = ports[r] /\ req'[r] = req[r]

\* No step, of whichever request, touches a committed workload.
LEMMA CommittedStays ==
    ASSUME TypeOK, TxInv, [Next]_vars
    PROVE  Stays
<1>1. ASSUME NEW r \in Reqs, CreateAction(r) PROVE Stays
    <2>1. OthersKept(r) BY <1>1, CreateFrame
    <2>2. CASE r \in committed
        <3>1. pc[r] \in {"getnode", "done"} BY <2>2 DEF TxInv, Tx
        <3>2. ReplyCreated(r)
            BY <1>1, <3>1, VictimWaits DEF CreateAction, CreateStep, Receive,
                ResolveTargetNode, InsertWorkload, InsertPort, CommitWorkload,
                AbortWorkload, DeadlockVictim
        <3>3. QED BY <3>2 DEF ReplyCreated, Stays
    <2>3. CASE r \notin committed
        BY <2>1, <2>3 DEF Stays, OthersKept, TypeOK
    <2>4. QED BY <2>2, <2>3
<1>2. CASE UNCHANGED deployVars /\ nodes \subseteq nodes'
    BY <1>2 DEF deployVars, Stays
<1>3. QED BY <1>1, <1>2, NextCases DEF RegisterNode, GiveUp, vars
-----------------------------------------------------------------------------
(* Heartbeats and readers                                                  *)

\* A heartbeat's two queries see what was committed before.
LEMMA BeatInvStep ==
    ASSUME TypeOK, TypeOK', TxInv, ReplyInv, BeatInv, [Next]_vars
    PROVE  BeatInv'
<1> USE DEF TypeOK, BeatInv, BeatPc
<1>1. ASSUME NEW b \in Beats, BeatAction(b), UNCHANGED <<nodes, deployVars, listVars>>
      PROVE  BeatInv'
    <2> USE DEF deployVars
    <2>1. ASSUME NEW n \in Nodes, NEW rep \in [Names -> States \cup {"absent"}],
                 Send(b, n, rep)
          PROVE  BeatInv'
        <3>1. n # NoNode BY NullAssumption
        <3>2. due'[b] \subseteq {r \in committed : target[r] = n}
            BY <2>1 DEF Send, Acknowledged, ReplyInv, ReplyAt
        <3>3. QED BY <1>1, <2>1, <3>1, <3>2 DEF Send
    <2>2. CASE UpdateNodeHeartbeat(b) BY <1>1, <2>2 DEF UpdateNodeHeartbeat
    <2>3. CASE UpdateWorkloadStatus(b) BY <1>1, <2>3 DEF UpdateWorkloadStatus
    <2>4. CASE ListWorkloadsForNode(b) BY <1>1, <2>4 DEF ListWorkloadsForNode
    <2>5. CASE AttachPorts(b) BY <1>1, <2>5 DEF AttachPorts
    <2>6. CASE BeatFails(b) BY <1>1, <2>6 DEF BeatFails
    <2>7. QED BY <1>1, <2>1, <2>2, <2>3, <2>4, <2>5, <2>6 DEF BeatAction, BeatStep
<1>2. CASE Stays /\ UNCHANGED <<bpc, bnode, due, answer>>
    BY <1>2 DEF Stays
<1>3. ASSUME NEW r \in Reqs, CreateAction(r) PROVE BeatInv'
    BY <1>2, <1>3, CommittedStays, CreateFrame DEF OthersKept, beatVars
<1>4. QED
    BY <1>1, <1>2, <1>3, CommittedStays, NextCases
    DEF RegisterNode, GiveUp, vars, beatVars

\* So do a reader's three.
LEMMA ListInvStep ==
    ASSUME TypeOK, TypeOK', TxInv, ReplyInv, ListInv, [Next]_vars
    PROVE  ListInv'
<1> USE DEF TypeOK, ListInv
<1>1. ASSUME NEW l \in Readers, ListAction(l),
             UNCHANGED <<nodes, deployVars, status, beatVars>>
      PROVE  ListInv'
    <2> USE DEF deployVars
    <2>1. CASE ListWorkloads(l)
        <3>1. Acknowledged \subseteq committed BY DEF Acknowledged, ReplyInv, ReplyAt
        <3>2. QED BY <1>1, <2>1, <3>1 DEF ListWorkloads
    <2>2. CASE ListPorts(l) BY <1>1, <2>2 DEF ListPorts
    <2>3. CASE ListNodes(l) BY <1>1, <2>3 DEF ListNodes, TxInv, Tx
    <2>4. CASE ListFails(l) BY <1>1, <2>4 DEF ListFails
    <2>5. QED BY <1>1, <2>1, <2>2, <2>3, <2>4 DEF ListAction
<1>2. CASE Stays /\ UNCHANGED listVars
    BY <1>2 DEF Stays, listVars
<1>3. ASSUME NEW r \in Reqs, CreateAction(r) PROVE ListInv'
    BY <1>2, <1>3, CommittedStays, CreateFrame DEF OthersKept
<1>4. QED
    BY <1>1, <1>2, <1>3, CommittedStays, NextCases DEF RegisterNode, GiveUp, vars

\* Heartbeats are begun in order.
LEMMA OrderInvStep ==
    ASSUME TypeOK, TypeOK', OrderInv, [Next]_vars
    PROVE  OrderInv'
<1> USE BeatsAssumption DEF TypeOK, BeatPc, Served
<1>1. ASSUME NEW b \in Beats, BeatAction(b), UNCHANGED <<nodes, deployVars, listVars>>
      PROVE  OrderInv'
    <2>1. ASSUME NEW n \in Nodes, NEW rep \in [Names -> States \cup {"absent"}],
                 Send(b, n, rep)
          PROVE  OrderInv'
        <3>1. \A x \in Beats : bpc[x] # "idle" => ~(b < x)
            BY <2>1 DEF Send, OrderInv
        <3>2. \A x, o \in Beats : bpc'[x] # "idle" /\ o < x => bpc'[o] # "idle"
            BY <2>1, <3>1 DEF Send, OrderInv
        <3>3. \A x, o \in Beats :
                  alone'[x] /\ o < x /\ bnode'[o] = bnode'[x] => Served(o)'
            BY <2>1, <3>1 DEF Send, OrderInv
        <3>4. QED BY <2>1, <3>2, <3>3 DEF Send, OrderInv
    <2>2. CASE /\ UNCHANGED <<bnode, alone>> /\ bpc[b] \notin {"idle", "done", "failed"}
               /\ \E p \in BeatPc \ {"idle"} : bpc' = [bpc EXCEPT ![b] = p]
        BY <2>2 DEF OrderInv
    <2>3. QED
        BY <1>1, <2>1, <2>2 DEF BeatAction, BeatStep, UpdateNodeHeartbeat,
            UpdateWorkloadStatus, ListWorkloadsForNode, AttachPorts, BeatFails
<1>2. CASE UNCHANGED <<bpc, bnode, alone>>
    BY <1>2 DEF OrderInv
<1>3. ASSUME NEW r \in Reqs, CreateAction(r) PROVE OrderInv'
    BY <1>2, <1>3, CreateFrame DEF OthersKept, beatVars
<1>4. QED
    BY <1>1, <1>2, <1>3, NextCases DEF RegisterNode, GiveUp, vars, beatVars

\* They go through the report they came with.
LEMMA TodoInvStep ==
    ASSUME TypeOK, TypeOK', TodoInv, [Next]_vars
    PROVE  TodoInv'
<1> USE DEF TypeOK, BeatPc, TodoInv
<1>1. ASSUME NEW b \in Beats, BeatAction(b), UNCHANGED <<nodes, deployVars, listVars>>
      PROVE  TodoInv'
    <2>1. ASSUME NEW n \in Nodes, NEW rep \in [Names -> States \cup {"absent"}],
                 Send(b, n, rep)
          PROVE  TodoInv'
        BY <2>1 DEF Send
    <2>2. CASE UpdateNodeHeartbeat(b) BY <2>2 DEF UpdateNodeHeartbeat
    <2>3. CASE UpdateWorkloadStatus(b) BY <2>3 DEF UpdateWorkloadStatus
    <2>4. CASE ListWorkloadsForNode(b) BY <2>4 DEF ListWorkloadsForNode
    <2>5. CASE AttachPorts(b) BY <2>5 DEF AttachPorts
    <2>6. CASE BeatFails(b) BY <2>6 DEF BeatFails
    <2>7. QED BY <1>1, <2>1, <2>2, <2>3, <2>4, <2>5, <2>6 DEF BeatAction, BeatStep
<1>2. CASE UNCHANGED <<bpc, report, todo>>
    BY <1>2
<1>3. ASSUME NEW r \in Reqs, CreateAction(r) PROVE TodoInv'
    BY <1>2, <1>3, CreateFrame DEF OthersKept, beatVars
<1>4. QED
    BY <1>1, <1>2, <1>3, NextCases DEF RegisterNode, GiveUp, vars, beatVars

\* A recorded status is overwritten by a later heartbeat of the node only:
\* an earlier one has been served, and another node's does not touch it.
LEMMA StatusInvStep ==
    ASSUME TypeOK, TypeOK', TxInv, BeatInv, OrderInv, TodoInv, StatusInv, [Next]_vars
    PROVE  StatusInv'
<1>0. \A b \in Beats : \A r \in due[b] :
          r \in committed /\ target[r] = bnode[b] /\ wname[r] \in Names
    BY DEF BeatInv, TxInv, Tx, TypeOK
<1> USE DEF TypeOK, BeatPc
<1>1. ASSUME NEW b \in Beats, BeatAction(b), UNCHANGED <<nodes, deployVars, listVars>>
      PROVE  StatusInv'
    <2> SUFFICES ASSUME NEW x \in Beats, alone'[x], Last(x)',
                        bpc'[x] \in {"status", "list", "attach", "done"},
                        NEW r \in due'[x],
                        report'[x][wname'[r]] # "absent", wname'[r] \notin todo'[x]
                 PROVE  status'[r] = report'[x][wname'[r]]
        BY DEF StatusInv
    <2> USE DEF deployVars
    <2>1. ASSUME NEW n \in Nodes, NEW rep \in [Names -> States \cup {"absent"}],
                 Send(b, n, rep)
          PROVE  status'[r] = report'[x][wname'[r]]
        <3>1. x # b
            BY <2>1 DEF Send
        <3>2. bnode[b] = NoNode /\ bnode[x] # NoNode
            BY <2>1, <3>1 DEF Send, BeatInv
        <3>3. Last(x)
            BY <2>1, <3>1, <3>2 DEF Send, Last
        <3>4. QED BY <1>1, <2>1, <3>1, <3>3 DEF Send, StatusInv
    <2>2. CASE UpdateNodeHeartbeat(b)
        <3>1. Last(x) BY <2>2 DEF UpdateNodeHeartbeat, Last
        <3>2. CASE x = b
            BY <1>0, <1>1, <2>2, <3>2 DEF UpdateNodeHeartbeat, TodoInv
        <3>3. CASE x # b
            BY <1>1, <2>2, <3>1, <3>3 DEF UpdateNodeHeartbeat, StatusInv
        <3>4. QED BY <3>2, <3>3
    <2>3. CASE UpdateWorkloadStatus(b)
        <3>1. PICK w \in todo[b] :
                  /\ status' = [o \in Reqs |->
                        IF Recorded(b, w, o) THEN report[b][w] ELSE status[o]]
                  /\ todo' = [todo EXCEPT ![b] = @ \ {w}]
            BY <2>3 DEF UpdateWorkloadStatus
        <3>2. /\ Last(x) /\ alone[x] /\ r \in due[x] /\ report' = report
              /\ bpc[x] \in {"status", "list", "attach", "done"} /\ wname' = wname
            BY <1>1, <2>3 DEF UpdateWorkloadStatus, Last
        <3>3. CASE Recorded(b, w, r)
            <4>1. bnode[b] = bnode[x]
                BY <1>0, <3>2, <3>3 DEF Recorded
            <4>2. x = b
                BY <2>3, <3>2, <4>1 DEF Last, OrderInv, Served, UpdateWorkloadStatus
            <4>3. QED BY <1>0, <3>1, <3>2, <3>3, <4>2 DEF Recorded
        <3>4. CASE ~Recorded(b, w, r)
            <4>1. wname[r] \notin todo[x]
                <5>1. CASE x = b
                    BY <1>0, <3>1, <3>2, <3>4, <5>1 DEF Recorded
                <5>2. CASE x # b
                    BY <3>1, <3>2, <5>2
                <5>3. QED BY <5>1, <5>2
            <4>2. status[r] = report[x][wname[r]]
                BY <3>2, <4>1 DEF StatusInv
            <4>3. QED BY <1>0, <3>1, <3>2, <3>4, <4>2
        <3>5. QED BY <3>3, <3>4
    <2>4. CASE ListWorkloadsForNode(b) \/ AttachPorts(b) \/ BeatFails(b)
        <3>1. Last(x) /\ bpc[x] \in {"status", "list", "attach", "done"}
            BY <2>4 DEF ListWorkloadsForNode, AttachPorts, BeatFails, Last
        <3>2. QED
            BY <1>1, <2>4, <3>1 DEF ListWorkloadsForNode, AttachPorts, BeatFails,
                StatusInv
    <2>5. QED BY <1>1, <2>1, <2>2, <2>3, <2>4 DEF BeatAction, BeatStep
<1>2. CASE Stays /\ UNCHANGED <<status, bpc, bnode, report, todo, due, alone>>
    <2>1. \A b \in Beats : Last(b)' <=> Last(b)
        BY <1>2 DEF Last
    <2>2. \A b \in Beats : \A r \in due[b] : wname'[r] = wname[r]
        BY <1>0, <1>2 DEF Stays
    <2> SUFFICES ASSUME NEW b \in Beats, alone'[b], Last(b)',
                        bpc'[b] \in {"status", "list", "attach", "done"},
                        NEW r \in due'[b],
                        report'[b][wname'[r]] # "absent", wname'[r] \notin todo'[b]
                 PROVE  status'[r] = report'[b][wname'[r]]
        BY DEF StatusInv
    <2>3. r \in due[b] /\ wname'[r] = wname[r] /\ Last(b)
        BY <1>2, <2>1, <2>2
    <2>4. /\ alone[b] /\ bpc[b] \in {"status", "list", "attach", "done"}
          /\ report[b][wname[r]] # "absent" /\ wname[r] \notin todo[b]
        BY <1>2, <2>3
    <2>5. status[r] = report[b][wname[r]]
        BY <2>3, <2>4 DEF StatusInv
    <2>6. QED BY <1>2, <2>3, <2>5
<1>3. ASSUME NEW r \in Reqs, CreateAction(r) PROVE StatusInv'
    BY <1>2, <1>3, CommittedStays, CreateFrame DEF OthersKept, beatVars
<1>4. QED
    BY <1>1, <1>2, <1>3, CommittedStays, NextCases
    DEF RegisterNode, GiveUp, vars, beatVars
-----------------------------------------------------------------------------
(* The safety properties                                                   *)

\* The invariant is inductive.
THEOREM Invariance == Spec => []IInv
<1>1. Init => IInv
    <2> SUFFICES ASSUME Init PROVE IInv OBVIOUS
    <2> USE NullAssumption DEF Init
    <2>1. TypeOK BY DEF TypeOK, CreatePc, BeatPc, Replies, Nothing
    <2>2. TxInv /\ ReplyInv
        BY DEF TxInv, Tx, Open, HasRow, ReplyInv, ReplyAt, NoRequest
    <2>3. UniqueWorkloadNames BY DEF UniqueWorkloadNames
    <2>4. PortInv /\ PortKeys BY DEF PortInv, PortKeys
    <2>5. BeatInv /\ ListInv BY DEF BeatInv, ListInv
    <2>6. OrderInv /\ TodoInv /\ StatusInv
        BY DEF OrderInv, TodoInv, StatusInv
    <2>7. QED BY <2>1, <2>2, <2>3, <2>4, <2>5, <2>6 DEF IInv
<1>2. IInv /\ [Next]_vars => IInv'
    <2> SUFFICES ASSUME IInv, [Next]_vars PROVE IInv' OBVIOUS
    <2> USE DEF IInv
    <2>1. TypeOK'
        BY NextCases, CreateTypes, BeatTypes, OtherTypes
    <2>2. DeployInv'
        BY <2>1, DeployInvStep DEF DeployInv
    <2>3. BeatInv' /\ ListInv'
        BY <2>1, BeatInvStep, ListInvStep
    <2>4. OrderInv' /\ TodoInv' /\ StatusInv'
        BY <2>1, OrderInvStep, TodoInvStep, StatusInvStep
    <2>5. QED BY <2>1, <2>2, <2>3, <2>4 DEF DeployInv
<1>3. QED BY <1>1, <1>2, PTL DEF Spec

\* The types hold in every state, however many requests overlap.
THEOREM WorkloadTypes == Spec => []TypeOK
<1>1. IInv => TypeOK BY DEF IInv
<1>2. QED BY <1>1, Invariance, PTL

\* The index on workloads.name, with inserts that wait for uncommitted rows,
\* keeps names unique among committed and uncommitted workloads.
THEOREM NamesAreUnique == Spec => []UniqueWorkloadNames
<1>1. IInv => UniqueWorkloadNames BY DEF IInv
<1>2. QED BY <1>1, Invariance, PTL

\* A reply can be trusted: 201 comes after a COMMIT with every port, a 4xx
\* after a roll-back that leaves nothing.
THEOREM RepliesAreTrue == Spec => []ReplyIsTrue
<1>1. IInv => ReplyIsTrue
    BY DEF IInv, ReplyInv, ReplyAt, PortInv, ReplyIsTrue, AllPorts
<1>2. QED BY <1>1, Invariance, PTL

\* No two ports of a node are the same, although a protocol may be left out:
\* the rows are normalised, so the index compares what the ports mean.
THEOREM PortsAreExclusive == Spec => []PortsExclusive
<1>1. ASSUME IInv PROVE PortsExclusive
    <2>1. ASSUME NEW r \in Reqs, NEW i \in DOMAIN ports[r]
          PROVE  ports[r][i] \in Port /\ ports[r][i].proto # ""
        <3>1. ports[r][i] \in Port
            BY <1>1, <2>1 DEF IInv, TypeOK
        <3>2. TxInv /\ PortInv /\ ports[r] \in Seq(Port) /\ ports[r] # << >>
            BY <1>1, <2>1 DEF IInv, TypeOK
        <3>3. pc[r] # "idle"
            BY <3>2 DEF TxInv, Tx, HasRow
        <3>4. req[r].ports \in Seq(Port)
            BY <3>2, <3>3, PortsAssumption DEF TxInv, Tx, Request
        <3>5. Len(ports[r]) <= Len(req[r].ports)
            BY <3>2 DEF TxInv, Tx
        <3>6. req[r].ports[i] \in Port
            BY <2>1, <3>2, <3>4, <3>5
        <3>7. QED BY <2>1, <3>1, <3>2, <3>6 DEF PortInv, Normalise, Port
    <2>2. ASSUME NEW p \in Port, NEW q \in Port, p.host = q.host, p.proto = q.proto
          PROVE  p = q
        BY <2>2 DEF Port
    <2>3. PortKeys BY <1>1 DEF IInv
    <2>4. QED BY <2>1, <2>2, <2>3 DEF PortKeys, PortsExclusive
<1>2. QED BY <1>1, Invariance, PTL

\* A node is told all of its acknowledged workloads with all their ports.
THEOREM AnswersAreComplete == Spec => []DesiredComplete
<1>1. ASSUME IInv PROVE DesiredComplete
    <2>1. BeatInv /\ TypeOK /\ \A r \in committed : AllPorts(r, ports[r])
        BY <1>1 DEF IInv, TxInv, Tx, TypeOK, PortInv, AllPorts
    <2>2. QED BY <2>1 DEF BeatInv, DesiredComplete
<1>2. QED BY <1>1, Invariance, PTL

\* So are the readers of the list, and they can name every node in it.
THEOREM ListingsAreComplete == Spec => []ListingComplete
<1>1. ASSUME IInv PROVE ListingComplete
    <2>1. ListInv /\ TypeOK /\ \A r \in committed : AllPorts(r, ports[r])
        BY <1>1 DEF IInv, TxInv, Tx, TypeOK, PortInv, AllPorts
    <2>2. QED BY <2>1 DEF ListInv, ListingComplete
<1>2. QED BY <1>1, Invariance, PTL

\* The status is that of the node's latest answered heartbeat, unless it was
\* sent while an earlier one was still being served.
THEOREM StatusesAreLatest == Spec => []StatusIsLatest
<1>1. IInv => StatusIsLatest
    BY DEF IInv, TodoInv, StatusInv, Last, StatusIsLatest
<1>2. QED BY <1>1, Invariance, PTL

\* A status changes only to what the workload's own node reports for it.
THEOREM StatusesFromOwnNode == Spec => StatusFromOwnNode
<1> DEFINE Own == \A r \in Reqs : status'[r] # status[r] =>
              \E b \in Beats : /\ bnode[b] = target[r]
                               /\ bpc[b] = "status"
                               /\ report[b][wname[r]] = status'[r]
<1>1. ASSUME TypeOK, [Next]_vars PROVE [Own]_vars
    <2>1. ASSUME NEW b \in Beats, UpdateWorkloadStatus(b) PROVE Own
        BY <1>1, <2>1 DEF UpdateWorkloadStatus, Recorded, TypeOK
    <2>2. CASE UNCHANGED status BY <2>2
    <2>3. ASSUME NEW r \in Reqs, CreateAction(r) PROVE Own
        BY <1>1, <2>2, <2>3, CreateFrame DEF OthersKept
    <2>4. ASSUME NEW b \in Beats, BeatAction(b) PROVE Own
        BY <2>1, <2>2, <2>4 DEF BeatAction, BeatStep, Send, UpdateNodeHeartbeat,
            ListWorkloadsForNode, AttachPorts, BeatFails
    <2>5. QED
        BY <1>1, <2>2, <2>3, <2>4, NextCases DEF RegisterNode, GiveUp, vars
<1>2. QED BY <1>1, WorkloadTypes, PTL DEF Spec, StatusFromOwnNode
-----------------------------------------------------------------------------
(* The statements implement WorkloadStore                                  *)

\* A step that WorkloadStore does not see.
Stutter == absRows' = absRows /\ status' = status /\ absAnswers' = absAnswers

\* A committed workload is a row of the abstract table, with the ports of a
\* request, all of them.
LEMMA RowType ==
    ASSUME IInv, NEW r \in Reqs, pc[r] = "commit" \/ r \in committed
    PROVE  /\ wname[r] \in Names /\ target[r] \in Nodes /\ Rows(r) \in PortSets
           /\ [name |-> wname[r], node |-> target[r], ports |-> Rows(r)] # NoName
<1>1. TypeOK /\ Tx(r) /\ PortInv
    BY DEF IInv, TxInv
<1>2. /\ wname[r] \in Names /\ target[r] \in Nodes /\ ports[r] \in Seq(Port)
      /\ req[r] \in Request /\ Len(ports[r]) = Len(req[r].ports)
    BY <1>1 DEF TypeOK, Tx, HasRow, Open
<1>3. req[r].ports \in PortLists /\ req[r].ports \in Seq(Port)
    BY <1>2, PortsAssumption DEF Request
<1>4. DOMAIN ports[r] = DOMAIN req[r].ports
    BY <1>2, <1>3
<1>5. Rows(r) = {Normalise(req[r].ports[i]) : i \in DOMAIN req[r].ports}
    BY <1>1, <1>4 DEF Rows, PortInv
<1>6. Rows(r) \in PortSets
    BY <1>3, <1>5 DEF PortSets
<1>7. QED BY <1>2, <1>6, MarkerAssumption

\* What is committed shows no change while it does not grow,
LEMMA RowsKept ==
    ASSUME Stays, committed' = committed PROVE absRows' = absRows
<1>1. \A r \in committed : Rows(r)' = Rows(r)
    BY DEF Stays, Rows
<1>2. QED BY <1>1 DEF Stays, absRows

\* and neither does an answer while its heartbeat does not move.
LEMMA AnswersKept ==
    ASSUME BeatInv, Stays, UNCHANGED <<bpc, answer>> PROVE absAnswers' = absAnswers
<1>1. \A b \in Beats : bpc[b] = "attach" =>
          \A r \in DOMAIN answer[b] : Rows(r)' = Rows(r)
    BY DEF BeatInv, Stays, Rows
<1>2. QED BY <1>1 DEF absAnswers

\* The workloads assigned to a node, in the abstract table.
LEMMA AbsAssigned ==
    ASSUME IInv, NEW n \in Nodes
    PROVE  /\ Store!Existing = committed
           /\ Store!Assigned(n) = {r \in committed : target[r] = n}
<1>1. committed \subseteq Reqs BY DEF IInv, TypeOK
<1>2. Store!Existing = committed
    BY <1>1, RowType DEF Store!Existing, absRows
<1>3. QED BY <1>1, <1>2 DEF Store!Assigned, absRows

\* The COMMIT is the step at which a workload appears: its name and its
\* ports are free, for the indexes hold committed rows and its own.
LEMMA CommitCreates ==
    ASSUME IInv, NEW r \in Reqs, CommitWorkload(r)
    PROVE  \E row \in Store!Row : Store!CreateWorkload(r, row)
<1> DEFINE row == [name |-> wname[r], node |-> target[r], ports |-> Rows(r)]
<1>1. TypeOK /\ UniqueWorkloadNames /\ PortKeys /\ BeatInv /\ TxInv
    BY DEF IInv
<1>2. r \notin committed /\ pc[r] = "commit" /\ committed \subseteq Reqs
    BY <1>1 DEF CommitWorkload, TxInv, Tx, TypeOK
<1>3. row \in Store!Row
    BY <1>2, RowType DEF Store!Row
<1>4. Store!Free(row)
    <2> SUFFICES ASSUME NEW o \in committed
                 PROVE  /\ absRows[o].name # row.name
                        /\ Store!Claims(absRows[o]) \cap Store!Claims(row) = {}
        BY <1>2, RowType DEF Store!Free, Store!Existing, absRows
    <2>1. o \in Reqs /\ o # r BY <1>2
    <2>2. absRows[o] = [name |-> wname[o], node |-> target[o], ports |-> Rows(o)]
        BY <2>1 DEF absRows
    <2>3. wname[o] # wname[r]
        BY <1>1, <1>2, <2>1, RowType, NullAssumption DEF UniqueWorkloadNames
    <2>4. ASSUME NEW p \in Rows(o), NEW q \in Rows(r), target[o] = target[r],
                 p.host = q.host, p.proto = q.proto
          PROVE  FALSE
        <3>1. PICK i \in DOMAIN ports[o] : p = ports[o][i] BY DEF Rows
        <3>2. PICK j \in DOMAIN ports[r] : q = ports[r][j] BY DEF Rows
        <3>3. p \in Port /\ q \in Port
            BY <1>1, <2>1, <3>1, <3>2 DEF TypeOK
        <3>4. p = q
            BY <2>4, <3>3 DEF Port
        <3>5. ports[o][i] = ports[r][j]
            BY <3>1, <3>2, <3>4
        <3>6. QED BY <1>1, <2>1, <2>4, <3>5 DEF PortKeys
    <2>5. Store!Claims(absRows[o]) \cap Store!Claims(row) = {}
        BY <2>2, <2>4 DEF Store!Claims
    <2>6. QED BY <2>2, <2>3, <2>5
<1>5. absRows[r] = NoName
    BY <1>2 DEF absRows
<1>6. absRows' = [absRows EXCEPT ![r] = row]
    BY <1>2 DEF CommitWorkload, absRows, Rows
<1>7. status' = status /\ absAnswers' = absAnswers
    <2>1. Stays BY <1>2 DEF CommitWorkload, Stays
    <2>2. QED BY <1>1, <2>1, AnswersKept DEF CommitWorkload, beatVars
<1>8. QED BY <1>3, <1>4, <1>5, <1>6, <1>7 DEF Store!CreateWorkload

\* Every other step of a createWorkload request is invisible.
LEMMA CreateStutters ==
    ASSUME IInv, NEW r \in Reqs, CreateAction(r), ~CommitWorkload(r), [Next]_vars
    PROVE  Stutter
<1>1. TypeOK /\ TxInv /\ BeatInv BY DEF IInv
<1>2. Stays /\ OthersKept(r) BY <1>1, CommittedStays, CreateFrame
<1>3. committed' = committed
    BY DEF CreateAction, CreateStep, Receive, ResolveTargetNode, InsertWorkload,
        InsertPort, ReplyCreated, AbortWorkload, DeadlockVictim, Rollback
<1>4. QED
    BY <1>1, <1>2, <1>3, RowsKept, AnswersKept DEF OthersKept, beatVars, Stutter

\* Recording one container is recording a report of that container alone.
LEMMA UpdateRecords ==
    ASSUME IInv, NEW b \in Beats, UpdateWorkloadStatus(b),
           UNCHANGED <<nodes, deployVars, listVars>>
    PROVE  \E n \in Nodes, rep \in [Names -> States \cup {"absent"}] :
               Store!UpdateWorkloadStatus(n, rep)
<1>1. TypeOK /\ TxInv /\ BeatInv /\ TodoInv BY DEF IInv
<1>2. PICK w \in todo[b] : status' = [r \in Reqs |->
          IF Recorded(b, w, r) THEN report[b][w] ELSE status[r]]
    BY DEF UpdateWorkloadStatus
<1> DEFINE rep == [x \in Names |-> IF x = w THEN report[b][w] ELSE "absent"]
<1>3. bnode[b] \in Nodes /\ w \in Names /\ report[b][w] \in States
    BY <1>1, <1>2 DEF UpdateWorkloadStatus, TypeOK, BeatInv, TodoInv
<1>4. rep \in [Names -> States \cup {"absent"}]
    BY <1>1, <1>3
<1>5. "absent" \notin States
    BY StatesAssumption
<1>6. status' = Store!Recorded(bnode[b], rep)
    <2>1. ASSUME NEW r \in committed PROVE wname[r] \in Names /\ r \in Reqs
        BY <1>1, <2>1 DEF TxInv, Tx, TypeOK
    <2>2. \A r \in committed : absRows[r].name = wname[r]
        BY <2>1 DEF absRows
    <2>3. Store!Assigned(bnode[b]) = {r \in committed : target[r] = bnode[b]}
        BY <1>3, AbsAssigned
    <2>4. \A r \in Reqs : Recorded(b, w, r) <=>
              r \in Store!Assigned(bnode[b]) /\ rep[absRows[r].name] # "absent"
        BY <1>3, <1>5, <2>1, <2>2, <2>3 DEF Recorded
    <2>5. \A r \in Reqs : Recorded(b, w, r) => rep[absRows[r].name] = report[b][w]
        BY <1>3, <2>2 DEF Recorded
    <2>6. QED BY <1>2, <2>4, <2>5 DEF Store!Recorded
<1>7. absRows' = absRows /\ absAnswers' = absAnswers
    <2>1. Stays BY DEF deployVars, Stays
    <2>2. absRows' = absRows BY <2>1, RowsKept DEF deployVars
    <2>3. \A x \in Beats : bpc'[x] \notin {"attach", "done"} <=> bpc[x] \notin {"attach", "done"}
        BY <1>1 DEF UpdateWorkloadStatus, TypeOK
    <2>4. \A x \in Beats : bpc'[x] = "attach" <=> bpc[x] = "attach"
        BY <1>1 DEF UpdateWorkloadStatus, TypeOK
    <2>5. answer' = answer /\ ports' = ports BY DEF UpdateWorkloadStatus, deployVars
    <2>6. QED BY <2>2, <2>3, <2>4, <2>5 DEF absAnswers, Rows
<1>8. QED BY <1>3, <1>4, <1>6, <1>7 DEF Store!UpdateWorkloadStatus

\* The first query fixes a node's desired state,
LEMMA ListReads ==
    ASSUME IInv, NEW b \in Beats, ListWorkloadsForNode(b),
           UNCHANGED <<nodes, deployVars, listVars>>
    PROVE  \E n \in Nodes : Store!ListWorkloadsForNode(b, n)
<1>1. TypeOK /\ TxInv /\ BeatInv BY DEF IInv
<1>2. bnode[b] \in Nodes /\ absAnswers[b] = NoName
    BY <1>1 DEF ListWorkloadsForNode, TypeOK, BeatInv, absAnswers
<1>3. Store!Assigned(bnode[b]) = {r \in committed : target[r] = bnode[b]}
    BY <1>2, AbsAssigned
<1>4. Stays BY DEF deployVars, Stays
<1>5. absRows' = absRows BY <1>4, RowsKept DEF deployVars
<1>6. \A r \in committed : absRows[r].ports = Rows(r)
    BY <1>1 DEF absRows, TypeOK
<1>7. absAnswers' = [absAnswers EXCEPT ![b] =
          [r \in Store!Assigned(bnode[b]) |-> absRows[r].ports]]
    <2>1. ports' = ports BY DEF deployVars
    <2>2. absAnswers'[b] = [r \in {o \in committed : target[o] = bnode[b]} |-> Rows(r)]
        BY <1>1, <2>1 DEF ListWorkloadsForNode, TypeOK, absAnswers, Rows
    <2>3. absAnswers'[b] = [r \in Store!Assigned(bnode[b]) |-> absRows[r].ports]
        BY <1>3, <1>6, <2>2
    <2>4. \A x \in Beats \ {b} : absAnswers'[x] = absAnswers[x]
        BY <1>1, <2>1 DEF ListWorkloadsForNode, TypeOK, absAnswers, Rows
    <2>5. QED BY <2>3, <2>4 DEF absAnswers
<1>8. QED
    BY <1>2, <1>5, <1>7 DEF Store!ListWorkloadsForNode, ListWorkloadsForNode

\* the second one, although later, does not change it,
LEMMA AttachStutters ==
    ASSUME IInv, NEW b \in Beats, AttachPorts(b), UNCHANGED <<nodes, deployVars, listVars>>
    PROVE  Stutter
<1>1. TypeOK BY DEF IInv
<1>2. ports' = ports /\ absRows' = absRows
    BY DEF deployVars, absRows, Rows
<1>3. \A x \in Beats \ {b} : absAnswers'[x] = absAnswers[x]
    BY <1>1, <1>2 DEF AttachPorts, TypeOK, absAnswers, Rows
<1>4. absAnswers' = absAnswers
    <2>1. bpc[b] = "attach" /\ bpc'[b] = "done" /\ b \in DOMAIN answer
        BY <1>1 DEF AttachPorts, TypeOK
    <2>2. answer'[b] = [r \in DOMAIN answer[b] |-> ports[r]]
        BY <2>1 DEF AttachPorts
    <2>3. absAnswers[b] = [r \in DOMAIN answer[b] |-> Rows(r)]
        BY <2>1 DEF absAnswers
    <2>4. absAnswers'[b] = [r \in DOMAIN answer'[b] |->
              {answer'[b][r][i] : i \in DOMAIN answer'[b][r]}]
        BY <2>1 DEF absAnswers
    <2>5. absAnswers'[b] = absAnswers[b]
        BY <2>2, <2>3, <2>4 DEF Rows
    <2>6. QED BY <1>3, <2>5 DEF absAnswers
<1>5. QED BY <1>2, <1>4 DEF AttachPorts, Stutter

\* and if a query fails, the node is not told.
LEMMA FailureForgets ==
    ASSUME IInv, NEW b \in Beats, BeatFails(b), UNCHANGED <<nodes, deployVars, listVars>>
    PROVE  Stutter \/ Store!Forget(b)
<1>1. TypeOK /\ BeatInv BY DEF IInv
<1>2. ports' = ports /\ absRows' = absRows
    BY DEF deployVars, absRows, Rows
<1>3. \A x \in Beats \ {b} : absAnswers'[x] = absAnswers[x]
    BY <1>1, <1>2 DEF BeatFails, TypeOK, absAnswers, Rows
<1>4. absAnswers'[b] = NoName
    BY <1>1 DEF BeatFails, TypeOK, absAnswers
<1>5. absAnswers' = [absAnswers EXCEPT ![b] = NoName]
    BY <1>3, <1>4 DEF absAnswers
<1>6. CASE absAnswers[b] = NoName
    <2>1. absAnswers' = absAnswers BY <1>3, <1>4, <1>6 DEF absAnswers
    <2>2. QED BY <1>2, <2>1 DEF BeatFails, Stutter
<1>7. CASE absAnswers[b] # NoName
    BY <1>2, <1>5, <1>7 DEF BeatFails, Store!Forget
<1>8. QED BY <1>6, <1>7

\* Every step is a step of WorkloadStore or invisible to it.
LEMMA StepRefines ==
    ASSUME IInv, [Next]_vars
    PROVE  [Store!Next]_(Store!vars)
<1>1. ASSUME Stutter PROVE UNCHANGED Store!vars
    BY <1>1 DEF Stutter, Store!vars
<1>2. ASSUME NEW r \in Reqs, CreateAction(r) PROVE Store!Next \/ Stutter
    BY <1>2, CommitCreates, CreateStutters DEF Store!Next
<1>3. TypeOK /\ TxInv /\ BeatInv BY DEF IInv
<1>4. ASSUME UNCHANGED <<deployVars, bpc, answer, status>> PROVE Stutter
    <2>1. Stays BY <1>3, CommittedStays
    <2>2. absRows' = absRows BY <1>4, <2>1, RowsKept DEF deployVars
    <2>3. absAnswers' = absAnswers BY <1>3, <1>4, <2>1, AnswersKept
    <2>4. QED BY <1>4, <2>2, <2>3 DEF Stutter
<1>5. ASSUME NEW b \in Beats, UNCHANGED <<nodes, deployVars, listVars>>,
             \/ UpdateNodeHeartbeat(b)
             \/ \E n \in Nodes, rep \in [Names -> States \cup {"absent"}] : Send(b, n, rep)
      PROVE  Stutter
    <2>1. absRows' = absRows
        BY <1>5 DEF deployVars, absRows, Rows
    <2>2. \A x \in Beats : /\ bpc'[x] = "attach" <=> bpc[x] = "attach"
                           /\ bpc'[x] = "done" <=> bpc[x] = "done"
        BY <1>3, <1>5 DEF UpdateNodeHeartbeat, Send, TypeOK
    <2>3. answer' = answer /\ ports' = ports /\ status' = status
        BY <1>5 DEF UpdateNodeHeartbeat, Send, deployVars
    <2>4. QED BY <2>1, <2>2, <2>3 DEF absAnswers, Rows, Stutter
<1>6. ASSUME NEW b \in Beats, BeatAction(b), UNCHANGED <<nodes, deployVars, listVars>>
      PROVE  Store!Next \/ Stutter
    <2>1. CASE UpdateWorkloadStatus(b) BY <1>6, <2>1, UpdateRecords DEF Store!Next
    <2>2. CASE ListWorkloadsForNode(b) BY <1>6, <2>2, ListReads DEF Store!Next
    <2>3. CASE AttachPorts(b) BY <1>6, <2>3, AttachStutters
    <2>4. CASE BeatFails(b) BY <1>6, <2>4, FailureForgets DEF Store!Next
    <2>5. QED
        BY <1>5, <1>6, <2>1, <2>2, <2>3, <2>4 DEF BeatAction, BeatStep
<1>7. Store!Next \/ Stutter
    <2>1. CASE \E n \in Nodes : RegisterNode(n) \/ GiveUp(n)
        BY <1>4, <2>1 DEF RegisterNode, GiveUp, beatVars
    <2>2. CASE UNCHANGED vars
        BY <1>4, <2>2 DEF vars, beatVars
    <2>3. CASE UNCHANGED <<nodes, deployVars, status, beatVars>>
        BY <1>4, <2>3 DEF beatVars
    <2>4. QED BY <1>2, <1>6, <2>1, <2>2, <2>3, NextCases
<1>8. QED BY <1>1, <1>7

\* Creating a workload, recording a report and reading a desired state are
\* atomic: Workloads implements WorkloadStore, on which Cluster.tla builds.
THEOREM Refinement == Spec => ImplementsStore
<1>1. Init => Store!Init
    BY DEF Init, Store!Init, absRows, absAnswers
<1>2. IInv /\ [Next]_vars => [Store!Next]_(Store!vars)
    BY StepRefines
<1>3. QED BY <1>1, <1>2, Invariance, PTL DEF Spec, ImplementsStore, Store!Spec
=============================================================================
