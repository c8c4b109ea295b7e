--------------------------- MODULE WorkloadStore ----------------------------
(***************************************************************************)
(* What the control plane's store promises the rest of the system about    *)
(* workloads: creating one, recording what a node reports, and reading a   *)
(* node's desired state are single steps on one table.  Workloads.tla      *)
(* implements it by SQL statements; Cluster.tla builds on it.              *)
(***************************************************************************)
CONSTANTS
    Reqs,       \* requests to create a workload, each with its row
    Names, Nodes,
    PortSets,   \* sets of ports, each with a host port and a protocol
    States,     \* the states a node reports its containers in
    Beats,      \* readers of a desired state
    NoRow, NoAnswer

VARIABLES
    rows,       \* a workload's name, node and ports, or NoRow
    status,     \* workloads.state
    answers     \* the desired state a reader holds: workload -> ports

vars == <<rows, status, answers>>

Row == [name : Names, node : Nodes, ports : PortSets]

Init ==
    /\ rows = [r \in Reqs |-> NoRow]
    /\ status = [r \in Reqs |-> "pending"]
    /\ answers = [b \in Beats |-> NoAnswer]

Existing == {r \in Reqs : rows[r] # NoRow}

Assigned(n) == {r \in Existing : rows[r].node = n}

\* What a workload occupies on its node: host ports, by protocol.
Claims(row) == {<<row.node, p.host, p.proto>> : p \in row.ports}

Free(row) ==
    \A o \in Existing :
        rows[o].name # row.name /\ Claims(rows[o]) \cap Claims(row) = {}

CreateWorkload(r, row) ==
    /\ rows[r] = NoRow
    /\ Free(row)
    /\ rows' = [rows EXCEPT ![r] = row]
    /\ UNCHANGED <<status, answers>>

\* Mutant of Recorded: only the first report counts.
RecordedOnce(n, rep) ==
    [r \in Reqs |->
        IF r \in Assigned(n) /\ rep[rows[r].name] # "absent" /\ status[r] = "pending"
          THEN rep[rows[r].name] ELSE status[r]]

\* The status column once node n has reported rep, by container name; other
\* nodes' workloads, and names it does not mention, keep theirs.
Recorded(n, rep) ==
    [r \in Reqs |->
        IF r \in Assigned(n) /\ rep[rows[r].name] # "absent"
          THEN rep[rows[r].name] ELSE status[r]]

UpdateWorkloadStatus(n, rep) ==
    /\ status' = Recorded(n, rep)
    /\ UNCHANGED <<rows, answers>>

ListWorkloadsForNode(b, n) ==
    /\ answers[b] = NoAnswer
    /\ answers' = [answers EXCEPT ![b] = [r \in Assigned(n) |-> rows[r].ports]]
    /\ UNCHANGED <<rows, status>>

\* A reader is done with its answer, or never gets it.
Forget(b) ==
    /\ answers[b] # NoAnswer
    /\ answers' = [answers EXCEPT ![b] = NoAnswer]
    /\ UNCHANGED <<rows, status>>

Next ==
    \/ \E r \in Reqs, row \in Row : CreateWorkload(r, row)
    \/ \E n \in Nodes, rep \in [Names -> States \cup {"absent"}] :
          UpdateWorkloadStatus(n, rep)
    \/ \E b \in Beats : Forget(b) \/ \E n \in Nodes : ListWorkloadsForNode(b, n)

Spec == Init /\ [][Next]_vars
=============================================================================
