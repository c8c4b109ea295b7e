-------------------------- MODULE ContainerRuntime --------------------------
(***************************************************************************)
(* internal/runtime.Containerd: Run, Stop and List, one action per call to *)
(* containerd, CNI or `ip netns`, for any number of concurrent callers     *)
(* (the reconciler's goroutine and one goroutine per HTTP request), which  *)
(* the code does not serialise.                                            *)
(*                                                                         *)
(* Everything Run creates is keyed by the container's name (the namespace  *)
(* ambud-<name>, the CNI id, the container and task ids, the snapshot), so *)
(* the module models ONE name; what it shares with others can at most make *)
(* a step fail.                                                            *)
(*                                                                         *)
(* containerd, CNI and iproute2 are modelled from how the code uses them:  *)
(* `ip netns add` fails on an existing namespace; NewContainer fails with  *)
(* AlreadyExists on an existing record; CNI refuses an id it already keeps *)
(* state for (host-local hands out one address per id); a task needs a     *)
(* record and the namespace its spec names, and only a stopped one can be  *)
(* deleted; Delete of a container is two calls, one that looks for a task  *)
(* and one that removes the record; handles hold only the name.            *)
(***************************************************************************)
CONSTANTS
    Callers,    \* goroutines that call the Runtime
    Calls,      \* the operations they make: a subset of AllCalls
    Faults,     \* what can go wrong: a subset of AllFaults
    Serial      \* TRUE: callers take turns (the code does not enforce it)

AllCalls == {"run", "stop", "list"}
AllFaults == {"step",      \* an operation on the way to the goal fails
              "cleanup",   \* an operation of Stop's clean-up fails
              "undo",      \* an operation that undoes a failed Run fails
              "cancel",    \* a call's context is cancelled (client gone, SIGTERM)
              "crash"}     \* the agent process dies

ASSUME CallsAssumption == Calls \subseteq AllCalls
ASSUME FaultsAssumption == Faults \subseteq AllFaults
ASSUME SerialAssumption == Serial \in BOOLEAN

VARIABLES
    ns,         \* the named network namespace exists
    cni,        \* CNI's state for the id; "stale": its namespace is gone
    record,     \* containerd's container record (and its snapshot) exists
    task,       \* containerd's task for the container
    pc,         \* the next step of a caller's operation
    result,     \* what the operation returned, or is going to return
    cancelled   \* the operation's context is cancelled

node == <<ns, cni, record, task>>
vars == <<node, pc, result, cancelled>>

RunPc == {"pull", "netns", "new", "setup", "newtask", "start"}
UndoPc == {"undo_task", "undo_net", "undo_check", "undo_rec", "undo_ns"}
StopPc == {"load", "task", "status", "kill", "deltask",
           "teardown", "delns", "delcheck", "delrec"}
ListPc == {"containers", "info", "listtask", "liststatus"}
Busy == RunPc \cup UndoPc \cup StopPc \cup ListPc

\* "Error" means that something the operation needs failed or was gone;
\* "NetNSExists" is Run's error when `ip netns add` found the namespace.
Results == {"none", "ok", "AlreadyExists", "NetNSExists", "NotFound", "Error",
            "absent", "running", "stopped", "unknown"}

\* Type correctness of the node's resources and of the callers.
TypeOK ==
    /\ ns \in BOOLEAN
    /\ cni \in {"none", "attached", "stale"}
    /\ record \in BOOLEAN
    /\ task \in {"none", "created", "running", "stopped"}
    /\ pc \in [Callers -> Busy \cup {"idle"}]
    /\ result \in [Callers -> Results]
    /\ cancelled \in [Callers -> BOOLEAN]

Init ==
    /\ ns = FALSE /\ cni = "none" /\ record = FALSE /\ task = "none"
    /\ pc = [c \in Callers |-> "idle"]
    /\ result = [c \in Callers |-> "none"]
    /\ cancelled = [c \in Callers |-> FALSE]

Quiescent == \A c \in Callers : pc[c] = "idle"
-----------------------------------------------------------------------------
\* A step of c succeeds only while its context is live; it fails on a fault
\* of kind k or because the context is cancelled.
Live(c) == ~cancelled[c]
May(c, k) == cancelled[c] \/ k \in Faults

Goto(c, p) == pc' = [pc EXCEPT ![c] = p] /\ UNCHANGED <<result, cancelled>>

Fail(c, p, r) ==
    /\ pc' = [pc EXCEPT ![c] = p]
    /\ result' = [result EXCEPT ![c] = r]
    /\ UNCHANGED cancelled

Return(c, r) == Fail(c, "idle", r)

\* The caller makes a new call with a fresh context.
Begin(c, p) ==
    /\ pc[c] = "idle"
    /\ Serial => Quiescent
    /\ pc' = [pc EXCEPT ![c] = p]
    /\ result' = [result EXCEPT ![c] = "none"]
    /\ cancelled' = [cancelled EXCEPT ![c] = FALSE]
    /\ UNCHANGED node

\* deleteNetNS: a missing namespace is not an error.  Without a process in
\* it the namespace really goes away, and the CNI attachment with it.
DeleteNetNS ==
    /\ ns' = FALSE
    /\ cni' = IF ns /\ cni = "attached" /\ task \notin {"created", "running"}
                THEN "stale" ELSE cni
-----------------------------------------------------------------------------
(* Run                                                                     *)

BeginRun(c) == "run" \in Calls /\ Begin(c, "pull")

PullImage(c) ==
    /\ pc[c] = "pull"
    /\ \/ Live(c) /\ Goto(c, "netns")
       \/ May(c, "step") /\ Return(c, "Error")
    /\ UNCHANGED node

\* Mutant of CreateNetNS: a failed createNetNS is undone like the later steps.
CreateNetNSUndone(c) ==
    /\ pc[c] = "netns"
    /\ \/ Live(c) /\ ~ns /\ ns' = TRUE /\ Goto(c, "new")
       \/ Live(c) /\ ns /\ Fail(c, "undo_net", "NetNSExists") /\ UNCHANGED ns
       \/ May(c, "step") /\ Fail(c, "undo_net", "Error") /\ UNCHANGED ns
    /\ UNCHANGED <<cni, record, task>>

\* createNetNS; its failure returns at once, with nothing to undo.  The
\* error for an existing namespace does not wrap ErrAlreadyExists.
CreateNetNS(c) ==
    /\ pc[c] = "netns"
    /\ \/ Live(c) /\ ~ns /\ ns' = TRUE /\ Goto(c, "new")
       \/ Live(c) /\ ns /\ Return(c, "NetNSExists") /\ UNCHANGED ns
       \/ May(c, "step") /\ Return(c, "Error") /\ UNCHANGED ns
    /\ UNCHANGED <<cni, record, task>>

\* client.NewContainer, and the mapping of AlreadyExists.
NewContainer(c) ==
    /\ pc[c] = "new"
    /\ \/ Live(c) /\ ~record /\ record' = TRUE /\ Goto(c, "setup")
       \/ Live(c) /\ record /\ Fail(c, "undo_ns", "AlreadyExists") /\ UNCHANGED record
       \/ May(c, "step") /\ Fail(c, "undo_ns", "Error") /\ UNCHANGED record
    /\ UNCHANGED <<ns, cni, task>>

\* Mutant of SetupNetwork: CNI is set up only after the task has started.
SetupNetworkLate(c) ==
    /\ pc[c] = "setup"
    /\ Goto(c, "newtask")
    /\ UNCHANGED node

\* network.setup, whose id "must be unique per call"; on an error the record
\* goes before the namespace, and CNI's state for the id stays as it was.
SetupNetwork(c) ==
    /\ pc[c] = "setup"
    /\ \/ /\ Live(c) /\ ns /\ cni = "none"
          /\ cni' = "attached" /\ Goto(c, "newtask")
       \/ /\ ~ns \/ cni # "none" \/ May(c, "step")
          /\ Fail(c, "undo_check", "Error") /\ UNCHANGED cni
    /\ UNCHANGED <<ns, record, task>>

\* os.MkdirAll of the log directory and container.NewTask: both undo alike.
NewTask(c) ==
    /\ pc[c] = "newtask"
    /\ \/ /\ Live(c) /\ record /\ ns /\ task = "none"
          /\ task' = "created" /\ Goto(c, "start")
       \/ /\ ~record \/ ~ns \/ task # "none" \/ May(c, "step")
          /\ Fail(c, "undo_net", "Error") /\ UNCHANGED task
    /\ UNCHANGED <<ns, cni, record>>

\* Mutant of StartTask: an error of Start is returned without undoing.
StartTaskNoUndo(c) ==
    /\ pc[c] = "start"
    /\ \/ Live(c) /\ task = "created" /\ task' = "running" /\ Return(c, "ok")
       \/ (task # "created" \/ May(c, "step")) /\ Return(c, "Error") /\ UNCHANGED task
    /\ UNCHANGED <<ns, cni, record>>

\* task.Start.  A start that fails on its own leaves a task that has exited;
\* one that was cancelled leaves the task as it was.
StartTask(c) ==
    /\ pc[c] = "start"
    /\ \/ Live(c) /\ task = "created" /\ task' = "running" /\ Return(c, "ok")
       \/ /\ task # "created" \/ May(c, "step")
          /\ Fail(c, "undo_task", "Error")
          /\ task' = IF Live(c) /\ task = "created" THEN "stopped" ELSE task
    /\ UNCHANGED <<ns, cni, record>>

\* The undo steps ignore their errors and go on to the next.
UndoTask(c) ==
    /\ pc[c] = "undo_task"
    /\ Goto(c, "undo_net")
    /\ \/ Live(c) /\ task' = IF task = "stopped" THEN "none" ELSE task
       \/ May(c, "undo") /\ UNCHANGED task
    /\ UNCHANGED <<ns, cni, record>>

UndoNetwork(c) ==
    /\ pc[c] = "undo_net"
    /\ Goto(c, "undo_check")
    /\ \/ Live(c) /\ cni' = "none"
       \/ May(c, "undo") /\ UNCHANGED cni
    /\ UNCHANGED <<ns, record, task>>

\* container.Delete looks for a task first, and gives up when there is one,
UndoCheck(c) ==
    /\ pc[c] = "undo_check"
    /\ \/ Live(c) /\ Goto(c, IF task = "none" THEN "undo_rec" ELSE "undo_ns")
       \/ May(c, "undo") /\ Goto(c, "undo_ns")
    /\ UNCHANGED node

\* then removes the record, whatever has happened to the task since.
UndoContainer(c) ==
    /\ pc[c] = "undo_rec"
    /\ Goto(c, "undo_ns")
    /\ \/ Live(c) /\ record' = FALSE
       \/ May(c, "undo") /\ UNCHANGED record
    /\ UNCHANGED <<ns, cni, task>>

UndoNetNS(c) ==
    /\ pc[c] = "undo_ns"
    /\ Goto(c, "idle")
    /\ \/ Live(c) /\ DeleteNetNS
       \/ May(c, "undo") /\ UNCHANGED <<ns, cni>>
    /\ UNCHANGED <<record, task>>

RunStep(c) ==
    \/ PullImage(c) \/ CreateNetNS(c) \/ NewContainer(c) \/ SetupNetwork(c)
    \/ NewTask(c) \/ StartTask(c)
    \/ UndoTask(c) \/ UndoNetwork(c)
    \/ UndoCheck(c) \/ UndoContainer(c) \/ UndoNetNS(c)
-----------------------------------------------------------------------------
(* Stop                                                                    *)

BeginStop(c) == "stop" \in Calls /\ Begin(c, "load")

LoadContainer(c) ==
    /\ pc[c] = "load"
    /\ \/ Live(c) /\ record /\ Goto(c, "task")
       \/ Live(c) /\ ~record /\ Return(c, "NotFound")
       \/ May(c, "step") /\ Return(c, "Error")
    /\ UNCHANGED node

\* container.Task: with no task there is nothing to stop, only to clean up.
LoadTask(c) ==
    /\ pc[c] = "task"
    /\ \/ Live(c) /\ Goto(c, IF task = "none" THEN "teardown" ELSE "status")
       \/ May(c, "step") /\ Return(c, "Error")
    /\ UNCHANGED node

\* stopTask: task.Status.
TaskStatus(c) ==
    /\ pc[c] = "status"
    /\ \/ /\ Live(c) /\ task # "none"
          /\ Goto(c, IF task = "stopped" THEN "deltask" ELSE "kill")
       \/ (task = "none" \/ May(c, "step")) /\ Return(c, "Error")
    /\ UNCHANGED node

\* stopTask: Wait, SIGTERM, the grace period, SIGKILL, and the exit.
KillTask(c) ==
    /\ pc[c] = "kill"
    /\ \/ Live(c) /\ task # "none" /\ task' = "stopped" /\ Goto(c, "deltask")
       \/ (task = "none" \/ May(c, "step")) /\ Return(c, "Error") /\ UNCHANGED task
    /\ UNCHANGED <<ns, cni, record>>

\* stopTask: task.Delete, whose error ends the Stop.
DeleteTask(c) ==
    /\ pc[c] = "deltask"
    /\ \/ Live(c) /\ task = "stopped" /\ task' = "none" /\ Goto(c, "teardown")
       \/ /\ task # "stopped" \/ May(c, "cleanup")
          /\ Return(c, "Error") /\ UNCHANGED task
    /\ UNCHANGED <<ns, cni, record>>

\* Mutant of Teardown: cleanupContainer removes the record first.
TeardownAfterDelete(c) ==
    /\ pc[c] = "teardown"
    /\ record' = (record /\ task # "none")
    /\ \/ Live(c) /\ cni' = "none" /\ Goto(c, "delns")
       \/ May(c, "cleanup") /\ Return(c, "Error") /\ UNCHANGED cni
    /\ UNCHANGED <<ns, task>>

\* cleanupContainer: teardown, deleteNetNS, containerDelete, in this order;
\* the first error is returned.
Teardown(c) ==
    /\ pc[c] = "teardown"
    /\ \/ Live(c) /\ cni' = "none" /\ Goto(c, "delns")
       \/ May(c, "cleanup") /\ Return(c, "Error") /\ UNCHANGED cni
    /\ UNCHANGED <<ns, record, task>>

RemoveNetNS(c) ==
    /\ pc[c] = "delns"
    /\ \/ Live(c) /\ DeleteNetNS /\ Goto(c, "delcheck")
       \/ May(c, "cleanup") /\ Return(c, "Error") /\ UNCHANGED <<ns, cni>>
    /\ UNCHANGED <<record, task>>

\* containerDelete: container.Delete is refused if it finds a task,
DeleteCheck(c) ==
    /\ pc[c] = "delcheck"
    /\ \/ Live(c) /\ task = "none" /\ Goto(c, "delrec")
       \/ (task # "none" \/ May(c, "cleanup")) /\ Return(c, "Error")
    /\ UNCHANGED node

\* and otherwise removes the record, which may be gone by now.
DeleteContainer(c) ==
    /\ pc[c] = "delrec"
    /\ \/ Live(c) /\ record /\ record' = FALSE /\ Return(c, "ok")
       \/ (~record \/ May(c, "cleanup")) /\ Return(c, "Error") /\ UNCHANGED record
    /\ UNCHANGED <<ns, cni, task>>

StopStep(c) ==
    \/ LoadContainer(c) \/ LoadTask(c) \/ TaskStatus(c) \/ KillTask(c)
    \/ DeleteTask(c) \/ Teardown(c) \/ RemoveNetNS(c)
    \/ DeleteCheck(c) \/ DeleteContainer(c)
-----------------------------------------------------------------------------
(* List, as far as it concerns this container: four calls, any of which    *)
(* can find that the container or the task it had just seen is gone.       *)

BeginList(c) == "list" \in Calls /\ Begin(c, "containers")

ListContainers(c) ==
    /\ pc[c] = "containers"
    /\ \/ Live(c) /\ record /\ Goto(c, "info")
       \/ Live(c) /\ ~record /\ Return(c, "absent")
       \/ May(c, "step") /\ Return(c, "Error")
    /\ UNCHANGED node

ContainerInfo(c) ==
    /\ pc[c] = "info"
    /\ \/ Live(c) /\ record /\ Goto(c, "listtask")
       \/ (~record \/ May(c, "step")) /\ Return(c, "Error")
    /\ UNCHANGED node

ListTask(c) ==
    /\ pc[c] = "listtask"
    /\ \/ Live(c) /\ task # "none" /\ Goto(c, "liststatus")
       \/ Live(c) /\ task = "none" /\ Return(c, "stopped")
       \/ May(c, "step") /\ Return(c, "Error")
    /\ UNCHANGED node

\* Mutant of ListStatus: the task's status is passed on unmapped.
ListStatusUnmapped(c) ==
    /\ pc[c] = "liststatus"
    /\ Return(c, task)
    /\ UNCHANGED node

\* mapProcessStatus: a created task is reported as unknown.
ListStatus(c) ==
    /\ pc[c] = "liststatus"
    /\ \/ /\ Live(c) /\ task # "none"
          /\ Return(c, IF task = "created" THEN "unknown" ELSE task)
       \/ (task = "none" \/ May(c, "step")) /\ Return(c, "Error")
    /\ UNCHANGED node

ListStep(c) ==
    ListContainers(c) \/ ContainerInfo(c) \/ ListTask(c) \/ ListStatus(c)
-----------------------------------------------------------------------------
(* The environment                                                         *)

\* The container's process exits or crashes.
TaskExits ==
    /\ task = "running"
    /\ task' = "stopped"
    /\ UNCHANGED <<ns, cni, record, pc, result, cancelled>>

Cancel(c) ==
    /\ "cancel" \in Faults
    /\ pc[c] # "idle" /\ ~cancelled[c]
    /\ cancelled' = [cancelled EXCEPT ![c] = TRUE]
    /\ UNCHANGED <<node, pc, result>>

\* The agent dies and comes back; containerd, CNI and the namespaces stay.
AgentCrash ==
    /\ "crash" \in Faults
    /\ ~Quiescent
    /\ pc' = [c \in Callers |-> "idle"]
    /\ result' = [c \in Callers |-> "none"]
    /\ UNCHANGED <<node, cancelled>>

Next ==
    \/ \E c \in Callers :
          \/ BeginRun(c) \/ BeginStop(c) \/ BeginList(c)
          \/ RunStep(c) \/ StopStep(c) \/ ListStep(c)
          \/ Cancel(c)
    \/ TaskExits
    \/ AgentCrash

Spec == Init /\ [][Next]_vars
-----------------------------------------------------------------------------
(* Properties                                                              *)

\* "CNI setup happens before the task starts, not after, so there's no
\* window where the app is already running but unreachable" (Run): a running
\* task always has its CNI attachment.
RunningReachable == task = "running" => cni = "attached"

\* However many Runs of one name race, fail, are cancelled or die half-way,
\* none removes the record of a task that another has created: List and
\* Stop, which start from the records, can see and end every process.
NoHiddenProcess == task # "none" => record

\* A Run never touches the resources of a container that is running,
\* whatever it finds and wherever it fails: of several concurrent Runs the
\* losers do not undo the winner's work.
RunLeavesRunningAlone ==
    [][task = "running" => UNCHANGED <<ns, cni, record>>]_vars

\* When no call is in progress, a namespace, CNI state or task is left only
\* where a container record is left too.  The record is what Stop starts
\* from, so whatever a failed call left behind, the next Stop removes; and
\* with nothing left the next Run can create the namespace.
NoOrphans ==
    Quiescent /\ ~record => ~ns /\ cni = "none" /\ task = "none"

\* The container as the callers of the interface see it: a container that
\* a Run is still setting up, or undoing, is not there yet.
BeingCreated ==
    \E c \in Callers :
        pc[c] \in {"setup", "newtask", "start",
                   "undo_task", "undo_net", "undo_check", "undo_rec"}

absContainer ==
    IF task = "running" THEN "running"
    ELSE IF ~record \/ BeingCreated THEN "absent" ELSE "stopped"

\* A call has its reply when it has returned.
absReply == [c \in Callers |-> IF pc[c] = "idle" THEN result[c] ELSE "none"]

\* The interface as the driver has it.  runtime.go:65 promises "an error
\* wrapping ErrAlreadyExists if a container with that name already exists";
\* a Run of such a name finds the container's namespace first, and answers
\* with that error instead.  Only where there are faults may a call fail.
Api == INSTANCE RuntimeApi
    WITH Existing <- {"AlreadyExists", "NetNSExists"}, Failing <- (Faults # {}),
         container <- absContainer, reply <- absReply

\* Used by one caller at a time, Run, Stop and List are atomic: each step of
\* the sequence of containerd, CNI and `ip netns` calls is invisible but one,
\* a failed Run leaves no container, a failed Stop can be repeated, a name
\* is refused as taken only while its container exists, and each reply is
\* true of the container at that moment.
ImplementsRuntime == Api!Spec
=============================================================================
