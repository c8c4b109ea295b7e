----------------------- MODULE ContainerRuntimeProofs -----------------------
(***************************************************************************)
(* Proofs about ContainerRuntime.tla for any number of callers and any     *)
(* faults: type correctness with every call allowed, and, while nobody     *)
(* calls Stop, RunningReachable, NoHiddenProcess and                       *)
(* RunLeavesRunningAlone.                                                  *)
(*                                                                         *)
(* The argument of the latter three: `ip netns add` is a lock.  The caller *)
(* whose createNetNS succeeded owns everything keyed by the name until it  *)
(* deletes the namespace or its container runs; a running container keeps  *)
(* the namespace, so nobody can become the owner again.  In particular no  *)
(* task can appear between the two calls of an owner's container.Delete.   *)
(***************************************************************************)
EXTENDS ContainerRuntime, TLAPS

\* A caller between createNetNS and the end of Run.
OwnPc == {"new", "setup", "newtask", "start"} \cup UndoPc
Owns(c) == pc[c] \in OwnPc

\* Stop is never under way.
NoStop == \A c \in Callers : pc[c] \notin StopPc

\* The namespace has at most one owner, which finds it there.
OneOwner ==
    /\ \A c, d \in Callers : Owns(c) /\ Owns(d) => c = d
    /\ \A c \in Callers : Owns(c) => ns

\* Past network.setup the CNI attachment is in place.
SetupFirst ==
    \A c \in Callers : pc[c] \in {"newtask", "start"} => cni = "attached"

\* A running container keeps the namespace and the attachment; no owner is left.
RunningKept ==
    task = "running" => /\ ns /\ cni = "attached"
                        /\ \A c \in Callers : ~Owns(c)

\* A task has its record, and an owner that is about to remove the record,
\* having found no task, is still right about that.
RecordKept ==
    /\ NoHiddenProcess
    /\ \A c \in Callers : pc[c] = "undo_rec" => task = "none"

\* The inductive invariant while "stop" is not called.
RunInv == TypeOK /\ NoStop /\ OneOwner /\ SetupFirst /\ RunningKept /\ RecordKept
-----------------------------------------------------------------------------
\* Every step keeps the types: of a Run,
LEMMA RunTypes ==
    ASSUME TypeOK, NEW c \in Callers, RunStep(c) PROVE TypeOK'
<1> USE DEF TypeOK, Busy, RunPc, UndoPc, StopPc, ListPc, Results,
            Goto, Fail, Return, DeleteNetNS
<1>1. CASE PullImage(c) BY <1>1 DEF PullImage, node
<1>2. CASE CreateNetNS(c) BY <1>2 DEF CreateNetNS
<1>3. CASE NewContainer(c) BY <1>3 DEF NewContainer
<1>4. CASE SetupNetwork(c) BY <1>4 DEF SetupNetwork
<1>5. CASE NewTask(c) BY <1>5 DEF NewTask
<1>6. CASE StartTask(c) BY <1>6 DEF StartTask
<1>7. CASE UndoTask(c) BY <1>7 DEF UndoTask
<1>8. CASE UndoNetwork(c) BY <1>8 DEF UndoNetwork
<1>9. CASE UndoCheck(c) BY <1>9 DEF UndoCheck, node
<1>10. CASE UndoContainer(c) BY <1>10 DEF UndoContainer
<1>11. CASE UndoNetNS(c) BY <1>11 DEF UndoNetNS
<1>12. QED
    BY <1>1, <1>2, <1>3, <1>4, <1>5, <1>6, <1>7, <1>8, <1>9, <1>10, <1>11 DEF RunStep

\* of a Stop,
LEMMA StopTypes ==
    ASSUME TypeOK, NEW c \in Callers, StopStep(c) PROVE TypeOK'
<1> USE DEF TypeOK, Busy, RunPc, UndoPc, StopPc, ListPc, Results,
            Goto, Fail, Return, DeleteNetNS
<1>1. CASE LoadContainer(c) BY <1>1 DEF LoadContainer, node
<1>2. CASE LoadTask(c) BY <1>2 DEF LoadTask, node
<1>3. CASE TaskStatus(c) BY <1>3 DEF TaskStatus, node
<1>4. CASE KillTask(c) BY <1>4 DEF KillTask
<1>5. CASE DeleteTask(c) BY <1>5 DEF DeleteTask
<1>6. CASE Teardown(c) BY <1>6 DEF Teardown
<1>7. CASE RemoveNetNS(c) BY <1>7 DEF RemoveNetNS
<1>8. CASE DeleteCheck(c) BY <1>8 DEF DeleteCheck, node
<1>9. CASE DeleteContainer(c) BY <1>9 DEF DeleteContainer
<1>10. QED
    BY <1>1, <1>2, <1>3, <1>4, <1>5, <1>6, <1>7, <1>8, <1>9 DEF StopStep

\* and of a List or of the environment.
LEMMA OtherTypes ==
    ASSUME TypeOK,
           \/ \E c \in Callers :
                 \/ BeginRun(c) \/ BeginStop(c) \/ BeginList(c)
                 \/ ListStep(c) \/ Cancel(c)
           \/ TaskExits \/ AgentCrash \/ UNCHANGED vars
    PROVE  TypeOK'
<1> USE DEF TypeOK, Busy, RunPc, UndoPc, StopPc, ListPc, Results, node
<1>1. ASSUME NEW c \in Callers, BeginRun(c) \/ BeginStop(c) \/ BeginList(c)
      PROVE  TypeOK'
    BY <1>1 DEF BeginRun, BeginStop, BeginList, Begin
<1>2. ASSUME NEW c \in Callers, ListStep(c) PROVE TypeOK'
    <2> USE DEF Goto, Fail, Return
    <2>1. CASE ListContainers(c) BY <2>1 DEF ListContainers
    <2>2. CASE ContainerInfo(c) BY <2>2 DEF ContainerInfo
    <2>3. CASE ListTask(c) BY <2>3 DEF ListTask
    <2>4. CASE ListStatus(c) BY <2>4 DEF ListStatus
    <2>5. QED BY <1>2, <2>1, <2>2, <2>3, <2>4 DEF ListStep
<1>3. ASSUME NEW c \in Callers, Cancel(c) PROVE TypeOK'
    BY <1>3 DEF Cancel
<1>4. CASE TaskExits BY <1>4 DEF TaskExits
<1>5. CASE AgentCrash BY <1>5 DEF AgentCrash
<1>6. CASE UNCHANGED vars BY <1>6 DEF vars
<1>7. QED BY <1>1, <1>2, <1>3, <1>4, <1>5, <1>6

\* The types hold in every state, for every number of callers, every choice
\* of operations and every kind of fault.
THEOREM RuntimeTypeCorrect == Spec => []TypeOK
<1>1. Init => TypeOK
    BY DEF Init, TypeOK, Results, Busy
<1>2. TypeOK /\ [Next]_vars => TypeOK'
    BY RunTypes, StopTypes, OtherTypes DEF Next
<1>3. QED BY <1>1, <1>2, PTL DEF Spec
-----------------------------------------------------------------------------
\* A step of Run, Stop or List is one of a single caller, in a call.
LEMMA CallerStep ==
    ASSUME TypeOK, NEW c \in Callers, RunStep(c) \/ StopStep(c) \/ ListStep(c)
    PROVE  /\ pc[c] # "idle"
           /\ \A d \in Callers \ {c} : pc'[d] = pc[d] /\ result'[d] = result[d]
<1> USE DEF TypeOK, Goto, Fail, Return
<1>1. CASE RunStep(c)
    BY <1>1 DEF RunStep, PullImage, CreateNetNS, NewContainer, SetupNetwork, NewTask,
        StartTask, UndoTask, UndoNetwork, UndoCheck, UndoContainer, UndoNetNS
<1>2. CASE StopStep(c)
    BY <1>2 DEF StopStep, LoadContainer, LoadTask, TaskStatus, KillTask, DeleteTask,
        Teardown, RemoveNetNS, DeleteCheck, DeleteContainer
<1>3. CASE ListStep(c)
    BY <1>3 DEF ListStep, ListContainers, ContainerInfo, ListTask, ListStatus
<1>4. QED BY <1>1, <1>2, <1>3
-----------------------------------------------------------------------------
(* While nobody calls Stop                                                 *)

\* The steps of a Run keep the invariant: only the owner of the namespace
\* takes one that matters.
LEMMA RunStepSafe ==
    ASSUME RunInv, NEW c \in Callers, RunStep(c) PROVE RunInv'
<1>1. TypeOK' BY RunTypes DEF RunInv
<1> USE <1>1 DEF RunInv, TypeOK, NoStop, OneOwner, SetupFirst, RunningKept,
            RecordKept, NoHiddenProcess, Owns, OwnPc, UndoPc, StopPc,
            Goto, Fail, Return, node
<1>2. CASE PullImage(c) BY <1>2 DEF PullImage
<1>3. CASE CreateNetNS(c) BY <1>3 DEF CreateNetNS
<1>4. CASE NewContainer(c) BY <1>4 DEF NewContainer
<1>5. CASE SetupNetwork(c) BY <1>5 DEF SetupNetwork
<1>6. CASE NewTask(c) BY <1>6 DEF NewTask
<1>7. CASE StartTask(c) BY <1>7 DEF StartTask
<1>8. CASE UndoTask(c) BY <1>8 DEF UndoTask
<1>9. CASE UndoNetwork(c) BY <1>9 DEF UndoNetwork
<1>10. CASE UndoCheck(c) BY <1>10 DEF UndoCheck
<1>11. CASE UndoContainer(c) BY <1>11 DEF UndoContainer
<1>12. CASE UndoNetNS(c) BY <1>12 DEF UndoNetNS, DeleteNetNS
<1>13. QED
    BY <1>2, <1>3, <1>4, <1>5, <1>6, <1>7, <1>8, <1>9, <1>10, <1>11, <1>12 DEF RunStep

\* So does every other step, as long as no Stop begins.
LEMMA OtherStepSafe ==
    ASSUME RunInv, "stop" \notin Calls, [Next]_vars,
           ~ \E c \in Callers : RunStep(c)
    PROVE  RunInv'
<1> USE DEF RunInv
<1>1. ~ \E c \in Callers : StopStep(c)
    BY DEF NoStop, StopStep, StopPc, LoadContainer, LoadTask, TaskStatus, KillTask,
        DeleteTask, Teardown, RemoveNetNS, DeleteCheck, DeleteContainer
<1>2. TypeOK' BY <1>1, OtherTypes DEF Next, BeginStop
<1> USE <1>2 DEF TypeOK, NoStop, OneOwner, SetupFirst, RunningKept,
            RecordKept, NoHiddenProcess, Owns, OwnPc, UndoPc, StopPc, node
<1>3. ASSUME NEW c \in Callers, BeginRun(c) \/ BeginList(c) PROVE RunInv'
    BY <1>3 DEF BeginRun, BeginList, Begin
<1>4. ASSUME NEW c \in Callers, ListStep(c) PROVE RunInv'
    BY <1>4 DEF ListStep, ListContainers, ContainerInfo, ListTask, ListStatus,
        Goto, Fail, Return
<1>5. ASSUME NEW c \in Callers, Cancel(c) PROVE RunInv' BY <1>5 DEF Cancel
<1>6. CASE TaskExits BY <1>6 DEF TaskExits
<1>7. CASE AgentCrash BY <1>7 DEF AgentCrash
<1>8. CASE UNCHANGED vars BY <1>8 DEF vars
<1>9. QED
    BY <1>1, <1>3, <1>4, <1>5, <1>6, <1>7, <1>8 DEF Next, BeginStop

\* The invariant holds in every state in which no Stop was ever called.
LEMMA RunInvariance ==
    ASSUME "stop" \notin Calls PROVE Spec => []RunInv
<1>1. Init => RunInv
    BY DEF Init, RunInv, TypeOK, NoStop, OneOwner, SetupFirst, RunningKept,
        RecordKept, NoHiddenProcess, Owns, OwnPc, UndoPc, StopPc, Results, Busy
<1>2. RunInv /\ [Next]_vars => RunInv'
    BY RunStepSafe, OtherStepSafe
<1>3. QED BY <1>1, <1>2, PTL DEF Spec

\* However many Runs of one name race, fail, are cancelled or die with the
\* agent, a container that runs has its network.
THEOREM RunningIsReachable ==
    ASSUME "stop" \notin Calls PROVE Spec => []RunningReachable
<1>1. RunInv => RunningReachable
    BY DEF RunInv, RunningKept, RunningReachable
<1>2. QED BY <1>1, RunInvariance, PTL

\* None of them, undoing its own work, removes the record of a task that
\* another has created meanwhile: what runs can be listed and stopped.
THEOREM NoProcessHidden ==
    ASSUME "stop" \notin Calls PROVE Spec => []NoHiddenProcess
<1>1. RunInv => NoHiddenProcess
    BY DEF RunInv, RecordKept
<1>2. QED BY <1>1, RunInvariance, PTL

\* And no Run that comes later, or loses the race, takes anything from it.
THEOREM LosersDoNoHarm ==
    ASSUME "stop" \notin Calls PROVE Spec => RunLeavesRunningAlone
<1>1. RunInv /\ [Next]_vars => (task = "running" => UNCHANGED <<ns, cni, record>>)
    <2> SUFFICES ASSUME RunInv, [Next]_vars, task = "running"
                 PROVE  UNCHANGED <<ns, cni, record>>
        OBVIOUS
    <2> USE DEF RunInv, RunningKept, Owns, OwnPc, UndoPc, node
    <2>1. ASSUME NEW c \in Callers, RunStep(c) PROVE UNCHANGED <<ns, cni, record>>
        BY <2>1 DEF RunStep, PullImage, CreateNetNS, NewContainer, SetupNetwork,
            NewTask, StartTask, UndoTask, UndoNetwork, UndoCheck, UndoContainer, UndoNetNS
    <2>2. ASSUME NEW c \in Callers, StopStep(c) PROVE FALSE
        BY <2>2 DEF NoStop, StopStep, StopPc, LoadContainer, LoadTask, TaskStatus,
            KillTask, DeleteTask, Teardown, RemoveNetNS, DeleteCheck, DeleteContainer
    <2>3. ASSUME NEW c \in Callers,
                 BeginRun(c) \/ BeginStop(c) \/ BeginList(c) \/ ListStep(c) \/ Cancel(c)
          PROVE  UNCHANGED <<ns, cni, record>>
        BY <2>3 DEF BeginRun, BeginStop, BeginList, Begin, Cancel, ListStep,
            ListContainers, ContainerInfo, ListTask, ListStatus
    <2>4. CASE TaskExits \/ AgentCrash \/ UNCHANGED vars
        BY <2>4 DEF TaskExits, AgentCrash, vars
    <2>5. QED BY <2>1, <2>2, <2>3, <2>4 DEF Next
<1>2. QED BY <1>1, RunInvariance, PTL DEF Spec, RunLeavesRunningAlone
=============================================================================
