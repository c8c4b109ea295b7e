-------------------------- MODULE RuntimeApiProofs --------------------------
(***************************************************************************)
(* Proofs about ContainerRuntime.tla for calls that do not overlap, Stop   *)
(* included: what a lock per name, which the code does not have, would     *)
(* give.                                                                   *)
(*                                                                         *)
(* Whatever fails, a running container keeps its network.  While only      *)
(* steps and clean-ups fail, nothing is orphaned, and Run, Stop and List   *)
(* implement RuntimeApi.tla: the one caller that is busy knows what its    *)
(* earlier steps did to the node (Known), and between calls a container    *)
(* record stands for everything that is left (Traces).  With the other     *)
(* faults (an undo step fails, a call is cancelled, the agent dies) a      *)
(* namespace can be left without a record.                                 *)
(***************************************************************************)
EXTENDS ContainerRuntimeProofs

\* Calls do not overlap: callers take turns, or there is only one.
OneAtATime == Serial \/ \A c, d \in Callers : c = d

\* What the refinement assumes of callers and faults.
TurnsTaken == OneAtATime /\ Faults \subseteq {"step", "cleanup"}

-----------------------------------------------------------------------------
(* Any faults                                                              *)

\* At most one caller is in a call.
OneBusy == \A c, d \in Callers : pc[c] # "idle" /\ pc[d] # "idle" => c = d

\* A Run has its namespace to itself, and from network.setup on the
\* attachment; neither it nor the end of a Stop finds a running task.
Undisturbed(c) ==
    /\ pc[c] \in {"new", "setup", "newtask", "start"} => ns
    /\ pc[c] \in {"newtask", "start"} => cni = "attached"
    /\ pc[c] \in OwnPc \cup {"teardown", "delns", "delcheck", "delrec"} => task # "running"

\* The inductive invariant for calls that do not overlap.
TurnInv ==
    /\ TypeOK /\ OneBusy
    /\ \A c \in Callers : Undisturbed(c)
    /\ task = "running" => ns /\ cni = "attached"

\* A step of a call keeps it,
LEMMA TurnStep ==
    ASSUME TurnInv, TypeOK', NEW c \in Callers, RunStep(c) \/ StopStep(c) \/ ListStep(c)
    PROVE  TurnInv'
<1> USE DEF TurnInv, TypeOK, OneBusy, Undisturbed, OwnPc, UndoPc, Goto, Fail, Return, node
<1>1. CASE PullImage(c) \/ CreateNetNS(c) BY <1>1 DEF PullImage, CreateNetNS
<1>2. CASE NewContainer(c) \/ SetupNetwork(c) BY <1>2 DEF NewContainer, SetupNetwork
<1>3. CASE NewTask(c) \/ StartTask(c) BY <1>3 DEF NewTask, StartTask
<1>4. CASE UndoTask(c) \/ UndoNetwork(c) BY <1>4 DEF UndoTask, UndoNetwork
<1>5. CASE UndoCheck(c) \/ UndoContainer(c) \/ UndoNetNS(c)
    BY <1>5 DEF UndoCheck, UndoContainer, UndoNetNS, DeleteNetNS
<1>6. CASE LoadContainer(c) \/ LoadTask(c) \/ TaskStatus(c)
    BY <1>6 DEF LoadContainer, LoadTask, TaskStatus
<1>7. CASE KillTask(c) \/ DeleteTask(c) BY <1>7 DEF KillTask, DeleteTask
<1>8. CASE Teardown(c) \/ RemoveNetNS(c) \/ DeleteCheck(c) \/ DeleteContainer(c)
    BY <1>8 DEF Teardown, RemoveNetNS, DeleteNetNS, DeleteCheck, DeleteContainer
<1>9. CASE ListStep(c)
    BY <1>9 DEF ListStep, ListContainers, ContainerInfo, ListTask, ListStatus
<1>10. QED
    BY <1>1, <1>2, <1>3, <1>4, <1>5, <1>6, <1>7, <1>8, <1>9 DEF RunStep, StopStep

\* and every step does, so that it holds in all states.
LEMMA TurnInvariance ==
    ASSUME OneAtATime PROVE Spec => []TurnInv
<1>1. Init => TurnInv
    BY DEF Init, TurnInv, TypeOK, OneBusy, Undisturbed, OwnPc, UndoPc, Results, Busy
<1>2. TurnInv /\ [Next]_vars => TurnInv'
    <2> SUFFICES ASSUME TurnInv, [Next]_vars PROVE TurnInv' OBVIOUS
    <2>1. TypeOK' BY RunTypes, StopTypes, OtherTypes DEF TurnInv, Next
    <2> USE <2>1 DEF TurnInv, TypeOK, OneBusy, Undisturbed, OwnPc, UndoPc, node
    <2>2. ASSUME NEW c \in Callers, BeginRun(c) \/ BeginStop(c) \/ BeginList(c)
          PROVE  TurnInv'
        BY <2>2 DEF BeginRun, BeginStop, BeginList, Begin, OneAtATime, Quiescent
    <2>3. ASSUME NEW c \in Callers, Cancel(c) PROVE TurnInv' BY <2>3 DEF Cancel
    <2>4. CASE TaskExits BY <2>4 DEF TaskExits
    <2>5. CASE AgentCrash BY <2>5 DEF AgentCrash
    <2>6. CASE UNCHANGED vars BY <2>6 DEF vars
    <2>7. ASSUME NEW c \in Callers, RunStep(c) \/ StopStep(c) \/ ListStep(c)
          PROVE  TurnInv'
        BY <2>1, <2>7, TurnStep
    <2>8. QED BY <2>2, <2>3, <2>4, <2>5, <2>6, <2>7 DEF Next
<1>3. QED BY <1>1, <1>2, PTL DEF Spec

\* If calls do not overlap, no Stop takes the network from a container that
\* runs, whatever fails, is cancelled or dies: the overlap is what the race
\* of Stop and Run needs.
THEOREM TurnsKeepReachable ==
    ASSUME OneAtATime PROVE Spec => []RunningReachable
<1>1. TurnInv => RunningReachable BY DEF TurnInv, RunningReachable
<1>2. QED BY <1>1, TurnInvariance, PTL

\* Nor does any call, while the container runs, touch what it runs on: a
\* Stop ends the task first.
THEOREM TurnsLeaveRunningAlone ==
    ASSUME OneAtATime PROVE Spec => RunLeavesRunningAlone
<1>1. TurnInv /\ [Next]_vars => (task = "running" => UNCHANGED <<ns, cni, record>>)
    <2> SUFFICES ASSUME TurnInv, [Next]_vars, task = "running"
                 PROVE  UNCHANGED <<ns, cni, record>>
        OBVIOUS
    <2> USE DEF TurnInv, Undisturbed, OwnPc, UndoPc, node
    <2>1. ASSUME NEW c \in Callers, RunStep(c) PROVE UNCHANGED <<ns, cni, record>>
        BY <2>1 DEF RunStep, PullImage, CreateNetNS, NewContainer, SetupNetwork,
            NewTask, StartTask, UndoTask, UndoNetwork, UndoCheck, UndoContainer, UndoNetNS
    <2>2. ASSUME NEW c \in Callers, StopStep(c) PROVE UNCHANGED <<ns, cni, record>>
        BY <2>2 DEF StopStep, LoadContainer, LoadTask, TaskStatus, KillTask, DeleteTask,
            Teardown, RemoveNetNS, DeleteCheck, DeleteContainer
    <2>3. ASSUME NEW c \in Callers,
                 BeginRun(c) \/ BeginStop(c) \/ BeginList(c) \/ ListStep(c) \/ Cancel(c)
          PROVE  UNCHANGED <<ns, cni, record>>
        BY <2>3 DEF BeginRun, BeginStop, BeginList, Begin, Cancel, ListStep,
            ListContainers, ContainerInfo, ListTask, ListStatus
    <2>4. CASE TaskExits \/ AgentCrash \/ UNCHANGED vars
        BY <2>4 DEF TaskExits, AgentCrash, vars
    <2>5. QED BY <2>1, <2>2, <2>3, <2>4 DEF Next
<1>2. QED BY <1>1, TurnInvariance, PTL DEF Spec, RunLeavesRunningAlone
-----------------------------------------------------------------------------
(* Steps and clean-ups fail                                                *)

\* One caller at a time, with a context that is live.
Alone ==
    /\ \A c, d \in Callers : pc[c] # "idle" /\ pc[d] # "idle" => c = d
    /\ \A c \in Callers : ~cancelled[c]

\* Without a record nothing is left, except for the namespace of a Run that
\* is about to create the record or has just deleted it; a task that has
\* not started belongs to a Run.
Traces ==
    /\ ~record => cni = "none" /\ task = "none"
    /\ ns /\ ~record => \E c \in Callers : pc[c] \in {"new", "undo_ns"}
    /\ task = "created" => \E c \in Callers : pc[c] = "start"

\* Between NewContainer and the end of Run or of its undoing.
CreatePc ==
    {"setup", "newtask", "start", "undo_task", "undo_net", "undo_check", "undo_rec"}

\* What a caller knows of the node from the steps it has taken.
Known(c) ==
    /\ pc[c] \in CreatePc \cup {"info", "listtask", "liststatus"} \cup (StopPc \ {"load"})
          => record
    /\ pc[c] \in {"setup", "newtask", "undo_net", "undo_check", "undo_rec",
                  "teardown", "delns", "delcheck", "delrec"} => task = "none"
    /\ pc[c] \in {"setup", "undo_check", "undo_rec", "delns", "delcheck", "delrec"}
          => cni = "none"
    /\ pc[c] \in {"new", "setup", "newtask"} => ns
    /\ pc[c] \in {"delcheck", "delrec"} => ~ns
    /\ pc[c] = "start" => task = "created"
    /\ pc[c] \in {"undo_task", "deltask"} => task = "stopped"
    /\ pc[c] \in {"status", "kill", "liststatus"} => task \in {"running", "stopped"}
    /\ pc[c] \in UndoPc => \/ result[c] = "Error" /\ Faults # {}
                           \/ result[c] = "AlreadyExists" /\ pc[c] = "undo_ns" /\ record

\* The inductive invariant for callers that take turns.
SerialInv == TypeOK /\ Alone /\ Traces /\ \A c \in Callers : Known(c)
-----------------------------------------------------------------------------
\* The busy caller finds its context live, and only a step on the way to the
\* goal or of Stop's clean-up can fail.
LEMMA Turn ==
    ASSUME TurnsTaken, SerialInv, NEW c \in Callers
    PROVE  /\ Live(c) /\ ~May(c, "undo")
           /\ May(c, "step") \/ May(c, "cleanup") => Faults # {}
BY DEF TurnsTaken, SerialInv, Alone, Live, May

\* A step of a Run keeps the invariant,
LEMMA RunKnows ==
    ASSUME TurnsTaken, SerialInv, NEW c \in Callers, RunStep(c) PROVE SerialInv'
<1>1. TypeOK' BY RunTypes DEF SerialInv
<1>2. Live(c) /\ ~May(c, "undo") /\ (May(c, "step") => Faults # {}) BY Turn
<1> USE <1>1, <1>2 DEF SerialInv, TypeOK, Alone, Traces, Known, CreatePc, UndoPc, StopPc,
            Goto, Fail, Return, node
<1>3. CASE PullImage(c) BY <1>3 DEF PullImage
<1>4. CASE CreateNetNS(c) BY <1>4 DEF CreateNetNS
<1>5. CASE NewContainer(c) BY <1>5 DEF NewContainer
<1>6. CASE SetupNetwork(c) BY <1>6 DEF SetupNetwork
<1>7. CASE NewTask(c) BY <1>7 DEF NewTask
<1>8. CASE StartTask(c) BY <1>8 DEF StartTask
<1>9. CASE UndoTask(c) BY <1>9 DEF UndoTask
<1>10. CASE UndoNetwork(c) BY <1>10 DEF UndoNetwork
<1>11. CASE UndoCheck(c) BY <1>11 DEF UndoCheck
<1>12. CASE UndoContainer(c) BY <1>12 DEF UndoContainer
<1>13. CASE UndoNetNS(c) BY <1>13 DEF UndoNetNS, DeleteNetNS
<1>14. QED
    BY <1>3, <1>4, <1>5, <1>6, <1>7, <1>8, <1>9, <1>10, <1>11, <1>12, <1>13 DEF RunStep

\* a step of a Stop does,
LEMMA StopKnows ==
    ASSUME TurnsTaken, SerialInv, NEW c \in Callers, StopStep(c) PROVE SerialInv'
<1>1. TypeOK' BY StopTypes DEF SerialInv
<1>2. Live(c) /\ ~May(c, "undo") /\ (May(c, "step") => Faults # {}) BY Turn
<1> USE <1>1, <1>2 DEF SerialInv, TypeOK, Alone, Traces, Known, CreatePc, UndoPc, StopPc,
            Goto, Fail, Return, node
<1>3. CASE LoadContainer(c) BY <1>3 DEF LoadContainer
<1>4. CASE LoadTask(c) BY <1>4 DEF LoadTask
<1>5. CASE TaskStatus(c) BY <1>5 DEF TaskStatus
<1>6. CASE KillTask(c) BY <1>6 DEF KillTask
<1>7. CASE DeleteTask(c) BY <1>7 DEF DeleteTask
<1>8. CASE Teardown(c) BY <1>8 DEF Teardown
<1>9. CASE RemoveNetNS(c) BY <1>9 DEF RemoveNetNS, DeleteNetNS
<1>10. CASE DeleteCheck(c) BY <1>10 DEF DeleteCheck
<1>11. CASE DeleteContainer(c) BY <1>11 DEF DeleteContainer
<1>12. QED
    BY <1>3, <1>4, <1>5, <1>6, <1>7, <1>8, <1>9, <1>10, <1>11 DEF StopStep

\* and so does every other step.
LEMMA OtherKnows ==
    ASSUME TurnsTaken, SerialInv,
           \/ \E c \in Callers :
                 \/ BeginRun(c) \/ BeginStop(c) \/ BeginList(c)
                 \/ ListStep(c) \/ Cancel(c)
           \/ TaskExits \/ AgentCrash \/ UNCHANGED vars
    PROVE  SerialInv'
<1>1. TypeOK' BY OtherTypes DEF SerialInv
<1> USE <1>1 DEF SerialInv, TypeOK, Alone, Traces, Known, CreatePc, UndoPc, StopPc, node
<1>2. ASSUME NEW c \in Callers, BeginRun(c) \/ BeginStop(c) \/ BeginList(c)
      PROVE  SerialInv'
    BY <1>2 DEF BeginRun, BeginStop, BeginList, Begin, TurnsTaken, OneAtATime,
        Quiescent
<1>3. ASSUME NEW c \in Callers, ListStep(c) PROVE SerialInv'
    <2> USE DEF Goto, Fail, Return
    <2>1. CASE ListContainers(c) BY <2>1 DEF ListContainers
    <2>2. CASE ContainerInfo(c) BY <2>2 DEF ContainerInfo
    <2>3. CASE ListTask(c) BY <2>3 DEF ListTask
    <2>4. CASE ListStatus(c) BY <2>4 DEF ListStatus
    <2>5. QED BY <1>3, <2>1, <2>2, <2>3, <2>4 DEF ListStep
<1>4. ASSUME NEW c \in Callers, Cancel(c) PROVE FALSE
    BY <1>4 DEF Cancel, TurnsTaken
<1>5. CASE TaskExits BY <1>5 DEF TaskExits
<1>6. CASE AgentCrash BY <1>6 DEF AgentCrash, TurnsTaken
<1>7. CASE UNCHANGED vars BY <1>7 DEF vars
<1>8. QED BY <1>2, <1>3, <1>4, <1>5, <1>6, <1>7

\* Hence it holds in every state that callers who take turns can reach.
LEMMA SerialInvariance ==
    ASSUME TurnsTaken PROVE Spec => []SerialInv
<1>1. Init => SerialInv
    BY DEF Init, SerialInv, TypeOK, Alone, Traces, Known, CreatePc, UndoPc, StopPc,
        Results, Busy
<1>2. SerialInv /\ [Next]_vars => SerialInv'
    BY RunKnows, StopKnows, OtherKnows DEF Next
<1>3. QED BY <1>1, <1>2, PTL DEF Spec

\* Between calls, whichever of them failed and where, nothing is left that
\* the next Stop would not find by its record.
THEOREM NothingIsOrphaned ==
    ASSUME TurnsTaken PROVE Spec => []NoOrphans
<1>1. SerialInv => NoOrphans
    BY DEF SerialInv, Traces, NoOrphans, Quiescent
<1>2. QED BY <1>1, SerialInvariance, PTL
-----------------------------------------------------------------------------
(* The refinement                                                          *)

\* The container as it looks when the only busy caller is at p.
View(p) ==
    IF task = "running" THEN "running"
    ELSE IF ~record \/ p \in CreatePc THEN "absent" ELSE "stopped"

\* A caller returns r, which nobody had been told before.
Answers(c, r) ==
    absReply[c] = "none" /\ absReply' = [absReply EXCEPT ![c] = r]

\* What a step of the busy caller changes for the callers of the interface:
\* the container, as this caller sees it, and its own reply when it returns.
LEMMA CallerView ==
    ASSUME SerialInv, SerialInv', NEW c \in Callers,
           RunStep(c) \/ StopStep(c) \/ ListStep(c)
    PROVE  /\ absContainer = View(pc[c])
           /\ absContainer' = View(pc[c])'
           /\ pc'[c] # "idle" => absReply' = absReply
           /\ pc'[c] = "idle" => Answers(c, result'[c])
<1>1. /\ pc[c] # "idle"
      /\ \A d \in Callers \ {c} : pc'[d] = pc[d] /\ result'[d] = result[d]
    BY CallerStep DEF SerialInv
<1>2. \A d \in Callers \ {c} : pc[d] = "idle"
    BY <1>1 DEF SerialInv, Alone
<1>3. BeingCreated <=> pc[c] \in CreatePc
    BY <1>2 DEF BeingCreated, CreatePc
<1>4. BeingCreated' <=> pc'[c] \in CreatePc
    BY <1>1, <1>2 DEF BeingCreated, CreatePc
<1>5. ASSUME pc'[c] # "idle" PROVE absReply' = absReply
    BY <1>1, <1>2, <1>5 DEF absReply
<1>6. ASSUME pc'[c] = "idle" PROVE Answers(c, result'[c])
    BY <1>1, <1>2, <1>6 DEF absReply, Answers
<1>7. QED BY <1>3, <1>4, <1>5, <1>6 DEF absContainer, View

\* A Run becomes visible when its task starts or when it fails.
LEMMA RunRefines ==
    ASSUME TurnsTaken, SerialInv, SerialInv', NEW c \in Callers, RunStep(c)
    PROVE  [Api!Next]_(Api!vars)
<1>1. Live(c) /\ ~May(c, "undo") /\ (May(c, "step") => Faults # {}) BY Turn
<1>2. TypeOK /\ TypeOK' /\ Known(c) /\ Traces BY DEF SerialInv
<1>3. /\ absContainer = View(pc[c]) /\ absContainer' = View(pc[c])'
      /\ pc'[c] # "idle" => absReply' = absReply
      /\ pc'[c] = "idle" => Answers(c, result'[c])
    BY CallerView
<1> DEFINE Kept == /\ absContainer' = absContainer
                   /\ pc'[c] = "idle" =>
                         \/ result'[c] = "Error" /\ Faults # {}
                         \/ /\ result'[c] \in {"AlreadyExists", "NetNSExists"}
                            /\ absContainer # "absent"
<1>4. ASSUME Kept PROVE [Api!Next]_(Api!vars)
    BY <1>3, <1>4 DEF Answers, Api!vars, Api!Next, Api!Fails, Api!Run, Api!Answer
<1> USE <1>1, <1>2, <1>3
        DEF TypeOK, Known, CreatePc, UndoPc, StopPc, View, Goto, Fail, Return, node
<1>5. ASSUME PullImage(c) PROVE Kept BY <1>5 DEF PullImage
<1>6. ASSUME CreateNetNS(c) PROVE Kept BY <1>6 DEF CreateNetNS, Traces, SerialInv, Alone
<1>7. ASSUME NewContainer(c) PROVE Kept BY <1>7 DEF NewContainer, Traces
<1>8. ASSUME SetupNetwork(c) PROVE Kept BY <1>8 DEF SetupNetwork
<1>9. ASSUME NewTask(c) PROVE Kept BY <1>9 DEF NewTask
<1>10. CASE StartTask(c)
    <2>1. absContainer = "absent" BY <1>10 DEF StartTask
    <2>2. CASE pc'[c] = "idle"
        <3>1. absContainer' = "running" /\ result'[c] = "ok"
            BY <1>10, <2>2 DEF StartTask
        <3>2. Api!Run(c) BY <2>1, <2>2, <3>1 DEF Answers, Api!Run, Api!Answer
        <3>3. QED BY <3>2 DEF Api!Next
    <2>3. CASE pc'[c] # "idle"
        <3>1. Kept BY <1>10, <2>1, <2>3 DEF StartTask
        <3>2. QED BY <1>4, <3>1
    <2>4. QED BY <2>2, <2>3
<1>11. ASSUME UndoTask(c) PROVE Kept BY <1>11 DEF UndoTask
<1>12. ASSUME UndoNetwork(c) PROVE Kept BY <1>12 DEF UndoNetwork
<1>13. ASSUME UndoCheck(c) PROVE Kept BY <1>13 DEF UndoCheck
<1>14. ASSUME UndoContainer(c) PROVE Kept BY <1>14 DEF UndoContainer
<1>15. ASSUME UndoNetNS(c) PROVE Kept BY <1>15 DEF UndoNetNS
<1>16. QED
    BY <1>4, <1>5, <1>6, <1>7, <1>8, <1>9, <1>10, <1>11, <1>12, <1>13, <1>14, <1>15
    DEF RunStep

\* A Stop first ends the process, as if it had exited, and at the end
\* removes the container.
LEMMA StopRefines ==
    ASSUME TurnsTaken, SerialInv, SerialInv', NEW c \in Callers, StopStep(c)
    PROVE  [Api!Next]_(Api!vars)
<1>1. Live(c) /\ (May(c, "step") \/ May(c, "cleanup") => Faults # {}) BY Turn
<1>2. TypeOK /\ TypeOK' /\ Known(c) /\ Traces BY DEF SerialInv
<1>3. /\ absContainer = View(pc[c]) /\ absContainer' = View(pc[c])'
      /\ pc'[c] # "idle" => absReply' = absReply
      /\ pc'[c] = "idle" => Answers(c, result'[c])
    BY CallerView
<1> DEFINE Kept == /\ absContainer' = absContainer
                   /\ pc'[c] = "idle" =>
                         \/ result'[c] = "Error" /\ Faults # {}
                         \/ result'[c] = "NotFound" /\ absContainer = "absent"
<1>4. ASSUME Kept PROVE [Api!Next]_(Api!vars)
    BY <1>3, <1>4 DEF Answers, Api!vars, Api!Next, Api!Fails, Api!Stop, Api!Answer
<1> USE <1>1, <1>2, <1>3
        DEF TypeOK, Known, CreatePc, UndoPc, StopPc, View, Goto, Fail, Return, node
<1>5. ASSUME LoadContainer(c) PROVE Kept BY <1>5 DEF LoadContainer, Traces
<1>6. ASSUME LoadTask(c) PROVE Kept BY <1>6 DEF LoadTask
<1>7. ASSUME TaskStatus(c) PROVE Kept BY <1>7 DEF TaskStatus
<1>8. CASE KillTask(c)
    <2>1. CASE absContainer = "running" /\ absContainer' = "stopped" /\ pc'[c] # "idle"
        BY <2>1 DEF Api!Next, Api!Exits
    <2>2. CASE ~(absContainer = "running" /\ absContainer' = "stopped" /\ pc'[c] # "idle")
        <3>1. Kept BY <1>8, <2>2 DEF KillTask
        <3>2. QED BY <1>4, <3>1
    <2>3. QED BY <2>1, <2>2
<1>9. ASSUME DeleteTask(c) PROVE Kept BY <1>9 DEF DeleteTask
<1>10. ASSUME Teardown(c) PROVE Kept BY <1>10 DEF Teardown
<1>11. ASSUME RemoveNetNS(c) PROVE Kept BY <1>11 DEF RemoveNetNS
<1>12. ASSUME DeleteCheck(c) PROVE Kept BY <1>12 DEF DeleteCheck
<1>13. CASE DeleteContainer(c)
    <2>1. absContainer = "stopped" /\ pc'[c] = "idle" BY <1>13 DEF DeleteContainer
    <2>2. CASE result'[c] = "ok"
        <3>1. absContainer' = "absent" BY <1>13, <2>2 DEF DeleteContainer
        <3>2. Api!Stop(c) BY <2>1, <2>2, <3>1 DEF Answers, Api!Stop, Api!Answer
        <3>3. QED BY <3>2 DEF Api!Next
    <2>3. CASE result'[c] # "ok"
        <3>1. Kept BY <1>13, <2>1, <2>3 DEF DeleteContainer
        <3>2. QED BY <1>4, <3>1
    <2>4. QED BY <2>2, <2>3
<1>14. QED
    BY <1>4, <1>5, <1>6, <1>7, <1>8, <1>9, <1>10, <1>11, <1>12, <1>13 DEF StopStep

\* A List answers with the container as it is when it answers.
LEMMA ListRefines ==
    ASSUME TurnsTaken, SerialInv, SerialInv', NEW c \in Callers, ListStep(c)
    PROVE  [Api!Next]_(Api!vars)
<1>1. Live(c) /\ (May(c, "step") \/ May(c, "cleanup") => Faults # {}) BY Turn
<1>2. TypeOK /\ Known(c) /\ Traces BY DEF SerialInv
<1>3. /\ absContainer = View(pc[c]) /\ absContainer' = View(pc[c])'
      /\ pc'[c] # "idle" => absReply' = absReply
      /\ pc'[c] = "idle" => Answers(c, result'[c])
    BY CallerView
<1>4. ASSUME absContainer' = absContainer,
             pc'[c] = "idle" => \/ result'[c] = "Error" /\ Faults # {}
                                \/ result'[c] = absContainer
      PROVE  [Api!Next]_(Api!vars)
    BY <1>3, <1>4 DEF Answers, Api!vars, Api!Next, Api!Fails, Api!List, Api!Answer
<1> USE <1>1, <1>2, <1>3, <1>4
        DEF TypeOK, Known, CreatePc, View, Goto, Fail, Return, node
<1>5. CASE ListContainers(c) BY <1>5 DEF ListContainers, Traces
<1>6. CASE ContainerInfo(c) BY <1>6 DEF ContainerInfo
<1>7. CASE ListTask(c) BY <1>7 DEF ListTask, SerialInv, Alone, Traces
<1>8. CASE ListStatus(c) BY <1>8 DEF ListStatus
<1>9. QED BY <1>5, <1>6, <1>7, <1>8 DEF ListStep

\* The beginning of a call takes the caller's last reply away, and a process
\* may exit.
LEMMA OtherRefines ==
    ASSUME TurnsTaken, SerialInv, SerialInv',
           \/ \E c \in Callers :
                 BeginRun(c) \/ BeginStop(c) \/ BeginList(c) \/ Cancel(c)
           \/ TaskExits \/ AgentCrash \/ UNCHANGED vars
    PROVE  [Api!Next]_(Api!vars)
<1> USE DEF SerialInv, TypeOK
<1>1. ASSUME NEW c \in Callers, NEW p \in {"pull", "load", "containers"}, Begin(c, p)
      PROVE  Api!Next
    <2>1. absReply' = [absReply EXCEPT ![c] = "none"]
        BY <1>1 DEF Begin, absReply
    <2>2. BeingCreated' <=> BeingCreated
        BY <1>1 DEF Begin, BeingCreated
    <2>3. absContainer' = absContainer
        BY <1>1, <2>2 DEF Begin, node, absContainer
    <2>4. QED BY <2>1, <2>3 DEF Api!Next, Api!Call, Api!Answer
<1>2. CASE TaskExits
    <2>1. record /\ \A c \in Callers : pc[c] \notin CreatePc
        BY <1>2 DEF TaskExits, Traces, Known, CreatePc
    <2>2. absReply' = absReply BY <1>2 DEF TaskExits, absReply
    <2>3. absContainer = "running" /\ absContainer' = "stopped"
        BY <1>2, <2>1 DEF TaskExits, absContainer, BeingCreated, CreatePc
    <2>4. QED BY <2>2, <2>3 DEF Api!Next, Api!Exits
<1>3. CASE UNCHANGED vars
    BY <1>3 DEF vars, node, Api!vars, absContainer, absReply, BeingCreated
<1>4. QED
    BY <1>1, <1>2, <1>3
    DEF BeginRun, BeginStop, BeginList, Cancel, AgentCrash, TurnsTaken

\* Callers who take turns see Run, Stop and List happen at once, whatever
\* fails on the way: the containerd driver implements RuntimeApi.
THEOREM RuntimeRefines ==
    ASSUME TurnsTaken PROVE Spec => ImplementsRuntime
<1>1. Init => Api!Init
    BY DEF Init, Api!Init, absContainer, absReply
<1>2. SerialInv /\ SerialInv' /\ [Next]_vars => [Api!Next]_(Api!vars)
    BY RunRefines, StopRefines, ListRefines, OtherRefines DEF Next
<1>3. QED
    BY <1>1, <1>2, SerialInvariance, PTL DEF Spec, ImplementsRuntime, Api!Spec
=============================================================================
