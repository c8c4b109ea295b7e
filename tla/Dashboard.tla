----------------------------- MODULE Dashboard ------------------------------
(***************************************************************************)
(* A node as the dashboard shows it: NodeList polls listNodes by           *)
(* usePolling, polls overlap, and their answers arrive in any order or not *)
(* at all, while the node's agent comes and goes (NodeStatus.tla).  The    *)
(* interval of the polls is left open: a poll may start at any time.       *)
(***************************************************************************)
EXTENDS NodeStatus

CONSTANT Polls  \* polls that may be outstanding at a time

VARIABLES
    poll,     \* a poll: none, sent, or the status its answer carries
    mounted,  \* the component is on the page
    data,     \* the state of usePolling: the status in data, or "none",
    error     \* and whether error is set

uiVars == <<poll, mounted, data, error>>
vars == <<nodeVars, uiVars>>

\* Type correctness of the node's clockwork and of the dashboard.
DashboardTypeOK ==
    /\ NodeTypeOK
    /\ poll \in [Polls -> {"none", "sent", "online", "offline"}]
    /\ mounted \in BOOLEAN /\ error \in BOOLEAN
    /\ data \in {"none", "online", "offline"}

Init ==
    /\ NodeInit
    /\ poll = [p \in Polls |-> "none"]
    /\ mounted = FALSE /\ data = "none" /\ error = FALSE

\* The effect runs with fresh state, and the interval begins.
Mount ==
    /\ ~mounted
    /\ mounted' = TRUE
    /\ UNCHANGED <<nodeVars, poll, data, error>>

\* The clean-up sets cancelled: answers to outstanding polls are ignored.
\* The component's state goes with it.
Unmount ==
    /\ mounted
    /\ mounted' = FALSE /\ data' = "none" /\ error' = FALSE
    /\ poll' = [p \in Polls |-> "none"]
    /\ UNCHANGED nodeVars

\* Mutant of Poll: the next poll only after an error.
PollOnError(p) ==
    /\ mounted /\ poll[p] = "none"
    /\ data = "none" \/ error
    /\ poll' = [poll EXCEPT ![p] = "sent"]
    /\ UNCHANGED <<nodeVars, mounted, data, error>>

\* At once, then at every interval, whether or not earlier polls have ended.
Poll(p) ==
    /\ mounted /\ poll[p] = "none"
    /\ poll' = [poll EXCEPT ![p] = "sent"]
    /\ UNCHANGED <<nodeVars, mounted, data, error>>

\* The server executes listNodes: ListNodes, then time.Now() and nodeState.
ListNodes(p) ==
    /\ poll[p] = "sent"
    /\ \E d \in 0..MaxQuery, k \in -Skew..Skew :
          poll' = [poll EXCEPT ![p] = NodeState(d + k)]
    /\ UNCHANGED <<nodeVars, mounted, data, error>>

\* Mutant of Resolve: the first answer is kept.
ResolveFirst(p) ==
    /\ poll[p] \in {"online", "offline"}
    /\ data' = (IF data = "none" THEN poll[p] ELSE data) /\ error' = FALSE
    /\ poll' = [poll EXCEPT ![p] = "none"]
    /\ UNCHANGED <<nodeVars, mounted>>

\* setState({data, error: null, loading: false}).
Resolve(p) ==
    /\ poll[p] \in {"online", "offline"}
    /\ data' = poll[p] /\ error' = FALSE
    /\ poll' = [poll EXCEPT ![p] = "none"]
    /\ UNCHANGED <<nodeVars, mounted>>

\* The request fails, on its way or at the server: the data stay.
Reject(p) ==
    /\ poll[p] # "none"
    /\ error' = TRUE
    /\ poll' = [poll EXCEPT ![p] = "none"]
    /\ UNCHANGED <<nodeVars, mounted, data>>

Next ==
    \/ (Start \/ NodeStep \/ Die \/ Pass) /\ UNCHANGED uiVars
    \/ Mount \/ Unmount
    \/ \E p \in Polls : Poll(p) \/ ListNodes(p) \/ Resolve(p) \/ Reject(p)

\* Time passes, a tick is received, the interval fires, and requests end.
\* Nobody has to start an agent, and heartbeats may all be lost.
Fairness ==
    /\ WF_vars(Pass /\ UNCHANGED uiVars) /\ WF_vars(Begin /\ UNCHANGED uiVars)
    /\ \A p \in Polls : WF_vars(Poll(p) \/ ListNodes(p) \/ Resolve(p) \/ Reject(p))

Spec == Init /\ [][Next]_vars /\ Fairness
-----------------------------------------------------------------------------
(* Properties                                                              *)

\* A healthy node is never called offline: if nodeState finds that the last
\* heartbeat is too old, the node is down or has not reported since it
\* started, or more than MaxLost heartbeats in a row were lost, or a round
\* of its loop was slow; whatever the clocks' skew and however ticks were
\* dropped while rounds took longer than the interval.
OfflineIsDeserved ==
    [][\A p \in Polls :
          poll[p] = "sent" /\ poll'[p] = "offline" => ~Steady]_vars

\* The zeros of a heartbeat sent before the first sample, which may come
\* after an abandoned one that is recorded late, are overwritten: while the
\* collector keeps having real values, they are in the node's row for good
\* in the end.
ResourcesCatchUp ==
    <>[](Steady /\ latest = "real") => <>[](row = "real")

\* What NodeList displays.
Shown == IF error THEN "error" ELSE data

\* An abandoned heartbeat that is recorded late, or an answer overtaken by a
\* newer one, deceives the operator only for a while: a node that stays down
\* is shown offline in the end, or the failure to load is shown.
DeadShownOffline ==
    <>[](phase = "down" /\ mounted) => <>[](Shown \in {"offline", "error"})

\* A node that stays healthy is shown online in the end, although answers
\* from before it was are still on their way when it becomes so.
SteadyShownOnline ==
    <>[](Steady /\ mounted) => <>[](Shown \in {"online", "error"})
=============================================================================
