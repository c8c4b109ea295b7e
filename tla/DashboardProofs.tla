-------------------------- MODULE DashboardProofs ---------------------------
(***************************************************************************)
(* Proofs about NodeStatus.tla and Dashboard.tla, for all durations that   *)
(* satisfy TimingAssumption.                                               *)
(*                                                                         *)
(* Two rounds of the agent's loop begin at most Longest apart: the ticker  *)
(* has a tick waiting when a round outlasts the interval (RoundInv).  So   *)
(* the last heartbeat that was recorded is as old as the rounds that were  *)
(* lost since then, and the present one, allow (AgeInv).                   *)
(***************************************************************************)
EXTENDS Dashboard, TLAPS

\* The longest time between the beginnings of two rounds that are not slow.
Longest == Max({Interval, MaxRound})

\* The same for m rounds that are lost in between.
Bound(m) == (m + 1) * Longest

\* While the next tick has not come, the round is younger than the interval.
RoundInv == InRound /\ ~due => spent + tick <= Interval

\* How old the last heartbeat can be if no more than MaxLost were missed:
\* in a round, which has not been slow, by the time spent in it more than at
\* its beginning; between rounds, such that the next can begin in time.
AgeInv ==
    missed <= MaxLost =>
        /\ phase # "down" /\ age # Never
        /\ phase = "wait" => age + (IF due THEN 0 ELSE tick) <= Bound(missed)
        /\ phase \in {"list", "beat"} =>
              spent <= MaxRound /\ age <= Bound(missed) + spent
        /\ phase = "rest" => missed = 0 /\ age <= spent /\ age <= MaxRound

\* The inductive invariant.
IInv ==
    /\ DashboardTypeOK
    /\ RoundInv
    /\ AgeInv
-----------------------------------------------------------------------------
(* The operators                                                           *)

\* The greater and the smaller of two numbers.
LEMMA MaxOfTwo ==
    ASSUME NEW a \in Int, NEW b \in Int
    PROVE  Max({a, b}) \in {a, b} /\ a <= Max({a, b}) /\ b <= Max({a, b})
<1>1. \E x \in {a, b} : \A y \in {a, b} : x >= y
    OBVIOUS
<1>2. QED BY <1>1 DEF Max

\* The same for the counters that stop at a bound.
LEMMA MinOfTwo ==
    ASSUME NEW a \in Int, NEW b \in Int
    PROVE  Cap(a, b) \in {a, b} /\ Cap(a, b) <= a /\ Cap(a, b) <= b
<1>1. \E x \in {a, b} : \A y \in {a, b} : x <= y
    OBVIOUS
<1>2. QED BY <1>1 DEF Min, Cap

\* The durations are numbers, and a round or the interval is no longer than
\* the longer of the two.
LEMMA Durations ==
    /\ Interval \in Nat /\ MaxRound \in Nat /\ MaxLost \in Nat /\ MaxQuery \in Nat
    /\ Skew \in Nat /\ Timeout \in Nat /\ Longest \in Nat
    /\ 1 <= Interval /\ 1 <= MaxRound /\ Interval <= Longest /\ MaxRound <= Longest
<1>1. /\ Interval \in Nat \ {0} /\ MaxRound \in Nat \ {0} /\ MaxLost \in Nat
      /\ MaxQuery \in Nat /\ Skew \in Nat /\ Timeout \in Nat
    BY DurationsAssumption
<1>2. Longest \in {Interval, MaxRound} /\ Interval <= Longest /\ MaxRound <= Longest
    BY <1>1, MaxOfTwo DEF Longest
<1>3. QED BY <1>1, <1>2

\* Each round that is lost adds the longest round.
LEMMA Bounds ==
    ASSUME NEW m \in Nat
    PROVE  /\ Bound(m) \in Nat /\ Longest <= Bound(m)
           /\ Bound(m + 1) = Bound(m) + Longest
           /\ m <= MaxLost => Bound(m) <= Bound(MaxLost)
<1>1. m * Longest \in Nat BY Durations
<1>2. (m + 1) * Longest = m * Longest + Longest BY Durations
<1>3. (m + 2) * Longest = m * Longest + Longest + Longest BY Durations
<1>4. ASSUME m <= MaxLost PROVE Bound(m) <= Bound(MaxLost)
    <2>1. (MaxLost - m) * Longest \in Nat BY <1>4, Durations
    <2>2. (MaxLost + 1) * Longest = (m + 1) * Longest + (MaxLost - m) * Longest
        BY Durations
    <2>3. QED BY <2>1, <2>2, <1>1, <1>2, Durations DEF Bound
<1>5. Bound(m) = m * Longest + Longest BY <1>2 DEF Bound
<1>6. Bound(m + 1) = m * Longest + Longest + Longest
    <2>1. (m + 1) + 1 = m + 2 OBVIOUS
    <2>2. QED BY <1>3, <2>1 DEF Bound
<1>7. QED BY <1>1, <1>4, <1>5, <1>6, Durations
-----------------------------------------------------------------------------
(* The steps of the node                                                   *)

\* The ticker's and the server's numbers are in their ranges.
LEMMA NodeTypes ==
    ASSUME NodeTypeOK, Start \/ NodeStep \/ Die \/ Pass
    PROVE  NodeTypeOK'
<1> USE Durations DEF NodeTypeOK, clock, Excused, Old, Never
<1>1. CASE Start
    <2>1. due' \in BOOLEAN BY Zenon, <1>1 DEF Start
    <2>2. QED BY <1>1, <2>1 DEF Start
<1>2. CASE Sample BY <1>2 DEF Sample
<1>3. CASE Begin
    <2>1. due' \in BOOLEAN BY Zenon, <1>3 DEF Begin
    <2>2. QED BY <1>3, <2>1 DEF Begin
<1>4. CASE Send BY <1>4 DEF Send
<1>5. CASE Record BY <1>5 DEF Record
<1>6. CASE Lose
    <2>1. missed' \in 0..Excused
        BY <1>6, MinOfTwo DEF Lose
    <2>2. stray' \in {"none", "zero", "real"}
        BY <1>6 DEF Lose
    <2>3. QED BY <1>6, <2>1, <2>2 DEF Lose
<1>7. CASE Finish BY <1>7 DEF Finish
<1>8. CASE StrayRecorded BY <1>8 DEF StrayRecorded
<1>9. CASE Die
    <2>1. due' \in BOOLEAN BY Zenon, <1>9 DEF Die
    <2>2. stray' \in {"none", "zero", "real"} BY <1>9 DEF Die
    <2>3. QED BY <1>9, <2>1, <2>2 DEF Die
<1>10. CASE Pass
    <2>1. tick' \in 1..Interval
        BY <1>10 DEF Pass
    <2>2. spent' \in 0..MaxRound + 1
        BY <1>10, MinOfTwo DEF Pass
    <2>3. age' \in {Never} \cup 0..Old
        BY <1>10, MinOfTwo DEF Pass
    <2>4. missed' \in 0..Excused
        BY <1>10 DEF Pass
    <2>5. due' \in BOOLEAN
        BY <1>10 DEF Pass
    <2>6. QED BY <1>10, <2>1, <2>2, <2>3, <2>4, <2>5 DEF Pass
<1>11. QED
    BY <1>1, <1>2, <1>3, <1>4, <1>5, <1>6, <1>7, <1>8, <1>9, <1>10 DEF NodeStep

\* A round that is not followed by a waiting tick is younger than the next.
LEMMA RoundStep ==
    ASSUME NodeTypeOK, RoundInv, Start \/ NodeStep \/ Die \/ Pass
    PROVE  RoundInv'
<1> USE Durations DEF NodeTypeOK, RoundInv, InRound, clock
<1>1. CASE Start BY <1>1 DEF Start
<1>2. CASE Begin BY <1>2 DEF Begin
<1>3. CASE Send \/ Record BY <1>3 DEF Send, Record
<1>4. CASE Sample \/ StrayRecorded BY <1>4 DEF Sample, StrayRecorded
<1>5. CASE Lose \/ Finish \/ Die BY <1>5 DEF Lose, Finish, Die
<1>6. CASE Pass
    <2>1. CASE InRound /\ ~due /\ tick # 1
        <3>1. spent' <= spent + 1 BY <1>6, <2>1, MinOfTwo DEF Pass
        <3>2. spent' \in Int BY <1>6, <2>1, MinOfTwo DEF Pass
        <3>3. QED BY <1>6, <2>1, <3>1, <3>2 DEF Pass
    <2>2. CASE ~(InRound /\ ~due /\ tick # 1) BY <1>6, <2>2 DEF Pass
    <2>3. QED BY <2>1, <2>2
<1>7. QED BY <1>1, <1>2, <1>3, <1>4, <1>5, <1>6 DEF NodeStep

\* The last heartbeat ages within its bound.
LEMMA AgeStep ==
    ASSUME NodeTypeOK, NodeTypeOK', RoundInv, AgeInv, Start \/ NodeStep \/ Die \/ Pass
    PROVE  AgeInv'
<1>0. /\ missed \in Nat /\ tick \in Nat /\ spent \in Nat /\ tick <= Interval
      /\ age # Never => age \in Nat
      /\ Bound(missed) \in Nat /\ Longest <= Bound(missed)
      /\ Bound(missed + 1) = Bound(missed) + Longest
    BY Durations, Bounds DEF NodeTypeOK, Excused, Old, Never
<1> USE Durations, <1>0 DEF AgeInv, clock, Excused
<1>1. CASE Start BY <1>1 DEF Start
<1>2. CASE Sample \/ Send BY <1>2 DEF Sample, Send
<1>3. CASE Begin BY <1>3 DEF Begin
<1>4. CASE Record BY <1>4 DEF Record, NodeTypeOK, Never
<1>5. CASE StrayRecorded BY <1>5 DEF StrayRecorded, Never
<1>6. CASE Finish
    <2>1. Bound(0) >= Longest /\ Bound(0) \in Nat BY Bounds
    <2>2. CASE due BY <1>6, <2>1, <2>2 DEF Finish
    <2>3. CASE ~due BY <1>6, <2>1, <2>3 DEF Finish, RoundInv, InRound
    <2>4. QED BY <2>2, <2>3
<1>7. CASE Lose
    <2> SUFFICES ASSUME missed' <= MaxLost PROVE AgeInv' OBVIOUS
    <2>1. missed' = missed + 1 /\ missed <= MaxLost
        BY <1>7, MinOfTwo DEF Lose
    <2>2. Bound(missed') = Bound(missed) + Longest
        BY <2>1
    <2>3. CASE due BY <1>7, <2>1, <2>2, <2>3 DEF Lose
    <2>4. CASE ~due BY <1>7, <2>1, <2>2, <2>4 DEF Lose, RoundInv, InRound
    <2>5. QED BY <2>3, <2>4
<1>8. CASE Die BY <1>8 DEF Die
<1>9. CASE Pass
    <2> SUFFICES ASSUME missed' <= MaxLost PROVE AgeInv' OBVIOUS
    <2>1. missed' = missed /\ (InRound => spent < MaxRound) /\ phase' = phase
        BY <1>9 DEF Pass
    <2>2. age' <= age + 1 /\ age' \in Nat /\ age # Never
        BY <1>9, <2>1, MinOfTwo DEF Pass, Old
    <2>3. CASE phase = "wait"
        <3>1. ~due BY <1>9, <2>3 DEF Pass
        <3>2. age + tick <= Bound(missed) BY <2>1, <2>3, <3>1
        <3>3. age' + (IF due' THEN 0 ELSE tick') <= Bound(missed)
            <4>1. CASE tick = 1
                <5>1. due' BY <1>9, <2>3, <4>1 DEF Pass
                <5>2. QED BY <2>2, <3>2, <4>1, <5>1
            <4>2. CASE tick # 1
                <5>1. ~due' BY <1>9, <2>3, <3>1, <4>2 DEF Pass
                <5>2. tick' = tick - 1 BY <1>9, <2>3, <4>2 DEF Pass
                <5>3. QED BY <2>2, <3>2, <5>1, <5>2
            <4>3. QED BY <4>1, <4>2
        <3>4. QED BY <2>1, <2>2, <2>3, <3>3 DEF Never
    <2>4. CASE InRound
        <3>1. spent' = spent + 1 BY <1>9, <2>1, <2>4, MinOfTwo DEF Pass
        <3>2. QED BY <2>1, <2>2, <2>4, <3>1 DEF InRound, Never
    <2>5. QED BY <2>1, <2>3, <2>4 DEF NodeTypeOK, InRound
<1>10. QED
    BY <1>1, <1>2, <1>3, <1>4, <1>5, <1>6, <1>7, <1>8, <1>9 DEF NodeStep
-----------------------------------------------------------------------------
(* The specification                                                       *)

\* listNodes answers with one of two states.
LEMMA States == ASSUME NEW d PROVE NodeState(d) \in {"online", "offline"}
BY DEF NodeState

\* The steps of the dashboard keep its types, and do not touch the node.
LEMMA PageTypes ==
    ASSUME DashboardTypeOK,
           \/ Mount \/ Unmount
           \/ \E p \in Polls : Poll(p) \/ ListNodes(p) \/ Resolve(p) \/ Reject(p)
    PROVE  UNCHANGED nodeVars /\ DashboardTypeOK'
<1>1. ASSUME UNCHANGED nodeVars PROVE NodeTypeOK'
    BY <1>1 DEF DashboardTypeOK, NodeTypeOK, nodeVars, clock
<1> USE DEF DashboardTypeOK
<1>2. CASE Mount
    <2>1. mounted' \in BOOLEAN BY Zenon, <1>2 DEF Mount
    <2>2. QED BY <1>1, <1>2, <2>1 DEF Mount
<1>3. CASE Unmount
    <2>1. mounted' \in BOOLEAN /\ error' \in BOOLEAN BY Zenon, <1>3 DEF Unmount
    <2>2. QED BY <1>1, <1>3, <2>1 DEF Unmount
<1>4. ASSUME NEW p \in Polls, Poll(p) PROVE UNCHANGED nodeVars /\ DashboardTypeOK'
    BY <1>1, <1>4 DEF Poll
<1>5. ASSUME NEW p \in Polls, ListNodes(p)
      PROVE  UNCHANGED nodeVars /\ DashboardTypeOK'
    <2>1. PICK d \in 0..MaxQuery, k \in -Skew..Skew :
              poll' = [poll EXCEPT ![p] = NodeState(d + k)]
        BY <1>5 DEF ListNodes
    <2>2. NodeState(d + k) \in {"online", "offline"} BY States
    <2>3. QED BY <1>1, <1>5, <2>1, <2>2 DEF ListNodes
<1>6. ASSUME NEW p \in Polls, Resolve(p) PROVE UNCHANGED nodeVars /\ DashboardTypeOK'
    <2>1. error' \in BOOLEAN BY Zenon, <1>6 DEF Resolve
    <2>2. QED BY <1>1, <1>6, <2>1 DEF Resolve
<1>7. ASSUME NEW p \in Polls, Reject(p) PROVE UNCHANGED nodeVars /\ DashboardTypeOK'
    <2>1. error' \in BOOLEAN BY Zenon, <1>7 DEF Reject
    <2>2. QED BY <1>1, <1>7, <2>1 DEF Reject
<1>8. QED BY <1>2, <1>3, <1>4, <1>5, <1>6, <1>7

\* What is left alone keeps the invariant of the node.
LEMMA NodeFrame ==
    ASSUME RoundInv, AgeInv, UNCHANGED nodeVars
    PROVE  RoundInv' /\ AgeInv'
BY DEF RoundInv, AgeInv, InRound, nodeVars, clock

\* Whatever the durations, the node's clockwork and the dashboard keep to the
\* invariant: the last recorded heartbeat is no older than the rounds that
\* were lost since then, none of them slow, can make it.
THEOREM Invariance == Spec => []IInv
<1>1. Init => IInv
    <2> SUFFICES ASSUME Init PROVE IInv OBVIOUS
    <2>1. due \in BOOLEAN /\ mounted \in BOOLEAN /\ error \in BOOLEAN
        BY Zenon DEF Init, NodeInit
    <2>2. DashboardTypeOK
        BY <2>1, Durations DEF Init, NodeInit, DashboardTypeOK, NodeTypeOK, Excused
    <2>3. RoundInv /\ AgeInv
        BY Durations DEF Init, NodeInit, RoundInv, AgeInv, InRound, Excused
    <2>4. QED BY <2>2, <2>3 DEF IInv
<1>2. IInv /\ [Next]_vars => IInv'
    <2> SUFFICES ASSUME IInv, [Next]_vars PROVE IInv' OBVIOUS
    <2>1. CASE (Start \/ NodeStep \/ Die \/ Pass) /\ UNCHANGED uiVars
        <3>1. NodeTypeOK' BY <2>1, NodeTypes DEF IInv, DashboardTypeOK
        <3>2. RoundInv' BY <2>1, RoundStep DEF IInv, DashboardTypeOK
        <3>3. AgeInv' BY <2>1, <3>1, AgeStep DEF IInv, DashboardTypeOK
        <3>4. DashboardTypeOK' BY <2>1, <3>1 DEF IInv, DashboardTypeOK, uiVars
        <3>5. QED BY <3>2, <3>3, <3>4 DEF IInv
    <2>2. CASE \/ Mount \/ Unmount
               \/ \E p \in Polls : Poll(p) \/ ListNodes(p) \/ Resolve(p) \/ Reject(p)
        BY <2>2, PageTypes, NodeFrame DEF IInv
    <2>3. CASE UNCHANGED vars
        <3>1. DashboardTypeOK'
            BY <2>3 DEF IInv, DashboardTypeOK, NodeTypeOK, vars, nodeVars, uiVars, clock
        <3>2. QED BY <2>3, <3>1, NodeFrame DEF IInv, vars
    <2>4. QED BY <2>1, <2>2, <2>3 DEF Next
<1>3. QED BY <1>1, <1>2, PTL DEF Spec

\* The ticker's numbers, the ages and the polls stay in their ranges.
THEOREM DashboardTypes == Spec => []DashboardTypeOK
<1>1. IInv => DashboardTypeOK BY DEF IInv
<1>2. QED BY <1>1, Invariance, PTL

\* What the server measures of a node with nothing against it does not
\* exceed the timeout, however long the query takes and the clocks differ.
LEMMA SteadyIsOnline ==
    ASSUME IInv, Steady, NEW d \in 0..MaxQuery, NEW k \in -Skew..Skew
    PROVE  NodeState(d + k) = "online"
<1>1. missed \in Nat /\ missed <= MaxLost /\ age # Never /\ age \in Nat
    BY Durations DEF IInv, DashboardTypeOK, NodeTypeOK, AgeInv, Steady, Excused, Old, Never
<1>2. Bound(missed) \in Nat /\ Bound(missed) <= Bound(MaxLost) /\ Bound(MaxLost) \in Nat
    BY <1>1, Bounds, Durations
<1>3. tick \in Nat /\ spent \in Nat
    BY Durations DEF IInv, DashboardTypeOK, NodeTypeOK
<1>4. age <= Bound(MaxLost) + MaxRound
    <2>1. CASE phase = "wait"
        <3>1. (IF due THEN 0 ELSE tick) \in Nat BY <1>3
        <3>2. age + (IF due THEN 0 ELSE tick) <= Bound(missed)
            BY <1>1, <2>1 DEF IInv, AgeInv
        <3>3. QED BY <1>1, <1>2, <3>1, <3>2, Durations
    <2>2. CASE phase \in {"list", "beat"}
        BY <1>1, <1>2, <1>3, <2>2, Durations DEF IInv, AgeInv
    <2>3. CASE phase = "rest"
        BY <1>1, <1>2, <2>3, Durations DEF IInv, AgeInv
    <2>4. QED
        BY <2>1, <2>2, <2>3 DEF IInv, DashboardTypeOK, NodeTypeOK, Steady
<1>5. Bound(MaxLost) + MaxRound + MaxQuery + Skew <= Timeout
    BY TimingAssumption DEF Bound, Longest
<1>6. age + (d + k) <= Timeout
    BY <1>1, <1>2, <1>4, <1>5, Durations
<1>7. QED BY <1>1, <1>6, Durations DEF NodeState

\* The answer of listNodes calls a node offline only if it is down, has not
\* reported since it started, had a slow round, or lost too many heartbeats:
\* for every interval, timeout, length of rounds, delay and skew that
\* TimingAssumption allows.
THEOREM NodesDeserveOffline == Spec => OfflineIsDeserved
<1>1. IInv /\ [Next]_vars =>
          [\A p \in Polls : poll[p] = "sent" /\ poll'[p] = "offline" => ~Steady]_vars
    <2> SUFFICES ASSUME IInv, Next,
                        NEW p \in Polls, poll[p] = "sent", poll'[p] = "offline", Steady
                 PROVE  FALSE
        OBVIOUS
    <2>1. poll \in [Polls -> {"none", "sent", "online", "offline"}]
        BY DEF IInv, DashboardTypeOK
    <2>2. poll' # poll BY <2>1
    <2>3. PICK q \in Polls : Poll(q) \/ ListNodes(q) \/ Resolve(q) \/ Reject(q)
        BY <2>1, <2>2 DEF Next, Mount, Unmount, uiVars
    <2>4. CASE ListNodes(q)
        <3>1. PICK d \in 0..MaxQuery, k \in -Skew..Skew :
                  poll' = [poll EXCEPT ![q] = NodeState(d + k)]
            BY <2>4 DEF ListNodes
        <3>2. NodeState(d + k) = "online" BY SteadyIsOnline
        <3>3. QED BY <2>1, <3>1, <3>2
    <2>5. CASE Poll(q) \/ Resolve(q) \/ Reject(q)
        BY <2>1, <2>5 DEF Poll, Resolve, Reject
    <2>6. QED BY <2>3, <2>4, <2>5
<1>2. QED BY <1>1, Invariance, PTL DEF Spec, OfflineIsDeserved
=============================================================================
