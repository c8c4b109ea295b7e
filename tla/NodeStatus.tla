----------------------------- MODULE NodeStatus -----------------------------
(***************************************************************************)
(* What the control plane knows of a node: the agent's heartbeat loop in   *)
(* time, the resource samples it carries, and what listNodes makes of the  *)
(* last heartbeat's time.  Time is relative: tick counts down to the       *)
(* ticker's next tick, age counts up from the moment UpdateNodeHeartbeat   *)
(* last wrote last_heartbeat_at.  Nothing bounds how long a round of the   *)
(* loop takes (an image pull has no timeout) or how many heartbeats are    *)
(* lost; missed remembers it.                                              *)
(***************************************************************************)
EXTENDS Integers, FiniteSetsExt

CONSTANTS
    Interval,  \* --heartbeat-interval
    Timeout,   \* --heartbeat-timeout
    MaxRound,  \* a round of the loop up to this long is not slow
    MaxLost,   \* heartbeats in a row that may be lost
    MaxQuery,  \* bound on the time between ListNodes and time.Now()
    Skew       \* bound on the difference of the server's and PostgreSQL's clocks

ASSUME DurationsAssumption ==
    /\ {Interval, MaxRound} \subseteq Nat \ {0}
    /\ {Timeout, MaxLost, MaxQuery, Skew} \subseteq Nat

\* The timeout covers the longest time between two heartbeats that are
\* recorded with MaxLost lost in between, and the errors in measuring it.
ASSUME TimingAssumption ==
    (MaxLost + 1) * Max({Interval, MaxRound}) + MaxRound + MaxQuery + Skew <= Timeout

VARIABLES
    phase,    \* the agent: down, waiting for a tick, listing containers, with
              \* a heartbeat on its way, or one that has been recorded
    tick,     \* time to the next tick
    due,      \* a tick is waiting in the ticker's channel, which holds one
    spent,    \* time spent in this round
    age,      \* time since last_heartbeat_at, or Never
    missed,   \* ghost: heartbeats lost since the last one recorded; Excused
              \* if too many, after a slow round, and before the first
    latest,   \* the ResourceCollector's sample: zeros, or real values
    carried,  \* the sample in the heartbeat on its way
    stray,    \* the sample in a heartbeat that the agent has abandoned and
              \* that is still on its way, or "none"
    row       \* the sample in the node's row

clock == <<tick, due, spent>>
nodeVars == <<phase, clock, age, missed, latest, carried, stray, row>>

\* Ages from here on are all the same to nodeState.
Old == Timeout + Skew + 1
Never == -1

\* More heartbeats missed than the timeout has to cover.
Excused == MaxLost + 1

Cap(x, max) == Min({x, max})

\* The values the clockwork can show.
NodeTypeOK ==
    /\ phase \in {"down", "wait", "list", "beat", "rest"}
    /\ tick \in 1..Interval
    /\ spent \in 0..MaxRound + 1
    /\ age \in {Never} \cup 0..Old
    /\ missed \in 0..Excused
    /\ due \in BOOLEAN
    /\ {latest, carried, row} \subseteq {"zero", "real"}
    /\ stray \in {"none", "zero", "real"}

NodeInit ==
    /\ phase = "down" /\ tick = Interval /\ due = FALSE /\ spent = 0
    /\ age = Never /\ missed = Excused
    /\ latest = "zero" /\ carried = "zero" /\ row = "zero" /\ stray = "none"

\* The agent starts: a collector without a sample yet, a new ticker, and
\* heartbeatOnce at once.
Start ==
    /\ phase = "down"
    /\ phase' = "list" /\ tick' = Interval /\ due' = FALSE /\ spent' = 0
    /\ missed' = Excused
    /\ latest' = "zero"
    /\ UNCHANGED <<age, carried, stray, row>>

\* ResourceCollector.sample: a metric that cannot be read stays zero.
Sample ==
    /\ phase # "down"
    /\ latest' \in {"zero", "real"}
    /\ UNCHANGED <<phase, clock, age, missed, carried, stray, row>>

\* A tick is received: heartbeatOnce.
Begin ==
    /\ phase = "wait" /\ due
    /\ phase' = "list" /\ due' = FALSE /\ spent' = 0
    /\ UNCHANGED <<tick, age, missed, latest, carried, stray, row>>

\* Mutant of Send: the sample of the first heartbeat is sent again.
SendFirst ==
    /\ phase = "list"
    /\ phase' = "beat"
    /\ carried' = IF missed = Excused THEN latest ELSE row
    /\ UNCHANGED <<clock, age, missed, latest, stray, row>>

\* List has returned: the heartbeat is sent with the latest sample.
Send ==
    /\ phase = "list"
    /\ phase' = "beat"
    /\ carried' = latest
    /\ UNCHANGED <<clock, age, missed, latest, stray, row>>

\* UpdateNodeHeartbeat: the sample, and last_heartbeat_at = now().
Record ==
    /\ phase = "beat"
    /\ phase' = "rest"
    /\ age' = 0 /\ row' = carried /\ carried' = "zero"
    /\ missed' = 0
    /\ UNCHANGED <<clock, latest, stray>>

\* List or the heartbeat fails, or the agent gives up on a heartbeat that
\* the server will record later.
Lose ==
    /\ phase \in {"list", "beat"}
    /\ phase' = "wait" /\ spent' = 0
    /\ missed' = Cap(missed + 1, Excused)
    /\ stray' \in {stray} \cup (IF phase = "beat" THEN {carried} ELSE {})
    /\ carried' = "zero"
    /\ UNCHANGED <<tick, due, age, latest, row>>

\* The answer arrives and reconcile is done, or the answer is lost.
Finish ==
    /\ phase = "rest"
    /\ phase' = "wait" /\ spent' = 0
    /\ UNCHANGED <<tick, due, age, missed, latest, carried, stray, row>>

\* The server executes a heartbeat whose agent does not wait for it.
StrayRecorded ==
    /\ stray # "none"
    /\ stray' = "none"
    /\ age' = 0 /\ row' = stray
    /\ UNCHANGED <<phase, clock, missed, latest, carried>>

\* The agent stops or dies, perhaps with a heartbeat on its way.
Die ==
    /\ phase # "down"
    /\ phase' = "down"
    /\ tick' = Interval /\ due' = FALSE /\ spent' = 0
    /\ latest' = "zero" /\ carried' = "zero" /\ missed' = Excused
    /\ stray' \in {stray} \cup (IF phase = "beat" THEN {carried} ELSE {})
    /\ UNCHANGED <<age, row>>

InRound == phase \in {"list", "beat", "rest"}

\* Mutant of Pass: a timer, which fires once, not a ticker.
PassOnce ==
    /\ ~(phase = "wait" /\ due)
    /\ tick' = IF phase = "down" \/ tick = 0 THEN tick ELSE tick - 1
    /\ due' = (phase # "down" /\ (due \/ tick = 1))
    /\ spent' = IF InRound THEN Cap(spent + 1, MaxRound + 1) ELSE 0
    /\ missed' = IF InRound /\ spent >= MaxRound THEN Excused ELSE missed
    /\ age' = IF age = Never THEN Never ELSE Cap(age + 1, Old)
    /\ UNCHANGED <<phase, latest, carried, stray, row>>

\* One unit of time passes; a tick that finds the channel full is dropped.
\* An agent that waits receives a tick at once.
Pass ==
    /\ ~(phase = "wait" /\ due)
    /\ tick' = IF phase = "down" THEN tick ELSE IF tick = 1 THEN Interval ELSE tick - 1
    /\ due' = (phase # "down" /\ (due \/ tick = 1))
    /\ spent' = IF InRound THEN Cap(spent + 1, MaxRound + 1) ELSE 0
    /\ missed' = IF InRound /\ spent >= MaxRound THEN Excused ELSE missed
    /\ age' = IF age = Never THEN Never ELSE Cap(age + 1, Old)
    /\ UNCHANGED <<phase, latest, carried, stray, row>>

NodeStep ==
    Sample \/ Begin \/ Send \/ Record \/ Lose \/ Finish \/ StrayRecorded

\* Mutant of NodeState: offline at the timeout already.
NodeStateEarly(d) ==
    IF age = Never \/ age + d >= Timeout THEN "offline" ELSE "online"

\* nodeState for a row read now; d is what is added until time.Now(), and
\* the difference of the clocks.
NodeState(d) ==
    IF age = Never \/ age + d > Timeout THEN "offline" ELSE "online"

\* No reason to call the node offline: it is up and heard of, none of its
\* rounds was slow and not too many heartbeats were lost.
Steady == phase # "down" /\ missed <= MaxLost
=============================================================================
