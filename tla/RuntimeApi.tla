----------------------------- MODULE RuntimeApi -----------------------------
(***************************************************************************)
(* What the Runtime interface promises its callers about one container,    *)
(* as runtime.Fake implements it under its mutex: Run, Stop and List are   *)
(* single steps.  Where something they need can fail, they may fail too,   *)
(* leaving the container as it was; the process may exit at any time.      *)
(***************************************************************************)
CONSTANTS
    Callers,
    Existing,   \* the errors Run has for a name whose container exists:
                \* ErrAlreadyExists alone by runtime.go and in Fake
    Failing     \* TRUE: the services an operation needs can fail

VARIABLES
    container,  \* "absent", "running" or "stopped" (exited, record kept)
    reply       \* what each caller's last call returned; "none": in a call

vars == <<container, reply>>

Init ==
    /\ container = "absent"
    /\ reply = [c \in Callers |-> "none"]

Answer(c, r) == reply' = [reply EXCEPT ![c] = r]

Call(c) == Answer(c, "none") /\ UNCHANGED container

Run(c) ==
    /\ reply[c] = "none"
    /\ \/ container = "absent" /\ container' = "running" /\ Answer(c, "ok")
       \/ /\ container # "absent"
          /\ \E r \in Existing : Answer(c, r)
          /\ UNCHANGED container

Stop(c) ==
    /\ reply[c] = "none"
    /\ \/ container # "absent" /\ container' = "absent" /\ Answer(c, "ok")
       \/ container = "absent" /\ Answer(c, "NotFound") /\ UNCHANGED container

List(c) ==
    /\ reply[c] = "none"
    /\ Answer(c, container)
    /\ UNCHANGED container

\* An image cannot be pulled (Fake.PullErr), or containerd, CNI or ip fail.
Fails(c) ==
    /\ Failing
    /\ reply[c] = "none"
    /\ Answer(c, "Error")
    /\ UNCHANGED container

\* runtime.Fake.SimulateCrash, and the exit that a Stop brings about.
Exits ==
    /\ container = "running"
    /\ container' = "stopped"
    /\ UNCHANGED reply

Next ==
    \/ \E c \in Callers : Call(c) \/ Run(c) \/ Stop(c) \/ List(c) \/ Fails(c)
    \/ Exits

Spec == Init /\ [][Next]_vars
=============================================================================
