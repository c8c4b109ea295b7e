---------------------------- MODULE JoinRegistry ----------------------------
(***************************************************************************)
(* What the control plane's store promises about node registration, with   *)
(* no transactions, locks or agents: a join token is created, and is later *)
(* consumed by exactly one registration that creates exactly one node, in  *)
(* one indivisible step.  Registration.tla, which models the SQL           *)
(* statements of RegisterNode one by one, is shown to implement this.      *)
(***************************************************************************)
CONSTANTS
    Tokens,     \* join tokens, identified with the hash that is stored
    Names,      \* node names
    Nodes,      \* node ids (uuid.New(), fresh for every registration)
    NoRow       \* a node id with no row in the nodes table

VARIABLES
    token,      \* join_tokens: "absent", "unused" or the node that used it
    node        \* nodes: the name of the node with this id, or NoRow

vars == <<token, node>>

Init ==
    /\ token = [t \in Tokens |-> "absent"]
    /\ node = [n \in Nodes |-> NoRow]

\* Store.CreateJoinToken: a new token with used_at NULL.
CreateJoinToken(t) ==
    /\ token[t] = "absent"
    /\ token' = [token EXCEPT ![t] = "unused"]
    /\ UNCHANGED node

\* Store.RegisterNode, when it commits: the token is unused, the name is
\* free, and the node row and the use of the token appear together.
RegisterNode(t, n, name) ==
    /\ token[t] = "unused"
    /\ node[n] = NoRow
    /\ \A m \in Nodes : node[m] # name
    /\ token' = [token EXCEPT ![t] = n]
    /\ node' = [node EXCEPT ![n] = name]

Next ==
    \/ \E t \in Tokens : CreateJoinToken(t)
    \/ \E t \in Tokens, n \in Nodes, name \in Names : RegisterNode(t, n, name)

Spec == Init /\ [][Next]_vars
=============================================================================
