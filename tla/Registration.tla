---------------------------- MODULE Registration ----------------------------
(***************************************************************************)
(* How a node joins: the agent's ensureRegistered (internal/agent), the    *)
(* registerNode handler and the SQL transaction behind it                  *)
(* (internal/controlplane/store.RegisterNode), one action per statement,   *)
(* and the credential file the agent keeps across restarts.                *)
(*                                                                         *)
(* A "start" is one run of the agent process.  Reconciler.Run calls        *)
(* ensureRegistered once per start, so a start makes at most one Register  *)
(* call; the node id and the credential that RegisterNode generates afresh *)
(* for that call are identified with the start.                            *)
(*                                                                         *)
(* PostgreSQL (READ COMMITTED) is modelled from how the code uses it:      *)
(* SELECT ... FOR UPDATE waits for the row lock and then reads the latest  *)
(* committed row; an INSERT into a unique index waits for an uncommitted   *)
(* row with the same key and fails on a committed one; rolling back undoes *)
(* the transaction's writes and releases its locks.                        *)
(***************************************************************************)
CONSTANTS
    Agents,          \* the machines that run ambud-agent
    Tokens,          \* join tokens
    Names,           \* node names
    Starts,          \* starts of agent processes; bounds the restarts
    NodeName,        \* NodeName[a]: the --node-name agent a is started with
    NoRow, NoToken, Nobody,
    Faults,          \* TRUE: replies get lost, statements and writes fail
    OperatorDeletes  \* TRUE: the operator may delete a credential file

ASSUME NodeNameAssumption == NodeName \in [Agents -> Names]
ASSUME NullAssumption ==
    /\ NoRow \notin Names /\ NoToken \notin Tokens
    /\ Nobody \notin Agents /\ Nobody \notin Starts
    /\ {"absent", "unused", "torn"} \cap Starts = {}
ASSUME SwitchAssumption == Faults \in BOOLEAN /\ OperatorDeletes \in BOOLEAN

VARIABLES
    tokenUse,   \* join_tokens.used_by_node, "unused", or "absent" (no row)
    lock,       \* the transaction that holds the token row's FOR UPDATE lock
    nodes,      \* nodes.name of the row a start inserted, committed or not
    txPc,       \* where the transaction serving a start's Register call is
    txToken,    \* the --join-token of a start
    txBy,       \* the agent a start belongs to
    result,     \* what RegisterNode returns
    agPc,       \* where an agent's Reconciler.Run is
    agStart,    \* the agent's current start
    agCred,     \* the credential a running reconciler heartbeats with
    credFile    \* the credential file: "absent", "torn" or a credential

dbVars == <<tokenUse, lock, nodes, txPc, result>>
reqVars == <<txToken, txBy>>
agVars == <<agPc, agStart, agCred, credFile>>
vars == <<dbVars, reqVars, agVars>>

TxPc == {"idle", "reserved", "select", "insert", "update", "commit",
         "committed", "rolledback"}
InProgress == {"insert", "update", "commit"}   \* holds the token row's lock
Results == {"none", "ok", "NotFound", "AlreadyExists", "Error"}
AgPc == {"down", "load", "waiting", "save", "writing", "running", "failed"}

\* Type correctness of the tables, the transactions and the agents.
TypeOK ==
    /\ tokenUse \in [Tokens -> {"absent", "unused"} \cup Starts]
    /\ lock \in [Tokens -> Starts \cup {Nobody}]
    /\ nodes \in [Starts -> Names \cup {NoRow}]
    /\ txPc \in [Starts -> TxPc]
    /\ txToken \in [Starts -> Tokens \cup {NoToken}]
    /\ txBy \in [Starts -> Agents \cup {Nobody}]
    /\ result \in [Starts -> Results]
    /\ agPc \in [Agents -> AgPc]
    /\ agStart \in [Agents -> Starts \cup {Nobody}]
    /\ agCred \in [Agents -> Starts \cup {Nobody}]
    /\ credFile \in [Agents -> {"absent", "torn"} \cup Starts]

Init ==
    /\ tokenUse = [t \in Tokens |-> "absent"]
    /\ lock = [t \in Tokens |-> Nobody]
    /\ nodes = [s \in Starts |-> NoRow]
    /\ txPc = [s \in Starts |-> "idle"]
    /\ txToken = [s \in Starts |-> NoToken]
    /\ txBy = [s \in Starts |-> Nobody]
    /\ result = [s \in Starts |-> "none"]
    /\ agPc = [a \in Agents |-> "down"]
    /\ agStart = [a \in Agents |-> Nobody]
    /\ agCred = [a \in Agents |-> Nobody]
    /\ credFile = [a \in Agents |-> "absent"]

Committed(s) == txPc[s] = "committed"
-----------------------------------------------------------------------------
(* The control plane                                                       *)

\* createJoinToken handler and Store.CreateJoinToken.
CreateJoinToken(t) ==
    /\ tokenUse[t] = "absent"
    /\ tokenUse' = [tokenUse EXCEPT ![t] = "unused"]
    /\ UNCHANGED <<lock, nodes, txPc, result, reqVars, agVars>>

\* Mutant of Rollback: the node row was inserted outside the transaction.
RollbackKeepsNode(s, r) ==
    /\ tokenUse' = [t \in Tokens |->
                      IF tokenUse[t] = s THEN "unused" ELSE tokenUse[t]]
    /\ lock' = [t \in Tokens |-> IF lock[t] = s THEN Nobody ELSE lock[t]]
    /\ txPc' = [txPc EXCEPT ![s] = "rolledback"]
    /\ result' = [result EXCEPT ![s] = r]
    /\ UNCHANGED nodes

\* Mutant of Rollback: no deferred tx.Rollback on an early return.
RollbackForgotten(s, r) ==
    /\ txPc' = [txPc EXCEPT ![s] = "rolledback"]
    /\ result' = [result EXCEPT ![s] = r]
    /\ UNCHANGED <<tokenUse, lock, nodes>>

\* The deferred tx.Rollback of a RegisterNode that returns r: the node row
\* and the token update are undone, the row lock is released.
Rollback(s, r) ==
    /\ nodes' = [nodes EXCEPT ![s] = NoRow]
    /\ tokenUse' = [t \in Tokens |->
                      IF tokenUse[t] = s THEN "unused" ELSE tokenUse[t]]
    /\ lock' = [t \in Tokens |-> IF lock[t] = s THEN Nobody ELSE lock[t]]
    /\ txPc' = [txPc EXCEPT ![s] = "rolledback"]
    /\ result' = [result EXCEPT ![s] = r]

\* Mutant of SelectToken: the SELECT has no FOR UPDATE.
SelectTokenNoLock(s) ==
    /\ txPc[s] = "select"
    /\ \/ /\ tokenUse[txToken[s]] # "unused"
          /\ Rollback(s, "NotFound")
       \/ /\ tokenUse[txToken[s]] = "unused"
          /\ txPc' = [txPc EXCEPT ![s] = "insert"]
          /\ UNCHANGED <<tokenUse, lock, nodes, result>>
    /\ UNCHANGED <<reqVars, agVars>>

\* SELECT used_at ... FOR UPDATE, and the switch on its outcome.
SelectToken(s) ==
    /\ txPc[s] = "select"
    /\ lock[txToken[s]] = Nobody
    /\ \/ /\ tokenUse[txToken[s]] = "absent"
          /\ Rollback(s, "NotFound")
       \/ /\ tokenUse[txToken[s]] \in Starts
          /\ Rollback(s, "AlreadyExists")
       \/ /\ tokenUse[txToken[s]] = "unused"
          /\ lock' = [lock EXCEPT ![txToken[s]] = s]
          /\ txPc' = [txPc EXCEPT ![s] = "insert"]
          /\ UNCHANGED <<tokenUse, nodes, result>>
    /\ UNCHANGED <<reqVars, agVars>>

\* Mutant of InsertNode: the name is looked up, not guarded by an index.
InsertNodeUnindexed(s) ==
    LET name == NodeName[txBy[s]]
    IN  /\ txPc[s] = "insert"
        /\ ~ \E o \in Starts : Committed(o) /\ nodes[o] = name
        /\ nodes' = [nodes EXCEPT ![s] = name]
        /\ txPc' = [txPc EXCEPT ![s] = "update"]
        /\ UNCHANGED <<tokenUse, lock, result, reqVars, agVars>>

\* Mutant of InsertNode: the token is never marked used.
InsertNodeOnly(s) ==
    LET name == NodeName[txBy[s]]
    IN  /\ txPc[s] = "insert"
        /\ \A o \in Starts : nodes[o] # name
        /\ nodes' = [nodes EXCEPT ![s] = name]
        /\ txPc' = [txPc EXCEPT ![s] = "commit"]
        /\ UNCHANGED <<tokenUse, lock, result, reqVars, agVars>>

\* INSERT INTO nodes: waits while another transaction has inserted the same
\* name and not finished; a committed row with the name is a unique violation.
InsertNode(s) ==
    LET name == NodeName[txBy[s]]
        same == {o \in Starts \ {s} : nodes[o] = name}
    IN  /\ txPc[s] = "insert"
        /\ \A o \in same : Committed(o)
        /\ \/ /\ same # {}
              /\ Rollback(s, "AlreadyExists")
           \/ /\ same = {}
              /\ nodes' = [nodes EXCEPT ![s] = name]
              /\ txPc' = [txPc EXCEPT ![s] = "update"]
              /\ UNCHANGED <<tokenUse, lock, result>>
        /\ UNCHANGED <<reqVars, agVars>>

\* UPDATE join_tokens SET used_at, used_by_node.
UpdateToken(s) ==
    /\ txPc[s] = "update"
    /\ tokenUse' = [tokenUse EXCEPT ![txToken[s]] = s]
    /\ txPc' = [txPc EXCEPT ![s] = "commit"]
    /\ UNCHANGED <<lock, nodes, result, reqVars, agVars>>

\* tx.Commit and the handler's 201 reply.
CommitTx(s) ==
    /\ txPc[s] = "commit"
    /\ txPc' = [txPc EXCEPT ![s] = "committed"]
    /\ lock' = [lock EXCEPT ![txToken[s]] = Nobody]
    /\ result' = [result EXCEPT ![s] = "ok"]
    /\ UNCHANGED <<tokenUse, nodes, reqVars, agVars>>

\* A statement fails: the connection breaks, or the request's context is
\* cancelled because its client gave up.
AbortTx(s) ==
    /\ Faults
    /\ txPc[s] \in {"select"} \cup InProgress
    /\ Rollback(s, "Error")
    /\ UNCHANGED <<reqVars, agVars>>
-----------------------------------------------------------------------------
(* The agent                                                               *)

\* The operator (or systemd) starts agent a with join token t or none.
Start(a, s, t) ==
    /\ agPc[a] = "down"
    /\ txPc[s] = "idle"
    /\ agPc' = [agPc EXCEPT ![a] = "load"]
    /\ agStart' = [agStart EXCEPT ![a] = s]
    /\ txPc' = [txPc EXCEPT ![s] = "reserved"]
    /\ txToken' = [txToken EXCEPT ![s] = t]
    /\ txBy' = [txBy EXCEPT ![s] = a]
    /\ UNCHANGED <<tokenUse, lock, nodes, result, agCred, credFile>>

\* Mutant of LoadFound: a file that does not parse is used as it is.
LoadUnparsed(a) ==
    /\ agPc[a] = "load"
    /\ credFile[a] # "absent"
    /\ agPc' = [agPc EXCEPT ![a] = "running"]
    /\ agCred' = [agCred EXCEPT ![a] = credFile[a]]
    /\ UNCHANGED <<dbVars, reqVars, agStart, credFile>>

\* LoadCredential finds a well-formed file: it is used, the token ignored.
LoadFound(a) ==
    /\ agPc[a] = "load"
    /\ credFile[a] \in Starts
    /\ agPc' = [agPc EXCEPT ![a] = "running"]
    /\ agCred' = [agCred EXCEPT ![a] = credFile[a]]
    /\ UNCHANGED <<dbVars, reqVars, agStart, credFile>>

\* LoadCredential cannot read the file (a fault of the disk or of its
\* permissions) or parse it, or there is no file and no token:
\* Reconciler.Run returns an error that main only logs, and never runs again.
LoadFails(a) ==
    /\ agPc[a] = "load"
    /\ \/ Faults
       \/ credFile[a] = "torn"
       \/ credFile[a] = "absent" /\ txToken[agStart[a]] = NoToken
    /\ agPc' = [agPc EXCEPT ![a] = "failed"]
    /\ UNCHANGED <<dbVars, reqVars, agStart, agCred, credFile>>

\* No file: the Register call is sent.
SendRegister(a) ==
    /\ agPc[a] = "load"
    /\ credFile[a] = "absent"
    /\ txToken[agStart[a]] # NoToken
    /\ agPc' = [agPc EXCEPT ![a] = "waiting"]
    /\ txPc' = [txPc EXCEPT ![agStart[a]] = "select"]
    /\ UNCHANGED <<tokenUse, lock, nodes, result, reqVars, agStart, agCred, credFile>>

\* Mutant of ReceiveReply: the status code of the reply is not checked.
ReceiveUnchecked(a) ==
    /\ agPc[a] = "waiting"
    /\ result[agStart[a]] # "none"
    /\ agPc' = [agPc EXCEPT ![a] = "save"]
    /\ UNCHANGED <<dbVars, reqVars, agStart, agCred, credFile>>

\* The reply arrives; an error ends Reconciler.Run.
ReceiveReply(a) ==
    /\ agPc[a] = "waiting"
    /\ result[agStart[a]] # "none"
    /\ agPc' = [agPc EXCEPT
                  ![a] = IF result[agStart[a]] = "ok" THEN "save" ELSE "failed"]
    /\ UNCHANGED <<dbVars, reqVars, agStart, agCred, credFile>>

\* The client's timeout, a broken connection, or a commit whose outcome the
\* server could not report: the agent sees an error, the transaction goes on.
LoseReply(a) ==
    /\ Faults
    /\ agPc[a] = "waiting"
    /\ agPc' = [agPc EXCEPT ![a] = "failed"]
    /\ UNCHANGED <<dbVars, reqVars, agStart, agCred, credFile>>

\* SaveCredential: os.WriteFile opens the file and truncates it ...
SaveTruncate(a) ==
    /\ agPc[a] = "save"
    /\ agPc' = [agPc EXCEPT ![a] = "writing"]
    /\ credFile' = [credFile EXCEPT ![a] = "torn"]
    /\ UNCHANGED <<dbVars, reqVars, agStart, agCred>>

\* ... and writes it; ensureRegistered returns and the loop begins.
SaveWrite(a) ==
    /\ agPc[a] = "writing"
    /\ agPc' = [agPc EXCEPT ![a] = "running"]
    /\ credFile' = [credFile EXCEPT ![a] = agStart[a]]
    /\ agCred' = [agCred EXCEPT ![a] = agStart[a]]
    /\ UNCHANGED <<dbVars, reqVars, agStart>>

\* MkdirAll, open or write fails: Reconciler.Run ends with an error.
SaveFails(a) ==
    /\ Faults
    /\ agPc[a] \in {"save", "writing"}
    /\ agPc' = [agPc EXCEPT ![a] = "failed"]
    /\ UNCHANGED <<dbVars, reqVars, agStart, agCred, credFile>>

\* The agent process crashes, at any point, or is stopped once it settled.
Exit(a) ==
    /\ agPc[a] \in {"running", "failed"} \/ (Faults /\ agPc[a] # "down")
    /\ agPc' = [agPc EXCEPT ![a] = "down"]
    /\ agStart' = [agStart EXCEPT ![a] = Nobody]
    /\ agCred' = [agCred EXCEPT ![a] = Nobody]
    /\ UNCHANGED <<dbVars, reqVars, credFile>>

\* The procedure docs/DEVELOPMENT.md gives to force re-registration.
DeleteCredential(a) ==
    /\ OperatorDeletes
    /\ agPc[a] = "down"
    /\ credFile[a] # "absent"
    /\ credFile' = [credFile EXCEPT ![a] = "absent"]
    /\ UNCHANGED <<dbVars, reqVars, agPc, agStart, agCred>>
-----------------------------------------------------------------------------
RegisterTx(s) ==
    SelectToken(s) \/ InsertNode(s) \/ UpdateToken(s) \/ CommitTx(s)

EnsureRegistered(a) ==
    \/ LoadFound(a) \/ LoadFails(a) \/ SendRegister(a)
    \/ ReceiveReply(a) \/ SaveTruncate(a) \/ SaveWrite(a)

Next ==
    \/ \E t \in Tokens : CreateJoinToken(t)
    \/ \E s \in Starts : RegisterTx(s) \/ AbortTx(s)
    \/ \E a \in Agents, s \in Starts, t \in Tokens \cup {NoToken} : Start(a, s, t)
    \/ \E a \in Agents :
          \/ EnsureRegistered(a) \/ LoseReply(a) \/ SaveFails(a)
          \/ Exit(a) \/ DeleteCredential(a)

\* A request that the server has begun is served, and a started agent keeps
\* executing; nobody has to start, stop or re-token an agent.
Fairness ==
    /\ \A s \in Starts : WF_vars(RegisterTx(s))
    /\ \A a \in Agents : WF_vars(EnsureRegistered(a))

Spec == Init /\ [][Next]_vars /\ Fairness
-----------------------------------------------------------------------------
(* Properties                                                              *)

\* "Consuming the join token and creating the node happen in one transaction
\* so a crash mid-registration can't leave a token marked used with no
\* corresponding node, or vice versa" (RegisterNode): whenever no transaction
\* is inside a token's row lock, the token is used exactly when a committed
\* node exists for it, and a finished transaction left a row only if it
\* committed.
TokenNodeAtomic ==
    /\ \A t \in Tokens : lock[t] = Nobody /\ tokenUse[t] \in Starts =>
          Committed(tokenUse[t]) /\ nodes[tokenUse[t]] # NoRow
    /\ \A s \in Starts : txPc[s] \notin InProgress /\ nodes[s] # NoRow =>
          Committed(s) /\ \E t \in Tokens : tokenUse[t] = s
    /\ \A s \in Starts : Committed(s) => nodes[s] # NoRow

\* Whatever transactions run side by side, no two node rows have the same
\* name: the check of the unique index and the wait for uncommitted rows
\* leave no window.
UniqueNodeNames ==
    \A s, o \in Starts : nodes[s] # NoRow /\ nodes[s] = nodes[o] => s = o

\* A join token is single-use: once a committed registration consumed it,
\* no concurrent or later RegisterNode with the same token takes it over,
\* and no rollback gives it back.
TokenSingleUse ==
    [][\A t \in Tokens :
          tokenUse[t] \in Starts /\ Committed(tokenUse[t]) =>
             tokenUse'[t] = tokenUse[t]]_vars

\* An agent whose reconciler runs, and an agent with a well-formed
\* credential file, holds the credential of a committed node that was
\* registered by that same agent, under its own name: no crash, lost reply
\* or shared token makes two machines heartbeat as one node.
OwnIdentity ==
    \A a \in Agents : \A c \in Starts :
        (agPc[a] = "running" /\ agCred[a] = c) \/ credFile[a] = c =>
            Committed(c) /\ txBy[c] = a /\ nodes[c] = NodeName[a]

\* Every start of an agent gets somewhere: Reconciler.Run reaches its loop
\* or returns an error (or the process ends).  Row locks and waits for
\* uncommitted names never leave a registration hanging.
StartSettles ==
    \A a \in Agents :
        agPc[a] \in {"load", "waiting", "save", "writing"} ~>
            agPc[a] \in {"running", "failed", "down"}

\* The registry of JoinRegistry.tla that a state stands for: a token counts
\* as used, and a node as present, from the commit on.
absToken == [t \in Tokens |->
                IF tokenUse[t] \in Starts /\ ~Committed(tokenUse[t])
                  THEN "unused" ELSE tokenUse[t]]
absNode == [s \in Starts |-> IF Committed(s) THEN nodes[s] ELSE NoRow]

Registry == INSTANCE JoinRegistry WITH
    Nodes <- Starts, token <- absToken, node <- absNode

\* Registration is atomic: every behaviour of the statement-level model is
\* a behaviour of JoinRegistry, where RegisterNode is one step.
RegistersAtomically == Registry!Spec

\* docs/DEVELOPMENT.md:213 "delete that file to force re-registration
\* (you'll need a fresh join token; each one is single-use)": a registration
\* with a token that is still unused is never rejected as AlreadyExists.
FreshTokenRegisters ==
    \A s \in Starts :
        result[s] = "AlreadyExists" => tokenUse[txToken[s]] # "unused"
=============================================================================
