------------------------- MODULE RegistrationProofs -------------------------
(***************************************************************************)
(* Proofs about Registration.tla, for any sets of agents, tokens, names    *)
(* and starts: the safety properties its runs check, and that the          *)
(* statement-level transactions implement JoinRegistry.                    *)
(*                                                                         *)
(* The properties are not inductive by themselves.  What makes them hold   *)
(* is which transaction owns a token row: LockInv says that the row lock   *)
(* and the transaction's position agree, UseInv that a token's use belongs *)
(* to the transaction that wrote it and that a token stays unused while a  *)
(* transaction holds it, NodeInv that a node row exists exactly from the   *)
(* INSERT on, and AgentInv that an agent only follows its own start.       *)
(***************************************************************************)
EXTENDS Registration, TLAPS

\* The FOR UPDATE lock of a token row is held by s exactly while s, whose
\* token it is, is between its SELECT and its COMMIT.
LockInv ==
    /\ \A t \in Tokens, s \in Starts :
          lock[t] = s => txToken[s] = t /\ txPc[s] \in InProgress
    /\ \A s \in Starts :
          txPc[s] \in InProgress => txToken[s] \in Tokens /\ lock[txToken[s]] = s
    /\ \A s \in Starts : txPc[s] = "select" => txToken[s] \in Tokens

\* A token is used by s exactly when s has executed its UPDATE and not
\* rolled back, and is unused while s holds its lock before that.
UseInv ==
    /\ \A t \in Tokens, s \in Starts :
          tokenUse[t] = s => txToken[s] = t /\ txPc[s] \in {"commit", "committed"}
    /\ \A s \in Starts :
          txPc[s] \in {"commit", "committed"} =>
             txToken[s] \in Tokens /\ tokenUse[txToken[s]] = s
    /\ \A s \in Starts :
          txPc[s] \in {"insert", "update"} => tokenUse[txToken[s]] = "unused"

\* A node row exists exactly from its INSERT on, with the agent's own name.
NodeInv ==
    /\ \A s \in Starts :
          nodes[s] # NoRow <=> txPc[s] \in {"update", "commit", "committed"}
    /\ \A s \in Starts : txPc[s] # "idle" => txBy[s] \in Agents
    /\ \A s \in Starts : nodes[s] # NoRow => nodes[s] = NodeName[txBy[s]]

\* An agent's current start is its own, has not sent Register while the
\* agent is loading its credential, and is committed once it has the reply.
AgentInv ==
    /\ \A a \in Agents : agPc[a] # "down" =>
          /\ agStart[a] \in Starts
          /\ txPc[agStart[a]] # "idle"
          /\ txBy[agStart[a]] = a
    /\ \A a \in Agents : agPc[a] = "load" => txPc[agStart[a]] = "reserved"
    /\ \A a \in Agents : agPc[a] \in {"save", "writing"} => Committed(agStart[a])
    /\ \A s \in Starts : result[s] = "ok" => Committed(s)

\* The inductive invariant.
IInv ==
    /\ TypeOK
    /\ LockInv
    /\ UseInv
    /\ NodeInv
    /\ UniqueNodeNames
    /\ AgentInv
    /\ OwnIdentity
-----------------------------------------------------------------------------
(* The inductive invariant holds initially and every action preserves it.  *)

\* Empty tables, no request and no agent running satisfy IInv.
LEMMA InitInv == Init => IInv
<1> SUFFICES ASSUME Init PROVE IInv
    OBVIOUS
<1> USE NullAssumption DEF Init
<1>1. TypeOK BY DEF TypeOK, TxPc, Results, AgPc
<1>2. LockInv /\ UseInv BY DEF LockInv, UseInv, InProgress
<1>3. NodeInv /\ UniqueNodeNames BY DEF NodeInv, UniqueNodeNames
<1>4. AgentInv /\ OwnIdentity BY DEF AgentInv, OwnIdentity, Committed
<1>5. QED BY <1>1, <1>2, <1>3, <1>4 DEF IInv

\* A new token is unused and nobody has locked it.
LEMMA CreateJoinTokenInv ==
    ASSUME IInv, NEW t \in Tokens, CreateJoinToken(t)
    PROVE  IInv'
<1> USE NullAssumption, NodeNameAssumption
    DEF IInv, CreateJoinToken, InProgress, Committed, dbVars, reqVars, agVars
<1>1. TypeOK' BY DEF TypeOK, NodeInv, TxPc, Results, AgPc
<1>2. LockInv' BY DEF TypeOK, LockInv
<1>3. UseInv' BY DEF TypeOK, LockInv, UseInv
<1>4. NodeInv' BY DEF TypeOK, NodeInv, AgentInv
<1>5. UniqueNodeNames' BY DEF TypeOK, NodeInv, UniqueNodeNames
<1>6. AgentInv' BY DEF TypeOK, NodeInv, AgentInv
<1>7. OwnIdentity' BY DEF TypeOK, NodeInv, AgentInv, OwnIdentity
<1>8. QED BY <1>1, <1>2, <1>3, <1>4, <1>5, <1>6, <1>7

\* The SELECT locks a row only when it is unlocked and unused.
LEMMA SelectTokenInv ==
    ASSUME IInv, NEW s \in Starts, SelectToken(s)
    PROVE  IInv'
<1> USE NullAssumption, NodeNameAssumption
    DEF IInv, SelectToken, Rollback, InProgress, Committed, dbVars, reqVars, agVars
<1>1. TypeOK' BY DEF TypeOK, NodeInv, TxPc, Results, AgPc
<1>2. LockInv' BY DEF TypeOK, LockInv
<1>3. UseInv' BY DEF TypeOK, LockInv, UseInv
<1>4. NodeInv' BY DEF TypeOK, NodeInv, AgentInv
<1>5. UniqueNodeNames' BY DEF TypeOK, NodeInv, UniqueNodeNames
<1>6. AgentInv' BY DEF TypeOK, NodeInv, AgentInv
<1>7. OwnIdentity' BY DEF TypeOK, NodeInv, AgentInv, OwnIdentity
<1>8. QED BY <1>1, <1>2, <1>3, <1>4, <1>5, <1>6, <1>7

\* The INSERT adds a row only when no row, committed or not, has the name.
LEMMA InsertNodeInv ==
    ASSUME IInv, NEW s \in Starts, InsertNode(s)
    PROVE  IInv'
<1> USE NullAssumption, NodeNameAssumption
    DEF IInv, InsertNode, Rollback, InProgress, Committed, dbVars, reqVars, agVars
<1>1. TypeOK' BY DEF TypeOK, NodeInv, TxPc, Results, AgPc
<1>2. LockInv' BY DEF TypeOK, LockInv
<1>3. UseInv' BY DEF TypeOK, LockInv, UseInv
<1>4. NodeInv' BY DEF TypeOK, NodeInv, AgentInv
<1>5. UniqueNodeNames' BY DEF TypeOK, NodeInv, UniqueNodeNames
<1>6. AgentInv' BY DEF TypeOK, NodeInv, AgentInv
<1>7. OwnIdentity' BY DEF TypeOK, NodeInv, AgentInv, OwnIdentity
<1>8. QED BY <1>1, <1>2, <1>3, <1>4, <1>5, <1>6, <1>7

\* The UPDATE writes the token whose lock the transaction holds.
LEMMA UpdateTokenInv ==
    ASSUME IInv, NEW s \in Starts, UpdateToken(s)
    PROVE  IInv'
<1> USE NullAssumption, NodeNameAssumption
    DEF IInv, UpdateToken, InProgress, Committed, dbVars, reqVars, agVars
<1>1. TypeOK' BY DEF TypeOK, NodeInv, TxPc, Results, AgPc
<1>2. LockInv' BY DEF TypeOK, LockInv
<1>3. UseInv' BY DEF TypeOK, LockInv, UseInv
<1>4. NodeInv' BY DEF TypeOK, NodeInv, AgentInv
<1>5. UniqueNodeNames' BY DEF TypeOK, NodeInv, UniqueNodeNames
<1>6. AgentInv' BY DEF TypeOK, NodeInv, AgentInv
<1>7. OwnIdentity' BY DEF TypeOK, NodeInv, AgentInv, OwnIdentity
<1>8. QED BY <1>1, <1>2, <1>3, <1>4, <1>5, <1>6, <1>7

\* The commit releases the lock of the token it used.
LEMMA CommitTxInv ==
    ASSUME IInv, NEW s \in Starts, CommitTx(s)
    PROVE  IInv'
<1> USE NullAssumption, NodeNameAssumption
    DEF IInv, CommitTx, InProgress, Committed, dbVars, reqVars, agVars
<1>1. TypeOK' BY DEF TypeOK, NodeInv, TxPc, Results, AgPc
<1>2. LockInv' BY DEF TypeOK, LockInv
<1>3. UseInv' BY DEF TypeOK, LockInv, UseInv
<1>4. NodeInv' BY DEF TypeOK, NodeInv, AgentInv
<1>5. UniqueNodeNames' BY DEF TypeOK, NodeInv, UniqueNodeNames
<1>6. AgentInv' BY DEF TypeOK, NodeInv, AgentInv
<1>7. OwnIdentity' BY DEF TypeOK, NodeInv, AgentInv, OwnIdentity
<1>8. QED BY <1>1, <1>2, <1>3, <1>4, <1>5, <1>6, <1>7

\* A rollback takes back the row, the use and the lock of its transaction only.
LEMMA AbortTxInv ==
    ASSUME IInv, NEW s \in Starts, AbortTx(s)
    PROVE  IInv'
<1> USE NullAssumption, NodeNameAssumption
    DEF IInv, AbortTx, Rollback, InProgress, Committed, dbVars, reqVars, agVars
<1>1. TypeOK' BY DEF TypeOK, NodeInv, TxPc, Results, AgPc
<1>2. LockInv' BY DEF TypeOK, LockInv
<1>3. UseInv' BY DEF TypeOK, LockInv, UseInv
<1>4. NodeInv' BY DEF TypeOK, NodeInv, AgentInv
<1>5. UniqueNodeNames' BY DEF TypeOK, NodeInv, UniqueNodeNames
<1>6. AgentInv' BY DEF TypeOK, NodeInv, AgentInv
<1>7. OwnIdentity' BY DEF TypeOK, NodeInv, AgentInv, OwnIdentity
<1>8. QED BY <1>1, <1>2, <1>3, <1>4, <1>5, <1>6, <1>7

\* A start is new, so no token, lock, row or agent refers to it.
LEMMA StartInv ==
    ASSUME IInv, NEW a \in Agents, NEW s \in Starts, NEW t \in Tokens \cup {NoToken}, Start(a, s, t)
    PROVE  IInv'
<1> USE NullAssumption, NodeNameAssumption
    DEF IInv, Start, InProgress, Committed, dbVars, reqVars, agVars
<1>1. TypeOK' BY DEF TypeOK, NodeInv, TxPc, Results, AgPc
<1>2. LockInv' BY DEF TypeOK, LockInv
<1>3. UseInv' BY DEF TypeOK, LockInv, UseInv
<1>4. NodeInv' BY DEF TypeOK, NodeInv, AgentInv
<1>5. UniqueNodeNames' BY DEF TypeOK, NodeInv, UniqueNodeNames
<1>6. AgentInv' BY DEF TypeOK, NodeInv, AgentInv
<1>7. OwnIdentity' BY DEF TypeOK, NodeInv, AgentInv, OwnIdentity
<1>8. QED BY <1>1, <1>2, <1>3, <1>4, <1>5, <1>6, <1>7

\* Register is sent for the agent's own start, which has a token.
LEMMA SendRegisterInv ==
    ASSUME IInv, NEW a \in Agents, SendRegister(a)
    PROVE  IInv'
<1> USE NullAssumption, NodeNameAssumption
    DEF IInv, SendRegister, InProgress, Committed, dbVars, reqVars, agVars
<1>1. TypeOK' BY DEF TypeOK, NodeInv, TxPc, Results, AgPc
<1>2. LockInv' BY DEF TypeOK, LockInv, AgentInv
<1>3. UseInv' BY DEF TypeOK, LockInv, UseInv, AgentInv
<1>4. NodeInv' BY DEF TypeOK, NodeInv, AgentInv
<1>5. UniqueNodeNames' BY DEF TypeOK, NodeInv, UniqueNodeNames
<1>6. AgentInv' BY DEF TypeOK, NodeInv, AgentInv
<1>7. OwnIdentity' BY DEF TypeOK, NodeInv, AgentInv, OwnIdentity
<1>8. QED BY <1>1, <1>2, <1>3, <1>4, <1>5, <1>6, <1>7

\* The steps of the agent that leave the database and the requests alone.
LocalStep(a) ==
    \/ LoadFound(a) \/ LoadFails(a) \/ ReceiveReply(a) \/ LoseReply(a)
    \/ SaveTruncate(a) \/ SaveWrite(a) \/ SaveFails(a)
    \/ Exit(a) \/ DeleteCredential(a)

\* The agent's own steps keep it on its own, committed, identity.
LEMMA LocalStepInv ==
    ASSUME IInv, NEW a \in Agents, LocalStep(a)
    PROVE  IInv'
<1> USE NullAssumption DEF IInv
<1>1. UNCHANGED <<dbVars, reqVars>>
    BY DEF LocalStep, LoadFound, LoadFails, ReceiveReply, LoseReply,
           SaveTruncate, SaveWrite, SaveFails, Exit, DeleteCredential
<1>2. LockInv' /\ UseInv' /\ NodeInv' /\ UniqueNodeNames'
    BY <1>1 DEF LockInv, UseInv, NodeInv, UniqueNodeNames, dbVars, reqVars
<1>3. CASE LoadFound(a)
    <2> USE <1>1, <1>3 DEF LoadFound, Committed, dbVars, reqVars
    <2>1. TypeOK' BY DEF TypeOK, TxPc, Results, AgPc, AgentInv
    <2>2. AgentInv' BY DEF TypeOK, AgentInv
    <2>3. OwnIdentity' BY DEF TypeOK, AgentInv, NodeInv, OwnIdentity
    <2>4. QED BY <1>2, <2>1, <2>2, <2>3
<1>4. CASE LoadFails(a)
    <2> USE <1>1, <1>4 DEF LoadFails, Committed, dbVars, reqVars
    <2>1. TypeOK' BY DEF TypeOK, TxPc, Results, AgPc, AgentInv
    <2>2. AgentInv' BY DEF TypeOK, AgentInv
    <2>3. OwnIdentity' BY DEF TypeOK, AgentInv, NodeInv, OwnIdentity
    <2>4. QED BY <1>2, <2>1, <2>2, <2>3
<1>5. CASE ReceiveReply(a)
    <2> USE <1>1, <1>5 DEF ReceiveReply, Committed, dbVars, reqVars
    <2>1. TypeOK' BY DEF TypeOK, TxPc, Results, AgPc, AgentInv
    <2>2. AgentInv' BY DEF TypeOK, AgentInv
    <2>3. OwnIdentity' BY DEF TypeOK, AgentInv, NodeInv, OwnIdentity
    <2>4. QED BY <1>2, <2>1, <2>2, <2>3
<1>6. CASE LoseReply(a)
    <2> USE <1>1, <1>6 DEF LoseReply, Committed, dbVars, reqVars
    <2>1. TypeOK' BY DEF TypeOK, TxPc, Results, AgPc, AgentInv
    <2>2. AgentInv' BY DEF TypeOK, AgentInv
    <2>3. OwnIdentity' BY DEF TypeOK, AgentInv, NodeInv, OwnIdentity
    <2>4. QED BY <1>2, <2>1, <2>2, <2>3
<1>7. CASE SaveTruncate(a)
    <2> USE <1>1, <1>7 DEF SaveTruncate, Committed, dbVars, reqVars
    <2>1. TypeOK' BY DEF TypeOK, TxPc, Results, AgPc, AgentInv
    <2>2. AgentInv' BY DEF TypeOK, AgentInv
    <2>3. OwnIdentity' BY DEF TypeOK, AgentInv, NodeInv, OwnIdentity
    <2>4. QED BY <1>2, <2>1, <2>2, <2>3
<1>8. CASE SaveWrite(a)
    <2> USE <1>1, <1>8 DEF SaveWrite, Committed, dbVars, reqVars
    <2>1. TypeOK' BY DEF TypeOK, TxPc, Results, AgPc, AgentInv
    <2>2. AgentInv' BY DEF TypeOK, AgentInv
    <2>3. OwnIdentity' BY DEF TypeOK, AgentInv, NodeInv, OwnIdentity
    <2>4. QED BY <1>2, <2>1, <2>2, <2>3
<1>9. CASE SaveFails(a)
    <2> USE <1>1, <1>9 DEF SaveFails, Committed, dbVars, reqVars
    <2>1. TypeOK' BY DEF TypeOK, TxPc, Results, AgPc, AgentInv
    <2>2. AgentInv' BY DEF TypeOK, AgentInv
    <2>3. OwnIdentity' BY DEF TypeOK, AgentInv, NodeInv, OwnIdentity
    <2>4. QED BY <1>2, <2>1, <2>2, <2>3
<1>10. CASE Exit(a)
    <2> USE <1>1, <1>10 DEF Exit, Committed, dbVars, reqVars
    <2>1. TypeOK' BY DEF TypeOK, TxPc, Results, AgPc, AgentInv
    <2>2. AgentInv' BY DEF TypeOK, AgentInv
    <2>3. OwnIdentity' BY DEF TypeOK, AgentInv, NodeInv, OwnIdentity
    <2>4. QED BY <1>2, <2>1, <2>2, <2>3
<1>11. CASE DeleteCredential(a)
    <2> USE <1>1, <1>11 DEF DeleteCredential, Committed, dbVars, reqVars
    <2>1. TypeOK' BY DEF TypeOK, TxPc, Results, AgPc, AgentInv
    <2>2. AgentInv' BY DEF TypeOK, AgentInv
    <2>3. OwnIdentity' BY DEF TypeOK, AgentInv, NodeInv, OwnIdentity
    <2>4. QED BY <1>2, <2>1, <2>2, <2>3
<1>12. QED
    BY <1>3, <1>4, <1>5, <1>6, <1>7, <1>8, <1>9, <1>10, <1>11 DEF LocalStep

\* IInv is inductive: one case per action of Next.
LEMMA NextInv == IInv /\ [Next]_vars => IInv'
<1> SUFFICES ASSUME IInv, [Next]_vars PROVE IInv'
    OBVIOUS
<1>1. CASE UNCHANGED vars
    BY <1>1 DEF IInv, TypeOK, LockInv, UseInv, NodeInv, UniqueNodeNames,
                AgentInv, OwnIdentity, Committed, vars, dbVars, reqVars, agVars
<1>2. ASSUME NEW t \in Tokens, CreateJoinToken(t) PROVE IInv'
    BY <1>2, CreateJoinTokenInv
<1>3. ASSUME NEW s \in Starts, RegisterTx(s) \/ AbortTx(s) PROVE IInv'
    BY <1>3, SelectTokenInv, InsertNodeInv, UpdateTokenInv, CommitTxInv, AbortTxInv
       DEF RegisterTx
<1>4. ASSUME NEW a \in Agents, NEW s \in Starts, NEW t \in Tokens \cup {NoToken},
             Start(a, s, t)
      PROVE IInv'
    BY <1>4, StartInv
<1>5. ASSUME NEW a \in Agents, SendRegister(a) PROVE IInv'
    BY <1>5, SendRegisterInv
<1>6. ASSUME NEW a \in Agents, LocalStep(a) PROVE IInv'
    BY <1>6, LocalStepInv
<1>7. QED
    BY <1>1, <1>2, <1>3, <1>4, <1>5, <1>6 DEF Next, EnsureRegistered, LocalStep

\* The inductive invariant holds in every reachable state.
THEOREM Invariance == Spec => []IInv
<1>1. QED BY InitInv, NextInv, PTL DEF Spec
-----------------------------------------------------------------------------
(* The safety properties                                                   *)

\* Every variable of the registration model keeps its type.
THEOREM TypeCorrect == Spec => []TypeOK
<1>1. IInv => TypeOK BY DEF IInv
<1>2. QED BY <1>1, Invariance, PTL

\* Token use and node creation are atomic, for any number of concurrent
\* registrations, crashes and rollbacks.
THEOREM Atomicity == Spec => []TokenNodeAtomic
<1>1. IInv => TokenNodeAtomic
    <2> SUFFICES ASSUME IInv PROVE TokenNodeAtomic
        OBVIOUS
    <2> USE NullAssumption DEF IInv, TypeOK, Committed, InProgress
    <2>1. ASSUME NEW t \in Tokens, lock[t] = Nobody, tokenUse[t] \in Starts
          PROVE Committed(tokenUse[t]) /\ nodes[tokenUse[t]] # NoRow
        BY <2>1 DEF LockInv, UseInv, NodeInv
    <2>2. ASSUME NEW s \in Starts, txPc[s] \notin InProgress, nodes[s] # NoRow
          PROVE Committed(s) /\ \E t \in Tokens : tokenUse[t] = s
        BY <2>2 DEF UseInv, NodeInv
    <2>3. ASSUME NEW s \in Starts, Committed(s) PROVE nodes[s] # NoRow
        BY <2>3 DEF NodeInv
    <2>4. QED BY <2>1, <2>2, <2>3 DEF TokenNodeAtomic
<1>2. QED BY <1>1, Invariance, PTL

\* Node names are unique, uncommitted rows included.
THEOREM NamesUnique == Spec => []UniqueNodeNames
<1>1. IInv => UniqueNodeNames BY DEF IInv
<1>2. QED BY <1>1, Invariance, PTL

\* An agent only ever acts as the node it registered itself.
THEOREM IdentityIsOwn == Spec => []OwnIdentity
<1>1. IInv => OwnIdentity BY DEF IInv
<1>2. QED BY <1>1, Invariance, PTL

\* A join token, once consumed, stays with the node that consumed it: only
\* the holder of the row lock writes a token, and it found it unused.
THEOREM SingleUse == Spec => TokenSingleUse
<1> DEFINE Kept == \A t \in Tokens :
                      tokenUse[t] \in Starts /\ Committed(tokenUse[t]) =>
                         tokenUse'[t] = tokenUse[t]
<1>1. IInv /\ [Next]_vars => [Kept]_vars
    <2> SUFFICES ASSUME IInv, Next,
                        NEW t \in Tokens, tokenUse[t] \in Starts,
                        txPc[tokenUse[t]] = "committed"
                 PROVE  tokenUse'[t] = tokenUse[t]
        BY DEF Committed
    <2> USE NullAssumption DEF IInv, TypeOK
    <2>1. CASE tokenUse' = tokenUse
        BY <2>1
    <2>2. ASSUME NEW u \in Tokens, CreateJoinToken(u)
          PROVE  tokenUse'[t] = tokenUse[t]
        BY <2>2 DEF CreateJoinToken
    <2>3. ASSUME NEW s \in Starts, NEW r, txPc[s] # "committed", Rollback(s, r)
          PROVE  tokenUse'[t] = tokenUse[t]
        BY <2>3 DEF Rollback
    <2>4. ASSUME NEW s \in Starts, UpdateToken(s)
          PROVE  tokenUse'[t] = tokenUse[t]
        BY <2>4 DEF UpdateToken, UseInv
    <2>5. ASSUME NEW s \in Starts, RegisterTx(s) \/ AbortTx(s)
          PROVE  tokenUse'[t] = tokenUse[t]
        BY <2>1, <2>3, <2>4, <2>5
           DEF RegisterTx, SelectToken, InsertNode, CommitTx, AbortTx, InProgress
    <2>6. ASSUME NEW a \in Agents, NEW s \in Starts, NEW u \in Tokens \cup {NoToken},
                 Start(a, s, u) \/ SendRegister(a) \/ LocalStep(a)
          PROVE  tokenUse' = tokenUse
        BY <2>6 DEF Start, SendRegister, LocalStep, LoadFound, LoadFails,
                    ReceiveReply, LoseReply, SaveTruncate, SaveWrite, SaveFails,
                    Exit, DeleteCredential, dbVars
    <2>7. QED
        BY <2>1, <2>2, <2>5, <2>6 DEF Next, EnsureRegistered, LocalStep
<1>2. QED BY <1>1, Invariance, PTL DEF Spec, TokenSingleUse
-----------------------------------------------------------------------------
(* The transactions implement the atomic registry                          *)

\* A step that commits nothing and creates no token is invisible.
LEMMA Invisible ==
    ASSUME IInv, IInv',
           \A s \in Starts : Committed(s)' <=> Committed(s),
           \A s \in Starts : Committed(s) => nodes'[s] = nodes[s],
           \A t \in Tokens : \/ tokenUse'[t] = tokenUse[t]
                             \/ tokenUse[t] = "unused" /\ tokenUse'[t] \in Starts
                                /\ ~Committed(tokenUse'[t])
                             \/ tokenUse'[t] = "unused" /\ tokenUse[t] \in Starts
                                /\ ~Committed(tokenUse[t])
    PROVE  absToken' = absToken /\ absNode' = absNode
<1> USE NullAssumption DEF IInv, TypeOK, Committed
<1>1. absNode' = absNode BY DEF absNode
<1>2. \A t \in Tokens : absToken'[t] = absToken[t]
    BY DEF absToken
<1>3. QED BY <1>1, <1>2 DEF absToken

\* The commit is the step at which JoinRegistry's RegisterNode happens.
LEMMA CommitRegisters ==
    ASSUME IInv, NEW s \in Starts, CommitTx(s)
    PROVE  Registry!RegisterNode(txToken[s], s, nodes[s])
<1> USE NullAssumption DEF IInv, TypeOK, Committed, CommitTx
<1>1. /\ txToken[s] \in Tokens
      /\ tokenUse[txToken[s]] = s
      /\ nodes[s] \in Names
      /\ \A t \in Tokens : tokenUse[t] = s => t = txToken[s]
    BY DEF UseInv, NodeInv
<1>2. absToken[txToken[s]] = "unused" BY <1>1 DEF absToken
<1>3. absNode[s] = NoRow BY DEF absNode
<1>4. \A o \in Starts : absNode[o] # nodes[s]
    BY <1>1 DEF absNode, UniqueNodeNames
<1>5. absToken' = [absToken EXCEPT ![txToken[s]] = s]
    BY <1>1 DEF absToken
<1>6. absNode' = [absNode EXCEPT ![s] = nodes[s]]
    BY DEF absNode
<1>7. QED
    BY <1>2, <1>3, <1>4, <1>5, <1>6 DEF Registry!RegisterNode, absToken, absNode

\* Every step of Registration is a step of JoinRegistry or leaves it alone.
LEMMA StepRefines ==
    ASSUME IInv, IInv', [Next]_vars
    PROVE  [Registry!Next]_(Registry!vars)
<1> DEFINE Stutter == absToken' = absToken /\ absNode' = absNode
<1> USE NullAssumption DEF IInv, TypeOK
<1>1. Stutter => UNCHANGED Registry!vars
    BY DEF Registry!vars, absToken, absNode
<1>2. ASSUME tokenUse' = tokenUse, nodes' = nodes,
             \A s \in Starts : Committed(s)' <=> Committed(s)
      PROVE  Stutter
    BY <1>2, Invisible
<1>3. CASE UNCHANGED vars
    BY <1>1, <1>2, <1>3 DEF vars, dbVars, Committed
<1>4. ASSUME NEW t \in Tokens, CreateJoinToken(t) PROVE Registry!CreateJoinToken(t)
    <2>1. absNode' = absNode /\ absToken[t] = "absent"
        BY <1>4 DEF CreateJoinToken, absNode, absToken, Committed
    <2>2. absToken' = [absToken EXCEPT ![t] = "unused"]
        BY <1>4 DEF CreateJoinToken, absToken, Committed
    <2>3. QED BY <2>1, <2>2 DEF Registry!CreateJoinToken, absNode, absToken
<1>5. ASSUME NEW s \in Starts, NEW r, txPc[s] # "committed", Rollback(s, r)
      PROVE  Stutter
    BY <1>5, Invisible DEF Rollback, Committed
<1>6. ASSUME NEW s \in Starts, UpdateToken(s) PROVE Stutter
    BY <1>6, Invisible DEF UpdateToken, Committed, UseInv
<1>7. ASSUME NEW s \in Starts, InsertNode(s) PROVE Stutter
    BY <1>5, <1>7, Invisible DEF InsertNode, Committed
<1>8. ASSUME NEW s \in Starts, SelectToken(s) \/ AbortTx(s) PROVE Stutter
    BY <1>2, <1>5, <1>8 DEF SelectToken, AbortTx, InProgress, Committed
<1>9. ASSUME NEW s \in Starts, CommitTx(s)
      PROVE  \E t \in Tokens, n \in Starts, name \in Names :
                Registry!RegisterNode(t, n, name)
    <2>1. txToken[s] \in Tokens /\ nodes[s] \in Names
        BY <1>9 DEF CommitTx, UseInv, NodeInv
    <2>2. Registry!RegisterNode(txToken[s], s, nodes[s])
        BY <1>9, CommitRegisters
    <2>3. QED BY <2>1, <2>2 DEF Registry!RegisterNode
<1>10. ASSUME NEW a \in Agents, NEW s \in Starts, NEW t \in Tokens \cup {NoToken},
              Start(a, s, t)
       PROVE  Stutter
    BY <1>2, <1>10 DEF Start, Committed
<1>11. ASSUME NEW a \in Agents, SendRegister(a) PROVE Stutter
    BY <1>2, <1>11 DEF SendRegister, AgentInv, Committed
<1>12. ASSUME NEW a \in Agents, LocalStep(a) PROVE Stutter
    BY <1>2, <1>12 DEF LocalStep, LoadFound, LoadFails, ReceiveReply, LoseReply,
        SaveTruncate, SaveWrite, SaveFails, Exit, DeleteCredential, dbVars, Committed
<1>13. QED
    <2> USE DEF Next, RegisterTx, EnsureRegistered, LocalStep, Registry!Next
    <2>1. CASE \E t \in Tokens : CreateJoinToken(t)
        BY <2>1, <1>4
    <2>2. CASE \E s \in Starts : CommitTx(s)
        BY <2>2, <1>9
    <2>3. CASE \E s \in Starts :
                  \/ SelectToken(s) \/ InsertNode(s) \/ UpdateToken(s) \/ AbortTx(s)
        BY <2>3, <1>1, <1>6, <1>7, <1>8
    <2>4. CASE \E a \in Agents, s \in Starts, t \in Tokens \cup {NoToken} : Start(a, s, t)
        BY <2>4, <1>1, <1>10
    <2>5. CASE \E a \in Agents : SendRegister(a) \/ LocalStep(a)
        BY <2>5, <1>1, <1>11, <1>12
    <2>6. QED BY <1>1, <1>3, <2>1, <2>2, <2>3, <2>4, <2>5

\* RegisterNode is atomic: the statement-level specification implements
\* JoinRegistry for every number of agents, tokens, names and requests.
THEOREM Refinement == Spec => RegistersAtomically
<1>1. Init => Registry!Init
    BY NullAssumption DEF Init, Registry!Init, Committed, absToken, absNode
<1>2. IInv /\ IInv' /\ [Next]_vars => [Registry!Next]_(Registry!vars)
    BY StepRefines
<1>3. QED
    BY <1>1, <1>2, Invariance, PTL DEF Spec, RegistersAtomically, Registry!Spec
=============================================================================
