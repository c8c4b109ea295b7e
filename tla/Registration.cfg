SPECIFICATION Spec
CONSTANTS
    a3 = a3
    n1 = n1
    n2 = n2
    Agents = {a1, a2, a3}
    Tokens = {t1, t2}
    Names = {n1, n2}
    Starts = {s1, s2}
    NodeName <- MCNodeName
    NoRow = NoRow
    NoToken = NoToken
    Nobody = Nobody
    Faults = TRUE
    OperatorDeletes = TRUE
CHECK_DEADLOCK FALSE
INVARIANTS TypeOK TokenNodeAtomic UniqueNodeNames OwnIdentity
PROPERTIES TokenSingleUse RegistersAtomically StartSettles
