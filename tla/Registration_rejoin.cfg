SPECIFICATION Spec
CONSTANTS
    a3 = a3
    n1 = n1
    n2 = n2
    Agents = {a1}
    Tokens = {t1, t2}
    Names = {n1, n2}
    Starts = {s1, s2}
    NodeName <- MCNodeName
    NoRow = NoRow
    NoToken = NoToken
    Nobody = Nobody
    Faults = FALSE
    OperatorDeletes = TRUE
CHECK_DEADLOCK FALSE
INVARIANTS FreshTokenRegisters
