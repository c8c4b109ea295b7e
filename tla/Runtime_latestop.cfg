SPECIFICATION Spec
CONSTANTS
    Callers = {c1, c2}
    Calls = {"run", "stop"}
    Faults = {}
    Serial = FALSE
INVARIANTS RunningReachable
