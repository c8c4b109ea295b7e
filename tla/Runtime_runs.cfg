SPECIFICATION Spec
CONSTANTS
    Callers = {c1, c2, c3}
    Calls = {"run", "list"}
    Faults = {"step", "undo", "cancel", "crash"}
    Serial = FALSE
INVARIANTS TypeOK RunningReachable NoHiddenProcess
PROPERTIES RunLeavesRunningAlone
SYMMETRY Symmetry
