SPECIFICATION Spec
CONSTANTS
    Callers = {c1, c2}
    Calls = {"run", "stop", "list"}
    Faults = {"step", "cleanup"}
    Serial = TRUE
INVARIANTS NoOrphans
PROPERTIES ImplementsRuntime
