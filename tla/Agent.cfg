SPECIFICATION ConnectedSpec
CONSTANTS
    Rec = Rec
    Callers = {Rec, h1}
    Calls = {"run", "stop", "list"}
    Faults = {"crash", "cancel", "undo"}
    Serial = FALSE
    Requests = {"create", "stop", "restart"}
    MaxRequests = 1
    MaxCrashes = 1
    MaxOutages = 1
INVARIANTS AgentTypeOK
PROPERTIES ConvergesUnlessOrphaned StatusCatchesUp
