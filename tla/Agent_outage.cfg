SPECIFICATION AgentSpec
CONSTANTS
    Rec = Rec
    Callers = {Rec}
    Calls = {"run", "stop", "list"}
    Faults = {}
    Serial = FALSE
    Requests = {}
    MaxRequests = 0
    MaxCrashes = 0
    MaxOutages = 1
PROPERTIES KeepsReconciling
