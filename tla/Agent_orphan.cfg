SPECIFICATION ConnectedSpec
CONSTANTS
    Rec = Rec
    Callers = {Rec}
    Calls = {"run", "stop", "list"}
    Faults = {"crash"}
    Serial = FALSE
    Requests = {}
    MaxRequests = 0
    MaxCrashes = 1
    MaxOutages = 1
PROPERTIES Converges
