SPECIFICATION Spec
CONSTANTS
    Interval = 2
    MaxRound = 3
    MaxLost = 1
    MaxQuery = 1
    Skew = 1
    Timeout = 11
    Polls = {p1, p2}
INVARIANTS DashboardTypeOK
PROPERTIES OfflineIsDeserved ResourcesCatchUp DeadShownOffline SteadyShownOnline
