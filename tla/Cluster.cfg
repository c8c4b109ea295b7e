SPECIFICATION Spec
CONSTANTS
    a1 = a1
    b1 = b1
    bad = bad
    a2 = a2
    wrong = wrong
    a = a
    b = b
    n1 = n1
    n2 = n2
    Reqs = {a1, b1, bad, a2, wrong}
    Names = {a, b}
    Nodes = {n1, n2}
    Asked <- Requested
    Bad = {bad}
    Local = Local
    LocalPorts <- SamePort
    None = None
    MaxRequests = 1
    MaxFaults = 2
INVARIANTS ClusterTypeOK RunsAsDeployed HostPortsDisjoint
PROPERTIES ReconcilerSparesRunning DeployedRuns StatusTrue
