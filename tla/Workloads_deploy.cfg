SPECIFICATION Spec
CONSTANTS
    Reqs = {r1, r2}
    Names = {w1, w2}
    Nodes = {n1}
    Hosts = {0, 1, 2}
    Protos = {"", "tcp"}
    PortLists <- CrossedPorts
    States = {"running"}
    Beats = {}
    Readers = {l1}
    AnyNode = AnyNode
    NoName = NoName
    NoNode = NoNode
    Faults = TRUE
CHECK_DEADLOCK FALSE
INVARIANTS UniqueWorkloadNames PortsExclusive ReplyIsTrue ListingComplete
PROPERTIES CreateSettles ImplementsStore
