SPECIFICATION Spec
CONSTANTS
    Reqs = {r1}
    Names = {w1}
    Nodes = {n1, n2}
    Hosts = {0, 1, 2}
    Protos = {"", "tcp"}
    PortLists <- OnePort
    States = {"running", "stopped"}
    Beats = {1, 2}
    Readers = {}
    AnyNode = AnyNode
    NoName = NoName
    NoNode = NoNode
    Faults = TRUE
CHECK_DEADLOCK FALSE
SYMMETRY Symmetry
INVARIANTS TypeOK StatusIsLatest DesiredComplete
PROPERTIES StatusFromOwnNode ImplementsStore
