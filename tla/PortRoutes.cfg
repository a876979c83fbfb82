\* Three flows of any kind on two ports.
SPECIFICATION Spec
CONSTANTS
    f1 = f1
    f2 = f2
    FirstSrcPort = 1
    LastSrcPort = 2
    Pending = Pending
    Nobody = Nobody
    f3 = f3
    Flows = {f1, f2, f3}
SYMMETRY FlowSymmetry
CHECK_DEADLOCK FALSE
INVARIANTS
    PortsOwned
    OwnToken
    NoLeak
