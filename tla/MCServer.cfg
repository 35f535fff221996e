SPECIFICATION Spec
CONSTANTS
    Servers = {s1, s2}
    Paths = {"p"}
    Numbers = {n1, n2}
    MaxSockets = 3
    MaxConns = 2
SYMMETRY Symmetry
INVARIANTS
    SInv NoStranded
PROPERTIES
    AcceptedKnowsEndpoint FileKept
CHECK_DEADLOCK FALSE
