SPECIFICATION FairSpec
CONSTANTS
    Ids = {1}
    Attrs = {"up", "down"}
    Addrs = {a}
    Absent = Absent
    Routes4 = {r}
    Routes6 = {q}
    MaxEvents = 3
    QueueCap = 2
INVARIANTS
    LinksConverge RoutesConverge SignalsSuffice NInv
PROPERTIES EnumerationCompletes
CHECK_DEADLOCK FALSE
