SPECIFICATION FairSpec
CONSTANTS
    MaxIov = 2
    Lengths = {1, 2, 3}
    MaxSends = 2
    MaxSockets = 2
    MaxArrivals = 2
    MaxNested = 2
    OutCap = 1
    EofOutlives = TRUE
INVARIANTS
    ClosedPerOpening SendsAccounted
PROPERTIES
    WholeDatagrams LoneArrivalReceived
CHECK_DEADLOCK FALSE
