SPECIFICATION FairSpec
CONSTANTS
    Servers = {s}
    Clients = {c}
    Channels = {ch1, ch2}
    Datagrams = {d}
    MaxCaught = 2
INVARIANTS
    HInv DeletedOnce NoOrphan
PROPERTIES
    DestructionEnds
CHECK_DEADLOCK FALSE
