SPECIFICATION NativeFairSpec
CONSTANTS
    Client = {c1}
    Native = c1
    Streams = 3
    MaxFaults = 2
INVARIANTS
    ClientsCounted
    Negotiated
PROPERTIES
    LeavesNoTrace
CHECK_DEADLOCK FALSE
