SPECIFICATION FairSpec
CONSTANTS
    MaxBuffer = 3
    OutFill = 3
    Unblock = 2
    LastSock = 2
    Sizes = {1}
INVARIANTS TypeOK ClosedReported NothingLost
PROPERTIES KeepsLife OutputEnds
CHECK_DEADLOCK FALSE
