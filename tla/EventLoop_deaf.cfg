SPECIFICATION Spec
CONSTANTS
    MaxBuffer = 3
    OutFill = 3
    Unblock = 2
    LastSock = 1
    Sizes = {1}
INVARIANTS InputUnblocked
CHECK_DEADLOCK FALSE
