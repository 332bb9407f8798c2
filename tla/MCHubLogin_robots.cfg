SPECIFICATION Spec
CONSTANTS
    c1 = c1
    c2 = c2
    c3 = c3
    n1 = n1
    n2 = n2
    a1 = a1
    a2 = a2
    NoOne = NoOne
    Robot = Robot
    NoUser = NoUser
    Conns = {c1, c2}
    Nicks = {n1, n2}
    Addresses = {a1}
    Zones = {0}
    Shares = {0, 1}
    Accounts <- HiddenShares
    RobotNicks = {n1}
    ReservedNicks = {n1}
    Operator = 3
    MaxUsers = 2
    MaxZoneUsers = 2
    MaxExtra = 0
    MaxPassive = 1
    AllowSameUser = TRUE
    MaxClassSameUser = 0
    BotInfo = {FALSE}
    Vetoes = {"ValidateNick", "InList", "Login"}
    AdminOps = {"del", "hide_share"}
CONSTRAINT UsualOrder
INVARIANTS TypeOK RobotsListed TotalShareExact
SYMMETRY SymmetryOfConns
CHECK_DEADLOCK FALSE
