SPECIFICATION Spec
CONSTANTS
    c1 = c1
    c2 = c2
    c3 = c3
    n1 = n1
    n2 = n2
    a1 = a1
    a2 = a2
    NoOne = NoOne
    Robot = Robot
    NoUser = NoUser
    Conns = {c1, c2}
    Nicks = {n1}
    Addresses = {a1}
    Zones = {0, 1}
    Shares = {0}
    Accounts <- TwoAccounts
    RobotNicks = {}
    ReservedNicks = {}
    Operator = 3
    MaxUsers = 1
    MaxZoneUsers = 1
    MaxExtra = 1
    MaxPassive <- NoLimit
    AllowSameUser = TRUE
    MaxClassSameUser = 1
    BotInfo = {FALSE}
    Vetoes = {}
    AdminOps = {"new", "pass", "fake_ip"}
CONSTRAINT UsualOrder
INVARIANTS ZoneCountExact AccountFollowed UserLimitKept
SYMMETRY Symmetry
CHECK_DEADLOCK FALSE
