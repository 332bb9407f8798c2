SPECIFICATION FairSpec
CONSTANTS
    c1 = c1
    c2 = c2
    c3 = c3
    n1 = n1
    n2 = n2
    a1 = a1
    a2 = a2
    NoOne = NoOne
    Robot = Robot
    NoUser = NoUser
    Conns = {c1, c2}
    Nicks = {n1}
    Addresses = {a1}
    Zones = {0}
    Shares = {0}
    Accounts <- OneAccount
    RobotNicks = {}
    ReservedNicks = {}
    Operator = 3
    MaxUsers = 2
    MaxZoneUsers = 2
    MaxExtra = 0
    MaxPassive <- NoLimit
    AllowSameUser = TRUE
    MaxClassSameUser = 0
    BotInfo = {FALSE}
    Vetoes = {"MyINFO"}
    AdminOps = {}
PROPERTIES LoginsEnd
CHECK_DEADLOCK FALSE
