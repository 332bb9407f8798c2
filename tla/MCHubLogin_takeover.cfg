SPECIFICATION Spec
CONSTANTS
    c1 = c1
    c2 = c2
    c3 = c3
    n1 = n1
    n2 = n2
    a1 = a1
    a2 = a2
    NoOne = NoOne
    Robot = Robot
    NoUser = NoUser
    Conns = {c1, c2}
    Nicks = {n1}
    Addresses = {a1, a2}
    Zones = {0}
    Shares = {0}
    Accounts <- WithPasswords
    RobotNicks = {}
    ReservedNicks = {}
    Operator = 3
    MaxUsers = 2
    MaxZoneUsers = 2
    MaxExtra = 0
    MaxPassive <- NoLimit
    AllowSameUser = TRUE
    MaxClassSameUser = 1
    BotInfo = {FALSE}
    Vetoes = {"InList", "Login"}
    AdminOps = {"class", "tempclass"}
CONSTRAINT UsualOrder
INVARIANTS ListsExact
PROPERTIES ListingsPass KeepsDirectory
SYMMETRY Symmetry
CHECK_DEADLOCK FALSE
