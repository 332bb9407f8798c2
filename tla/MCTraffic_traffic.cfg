SPECIFICATION TrafficSpec
CONSTANTS
    u1 = u1
    u2 = u2
    Members = {u1, u2}
    Who <- GuestAndUser
    Texts = {"x", "y"}
    Mixes <- OneType
    Period <- OneSecond
    Limit <- Limits
    Action <- Actions
    AllPeriod <- OneSecond
    AllLimit <- LimitsForAll
    MaxFloodClass = 2
    SearchPause = 2
    SearchNumber = 1
    MaxSame = 0
    MaxResults = 1
    FilterLan = TRUE
    ClassDif = 2
    MainChatClass = 0
    PrivateClass = 0
    UseHubClass = 0
    UseHubPassive = 1
    ChatOnlyBypass = 3
    Judged = {u2}
    LastSecond = 2
    ScriptsOf <- TwoScriptsEach
    Relays = {"PM", "Search"}
    Effects = {"NewBan", "SetConfig"}
    Clients = {u1, u2}
    Ranks = {1, 3}
    Master = 10
    OpRank = 3
    RoomRank = 3
    KickDif = 1
    ShareOf <- Shares
    PassiveOnes = {u2}
    Places = {"p1", "p2"}
    ZoneAt <- ZonesByPlace
    ByCountry = FALSE
    ChatDefault = FALSE
    Ranges <- ClassRanges
    MayFail = TRUE
    bot = bot
    caller = caller
    BodyLength <- Bodies
    Replacements <- Wordings
    Nicks = {u1, u2, bot}
    Bots = {bot}
    GradeOf <- Grades
    ShieldOf <- Unshielded
    SameHost = {u1, u2}
    MoveGrade = 3
    IpGrade = 3
    TopicGrade = 3
    KickGap = 1
    Topics = {"", "x"}
    TooLong = {"UserIP"}
    Callers = {caller}
    Addresses = {"proxy", "home"}
    ProxyAddress = "proxy"
    Versions = {10, 13}
    MinVersion = 12
    Detects = TRUE
    MaxLines = 2
INVARIANTS TrafficTypeOK RelayRight ToldRight ChangesReachLists MessagesRight
PROPERTIES LockHolds VerdictStands
CHECK_DEADLOCK FALSE
