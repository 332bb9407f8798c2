SPECIFICATION ModerationSpec
CONSTANTS
    Folk = {n1, n2}
    Ranks = {1, 3, 4, 10}
    Shields = {3}
    classdif_reg = 1
    classdif_kick = 0
    autoreg_class = 1
    autounreg_class = 1
    topic_mod_class = 4
    mainchat_class = 0
    disable_usr_cmds = FALSE
    disable_me_cmd = FALSE
    disable_regme_cmd = FALSE
    disable_report_cmd = FALSE
    unknown_cmd_chat = TRUE
    Bits = 3
    SourceOf <- Asking
    n1 = n1
    n2 = n2
    a1 = a1
    PenNicks = {n1}
    Restrictions = {"chat", "ctm"}
    Privileges = {"opchat"}
    UseFields = {"ctm"}
    Pingers = {}
    Periods = {1, 3}
    LastTime = 4
    MaySwitchCache = TRUE
    Visitors = {n1, n2}
    Addrs = {a1}
    AddrOf <- SameAddress
    Registered = {n2}
    Bypass = {}
    InRange = {a1}
    InHost = {a1}
    HasPrefix = {n1}
    AboveReg = {n2}
    ShareBytes <- SameShare
    BanBytes = 1
    BanKinds = {"nickip", "share"}
    Lengths = {0, 1}
    TempLengths = {1}
    IntLogin = 1
    KeepRows = 1
    MaxRows = 1
    MaxTemp = 1
    EndOfTime = 3
    Items <- Variables
    Foreign = {"pi.setting"}
    Offered <- Tried
    DefaultOf <- Defaults
    Nicks2 = {"Verlihub", "OpChat"}
    Clean <- Cleaned
    Width = 2
    Absent = Absent
    Keys = {"default", "k"}
    Values = {"v", "any"}
    AnyOne = "any"
    Reasons = {"kick", "full", "move"}
    NoRedir = {"move"}
    FlagsOf <- Flags
    Terms <- TermsOffered
    TurnedAway <- UsersRefused
    OldKeys = {"k"}
    NewKey = "moved"
    Lows = {0, 1}
    Periods2 = {0, 1}
    Tags <- TagsSent
    MaxMatches = 1
    Sessions = {"s1"}
    MaxDeleted = 2
    IPs = {0, 1, 2, 3}
    Countries = {"A"}
    MaxIsps = 3
    MaxMade = 3
    Words = {"x", "y", "("}
    BadWords = {"("}
    MaxWords = 2
    Levels = {1, 3}
    Libs = {"lua", "py"}
    Hosted = {"bot", "zed"}
    HostOf <- Dests
    NickOrder <- PlugOrder
PROPERTIES PermanentAsTold
CHECK_DEADLOCK FALSE
