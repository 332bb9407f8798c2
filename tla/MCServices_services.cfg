SPECIFICATION ServicesSpec
CONSTANTS
    Works = {"w1", "w2", "w3"}
    NoWork = NoWork
    u1 = u1
    u2 = u2
    b1 = b1
    a1 = a1
    Guests = {u1, u2}
    Addresses = {a1}
    AddressOf <- FromOne
    ClassIn <- Classes
    MaxGuests = 1
    Burst = 2
    Fast = 1
    Slow = 2
    Forget = 2
    SyncEvery = 1
    MailLife = 1
    MaxClock = 3
    MaxMail = 3
    RosterUsers = {u1, u2, b1}
    Bots = {b1}
    OldClients = {u2}
    Kinds = {"nick", "info"}
    NickHash <- Hashes
    InitialCapacity = 3
    MaxInfo = 2
    Plugins = {"lua", "python"}
    Lua = "lua"
    Files <- ScriptFiles
    PlainNicks = {"b1"}
    ReservedNicks2 = {"h"}
    Limit = 2
    MaxCalls = 1
    MaxDepth = 2
    Delays = {0, 1, 2}
    MaxOrders = 2
    Minute = 2
    Storm = 1
    Referers = {"r1", "r2"}
    MaxTotal = 3
    Targets = {4}
    Askers = {"o1", "o2"}
    MaxSessions = 2
INVARIANTS ServicesTypeOK NoWildUse CollectionsExact RobotsHeld UpkeepRight GuestsServed
PROPERTIES IsOneSlot WorkEnds
CHECK_DEADLOCK FALSE
