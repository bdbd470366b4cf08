CONSTANTS
    p = p
    u1 = u1
    u2 = u2
    s1 = s1
    s2 = s2
    s3 = s3
    a = a
    b = b
    g = g
    Slots <- ThreeSlots
    MaxCrashes = 2
    MaxRefusals = 1
    Callers <- TwoCallers
    Bots <- OneBot
    Channels <- ThreeChannels
    Server = theserver
    InServer <- TwoChannels
    Public <- TwoChannels
    UsesLiveKit <- OneChannel
    Managers = {}
    MaxUsers = 2
    MaxViewers = 0
    Requests <- TwoRequests
    Idle = idle
    NoKey = nokey
    MaxMoves = 3
    People <- TwoCallers
    Handlers <- TwoRequests
    Ids = {i1, i2}
    NoSession = nosession
    Ready = ready
    Users <- OneUser
    c1 = c1
    c2 = c2
    Me = me
    Other = other
    ServerId = serverid
    GroupId = groupid
    TextChannels = {c1, c2}
    Private = private
    Watchable = {serverid}
    Nil = nil
    InitialStates <- Beginnings
    seen_capacity = 1
    watch_capacity = 1
    queue_capacity = 3
    MaxChanges = 2
    MaxOutstanding = 2
SPECIFICATION ConnectionsSpec
SYMMETRY CallSymmetry
INVARIANTS
    StaleSessionsListed
    OneCallAtATime
    
    
CHECK_DEADLOCK FALSE
