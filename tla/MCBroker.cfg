CONSTANTS
    p1 = p1 p2 = p2 p3 = p3
    d1 = d1 d2 = d2
    q1 = q1
    global = global pair = pair
    Pushes = {p1, p2, p3}
    Drains = {d1, d2}
    Queues = {q1}
    Counters = {global, pair}
    TargetOf <- MCTarget
    CountersOf <- MCCountersOf
    Limit <- MCLimit
    MaxDepth = 1
    MaxConcurrent = 2
    Sessions = {d1, d2}
    Messages = {m1}
    MAX_DEVICES_PER_USER = 1
    HEARTBEAT_TIMEOUT_SECONDS = 0
    DEVICE_TTL_SECONDS = 1
    MaxNow = 2
    MaxForgets = 1
    Purges = {d1, d2}
    MaxId = 2
    MaxFailures = 1
    Sources = {d1, d2}
    Drainers = {d1, d2}
    SYNC_MAX_ENVELOPES_PER_QUEUE = 2
    SYNC_RATE_LIMIT_PER_HOUR = 2
    MaxEnvelopes = 4
    MaxExpiries = 1
    MaxDrains = 2
    DmUsers = {u, v}
    DmBots = {v}
    DmStatuses = {"Friend", "Blocked"}
    DmRequests = {d1, d2}
    DmWorkers = {w1, w2}
    MaxDms = 2
    MaxMessages = 2
    MaxChanges = 1
    DmCapacity = 1
SPECIFICATION BrokerSpec
SYMMETRY Symmetry
INVARIANTS
    RateRespected
    SilentDevicesReached
    OnlyStaleDropped
    
    
    LastMessageSettles
CHECK_DEADLOCK FALSE
