CONSTANTS
    a = a
    u1 = u1
    u2 = u2
    UUsers = {u1}
    UWorkers = {a}
    Process = Process
    MaxSent = 2
    QueueCapacity = 1
    Kinds <- MCKinds
    MaxRare = 1
    Expire = 1
    process_message_delay_limit = 3
    r1 = r1
    Subscribers = {u1, u2}
    Place <- MCPlace
    Tiers = {"Pro", "starter"}
    NexusOnly = {"starter"}
    Refreshers = {r1}
    BATCH_SIZE = 1
    refresh_interval = 2
    MaxChanges = 1
    MaxFailures = 1
    t1 = t1
    t2 = t2
    t3 = t3
    Nobody = Nobody
    Callers = {t1, t2, t3}
    Ids <- MCIds
    GifQueries <- MCGifQueries
    max_concurrent = 1
SPECIFICATION TasksSpec
PROPERTIES
    TasksCommitted
    MirrorIsReplica
    MirrorSettles
    CallersServed
CHECK_DEADLOCK FALSE
