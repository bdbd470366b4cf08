CONSTANTS
    a = a b = b
    u1 = u1 u2 = u2
    r1 = r1 r9 = r9
    f1 = f1 f2 = f2
    n1 = n1 n2 = n2
    ChannelKinds = {"dm", "group", "text", "saved"}
    Recipients = {u1, u2}
    RoleIds = {r1}
    SFiles = {f1, f2}
    Nonces = {n1, n2}
    NoNonce = NoNonce
    NonceCapacity = 1
    SRequests = {a, b}
    SendInputs <- MCSendInputs
    EditInputs <- MCEditInputs
    MaxMessages = 2
    message_attachments = 2
    e1 = e1 e3 = e3
    RUsers = {a, b}
    Emojis = {e1, e3}
    CustomEmojis = {e3}
    Whitelists <- MCWhitelists
    RRequests = {a, b}
    message_reactions = 1
    server_emoji = 1
    MaxDisturbed = 1
    UUsers = {u1}
    UWorkers = {a, b}
    Process = Process
    MaxSent = 2
    QueueCapacity = 1
    Kinds <- MCKinds
    MaxRare = 1
    Expire = 1
    process_message_delay_limit = 3
    s1 = s1 s2 = s2 s3 = s3
    PUsers = {u1, u2}
    Sessions = {s1, s2}
    UserOf <- MCUserOf
    Endpoints <- MCEndpoints
    PushEvents <- MCPushEvents
    CallRecipients = {u1, u2}
    Pending <- MCPending
    Viewers = {u1}
    MaxTokens = 2
    MaxPublished = 1
    mass_mention_chunk_size = 1
    EditData <- MCEditData
    PRequests = {a, b, c}
    CHANNEL_CAPACITY = 1
    Buyers = {u1}
    DecorationIds = {a, b}
    SlotOf <- MCSlotOf
    Offers <- MCOffers
    MaxVersion = 2
    DRequests = {a, b}
    Guarded = {a, b, c}
    limit = 1
    window = 2
    MaxClock = 5
    MaxSetBack = 1
    MaxPosts = 3
    Limits = {1, 2}
SPECIFICATION RequestsSpec
SYMMETRY Symmetry
INVARIANTS
    OncePerNonce
    ShownIsStored
    PagesComplete
    MentionsKept
    NotifiedOnce
    
    PaidOnce
    LimitHolds
CHECK_DEADLOCK FALSE
