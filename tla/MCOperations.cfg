CONSTANTS
    Conns = {a, b}
    Upgrades = {a, b}
    PeerIds = {p1, p2, p3}
    Hashes = {h1}
    MAX_PEERS = 2
    NoPeer = NoPeer
    NoEntry = NoEntry
    Tokens = {t1, t2}
    MAX_SESSIONS = 1
    SESSION_TTL_SECS = 1
    HMAC_SKEW = 0
    MaxTime = 2
    NoToken = NoToken
    Uuids = {t1, t2}
    MaxClaims = 1
    TOKEN_TTL_SECONDS = 1
    EMAIL_MFA_CODE_TTL = 1
    EMAIL_MFA_MAX_ATTEMPTS = 2
    EMAIL_MFA_RATE_LIMIT = 1
    EMAIL_MFA_RATE_WINDOW = 2
    Workers = {a, b}
    MaxSignerTime = 2
    MaxCodes = 3
    MaxRestartsOfSigner = 1
    NoRow = NoRow
    Revisions = {0, 13, 26, 48}
    Instances = {a, b}
    MaxStarts = 2
    NoRevision = NoRevision
    BeaconIds = {h1}
    LRequests = {p1, p2, p3}
    MaxDownloads = 2
    NoBeacon = NoBeacon
    Contents = {"message", "user"}
    Evidence = {1}
    FilesOf <- MCFilesOf
    ReportIds = {t1, t2}
    Moderators = {a, b}
    NoReport = NoReport
SPECIFICATION OperationsSpec
SYMMETRY Symmetry
INVARIANTS
    EntryLostOnlyToSameId
    CodeWinsOnce
    ChoicesKept
    LedgerKept
    
CHECK_DEADLOCK FALSE
