CONSTANTS
    o = o
    a = a
    q1 = q1
    q2 = q2
    Users <- MCUsers
    Owner = o
    Requests = {q1, q2}
    max_members = 2
    MaxTime = 3
    FileIds = {f1, f2}
    c1 = c1
    c2 = c2
    Contents = {c1, c2}
    Processed <- MCProcessed
    Parents = {p1}
    UseSlots = {s1}
    MaxRestarts = 1
    NoContent = NoContent
    NoParent = NoParent
    NoFile = NoFile
    NoNonce = NoNonce
    Empty = Empty
SPECIFICATION CrondSpec
INVARIANTS
    FilesReadable
PROPERTIES
    BanKeepsOut
    DeletedIsRemoved
CHECK_DEADLOCK FALSE
