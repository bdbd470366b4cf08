CONSTANTS
    a = a
    b = b
    g1 = g1
    g2 = g2
    g3 = g3
    s1 = s1
    s2 = s2
    RUsers <- TwoUsers
    RSlots <- TwoSlots
    outgoing_friend_requests = 1
    GUsers <- ThreeUsers
    GSlots <- TwoSlots
    group_size = 2
    u1 = u1
    u2 = u2
    AUsers = {u1, u2}
    Usernames = {"ann", "Ann", "bob"}
    Lower <- MCLower
    Discriminators = {1, 2}
    FirstNames <- MCFirstNames
    ARequests <- ThreeUsers
    ChangeData <- MCChangeData
    ERequests <- ThreeUsers
    Bitrates = {32, 96}
SPECIFICATION SocialSpec
SYMMETRY Symmetry
INVARIANTS
    SettledPairsAgree
    GroupWellFormed
    
    EditsShown
CHECK_DEADLOCK FALSE
