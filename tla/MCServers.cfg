CONSTANTS
  o = o
  pr = pr
  a = a
  b = b
  r1 = r1
  r2 = r2
  r3 = r3
  r4 = r4
  c1 = c1
  Keep = Keep
  Clear = Clear
  Users = {o, pr, a, b}
  Owner = o
  Privileged = {pr}
  Roles = {r1, r2, r3, r4}
  Channels = {c1}
  Requests = {q1, q2}
  Permission <- MCPermission
  Overrides <- MCOverrides
  DefaultValues <- MCDefaultValues
  DataMemberEdit <- MCDataMemberEdit
  Ties <- MCTies
  InitialServers <- MCInitialServers
  server_roles = 2
  ChannelIds = {x1, x2}
  CRequests = {q1, q2}
  server_channels = 1
  MaxDocuments = 1
  NoServer = NoServer
  NoChannel = NoChannel
  BotIds = {x1, x2}
  BotServers = {s1, s2}
  BotRequests = {q1, q2}
  bot_limit = 2
  NoSite = NoSite
  CommandIds = {s1, s2}
  Handlers = {x1, x2}
  CommandNames = {n}
  Calls = {q1, q2}
  max_commands = 1
  MaxInteractions = 2
  MaxMoves = 1
  NoCommand = NoCommand
SYMMETRY ServersSymmetry
SPECIFICATION ServersSpec
INVARIANTS
    
    ChannelsAccounted
    
    RepliedOnce
PROPERTIES
    GrantsAreHeld
    HierarchyKept
CHECK_DEADLOCK FALSE
