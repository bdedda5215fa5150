CONSTANTS
    u1 = u1
    u2 = u2
    i1 = i1
    i2 = i2
    c1 = c1
    c2 = c2
    vA = vA
    vB = vB
    NoTimeline = NoTimeline
    Unfenced = Unfenced
    Nowhere = Nowhere
    Sweep = Sweep
    Join = Join
    Clients <- MCClients
    Instances <- MCInstances
    Cmds <- MCCmds
    Videos <- MCVideos
    CmdOf <- PlayAndSwitch
    MaxRetries = 1
    RowVideos <- MCOneVideo
    BusyWindows = 1
    Scopes <- MCScopes
SPECIFICATION FairSpec
INVARIANTS RoomSound
PROPERTIES ImplementsRoomView PlayingConverges
CHECK_DEADLOCK FALSE
