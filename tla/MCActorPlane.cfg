CONSTANTS
    i1 = i1
    i2 = i2
    c1 = c1
    c2 = c2
    vA = vA
    vB = vB
    NoTimeline = NoTimeline
    Unfenced = Unfenced
    NoLease = NoLease
    NotOwner = NotOwner
    NoCmd = NoCmd
    Sweep = Sweep
    Join = Join
    Instances <- MCInstances
    Cmds <- MCCmds
    CmdOf <- PlayAndSwitch
    Videos <- MCVideos
    RowVideo = vA
    MaxEpochs = 3
    Scopes <- MCScopes
SPECIFICATION Spec
INVARIANTS UpdatesKept
PROPERTIES CommitsAdvance
CHECK_DEADLOCK FALSE
