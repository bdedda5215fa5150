CONSTANTS
    c1 = c1
    c2 = c2
    vA = vA
    vB = vB
    NoTimeline = NoTimeline
    Unfenced = Unfenced
    NoCmd = NoCmd
    NotIssued = NotIssued
    Cmds <- MCCmds
    Videos <- MCVideos
    Positions <- MCPositions
    Controls <- MCControls
    Audits = {FALSE, TRUE}
    AuditSeq = 2
    SweepPeriod = 2
    DedupTtl = 1
    RetryWindow = 1
    KeyTtl = 1
    LogMax = 2
    MaxSeq = 3
    MaxTime = 3
SPECIFICATION AuditSpec
INVARIANTS AuditIInv AtMostOnce ReplayReconstructs StoresAgree NoFalseAlarm
PROPERTIES VersionsAdvance
SYMMETRY Symmetry
CHECK_DEADLOCK FALSE
