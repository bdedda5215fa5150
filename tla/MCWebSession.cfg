CONSTANTS
    Tabs = {"t1", "t2"}
    People = {"ada", "bob"}
    NoUser = NoUser
    MaxTokens = 4
    MaxOut = 2
    Scopes <- MCScopes
    FleetScopes <- MCFleetScopes
    SimTime = 6
    SimCommands = 4
SPECIFICATION MCSpec
INVARIANTS WebSound HarnessSound
PROPERTIES SessionStands
CHECK_DEADLOCK FALSE
