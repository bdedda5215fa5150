CONSTANTS
    Clients = {"ada", "ada2", "bob"}
    UserOf <- MCUserOf
    MaxSockets = 2
    Scopes <- MCScopes
SPECIFICATION Spec
INVARIANTS RosterTrue PairsSound
CHECK_DEADLOCK FALSE
