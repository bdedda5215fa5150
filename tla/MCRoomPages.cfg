CONSTANTS
    h1 = h1
    h2 = h2
    g1 = g1
    host = host
    guest = guest
    r1 = r1
    r2 = r2
    NoRoom = NoRoom
    NoCreator = NoCreator
    NoSetting = NoSetting
    Tabs <- MCTabs
    People <- MCPeople
    Rooms <- MCRooms
    MaxTexts = 2
    OwnerOf <- MCOwnerOf
    HistoryTake = 1
    Limit = 1
    Scopes <- MCScopes
SPECIFICATION RoomsFairSpec
INVARIANTS RoomsSound ChatShownOnce
PROPERTIES GoneRoomUnlisted
CHECK_DEADLOCK FALSE
