CONSTANTS
    c1 = c1
    c2 = c2
    rA = rA
    rB = rB
    j1 = j1
    v1 = v1
    Conns <- MCConns
    Readers <- MCReaders
    Rooms <- MCRooms
    Jtis <- MCJtis
    Versions <- MCVersions
    Kills <- MCKills
    SEND_BUFFER = 1
    NoRoom = NoRoom
    NoFrame = NoFrame
    MaxControls = 1
    RelayScopes <- MCScopes
SPECIFICATION RelaySpec
 
PROPERTIES NoStrayFrames  PlayingConverges
CHECK_DEADLOCK FALSE
