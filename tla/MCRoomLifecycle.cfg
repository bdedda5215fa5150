CONSTANTS
    s1 = s1
    s2 = s2
    s3 = s3
    i1 = i1
    i2 = i2
    ann = ann
    bob = bob
    cat = cat
    vA = vA
    vB = vB
    Nobody = Nobody
    NoVideo = NoVideo
    NoMeta = NoMeta
    Socks <- MCSocks
    Instances <- MCInstances
    Users <- MCUsers
    Videos <- MCVideos
    UserOf <- MCUserOf
    Creator = ann
    Sites <- MCSites
SPECIFICATION FairSpec
INVARIANTS RoomUsable
PROPERTIES EmptyRoomReleased
CHECK_DEADLOCK FALSE
