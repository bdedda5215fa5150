CONSTANTS
    i1 = i1
    i2 = i2
    r1 = r1
    t1 = t1
    u1 = u1
    u2 = u2
    NotMinted = NotMinted
    NoParent = NoParent
    NoToken = NoToken
    Nowhere = Nowhere
    Instances <- MCInstances
    Tabs <- MCOneTab
    Relays <- MCRelay
    Tokens <- MCOneToken
    MaxVersion = 1
    MaxReloads = 2
    MaxTasks = 1
    MaxSocks = 1
    Scopes <- MCDeaf
SPECIFICATION FairSpec
PROPERTIES ReachesAll
CHECK_DEADLOCK FALSE
