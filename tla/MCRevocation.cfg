CONSTANTS
    i1 = i1
    i2 = i2
    r1 = r1
    t1 = t1
    u1 = u1
    u2 = u2
    NotMinted = NotMinted
    NoParent = NoParent
    NoToken = NoToken
    Nowhere = Nowhere
    Instances <- MCInstances
    Tabs <- MCTabs
    Relays = {}
    Tokens <- MCOneToken
    MaxVersion = 1
    MaxReloads = 1
    MaxTasks = 1
    MaxSocks = 0
    Scopes <- MCScopes
SPECIFICATION Spec
INVARIANTS TypeOK NothingForgotten RotationSound
SYMMETRY Symmetry
CHECK_DEADLOCK FALSE
