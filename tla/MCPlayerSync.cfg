CONSTANTS
    EXIT = 6
    DEADBAND = 12
    THRESHOLD = 15
    RECONCILE = 25
    ZONE = 60
    INSTANT = 250
    SUSTAIN = 2
    STABLE = 2
    COOLDOWN = 3
    SPACING = 4
    STUCK = 1
    GESTURE = 1
    Setups <- MCSetups
    MaxMounts = 3
    MaxSettings = 1
    MaxAsks = 3
    MaxPlayers = 4
    RingSize = 4
    WINDOW = 3
    BestK = 3
    SlewThreshold = 1
    SlewRate = 1
    DomainRing = 8
    Ways <- MCWays
    ClockSteps <- MCClockSteps
    MaxExchanges = 5
    MaxReal = 5
    Duration = 2
    SkipStep = 1
SPECIFICATION MCSpec
INVARIANTS EngineSound CorrectsInMeasure MountsSound CaptionsSound ClockSound PressesSound OnlyHttpPlays ReadoutSound
CHECK_DEADLOCK FALSE
