SPECIFICATION StanceSpec
CONSTANTS
    std = std
    safe = safe
    Sights <- MCSights
    Templates = {std, safe}
    RushSafe = safe
    AntiAir = std
    Default = std
    Setups <- MCSetups
    Requests <- MCRequests
    Nil = Nil
    MinSwitch = 1
    Defend = 1
    Retreat = 1
    Hold = 1
    Eval = 1
    Ttl <- MCTtl
INVARIANTS CrisisDefends NoLosingPush
PROPERTIES CrisisEnds
