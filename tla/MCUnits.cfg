SPECIFICATION UnitsSpec
CONSTANTS
    None = None
    Workers = {"w1", "w2"}
    Soldiers = {"a1", "a2"}
    Timeout = 1
    Cooldown = 1
    MaxPull = 2
    MaxFaults = 1
    EnemyUnits = {"e1", "e2"}
    Sites = {"s1", "s2", "ex"}
    StartOrder <- MCStartOrder
    FullInfo = FALSE
    MaxChanges = 2
    Fighters = {"tank", "rine"}
    Enemies = {"ling", "wraith"}
    Tank = "tank"
    HitsAir = {"rine"}
    Ranged = {"rine"}
    Flyers = {"wraith"}
    Melee = {"ling"}
    EnemyWorkers = {}
    Volleys <- MCVolleys
    Distances = {1, 3, 5, 7}
    OnTop = 1
    WeaponRange = 2
    Reach = 3
    Cannon = 5
    Repeat = 2
    KiteRepeat = 1
    UnsiegeAfter = 2
    MaxCmds = 1
PROPERTIES BuildersStay RescoutReturns TrueInSight HomeFound TankFollows
CHECK_DEADLOCK FALSE
