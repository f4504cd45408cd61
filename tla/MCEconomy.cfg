\* A game of a few buildings, from one hall and two workers; a search for a tank.
CONSTANTS
    None = None
    Data <- TerranData
    Start <- TerranStart
    Goal <- TerranGoal
    Sinks <- TerranSinks
    Opening <- TerranOpening
    Requests <- TerranRequests
    Worker = "scv"
    Larva = "larva"
    Refinery = "ref"
    Pylon = "pylon"
    SupplyT = "depot"
    Hall = "cc"
    Zerg = FALSE
    Armies = {1}
    MaxJobs = 2
    EarlyDispatch = TRUE
    Cap = 2
    GasCap = 1
    MaxFaults = 1
    Sites = 1
    MaxSupply = 4
    SupplyLead = 0
    FewSupply = 2
    FewUsed = 1
    PerBase = 2
    PerGas = 1
    MaxWorkers = 3
    Slack = 0
    Floating = 3
    Oversaturated = 1
    LarvaFloat = 3
    GasFloating = 1
    FloatShort = 3
    FloatMinerals = 3
    FloatTrain = 2
    FloatKeep = 1
    PerHall = 0
    PerLarva = 3
SPECIFICATION AllSpec
INVARIANTS NothingTwice WhenIsEarliest
PROPERTIES JobsStayCovered GoalThere Expanded TargetReached
