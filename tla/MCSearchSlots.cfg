SPECIFICATION Spec
CONSTANTS
    None = None
    Data <- Tree
    Game <- TwoFactories
    GoalArmy <- Hovers
    GoalBuildings <- OneShop
    GoalTechs <- NoTechs
    WantWorkers = 4
    BasesWanted = 1
    MinArmy = 0
    ArmyChunk = 12
    MaxArmyChunk = 12
    WorkerChunk = 2
    Geysers = 1
    FloatMinerals = 9999
    Hall = "cc"
    Worker = "scv"
    Refinery = "ref"
    SupplyType = "depot"
    Race = "terran"
    PerPatch = 2
    Patches = 2
    Travel = 2
    BuilderGap = 1
    Limit = 40
    MaxSupply = 400
    MaxSteps = 12
    StartWeight = 1
    OrderSlack = 2
    Penalty = 1000
    Every = 2
    Slack = 2
    Skip = 2
    SupplyLead = 1
    MaxJobs = 3
    EarlyDispatch = TRUE
    Cuts = {1, 99}
    MaxAsks = 1
    Others = {"depot", "scv"}
    MaxFrame = 100
INVARIANT OneThingEach
CHECK_DEADLOCK FALSE
