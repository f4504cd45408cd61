SPECIFICATION AllSpec
CONSTANTS
    w1 = w1
    w2 = w2
    s1 = s1
    s2 = s2
    depot = depot
    barracks = barracks
    hall = hall
    Workers = {w1, w2}
    Types = {hall}
    Exact = {hall}
    SitesOf <- MCSitesOf
    Races = {"terran", "protoss", "zerg"}
    None = None
    Shim = FALSE
    MaxJobs = 2
    SiteTimeout = 0
    Reissue = 2
    ExactRetries = 3
    TravelRetries = 2
    BuilderDeaths = 2
    MaxMoney = 1
    MaxFaults = 1
INVARIANTS BuilderExclusive SitesHeld
PROPERTIES BuildersLeased StructuresKeepTheirJob
SYMMETRY MCSymmetry
