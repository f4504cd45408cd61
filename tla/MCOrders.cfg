SPECIFICATION MCSpec
CONSTANTS
    u1 = u1
    u2 = u2
    macro = macro
    micro = micro
    scouting = scouting
    Units = {u1, u2}
    Slots = {macro, micro, scouting}
    None = None
    CmdPrio <- MCCmdPrio
    LeasePrios <- MCLeasePrios
    MaxFrame = 2
    MaxCmds = 3
    Targets = {1, 2}
    UnitTypes = {0, 1}
    Techs = {0, 2}
    TargetTechs = {2}
    Overlays = {{}, {"box"}}
    FrameSkip = 2
    Minute = 6
    Window = 6
    MinWindow = 2
    Budget = 5
    MaxBatch = 3
    LastFrame = 9
    Workers = {"w1", "w2"}
    Patches = {"p1", "p2"}
    Refineries = {"r1"}
    Bases = {"b1", "b2"}
    BaseOf <- MCBaseOf
    Idle = Idle
    GasPerRefinery = 1
    PerPatch = 1
    Transfers = 1
    GasBank = FALSE
    MaxFaults = 2
INVARIANTS LeasesShieldUnits FlushArbitrates Meant WithinBudget
PROPERTIES NoSeizure TrimSparesTheImportant Shared
SYMMETRY MCSymmetry
CHECK_DEADLOCK FALSE
