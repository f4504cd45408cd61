SPECIFICATION AllSpec
CONSTANTS
    NMatches = 2
    NSlots = 1
    None = None
    MaxFrames = 3
    Margin = 1
    Totals = {0, 1}
    MaxFaults = 1
    BotGames = {1, 2}
    BotSlots = {1, 2}
    Wines = {TRUE, FALSE}
    BotFaults = 1
INVARIANTS OwnGame VerdictTrue OwnProcesses
PROPERTIES RunEnds
CHECK_DEADLOCK FALSE
