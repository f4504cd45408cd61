SPECIFICATION ServedSpec
CONSTANTS
    Modes = {"client", "module"}
    Conns = {c1, c2}
    NoConn = NoConn
    Games = 2
    MaxFrame = 1
    MaxEvents = 2
    Skips <- MCSkips
    BotGames = 2
    MaxFaults = 2
INVARIANTS EventsContiguous AnswersAreMine NoMutualWait
PROPERTIES LockstepSpec MatchesEnd BotIsServed
CHECK_DEADLOCK FALSE
