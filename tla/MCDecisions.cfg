SPECIFICATION AllSpec
CONSTANTS
    sensor = sensor
    learned = learned
    scripted = scripted
    reporter = reporter
    sighting = sighting
    NSlots = 3
    Components = {sensor, learned, scripted, reporter}
    None = None
    First <- MCFirst
    Fallback <- MCFallback
    PhaseOf <- MCPhaseOf
    Period <- MCPeriod
    Events = {sighting}
    Triggers <- MCTriggers
    MaxFailures = 2
    MaxSlow = 2
    MaxAge = 2
    a = a
    b = b
    x = x
    Own = {a, b}
    Foes = {x}
    NPlaces = 3
    Join = 1
    Quiet = 1
    Longest = 2
    RecordEvery = 2
    Nothing = Nothing
    MaxFrame <- MCMaxFrame
INVARIANTS FaultyRetire DatasetTrue
PROPERTIES TriggersReach ReplacedForCause LossesTrue
SYMMETRY Alike
CHECK_DEADLOCK FALSE
