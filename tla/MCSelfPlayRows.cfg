SPECIFICATION Spec
CONSTANTS
    NMatches = 2
    NSlots = 1
    None = None
    MaxFrames = 3
    Margin = 1
    Totals = {0, 1}
    MaxFaults = 1
INVARIANT OneRowPerGame
CHECK_DEADLOCK FALSE
