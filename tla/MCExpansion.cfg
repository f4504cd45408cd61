SPECIFICATION Spec
CONSTANTS
    Sites <- MCSites
    Natural = "natural"
    Islands = {}
    Hopeless = {}
    None = None
    Goal = 3
    Blocked = 3
    Unreachable = 4
    Danger = 3
    Patience = 1
    MaxFaults = 1
PROPERTY NoneTooMany
