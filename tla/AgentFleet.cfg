SPECIFICATION FleetSpec
CHECK_DEADLOCK FALSE
CONSTANTS
    Callers = {ana, bob}
    MaxLaunches = 2
    MaxObjects = 2
    Minimums = {1}
    Rooms = {0, 1}
    MaxPlacements = 2
    MaxDisturbances = 1
    MaxConcurrency = 1
    UnhealthyPings = 2
SYMMETRY CallerSymmetry
INVARIANTS
    FleetSound
