CONSTANTS
    Calls = {c1, c2}
    MaxGen = 1
    MaxCuts = 1
    AutoResume = TRUE
SPECIFICATION Spec
INVARIANTS
    ConnectionSound
PROPERTIES
    MarkIsOwn
CHECK_DEADLOCK FALSE
