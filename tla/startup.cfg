\* Starts of the process, cut short, over what earlier ones left.
SPECIFICATION Spec
CONSTANTS
    Modes <- Backends
    None = None
    MaxEdits = 1
    k1 = k1
    k2 = k2
    Keys = {k1, k2}
    Tearable = {"Session"}
    MaxAge = 1
    MaxPairs = 2
    MaxTime = 2
SYMMETRY MCSymmetry
INVARIANTS TypeOK PanicHasCause OneMasterKey ConfigInForce TablesFitMode
PROPERTY OldSessionsGo
CHECK_DEADLOCK FALSE
