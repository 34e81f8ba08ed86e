SPECIFICATION Spec
CONSTANTS
    Requests = {r1, r2}
    Names = {n1}
    Paths = {p1}
    NumOptions = 1
    Choices <- MCValid1
    Modes <- MCOs
    MaxGen = 1
    Faults = {}
    MaxFaults = 0
INVARIANT EachAccountCountsOnce
CHECK_DEADLOCK FALSE
