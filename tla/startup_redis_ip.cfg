\* Where the counters of requests are when config.ini asks for redis.
SPECIFICATION Spec
CONSTANTS
    Modes = {"redis"}
    None = None
    MaxEdits = 0
    k1 = k1
    Keys = {k1}
    Tearable = {}
    MaxAge = 1
    MaxPairs = 1
    MaxTime = 0
INVARIANT IpFitsMode
CHECK_DEADLOCK FALSE
