\* A restart loads the login counter and sets no timer for it.
SPECIFICATION FairSpec
CONSTANTS
    Attempts = {a1, a2}
    MaxCount = 2
    Counters = {"login_os"}
    MaxStarts = 1
    MaxFaults = 0
PROPERTY LockoutEnds
CHECK_DEADLOCK FALSE
