\* Attempts on one key, with restarts and failing redis calls.
SPECIFICATION FairSpec
CONSTANTS
    Attempts = {a1, a2, a3, a4}
    MaxCount = 2
    Counters = {"ip", "login_os", "login_redis"}
    MaxStarts = 1
    MaxFaults = 1
INVARIANTS TypeOK AttemptsAreCounted
PROPERTIES TimerOwnsEntry WindowEnds
CHECK_DEADLOCK FALSE
