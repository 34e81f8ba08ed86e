\* Two overlapping logins over mysql.
SPECIFICATION FairSpec
CONSTANTS
    Requests = {r1, r2}
    NoSession = NoSession
    Earlier = Earlier
    Modes <- MCMysql
    MaxGen = 1
    IndexSize = 4
    MaxFaults = 0
PROPERTY LoginEnds
CHECK_DEADLOCK FALSE
