\* Three logins or registrations of one name. 4 and 256 leave 1 when divided by 3.
SPECIFICATION FairSpec
CONSTANTS
    Requests = {r1, r2, r3}
    NoSession = NoSession
    Earlier = Earlier
    Modes <- MCAllModes
    MaxGen = 2
    IndexSize = 4
    MaxFaults = 1
INVARIANTS TypeOK RingIsStored SomebodyLoggedIn
PROPERTIES LoneLoginAccepted RingFillsFirst LoneLoginEnds
CHECK_DEADLOCK FALSE
