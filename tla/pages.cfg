\* The pages that show polls, while polls are made, voted in and commented on.
SPECIFICATION FairSpec
CONSTANTS
    Readers = {g1}
    NumPolls = 2
    NumOptions = 2
    Modes <- MCAllModes
    Tries = 2
    NoField = NoField
    MaxWrites = 3
    MaxCalls = 3
    MaxFaults = 2
INVARIANTS TypeOK PageIsComplete RowsWereStored RefusedWithCause
PROPERTY PageEnds
CHECK_DEADLOCK FALSE
