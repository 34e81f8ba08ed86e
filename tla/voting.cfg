SPECIFICATION FairSpec
CONSTANTS
    Requests = {r1, r2}
    Names = {n1}
    Paths = {p1}
    NumOptions = 2
    Choices <- MCChoices
    Modes <- MCAllModes
    MaxGen = 2
    Faults = {"UpdataConflict", "UpdataReplyLost", "IncOptionReplyLost", "StoreReplyLost", "CallFailed"}
    MaxFaults = 1
INVARIANTS TypeOK OneBallot CountedIsRecorded TallyExact SpentIsCounted VoteInv
PROPERTIES PollSpec Answered
CHECK_DEADLOCK FALSE
