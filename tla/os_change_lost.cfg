\* A vote changes its account without saying so.
SPECIFICATION FairSpec
CONSTANTS
    Writers = {w1, w2}
    MaxKey = 1
    Tables = {"user"}
    Kinds = {"AddKV", "Touch"}
    MaxStarts = 0
PROPERTY ChangeIsSaved
CHECK_DEADLOCK FALSE
