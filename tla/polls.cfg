\* Two polls of one name or two, and two comments on the first.
SPECIFICATION FairSpec
CONSTANTS
    Creators = {c1, c2}
    Commenters = {m1, m2}
    Titles = {t1, t2}
    Targets = {1}
    NoPoll = NoPoll
    Modes <- MCAllModes
    Faults <- MCAllFaults
    MaxFaults = 1
INVARIANTS TypeOK SearchFinds OneIsRecorded AppendedOnce
PROPERTIES PollsAreKept RequestsEnd
CHECK_DEADLOCK FALSE
