\* One table of db.mode=os: who saves what, and when.
SPECIFICATION FairSpec
CONSTANTS
    Writers = {w1, w2}
    MaxKey = 2
    Tables = {"vote", "user", "votename"}
    Kinds = {"Add", "AddKV", "Update", "Delete", "Touch"}
    MaxStarts = 1
INVARIANTS TypeOK NumbersAreFresh
PROPERTIES AddedIsSaved NobodyWaits ExitSaves
CHECK_DEADLOCK FALSE
