SPECIFICATION FairSpec
CONSTANTS
    t1 = t1
    t2 = t2
    Tasks = {t1, t2}
    MaxNotes = 1
    Disturbances = {"crash", "network", "doctor", "checkpoint"}
    MaxDisturbances = 3
INVARIANTS
    TypeOK
    ClaimedIsPublished
    PushedCommitIsOneResult
PROPERTIES
    BranchOnlyGrows
    ImplementsBoard
    TwoConflictsAreAbsorbed
