SPECIFICATION FairSpec
CONSTANTS
    t1 = t1
    t2 = t2
    d1 = d1
    d2 = d2
    d3 = d3
    d4 = d4
    Tasks = {t1, t2}
    Digests = {d1, d2, d3, d4}
    Rank <- MCRank
    Pack <- PackRecovery
    Modes = {"auto"}
    AllowPatchRepair = TRUE
    Disturbances = {"crash", "timeout", "moved"}
    MaxDisturbances = 1
    NoBundle = NoBundle
PROPERTIES
    UndisturbedTaskAnswered
    RecoverableTaskAnswered
