SPECIFICATION FairSpec
CONSTANTS
    t1 = t1
    t2 = t2
    d1 = d1
    d2 = d2
    d3 = d3
    d4 = d4
    Tasks = {t1, t2}
    Digests = {d1}
    Rank <- MCRank
    Pack <- PackPlain
    Modes = {"auto"}
    AllowPatchRepair = TRUE
    Disturbances = {"crash", "moved"}
    MaxDisturbances = 1
    NoBundle = NoBundle
PROPERTY StartedTaskAnswered
