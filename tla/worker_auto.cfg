SPECIFICATION Spec
CONSTANTS
    t1 = t1
    t2 = t2
    d1 = d1
    d2 = d2
    d3 = d3
    d4 = d4
    Tasks = {t1, t2}
    Digests = {d1, d2}
    Rank <- MCRank
    Pack <- PackAuto
    Modes = {"auto"}
    AllowPatchRepair = TRUE
    Disturbances = {"crash", "publish", "airelay", "timeout", "rollback"}
    MaxDisturbances = 2
    NoBundle = NoBundle
INVARIANTS
    TypeOK
    DispatchInOrder
    EarlierTaskHoldsQueue
    ResultMatchesStatus
PROPERTIES
    AnswerInHandSurvives
    ImplementsBoard
