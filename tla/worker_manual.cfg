SPECIFICATION Spec
CONSTANTS
    t1 = t1
    t2 = t2
    d1 = d1
    d2 = d2
    d3 = d3
    d4 = d4
    Tasks = {t1, t2}
    Digests = {d1, d2, d3}
    Rank <- MCRank
    Pack <- PackManual
    Modes = {"manual", "disabled"}
    AllowPatchRepair = FALSE
    Disturbances = {"crash", "stop", "publish", "airelay", "decision", "early", "replace", "doctor"}
    MaxDisturbances = 3
    NoBundle = NoBundle
INVARIANTS
    NoRedispatch
    PublishedContentIsExecuted
    LocalPolicyGovernsDispatch
