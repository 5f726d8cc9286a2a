SPECIFICATION FairSpec
CONSTANTS
    GatewayID = "desk"
    ProjectIDs = {"desk", "site"}
    DefaultHeartbeat = 2
    DefaultLease = 5
    MinHeartbeat = 2
    MaxHeartbeat = 2
    MaxLease = 5
    Files <- MCFiles
    MaxDelay = 1
    MaxFailures = 2
    None = None
INVARIANTS
    TypeOK
    LeaseHolds
    ErrorsAgree
PROPERTIES
    OfflineStays
    SnapshotCatchesUp
