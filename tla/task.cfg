SPECIFICATION ExecutionSpec
CONSTANTS
    Bundles <- MCBundles
    Names <- MCNames
    Folded <- MCFolded
    Required <- MCRequired
    MaxFileBytes = 2
    MaxAggregateBytes = 4
    MaxEntries = 4
    MaxEvents = 3
    Paths = {"a", "b", "i", "t"}
    BaseFiles = {"a", "t"}
    Ignored = {"i", "t"}
    PackOf <- MCPackOf
    Claims <- MCClaims
    RepairAllowed = {TRUE, FALSE}
    None = None
    Bare = Bare
INVARIANTS
    TypeOK
    PackIsWhole
    PackIsBounded
    ExecutionTypeOK
    ScopeIsExact
    HandoffInScope
    SuccessIsBacked
PROPERTIES
    SoundBundleUnpacked
