SPECIFICATION FairSpec
CONSTANTS
    p1 = p1
    p2 = p2
    p3 = p3
    Pids = {p1, p2, p3}
    MaxEvents = 2
    MaxRuns = 2
    None = None
    Blank = Blank
    Minus1 = Minus1
INVARIANTS
    TypeOK
    OneGateway
PROPERTY GatewayWorksAgain
