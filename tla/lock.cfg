SPECIFICATION FairSpec
CONSTANTS
    worker = worker
    heartbeat = heartbeat
    command = command
    daemon = daemon
    doctor = doctor
    Threads = {worker, heartbeat, command}
    Processes = {daemon, doctor}
    ProcessOf <- MCProcessOf
    StaleAfter = 2
    LongOperations = FALSE
    MaxExits = 1
    Nobody = Nobody
INVARIANTS
    TypeOK
    TimedExclusion
PROPERTY OperationsGoOn
