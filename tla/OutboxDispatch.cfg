SPECIFICATION Spec
CONSTANTS
    d1 = d1
    d2 = d2
    j1 = j1
    j2 = j2
    Company = {1, 2}
    Job = {j1, j2}
    Owner <- MCOwner
    Dispatcher = {d1, d2}
    BatchSize = 1
    PageSize = 1
    MaxRetries = 1
    RowLease = 1
    RetryDelay = 2
    ClaimLease = 2
    ReleaseDelay = 1
    RecoveryInterval = 2
    MaxTime = 20
    MaxFaults = 1
    MaxSuspensions = 1
INVARIANT NoLostWakeup
PROPERTIES ClaimsEndedByOwner WorkIsDone

CHECK_DEADLOCK FALSE
