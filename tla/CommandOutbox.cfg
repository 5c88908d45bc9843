SPECIFICATION Spec
CONSTANTS
    r1 = r1
    d1 = d1
    d2 = d2
    Command = {c1, c2}
    Recipient = {r1}
    NoRecipient = NoRecipient
    To <- MCTo
    Dispatcher = {d1, d2}
    BatchSize = 2
    MaxAttempts = 2
    Lease = 1
    RetryBase = 1
    RetryCap = 1
    MaxTime = 6
    MaxFaults = 2
INVARIANTS ClaimExclusive FailedMeansExhausted
PROPERTIES KeepsOrder ConfirmedStaysSent EventuallySettled
CHECK_DEADLOCK FALSE
