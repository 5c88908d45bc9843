SPECIFICATION Spec
CONSTANTS
    w1 = w1
    w2 = w2
    Command = {r1, m1}
    Media = {m1}
    Reaction = {r1}
    Worker = {w1, w2}
    MaxAttempts = 2
    MaxDeliver = 3
    MaxFaults = 2
INVARIANTS AtMostOnce ConfirmedWasSent
PROPERTIES OutcomeIsStable EventuallyAnswered
CHECK_DEADLOCK FALSE
