SPECIFICATION Spec
CONSTANTS
    Extra = {TRUE, FALSE}
    MaxFaults = 2
    MaxReplays = 1
INVARIANTS ReachedWasSent FailureIsHonest NoteAgrees
PROPERTIES NeverFallsBack OutcomeIsShown ReceiptCounts PlainTimesOut
