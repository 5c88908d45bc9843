SPECIFICATION Spec
CONSTANTS
    Extra = {TRUE, FALSE}
    MaxFaults = 0
    MaxReplays = 0
PROPERTIES PendingTimesOut
