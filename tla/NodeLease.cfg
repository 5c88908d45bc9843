SPECIFICATION Spec
SYMMETRY Nodes
CONSTANTS
    n1 = n1
    n2 = n2
    k1 = k1
    NoNode = NoNode
    Node = {n1, n2}
    Connection = {k1}
    Lease = 2
    Interval = 1
    Margin = 3
    Reply = 1
    Fence = 1
    Horizon = 7
    MaxLaunch = 2
INVARIANT ClientIsRegistered
PROPERTIES AffinityKept OneOwnerAtATime
CHECK_DEADLOCK FALSE
