SPECIFICATION Spec
SYMMETRY Nodes
CONSTANTS
    n1 = n1
    n2 = n2
    k1 = k1
    NoNode = NoNode
    Node = {n1, n2}
    Connection = {k1}
    Lease = 4
    Interval = 1
    Margin = 4
    Reply = 3
    Fence = 2
    Horizon = 9
    MaxLaunch = 2
INVARIANT OneClient
CHECK_DEADLOCK FALSE
