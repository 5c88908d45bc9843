SPECIFICATION Spec
CONSTANTS
    p = p
    a = a
    b = b
    bulk = bulk
    twin = twin
    image = image
    Leaf = {a, b}
    NoLeaf = NoLeaf
    Job = {bulk, twin}
    NoJob = NoJob
    JobOf <- TwinJobOf
    Object = {image}
    ObjectOf <- MCObjectOf
    Replica = {d1, d2}
    NoReplica = NoReplica
    Handler = {h}
    MaxAttempts = 2
    MaxFaults = 1
    MaxMoves = 1
INVARIANT MediaKept
