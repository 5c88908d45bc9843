SPECIFICATION Spec
CONSTANTS
    p = p
    a = a
    b = b
    bulk = bulk
    twin = twin
    image = image
    Leaf = {p, a, b}
    NoLeaf = NoLeaf
    Job = {bulk}
    NoJob = NoJob
    JobOf <- MCJobOf
    Object = {image}
    ObjectOf <- MCObjectOf
    Replica = {d1, d2}
    NoReplica = NoReplica
    Handler = {h}
    MaxAttempts = 2
    MaxFaults = 1
    MaxMoves = 1
INVARIANTS SentIsRecorded ClosedMeansDrained OneVerdict NoJobForgotten
PROPERTIES LiveClaimIsExclusive EveryLeafSettles JobCloses
