SPECIFICATION Spec
CONSTANTS
    h1 = h1
    h2 = h2
    m1 = m1
    live = live
    consumer1 = consumer1
    drain1 = drain1
    History = {h1, h2}
    Marker = {m1}
    Progress = {}
    Live = {}
    Contact = {}
    Consumer = {consumer1}
    Drain = {drain1}
    MaxFaults = 0
INVARIANTS MarkerAppliedOnce
