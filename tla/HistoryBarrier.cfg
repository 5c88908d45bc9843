SPECIFICATION Spec
CONSTANTS
    h1 = h1
    h2 = h2
    m1 = m1
    live = live
    consumer1 = consumer1
    drain1 = drain1
    History = {h1}
    Marker = {m1}
    Progress = {}
    Live = {live}
    Contact = {live}
    Consumer = {consumer1}
    Drain = {drain1}
    MaxFaults = 1
INVARIANTS HistoryFirst NothingLost
PROPERTY EventuallyApplied
