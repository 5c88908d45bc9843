SPECIFICATION Spec
CONSTANTS
    a = a
    b = b
    c = c
    k1 = k1
    k2 = k2
    Msg = {1, 2, 3, 4}
    Id <- MCId
    To <- MCTo
    NoId = NoId
    NoContact = NoContact
    None = None
    Media = {1, 4}
    Control = {3}
    Stuck = {2}
    QueueLimit = 3
    MediaLimit = 1
    MaxDeliver = 3
    MaxTroubles = 1
INVARIANTS SlotsAccounted MediaBounded NoHeadForgotten ActiveOnce ContactOrder
PROPERTIES HeadRetained EventuallySettled
