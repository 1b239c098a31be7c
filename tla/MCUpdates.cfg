CONSTANTS
    Conns = {c1, c2}
    Types <- ForwardedTypes
    Filters <- AskedFilters
    MaxPending = 1
    MaxSubscribes = 1
    MaxQueue = 1
    Incoming <- Delivered
    NoChat = NoChat
    MaxUpdates = 2
    MaxRestarts = 1

SYMMETRY ConnSymmetry
SPECIFICATION Spec

INVARIANTS
    UpdatesInv
    InOrder
    OneStaleFrame
    SlowIsCut
