CONSTANTS
    Events = {e1, e2}
    Hooks = {u1}
    Undeliverable = {}
    QueueMax = 1
    MaxMutations = 2
    Barrier = Barrier
    Quit = Quit

SPECIFICATION Spec

INVARIANTS
    TypeOK
    LatestIsStored
    LoopGoneIdle
    NeverSentTwice
    OnlyToItsHooks

PROPERTIES
    AcceptedIsPosted
    StopReturns
