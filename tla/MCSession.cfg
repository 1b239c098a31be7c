CONSTANTS
    Handlers = {h1}
    NoHandler = NoHandler
    NoFile = NoFile
    Partial = Partial
    MaxSessions = 1
    MaxRev = 1
    MaxFaults = 1
    WithSignals = TRUE

SPECIFICATION SyncSpec

INVARIANTS
    TypeOK
    RequestNotLost
    FinalPushIsLast
    QuitsWhenTerminated

PROPERTIES
    LoginReachesS3
