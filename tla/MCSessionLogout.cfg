CONSTANTS
    Handlers = {h1, h2}
    NoHandler = NoHandler
    NoFile = NoFile
    Partial = Partial
    MaxSessions = 1
    MaxRev = 0
    MaxFaults = 0
    WithSignals = FALSE

SPECIFICATION Spec

INVARIANTS
    StaysUpAfterLogout
