CONSTANTS
    Requests = {r1, r2, r3}
    Messages = {r1, r2, r3}
    Keys = {a, b}
    Unkeyed = {}
    NoKey = NoKey
    MaxEntries = 1
    MaxDrains = 1

SYMMETRY Symmetry
SPECIFICATION Spec
CHECK_DEADLOCK FALSE

INVARIANTS
    SendInv
    ReplayIsTrue
    SentOnceUnlessLost
    AnswerIsKept
