CONSTANTS
    Requests = {r1, r2}
    Messages = {r1, r2}
    Unkeyed = {r2}
    Keys = {a, b}
    NoKey = NoKey
    MaxEntries = 1
    MaxDrains = 1

SPECIFICATION FairSpec
CHECK_DEADLOCK FALSE

PROPERTY EveryRequestAnswered
