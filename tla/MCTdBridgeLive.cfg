CONSTANTS
    NoCoro = NoCoro
    Coros = {h1, k1}
    HookCoros = {k1}
    IoLoops = {io1}
    MaxInflight = 1
    MaxId = 2

SPECIFICATION FairSpec

INVARIANT InflightBounded
PROPERTIES
    EveryCallReturns
    ShutdownFinishes
