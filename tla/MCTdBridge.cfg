CONSTANTS
    NoCoro = NoCoro
    Coros = {h1, h2, k1}
    HookCoros = {k1}
    IoLoops = {io1}
    MaxInflight = 2
    MaxId = 2

SYMMETRY HandlerSymmetry
SPECIFICATION Spec

INVARIANTS
    TypeOK
    SoleResolution
    NotOvertakenWhileServing
PROPERTIES
    WakesOnItsLoop
    ImplementsContract
