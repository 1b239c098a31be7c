CONSTANTS
    a1 = a1
    d1 = d1
    v1 = v1
    Accounts = {a1}
    Deletes = {d1}
    Visits = {v1}
    NoRow = NoRow
    NoAccount = NoAccount
    LogoutWaitPasses = 2
    MaxTroubles = 1

SPECIFICATION Spec

INVARIANT LifecycleInv

PROPERTIES
    StoppedLoggedOut
    DeletionCompletes
    LooseEndsAreFound
