CONSTANTS
    TokenFiles <- Files
    Requested <- AllRequests
    MaxFileSize = 4
    MaxFileId = 7
    Chats = {c1, c2, c3, c4}
    PageLimit = 1
    Window = 2
    MaxChanges = 2
    Uploads = {u1, u2}
    FileNames = {"upload.bin", "a"}
    PoolThreads = 2
    Ttl = 2
    MaxClock = 4
    MaxCrashes = 1
    Owner = Owner
    Other = Other
    Unknown = Unknown
    ChainLimit = 2

SYMMETRY UploadSymmetry
SPECIFICATION Spec

INVARIANTS
    TypeOK
    ActsOnWhatWasNamed
    ServedIffScoped
    StatusTellsTheOutcome
    WalkShowsTheList
    KeptThenSwept
    EventIsDueAndWhole

\* Every behaviour comes to an end: a request is replied to, a walk is over.
CHECK_DEADLOCK FALSE
