CONSTANTS
    Uploads = {u1, u2}
    FileNames = {"upload.bin", "a"}
    PoolThreads = 2
    Ttl = 2
    MaxClock = 4
    MaxCrashes = 1

SYMMETRY UploadSymmetry
SPECIFICATION UploadsSpec

INVARIANT FreshUploadStays

\* Every upload comes to an end.
CHECK_DEADLOCK FALSE
