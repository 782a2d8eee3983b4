CONSTANTS
    Sources <- MCSources
    Sorted <- MCSorted
    BlobRoot <- MCBlobRoot
    Contents <- MCContents
    Foreign <- MCForeign
    Restorers = {r1, r2}
    Spellings = {s1}
    MaxEntries = 5
    MaxFileBytes = 2
    MaxTotalBytes = 4
    MaxDepth = 2
    MaxWrites = 2
    MaxLosses = 1
SPECIFICATION Spec
INVARIANTS SnapshotIsFaithful PublishedIsComplete ReturnsLeaveNothing
CHECK_DEADLOCK FALSE
