SPECIFICATION FairSpec
CONSTANTS
    None = None
    Keys = {k1, k2}
    Values = {v1}
    Ttls = {1, None}
    MaxNow = 2
    MaxWrites = 2
    MaxCrashes = 1
INVARIANTS
    CleanMeansSaved
PROPERTIES
    ImplementsContract
    ShutdownSaveStands
    ChangesReachDisk
    WritesResume
