CONSTANTS
    None = None
    Thread = {t1, t2}
    HolderName = {writePage, reindexAll}
    MaxAcquires = 1
    Resource = {db}
    User = {u1, u2}
    Reader = {r1}
    MaxUses = 2
    MaxRuns = 2
SPECIFICATION AppFairSpec
CHECK_DEADLOCK FALSE
INVARIANTS
    AppTypeOK
    MutualExclusion
    HolderNamesOpenSection
    BuiltOnce
    SnapshotIsOneRun
PROPERTIES
    SomeWaiterEnters
    LocksAreGivenBack
