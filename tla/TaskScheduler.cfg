CONSTANTS
    Task = {t1, t2}
    Canceller = {k1, k2}
    Writer = {w1}
    PoolSize = 2
    OnLoop = {k2}
    None = None
SPECIFICATION FairSpec
CHECK_DEADLOCK FALSE
INVARIANTS
    TypeOK
    CancelIsAuthoritative
    EarlyCancelDestroysNothing
    DoneIsTerminal
    NoHalfState
PROPERTIES
    FinalIfKeptToLoop
    TaskEnds
    RebuildEnds
