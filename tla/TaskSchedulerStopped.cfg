CONSTANTS
    Task = {t1, t2}
    Canceller = {k1}
    Writer = {w1}
    PoolSize = 2
    OnLoop = {}
    None = None
SPECIFICATION Spec
CHECK_DEADLOCK FALSE
INVARIANT CancelledHasStopped
