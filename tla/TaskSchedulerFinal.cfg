CONSTANTS
    Task = {t1, t2}
    Canceller = {k1, k2}
    Writer = {w1}
    PoolSize = 2
    OnLoop = {}
    None = None
SPECIFICATION Spec
CHECK_DEADLOCK FALSE
PROPERTY TerminalIsFinal
