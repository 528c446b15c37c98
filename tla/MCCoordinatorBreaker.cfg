SPECIFICATION BreakerSpec
CONSTANTS
    Task = {t1, t2}
    First = t1
    Terminal = {x1}
    NoTask = NoTask
    NoTerminal = NoTerminal
    MaxDispatch = 7
    MaxConcurrent = 1
    MaxInbox = 1
    MaxGate = 1
    MaxResolve = 1
INVARIANTS
    AttemptsBounded
PROPERTIES
    LoopConverges
