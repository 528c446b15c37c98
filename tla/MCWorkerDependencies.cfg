SPECIFICATION Spec
CONSTANTS
    Task = {t1, t2}
    Terminal = {x1}
    NoTask = NoTask
    NoTerminal = NoTerminal
    MaxDispatch = 2
INVARIANTS
    TypeOK
    OneActiveDispatchPerTask
    DispatchedTaskHasWorker
    DispatchedAfterDependencies
PROPERTIES
    NeverReactivated
    ImplementsLeases
    StartReachesReceipt
    StopReachesReceipt
