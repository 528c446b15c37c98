SPECIFICATION SafeSpec
CONSTANTS
    Task = {t1}
    Terminal = {x1}
    NoTask = NoTask
    NoTerminal = NoTerminal
    MaxDispatch = 2
INVARIANT FailuresCarriedForward
