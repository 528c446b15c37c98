SPECIFICATION SafeSpec
CONSTANTS
    Task = {t1, t2}
    Terminal = {x1}
    NoTask = NoTask
    NoTerminal = NoTerminal
    MaxDispatch = 2
INVARIANT NoReadyChildUnpromoted
