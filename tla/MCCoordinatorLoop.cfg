SPECIFICATION SafeSpec
CONSTANTS
    Task = {t1, t2}
    Terminal = {x1, x2}
    NoTask = NoTask
    NoTerminal = NoTerminal
    MaxDispatch = 3
    MaxConcurrent = 1
    MaxInbox = 1
    MaxGate = 1
SYMMETRY Symmetry
INVARIANTS
    TypeOK
    SecondAgentOnlyAfterGate
    ConcurrencyBound
