SPECIFICATION RelaySafeSpec
CONSTANTS
    Task = {t1}
    Terminal = {}
    NoTask = NoTask
    NoTerminal = NoTerminal
    MaxDispatch = 1
    Sync = {"timer"}
    HasSetup = TRUE
    Chatter = {"question"}
    Quota = 2
    PullLimit = 2
    MaxToHome = 1
    MaxToWorker = 2
    MaxLate = 1
INVARIANTS
    DeliveredOnce
    AnswerIsRecorded
PROPERTIES
    WorkerwardIsChannel
