SPECIFICATION RelaySpec
CONSTANTS
    Task = {t1}
    Terminal = {}
    NoTask = NoTask
    NoTerminal = NoTerminal
    MaxDispatch = 1
    Sync = {"timer", "direct"}
    HasSetup = FALSE
    Chatter = {"heartbeat"}
    Quota = 1
    PullLimit = 2
    MaxToHome = 2
    MaxToWorker = 0
    MaxLate = 0
INVARIANTS
    RelayTypeOK
    NoLiveRemoteAgent
    ReportsAgree
    ImportedOnceInOrder
PROPERTIES
    RelayCatchesUp
    HomewardIsChannel
