SPECIFICATION OrchestrationSpec
CONSTANTS
    Task = {t1}
    Terminal = {x1}
    NoTask = NoTask
    NoTerminal = NoTerminal
    MaxDispatch = 2
    MaxGate = 1
    UpdateStatus = {"ready", "completed"}
INVARIANTS
    OrchestrationTypeOK
    LiveCapabilityIsTrusted
    SettledWorkerEndsDispatch
    TransientStateHasOwner
    OpenQuestionHasAuthority
    ByHandRespectsTerminalLock
PROPERTIES
    NeverActiveAgain
