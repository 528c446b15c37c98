SPECIFICATION MailboxSpec
CONSTANTS
    Request = {q1, q2}
    Atomic = {}
    Call = {c1, c2}
    NoRequest = NoRequest
    NoCall = NoCall
    Run = {r1, r2}
    NoRun = NoRun
    Pane = {p1, p2}
    NoPane = NoPane
    Type = {"worker_done", "heartbeat"}
    Filters <- CheckFilters
    PageLimit = 1
    MaxMessages = 2
    MaxDeliveries = 2
    MaxDeleted = 1
    MaxGeneration = 3
    MaxRows = 4
SYMMETRY Symmetry
INVARIANTS
    MailboxTypeOK
    OneConsumer
    AcknowledgedIsRead
    AcknowledgedInOrder
    NoLostWakeup
    OneReceiver
    SentOnce
    OneHandlerPerRequest
    InFlightIsJoined
PROPERTIES
    CompletedReceiptStands
    ImplementsQueues
