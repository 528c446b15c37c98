SPECIFICATION ReceiptsSpec
CONSTANTS
    Request = {q1, q2}
    Atomic = {q1}
    Call = {c1, c2}
    NoRequest = NoRequest
    NoCall = NoCall
INVARIANT AcceptanceIsRecorded
