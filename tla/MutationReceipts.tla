-------------------------- MODULE MutationReceipts --------------------------
(***************************************************************************)
(* The executor of orchestration mutations (rpc/                           *)
(* orchestration-mutation-executor.ts) and the receipts it keeps in the    *)
(* store.  A caller names its mutation with a request id; a call with an   *)
(* id the daemon has seen is answered from the receipt, joins the call in  *)
(* flight, or is told that the outcome is unknown.  Most methods get a     *)
(* pending receipt before their handler runs.  The two that start a worker *)
(* (Atomic) get theirs from the handler, in the transaction that accepts   *)
(* the dispatch, so that a refused start leaves nothing behind.            *)
(*                                                                         *)
(* The handlers are abstract here: they return, throw, record an early     *)
(* receipt or accept a worker.  RunMailbox gives the executor concrete     *)
(* ones.  The payload of a request never changes: a call that reuses an id *)
(* with other input is refused before it changes anything.                 *)
(***************************************************************************)
EXTENDS Naturals

CONSTANTS Request,  \* request ids, each with the caller that made it
          Atomic,   \* those of workerStart and federationAttachStart
          Call,     \* calls the daemon works on at one time
          NoRequest, NoCall

ASSUME ReceiptAssumption ==
    Atomic \subseteq Request /\ NoRequest \notin Request /\ NoCall \notin Call

VARIABLES row,       \* mutation_receipts: none, pending or completed
          receipt,   \* what the completed receipt answers
          op,        \* the calls whose handler runs
          inFlight   \* OrchestrationMutationExecutor.inFlight

receiptVars == <<row, receipt, op, inFlight>>

Stage == {"idle", "begun", "recorded", "accepted", "waiting", "notified",
          "cancelled", "refused", "returned", "threw", "unknown"}

IdleCall == [req |-> NoRequest, at |-> "idle", answer |-> 0]

ReceiptsInit ==
    /\ row = [q \in Request |-> "none"]
    /\ receipt = [q \in Request |-> 0]
    /\ op = [c \in Call |-> IdleCall]
    /\ inFlight = [q \in Request |-> NoCall]

\* The handler of call c goes on to stage s with answer a.
OpAt(c, s, a) == [op EXCEPT ![c].at = s, ![c].answer = a]

\* A bug: a completed receipt does not keep the handler from running.
runAgain(c, q) ==
    /\ op[c].at = "idle" /\ row[q] # "pending"
    /\ row' = [row EXCEPT ![q] = IF q \in Atomic THEN "none" ELSE "pending"]
    /\ op' = [op EXCEPT ![c] = [req |-> q, at |-> "begun", answer |-> 0]]
    /\ inFlight' = [inFlight EXCEPT ![q] = c]
    /\ UNCHANGED receipt

\* A bug: every method leaves its receipt to its handler.
runUnrecorded(c, q) ==
    /\ op[c].at = "idle" /\ row[q] = "none"
    /\ op' = [op EXCEPT ![c] = [req |-> q, at |-> "begun", answer |-> 0]]
    /\ inFlight' = [inFlight EXCEPT ![q] = c]
    /\ UNCHANGED <<row, receipt>>

\* A bug: the call does not put itself into the in-flight table.
runUnlisted(c, q) ==
    /\ op[c].at = "idle" /\ row[q] = "none"
    /\ row' = [row EXCEPT ![q] = IF q \in Atomic THEN "none" ELSE "pending"]
    /\ op' = [op EXCEPT ![c] = [req |-> q, at |-> "begun", answer |-> 0]]
    /\ UNCHANGED <<receipt, inFlight>>

\* A call of a request without a receipt: its handler starts.  A plain
\* method leaves a pending receipt first.  Calls of a request with a receipt
\* change nothing: they are answered, joined or refused.
run(c, q) ==
    /\ op[c].at = "idle"
    /\ row[q] = "none"
    /\ row' = [row EXCEPT ![q] = IF q \in Atomic THEN "none" ELSE "pending"]
    /\ op' = [op EXCEPT ![c] = [req |-> q, at |-> "begun", answer |-> 0]]
    /\ inFlight' = [inFlight EXCEPT ![q] = c]
    /\ UNCHANGED receipt

\* The handler has come back with an answer: complete the receipt.  When the
\* row is gone the update matches nothing and the call ends in an error.
Complete(c) ==
    LET q == op[c].req IN
    /\ op[c].at = "returned"
    /\ row' = [row EXCEPT ![q] = IF @ = "none" THEN "none" ELSE "completed"]
    /\ receipt' = IF row[q] = "none" THEN receipt
                  ELSE [receipt EXCEPT ![q] = op[c].answer]

\* The handler has thrown: forget the request, unless the outcome is unknown.
Discard(c) ==
    LET q == op[c].req IN
    /\ op[c].at \in {"threw", "unknown"}
    /\ row' = IF op[c].at = "threw" /\ row[q] = "pending"
              THEN [row EXCEPT ![q] = "none"] ELSE row
    /\ UNCHANGED receipt

Finish(c) ==
    /\ Complete(c) \/ Discard(c)
    /\ op' = [op EXCEPT ![c] = IdleCall]
    /\ inFlight' = [inFlight EXCEPT ![op[c].req] = NoCall]

\* ask records its receipt as soon as the question is stored.
recordReceipt(c) ==
    LET q == op[c].req IN
    /\ op[c].at = "begun" /\ q \notin Atomic
    /\ row' = [row EXCEPT ![q] = "completed"]
    /\ receipt' = [receipt EXCEPT ![q] = 1]
    /\ op' = OpAt(c, "recorded", 0)
    /\ UNCHANGED inFlight

\* The transaction that accepts a worker inserts its receipt; a row that is
\* already there makes the outcome of this call unknown.
AcceptWorker(c) ==
    LET q == op[c].req IN
    /\ op[c].at = "begun" /\ q \in Atomic
    /\ IF row[q] = "none"
       THEN row' = [row EXCEPT ![q] = "pending"] /\ op' = OpAt(c, "accepted", 0)
       ELSE UNCHANGED row /\ op' = OpAt(c, "unknown", 0)
    /\ UNCHANGED <<receipt, inFlight>>

\* A handler returns.  The failures of an accepted start are answers too.
Returns(c) ==
    /\ \/ op[c].at = "begun" /\ op[c].req \notin Atomic
       \/ op[c].at \in {"recorded", "accepted"}
    /\ op' = OpAt(c, "returned", 2)
    /\ UNCHANGED <<row, receipt, inFlight>>

\* A handler throws: after its acceptance a start does so when the dispatch
\* it has to settle has been stopped meanwhile.
Throws(c) ==
    /\ op[c].at \in {"begun", "recorded", "accepted"}
    /\ \E s \in {"threw", "unknown"} : op' = OpAt(c, s, 0)
    /\ UNCHANGED <<row, receipt, inFlight>>

\* A bug: the daemon clears the pending receipts when it starts.
ReceiptsRestartClears ==
    /\ row' = [q \in Request |-> IF row[q] = "pending" THEN "none" ELSE row[q]]
    /\ op' = [c \in Call |-> IdleCall]
    /\ inFlight' = [q \in Request |-> NoCall]
    /\ UNCHANGED receipt

\* The daemon dies: calls and the in-flight table go, the receipts stay.
ReceiptsRestart ==
    /\ op' = [c \in Call |-> IdleCall]
    /\ inFlight' = [q \in Request |-> NoCall]
    /\ UNCHANGED <<row, receipt>>

ReceiptsNext ==
    \/ \E c \in Call, q \in Request : run(c, q)
    \/ \E c \in Call :
        Finish(c) \/ recordReceipt(c) \/ AcceptWorker(c) \/ Returns(c) \/ Throws(c)
    \/ ReceiptsRestart

ReceiptsSpec == ReceiptsInit /\ [][ReceiptsNext]_receiptVars
-----------------------------------------------------------------------------
ReceiptTypeOK ==
    /\ row \in [Request -> {"none", "pending", "completed"}]
    /\ receipt \in [Request -> Nat]
    /\ op \in [Call -> [req : Request \cup {NoRequest}, at : Stage, answer : Nat]]
    /\ inFlight \in [Request -> Call \cup {NoCall}]

\* Two handlers never run for one plain request: the pending receipt that the
\* first call leaves (orchestration-mutation-executor.ts:63, layer-3:39-75)
\* keeps the others out until it has ended, or for ever after a restart.
OneHandlerPerRequest ==
    \A c, d \in Call :
        c # d /\ op[c].req = op[d].req => op[c].req \in Atomic \cup {NoRequest}

\* A second call is told that the first was accepted "before restart" only
\* when the daemon has restarted: a call in flight can be joined.
InFlightIsJoined ==
    \A c \in Call :
        op[c].req \in Request \ Atomic => inFlight[op[c].req] = c

\* A worker that has been accepted and whose call still runs has its
\* acceptance record, "a durable acceptance record" for
\* orchestration-db-layer-7.ts:40, so that no retry starts another.
AcceptanceIsRecorded ==
    \A c \in Call :
        op[c].at = "accepted" => row[op[c].req] # "none"
=============================================================================
