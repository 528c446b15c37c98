-------------------------- MODULE RunMailboxProofs --------------------------
(***************************************************************************)
(* Proofs about RunMailbox, for every set of requests, calls, runs, panes  *)
(* and types, every page and every bound.                                  *)
(*                                                                         *)
(* Most steps are those of a handler: the executor's receipts and table    *)
(* stay, and each call stays in flight (Moves).  First the executor: one   *)
(* handler per request, and its effect once.  Then the consumers of a run  *)
(* and the checks that wait.                                               *)
(***************************************************************************)
EXTENDS RunMailbox, TLAPS

OpRecord == [req : Request \cup {NoRequest}, at : Stage, answer : Nat]

\* The executor's rows and table.
ExecutorType ==
    /\ row \in [Request -> {"none", "pending", "completed"}]
    /\ receipt \in [Request -> Nat]
    /\ op \in [Call -> OpRecord]
    /\ inFlight \in [Request -> Call \cup {NoCall}]

\* next has the calls of op, some of them at a later stage.
Moves(next) ==
    /\ next \in [Call -> OpRecord]
    /\ \A d \in Call : /\ next[d].req = op[d].req
                       /\ next[d].at = "idle" <=> op[d].at = "idle"
                       /\ op[d].at = "returned" => next[d].at = "returned"

LEMMA OpAtMoves ==
    ASSUME ExecutorType, NEW c \in Call, op[c].at \notin {"idle", "returned"},
           NEW s \in Stage \ {"idle"}, NEW a \in Nat
    PROVE  Moves(OpAt(c, s, a))
BY DEF ExecutorType, OpRecord, Moves, OpAt

LEMMA OpStays == ExecutorType => Moves(op)
BY DEF ExecutorType, Moves

LEMMA NotifyMoves ==
    ASSUME ExecutorType, NEW next, Moves(next), NEW r, NEW t
    PROVE  Moves(notifyMessageArrived(r, t, next))
BY DEF ExecutorType, OpRecord, Moves, notifyMessageArrived, Waiting, Stage

LEMMA CancelMoves ==
    ASSUME ExecutorType, NEW next, Moves(next), NEW runs
    PROVE  Moves(cancelMessageWaiters(runs, next))
BY DEF ExecutorType, OpRecord, Moves, cancelMessageWaiters, Waiting, Stage

-----------------------------------------------------------------------------
\* The executor.  A handler runs only for a request whose receipt is pending,
\* and has sent nothing before it returns.
ExecutorInv ==
    /\ ExecutorType
    /\ \A c \in Call : op[c].at = "idle" <=> op[c].req = NoRequest
    /\ \A c \in Call : op[c].req \in Request => row[op[c].req] = "pending"
    /\ \A c, d \in Call : c # d /\ op[c].req = op[d].req => op[c].req = NoRequest
    /\ \A c \in Call : op[c].req \in Request => inFlight[op[c].req] = c

SentInv ==
    /\ sent \in [Request -> Nat]
    /\ \A q \in Request : sent[q] <= 1 /\ (row[q] = "none" => sent[q] = 0)
    /\ \A c \in Call : op[c].req \in Request /\ op[c].at # "returned" => sent[op[c].req] = 0

LEMMA ExecutorInit == MailboxInit => ExecutorInv /\ SentInv
BY ReceiptAssumption
   DEF ReceiptAssumption, MailboxInit, ReceiptsInit, ExecutorInv, SentInv, ExecutorType, OpRecord, IdleCall, Stage

LEMMA HandlerKeepsExecutor ==
    ASSUME ExecutorInv, SentInv, Moves(op'), UNCHANGED <<row, receipt, inFlight>>,
           \/ sent' = sent
           \/ \E c \in Call : /\ op[c].at = "begun" /\ op'[c].at = "returned"
                              /\ sent' = [sent EXCEPT ![op[c].req] = @ + 1]
    PROVE  ExecutorInv' /\ SentInv'
<1>1. ExecutorInv'
  BY DEF ExecutorInv, ExecutorType, Moves
<1>2. CASE sent' = sent
  BY <1>1, <1>2 DEF ExecutorInv, SentInv, Moves
<1>3. ASSUME NEW c \in Call, op[c].at = "begun", op'[c].at = "returned",
             sent' = [sent EXCEPT ![op[c].req] = @ + 1]
      PROVE  SentInv'
  <2>1. op[c].req \in Request /\ row[op[c].req] = "pending" /\ sent[op[c].req] = 0
    BY <1>3 DEF ExecutorInv, SentInv, ExecutorType, OpRecord
  <2>2. sent' \in [Request -> Nat]
    BY <1>3, <2>1 DEF SentInv
  <2>3. \A q \in Request : sent'[q] <= 1 /\ (row'[q] = "none" => sent'[q] = 0)
    BY <1>3, <2>1 DEF SentInv
  <2>4. ASSUME NEW d \in Call, op'[d].req \in Request, op'[d].at # "returned"
        PROVE  sent'[op'[d].req] = 0
    <3>1. d # c /\ op'[d].req = op[d].req /\ op[d].at # "returned"
      BY <1>3, <2>4 DEF Moves
    <3>2. op[d].req # op[c].req
      BY <2>1, <2>4, <3>1, ReceiptAssumption DEF ExecutorInv, ReceiptAssumption
    <3>3. QED
      BY <1>3, <2>4, <3>1, <3>2 DEF SentInv
  <2>5. QED
    BY <2>2, <2>3, <2>4 DEF SentInv
<1>4. QED
  BY <1>1, <1>2, <1>3

-----------------------------------------------------------------------------
\* The mailbox and its deliveries.
Message == [type : Type, read : BOOLEAN]
Delivery == [run : Run, generation : Nat, messages : SUBSET Nat,
             status : {"outstanding", "acknowledged", "fenced", "deleted"}]
Check == [run : Run, generation : Nat, types : Filters] \cup {NoCheck}
Box == [Run -> Seq(Message)]

MailType ==
    /\ inbox \in Box
    /\ generation \in [Run -> Nat]
    /\ bound \in [Run -> Pane \cup {NoPane}]
    /\ deliveries \in Seq(Delivery)
    /\ checking \in [Call -> Check]

LEMMA NoCheckType == NoCheck \in Check
BY DEF Check

\* A check of some generation is one of a run.
LEMMA CheckNamesRun ==
    ASSUME MailType, NEW c \in Call
    PROVE  /\ checking[c] \in Check /\ checking[c].generation \in Nat
           /\ checking[c].generation > 0 => checking[c].run \in Run
<1>1. NoCheck.generation = 0
  BY DEF NoCheck
<1>2. QED
  BY <1>1 DEF MailType, Check

LEMMA MailInit == MailboxInit => MailType
BY NoCheckType DEF MailboxInit, MailType, Box

\* What a read of the mailbox does: it opens a delivery only when the run has
\* none open, and goes to sleep only over an empty mailbox.
ReadEffect(c, r, types, box, ds, s) ==
    \E x \in {"returned", "threw", s}, a \in Nat :
        /\ op' = OpAt(c, x, a)
        /\ x \in {"waiting", "refused"} => deliveries' = ds /\ Matching(r, types, box) = {}
        /\ \/ deliveries' = ds
           \/ \E d \in Delivery :
                /\ d.run = r /\ d.generation = generation[r]
                /\ deliveries' = Append(ds, d)
                /\ \A i \in DOMAIN ds : ds[i].run # r \/ ds[i].status # "outstanding"

LEMMA ReadIsEffect ==
    ASSUME MailType, NEW c \in Call, NEW r \in Run, NEW types, NEW box \in Box,
           NEW ds \in Seq(Delivery), NEW s, readDelivery(c, r, types, box, ds, s)
    PROVE  ReadEffect(c, r, types, box, ds, s)
<1> DEFINE open == {i \in DOMAIN ds : ds[i].run = r /\ ds[i].status = "outstanding"}
<1>1. /\ DOMAIN ds = 1..Len(ds) /\ Len(ds) \in Nat
      /\ \A i \in DOMAIN ds : i \in Nat
      /\ 0 \in Nat /\ Len(ds) + 1 \in Nat
  OBVIOUS
<1>2. ASSUME NEW i \in open, deliveries' = ds,
             op' = IF ds[i].generation = generation[r] THEN OpAt(c, "returned", i) ELSE OpAt(c, "threw", 0)
      PROVE  ReadEffect(c, r, types, box, ds, s)
  BY <1>1, <1>2 DEF ReadEffect
<1>3. CASE /\ open = {} /\ op' = OpAt(c, "returned", Len(ds) + 1)
           /\ deliveries' = Append(ds, [run |-> r, generation |-> generation[r],
                                        messages |-> Page(Unread(r, box)), status |-> "outstanding"])
  <2> DEFINE d == [run |-> r, generation |-> generation[r],
                   messages |-> Page(Unread(r, box)), status |-> "outstanding"]
  <2>1. Page(Unread(r, box)) \in SUBSET Nat
    <3>1. box[r] \in Seq(Message)
      BY DEF Box
    <3>2. DOMAIN box[r] \subseteq Nat
      BY <3>1
    <3>3. QED
      BY <3>2 DEF Page, Unread
  <2>2. generation[r] \in Nat
    BY DEF MailType
  <2>3. d \in Delivery /\ d.run = r /\ d.generation = generation[r]
    BY <2>1, <2>2 DEF Delivery
  <2>4. \A i \in DOMAIN ds : ds[i].run # r \/ ds[i].status # "outstanding"
    BY <1>3
  <2>5. deliveries' = Append(ds, d)
    BY <1>3
  <2> HIDE DEF d
  <2>6. QED
    BY <1>1, <1>3, <2>3, <2>4, <2>5 DEF ReadEffect
<1>4. CASE deliveries' = ds /\ op' = OpAt(c, s, 0) /\ Matching(r, types, box) = {}
  BY <1>1, <1>4 DEF ReadEffect
<1>5. QED
  BY <1>2, <1>3, <1>4 DEF readDelivery

\* An acknowledgement, a reply or a report only marks messages read, and an
\* acknowledgement only closes a delivery.
LessUnread(box) == \A o \in Run : \A types : Matching(o, types, box) \subseteq Matching(o, types, inbox)
Closes(ds) ==
    /\ DOMAIN ds = DOMAIN deliveries
    /\ \A i \in DOMAIN ds : /\ ds[i].run = deliveries[i].run
                            /\ ds[i].generation = deliveries[i].generation
                            /\ ds[i].status = "outstanding" => deliveries[i].status = "outstanding"

LEMMA MarkReadType ==
    ASSUME MailType, NEW r \in Run, NEW held
    PROVE  MarkRead(r, held) \in Box /\ LessUnread(MarkRead(r, held))
<1> DEFINE old == inbox[r]
           new == [i \in DOMAIN old |-> [type |-> old[i].type, read |-> old[i].read \/ i \in held]]
<1>1. MarkRead(r, held) = [inbox EXCEPT ![r] = new]
  BY DEF MarkRead
<1>2. old \in Seq(Message) /\ DOMAIN old = 1..Len(old) /\ Len(old) \in Nat
  BY DEF MailType, Box
<1>3. ASSUME NEW i \in DOMAIN old
      PROVE  /\ new[i] \in Message
             /\ new[i].type = old[i].type
             /\ old[i].read => new[i].read
  <2>1. old[i] \in Message
    BY <1>2, <1>3
  <2>2. new[i] = [type |-> old[i].type, read |-> old[i].read \/ i \in held]
    BY Zenon
  <2>3. (old[i].read \/ i \in held) \in BOOLEAN /\ old[i].type \in Type
    BY <2>1, Zenon DEF Message
  <2>4. new[i].type = old[i].type /\ new[i].read = (old[i].read \/ i \in held)
    BY <2>2, Zenon
  <2> HIDE DEF new
  <2>5. QED
    BY <2>2, <2>3, <2>4, Zenon DEF Message
<1>4. new \in Seq(Message) /\ DOMAIN new = DOMAIN old
  <2>1. DOMAIN new = 1..Len(old) /\ \A i \in 1..Len(old) : new[i] \in Message
    BY <1>2, <1>3
  <2>2. new = [i \in 1..Len(old) |-> new[i]]
    BY <1>2
  <2> HIDE DEF new
  <2>3. QED
    BY <1>2, <2>1, <2>2
<1>5. MarkRead(r, held) \in Box
  <2> HIDE DEF new
  <2>1. QED
    BY <1>1, <1>4 DEF MailType, Box
<1>6. ASSUME NEW o \in Run, NEW types
      PROVE  Matching(o, types, MarkRead(r, held)) \subseteq Matching(o, types, inbox)
  <2>1. CASE o = r
    <3>1. MarkRead(r, held)[o] = new
      BY <1>1, <2>1 DEF MailType, Box
    <3> HIDE DEF new
    <3>2. QED
      BY <1>3, <1>4, <2>1, <3>1, Zenon DEF Matching, Unread
  <2>2. CASE o # r
    <3>1. MarkRead(r, held)[o] = inbox[o]
      BY <1>1, <2>2 DEF MailType, Box
    <3>2. QED
      BY <3>1, Zenon DEF Matching, Unread
  <2>3. QED
    BY <2>1, <2>2
<1>7. QED
  BY <1>5, <1>6 DEF LessUnread

LEMMA AcknowledgedType ==
    ASSUME MailType, NEW k
    PROVE  /\ [deliveries EXCEPT ![k].status = "acknowledged"] \in Seq(Delivery)
           /\ Closes([deliveries EXCEPT ![k].status = "acknowledged"])
<1> DEFINE ds == [deliveries EXCEPT ![k].status = "acknowledged"]
<1>1. /\ deliveries \in Seq(Delivery) /\ Len(deliveries) \in Nat
      /\ DOMAIN ds = 1..Len(deliveries) /\ DOMAIN deliveries = 1..Len(deliveries)
  BY DEF MailType
<1>2. ASSUME NEW i \in 1..Len(deliveries)
      PROVE  /\ ds[i] \in Delivery
             /\ ds[i].run = deliveries[i].run /\ ds[i].generation = deliveries[i].generation
             /\ ds[i].status = "outstanding" => deliveries[i].status = "outstanding"
  <2>1. deliveries[i] \in Delivery
    BY <1>1
  <2>2. ds[i] = IF i = k THEN [deliveries[i] EXCEPT !.status = "acknowledged"] ELSE deliveries[i]
    BY <1>1
  <2> HIDE DEF ds
  <2>3. QED
    BY <2>1, <2>2 DEF Delivery
<1>3. ds = [i \in 1..Len(deliveries) |-> ds[i]]
  BY <1>1
<1> HIDE DEF ds
<1>4. ds \in Seq(Delivery) /\ Closes(ds)
  BY <1>1, <1>2, <1>3 DEF Closes
<1>5. QED
  BY <1>4 DEF ds

\* The way of a check to its answer.
AnswerEffect(c, r, types, box, ds) ==
    /\ inbox' = box
    /\ \/ deliveries' = ds /\ op' = OpAt(c, "returned", 0)
       \/ \E s \in {"returned", "refused"} : ReadEffect(c, r, types, box, ds, s)
       \/ Waiting(r) = {} /\ ReadEffect(c, r, types, box, ds, "waiting")
    /\ checking' = IF op'[c].at \in {"waiting", "refused"}
                   THEN [checking EXCEPT ![c] = [run |-> r, generation |-> generation[r], types |-> types]]
                   ELSE checking

LEMMA AnswerIsEffect ==
    ASSUME MailType, NEW c \in Call, NEW r \in Run, NEW a, NEW box \in Box,
           NEW ds \in Seq(Delivery), Answer(c, a, r, box, ds)
    PROVE  AnswerEffect(c, r, a.types, box, ds)
<1>1. CASE deliveries' = ds /\ op' = OpAt(c, "returned", 0)
  BY <1>1 DEF Answer, AnswerEffect
<1>2. ASSUME NEW s, readDelivery(c, r, a.types, box, ds, s),
             s \in {"returned", "refused"} \/ (s = "waiting" /\ Waiting(r) = {})
      PROVE  AnswerEffect(c, r, a.types, box, ds)
  <2>1. ReadEffect(c, r, a.types, box, ds, s)
    BY <1>2, ReadIsEffect
  <2>2. QED
    BY <1>2, <2>1, Zenon DEF Answer, AnswerEffect
<1>3. QED
  <2>1. CASE a.mode = "peek"
    BY <1>1, <2>1 DEF Answer
  <2>2. CASE a.mode = "read"
    BY <1>2, <2>2, Zenon DEF Answer
  <2>3. CASE a.mode # "peek" /\ a.mode # "read" /\ Waiting(r) = {}
    BY <1>2, <2>3, Zenon DEF Answer
  <2>4. CASE a.mode # "peek" /\ a.mode # "read" /\ Waiting(r) # {}
    BY <1>2, <2>4, Zenon DEF Answer
  <2>5. QED
    BY <2>1, <2>2, <2>3, <2>4

CheckEffect(c, p) ==
    \/ /\ \E x \in {"threw", "returned"} : op' = OpAt(c, x, 0)
       /\ UNCHANGED <<inbox, deliveries, checking>>
    \/ \E r \in CurrentRuns(p), types \in Filters, box \in Box, ds \in Seq(Delivery) :
            LessUnread(box) /\ Closes(ds) /\ AnswerEffect(c, r, types, box, ds)

LEMMA CheckIsEffect ==
    ASSUME MailType, NEW c \in Call, NEW p \in Pane, handleOrchestrationCheck(c, p)
    PROVE  CheckEffect(c, p)
<1>1. CASE CurrentRuns(p) = {}
  BY <1>1 DEF handleOrchestrationCheck, CheckEffect
<1>2. ASSUME NEW r \in CurrentRuns(p), NEW a \in ChecksOf(p), NEW box \in Box, NEW ds \in Seq(Delivery),
             LessUnread(box), Closes(ds), Answer(c, a, r, box, ds)
      PROVE  CheckEffect(c, p)
  <2>1. r \in Run /\ a.types \in Filters
    BY DEF CurrentRuns, ChecksOf
  <2>2. AnswerEffect(c, r, a.types, box, ds)
    BY <1>2, <2>1, AnswerIsEffect
  <2>3. QED
    BY <1>2, <2>1, <2>2 DEF CheckEffect
<1>3. /\ inbox \in Box /\ LessUnread(inbox)
      /\ deliveries \in Seq(Delivery) /\ Closes(deliveries)
  BY DEF MailType, LessUnread, Closes
<1>4. ASSUME NEW r \in CurrentRuns(p), NEW a \in ChecksOf(p), Answer(c, a, r, inbox, deliveries)
      PROVE  CheckEffect(c, p)
  BY <1>2, <1>3, <1>4
<1>5. ASSUME NEW r \in CurrentRuns(p), NEW a \in ChecksOf(p),
             Answer(c, a, r, MarkRead(r, deliveries[a.ack].messages),
                    [deliveries EXCEPT ![a.ack].status = "acknowledged"])
      PROVE  CheckEffect(c, p)
  <2>1. r \in Run
    BY DEF CurrentRuns
  <2>2. QED
    BY <1>2, <1>5, <2>1, MarkReadType, AcknowledgedType
<1>6. ASSUME NEW r \in CurrentRuns(p), NEW a \in ChecksOf(p), acknowledgeRunDelivery(c, a, r)
      PROVE  CheckEffect(c, p)
  <2>1. CASE op' = OpAt(c, "threw", 0) /\ UNCHANGED <<inbox, deliveries, checking>>
    BY <2>1 DEF CheckEffect
  <2>2. QED
    BY <1>4, <1>5, <1>6, <2>1, Zenon DEF acknowledgeRunDelivery
<1>7. QED
  BY <1>1, <1>4, <1>6, Zenon DEF handleOrchestrationCheck

-----------------------------------------------------------------------------
\* The steps of the executor.
LEMMA ReadMoves ==
    ASSUME ExecutorType, NEW c \in Call, op[c].at \notin {"idle", "returned"}, NEW s \in Stage \ {"idle"},
           NEW r, NEW types, NEW box, NEW ds, ReadEffect(c, r, types, box, ds, s)
    PROVE  Moves(op')
<1>1. PICK x \in {"returned", "threw", s}, a \in Nat : op' = OpAt(c, x, a)
  BY DEF ReadEffect
<1>2. x \in Stage \ {"idle"}
  BY DEF Stage
<1>3. QED
  BY <1>1, <1>2, OpAtMoves

LEMMA CheckMoves ==
    ASSUME ExecutorType, MailType, NEW c \in Call, NEW p \in Pane, handleOrchestrationCheck(c, p)
    PROVE  Moves(op')
<1>1. op[c].at \notin {"idle", "returned"}
  BY DEF handleOrchestrationCheck
<1>2. {"returned", "threw", "refused", "waiting"} \subseteq Stage \ {"idle"} /\ 0 \in Nat
  BY DEF Stage
<1>3. CASE \E x \in {"threw", "returned"} : op' = OpAt(c, x, 0)
  BY <1>1, <1>2, <1>3, OpAtMoves
<1>4. ASSUME NEW r, NEW types, NEW box, NEW ds, AnswerEffect(c, r, types, box, ds)
      PROVE  Moves(op')
  <2>1. CASE op' = OpAt(c, "returned", 0)
    BY <1>1, <1>2, <2>1, OpAtMoves
  <2>2. ASSUME NEW s \in {"returned", "refused", "waiting"}, ReadEffect(c, r, types, box, ds, s)
        PROVE  Moves(op')
    BY <1>1, <1>2, <2>2, ReadMoves
  <2>3. QED
    BY <1>4, <2>1, <2>2 DEF AnswerEffect
<1>5. QED
  BY <1>3, <1>4, CheckIsEffect DEF CheckEffect

LEMMA ResumeMoves ==
    ASSUME ExecutorType, MailType, NEW c \in Call, ResumeCheck(c)
    PROVE  Moves(op')
<1>1. op[c].at \notin {"idle", "returned"}
  BY DEF ResumeCheck
<1>2. {"returned", "threw"} \subseteq Stage \ {"idle"} /\ 0 \in Nat
  BY DEF Stage
<1>3. CASE \E x \in {"threw", "returned"} : op' = OpAt(c, x, 0)
  BY <1>1, <1>2, <1>3, OpAtMoves
<1>4. CASE readDelivery(c, checking[c].run, Filter(c), inbox, deliveries, "returned")
  <2>1. checking[c].run \in Run /\ inbox \in Box /\ deliveries \in Seq(Delivery)
    BY DEF MailType, ResumeCheck
  <2>2. ReadEffect(c, checking[c].run, Filter(c), inbox, deliveries, "returned")
    BY <1>4, <2>1, ReadIsEffect
  <2>3. QED
    BY <1>1, <1>2, <2>2, ReadMoves
<1>5. QED
  BY <1>3, <1>4, Zenon DEF ResumeCheck

\* A handler, or a message that wakes one.
LEMMA ExecutorHandlerStep ==
    ASSUME ExecutorInv, SentInv, MailType,
           \/ \E r \in Run, t \in Type : MessageArrives(r, t)
           \/ \E c \in Call : WaitEnds(c) \/ ResumeCheck(c) \/ handleOrchestrationReset(c)
           \/ \E c \in Call, p \in Pane : handleOrchestrationCheck(c, p) \/ handleOrchestrationRunCreate(c, p)
           \/ \E c \in Call, r \in Run : \/ \E t \in Type : handleOrchestrationSend(c, r, t)
                                         \/ \E i \in 1 .. MaxMessages : handleOrchestrationReply(c, r, i)
                                         \/ \E p \in Pane : handleOrchestrationRunUse(c, p, r)
           \/ \E p \in Pane : PaneReopens(p)
    PROVE  ExecutorInv' /\ SentInv' /\ UNCHANGED <<row, receipt>>
<1> USE DEF ExecutorInv
<1>0. {"returned", "threw", "cancelled"} \subseteq Stage \ {"idle"} /\ 0 \in Nat
  BY DEF Stage
<1>1. ASSUME NEW r \in Run, NEW t \in Type, MessageArrives(r, t)
      PROVE  Moves(op') /\ UNCHANGED <<row, receipt, inFlight, sent>>
  BY <1>1, OpStays, NotifyMoves DEF MessageArrives
<1>2. ASSUME NEW c \in Call, WaitEnds(c)
      PROVE  Moves(op') /\ UNCHANGED <<row, receipt, inFlight, sent>>
  BY <1>0, <1>2, OpAtMoves DEF WaitEnds, HandlerLeaves
<1>3. ASSUME NEW c \in Call, ResumeCheck(c)
      PROVE  Moves(op') /\ UNCHANGED <<row, receipt, inFlight, sent>>
  BY <1>3, ResumeMoves DEF ResumeCheck, HandlerLeaves
<1>4. ASSUME NEW c \in Call, NEW p \in Pane, handleOrchestrationCheck(c, p)
      PROVE  Moves(op') /\ UNCHANGED <<row, receipt, inFlight, sent>>
  BY <1>4, CheckMoves DEF handleOrchestrationCheck, HandlerLeaves
<1>5. ASSUME NEW c \in Call, NEW p \in Pane, handleOrchestrationRunCreate(c, p)
      PROVE  Moves(op') /\ UNCHANGED <<row, receipt, inFlight, sent>>
  <2>1. Moves(OpAt(c, "returned", 0))
    BY <1>0, <1>5, OpAtMoves DEF handleOrchestrationRunCreate
  <2>2. QED
    BY <1>5, <2>1, CancelMoves DEF handleOrchestrationRunCreate, HandlerLeaves
<1>6. ASSUME NEW c \in Call, NEW r \in Run, NEW p \in Pane, handleOrchestrationRunUse(c, p, r)
      PROVE  Moves(op') /\ UNCHANGED <<row, receipt, inFlight, sent>>
  <2>1. Moves(OpAt(c, "returned", 0)) /\ Moves(OpAt(c, "threw", 0))
    BY <1>0, <1>6, OpAtMoves DEF handleOrchestrationRunUse
  <2>2. QED
    BY <1>6, <2>1, CancelMoves DEF handleOrchestrationRunUse, HandlerLeaves
<1>7. ASSUME NEW c \in Call, NEW r \in Run, NEW t \in Type, handleOrchestrationSend(c, r, t)
      PROVE  /\ Moves(op') /\ UNCHANGED <<row, receipt, inFlight>>
             /\ \/ sent' = sent
                \/ /\ op[c].at = "begun" /\ op'[c].at = "returned"
                   /\ sent' = [sent EXCEPT ![op[c].req] = @ + 1]
  <2>1. Moves(OpAt(c, "returned", 0)) /\ Moves(OpAt(c, "threw", 0)) /\ op[c].at = "begun"
    BY <1>0, <1>7, OpAtMoves DEF handleOrchestrationSend
  <2>2. CASE op' = OpAt(c, "threw", 0) /\ UNCHANGED <<sent, inbox>>
    BY <1>7, <2>1, <2>2 DEF handleOrchestrationSend, HandlerLeaves
  <2>3. CASE /\ op' \in {notifyMessageArrived(r, t, OpAt(c, "returned", 0)), OpAt(c, "returned", 0)}
             /\ sent' = [sent EXCEPT ![op[c].req] = @ + 1]
    <3>1. op'[c].at = "returned"
      BY <2>1, <2>3 DEF notifyMessageArrived, Waiting, OpAt, ExecutorType, OpRecord
    <3>2. Moves(op')
      BY <2>1, <2>3, NotifyMoves
    <3>3. QED
      BY <1>7, <2>1, <2>3, <3>1, <3>2 DEF handleOrchestrationSend, HandlerLeaves
  <2>4. QED
    BY <1>7, <2>2, <2>3 DEF handleOrchestrationSend
<1>8. ASSUME NEW p \in Pane, PaneReopens(p)
      PROVE  Moves(op') /\ UNCHANGED <<row, receipt, inFlight, sent>>
  BY <1>8, OpStays DEF PaneReopens, receiptVars
<1>9. ASSUME NEW c \in Call, handleOrchestrationReset(c)
      PROVE  Moves(op') /\ UNCHANGED <<row, receipt, inFlight, sent>>
  BY <1>0, <1>9, OpAtMoves DEF handleOrchestrationReset, HandlerLeaves
<1>10. ASSUME NEW c \in Call, NEW r \in Run, NEW i, handleOrchestrationReply(c, r, i)
       PROVE  Moves(op') /\ UNCHANGED <<row, receipt, inFlight, sent>>
  BY <1>0, <1>10, OpAtMoves DEF handleOrchestrationReply, HandlerLeaves
<1>11. /\ Moves(op') /\ UNCHANGED <<row, receipt, inFlight>>
       /\ \/ sent' = sent
          \/ \E c \in Call : /\ op[c].at = "begun" /\ op'[c].at = "returned"
                             /\ sent' = [sent EXCEPT ![op[c].req] = @ + 1]
  BY <1>1, <1>2, <1>3, <1>4, <1>5, <1>6, <1>7, <1>8, <1>9, <1>10
<1>12. QED
  BY <1>11, HandlerKeepsExecutor

\* A request is taken up, ended, forgotten, or cut by a restart.
LEMMA ExecutorOwnStep ==
    ASSUME ExecutorInv, SentInv,
           \/ \E c \in Call, q \in Request : CallRequest(c, q)
           \/ \E c \in Call : CallEnds(c)
           \/ \E q \in Request : Replay(q) \/ Forget(q)
           \/ MailboxRestart
    PROVE  ExecutorInv' /\ SentInv'
<1> USE ReceiptAssumption, MailboxAssumption DEF ReceiptAssumption, MailboxAssumption
<1>1. ASSUME NEW c \in Call, NEW q \in Request, CallRequest(c, q)
      PROVE  ExecutorInv' /\ SentInv'
  <2>1. /\ op' = [op EXCEPT ![c] = [req |-> q, at |-> "begun", answer |-> 0]]
        /\ row' = [row EXCEPT ![q] = "pending"] /\ inFlight' = [inFlight EXCEPT ![q] = c]
        /\ receipt' = receipt /\ sent' = sent /\ row[q] = "none"
    BY <1>1 DEF CallRequest, run
  <2>2. ExecutorType'
    BY <2>1 DEF ExecutorInv, ExecutorType, OpRecord, Stage
  <2>3. \A d \in Call : op[d].req # q
    BY <2>1 DEF ExecutorInv
  <2>4. op'[c].req = q /\ op'[c].at = "begun" /\ \A d \in Call : d # c => op'[d] = op[d]
    BY <2>1 DEF ExecutorInv, ExecutorType
  <2>5. ExecutorInv'
    BY <2>1, <2>2, <2>3, <2>4 DEF ExecutorInv, ExecutorType
  <2>6. QED
    BY <2>1, <2>4, <2>5 DEF ExecutorInv, ExecutorType, SentInv
<1>2. ASSUME NEW c \in Call, CallEnds(c)
      PROVE  ExecutorInv' /\ SentInv'
  <2> DEFINE q == op[c].req
  <2>1. q \in Request /\ row[q] = "pending" /\ sent' = sent
    BY <1>2 DEF CallEnds, Finish, Complete, Discard, ExecutorInv, ExecutorType, OpRecord
  <2>2. /\ op' = [op EXCEPT ![c] = IdleCall] /\ inFlight' = [inFlight EXCEPT ![q] = NoCall]
        /\ \/ row' = [row EXCEPT ![q] = "completed"] /\ receipt' = [receipt EXCEPT ![q] = op[c].answer]
           \/ row' = [row EXCEPT ![q] = "none"] /\ receipt' = receipt /\ op[c].at = "threw"
           \/ row' = row /\ receipt' = receipt
    BY <1>2, <2>1 DEF CallEnds, Finish, Complete, Discard, ExecutorInv, ExecutorType
  <2>3. op[c].answer \in Nat /\ IdleCall \in OpRecord
    BY DEF ExecutorInv, ExecutorType, OpRecord, IdleCall, Stage
  <2>4. ExecutorType'
    BY <2>1, <2>2, <2>3 DEF ExecutorInv, ExecutorType
  <2>5. op'[c] = IdleCall /\ \A d \in Call : d # c => op'[d] = op[d] /\ op[d].req # q
    BY <2>1, <2>2 DEF ExecutorInv, ExecutorType
  <2>6. ExecutorInv'
    BY <2>1, <2>2, <2>4, <2>5 DEF ExecutorInv, ExecutorType, IdleCall
  <2>7. op[c].at = "threw" => sent[q] = 0
    BY <2>1 DEF SentInv
  <2>8. QED
    BY <2>1, <2>2, <2>5, <2>6, <2>7 DEF SentInv, ExecutorInv, ExecutorType, IdleCall
<1>3. ASSUME NEW q \in Request, Replay(q)
      PROVE  ExecutorInv' /\ SentInv'
  BY <1>3 DEF Replay, receiptVars, ExecutorInv, ExecutorType, SentInv
<1>4. ASSUME NEW q \in Request, Forget(q)
      PROVE  ExecutorInv' /\ SentInv'
  <2>1. /\ row' = [row EXCEPT ![q] = "none"] /\ receipt' = [receipt EXCEPT ![q] = 0]
        /\ sent' = [sent EXCEPT ![q] = 0] /\ UNCHANGED <<op, inFlight>>
        /\ \A c \in Call : op[c].req # q
    BY <1>4 DEF Forget
  <2>2. ExecutorInv'
    BY <2>1 DEF ExecutorInv, ExecutorType
  <2>3. QED
    BY <2>1, <2>2 DEF ExecutorInv, ExecutorType, SentInv
<1>5. CASE MailboxRestart
  <2>1. /\ op' = [c \in Call |-> IdleCall] /\ inFlight' = [q \in Request |-> NoCall]
        /\ UNCHANGED <<row, receipt, sent>>
    BY <1>5 DEF MailboxRestart, ReceiptsRestart
  <2>2. IdleCall \in OpRecord /\ IdleCall.req = NoRequest /\ IdleCall.at = "idle"
    BY DEF OpRecord, IdleCall, Stage
  <2>3. ExecutorInv'
    BY <2>1, <2>2 DEF ExecutorInv, ExecutorType
  <2>4. QED
    BY <2>1, <2>2, <2>3 DEF ExecutorInv, ExecutorType, SentInv
<1>6. QED
  BY <1>1, <1>2, <1>3, <1>4, <1>5

-----------------------------------------------------------------------------
\* Consumers: the delivery, the waiting check and the pane of a run.
OneOutstanding(ds, gen) ==
    \A i \in DOMAIN ds : ds[i].status = "outstanding" =>
        /\ ds[i].generation = gen[ds[i].run]
        /\ \A j \in DOMAIN ds : ds[j].status = "outstanding" /\ ds[j].run = ds[i].run => j = i

IsWaiting(c) == op[c].at = "waiting"

WaitersInv ==
    \A c \in Call : IsWaiting(c) =>
        /\ generation[checking[c].run] \in {0, checking[c].generation}
        /\ checking[c].generation > 0
        /\ \A d \in Call : IsWaiting(d) /\ checking[d].run = checking[c].run => d = c

BoundInv ==
    /\ \A r \in Run : bound[r] # NoPane => generation[r] > 0
    /\ \A r, s \in Run : bound[r] = bound[s] => r = s \/ bound[r] = NoPane

WakeInv == \A c \in Call : IsWaiting(c) => Matching(checking[c].run, checking[c].types, inbox) = {}

ConsumerInv == OneOutstanding(deliveries, generation) /\ WaitersInv /\ BoundInv

LEMMA ConsumerInit == MailboxInit => ConsumerInv /\ WakeInv
BY DEF MailboxInit, ReceiptsInit, IdleCall, ConsumerInv, OneOutstanding, WaitersInv, BoundInv, WakeInv, IsWaiting

\* Nobody starts to wait, and the runs of those who still do are as before, or
\* deleted.
Awake == \A c \in Call : IsWaiting(c)' =>
            /\ IsWaiting(c) /\ checking'[c] = checking[c]
            /\ generation'[checking[c].run] \in {0, generation[checking[c].run]}

LEMMA AwakeKeeps ==
    ASSUME WaitersInv, Awake
    PROVE  WaitersInv'
BY DEF WaitersInv, Awake

LEMMA AwakeSleepsSound ==
    ASSUME WakeInv, Awake, inbox' = inbox
    PROVE  WakeInv'
<1>1. \A r, types : Matching(r, types, inbox)' = Matching(r, types, inbox)
  BY DEF Matching, Unread
<1>2. QED
  BY <1>1 DEF WakeInv, Awake

\* A step that leaves the runs and deliveries alone.
LEMMA QuietStep ==
    ASSUME MailType, ConsumerInv, Awake, UNCHANGED <<generation, bound, deliveries>>,
           inbox' \in Box, checking' \in [Call -> Check]
    PROVE  MailType' /\ ConsumerInv'
BY AwakeKeeps DEF MailType, ConsumerInv, OneOutstanding, BoundInv

LEMMA QuietSteps ==
    ASSUME ExecutorInv, MailType, ConsumerInv, WakeInv,
           \/ \E c \in Call, q \in Request : CallRequest(c, q)
           \/ \E c \in Call : CallEnds(c) \/ WaitEnds(c)
           \/ \E q \in Request : Replay(q) \/ Forget(q)
           \/ \E p \in Pane : PaneReopens(p)
           \/ MailboxRestart
           \/ UNCHANGED mailVars
    PROVE  MailType' /\ ConsumerInv' /\ WakeInv'
<1> USE DEF ExecutorInv, ExecutorType, Awake, IsWaiting, storeVars
<1>0. inbox \in Box /\ checking \in [Call -> Check]
  BY DEF MailType
<1>1. ASSUME NEW c \in Call, NEW q \in Request, CallRequest(c, q)
      PROVE  Awake /\ UNCHANGED <<generation, bound, deliveries, inbox, checking>>
  BY <1>1 DEF CallRequest, run
<1>2. ASSUME NEW c \in Call, CallEnds(c) \/ WaitEnds(c)
      PROVE  Awake /\ UNCHANGED <<generation, bound, deliveries, inbox, checking>>
  BY <1>2 DEF CallEnds, Finish, WaitEnds, IdleCall, OpAt, OpRecord
<1>3. ASSUME NEW q \in Request, Replay(q) \/ Forget(q)
      PROVE  Awake /\ UNCHANGED <<generation, bound, deliveries, inbox, checking>>
  BY <1>3 DEF Replay, Forget, receiptVars
<1>4. ASSUME NEW p \in Pane, PaneReopens(p)
      PROVE  Awake /\ UNCHANGED <<generation, bound, deliveries, inbox, checking>>
  BY <1>4 DEF PaneReopens, receiptVars
<1>5. CASE MailboxRestart
  <2>1. Awake /\ UNCHANGED <<generation, bound, deliveries, inbox>> /\ checking' = [c \in Call |-> NoCheck]
    BY <1>5 DEF MailboxRestart, ReceiptsRestart, IdleCall
  <2>2. checking' \in [Call -> Check]
    BY <2>1, NoCheckType
  <2>3. QED
    BY <1>0, <2>1, <2>2, QuietStep, AwakeSleepsSound
<1>6. CASE UNCHANGED mailVars
  <2>1. Awake /\ UNCHANGED <<generation, bound, deliveries, inbox, checking>>
    BY <1>6 DEF mailVars, receiptVars
  <2>2. QED
    BY <1>0, <2>1, QuietStep, AwakeSleepsSound
<1>7. CASE Awake /\ UNCHANGED <<generation, bound, deliveries, inbox, checking>>
  BY <1>0, <1>7, QuietStep, AwakeSleepsSound
<1>8. QED
  BY <1>1, <1>2, <1>3, <1>4, <1>5, <1>6, <1>7

\* A message that is stored, and others that become read with it: whoever waits
\* for it is woken, unless it is read already.
LEMMA StoreStep ==
    ASSUME ExecutorInv, MailType, ConsumerInv, WakeInv, NEW r \in Run, NEW t \in Type,
           NEW settled \in BOOLEAN, NEW box \in Box, LessUnread(box), NEW next, Moves(next),
           \A c \in Call : next[c].at = "waiting" => IsWaiting(c),
           Store(r, t, settled, box),
           op' = notifyMessageArrived(r, t, next) \/ (settled /\ op' = next),
           UNCHANGED <<generation, bound, deliveries, checking>>
    PROVE  MailType' /\ ConsumerInv' /\ WakeInv'
<1> DEFINE message == [type |-> t, read |-> settled]
<1>1. inbox' = [box EXCEPT ![r] = Append(box[r], message)] /\ box[r] \in Seq(Message)
  BY DEF Store, Box
<1>2. inbox' \in Box
  <2>1. message \in Message
    BY DEF Message
  <2> HIDE DEF message
  <2>2. Append(box[r], message) \in Seq(Message)
    BY <1>1, <2>1
  <2>3. QED
    BY <1>1, <2>2 DEF Box
<1>3. ASSUME NEW c \in Call, IsWaiting(c)'
      PROVE  IsWaiting(c) /\ (checking[c].run = r => settled \/ (Filter(c) # {} /\ t \notin Filter(c)))
  <2>1. op'[c].at = "waiting"
    BY <1>3 DEF IsWaiting
  <2>2. next[c] \in OpRecord
    BY DEF Moves
  <2>3. CASE op' = notifyMessageArrived(r, t, next)
    <3>1. op'[c] = IF c \in Waiting(r) /\ (Filter(c) = {} \/ t \in Filter(c))
                   THEN [next[c] EXCEPT !.at = "notified"] ELSE next[c]
      BY <2>3 DEF notifyMessageArrived
    <3>2. [next[c] EXCEPT !.at = "notified"].at = "notified"
      BY <2>2 DEF OpRecord
    <3>3. ~ (c \in Waiting(r) /\ (Filter(c) = {} \/ t \in Filter(c))) /\ next[c].at = "waiting"
      BY <2>1, <3>1, <3>2
    <3>4. QED
      BY <3>3 DEF Waiting, IsWaiting
  <2>4. QED
    BY <2>1, <2>3
<1>4. Awake
  BY <1>3 DEF Awake
<1>5. ASSUME NEW c \in Call, IsWaiting(c)'
      PROVE  Matching(checking'[c].run, checking'[c].types, inbox') = {}
  <2> DEFINE o == checking[c].run
  <2>1. Matching(o, Filter(c), box) = {} /\ o \in Run /\ checking' = checking
    BY <1>3, <1>5, CheckNamesRun DEF LessUnread, WakeInv, Filter, ConsumerInv, WaitersInv
  <2>2. CASE o # r
    <3>1. inbox'[o] = box[o]
      BY <1>1, <2>1, <2>2 DEF Box
    <3>2. QED
      BY <2>1, <3>1, Zenon DEF Matching, Unread, Filter
  <2>3. CASE o = r
    <3>1. inbox'[r] = Append(box[r], message)
      BY <1>1 DEF Box
    <3>2. \A i \in DOMAIN inbox'[r] : (i \in DOMAIN box[r] /\ inbox'[r][i] = box[r][i])
                                          \/ inbox'[r][i] = message
      <4> HIDE DEF message
      <4>1. QED
        BY <1>1, <3>1
    <3>3. message.read = settled /\ (settled \/ (Filter(c) # {} /\ message.type \notin Filter(c)))
      BY <1>3, <1>5, <2>3
    <3> HIDE DEF message
    <3>4. ASSUME NEW i \in Matching(o, Filter(c), inbox')
          PROVE  FALSE
      <4>1. /\ i \in DOMAIN inbox'[r] /\ ~ inbox'[r][i].read
            /\ Filter(c) = {} \/ inbox'[r][i].type \in Filter(c)
        BY <2>3, <3>4, Zenon DEF Matching, Unread
      <4>2. i \in DOMAIN box[r] /\ inbox'[r][i] = box[r][i]
        BY <3>2, <3>3, <4>1, Zenon
      <4>3. i \in Matching(o, Filter(c), box)
        BY <2>3, <4>1, <4>2, Zenon DEF Matching, Unread
      <4>4. QED
        BY <2>1, <4>3
    <3>5. QED
      BY <2>1, <3>4 DEF Filter
  <2>4. QED
    BY <2>2, <2>3
<1>6. WakeInv'
  BY <1>5 DEF WakeInv
<1>7. checking' \in [Call -> Check]
  BY DEF MailType
<1>8. QED
  BY <1>2, <1>4, <1>6, <1>7, QuietStep

LEMMA ArriveAndSend ==
    ASSUME ExecutorInv, MailType, ConsumerInv, WakeInv,
           \/ \E r \in Run, t \in Type : MessageArrives(r, t)
           \/ \E c \in Call, r \in Run, t \in Type : handleOrchestrationSend(c, r, t)
    PROVE  MailType' /\ ConsumerInv' /\ WakeInv'
<1>0. ExecutorType
  BY DEF ExecutorInv
<1>1. ASSUME NEW r \in Run, NEW t \in Type, MessageArrives(r, t)
      PROVE  MailType' /\ ConsumerInv' /\ WakeInv'
  <2>1. inbox \in Box /\ LessUnread(inbox)
    BY DEF MailType, LessUnread
  <2>2. QED
    BY <1>0, <1>1, <2>1, OpStays, StoreStep DEF MessageArrives, IsWaiting
<1>2. ASSUME NEW c \in Call, NEW r \in Run, NEW t \in Type, handleOrchestrationSend(c, r, t)
      PROVE  MailType' /\ ConsumerInv' /\ WakeInv'
  <2>1. {"returned", "threw"} \subseteq Stage \ {"idle"} /\ 0 \in Nat /\ op[c].at = "begun"
    BY <1>2 DEF Stage, handleOrchestrationSend
  <2>2. \A x \in {"returned", "threw"}, d \in Call : OpAt(c, x, 0)[d].at = "waiting" => IsWaiting(d)
    BY <1>0 DEF OpAt, ExecutorType, OpRecord, IsWaiting
  <2>3. CASE op' = OpAt(c, "threw", 0) /\ inbox' = inbox
    <3>1. Awake /\ inbox' \in Box /\ checking' \in [Call -> Check]
      BY <1>2, <2>2, <2>3 DEF Awake, IsWaiting, handleOrchestrationSend, MailType
    <3>2. QED
      BY <1>2, <2>3, <3>1, QuietStep, AwakeSleepsSound DEF handleOrchestrationSend
  <2>4. Moves(OpAt(c, "returned", 0)) /\ UNCHANGED <<generation, bound, deliveries, checking>>
    BY <1>0, <1>2, <2>1, OpAtMoves DEF handleOrchestrationSend
  <2>5. ASSUME NEW old, Store(r, t, FALSE, MarkRead(r, old)),
               op' = notifyMessageArrived(r, t, OpAt(c, "returned", 0))
        PROVE  MailType' /\ ConsumerInv' /\ WakeInv'
    <3>1. MarkRead(r, old) \in Box /\ LessUnread(MarkRead(r, old))
      BY MarkReadType
    <3>2. QED
      BY <2>2, <2>4, <2>5, <3>1, StoreStep
  <2>6. CASE Store(r, t, TRUE, inbox) /\ op' = OpAt(c, "returned", 0)
    <3>1. inbox \in Box /\ LessUnread(inbox)
      BY DEF MailType, LessUnread
    <3>2. QED
      BY <2>2, <2>4, <2>6, <3>1, StoreStep
  <2>7. QED
    BY <1>2, <2>3, <2>5, <2>6 DEF handleOrchestrationSend
<1>3. QED
  BY <1>1, <1>2

\* A reply may read a message that somebody waits for, and nothing else.
LEMMA ReplyStep ==
    ASSUME ExecutorInv, MailType, ConsumerInv, WakeInv, NEW c \in Call, NEW r \in Run, NEW i,
           handleOrchestrationReply(c, r, i)
    PROVE  MailType' /\ ConsumerInv' /\ WakeInv'
<1>1. /\ \E x \in {"returned", "threw"} : op' = OpAt(c, x, 0)
      /\ UNCHANGED <<generation, bound, deliveries, checking>>
      /\ inbox' = inbox \/ inbox' = MarkRead(r, {i})
  BY DEF handleOrchestrationReply
<1>2. inbox' \in Box /\ LessUnread(inbox')
  <2>1. inbox \in Box /\ LessUnread(inbox)
    BY DEF MailType, LessUnread
  <2>2. QED
    BY <1>1, <2>1, MarkReadType
<1>3. \A d \in Call : IsWaiting(d)' => IsWaiting(d)
  BY <1>1 DEF OpAt, ExecutorInv, ExecutorType, OpRecord, IsWaiting
<1>4. Awake /\ checking' \in [Call -> Check]
  BY <1>1, <1>3 DEF Awake, MailType
<1>5. ASSUME NEW d \in Call, IsWaiting(d)'
      PROVE  Matching(checking'[d].run, checking'[d].types, inbox') = {}
  <2>1. Matching(checking[d].run, checking[d].types, inbox) = {} /\ checking[d].run \in Run
    BY <1>3, <1>5, CheckNamesRun DEF WakeInv, ConsumerInv, WaitersInv
  <2>2. QED
    BY <1>1, <1>2, <2>1 DEF LessUnread
<1>6. WakeInv'
  BY <1>5 DEF WakeInv
<1>7. QED
  BY <1>1, <1>2, <1>4, <1>6, QuietStep

\* What binding runs anew does to them and to their deliveries.
Rebound(lost, won, p) ==
    /\ generation' \in [Run -> Nat]
    /\ \A r \in Run : generation'[r] = IF r \in lost \cup won THEN generation[r] + 1 ELSE generation[r]
    /\ bound' \in [Run -> Pane \cup {NoPane}]
    /\ \A r \in Run : bound'[r] = IF r \in won THEN p ELSE IF r \in lost THEN NoPane ELSE bound[r]
    /\ DOMAIN deliveries' = DOMAIN deliveries /\ deliveries' \in Seq(Delivery)
    /\ \A i \in DOMAIN deliveries :
         deliveries'[i] = IF deliveries[i].run \in lost \cup won /\ deliveries[i].status = "outstanding"
                          THEN [deliveries[i] EXCEPT !.status = "fenced"] ELSE deliveries[i]

LEMMA RebindFacts ==
    ASSUME MailType, NEW lost \in SUBSET Run, NEW won \in SUBSET Run, NEW p \in Pane, Rebind(lost, won, p)
    PROVE  Rebound(lost, won, p)
<1> DEFINE moved == lost \cup won
<1>1. /\ generation' \in [Run -> Nat]
      /\ \A r \in Run : /\ r \in moved => generation'[r] = generation[r] + 1
                        /\ r \notin moved => generation'[r] = generation[r]
  BY DEF Rebind, MailType
<1>2. /\ bound' \in [Run -> Pane \cup {NoPane}]
      /\ \A r \in Run : bound'[r] = IF r \in won THEN p ELSE IF r \in lost THEN NoPane ELSE bound[r]
  BY DEF Rebind, MailType
<1>3. /\ DOMAIN deliveries' = DOMAIN deliveries /\ deliveries' \in Seq(Delivery)
      /\ \A i \in DOMAIN deliveries :
            deliveries'[i] = IF deliveries[i].run \in moved /\ deliveries[i].status = "outstanding"
                             THEN [deliveries[i] EXCEPT !.status = "fenced"] ELSE deliveries[i]
  <2> DEFINE new(i) == IF \E r \in moved : i \in Outstanding(r)
                       THEN [deliveries[i] EXCEPT !.status = "fenced"] ELSE deliveries[i]
  <2>1. DOMAIN deliveries = 1..Len(deliveries) /\ Len(deliveries) \in Nat
    BY DEF MailType
  <2>2. deliveries' = [i \in 1..Len(deliveries) |-> new(i)]
    BY <2>1 DEF Rebind
  <2>3. ASSUME NEW i \in 1..Len(deliveries)
        PROVE  /\ new(i) \in Delivery
               /\ new(i) = IF deliveries[i].run \in moved /\ deliveries[i].status = "outstanding"
                           THEN [deliveries[i] EXCEPT !.status = "fenced"] ELSE deliveries[i]
    <3>1. (\E r \in moved : i \in Outstanding(r))
              <=> deliveries[i].run \in moved /\ deliveries[i].status = "outstanding"
      BY <2>1, Zenon DEF Outstanding
    <3>2. deliveries[i] \in Delivery
      BY DEF MailType
    <3>3. [deliveries[i] EXCEPT !.status = "fenced"] \in Delivery
      BY <3>2 DEF Delivery
    <3>4. QED
      BY <3>1, <3>2, <3>3
  <2> HIDE DEF new
  <2>4. QED
    BY <2>1, <2>2, <2>3
<1>4. QED
  BY <1>1, <1>2, <1>3 DEF Rebound

\* A run that changes hands: its delivery is fenced, its check cancelled.
LEMMA RebindStep ==
    ASSUME ExecutorInv, MailType, ConsumerInv, WakeInv,
           NEW lost \in SUBSET Run, NEW won \in SUBSET Run, NEW p \in Pane, Rebind(lost, won, p),
           \A r, s \in won : r = s,
           CurrentRuns(p) \subseteq lost \cup won \/ won = {},
           NEW runs, NEW c \in Call, op[c].at = "begun",
           op' = cancelMessageWaiters(runs, OpAt(c, "returned", 0)),
           \A r \in lost \cup won : r \in runs \/ NewRun(r),
           UNCHANGED <<inbox, checking>>
    PROVE  MailType' /\ ConsumerInv' /\ WakeInv'
<1> DEFINE moved == lost \cup won
<1>0. Rebound(lost, won, p)
  BY RebindFacts
<1>1. /\ generation' \in [Run -> Nat]
      /\ \A r \in Run : /\ r \in moved => generation'[r] = generation[r] + 1
                        /\ r \notin moved => generation'[r] = generation[r]
  BY <1>0 DEF Rebound
<1>2. /\ bound' \in [Run -> Pane \cup {NoPane}]
      /\ \A r \in Run : bound'[r] = IF r \in won THEN p ELSE IF r \in lost THEN NoPane ELSE bound[r]
  BY <1>0 DEF Rebound
<1>3. /\ DOMAIN deliveries' = DOMAIN deliveries /\ deliveries' \in Seq(Delivery)
      /\ \A i \in DOMAIN deliveries :
            deliveries'[i] = IF deliveries[i].run \in moved /\ deliveries[i].status = "outstanding"
                             THEN [deliveries[i] EXCEPT !.status = "fenced"] ELSE deliveries[i]
  BY <1>0 DEF Rebound
<1>4. OneOutstanding(deliveries', generation')
  <2>1. ASSUME NEW i \in DOMAIN deliveries, deliveries'[i].status = "outstanding"
        PROVE  deliveries'[i] = deliveries[i] /\ deliveries[i].run \in Run \ moved
    <3>1. deliveries[i] \in Delivery
      BY DEF MailType
    <3>2. [deliveries[i] EXCEPT !.status = "fenced"].status = "fenced"
      BY <3>1 DEF Delivery
    <3>3. ~ (deliveries[i].run \in moved /\ deliveries[i].status = "outstanding")
              /\ deliveries'[i] = deliveries[i]
      BY <1>3, <2>1, <3>2
    <3> HIDE DEF moved
    <3>4. QED
      BY <2>1, <3>1, <3>3 DEF Delivery
  <2> HIDE DEF moved
  <2>2. QED
    BY <1>1, <1>3, <2>1 DEF ConsumerInv, OneOutstanding
<1>5. Awake
  <2>1. ASSUME NEW d \in Call, IsWaiting(d)'
        PROVE  IsWaiting(d) /\ checking[d].run \notin runs
    <3>1. op[c] \in OpRecord /\ op[d] \in OpRecord
      BY DEF ExecutorInv, ExecutorType
    <3>2. OpAt(c, "returned", 0)[d] = IF d = c THEN [op[c] EXCEPT !.at = "returned", !.answer = 0] ELSE op[d]
      BY DEF OpAt, ExecutorInv, ExecutorType
    <3>3. op'[d] = IF \E r \in runs : d \in Waiting(r)
                   THEN [OpAt(c, "returned", 0)[d] EXCEPT !.at = "cancelled"]
                   ELSE OpAt(c, "returned", 0)[d]
      BY DEF cancelMessageWaiters
    <3>4. d # c /\ op'[d] = op[d] /\ ~ \E r \in runs : d \in Waiting(r)
      BY <2>1, <3>1, <3>2, <3>3 DEF IsWaiting, OpRecord
    <3>5. QED
      BY <2>1, <3>4 DEF IsWaiting, Waiting
  <2>2. ASSUME NEW d \in Call, IsWaiting(d)'
        PROVE  generation'[checking[d].run] = generation[checking[d].run]
    <3>1. checking[d].run \in Run /\ ~ NewRun(checking[d].run)
      BY <2>1, <2>2, CheckNamesRun DEF ConsumerInv, WaitersInv, NewRun
    <3>2. checking[d].run \notin moved
      BY <2>1, <2>2, <3>1
    <3> HIDE DEF moved
    <3>3. QED
      BY <1>1, <3>1, <3>2
  <2>3. QED
    BY <2>1, <2>2 DEF Awake
<1>6. BoundInv'
  <2>1. ASSUME NEW r \in Run, bound'[r] # NoPane
        PROVE  generation'[r] > 0
    <3>1. generation[r] \in Nat
      BY DEF MailType
    <3>2. CASE r \in won
      BY <1>1, <3>1, <3>2
    <3>3. CASE r \notin won
      <4>1. r \notin moved /\ bound[r] # NoPane
        BY <1>2, <2>1, <3>3
      <4>2. generation'[r] = generation[r] /\ generation[r] > 0
        BY <1>1, <4>1 DEF ConsumerInv, BoundInv
      <4>3. QED
        BY <4>2
    <3>4. QED
      BY <3>2, <3>3
  <2>2. ASSUME NEW r \in Run, NEW s \in Run, bound'[r] = bound'[s], bound'[r] # NoPane
        PROVE  r = s
    <3>1. won = {} \/ \A o \in Run : bound[o] = p => o \in moved
      BY DEF CurrentRuns
    <3>2. \A o \in Run : bound'[o] # NoPane => (o \in won /\ bound'[o] = p) \/ (o \notin moved /\ bound'[o] = bound[o])
      BY <1>2
    <3>3. CASE bound'[r] = p /\ won # {}
      BY <2>2, <3>1, <3>2, <3>3
    <3>4. CASE bound'[r] # p \/ won = {}
      BY <2>2, <3>2, <3>4 DEF ConsumerInv, BoundInv
    <3>5. QED
      BY <3>3, <3>4
  <2>3. QED
    BY <2>1, <2>2 DEF BoundInv
<1>7. MailType'
  BY <1>1, <1>2, <1>3 DEF MailType
<1>8. QED
  BY <1>4, <1>5, <1>6, <1>7, AwakeKeeps, AwakeSleepsSound DEF ConsumerInv

LEMMA RunSteps ==
    ASSUME ExecutorInv, MailType, ConsumerInv, WakeInv, NEW c \in Call, NEW p \in Pane,
           handleOrchestrationRunCreate(c, p) \/ \E r \in Run : handleOrchestrationRunUse(c, p, r)
    PROVE  MailType' /\ ConsumerInv' /\ WakeInv'
<1>1. CurrentRuns(p) \in SUBSET Run
  BY DEF CurrentRuns
<1>2. CASE handleOrchestrationRunCreate(c, p)
  <2>1. PICK r \in Run : NewRun(r) /\ Rebind(CurrentRuns(p), {r}, p)
    BY <1>2 DEF handleOrchestrationRunCreate
  <2>2. /\ op[c].at = "begun" /\ UNCHANGED <<inbox, checking>>
        /\ op' = cancelMessageWaiters(CurrentRuns(p), OpAt(c, "returned", 0))
    BY <1>2 DEF handleOrchestrationRunCreate
  <2>3. {r} \in SUBSET Run /\ \A s \in CurrentRuns(p) \cup {r} : s \in CurrentRuns(p) \/ NewRun(s)
    BY <2>1
  <2>4. QED
    BY <1>1, <2>1, <2>2, <2>3, RebindStep
<1>3. ASSUME NEW r \in Run, handleOrchestrationRunUse(c, p, r)
      PROVE  MailType' /\ ConsumerInv' /\ WakeInv'
  <2>1. op[c].at = "begun" /\ UNCHANGED <<inbox, checking>>
    BY <1>3 DEF handleOrchestrationRunUse
  <2>2. CASE op' = OpAt(c, "threw", 0) /\ UNCHANGED <<generation, bound, fresh, deliveries>>
    <3>1. Awake
      BY <2>1, <2>2 DEF Awake, IsWaiting, OpAt, ExecutorInv, ExecutorType, OpRecord
    <3>2. QED
      BY <2>1, <2>2, <3>1, QuietStep, AwakeSleepsSound DEF MailType
  <2>3. ASSUME NEW won \in {{}, {r}}, Rebind(CurrentRuns(p) \ {r}, won, p),
               op' = cancelMessageWaiters(CurrentRuns(p) \cup {r}, OpAt(c, "returned", 0))
        PROVE  MailType' /\ ConsumerInv' /\ WakeInv'
    <3>1. CurrentRuns(p) \subseteq (CurrentRuns(p) \ {r}) \cup won \/ won = {}
      BY <2>3
    <3>2. /\ CurrentRuns(p) \ {r} \in SUBSET Run /\ won \in SUBSET Run
          /\ \A o, s \in won : o = s
          /\ \A s \in (CurrentRuns(p) \ {r}) \cup won :
                s \in CurrentRuns(p) \cup {r} \/ NewRun(s)
      BY <1>1
    <3>3. QED
      BY <2>1, <2>3, <3>1, <3>2, RebindStep
  <2>4. QED
    BY <1>3, <2>2, <2>3 DEF handleOrchestrationRunUse
<1>4. QED
  BY <1>2, <1>3

LEMMA ClosesKeeps ==
    ASSUME OneOutstanding(deliveries, generation), NEW ds, Closes(ds)
    PROVE  OneOutstanding(ds, generation)
BY DEF OneOutstanding, Closes

LEMMA ReadKeeps ==
    ASSUME NEW ds \in Seq(Delivery), OneOutstanding(ds, generation), NEW r \in Run, NEW c, NEW types, NEW box, NEW s,
           ReadEffect(c, r, types, box, ds, s)
    PROVE  deliveries' \in Seq(Delivery) /\ OneOutstanding(deliveries', generation)
<1>1. CASE deliveries' = ds
  BY <1>1
<1>2. ASSUME NEW d \in Delivery, d.run = r, d.generation = generation[r], deliveries' = Append(ds, d),
             \A i \in DOMAIN ds : ds[i].run # r \/ ds[i].status # "outstanding"
      PROVE  deliveries' \in Seq(Delivery) /\ OneOutstanding(deliveries', generation)
  <2>1. /\ deliveries' \in Seq(Delivery) /\ Len(ds) \in Nat
        /\ DOMAIN deliveries' = 1..(Len(ds) + 1) /\ DOMAIN ds = 1..Len(ds)
        /\ deliveries'[Len(ds) + 1] = d
        /\ \A i \in 1..Len(ds) : deliveries'[i] = ds[i]
    BY <1>2
  <2>2. \A i \in DOMAIN deliveries' : i \in DOMAIN ds \/ i = Len(ds) + 1
    BY <2>1
  <2>3. QED
    BY <1>2, <2>1, <2>2 DEF OneOutstanding
<1>3. QED
  BY <1>1, <1>2 DEF ReadEffect

LEMMA CheckStep ==
    ASSUME ExecutorInv, MailType, ConsumerInv, WakeInv, NEW c \in Call, NEW p \in Pane,
           handleOrchestrationCheck(c, p)
    PROVE  MailType' /\ ConsumerInv' /\ WakeInv'
<1>1. op[c].at = "begun" /\ UNCHANGED <<generation, bound>>
  BY DEF handleOrchestrationCheck
<1>2. ASSUME NEW x, NEW a, op' = OpAt(c, x, a)
      PROVE  op'[c].at = x /\ \A d \in Call : d # c => op'[d] = op[d]
  BY <1>2 DEF OpAt, ExecutorInv, ExecutorType, OpRecord
<1>3. CASE /\ \E x \in {"threw", "returned"} : op' = OpAt(c, x, 0)
           /\ UNCHANGED <<inbox, deliveries, checking>>
  <2>1. Awake
    BY <1>1, <1>2, <1>3 DEF Awake, IsWaiting
  <2>2. QED
    BY <1>1, <1>3, <2>1, QuietStep, AwakeSleepsSound DEF MailType
<1>4. ASSUME NEW r \in CurrentRuns(p), NEW types \in Filters, NEW box \in Box, NEW ds \in Seq(Delivery),
             LessUnread(box), Closes(ds), AnswerEffect(c, r, types, box, ds)
      PROVE  MailType' /\ ConsumerInv' /\ WakeInv'
  <2>1. r \in Run /\ generation[r] \in Nat /\ generation[r] > 0
    BY MailboxAssumption DEF MailboxAssumption, CurrentRuns, ConsumerInv, BoundInv, MailType
  <2>2. deliveries' \in Seq(Delivery) /\ OneOutstanding(deliveries', generation)
    BY <1>4, <2>1, ClosesKeeps, ReadKeeps DEF ConsumerInv, AnswerEffect
  <2>3. /\ \A d \in Call : d # c => op'[d] = op[d]
        /\ op'[c].at = "waiting" => Waiting(r) = {} /\ Matching(r, types, box) = {}
    <3>1. CASE op' = OpAt(c, "returned", 0)
      BY <1>2, <3>1
    <3>2. ASSUME NEW s \in {"returned", "refused"}, ReadEffect(c, r, types, box, ds, s)
          PROVE  op'[c].at # "waiting" /\ \A d \in Call : d # c => op'[d] = op[d]
      BY <1>2, <3>2 DEF ReadEffect
    <3>3. CASE Waiting(r) = {} /\ ReadEffect(c, r, types, box, ds, "waiting")
      BY <1>2, <3>3 DEF ReadEffect
    <3>4. QED
      BY <1>4, <3>1, <3>2, <3>3 DEF AnswerEffect
  <2>4. /\ checking' \in [Call -> Check] /\ inbox' = box
        /\ \A d \in Call : d # c => checking'[d] = checking[d]
        /\ op'[c].at = "waiting" =>
              checking'[c] = [run |-> r, generation |-> generation[r], types |-> types]
    BY <1>4, <2>1 DEF AnswerEffect, MailType, Check
  <2>5. MailType'
    BY <1>1, <2>2, <2>4 DEF MailType
  <2>6. ASSUME NEW d \in Call, IsWaiting(d)'
        PROVE  \/ d # c /\ IsWaiting(d) /\ checking'[d] = checking[d]
               \/ /\ d = c /\ Waiting(r) = {} /\ Matching(r, types, box) = {}
                  /\ checking'[d].run = r /\ checking'[d].generation = generation[r]
                  /\ checking'[d].types = types
    BY <2>3, <2>4, <2>6 DEF IsWaiting
  <2>7. WaitersInv'
    <3>1. ASSUME NEW d \in Call, IsWaiting(d)', d # c
          PROVE  checking[d].run = r => Waiting(r) # {}
      BY <2>6, <3>1 DEF Waiting, IsWaiting
    <3>2. ASSUME NEW d \in Call, IsWaiting(d)'
          PROVE  /\ generation'[checking'[d].run] \in {0, checking'[d].generation}
                 /\ checking'[d].generation > 0
      BY <1>1, <2>1, <2>6, <3>2 DEF ConsumerInv, WaitersInv
    <3>3. ASSUME NEW d \in Call, NEW e \in Call, IsWaiting(d)', IsWaiting(e)', checking'[d].run = checking'[e].run
          PROVE  d = e
      BY <2>6, <3>1, <3>3 DEF ConsumerInv, WaitersInv
    <3>4. QED
      BY <3>2, <3>3 DEF WaitersInv
  <2>8. WakeInv'
    <3>1. ASSUME NEW d \in Call, IsWaiting(d)'
          PROVE  Matching(checking'[d].run, checking'[d].types, inbox') = {}
      <4>1. CASE d # c /\ IsWaiting(d) /\ checking'[d] = checking[d]
        <5>1. Matching(checking[d].run, checking[d].types, inbox) = {} /\ checking[d].run \in Run
          BY <4>1, CheckNamesRun DEF WakeInv, ConsumerInv, WaitersInv
        <5>2. Matching(checking[d].run, checking[d].types, box) = {}
          BY <1>4, <5>1 DEF LessUnread
        <5>3. QED
          BY <2>4, <4>1, <5>2
      <4>2. QED
        BY <2>4, <2>6, <3>1, <4>1
    <3>2. QED
      BY <3>1 DEF WakeInv
  <2>9. BoundInv'
    BY <1>1 DEF ConsumerInv, BoundInv
  <2>10. QED
    BY <1>1, <2>2, <2>5, <2>7, <2>8, <2>9 DEF ConsumerInv
<1>5. QED
  BY <1>3, <1>4, CheckIsEffect DEF CheckEffect

LEMMA ResumeStep ==
    ASSUME ExecutorInv, MailType, ConsumerInv, WakeInv, NEW c \in Call, ResumeCheck(c)
    PROVE  MailType' /\ ConsumerInv' /\ WakeInv'
<1>1. UNCHANGED <<inbox, generation, bound>> /\ checking' = [checking EXCEPT ![c] = NoCheck]
  BY DEF ResumeCheck
<1>2. ASSUME NEW x \in {"threw", "returned"}, NEW a, op' = OpAt(c, x, a)
      PROVE  Awake
  BY <1>1, <1>2 DEF Awake, IsWaiting, OpAt, ExecutorInv, ExecutorType, OpRecord, MailType
<1>3. Awake /\ deliveries' \in Seq(Delivery) /\ OneOutstanding(deliveries', generation)
  <2>1. CASE (\E x \in {"threw", "returned"} : op' = OpAt(c, x, 0)) /\ UNCHANGED deliveries
    BY <1>2, <2>1 DEF MailType, ConsumerInv
  <2>2. CASE readDelivery(c, checking[c].run, Filter(c), inbox, deliveries, "returned")
    <3>1. checking[c].run \in Run /\ inbox \in Box /\ deliveries \in Seq(Delivery)
      BY DEF MailType, ResumeCheck
    <3>2. ReadEffect(c, checking[c].run, Filter(c), inbox, deliveries, "returned")
      BY <2>2, <3>1, ReadIsEffect
    <3>3. Awake
      BY <1>2, <3>2 DEF ReadEffect
    <3>4. QED
      BY <3>1, <3>2, <3>3, ReadKeeps DEF ConsumerInv
  <2>3. QED
    BY <2>1, <2>2, Zenon DEF ResumeCheck
<1>4. MailType'
  BY <1>1, <1>3, NoCheckType DEF MailType
<1>5. QED
  BY <1>1, <1>3, <1>4, AwakeKeeps, AwakeSleepsSound DEF ConsumerInv, BoundInv

\* A reset leaves no delivery open and no message that could wake a check.
LEMMA ResetStep ==
    ASSUME ExecutorInv, MailType, ConsumerInv, WakeInv, NEW c \in Call, handleOrchestrationReset(c)
    PROVE  MailType' /\ ConsumerInv' /\ WakeInv'
<1> DEFINE gone(i) == [run |-> deliveries[i].run, generation |-> 0, messages |-> {}, status |-> "deleted"]
<1>1. /\ op' = OpAt(c, "returned", 0) /\ checking' = checking /\ inbox' = [r \in Run |-> <<>>]
      /\ deliveries' = [i \in DOMAIN deliveries |-> gone(i)]
      /\ \/ UNCHANGED <<generation, bound>>
         \/ generation' = [r \in Run |-> 0] /\ bound' = [r \in Run |-> NoPane]
  BY DEF handleOrchestrationReset, resetAll, resetMessages
<1>2. DOMAIN deliveries = 1..Len(deliveries) /\ Len(deliveries) \in Nat
  BY DEF MailType
<1>3. ASSUME NEW i \in DOMAIN deliveries
      PROVE  gone(i) \in Delivery
  <2>1. deliveries[i] \in Delivery
    BY DEF MailType
  <2>2. QED
    BY <2>1 DEF Delivery
<1>4. \A i \in DOMAIN deliveries' : deliveries'[i].status = "deleted"
  BY <1>1
<1>5. deliveries' \in Seq(Delivery)
  <2> HIDE DEF gone
  <2>1. deliveries' = [i \in 1..Len(deliveries) |-> gone(i)]
    BY <1>1, <1>2
  <2>2. QED
    BY <1>2, <1>3, <2>1
<1>6. \A r \in Run : \A types : Matching(r, types, inbox') = {}
  <2>1. \A r \in Run : inbox'[r] = <<>>
    BY <1>1
  <2>2. \A r \in Run : DOMAIN inbox'[r] = {}
    BY <2>1
  <2>3. QED
    BY <2>2, Zenon DEF Matching, Unread
<1>7. Awake
  <2>1. ASSUME NEW d \in Call, IsWaiting(d)'
        PROVE  IsWaiting(d) /\ checking[d].run \in Run
    <3>1. IsWaiting(d)
      BY <1>1, <2>1 DEF IsWaiting, OpAt, ExecutorInv, ExecutorType, OpRecord
    <3>2. QED
      BY <3>1, CheckNamesRun DEF ConsumerInv, WaitersInv
  <2>2. QED
    BY <1>1, <2>1 DEF Awake
<1>8. MailType'
  <2>1. inbox' \in Box
    BY <1>1 DEF Box
  <2>2. QED
    BY <1>1, <1>5, <2>1 DEF MailType
<1>9. OneOutstanding(deliveries', generation') /\ BoundInv'
  BY <1>1, <1>4 DEF OneOutstanding, BoundInv, ConsumerInv
<1>10. WakeInv'
  <2>1. \A d \in Call : IsWaiting(d)' => checking'[d].run \in Run
    BY <1>1, <1>7, CheckNamesRun DEF Awake, ConsumerInv, WaitersInv
  <2>2. QED
    BY <1>6, <2>1 DEF WakeInv
<1>11. QED
  BY <1>7, <1>8, <1>9, <1>10, AwakeKeeps DEF ConsumerInv

-----------------------------------------------------------------------------
MailInv == ExecutorInv /\ SentInv /\ MailType /\ ConsumerInv /\ WakeInv

LEMMA MailStep ==
    ASSUME MailInv, [MailboxNext]_mailVars
    PROVE  MailInv'
<1> USE DEF MailInv
<1>1. CASE \/ \E r \in Run, t \in Type : MessageArrives(r, t)
           \/ \E c \in Call, r \in Run, t \in Type : handleOrchestrationSend(c, r, t)
  BY <1>1, ExecutorHandlerStep, ArriveAndSend
<1>2. CASE \/ \E c \in Call, q \in Request : CallRequest(c, q)
           \/ \E c \in Call : CallEnds(c)
           \/ \E q \in Request : Replay(q) \/ Forget(q)
           \/ MailboxRestart
  BY <1>2, ExecutorOwnStep, QuietSteps
<1>3. CASE (\E c \in Call : WaitEnds(c)) \/ \E p \in Pane : PaneReopens(p)
  BY <1>3, ExecutorHandlerStep, QuietSteps
<1>4. ASSUME NEW c \in Call, ResumeCheck(c)
      PROVE  MailInv'
  BY <1>4, ExecutorHandlerStep, ResumeStep
<1>5. ASSUME NEW c \in Call, NEW r \in Run, NEW i \in 1 .. MaxMessages, handleOrchestrationReply(c, r, i)
       PROVE  MailInv'
  BY <1>5, ExecutorHandlerStep, ReplyStep
<1>6. ASSUME NEW c \in Call, handleOrchestrationReset(c)
      PROVE  MailInv'
  BY <1>6, ExecutorHandlerStep, ResetStep
<1>7. ASSUME NEW c \in Call, NEW p \in Pane, handleOrchestrationCheck(c, p)
      PROVE  MailInv'
  BY <1>7, ExecutorHandlerStep, CheckStep
<1>8. ASSUME NEW c \in Call, NEW p \in Pane,
             handleOrchestrationRunCreate(c, p) \/ \E r \in Run : handleOrchestrationRunUse(c, p, r)
      PROVE  MailInv'
  BY <1>8, ExecutorHandlerStep, RunSteps
<1>9. CASE UNCHANGED mailVars
  <2>1. ExecutorInv' /\ SentInv'
    BY <1>9 DEF mailVars, receiptVars, ExecutorInv, ExecutorType, SentInv
  <2>2. QED
    BY <1>9, <2>1, QuietSteps
<1>10. QED
  BY <1>1, <1>2, <1>3, <1>4, <1>5, <1>6, <1>7, <1>8, <1>9 DEF MailboxNext

LEMMA MailInvariant == MailboxSpec => []MailInv
<1>1. MailboxInit => MailInv
  BY ExecutorInit, MailInit, ConsumerInit DEF MailInv
<1>2. MailInv /\ [MailboxNext]_mailVars => MailInv'
  BY MailStep
<1>3. QED
  BY <1>1, <1>2, PTL DEF MailboxSpec

\* However calls, repeats and restarts interleave, one handler runs for a request.
THEOREM OneHandlerTheorem == MailboxSpec => []OneHandlerPerRequest
<1>1. MailInv => OneHandlerPerRequest
  BY DEF MailInv, ExecutorInv, OneHandlerPerRequest
<1>2. QED
  BY <1>1, MailInvariant, PTL

\* A repeated call finds the first one while that runs.
THEOREM InFlightTheorem == MailboxSpec => []InFlightIsJoined
<1>1. MailInv => InFlightIsJoined
  BY DEF MailInv, ExecutorInv, InFlightIsJoined
<1>2. QED
  BY <1>1, MailInvariant, PTL

\* A repeated send stores its message once, though the daemon may die anywhere.
THEOREM SentOnceTheorem == MailboxSpec => []SentOnce
<1>1. MailInv => SentOnce
  BY DEF MailInv, SentInv, SentOnce
<1>2. QED
  BY <1>1, MailInvariant, PTL

\* A run has one consumer, in the current generation.
THEOREM OneConsumerTheorem == MailboxSpec => []OneConsumer
<1>1. MailInv => OneConsumer
  <2> SUFFICES ASSUME MailInv, NEW r \in Run
               PROVE  /\ \A i \in Outstanding(r) : /\ deliveries[i].generation = generation[r]
                                                   /\ Outstanding(r) = {i}
                      /\ \A c \in Waiting(r) : /\ generation[r] \in {0, checking[c].generation}
                                               /\ Waiting(r) = {c}
                      /\ \A s \in Run : bound[r] = bound[s] => r = s \/ bound[r] = NoPane
      BY DEF OneConsumer
  <2>1. \A i \in Outstanding(r) : deliveries[i].generation = generation[r] /\ Outstanding(r) = {i}
    BY DEF MailInv, ConsumerInv, OneOutstanding, Outstanding
  <2>2. \A c \in Waiting(r) : generation[r] \in {0, checking[c].generation} /\ Waiting(r) = {c}
    BY DEF MailInv, ConsumerInv, WaitersInv, Waiting, IsWaiting
  <2>3. QED
    BY <2>1, <2>2 DEF MailInv, ConsumerInv, BoundInv
<1>2. QED
  BY <1>1, MailInvariant, PTL

\* No check sleeps on a message it waits for.
THEOREM WakeupTheorem == MailboxSpec => []NoLostWakeup
<1>1. MailInv => NoLostWakeup
  BY DEF MailInv, WakeInv, NoLostWakeup, IsWaiting, Filter
<1>2. QED
  BY <1>1, MailInvariant, PTL

\* A completed receipt is neither discarded nor overwritten while in use.
CompletedStands ==
    \A q \in Request :
        row[q] = "completed" =>
            \/ row'[q] = "completed" /\ receipt'[q] = receipt[q]
            \/ Forget(q)

THEOREM CompletedTheorem == MailboxSpec => CompletedReceiptStands
<1>1. MailInv /\ [MailboxNext]_mailVars => [CompletedStands]_mailVars
  <2> SUFFICES ASSUME MailInv, MailboxNext, NEW q \in Request, row[q] = "completed"
               PROVE  (row'[q] = "completed" /\ receipt'[q] = receipt[q]) \/ Forget(q)
      BY DEF CompletedStands
  <2> USE DEF MailInv
  <2>1. ASSUME NEW c \in Call, NEW o \in Request, CallRequest(c, o)
        PROVE  row'[q] = row[q] /\ receipt'[q] = receipt[q]
    BY <2>1 DEF CallRequest, run, ExecutorInv, ExecutorType
  <2>2. ASSUME NEW c \in Call, CallEnds(c)
        PROVE  row'[q] = row[q] /\ receipt'[q] = receipt[q]
    <3>1. op[c].req # q
      BY <2>2 DEF ExecutorInv
    <3>2. QED
      BY <2>2, <3>1 DEF CallEnds, Finish, Complete, Discard, ExecutorInv, ExecutorType
  <2>3. ASSUME NEW o \in Request, Replay(o) \/ Forget(o)
        PROVE  (row'[q] = row[q] /\ receipt'[q] = receipt[q]) \/ Forget(q)
    BY <2>3 DEF Replay, Forget, receiptVars, ExecutorInv, ExecutorType
  <2>4. CASE MailboxRestart
    BY <2>4 DEF MailboxRestart, ReceiptsRestart
  <2>5. CASE \/ \E r \in Run, t \in Type : MessageArrives(r, t)
             \/ \E c \in Call : WaitEnds(c) \/ ResumeCheck(c) \/ handleOrchestrationReset(c)
             \/ \E c \in Call, p \in Pane : handleOrchestrationCheck(c, p) \/ handleOrchestrationRunCreate(c, p)
             \/ \E c \in Call, r \in Run : \/ \E t \in Type : handleOrchestrationSend(c, r, t)
                                           \/ \E i \in 1 .. MaxMessages : handleOrchestrationReply(c, r, i)
                                           \/ \E p \in Pane : handleOrchestrationRunUse(c, p, r)
             \/ \E p \in Pane : PaneReopens(p)
    BY <2>5, ExecutorHandlerStep
  <2>6. QED
    BY <2>1, <2>2, <2>3, <2>4, <2>5 DEF MailboxNext
<1>2. QED
  BY <1>1, MailInvariant, PTL DEF MailboxSpec, CompletedReceiptStands, CompletedStands
=============================================================================
