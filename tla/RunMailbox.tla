----------------------------- MODULE RunMailbox -----------------------------
(***************************************************************************)
(* The mailbox of a run (orchestration-db-layer-3.ts, -4.ts, message-      *)
(* check.ts, runs.ts, and the message waiters of get-primary-leaf-for-     *)
(* pty.ts) behind the executor of MutationReceipts.  One coordinator pane  *)
(* at a time consumes the messages of a run: it takes a delivery,          *)
(* acknowledges it with its next check, and may wait for messages of some  *)
(* types.  Binding the run to another pane, or to the same pane after its  *)
(* terminal came back, starts a new consumer generation and fences the     *)
(* outstanding delivery.  Answers get lost, callers repeat a request with  *)
(* the same id, waiting callers hang up, and the daemon may die between    *)
(* the receipt, the effect and the answer of a request.                    *)
(*                                                                         *)
(* Handlers run on one event loop.  What arrives from outside, a call, a   *)
(* message, the end of a wait, is a task, and a task starts only when the  *)
(* continuations of the calls before it have run (Settled): those hold no  *)
(* await but the wait itself.  The order of the continuations is free, and *)
(* the daemon may die between any two of them.                             *)
(*                                                                         *)
(* A check names no run here: with --run it is refused unless that is the  *)
(* run its pane is bound to.  A pane that is bound to no run reads its own *)
(* mailbox, which is not modelled.                                         *)
(*                                                                         *)
(* A message is read when its delivery is acknowledged, or aside: by       *)
(* whoever replies to it, or by the lifecycle reports of the workers, the  *)
(* last of which makes their heartbeats old.                               *)
(***************************************************************************)
EXTENDS MutationReceipts, Sequences, FiniteSets

CONSTANTS Run, NoRun, Pane, NoPane,
          Type,           \* message types
          Filters,        \* the sets of types a check may wait for; {} is all
          PageLimit,      \* messages of a delivery: 50 in the code
          MaxMessages,    \* bound: messages of the store and deleted deliveries
          MaxDeliveries,  \* bound: deliveries of the store
          MaxDeleted,     \* bound: deliveries of the store when it is reset
          MaxGeneration,  \* bound: consumer generations of all runs and deleted deliveries
          MaxRows         \* bound: messages, generations and deleted deliveries

\* None of these methods starts a worker.
ASSUME MailboxAssumption ==
    /\ Atomic = {}
    /\ NoRun \notin Run
    /\ NoPane \notin Pane
    /\ Filters \subseteq SUBSET Type /\ {} \in Filters
    /\ PageLimit \in Nat \ {0}
    /\ {MaxMessages, MaxDeliveries, MaxDeleted, MaxGeneration, MaxRows} \subseteq Nat

VARIABLES caller,      \* the pane that a request may owe a delivery
          sent,        \* how often a send has stored its message
          inbox,       \* messages to run:<id>, in their sequence
          generation,  \* runs.consumer_generation; 0: there is no such run
          bound,       \* the run's coordinator pane
          fresh,       \* whether coordinator_handle is that pane's live handle
          deliveries,
          checking,    \* what a check keeps during its wait
          got          \* deliveries that have reached a pane

mailVars == <<receiptVars, caller, sent, inbox, generation, bound, fresh,
              deliveries, checking, got>>
storeVars == <<inbox, generation, bound, fresh, deliveries>>

Settled == \A c \in Call : op[c].at \in {"idle", "waiting"}
NoCheck == [run |-> NoRun, generation |-> 0, types |-> {}]

MailboxInit ==
    /\ ReceiptsInit
    /\ caller = [q \in Request |-> NoPane]
    /\ sent = [q \in Request |-> 0]
    /\ inbox = [r \in Run |-> <<>>]
    /\ generation = [r \in Run |-> 0]
    /\ bound = [r \in Run |-> NoPane]
    /\ fresh = [r \in Run |-> FALSE]
    /\ deliveries = <<>>
    /\ checking = [c \in Call |-> NoCheck]
    /\ got = [p \in Pane |-> {}]
-----------------------------------------------------------------------------
(* Messages and those who wait for them.                                   *)

Unread(r, box) == {i \in DOMAIN box[r] : ~box[r][i].read}
Matching(r, types, box) ==
    {i \in Unread(r, box) : types = {} \/ box[r][i].type \in types}
Deleted == {i \in DOMAIN deliveries : deliveries[i].status = "deleted"}
Outstanding(r) ==
    {i \in DOMAIN deliveries :
        deliveries[i].run = r /\ deliveries[i].status = "outstanding"}
Acknowledged(r) ==
    {i \in DOMAIN deliveries :
        deliveries[i].run = r /\ deliveries[i].status = "acknowledged"}
Waiting(r) == {c \in Call : op[c].at = "waiting" /\ checking[c].run = r}
Filter(c) == checking[c].types

\* The mailboxes once the messages held of run r are read.
MarkRead(r, held) ==
    [inbox EXCEPT ![r] =
        [i \in DOMAIN inbox[r] |-> [type |-> inbox[r][i].type,
                                    read |-> inbox[r][i].read \/ i \in held]]]

\* The bounds, when each run in M gets a message and each in G a generation.
RoomFor(M, G) ==
    LET messages == {x \in Run \X (1 .. MaxMessages) : x[2] \in DOMAIN inbox[x[1]]}
        generations == {x \in Run \X (1 .. MaxGeneration) : x[2] <= generation[x[1]]}
        m == Cardinality(messages) + Cardinality(M)
        g == Cardinality(generations) + Cardinality(G)
        deleted == Cardinality(Deleted)
    IN
    /\ M # {} => m + deleted <= MaxMessages
    /\ G # {} => g + deleted <= MaxGeneration
    /\ M \cup G # {} => m + g + deleted <= MaxRows

\* insertMessage: a message of type t for run r, read already or not, after box.
Store(r, t, settled, box) ==
    /\ generation[r] > 0
    /\ RoomFor({r}, {})
    /\ inbox' = [box EXCEPT ![r] = Append(@, [type |-> t, read |-> settled])]

\* Calls of next that wait for run r and are woken by a message of type t.
notifyMessageArrived(r, t, next) ==
    [c \in Call |->
        IF c \in Waiting(r) /\ (Filter(c) = {} \/ t \in Filter(c))
        THEN [next[c] EXCEPT !.at = "notified"] ELSE next[c]]

cancelMessageWaiters(runs, next) ==
    [c \in Call |-> IF \E r \in runs : c \in Waiting(r)
                    THEN [next[c] EXCEPT !.at = "cancelled"] ELSE next[c]]

\* A bug: the daemon stores its own messages and wakes nobody.
MessageArrivesSilently(r, t) ==
    /\ Settled
    /\ Store(r, t, FALSE, inbox)
    /\ UNCHANGED <<receiptVars, caller, sent, generation, bound, fresh,
                   deliveries, checking, got>>

\* A message of the daemon itself: the outcome of a setup script, or one
\* that arrives from a worker host.
MessageArrives(r, t) ==
    /\ Settled
    /\ Store(r, t, FALSE, inbox)
    /\ op' = notifyMessageArrived(r, t, op)
    /\ UNCHANGED <<row, receipt, inFlight, caller, sent, generation,
                   bound, fresh, deliveries, checking, got>>
-----------------------------------------------------------------------------
(* Requests.                                                               *)

\* A call of a request without a receipt.  What it asks for shows when its
\* handler runs.  A call that is repeated because the first one ended in an
\* error finds no receipt either and is a new request.
CallRequest(c, q) ==
    /\ Settled
    /\ run(c, q)
    /\ UNCHANGED <<caller, sent, storeVars, checking, got>>

\* A bug: the answer of a check that found nothing counts as a delivery.
ReceiveNothing(q, a) ==
    UNCHANGED got \/ got' = [got EXCEPT ![caller[q]] = @ \cup {a}]

\* The answer, delivery a or none, reaches the caller or is lost.
Receive(q, a) ==
    \/ UNCHANGED got
    \/ a # 0 /\ got' = [got EXCEPT ![caller[q]] = @ \cup {a}]

CallEnds(c) ==
    /\ Finish(c)
    /\ Receive(op[c].req, op[c].answer)
    /\ caller' = IF op[c].answer # 0 THEN caller
                 ELSE [caller EXCEPT ![op[c].req] = NoPane]
    /\ UNCHANGED <<sent, storeVars, checking>>

\* A repeated call of a completed request is answered from the receipt.
Replay(q) ==
    /\ Settled
    /\ row[q] = "completed"
    /\ Receive(q, receipt[q])
    /\ UNCHANGED <<receiptVars, caller, sent, storeVars, checking>>

\* The caller is done with its request; its id is used no more.
Forget(q) ==
    /\ Settled
    /\ row[q] # "none"
    /\ \A c \in Call : op[c].req # q
    /\ row' = [row EXCEPT ![q] = "none"]
    /\ receipt' = [receipt EXCEPT ![q] = 0]
    /\ caller' = [caller EXCEPT ![q] = NoPane]
    /\ sent' = [sent EXCEPT ![q] = 0]
    /\ UNCHANGED <<op, inFlight, storeVars, checking, got>>

\* A handler writes no receipt and answers nobody.
HandlerLeaves == UNCHANGED <<row, receipt, inFlight, got>>

\* suppressEarlierHeartbeats: those of the dispatch whose report of type t was
\* accepted, so any of those not read; none for another message or no report.
Suppressed(r, t) ==
    SUBSET {i \in Unread(r, inbox) : t = "worker_done" /\ inbox[r][i].type = "heartbeat"}

\* A heartbeat of a dispatch that has ended is read already and wakes nobody.
handleOrchestrationSend(c, r, t) ==
    /\ op[c].at = "begun"
    /\ HandlerLeaves
    /\ \/ /\ generation[r] = 0
          /\ op' = OpAt(c, "threw", 0)
          /\ UNCHANGED <<sent, inbox>>
       \/ /\ \/ /\ \E old \in Suppressed(r, t) : Store(r, t, FALSE, MarkRead(r, old))
                /\ op' = notifyMessageArrived(r, t, OpAt(c, "returned", 0))
             \/ /\ t = "heartbeat"
                /\ Store(r, t, TRUE, inbox)
                /\ op' = OpAt(c, "returned", 0)
          /\ sent' = [sent EXCEPT ![op[c].req] = @ + 1]
    /\ UNCHANGED <<caller, generation, bound, fresh, deliveries, checking>>

\* A reply to message i of run r, whoever gives it and whether or not the message
\* was delivered.  It goes to the sender.  (A question is answered in its thread
\* instead, which leaves the mailbox as it is.)
handleOrchestrationReply(c, r, i) ==
    /\ op[c].at = "begun"
    /\ HandlerLeaves
    /\ IF i \in DOMAIN inbox[r]
       THEN inbox' = MarkRead(r, {i}) /\ op' = OpAt(c, "returned", 0)
       ELSE op' = OpAt(c, "threw", 0) /\ UNCHANGED inbox
    /\ UNCHANGED <<caller, sent, generation, bound, fresh, deliveries, checking>>
-----------------------------------------------------------------------------
(* Runs and their consumers.                                               *)

CurrentRuns(p) == {r \in Run : bound[r] = p}

\* A bug: a run that changes hands leaves its delivery outstanding.
RebindUnfenced(lost, won, p) ==
    LET moved == lost \cup won IN
    /\ RoomFor({}, moved)
    /\ generation' = [r \in Run |-> generation[r] + IF r \in moved THEN 1 ELSE 0]
    /\ bound' = [r \in Run |-> IF r \in won THEN p
                               ELSE IF r \in lost THEN NoPane ELSE bound[r]]
    /\ fresh' = [r \in Run |-> r \in won \/ (fresh[r] /\ r \notin lost)]
    /\ UNCHANGED deliveries

\* A bug: the new consumer of a run goes on in the generation of the old one.
RebindSameGeneration(lost, won, p) ==
    LET moved == lost \cup won IN
    /\ generation' = [r \in Run |-> IF r \in moved /\ generation[r] = 0
                                    THEN 1 ELSE generation[r]]
    /\ bound' = [r \in Run |-> IF r \in won THEN p
                               ELSE IF r \in lost THEN NoPane ELSE bound[r]]
    /\ fresh' = [r \in Run |-> r \in won \/ (fresh[r] /\ r \notin lost)]
    /\ UNCHANGED deliveries

\* Runs in lost lose their consumer, and so does won, which pane p gets;
\* fenceOutstandingDelivery.
Rebind(lost, won, p) ==
    LET moved == lost \cup won IN
    /\ RoomFor({}, moved)
    /\ generation' = [r \in Run |-> generation[r] + IF r \in moved THEN 1 ELSE 0]
    /\ bound' = [r \in Run |-> IF r \in won THEN p
                               ELSE IF r \in lost THEN NoPane ELSE bound[r]]
    /\ fresh' = [r \in Run |-> r \in won \/ (fresh[r] /\ r \notin lost)]
    /\ deliveries' =
        [i \in DOMAIN deliveries |->
            IF \E r \in moved : i \in Outstanding(r)
            THEN [deliveries[i] EXCEPT !.status = "fenced"] ELSE deliveries[i]]

\* The id of a new run is one that nothing names any more.
NewRun(r) == generation[r] = 0 /\ \A c \in Call : checking[c].run = r => checking[c].generation = 0

handleOrchestrationRunCreate(c, p) ==
    /\ op[c].at = "begun"
    /\ \E r \in Run : NewRun(r) /\ Rebind(CurrentRuns(p), {r}, p)
    /\ op' = cancelMessageWaiters(CurrentRuns(p), OpAt(c, "returned", 0))
    /\ HandlerLeaves
    /\ UNCHANGED <<caller, sent, inbox, checking>>

\* run-use: refused while another live coordinator has the run; nothing to
\* bind when the caller already has it.
handleOrchestrationRunUse(c, p, r) ==
    LET mine == bound[r] = p IN
    /\ op[c].at = "begun"
    /\ HandlerLeaves
    /\ \/ /\ generation[r] = 0 \/ (fresh[r] /\ ~mine)
          /\ op' = OpAt(c, "threw", 0)
          /\ UNCHANGED <<generation, bound, fresh, deliveries>>
       \/ /\ generation[r] > 0 /\ (fresh[r] => mine)
          /\ Rebind(CurrentRuns(p) \ {r}, IF mine /\ fresh[r] THEN {} ELSE {r}, p)
          /\ op' = cancelMessageWaiters(CurrentRuns(p) \cup {r}, OpAt(c, "returned", 0))
    /\ UNCHANGED <<caller, sent, inbox, checking>>

resetMessages ==
    /\ inbox' = [r \in Run |-> <<>>]
    /\ deliveries' =
        [i \in DOMAIN deliveries |-> [run |-> deliveries[i].run, generation |-> 0,
                                      messages |-> {}, status |-> "deleted"]]

\* resetAll, of what is modelled here.
resetAll ==
    /\ resetMessages
    /\ generation' = [r \in Run |-> 0]
    /\ bound' = [r \in Run |-> NoPane]
    /\ fresh' = [r \in Run |-> FALSE]

\* Checks that wait are not told: they wait on, be their run deleted.
handleOrchestrationReset(c) ==
    /\ op[c].at = "begun"
    /\ Len(deliveries) <= MaxDeleted
    /\ resetAll \/ (resetMessages /\ UNCHANGED <<generation, bound, fresh>>)
    /\ op' = OpAt(c, "returned", 0)
    /\ HandlerLeaves
    /\ UNCHANGED <<caller, sent, checking>>

\* The terminal of a pane goes and comes back: its handle is a new one.
PaneReopens(p) ==
    /\ Settled
    /\ \E r \in CurrentRuns(p) : fresh[r]
    /\ fresh' = [r \in Run |-> fresh[r] /\ bound[r] # p]
    /\ UNCHANGED <<receiptVars, caller, sent, inbox, generation,
                   bound, deliveries, checking, got>>
-----------------------------------------------------------------------------
(* A check.                                                                *)

\* The first unread messages, as many as a delivery takes.
Page(unread) == {i \in unread : Cardinality({j \in unread : j < i}) < PageLimit}

\* A bug: a check that waits for some types is given those alone.
readDeliveryOfTypes(c, r, types, box, ds, s) ==
    LET open == {i \in DOMAIN ds : ds[i].run = r /\ ds[i].status = "outstanding"}
    IN
    \/ \E i \in open : deliveries' = ds /\ op' = OpAt(c, "returned", i)
    \/ /\ open = {} /\ Matching(r, types, box) # {}
       /\ Len(ds) < MaxDeliveries
       /\ deliveries' = Append(ds, [run |-> r, generation |-> generation[r],
                                    messages |-> Page(Matching(r, types, box)),
                                    status |-> "outstanding"])
       /\ op' = OpAt(c, "returned", Len(ds) + 1)
    \/ /\ open = {} /\ Matching(r, types, box) = {}
       /\ deliveries' = ds
       /\ op' = OpAt(c, s, 0)

\* A bug: the next page is read from the mailbox as it was before the
\* acknowledgement.
readDeliveryStale(c, r, types, box, ds, s) ==
    LET open == {i \in DOMAIN ds : ds[i].run = r /\ ds[i].status = "outstanding"}
    IN
    \/ \E i \in open : deliveries' = ds /\ op' = OpAt(c, "returned", i)
    \/ /\ open = {} /\ Matching(r, types, inbox) # {}
       /\ Len(ds) < MaxDeliveries
       /\ deliveries' = Append(ds, [run |-> r, generation |-> generation[r],
                                    messages |-> Page(Unread(r, inbox)),
                                    status |-> "outstanding"])
       /\ op' = OpAt(c, "returned", Len(ds) + 1)
    \/ /\ open = {} /\ Matching(r, types, inbox) = {}
       /\ deliveries' = ds
       /\ op' = OpAt(c, s, 0)

\* getOrCreateRunDelivery on the mailbox box and the deliveries ds: the
\* outstanding delivery again, or a new one when a message matches types.
\* Otherwise the call goes on to stage s.
readDelivery(c, r, types, box, ds, s) ==
    LET open == {i \in DOMAIN ds : ds[i].run = r /\ ds[i].status = "outstanding"}
    IN
    \/ \E i \in open :
        /\ deliveries' = ds
        /\ op' = IF ds[i].generation = generation[r]
                 THEN OpAt(c, "returned", i) ELSE OpAt(c, "threw", 0)
    \/ /\ open = {} /\ Matching(r, types, box) # {}
       /\ Len(ds) < MaxDeliveries
       /\ deliveries' = Append(ds, [run |-> r, generation |-> generation[r],
                                    messages |-> Page(Unread(r, box)),
                                    status |-> "outstanding"])
       /\ op' = OpAt(c, "returned", Len(ds) + 1)
    \/ /\ open = {} /\ Matching(r, types, box) = {}
       /\ deliveries' = ds
       /\ op' = OpAt(c, s, 0)

\* What check a does once its acknowledgement has been applied.
Answer(c, a, r, box, ds) ==
    /\ inbox' = box
    /\ IF a.mode = "peek" THEN deliveries' = ds /\ op' = OpAt(c, "returned", 0)
       ELSE readDelivery(c, r, a.types, box, ds,
                IF a.mode = "read" THEN "returned"
                ELSE IF Waiting(r) = {} THEN "waiting" ELSE "refused")
    /\ checking' = IF op'[c].at \in {"waiting", "refused"}
                   THEN [checking EXCEPT ![c] =
                            [run |-> r, generation |-> generation[r],
                             types |-> a.types]]
                   ELSE checking

acknowledgeRunDelivery(c, a, r) ==
    LET given == deliveries[a.ack] IN
    IF \/ given.run # r
       \/ given.generation # generation[r]
       \/ given.status \in {"fenced", "deleted"}
    THEN op' = OpAt(c, "threw", 0) /\ UNCHANGED <<inbox, deliveries, checking>>
    ELSE IF given.status = "acknowledged" THEN Answer(c, a, r, inbox, deliveries)
    ELSE Answer(c, a, r,
            MarkRead(r, given.messages),
            [deliveries EXCEPT ![a.ack].status = "acknowledged"])

\* The checks of pane p that are mutations: a peek is one only when it
\* acknowledges a delivery, which must have reached the pane.
ChecksOf(p) ==
    {a \in [ack : got[p] \cup {0}, mode : {"peek", "read", "wait"}, types : Filters] :
        (a.mode = "peek" => a.ack # 0) /\ (a.mode # "wait" => a.types = {})}

handleOrchestrationCheck(c, p) ==
    /\ op[c].at = "begun"
    /\ HandlerLeaves
    /\ caller' = [caller EXCEPT ![op[c].req] = p]
    /\ IF CurrentRuns(p) = {}
       THEN op' = OpAt(c, "returned", 0) /\ UNCHANGED <<inbox, deliveries, checking>>
       ELSE \E r \in CurrentRuns(p), a \in ChecksOf(p) :
            IF a.ack = 0 THEN Answer(c, a, r, inbox, deliveries)
            ELSE acknowledgeRunDelivery(c, a, r)
    /\ UNCHANGED <<sent, generation, bound, fresh>>

\* The wait is over without a message: its time is up, or the caller is gone.
WaitEnds(c) ==
    /\ Settled
    /\ op[c].at = "waiting"
    /\ op' = OpAt(c, "cancelled", 0)
    /\ HandlerLeaves /\ UNCHANGED <<caller, sent, storeVars, checking>>

\* The checks past their first look at the mailbox.
UnderWay(c) == op[c].at \in {"waiting", "notified", "cancelled", "refused"}

\* The check goes on after its wait: the run may have a new consumer by now.
\* (That it knows its run is part of MailboxTypeOK.)
ResumeCheck(c) ==
    LET r == checking[c].run IN
    /\ op[c].at \in {"notified", "cancelled", "refused"}
    /\ r \in Run
    /\ IF generation[r] # checking[c].generation \/ op[c].at = "refused"
       THEN op' = OpAt(c, "threw", 0) /\ UNCHANGED deliveries
       ELSE IF op[c].at # "notified"
       THEN op' = OpAt(c, "returned", 0) /\ UNCHANGED deliveries
       ELSE readDelivery(c, r, Filter(c), inbox, deliveries, "returned")
    /\ checking' = [checking EXCEPT ![c] = NoCheck]
    /\ HandlerLeaves
    /\ UNCHANGED <<caller, sent, inbox, generation, bound, fresh>>

\* The daemon dies and comes back: waiters and live handles are gone.
MailboxRestart ==
    /\ ReceiptsRestart
    /\ fresh' = [r \in Run |-> FALSE]
    /\ checking' = [c \in Call |-> NoCheck]
    /\ caller' = [q \in Request |-> IF row[q] = "pending" THEN NoPane ELSE caller[q]]
    /\ UNCHANGED <<sent, inbox, generation, bound, deliveries, got>>

MailboxNext ==
    \/ \E r \in Run, t \in Type : MessageArrives(r, t)
    \/ \E c \in Call, q \in Request : CallRequest(c, q)
    \/ \E c \in Call :
        \/ CallEnds(c) \/ WaitEnds(c) \/ ResumeCheck(c)
        \/ handleOrchestrationReset(c)
    \/ \E q \in Request : Replay(q) \/ Forget(q)
    \/ \E c \in Call, p \in Pane :
        handleOrchestrationCheck(c, p) \/ handleOrchestrationRunCreate(c, p)
    \/ \E c \in Call, r \in Run :
        \/ \E t \in Type : handleOrchestrationSend(c, r, t)
        \/ \E i \in 1 .. MaxMessages : handleOrchestrationReply(c, r, i)
        \/ \E p \in Pane : handleOrchestrationRunUse(c, p, r)
    \/ \E p \in Pane : PaneReopens(p)
    \/ MailboxRestart

MailboxSpec == MailboxInit /\ [][MailboxNext]_mailVars
-----------------------------------------------------------------------------
MailboxTypeOK ==
    /\ ReceiptTypeOK
    /\ caller \in [Request -> Pane \cup {NoPane}]
    /\ sent \in [Request -> Nat]
    /\ inbox \in [Run -> Seq([type : Type, read : BOOLEAN])]
    /\ generation \in [Run -> Nat]
    /\ bound \in [Run -> Pane \cup {NoPane}]
    /\ fresh \in [Run -> BOOLEAN]
    /\ deliveries \in Seq([run : Run, generation : Nat, messages : SUBSET Nat,
                           status : {"outstanding", "acknowledged", "fenced", "deleted"}])
    /\ checking \in [Call -> [run : Run, generation : Nat, types : Filters] \cup {NoCheck}]
    /\ \A c \in Call : UnderWay(c) => checking[c].run \in Run
    /\ got \in [Pane -> SUBSET (1 .. MaxDeliveries)]

\* A run has one consumer: its outstanding delivery and its waiting check are
\* the only ones and belong to the current generation, and a pane consumes
\* one run (layer-3:216-252, layer-4:52-64, get-primary-leaf-for-pty.ts:61),
\* however run-use, run-create, checks and restarts interleave.
OneConsumer ==
    \A r \in Run :
        /\ \A i \in Outstanding(r) :
            /\ deliveries[i].generation = generation[r]
            /\ Outstanding(r) = {i}
        /\ \A c \in Waiting(r) :
            /\ generation[r] \in {0, checking[c].generation}
            /\ Waiting(r) = {c}
        /\ \A s \in Run : bound[r] = bound[s] => r = s \/ bound[r] = NoPane

\* What a delivery that was acknowledged holds is read, and neither the open
\* delivery nor another acknowledged one holds it too: fencing, repeated requests,
\* repeated acknowledgements and replies to messages of an open delivery never
\* hand out again what was acknowledged (layer-4:109-154, message-history.ts:63).
AcknowledgedIsRead ==
    \A r \in Run :
        LET of(status) == {d \in DOMAIN deliveries :
                deliveries[d].run = r /\ deliveries[d].status \in status}
        IN
        /\ \A d \in of({"acknowledged"}) : deliveries[d].messages \cap Unread(r, inbox) = {}
        /\ \A d, e \in of({"acknowledged", "outstanding"}) :
            d # e => deliveries[d].messages \cap deliveries[e].messages = {}

\* No message that is stored before an acknowledged one is left unread, although a
\* check that waits for one type skips the others and a reply or a report reads
\* messages out of order (layer-4:66-92).
AcknowledgedInOrder ==
    \A d \in DOMAIN deliveries :
        deliveries[d].status = "acknowledged" =>
            \A j \in deliveries[d].messages : \A i \in Unread(deliveries[d].run, inbox) : j < i

\* No check sleeps on a message it waits for: between its last look at the
\* mailbox and its registration as a waiter nothing can arrive unnoticed
\* (message-check.ts:66-104), and every message that is stored wakes it.
NoLostWakeup ==
    \A c \in Call :
        op[c].at = "waiting" => Matching(checking[c].run, Filter(c), inbox) = {}

\* A delivery reaches one pane only, the one that consumes the run in the
\* generation it was made for: neither a pane that takes the run over nor the
\* receipt of a repeated request hands it to another (layer-3:167-178).
OneReceiver ==
    \A p, o \in Pane : p # o => got[p] \cap got[o] = {}

\* A send that is repeated with its request id stores one message, whether
\* its answer was lost, its call is in flight or the daemon died before the
\* receipt was completed (orchestration-mutation-executor.ts:65-86).
SentOnce == \A q \in Request : sent[q] <= 1

\* What a request to the mailbox was once told it is told for ever: its completed
\* receipt is neither discarded nor overwritten while its id is in use.  (The
\* handlers here complete no receipt themselves; ask does, ask.ts:98, and the
\* executor overwrites it with its answer.)
CompletedReceiptStands ==
    [][\A q \in Request :
        row[q] = "completed" =>
            \/ row'[q] = "completed" /\ receipt'[q] = receipt[q]
            \/ Forget(q)]_mailVars
\* The mailbox without its requests and deliveries: what is read of a run, and
\* the page its consumer has open.
Queues == INSTANCE MessageQueues WITH
    Queue <- Run, Kind <- Type, Reader <- Pane, NoReader <- NoPane, PageSize <- PageLimit,
    log <- [r \in Run |-> [i \in DOMAIN inbox[r] |-> inbox[r][i].type]],
    reader <- bound,
    read <- [r \in Run |-> {i \in DOMAIN inbox[r] : inbox[r][i].read}],
    done <- [r \in Run |-> UNION {deliveries[d].messages : d \in Acknowledged(r)}],
    open <- [r \in Run |-> UNION {deliveries[d].messages : d \in Outstanding(r)}]

\* The mailbox implements MessageQueues: whatever is repeated, lost or cut, the
\* consumer of a run gets one page at a time, the first messages not read yet,
\* what it acknowledges stays read, what it did not acknowledge is read only when
\* one is replied to or a worker reports, and a run changes hands only together
\* with its open page (layer-3:216-252, layer-4:52-154, message-history.ts:63,
\* lifecycle-reconciliation.ts:155, 332-348).
ImplementsQueues == Queues!QueuesSpec
=============================================================================
