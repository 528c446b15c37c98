--------------------------- MODULE FederationRelay ---------------------------
(***************************************************************************)
(* A dispatch whose agent works on another machine: the home daemon that   *)
(* owns the task, the worker host that runs the agent, and the relay       *)
(* between their two stores                                                *)
(* (runtime/orchestration/federation-sync.ts, orchestration-db-layer-9.ts  *)
(* to -12.ts, runtime/rpc/methods/orchestration/federation/).              *)
(*                                                                         *)
(* The home side does what SupervisedWorker does; what that module takes   *)
(* from an arbitrary host is here the answer of a modelled one.  Each      *)
(* store keeps numbered items for the other.  The home daemon pulls,       *)
(* imports and acknowledges the host's items, then sends its own, by calls *)
(* that may time out, be carried out late, or be cut by a restart of       *)
(* either daemon.  Rows of different dispatches never meet, so one         *)
(* federated dispatch is modelled.                                         *)
(*                                                                         *)
(* Left out: item bodies and their size quota, peer identity, the receipts *)
(* of attach-start and stop (each is sent once), reading a host's output.  *)
(***************************************************************************)
EXTENDS SupervisedWorker, Sequences

CONSTANTS Quota,        \* unacknowledged items per direction (256 in the code)
          PullLimit,    \* items per call (50 in the code)
          Sync,         \* bound: who syncs, see below
          HasSetup,     \* the worktree has a setup script to wait for
          Chatter,      \* bound: what the agent sends beside its report
          MaxToHome,    \* bound: items the host numbers in one behaviour
          MaxToWorker,  \* bound: items the home daemon numbers
          MaxLate       \* bound: calls given up but still on their way

ASSUME RelayAssumption ==
    /\ MaxDispatch >= 1
    /\ Quota \in Nat /\ PullLimit \in Nat \ {0}
    /\ "timer" \in Sync /\ Sync \subseteq {"timer", "direct"}
    /\ HasSetup \in BOOLEAN
    /\ Chatter \subseteq {"status", "heartbeat", "question"}
    /\ MaxToHome \in Nat /\ MaxToWorker \in Nat /\ MaxLate \in Nat

VARIABLES
  \* the worker host's store
  attachment,    \* remote_dispatch_attachments.state, "absent" without a row
  authority,     \* capability_hash is set: the agent may send
  toHome,        \* kinds of the to_home items, by sequence number
  ackedHome,     \* to_home items with acked_at set: a prefix
  hostCursor,    \* to_worker_imported_sequence
  mail,          \* messages stored for the agent, per to_worker item
  remoteAnswer,  \* remote_questions.status of the one question
  receipt,       \* mutation_receipts of the relay's own requests
  \* the worker host's memory
  monitor,       \* a setup script is being waited for
  \* the home daemon's store, beside the tasks and dispatches
  cursor,        \* to_home_imported_sequence
  inbox,         \* kinds of the imported messages, in order
  toWorker,      \* kinds of the to_worker items, by sequence number
  ackedWorker,   \* to_worker items with acked_at set: a prefix
  answered,      \* the question is answered
  \* the home daemon's memory
  timer,         \* the relay timer is running
  replying,      \* a reply is between its two transactions
  sync,          \* syncFederatedDispatch in progress
  \* the calls
  attach,        \* the attach-start call or its answer
  stop,          \* the stop call or its answer
  late           \* relay calls given up that may still be carried out

hostVars == <<attachment, authority, toHome, ackedHome, hostCursor, mail,
              remoteAnswer, receipt, monitor>>
homeStore == <<cursor, inbox, toWorker, ackedWorker, answered>>
homeMemory == <<timer, replying>>
homeVars == <<homeStore, homeMemory, sync>>
netVars == <<attach, stop, late>>
relayVars == <<vars, hostVars, homeVars, netVars>>

D == 1   \* the federated dispatch

AttachmentState == {"absent", "starting", "ready", "start_unknown", "succeeded",
                    "failed", "stopping", "stop_unknown", "stopped"}
SettledAttachment == {"succeeded", "failed", "stopped"}
ToHomeKind == {"status", "heartbeat", "question"} \cup Outcome
ToWorkerKind == {"control", "reply"}

\* A call to acknowledge or to import.  Its request id names its last sequence
\* number only; "from" is what else two payloads under one id may differ in.
Request == [kind : {"ack"}, from : {1}, to : 1..MaxToHome]
      \cup [kind : {"import"}, from : 1..MaxToWorker, to : 1..MaxToWorker]
RequestId == {<<"ack", n>> : n \in 1..MaxToHome} \cup {<<"import", n>> : n \in 1..MaxToWorker}
IdOf(r) == <<r.kind, r.to>>

Receipt == [state : {"none", "pending", "completed"},
            from : 0..MaxToWorker + 1, through : 0..MaxToHome + MaxToWorker]
NoReceipt == [state |-> "none", from |-> 0, through |-> 0]

\* Where a sync waits.  n is the last sequence number it knows imported (for
\* an import call, the first it sends); batch the items it has pulled and not
\* yet imported.  "shown": worker-show has the host's answer, in batch, and may
\* sync next.  The answers of the calls that change the host's store are used
\* when they are given: a delay in between shows nowhere.
SyncPoint == {"idle", "shown", "pull", "pulled", "loop", "ack", "import"}
Idle == [at |-> "idle", n |-> 0, to |-> 0, batch |-> <<>>]
Waiting(at, n, to) == [at |-> at, n |-> n, to |-> to, batch |-> <<>>]
Shown(reply) == [at |-> "shown", n |-> 0, to |-> 0, batch |-> <<reply>>]

\* The timer's sync is never started twice.  worker-show and worker-stop start
\* a "direct" one of their own (bound: one of those at a time, or none).

AttachPoint == {"none", "sent", "served", "refused", "ready", "failed", "start_unknown"}
StopPoint == {"none", "sent", "served", "refused", "stopped", "stop_unknown",
              "succeeded", "failed"}
InTransit(call) == call \notin {"none", "sent", "served"}

Larger(m, n) == IF m > n THEN m ELSE n

\* What the timer works for.
Relaying == worker[D] \in {"starting", "ready", "stopping"}
\* The home daemon's thread is not in the middle of a handler's step.
HomeFree == ~ replying /\ \A s \in Sync : sync[s].at # "loop"

RelayInit ==
    /\ Init
    /\ attachment = "absent" /\ authority = FALSE /\ monitor = FALSE
    /\ toHome = <<>> /\ ackedHome = 0 /\ hostCursor = 0
    /\ mail = [i \in 1..MaxToWorker |-> 0]
    /\ remoteAnswer = "none"
    /\ receipt = [q \in RequestId |-> NoReceipt]
    /\ cursor = 0 /\ inbox = <<>> /\ toWorker = <<>> /\ ackedWorker = 0
    /\ answered = FALSE /\ timer = FALSE /\ replying = FALSE
    /\ sync = [s \in Sync |-> Idle]
    /\ attach = "none" /\ stop = "none" /\ late = {}

RelayTypeOK ==
    /\ TypeOK
    /\ attachment \in AttachmentState
    /\ authority \in BOOLEAN /\ monitor \in BOOLEAN
    /\ toHome \in Seq(ToHomeKind) /\ Len(toHome) <= MaxToHome
    /\ ackedHome \in 0..Len(toHome)
    /\ mail \in [1..MaxToWorker -> 0..1]
    /\ remoteAnswer \in {"none", "pending", "answered"}
    /\ receipt \in [RequestId -> Receipt]
    /\ inbox \in Seq(ToHomeKind)
    /\ cursor \in 0..Len(toHome)
    /\ toWorker \in Seq(ToWorkerKind) /\ Len(toWorker) <= MaxToWorker
    /\ ackedWorker \in 0..Len(toWorker) /\ hostCursor \in 0..Len(toWorker)
    /\ answered \in BOOLEAN /\ timer \in BOOLEAN /\ replying \in BOOLEAN
    /\ sync \in [Sync -> [at : SyncPoint, n : 0..Larger(MaxToHome, MaxToWorker),
                          to : 0..MaxToWorker,
                          batch : Seq(ToHomeKind \cup AttachmentState \cup {"reported"})]]
    /\ attach \in AttachPoint /\ stop \in StopPoint
    /\ late \in SUBSET Request

-----------------------------------------------------------------------------
\* The worker host: the attachment

hostRelay == <<toHome, ackedHome, hostCursor, mail, remoteAnswer, receipt>>

\* An answer nobody waits for any more is dropped.
AnswerStart(a) == attach' = IF startCall[D] = "remote" THEN a ELSE "none"
AnswerStop(a) == stop' = IF D \in stopCall THEN a ELSE "none"

\* attach-start: the request is refused, or the attachment created with it.
HostRefusesAttach ==
    /\ attach = "sent"
    /\ AnswerStart("refused")
    /\ UNCHANGED <<vars, hostVars, homeVars, stop, late>>

createRemoteDispatchAttachment ==
    /\ attach = "sent"
    /\ attachment' = "starting"
    /\ attach' = "served"
    /\ UNCHANGED <<vars, authority, monitor, hostRelay, homeVars, stop, late>>

prepareRemoteAttachmentAuthority ==
    /\ attach = "served"
    /\ ~ authority
    /\ authority' = TRUE
    /\ UNCHANGED <<vars, attachment, monitor, hostRelay, homeVars, netVars>>

\* The prompt was typed; the setup script may still be running.
markRemoteAttachmentReady ==
    /\ attach = "served"
    /\ authority
    /\ attachment' = "ready"
    /\ monitor' = HasSetup
    /\ AnswerStart("ready")
    /\ UNCHANGED <<vars, authority, hostRelay, homeVars, stop, late>>

failRemoteAttachment(a) ==
    /\ attach = "served"
    /\ attachment' = a
    /\ authority' = FALSE
    /\ AnswerStart(a)
    /\ UNCHANGED <<vars, monitor, hostRelay, homeVars, stop, late>>

\* Mutant: the agent keeps its authority while it is stopped.
beginRemoteAttachmentStopTrusting ==
    /\ stop = "sent"
    /\ IF attachment \in {"ready", "start_unknown"}
       THEN attachment' = "stopping" /\ stop' = "served"
       ELSE /\ AnswerStop(IF attachment \in SettledAttachment THEN attachment ELSE "refused")
            /\ UNCHANGED attachment
    /\ UNCHANGED <<vars, authority, monitor, hostRelay, homeVars, attach, late>>

\* stop: an attachment that ended is reported, one in between refused.
beginRemoteAttachmentStop ==
    /\ stop = "sent"
    /\ IF attachment \in {"ready", "start_unknown"}
       THEN attachment' = "stopping" /\ authority' = FALSE /\ stop' = "served"
       ELSE /\ AnswerStop(IF attachment \in SettledAttachment THEN attachment ELSE "refused")
            /\ UNCHANGED <<attachment, authority>>
    /\ UNCHANGED <<vars, monitor, hostRelay, homeVars, attach, late>>

\* The terminal was closed, or its process could not be confirmed.
settleRemoteAttachmentStop(a) ==
    /\ stop = "served"
    /\ attachment' = a
    /\ AnswerStop(a)
    /\ UNCHANGED <<vars, authority, monitor, hostRelay, homeVars, attach, late>>

-----------------------------------------------------------------------------
\* The worker host: what it sends

attachVars == <<attachment, authority, monitor>>
importVars == <<hostCursor, mail, receipt>>

\* verifyRemoteAttachmentAuthority, for the pane of the attachment.
AgentMaySend == authority /\ attachment \in {"starting", "ready"}

QuotaLeft == Len(toHome) - ackedHome < Quota
Unacked(kind) == {i \in ackedHome + 1..Len(toHome) : toHome[i] = kind}

enqueueFederationRelay(kind) ==
    /\ Len(toHome) < MaxToHome
    /\ QuotaLeft
    /\ toHome' = Append(toHome, kind)
    /\ UNCHANGED ackedHome

\* A heartbeat is merged into one that is not acknowledged yet.
SendMessage(kind) ==
    /\ AgentMaySend
    /\ kind \in Chatter \ {"question"}
    /\ kind = "heartbeat" => Unacked("heartbeat") = {}
    /\ enqueueFederationRelay(kind)
    /\ UNCHANGED <<vars, attachVars, importVars, remoteAnswer, homeVars, netVars>>

askRemoteRunHome ==
    /\ AgentMaySend
    /\ "question" \in Chatter
    /\ remoteAnswer = "none"   \* bound: one question
    /\ enqueueFederationRelay("question")
    /\ remoteAnswer' = "pending"
    /\ UNCHANGED <<vars, attachVars, importVars, homeVars, netVars>>

\* The first heartbeat still unacknowledged gives its place to the report.
replaceHeartbeat(outcome) ==
    /\ ~ QuotaLeft
    /\ \E i \in Unacked("heartbeat") :
          /\ \A j \in Unacked("heartbeat") : i <= j
          /\ toHome' = [toHome EXCEPT ![i] = outcome]
    /\ UNCHANGED ackedHome

\* Mutant: the report is queued without settling the attachment.
SendWorkerDoneUnsettled(outcome) ==
    /\ AgentMaySend
    /\ attachment = "ready"
    /\ enqueueFederationRelay(outcome) \/ replaceHeartbeat(outcome)
    /\ UNCHANGED <<vars, attachVars, importVars, remoteAnswer, homeVars, netVars>>

SendWorkerDone(outcome) ==
    /\ AgentMaySend
    /\ attachment = "ready"
    /\ enqueueFederationRelay(outcome) \/ replaceHeartbeat(outcome)
    /\ attachment' = outcome
    /\ authority' = FALSE
    /\ UNCHANGED <<vars, monitor, importVars, remoteAnswer, homeVars, netVars>>

\* The setup script ended; without capacity its status is dropped.
monitorFederatedSetup ==
    /\ monitor
    /\ monitor' = FALSE
    /\ \/ enqueueFederationRelay("status")
       \/ ~ QuotaLeft /\ UNCHANGED <<toHome, ackedHome>>
    /\ UNCHANGED <<vars, attachment, authority, importVars, remoteAnswer, homeVars, netVars>>

-----------------------------------------------------------------------------
\* The worker host: relay calls.  A handler runs without an await, so a call
\* takes effect at once, except when the daemon dies in it.

\* Mutant: a control message is stored again.
storedAgain(m) == m + 1

\* importFederatedControlMessage: an existing message is recognised by its id.
stored(m) == IF m = 0 THEN 1 ELSE m

\* The cursor advances to k; the effects of items up to e are there.
importThrough(k, e) ==
    /\ hostCursor' = k
    /\ mail' = [i \in 1..MaxToWorker |->
                  IF i \in hostCursor + 1..e /\ toWorker[i] = "control"
                  THEN stored(mail[i]) ELSE mail[i]]
    /\ remoteAnswer' = IF \E i \in hostCursor + 1..e : toWorker[i] = "reply"
                       THEN "answered" ELSE remoteAnswer
    /\ UNCHANGED ackedHome

\* Mutant: one more than asked for.
handleOrchestrationFederationAckBeyond(n) ==
    /\ ackedHome' = Larger(ackedHome, n + 1)
    /\ UNCHANGED <<hostCursor, mail, remoteAnswer>>

handleOrchestrationFederationAck(n) ==
    /\ ackedHome' = Larger(ackedHome, n)
    /\ UNCHANGED <<hostCursor, mail, remoteAnswer>>

\* Mutant: a late import moves the cursor back.
handleRewinding(r) == IF r.kind = "ack" THEN handleOrchestrationFederationAck(r.to)
                      ELSE importThrough(r.to, r.to)

handle(r) == IF r.kind = "ack" THEN handleOrchestrationFederationAck(r.to)
             ELSE LET k == Larger(hostCursor, r.to) IN importThrough(k, k)

\* An import with something new, for an agent that is not active; the receipt
\* is discarded with the error.
Inactive(r) == r.kind = "import" /\ r.to > hostCursor /\ attachment # "ready"

Starts(r) == receipt[IdOf(r)].state = "none" /\ ~ Inactive(r)
Replays(r) == receipt[IdOf(r)].state = "completed" /\ receipt[IdOf(r)].from = r.from
\* request_mismatch, operation_unknown or dispatch_inactive.
Throws(r) == ~ Starts(r) /\ ~ Replays(r)

\* What the answer says was acknowledged.
Through(r) == IF Starts(r) THEN Larger(r.to, IF r.kind = "ack" THEN 0 ELSE hostCursor)
              ELSE receipt[IdOf(r)].through

SetReceipt(r, state, n) ==
    receipt' = [receipt EXCEPT ![IdOf(r)] = [state |-> state, from |-> r.from, through |-> n]]

HostHandles(r) ==
    /\ \/ Starts(r) /\ handle(r) /\ SetReceipt(r, "completed", Through(r))
       \/ ~ Starts(r) /\ UNCHANGED <<ackedHome, hostCursor, mail, remoteAnswer, receipt>>
    /\ UNCHANGED <<vars, attachVars, toHome>>

\* The handlers that were waiting are gone, and with them the setup monitor.
HostProcessEnds ==
    /\ attach' = IF attach = "served" THEN "none" ELSE attach
    /\ stop' = IF stop = "served" THEN "none" ELSE stop
    /\ monitor' = FALSE
    /\ UNCHANGED <<vars, attachment, authority, toHome>>

HostRestart ==
    /\ HostProcessEnds
    /\ UNCHANGED <<ackedHome, hostCursor, mail, remoteAnswer, receipt, homeVars, late>>

\* The process dies between beginMutationReceipt and its completion, after
\* none, some or all of the call's transactions.
HostDies(r) ==
    /\ Starts(r)
    /\ SetReceipt(r, "pending", 0)
    /\ \/ handle(r)
       \/ UNCHANGED <<ackedHome, hostCursor, mail, remoteAnswer>>
       \/ /\ r.kind = "import"
          /\ \E k \in hostCursor..r.to - 1 : importThrough(k, k) \/ importThrough(k, k + 1)
    /\ HostProcessEnds

-----------------------------------------------------------------------------
\* The home daemon: syncFederatedDispatch

SetSync(s, point) == sync' = [sync EXCEPT ![s] = point]

SyncBegins(s) ==
    /\ sync[s] = Idle
    /\ SetSync(s, Waiting("pull", cursor, 0))

TimerTick ==
    /\ HomeFree
    /\ timer
    /\ IF Relaying THEN SyncBegins("timer") /\ UNCHANGED timer
                   ELSE timer' = FALSE /\ UNCHANGED sync
    /\ UNCHANGED <<vars, hostVars, homeStore, replying, netVars>>

\* The last of at most PullLimit items after the n-th.
PageEnd(items, n) == IF Len(items) < n + PullLimit THEN Len(items) ELSE n + PullLimit

listFederationRelay(n) == SubSeq(toHome, n + 1, PageEnd(toHome, n))

\* Mutant: pulled items are taken for acknowledged.
PullAnsweredAcks(s) ==
    LET items == listFederationRelay(sync[s].n) IN
    /\ sync[s].at = "pull"
    /\ attachment # "absent"
    /\ SetSync(s, [sync[s] EXCEPT !.at = "pulled", !.batch = items])
    /\ ackedHome' = Larger(ackedHome, sync[s].n + Len(items))
    /\ UNCHANGED <<vars, attachVars, toHome, importVars, remoteAnswer, homeStore, homeMemory, netVars>>

PullAnswered(s) ==
    /\ sync[s].at = "pull"
    /\ attachment # "absent"
    /\ SetSync(s, [sync[s] EXCEPT !.at = "pulled", !.batch = listFederationRelay(sync[s].n)])
    /\ UNCHANGED <<vars, hostVars, homeStore, homeMemory, netVars>>

\* What is sent to the worker host once its own items are acknowledged.
outbox == IF worker[D] = "ready" /\ ackedWorker < Len(toWorker)
          THEN Waiting("import", ackedWorker + 1, PageEnd(toWorker, ackedWorker)) ELSE Idle

\* There was nothing to import.
PullWasEmpty(s) ==
    /\ HomeFree
    /\ sync[s].at = "pulled" /\ sync[s].batch = <<>>
    /\ SetSync(s, IF sync[s].n > 0 THEN Waiting("ack", sync[s].n, 0) ELSE outbox)
    /\ UNCHANGED <<vars, hostVars, homeStore, homeMemory, netVars>>

\* After the item with number n.
afterItem(n, rest) ==
    IF rest # <<>> THEN [at |-> "loop", n |-> n, to |-> 0, batch |-> rest]
    ELSE Waiting("ack", n, 0)

\* The store accepts the report.
ReportAccepted == /\ status[D] = "dispatched"
                  /\ taskStatus[dispatchTask[D]] = "dispatched"
                  /\ IsLatest(D)

ImportEffect(kind) ==
    \/ kind = "question" /\ WorkerAskRelayed(D)
    \/ kind \in Outcome /\ ReportAccepted /\ WorkerReportRelayed(D, kind)
    \/ kind \in Outcome /\ ~ ReportAccepted /\ UNCHANGED vars
    \/ kind \in {"status", "heartbeat"} /\ UNCHANGED vars

\* Mutant: an item is not looked up before it is imported.
importFederatedRelayItemAgain(s) ==
    LET n == sync[s].n + 1 IN
    /\ sync[s].at = "loop" \/ (sync[s].at = "pulled" /\ HomeFree)
    /\ sync[s].batch # <<>>
    /\ ImportEffect(Head(sync[s].batch))
    /\ inbox' = Append(inbox, Head(sync[s].batch))
    /\ cursor' = Larger(cursor, n)
    /\ SetSync(s, afterItem(n, Tail(sync[s].batch)))
    /\ UNCHANGED <<hostVars, toWorker, ackedWorker, answered, homeMemory, netVars>>

\* importFederatedRelayItem, in the loop over the pulled items.
importFederatedRelayItem(s) ==
    LET n == sync[s].n + 1
        kind == Head(sync[s].batch)
        rest == Tail(sync[s].batch)
    IN
    /\ sync[s].at = "loop" \/ (sync[s].at = "pulled" /\ HomeFree)
    /\ sync[s].batch # <<>>
    /\ \/ \* imported before
          /\ n <= cursor /\ inbox[n] = kind
          /\ SetSync(s, afterItem(n, rest))
          /\ UNCHANGED <<vars, cursor, inbox>>
       \/ \* "was committed without its message"
          /\ n <= cursor /\ inbox[n] # kind
          /\ SetSync(s, Idle)
          /\ UNCHANGED <<vars, cursor, inbox>>
       \/ /\ n = cursor + 1
          /\ ImportEffect(kind)
          /\ inbox' = Append(inbox, kind)
          /\ cursor' = n
          /\ SetSync(s, afterItem(n, rest))
    /\ UNCHANGED <<hostVars, toWorker, ackedWorker, answered, homeMemory, netVars>>

\* The relay call sync s waits for.
RequestOf(s) == IF sync[s].at = "ack" THEN [kind |-> "ack", from |-> 1, to |-> sync[s].n]
                ELSE [kind |-> "import", from |-> sync[s].n, to |-> sync[s].to]
Calling(s) == sync[s].at \in {"ack", "import"}

\* An error ends the sync; its next run starts over.
CallAnswered(s) ==
    LET r == RequestOf(s) IN
    /\ HomeFree
    /\ Calling(s)
    /\ HostHandles(r)
    /\ SetSync(s, IF r.kind = "ack" /\ ~ Throws(r) THEN outbox ELSE Idle)
    /\ ackedWorker' = IF r.kind = "import" /\ ~ Throws(r)
                      THEN Larger(ackedWorker, Through(r)) ELSE ackedWorker
    /\ UNCHANGED <<cursor, inbox, toWorker, answered, homeMemory, netVars>>

\* Mutant: the failed sync stays registered as the current one.
SyncFailsKeepsEntry(s) ==
    /\ sync[s].at \in {"pull", "pulled"} \/ Calling(s)
    /\ SetSync(s, [Idle EXCEPT !.batch = <<"heartbeat">>])
    /\ UNCHANGED <<vars, hostVars, homeStore, homeMemory, netVars>>

\* A timeout, a lost connection, a host that is not there: the call was not
\* carried out, or it was and its answer is lost, or it still will be.
SyncFails(s) ==
    /\ sync[s].at \in {"pull", "pulled"} \/ Calling(s)
    /\ SetSync(s, Idle)
    /\ UNCHANGED <<vars, hostVars, homeStore, homeMemory, netVars>>

AnswerLost(s) ==
    /\ Calling(s)
    /\ HostHandles(RequestOf(s))
    /\ SetSync(s, Idle)
    /\ UNCHANGED <<homeStore, homeMemory, netVars>>

CallDelayed(s) ==
    /\ Calling(s)
    /\ Cardinality(late) < MaxLate
    /\ late' = late \cup {RequestOf(s)}
    /\ SetSync(s, Idle)
    /\ UNCHANGED <<vars, hostVars, homeStore, homeMemory, attach, stop>>

LateCall(r) ==
    /\ r \in late
    /\ late' = late \ {r}
    /\ HostHandles(r)
    /\ UNCHANGED <<homeVars, attach, stop>>

\* The host's process ends while it carries out a relay call.
CallCut(s) ==
    /\ Calling(s)
    /\ HostDies(RequestOf(s))
    /\ SetSync(s, Idle)
    /\ UNCHANGED <<homeStore, homeMemory, late>>

LateCallCut(r) ==
    /\ r \in late
    /\ HostDies(r)
    /\ late' = late \ {r}
    /\ UNCHANGED homeVars

-----------------------------------------------------------------------------
\* The home daemon: its own handlers


HomeTaskCreate(t) ==
    /\ HomeFree
    /\ TaskCreate(t, {})
    /\ UNCHANGED <<hostVars, homeVars, netVars>>

HomeWorkerStart(t) ==
    /\ HomeFree
    /\ nDispatch = 0
    /\ WorkerStart(t, NoDispatch, TRUE)
    /\ attach' = "sent"
    /\ UNCHANGED <<hostVars, homeVars, stop, late>>

\* The answer of attach-start.  A worker that is no longer starting makes each
\* of these throw.
WorkerStartAnswered ==
    /\ HomeFree
    /\ InTransit(attach)
    /\ \/ attach = "ready" /\ WorkerReady(D) /\ timer' = TRUE
       \/ attach \in {"failed", "refused"} /\ WorkerStartFails(D) /\ UNCHANGED timer
       \/ attach \in {"start_unknown", "refused"} /\ WorkerStartUnknown(D) /\ UNCHANGED timer
       \/ worker[D] # "starting" /\ WorkerStartFails(D) /\ UNCHANGED timer
    /\ attach' = "none"
    /\ UNCHANGED <<hostVars, homeStore, replying, sync, stop, late>>

\* No answer came.
WorkerStartUnanswered ==
    /\ HomeFree
    /\ WorkerStartUnknown(D) \/ (worker[D] # "starting" /\ WorkerStartFails(D))
    /\ attach' = IF InTransit(attach) THEN "none" ELSE attach
    /\ UNCHANGED <<hostVars, homeVars, stop, late>>

HomeWorkerStop ==
    /\ HomeFree
    /\ stop = "none"
    /\ WorkerStop(D)
    /\ stop' = "sent"
    /\ UNCHANGED <<hostVars, homeVars, attach, late>>

WorkerStopAnswered ==
    /\ HomeFree
    /\ InTransit(stop)
    /\ \/ stop = "stopped" /\ WorkerStoppedRemotely(D) /\ UNCHANGED sync
       \/ stop \in {"succeeded", "failed"} /\ WorkerStopSuperseded(D)
          /\ IF "direct" \in Sync THEN SyncBegins("direct") ELSE UNCHANGED sync
       \/ stop \in {"refused", "stop_unknown"} /\ WorkerStopUnconfirmed(D) /\ UNCHANGED sync
       \/ worker[D] # "stopping" /\ WorkerStopUnconfirmed(D) /\ UNCHANGED sync
    /\ stop' = "none"
    /\ UNCHANGED <<hostVars, homeStore, homeMemory, attach, late>>

WorkerStopUnanswered ==
    /\ HomeFree
    /\ WorkerStopUnconfirmed(D)
    /\ stop' = IF InTransit(stop) THEN "none" ELSE stop
    /\ UNCHANGED <<hostVars, homeVars, attach, late>>

HomeWorkerAbandon ==
    /\ HomeFree
    /\ WorkerAbandon(D)
    /\ UNCHANGED <<hostVars, homeVars, netVars>>

\* worker-show reads the attachment; the answer is used later.
handleOrchestrationFederationShow ==
    /\ "direct" \in Sync /\ sync["direct"] = Idle
    /\ worker[D] # "absent" /\ attachment # "absent"
    /\ SetSync("direct", Shown(IF \E i \in DOMAIN toHome : toHome[i] = attachment
                               THEN "reported" ELSE attachment))
    /\ UNCHANGED <<vars, hostVars, homeStore, homeMemory, netVars>>

WorkerShowAnswered ==
    LET reply == Head(sync["direct"].batch) IN
    /\ "direct" \in Sync
    /\ HomeFree
    /\ sync["direct"].at = "shown"
    /\ \/ /\ reply = "reported"
          /\ SetSync("direct", Waiting("pull", cursor, 0))
          /\ UNCHANGED vars
       \/ /\ reply \in {"ready", "failed", "stopped"}
          /\ WorkerShowRemote(D, reply)
          /\ SetSync("direct", Idle)
       \/ \* nothing to reconcile, or the answer was lost
          /\ SetSync("direct", Idle)
          /\ UNCHANGED vars
    /\ UNCHANGED <<hostVars, homeStore, homeMemory, netVars>>

\* check, send, reply and worker-show make sure the timer runs; the tick at
\* once stops it again for a worker it does not work for.
ensureOrchestrationFederationRelay ==
    /\ HomeFree
    /\ Relaying
    /\ timer' = TRUE
    /\ UNCHANGED <<vars, hostVars, homeStore, replying, sync, netVars>>

enqueueToWorker(kind) ==
    /\ Len(toWorker) < MaxToWorker
    /\ Len(toWorker) - ackedWorker < Quota
    /\ toWorker' = Append(toWorker, kind)

\* orchestration.send to the dispatch.
SendControlMail ==
    /\ HomeFree
    /\ worker[D] = "ready"
    /\ enqueueToWorker("control")
    /\ UNCHANGED <<vars, hostVars, cursor, inbox, ackedWorker, answered, homeMemory, sync, netVars>>

\* Mutant: the reply is queued whether or not the answer was recorded.
ReplyRecordedLater ==
    /\ HomeFree
    /\ Len(toWorker) < MaxToWorker
    /\ replying' = TRUE
    /\ UNCHANGED <<vars, hostVars, homeStore, timer, sync, netVars>>

\* orchestration.reply: the answer is recorded, then queued for the host in a
\* second transaction.  The same reply sent again finds it recorded.
ReplyRecorded ==
    /\ HomeFree
    /\ Len(toWorker) < MaxToWorker
    /\ (answered /\ UNCHANGED vars) \/ (~ answered /\ CoordinatorAnswer(D))
    /\ answered' = TRUE
    /\ replying' = TRUE
    /\ UNCHANGED <<hostVars, cursor, inbox, toWorker, ackedWorker, timer, sync, netVars>>

ReplyQueued ==
    /\ replying
    /\ replying' = FALSE
    /\ \/ enqueueToWorker("reply")
       \/ Len(toWorker) - ackedWorker >= Quota /\ UNCHANGED toWorker
    /\ UNCHANGED <<vars, hostVars, cursor, inbox, ackedWorker, answered, timer, sync, netVars>>

HomeRestart ==
    /\ Restart
    /\ timer' = FALSE /\ replying' = FALSE
    /\ sync' = [s \in Sync |-> Idle]
    /\ attach' = IF InTransit(attach) THEN "none" ELSE attach
    /\ stop' = IF InTransit(stop) THEN "none" ELSE stop
    /\ UNCHANGED <<hostVars, homeStore, late>>

-----------------------------------------------------------------------------
Host ==
    \/ HostRefusesAttach
    \/ createRemoteDispatchAttachment
    \/ prepareRemoteAttachmentAuthority
    \/ markRemoteAttachmentReady
    \/ \E a \in {"failed", "start_unknown"} : failRemoteAttachment(a)
    \/ beginRemoteAttachmentStop
    \/ \E a \in {"stopped", "stop_unknown"} : settleRemoteAttachmentStop(a)
    \/ \E kind \in Chatter : SendMessage(kind)
    \/ askRemoteRunHome
    \/ \E o \in Outcome : SendWorkerDone(o)
    \/ monitorFederatedSetup
    \/ handleOrchestrationFederationShow
    \/ HostRestart

Call ==
    \/ \E s \in Sync : \/ PullAnswered(s)
                       \/ CallAnswered(s)
                       \/ SyncFails(s)
                       \/ AnswerLost(s)
                       \/ CallDelayed(s)
                       \/ CallCut(s)
    \/ \E r \in late : LateCall(r) \/ LateCallCut(r)

Home ==
    \/ \E t \in Task : HomeTaskCreate(t) \/ HomeWorkerStart(t)
    \/ WorkerStartAnswered
    \/ WorkerStartUnanswered
    \/ HomeWorkerStop
    \/ WorkerStopAnswered
    \/ WorkerStopUnanswered
    \/ HomeWorkerAbandon
    \/ WorkerShowAnswered
    \/ ensureOrchestrationFederationRelay
    \/ TimerTick
    \/ \E s \in Sync : PullWasEmpty(s) \/ importFederatedRelayItem(s)
    \/ SendControlMail
    \/ ReplyRecorded
    \/ ReplyQueued
    \/ HomeRestart

RelayNext == Host \/ Call \/ Home

RelaySafeSpec == RelayInit /\ [][RelayNext]_relayVars

\* The timer ticks every second and what a handler has begun goes on, in one
\* thread that lets everyone in.  A pull is bounded by a timeout, and of the
\* pulls of a worker host that can be reached again and again one gets through,
\* with its answer.
RelayFairness ==
    /\ WF_relayVars(TimerTick) /\ WF_relayVars(SyncFails("timer"))
    /\ SF_relayVars(PullAnswered("timer")) /\ SF_relayVars(importFederatedRelayItem("timer"))
    /\ WF_relayVars(ReplyQueued \/ \E s \in Sync : importFederatedRelayItem(s))

RelaySpec == RelaySafeSpec /\ RelayFairness

-----------------------------------------------------------------------------
(***************************************************************************)
(* Properties                                                              *)
(***************************************************************************)

\* A dispatch that the home daemon holds for ended, other than abandoned by
\* hand, has no agent on the worker host that may still act; a retry of the
\* task relies on it.
NoLiveRemoteAgent ==
    worker[D] \in {"succeeded", "failed", "stopped"} =>
        attachment \in SettledAttachment \cup {"absent"} /\ ~ authority

\* A report settles both stores alike: the home daemon never takes for
\* completed what the host does not.
ReportsAgree == status[D] = "completed" => attachment = "succeeded"

\* The host forgets an item (it no longer counts against the quota and is
\* never pulled again) only when the home daemon has stored it.
AckedIsImported == ackedHome <= cursor

\* Over repeated pulls, overlapping syncs and restarts every item is imported
\* once, in order, and as what the host numbered, except that the report may
\* have taken the place of a heartbeat in between.
ImportedOnceInOrder ==
    /\ Len(inbox) = cursor
    /\ \A i \in 1..cursor : \/ inbox[i] = toHome[i]
                            \/ inbox[i] = "heartbeat" /\ toHome[i] \in Outcome

\* The same towards the worker: what the home daemon takes for delivered was,
\* and no message is stored twice, though a call may be cut after the message
\* and before the cursor.
DeliveredOnce ==
    /\ ackedWorker <= hostCursor
    /\ \A i \in DOMAIN toWorker :
          /\ mail[i] <= 1
          /\ i <= hostCursor /\ toWorker[i] = "control" => mail[i] = 1
          /\ i <= hostCursor /\ toWorker[i] = "reply" => remoteAnswer = "answered"

\* The agent never acts on an answer that its run does not have, though the
\* home daemon may restart between recording an answer and queueing it.
AnswerIsRecorded == remoteAnswer = "answered" => answered

\* "stage = 'remote_report_pending'" (orchestration-db-layer-13.ts:145): a
\* worker the home daemon holds for ready while the host has its report has
\* that report still to import.
AcceptedReportIsPending ==
    worker[D] = "ready" /\ attachment \in Outcome =>
        \E i \in cursor + 1..Len(toHome) : toHome[i] = attachment

\* The relay catches up again and again with what the host numbered, however
\* many calls fail, while its timer runs for the worker.
RelayCatchesUp ==
    <>[](timer /\ Relaying /\ attachment # "absent") => []<>(cursor = Len(toHome))

\* The two directions of the relay.  Received is what is committed with the
\* cursor of the receiver.
HomewardChannel == INSTANCE RelayChannel WITH Kind <- ToHomeKind, Final <- Outcome, Window <- Quota,
    numbered <- toHome, received <- inbox, forgotten <- ackedHome
WorkerwardChannel == INSTANCE RelayChannel WITH Kind <- ToWorkerKind, Final <- {}, Window <- Quota,
    numbered <- toWorker, received <- SubSeq(toWorker, 1, hostCursor), forgotten <- ackedWorker

\* The relay towards the home daemon implements RelayChannel: through pulls,
\* overlapping syncs, repeated and late acknowledgements and restarts it gives
\* each item once and in order, forgets only what was stored, and keeps to its
\* quota (orchestration-db-layer-10.ts, federation-sync.ts).
HomewardIsChannel == HomewardChannel!ChannelSpec

\* So does the relay towards the worker, by import calls that carry several
\* items, may be cut in between, and may be carried out after they were given
\* up (orchestration-db-layer-12.ts).
WorkerwardIsChannel == WorkerwardChannel!ChannelSpec

\* The home side is what SupervisedWorker says of a federated dispatch.
HomeIsSupervised == SafeSpec
=============================================================================
