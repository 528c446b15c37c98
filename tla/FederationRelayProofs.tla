----------------------- MODULE FederationRelayProofs -----------------------
(***************************************************************************)
(* Proofs about FederationRelay, for every quota, page, chatter and bound. *)
(*                                                                         *)
(* First, what the worker host and the calls do is invisible in the home   *)
(* daemon's task store, so everything proved of SupervisedWorker holds     *)
(* here too.  Then three inductive invariants: of the items for the home   *)
(* daemon, of the items for the worker, and of the attachment and the      *)
(* answers that report on it.  The first two also show that each direction *)
(* of the relay implements RelayChannel.  The types come last: that a sync *)
(* holds only numbers of items follows from the first two.                 *)
(***************************************************************************)
EXTENDS FederationRelay, LeaseProofs

LEMMA TheDispatch == D \in Dispatch
BY RelayAssumption, StoreAssumption DEF RelayAssumption, StoreAssumption, Dispatch, D

\* No step of the worker host or of the network touches the task store.
LEMMA HostIsHidden == Host \/ Call => UNCHANGED vars
<1>1. ASSUME Host
      PROVE  UNCHANGED vars
  BY <1>1 DEF Host, HostRefusesAttach, createRemoteDispatchAttachment,
     prepareRemoteAttachmentAuthority, markRemoteAttachmentReady, failRemoteAttachment,
     beginRemoteAttachmentStop, settleRemoteAttachmentStop, SendMessage, askRemoteRunHome,
     SendWorkerDone, monitorFederatedSetup, handleOrchestrationFederationShow, HostRestart,
     HostProcessEnds
<1>2. ASSUME Call
      PROVE  UNCHANGED vars
  BY <1>2 DEF Call, PullAnswered, CallAnswered, SyncFails, AnswerLost, CallDelayed, CallCut,
     LateCall, LateCallCut, HostHandles, HostDies, HostProcessEnds
<1>3. QED
  BY <1>1, <1>2

\* What the home daemon does is what SupervisedWorker lets it do.
LEMMA HomeIsNext == Home => Next \/ UNCHANGED vars
<1> SUFFICES ASSUME Home
             PROVE  Next \/ UNCHANGED vars
    OBVIOUS
<1> USE TheDispatch DEF Next, Supervised
<1>1. ASSUME NEW t \in Task, HomeTaskCreate(t) \/ HomeWorkerStart(t)
      PROVE  Next
  <2>1. {} \in SUBSET Task /\ TRUE \in BOOLEAN /\ NoDispatch \in Dispatch \cup {NoDispatch}
    OBVIOUS
  <2>2. QED
    BY <1>1, <2>1, Zenon DEF HomeTaskCreate, HomeWorkerStart, Environment
<1>2. CASE WorkerStartAnswered \/ WorkerStartUnanswered
  BY <1>2 DEF WorkerStartAnswered, WorkerStartUnanswered, StartStep
<1>3. CASE WorkerStopAnswered \/ WorkerStopUnanswered
  BY <1>3 DEF WorkerStopAnswered, WorkerStopUnanswered, StopStep
<1>4. CASE HomeWorkerStop \/ HomeWorkerAbandon \/ ReplyRecorded
  <2>1. WorkerStop(D) \/ WorkerAbandon(D) \/ CoordinatorAnswer(D) \/ UNCHANGED vars
    BY <1>4, Zenon DEF HomeWorkerStop, HomeWorkerAbandon, ReplyRecorded
  <2>2. QED
    BY <2>1, Zenon DEF Environment
<1>5. CASE WorkerShowAnswered
  <2>1. CASE UNCHANGED vars
    BY <2>1
  <2>2. CASE \E s \in {"ready", "failed", "stopped"} : WorkerShowRemote(D, s)
    BY <2>2 DEF Environment
  <2>3. UNCHANGED vars \/ \E s \in {"ready", "failed", "stopped"} : WorkerShowRemote(D, s)
    BY <1>5, Zenon DEF WorkerShowAnswered
  <2>4. QED
    BY <2>1, <2>2, <2>3
<1>6. CASE ensureOrchestrationFederationRelay \/ TimerTick \/ SendControlMail \/ ReplyQueued
  BY <1>6 DEF ensureOrchestrationFederationRelay, TimerTick, SendControlMail, ReplyQueued
<1>7. ASSUME NEW s \in Sync, PullWasEmpty(s)
      PROVE  UNCHANGED vars
  BY <1>7 DEF PullWasEmpty
<1>8. ASSUME NEW s \in Sync, importFederatedRelayItem(s)
      PROVE  Next \/ UNCHANGED vars
  <2>1. UNCHANGED vars \/ \E kind : ImportEffect(kind)
    BY <1>8 DEF importFederatedRelayItem
  <2>2. ASSUME NEW kind, ImportEffect(kind)
        PROVE  Next \/ UNCHANGED vars
    <3>1. \/ WorkerAskRelayed(D) \/ UNCHANGED vars
          \/ kind \in Outcome /\ WorkerReportRelayed(D, kind)
      BY <2>2, Zenon DEF ImportEffect
    <3>2. QED
      BY <3>1, Zenon DEF Environment
  <2>3. QED
    BY <2>1, <2>2
<1>9. CASE HomeRestart
  BY <1>9 DEF HomeRestart
<1>10. QED
  BY <1>1, <1>2, <1>3, <1>4, <1>5, <1>6, <1>7, <1>8, <1>9 DEF Home

\* The home side of a federated dispatch implements SupervisedWorker: the host
\* that module lets answer anything is here a real one.
THEOREM HomeTheorem == RelaySafeSpec => HomeIsSupervised
<1>1. RelayInit => Init
  BY DEF RelayInit
<1>2. [RelayNext]_relayVars => [Next]_vars
  BY HostIsHidden, HomeIsNext DEF RelayNext, relayVars
<1>3. QED
  BY <1>1, <1>2, PTL DEF RelaySafeSpec, HomeIsSupervised, SafeSpec

\* So no two agents work on one task, wherever they run.
THEOREM RelayOneActiveTheorem == RelaySafeSpec => []OneActiveDispatchPerTask
BY HomeTheorem, OneActiveTheorem, PTL DEF HomeIsSupervised

\* A task that is given to the worker host is leased as any other, and while it
\* counts as dispatched somebody works on it.
THEOREM RelayLeaseTheorem == RelaySafeSpec => ImplementsLeases
BY HomeTheorem, LeaseTheorem, PTL DEF HomeIsSupervised

THEOREM RelayWorkedOnTheorem == RelaySafeSpec => []DispatchedTaskHasWorker
BY HomeTheorem, WorkedOnTheorem, PTL DEF HomeIsSupervised

-----------------------------------------------------------------------------
\* The items for the home daemon.  An item is what the host numbered, or the
\* heartbeat that the report has replaced since.
StandsFor(item, i) == item = toHome[i] \/ (item = "heartbeat" /\ toHome[i] \in Outcome)

Item == ToHomeKind \cup AttachmentState \cup {"reported"}
SyncRecord == [at : SyncPoint, n : Nat, to : Nat, batch : Seq(Item)]

\* What sync s knows imported is, and its batch follows on it.
SyncSound(s) ==
    /\ sync[s].at \in {"pull", "pulled", "loop", "ack"} => sync[s].n <= cursor
    /\ sync[s].at \in {"pulled", "loop"} =>
          /\ sync[s].n + Len(sync[s].batch) <= Len(toHome)
          /\ \A j \in 1..Len(sync[s].batch) : StandsFor(sync[s].batch[j], sync[s].n + j)

\* An acknowledgement on its way covers imported items only, whenever it will
\* be carried out.
StreamInv ==
    /\ toHome \in Seq(ToHomeKind) /\ inbox \in Seq(ToHomeKind)
    /\ ackedHome \in Nat /\ cursor \in Nat
    /\ AckedIsImported /\ cursor <= Len(toHome)
    /\ ImportedOnceInOrder
    /\ \A r \in late : r.kind = "ack" => r.to \in Nat /\ r.to <= cursor
    /\ sync \in [Sync -> SyncRecord]
    /\ \A s \in Sync : SyncSound(s)

streamVars == <<toHome, ackedHome, cursor, inbox, sync, late>>

LEMMA StreamInit == RelayInit => StreamInv
BY DEF RelayInit, StreamInv, AckedIsImported, ImportedOnceInOrder, SyncRecord, SyncPoint, SyncSound, Idle

\* Nothing of the stream changes.
LEMMA StreamStutter ==
    StreamInv /\ UNCHANGED streamVars => StreamInv'
BY DEF StreamInv, streamVars, AckedIsImported, ImportedOnceInOrder, SyncSound, StandsFor

\* The host numbers an item.
LEMMA StreamAppend ==
    ASSUME StreamInv, NEW kind \in ToHomeKind, toHome' = Append(toHome, kind),
           UNCHANGED <<ackedHome, cursor, inbox, sync, late>>
    PROVE  StreamInv'
<1>1. /\ toHome' \in Seq(ToHomeKind)
      /\ Len(toHome') = Len(toHome) + 1
      /\ \A i \in 1..Len(toHome) : toHome'[i] = toHome[i]
  BY DEF StreamInv
<1>2. ASSUME NEW s \in Sync
      PROVE  SyncSound(s)'
  <2>1. sync[s] \in SyncRecord /\ SyncSound(s)
    BY DEF StreamInv
  <2>2. QED
    BY <1>1, <2>1 DEF SyncSound, StandsFor, StreamInv, SyncRecord
<1>3. ImportedOnceInOrder'
  BY <1>1 DEF StreamInv, ImportedOnceInOrder
<1>4. QED
  BY <1>1, <1>2, <1>3 DEF StreamInv, AckedIsImported

\* The report takes the place of a heartbeat.
LEMMA StreamReplace ==
    ASSUME StreamInv, NEW outcome \in Outcome, replaceHeartbeat(outcome),
           UNCHANGED <<cursor, inbox, sync, late>>
    PROVE  StreamInv'
<1>1. PICK i \in Unacked("heartbeat") : toHome' = [toHome EXCEPT ![i] = outcome]
  BY DEF replaceHeartbeat
<1>2. i \in 1..Len(toHome) /\ toHome[i] = "heartbeat"
  BY DEF Unacked, StreamInv
<1>3. /\ toHome' \in Seq(ToHomeKind)
      /\ Len(toHome') = Len(toHome)
      /\ \A j \in 1..Len(toHome) : toHome'[j] = IF j = i THEN outcome ELSE toHome[j]
  BY <1>1, <1>2 DEF StreamInv, ToHomeKind
<1>4. \A item : \A j \in 1..Len(toHome) : StandsFor(item, j) => StandsFor(item, j)'
  BY <1>2, <1>3 DEF StandsFor, Outcome
<1>5. ASSUME NEW s \in Sync
      PROVE  SyncSound(s)'
  <2>1. sync[s] \in SyncRecord /\ SyncSound(s)
    BY DEF StreamInv
  <2>2. sync'[s] = sync[s] /\ cursor' = cursor
    OBVIOUS
  <2>3. ASSUME sync[s].at \in {"pulled", "loop"}, NEW j \in 1..Len(sync[s].batch)
        PROVE  StandsFor(sync[s].batch[j], sync[s].n + j)'
    <3>1. sync[s].n + j \in 1..Len(toHome)
      BY <2>1, <2>3 DEF SyncSound, SyncRecord, StreamInv
    <3>2. QED
      BY <1>4, <2>1, <2>2, <2>3, <3>1 DEF SyncSound, StandsFor
  <2>4. QED
    BY <1>3, <2>1, <2>2, <2>3 DEF SyncSound, StandsFor
<1>6. ImportedOnceInOrder'
  BY <1>2, <1>3 DEF StreamInv, ImportedOnceInOrder, Outcome
<1>7. QED
  BY <1>3, <1>5, <1>6 DEF StreamInv, AckedIsImported, replaceHeartbeat

\* A sync goes on, to a state that is sound; calls come and go, and the host
\* may have acknowledged what is imported.
LEMMA StreamSync ==
    ASSUME StreamInv, NEW s \in Sync, NEW point \in SyncRecord, SetSync(s, point),
           UNCHANGED <<toHome, cursor, inbox>>, SyncSound(s)',
           ackedHome' \in Nat, ackedHome' <= cursor,
           \A r \in late' : r.kind = "ack" => r.to \in Nat /\ r.to <= cursor
    PROVE  StreamInv'
<1>1. sync' = [sync EXCEPT ![s] = point] /\ sync' \in [Sync -> SyncRecord]
  BY DEF SetSync, StreamInv
<1>2. ASSUME NEW o \in Sync
      PROVE  SyncSound(o)'
  <2>1. CASE o # s
    BY <1>1, <2>1 DEF SyncSound, StandsFor, StreamInv
  <2>2. QED
    BY <2>1
<1>3. QED
  BY <1>1, <1>2 DEF StreamInv, AckedIsImported, ImportedOnceInOrder

\* The states in which a sync has no items in hand.
LEMMA WaitingIsSound ==
    ASSUME StreamInv, NEW s \in Sync, NEW n \in Nat, NEW to \in Nat,
           NEW at \in {"idle", "pull", "ack", "import"},
           at \in {"pull", "ack"} => n <= cursor,
           SetSync(s, Waiting(at, n, to)), cursor' = cursor
    PROVE  Waiting(at, n, to) \in SyncRecord /\ SyncSound(s)'
BY DEF StreamInv, SetSync, Waiting, SyncRecord, SyncPoint, SyncSound

LEMMA IdleIsWaiting == Idle = Waiting("idle", 0, 0)
BY DEF Idle, Waiting

\* The state after an item, when that item is imported.
LEMMA AfterItemIsSound ==
    ASSUME StreamInv, NEW s \in Sync, sync[s].at \in {"pulled", "loop"}, sync[s].batch # <<>>,
           SetSync(s, afterItem(sync[s].n + 1, Tail(sync[s].batch))),
           toHome' = toHome, cursor' \in Nat, sync[s].n + 1 <= cursor'
    PROVE  afterItem(sync[s].n + 1, Tail(sync[s].batch)) \in SyncRecord /\ SyncSound(s)'
<1> DEFINE batch == sync[s].batch
           rest == Tail(batch)
<1>1. sync[s] \in SyncRecord /\ SyncSound(s)
  BY DEF StreamInv
<1>2. batch \in Seq(Item) /\ sync[s].n \in Nat /\ Len(batch) \in Nat
  BY <1>1 DEF SyncRecord
<1>3. /\ rest \in Seq(Item) /\ Len(rest) \in Nat /\ Len(rest) = Len(batch) - 1
      /\ \A j \in 1..Len(rest) : rest[j] = batch[j + 1]
  BY <1>2
<1>4. sync'[s] = afterItem(sync[s].n + 1, rest)
  BY DEF SetSync, StreamInv
<1> HIDE DEF batch, rest
<1>5. afterItem(sync[s].n + 1, rest) \in SyncRecord
  <2>1. sync[s].n + 1 \in Nat /\ 0 \in Nat /\ <<>> \in Seq(Item)
    BY <1>2
  <2>2. QED
    BY <1>3, <2>1 DEF afterItem, Waiting, SyncRecord, SyncPoint
<1>6. CASE rest = <<>>
  <2>1. sync'[s] = Waiting("ack", sync[s].n + 1, 0)
    BY <1>4, <1>6 DEF afterItem
  <2>2. QED
    BY <1>5, <2>1 DEF Waiting, SyncSound, rest, batch
<1>7. CASE rest # <<>>
  <2>1. sync'[s] = [at |-> "loop", n |-> sync[s].n + 1, to |-> 0, batch |-> rest]
    BY <1>4, <1>7 DEF afterItem
  <2>2. (sync[s].n + 1) + Len(rest) <= Len(toHome)
    <3>1. sync[s].n + Len(batch) <= Len(toHome) /\ Len(toHome) \in Nat
      BY <1>1 DEF SyncSound, StreamInv, batch
    <3>2. QED
      BY <1>2, <1>3, <3>1
  <2>3. ASSUME NEW j \in 1..Len(rest)
        PROVE  StandsFor(rest[j], sync[s].n + 1 + j)
    <3>1. j + 1 \in 1..Len(batch)
      BY <1>2, <1>3
    <3>2. StandsFor(batch[j + 1], sync[s].n + (j + 1))
      BY <1>1, <3>1 DEF SyncSound, batch
    <3>3. sync[s].n + (j + 1) = sync[s].n + 1 + j
      BY <1>2
    <3>4. QED
      BY <1>3, <3>2, <3>3
  <2>4. SyncSound(s)'
    BY <2>1, <2>2, <2>3 DEF SyncSound, StandsFor
  <2>5. QED
    BY <1>5, <2>4 DEF rest, batch
<1>8. QED
  BY <1>6, <1>7

LEMMA StreamImport ==
    ASSUME StreamInv, NEW s \in Sync, importFederatedRelayItem(s)
    PROVE  StreamInv'
<1> DEFINE n == sync[s].n + 1
           kind == Head(sync[s].batch)
           point == afterItem(n, Tail(sync[s].batch))
<1>1. /\ sync[s] \in SyncRecord /\ SyncSound(s)
      /\ sync[s].at \in {"pulled", "loop"} /\ sync[s].batch # <<>>
  BY DEF StreamInv, importFederatedRelayItem
<1>2. n \in Nat /\ n \in 1..Len(toHome) /\ StandsFor(kind, n) /\ kind = sync[s].batch[1]
  <2>1. /\ sync[s].batch \in Seq(Item) /\ Len(sync[s].batch) \in Nat
        /\ Len(sync[s].batch) >= 1 /\ sync[s].n \in Nat /\ Len(toHome) \in Nat
    BY <1>1 DEF SyncRecord, StreamInv
  <2>2. 1 \in 1..Len(sync[s].batch)
    BY <2>1
  <2>3. sync[s].n + Len(sync[s].batch) <= Len(toHome) /\ StandsFor(sync[s].batch[1], sync[s].n + 1)
    BY <1>1, <2>2 DEF SyncSound
  <2>4. QED
    BY <2>1, <2>3
<1>3. /\ toHome' = toHome /\ ackedHome' = ackedHome /\ late' = late
      /\ ackedHome \in Nat /\ ackedHome <= cursor /\ cursor \in Nat
  BY DEF importFederatedRelayItem, hostVars, netVars, StreamInv, AckedIsImported
<1>4. CASE n <= cursor /\ SetSync(s, point) /\ UNCHANGED <<cursor, inbox>>
  <2>1. point \in SyncRecord /\ SyncSound(s)'
    BY <1>1, <1>3, <1>4, AfterItemIsSound
  <2>2. QED
    BY <1>3, <1>4, <2>1, StreamSync DEF StreamInv
<1>5. CASE SetSync(s, Idle) /\ UNCHANGED <<cursor, inbox>>
  <2>1. Idle \in SyncRecord /\ SyncSound(s)'
    BY <1>3, <1>5, IdleIsWaiting, WaitingIsSound
  <2>2. QED
    BY <1>3, <1>5, <2>1, StreamSync DEF StreamInv
<1>6. CASE n = cursor + 1 /\ inbox' = Append(inbox, kind) /\ cursor' = n /\ SetSync(s, point)
  <2>1. point \in SyncRecord /\ SyncSound(s)'
    BY <1>1, <1>2, <1>3, <1>6, AfterItemIsSound
  <2>2. sync' = [sync EXCEPT ![s] = point] /\ sync' \in [Sync -> SyncRecord]
    BY <2>1, <1>6 DEF SetSync, StreamInv
  <2>3. ASSUME NEW o \in Sync
        PROVE  SyncSound(o)'
    <3>1. CASE o # s
      <4>1. sync'[o] = sync[o] /\ sync[o].n \in Nat /\ SyncSound(o)
        BY <2>2, <3>1 DEF StreamInv, SyncRecord
      <4>2. QED
        BY <1>3, <1>6, <4>1 DEF SyncSound, StandsFor
    <3>2. QED
      BY <2>1, <3>1
  <2>4. kind \in ToHomeKind
    <3>1. toHome[n] \in ToHomeKind
      BY <1>2 DEF StreamInv
    <3>2. QED
      BY <1>2, <3>1 DEF StandsFor, ToHomeKind
  <2>5. /\ inbox' \in Seq(ToHomeKind) /\ Len(inbox') = cursor'
        /\ \A i \in 1..cursor : inbox'[i] = inbox[i]
        /\ inbox'[cursor'] = kind
    <3>1. inbox \in Seq(ToHomeKind) /\ Len(inbox) = cursor
      BY DEF StreamInv, ImportedOnceInOrder
    <3>2. cursor' = cursor + 1 /\ inbox' = Append(inbox, kind)
      BY <1>6
    <3> HIDE DEF kind
    <3>3. QED
      BY <1>3, <2>4, <3>1, <3>2
  <2>6. ImportedOnceInOrder'
    <3>1. ASSUME NEW i \in 1..cursor'
          PROVE  StandsFor(inbox'[i], i)
      <4>1. CASE i \in 1..cursor
        BY <2>5, <4>1 DEF StreamInv, ImportedOnceInOrder, StandsFor
      <4>2. CASE i = cursor'
        BY <1>2, <1>6, <2>5, <4>2
      <4>3. i \in 1..cursor \/ i = cursor'
        BY <1>3, <1>6
      <4>4. QED
        BY <4>1, <4>2, <4>3
    <3>2. QED
      BY <1>3, <2>5, <3>1 DEF ImportedOnceInOrder, StandsFor
  <2>7. cursor' \in Nat /\ cursor <= cursor' /\ cursor' <= Len(toHome)
    BY <1>2, <1>3, <1>6
  <2>8. \A r \in late' : r.kind = "ack" => r.to \in Nat /\ r.to <= cursor'
    BY <1>3, <2>7 DEF StreamInv
  <2>9. QED
    BY <1>3, <2>2, <2>3, <2>5, <2>6, <2>7, <2>8 DEF StreamInv, AckedIsImported
<1>7. QED
  BY <1>4, <1>5, <1>6 DEF importFederatedRelayItem

\* A call acknowledges at most what it names.
LEMMA CallAcks ==
    ASSUME StreamInv, NEW r, r.kind = "ack" => r.to \in Nat /\ r.to <= cursor,
           HostHandles(r) \/ HostDies(r)
    PROVE  toHome' = toHome /\ ackedHome' \in Nat /\ ackedHome' <= cursor
<1>1. /\ ackedHome' = ackedHome \/ (r.kind = "ack" /\ ackedHome' = Larger(ackedHome, r.to))
      /\ toHome' = toHome
  BY DEF HostHandles, HostDies, HostProcessEnds, handle, importThrough, handleOrchestrationFederationAck
<1>2. QED
  BY <1>1 DEF Larger, StreamInv, AckedIsImported

LEMMA RequestAcks ==
    ASSUME StreamInv, NEW s \in Sync, Calling(s)
    PROVE  RequestOf(s).kind = "ack" => RequestOf(s).to \in Nat /\ RequestOf(s).to <= cursor
BY DEF RequestOf, StreamInv, SyncRecord, SyncSound

AttachmentTypeOK == attachment \in AttachmentState

LEMMA AttachmentType == RelaySafeSpec => []AttachmentTypeOK
<1>1. RelayInit => AttachmentTypeOK
  BY DEF RelayInit, AttachmentTypeOK, AttachmentState
<1>2. AttachmentTypeOK /\ [RelayNext]_relayVars => AttachmentTypeOK'
  <2> SUFFICES ASSUME AttachmentTypeOK, [RelayNext]_relayVars
               PROVE  AttachmentTypeOK'
      OBVIOUS
  <2> USE DEF AttachmentTypeOK, AttachmentState, hostVars, attachVars
  <2>1. CASE Host
    BY <2>1 DEF Host, HostRefusesAttach, createRemoteDispatchAttachment, prepareRemoteAttachmentAuthority,
       markRemoteAttachmentReady, failRemoteAttachment, beginRemoteAttachmentStop, settleRemoteAttachmentStop,
       SendMessage, askRemoteRunHome, SendWorkerDone, monitorFederatedSetup,
       handleOrchestrationFederationShow, HostRestart, HostProcessEnds, Outcome
  <2>2. CASE Call
    BY <2>2 DEF Call, PullAnswered, CallAnswered, SyncFails, AnswerLost, CallDelayed, CallCut,
       LateCall, LateCallCut, HostHandles, HostDies, HostProcessEnds
  <2>3. CASE Home
    BY <2>3 DEF Home, HomeTaskCreate, HomeWorkerStart, WorkerStartAnswered, WorkerStartUnanswered,
       HomeWorkerStop, WorkerStopAnswered, WorkerStopUnanswered, HomeWorkerAbandon, WorkerShowAnswered,
       ensureOrchestrationFederationRelay, TimerTick, PullWasEmpty, importFederatedRelayItem,
       SendControlMail, ReplyRecorded, ReplyQueued, HomeRestart
  <2>4. QED
    BY <2>1, <2>2, <2>3 DEF RelayNext, relayVars
<1>3. QED
  BY <1>1, <1>2, PTL DEF RelaySafeSpec

LEMMA ShownType ==
    ASSUME NEW reply \in Item
    PROVE  Shown(reply) \in SyncRecord
<1>1. <<reply>> \in Seq(Item)
  OBVIOUS
<1>2. QED
  BY <1>1 DEF Shown, SyncRecord, SyncPoint

LEMMA StreamHostStep ==
    ASSUME StreamInv, AttachmentTypeOK, Host
    PROVE  StreamInv'
<1> USE DEF homeVars, homeStore, netVars, hostVars, hostRelay
<1>1. CASE \/ HostRefusesAttach
           \/ createRemoteDispatchAttachment
           \/ prepareRemoteAttachmentAuthority
           \/ markRemoteAttachmentReady
           \/ \E a \in {"failed", "start_unknown"} : failRemoteAttachment(a)
           \/ beginRemoteAttachmentStop
           \/ \E a \in {"stopped", "stop_unknown"} : settleRemoteAttachmentStop(a)
           \/ HostRestart
  <2>1. UNCHANGED streamVars
    BY <1>1 DEF streamVars, HostRefusesAttach, createRemoteDispatchAttachment,
       prepareRemoteAttachmentAuthority, markRemoteAttachmentReady, failRemoteAttachment,
       beginRemoteAttachmentStop, settleRemoteAttachmentStop, HostRestart, HostProcessEnds
  <2>2. QED
    BY <2>1, StreamStutter
<1>2. ASSUME NEW kind \in Chatter, SendMessage(kind)
      PROVE  StreamInv'
  <2>1. kind \in ToHomeKind
    BY <1>2, RelayAssumption DEF RelayAssumption, ToHomeKind
  <2>2. QED
    BY <1>2, <2>1, StreamAppend DEF SendMessage, enqueueFederationRelay
<1>3. CASE askRemoteRunHome
  BY <1>3, StreamAppend DEF askRemoteRunHome, enqueueFederationRelay, ToHomeKind
<1>4. ASSUME NEW o \in Outcome, SendWorkerDone(o)
      PROVE  StreamInv'
  BY <1>4, StreamAppend, StreamReplace DEF SendWorkerDone, enqueueFederationRelay, ToHomeKind
<1>5. CASE monitorFederatedSetup
  <2>1. CASE enqueueFederationRelay("status")
    BY <1>5, <2>1, StreamAppend DEF monitorFederatedSetup, enqueueFederationRelay, ToHomeKind
  <2>2. CASE UNCHANGED <<toHome, ackedHome>>
    BY <1>5, <2>2, StreamStutter DEF monitorFederatedSetup, streamVars
  <2>3. QED
    BY <1>5, <2>1, <2>2 DEF monitorFederatedSetup
<1>6. CASE handleOrchestrationFederationShow
  <2>1. PICK reply \in Item : SetSync("direct", Shown(reply))
    BY <1>6 DEF handleOrchestrationFederationShow, Item, AttachmentTypeOK
  <2>2. "direct" \in Sync
    BY <1>6 DEF handleOrchestrationFederationShow
  <2>3. Shown(reply) \in SyncRecord
    BY ShownType
  <2>4. sync'["direct"].at = "shown"
    BY <2>1, <2>2 DEF SetSync, StreamInv, Shown
  <2>5. SyncSound("direct")'
    BY <2>4 DEF SyncSound
  <2>6. QED
    BY <1>6, <2>1, <2>2, <2>3, <2>5, StreamSync
       DEF handleOrchestrationFederationShow, StreamInv, AckedIsImported
<1>7. QED
  BY <1>1, <1>2, <1>3, <1>4, <1>5, <1>6 DEF Host

-----------------------------------------------------------------------------
\* The items for the worker, on both sides.
BoxType ==
    /\ toWorker \in Seq(ToWorkerKind) /\ Len(toWorker) <= MaxToWorker
    /\ hostCursor \in Nat /\ hostCursor <= Len(toWorker)
    /\ ackedWorker \in Nat /\ ackedWorker <= hostCursor
    /\ mail \in [1..MaxToWorker -> 0..1]
    /\ remoteAnswer \in {"none", "pending", "answered"}
    /\ answered \in BOOLEAN /\ replying \in BOOLEAN

Delivered ==
    \A i \in 1..hostCursor :
        /\ toWorker[i] = "control" => mail[i] = 1
        /\ toWorker[i] = "reply" => remoteAnswer = "answered"

\* A reply is in the box only when its answer has been recorded.
AnswersKnown ==
    /\ remoteAnswer = "answered" => answered
    /\ replying => answered
    /\ \A i \in 1..Len(toWorker) : toWorker[i] = "reply" => answered

\* The receipt of an import promises no more than the host has.
ReceiptsSound ==
    /\ receipt \in [RequestId -> Receipt]
    /\ \A n \in 1..MaxToWorker : receipt[<<"import", n>>].through <= hostCursor

BoxInv == BoxType /\ Delivered /\ AnswersKnown /\ ReceiptsSound

boxVars == <<toWorker, hostCursor, ackedWorker, mail, remoteAnswer, answered, replying, receipt>>

\* The calls that are made, or may still arrive.
RequestSound(r) == r \in Request /\ (r.kind = "import" => r.to <= Len(toWorker))
CallsSound ==
    /\ Len(toHome) <= MaxToHome
    /\ \A r \in late : RequestSound(r)
    /\ \A s \in Sync : Calling(s) => RequestSound(RequestOf(s))

LEMMA BoxInit == RelayInit => BoxInv /\ CallsSound
<1> SUFFICES ASSUME RelayInit
             PROVE  BoxInv /\ CallsSound
    OBVIOUS
<1>1. /\ toWorker = <<>> /\ hostCursor = 0 /\ ackedWorker = 0
      /\ mail = [i \in 1..MaxToWorker |-> 0] /\ remoteAnswer = "none"
  BY DEF RelayInit
<1>2. answered \in BOOLEAN /\ replying \in BOOLEAN /\ ~ replying
  BY Zenon DEF RelayInit
<1>3. BoxType
  <2>1. MaxToWorker \in Nat /\ <<>> \in Seq(ToWorkerKind) /\ Len(<<>>) = 0
    BY RelayAssumption DEF RelayAssumption
  <2>2. QED
    BY <1>1, <1>2, <2>1 DEF BoxType
<1>4. Delivered
  BY <1>1 DEF Delivered
<1>5. AnswersKnown
  BY <1>1, <1>2 DEF AnswersKnown
<1>6. ReceiptsSound
  <2>1. NoReceipt \in Receipt
    BY RelayAssumption DEF RelayAssumption, NoReceipt, Receipt
  <2>2. \A n \in 1..MaxToWorker : <<"import", n>> \in RequestId
    BY DEF RequestId
  <2>3. QED
    BY <2>1, <2>2 DEF RelayInit, ReceiptsSound, NoReceipt
<1>7. CallsSound
  BY RelayAssumption DEF RelayAssumption, RelayInit, CallsSound, Calling, Idle
<1>8. QED
  BY <1>6, <1>7, <1>3, <1>4, <1>5 DEF BoxInv

LEMMA BoxStutter ==
    BoxInv /\ UNCHANGED boxVars => BoxInv'
BY DEF BoxInv, boxVars, BoxType, Delivered, AnswersKnown, ReceiptsSound

\* A sound request has a receipt row.
LEMMA RequestHasRow ==
    ASSUME NEW r \in Request
    PROVE  IdOf(r) \in RequestId /\ r.from \in 0..MaxToWorker + 1 /\ r.to \in Nat
              /\ r.to <= MaxToHome + MaxToWorker /\ r.kind \in {"ack", "import"}
BY RelayAssumption DEF RelayAssumption, Request, IdOf, RequestId

\* What importing some items does to the host's store.
LEMMA ImportThroughBox ==
    ASSUME BoxInv, NEW k \in Nat, NEW e \in Nat, hostCursor <= k, k <= e, e <= Len(toWorker),
           importThrough(k, e), UNCHANGED <<toWorker, answered>>
    PROVE  /\ hostCursor' = k /\ mail' \in [1..MaxToWorker -> 0..1]
           /\ remoteAnswer' \in {"none", "pending", "answered"}
           /\ Delivered' /\ (remoteAnswer' = "answered" => answered')
<1> USE DEF BoxInv, BoxType
<1>1. \A i \in 1..MaxToWorker : mail[i] \in 0..1 /\ stored(mail[i]) = 1
  BY DEF stored
<1>2. /\ hostCursor' = k
      /\ mail' = [i \in 1..MaxToWorker |->
                    IF i \in hostCursor + 1..e /\ toWorker[i] = "control" THEN 1 ELSE mail[i]]
      /\ remoteAnswer' = IF \E i \in hostCursor + 1..e : toWorker[i] = "reply"
                         THEN "answered" ELSE remoteAnswer
  BY <1>1 DEF importThrough
<1>3. mail' \in [1..MaxToWorker -> 0..1]
  BY <1>1, <1>2
<1>4. ASSUME NEW i \in 1..k
      PROVE  /\ toWorker[i] = "control" => mail'[i] = 1
             /\ toWorker[i] = "reply" => remoteAnswer' = "answered"
  <2>1. i \in 1..hostCursor \/ i \in hostCursor + 1..e
    OBVIOUS
  <2>2. i \in 1..MaxToWorker
    BY RelayAssumption DEF RelayAssumption
  <2>3. QED
    BY <1>2, <2>1, <2>2 DEF Delivered
<1>5. Delivered'
  BY <1>2, <1>4 DEF Delivered
<1>6. remoteAnswer' = "answered" => answered'
  BY <1>2 DEF AnswersKnown
<1>7. QED
  BY <1>2, <1>3, <1>5, <1>6

\* What a relay call does to the host's store, its process cut or not: it
\* imports some items or none, and its answer promises no more than that.
LEMMA HostCallBox ==
    ASSUME BoxInv, StreamInv, Len(toHome) <= MaxToHome, NEW r, RequestSound(r),
           HostHandles(r) \/ HostDies(r), UNCHANGED <<toWorker, answered, replying>>,
           ackedWorker' \in Nat, ackedWorker' <= hostCursor'
    PROVE  BoxInv'
<1> USE DEF BoxInv, BoxType, RequestSound
<1>0. /\ IdOf(r) \in RequestId /\ r.from \in 0..MaxToWorker + 1 /\ r.to \in Nat
      /\ r.to <= MaxToHome + MaxToWorker /\ r.kind \in {"ack", "import"}
      /\ MaxToHome \in Nat /\ MaxToWorker \in Nat
  BY RequestHasRow, RelayAssumption DEF RelayAssumption
<1>1. \/ UNCHANGED <<hostCursor, mail, remoteAnswer>>
      \/ \E k \in Nat, e \in Nat : /\ hostCursor <= k /\ k <= e /\ e <= Len(toWorker)
                                   /\ importThrough(k, e)
  <2>1. CASE UNCHANGED <<hostCursor, mail, remoteAnswer>>
    BY <2>1
  <2>2. CASE r.kind = "ack" /\ handle(r)
    BY <2>2 DEF handle, handleOrchestrationFederationAck
  <2>3. CASE r.kind = "import" /\ handle(r)
    <3> DEFINE k == Larger(hostCursor, r.to)
    <3>1. k \in Nat /\ hostCursor <= k /\ k <= Len(toWorker)
      BY <1>0, <2>3 DEF Larger
    <3>2. importThrough(k, k)
      BY <2>3 DEF handle
    <3> HIDE DEF k
    <3>3. QED
      BY <3>1, <3>2
  <2>4. ASSUME NEW k \in hostCursor..r.to - 1, r.kind = "import",
               importThrough(k, k) \/ importThrough(k, k + 1)
        PROVE  \E i \in Nat, e \in Nat : /\ hostCursor <= i /\ i <= e /\ e <= Len(toWorker)
                                         /\ importThrough(i, e)
    <3>1. k \in Nat /\ k + 1 \in Nat /\ hostCursor <= k /\ k + 1 <= Len(toWorker) /\ k <= k + 1
      BY <1>0, <2>4
    <3>2. QED
      BY <2>4, <3>1
  <2>5. QED
    BY <1>0, <2>1, <2>2, <2>3, <2>4 DEF HostHandles, HostDies
<1> DEFINE Imported ==
        /\ hostCursor' \in Nat /\ hostCursor <= hostCursor' /\ hostCursor' <= Len(toWorker)
        /\ mail' \in [1..MaxToWorker -> 0..1]
        /\ remoteAnswer' \in {"none", "pending", "answered"}
        /\ Delivered' /\ (remoteAnswer' = "answered" => answered')
<1>2. Imported
  <2>1. CASE UNCHANGED <<hostCursor, mail, remoteAnswer>>
    <3>1. Delivered'
      BY <2>1 DEF Delivered
    <3>2. remoteAnswer' = "answered" => answered'
      BY <2>1, Zenon DEF AnswersKnown
    <3>3. QED
      BY <2>1, <3>1, <3>2
  <2>2. ASSUME NEW k \in Nat, NEW e \in Nat, hostCursor <= k, k <= e, e <= Len(toWorker),
               importThrough(k, e)
        PROVE  Imported
    <3>1. /\ hostCursor' = k /\ mail' \in [1..MaxToWorker -> 0..1]
          /\ remoteAnswer' \in {"none", "pending", "answered"}
          /\ Delivered' /\ (remoteAnswer' = "answered" => answered')
      BY <2>2, ImportThroughBox
    <3>2. k <= Len(toWorker)
      BY <2>2
    <3>3. QED
      BY <2>2, <3>1, <3>2
  <2> HIDE DEF Imported
  <2>3. QED
    BY <1>1, <2>1, <2>2
<1>3. AnswersKnown'
  <2>1. remoteAnswer' = "answered" => answered'
    BY <1>2
  <2>2. QED
    BY <2>1, Zenon DEF AnswersKnown
<1>4. \/ receipt' = receipt
      \/ \E state \in {"pending", "completed"}, n \in 0..MaxToHome + MaxToWorker :
            SetReceipt(r, state, n) /\ (r.kind = "import" => n <= hostCursor')
  <2>1. CASE HostDies(r)
    <3>1. SetReceipt(r, "pending", 0) /\ 0 \in 0..MaxToHome + MaxToWorker /\ 0 <= hostCursor'
      BY <1>0, <1>2, <2>1 DEF HostDies
    <3>2. QED
      BY <3>1
  <2>2. CASE Starts(r) /\ handle(r) /\ SetReceipt(r, "completed", Through(r))
    <3>1. Through(r) = Larger(r.to, IF r.kind = "ack" THEN 0 ELSE hostCursor)
      BY <2>2 DEF Through
    <3>2. Through(r) \in 0..MaxToHome + MaxToWorker
      BY <1>0, <3>1 DEF Larger
    <3>3. r.kind = "import" => Through(r) <= hostCursor'
      BY <1>0, <1>2, <2>2, <3>1 DEF handle, importThrough, Larger
    <3>4. QED
      BY <2>2, <3>2, <3>3
  <2>3. QED
    BY <2>1, <2>2 DEF HostHandles
<1>5. ReceiptsSound'
  <2>1. CASE receipt' = receipt
    BY <1>2, <2>1 DEF ReceiptsSound, RequestId, Receipt
  <2>2. ASSUME NEW state \in {"pending", "completed"}, NEW n \in 0..MaxToHome + MaxToWorker,
               SetReceipt(r, state, n), r.kind = "import" => n <= hostCursor'
        PROVE  ReceiptsSound'
    <3> DEFINE new == [state |-> state, from |-> r.from, through |-> n]
    <3>1. new \in Receipt
      BY <1>0 DEF Receipt
    <3>2. receipt' = [receipt EXCEPT ![IdOf(r)] = new]
      BY <2>2 DEF SetReceipt
    <3>3. receipt' \in [RequestId -> Receipt]
      BY <3>1, <3>2 DEF ReceiptsSound
    <3>4. ASSUME NEW i \in 1..MaxToWorker
          PROVE  receipt'[<<"import", i>>].through <= hostCursor'
      <4>1. /\ <<"import", i>> \in RequestId
            /\ receipt[<<"import", i>>] \in Receipt
            /\ receipt[<<"import", i>>].through <= hostCursor
        BY DEF RequestId, ReceiptsSound
      <4>2. receipt[<<"import", i>>].through \in Nat
        BY <4>1 DEF Receipt
      <4>3. CASE IdOf(r) = <<"import", i>>
        <5>1. r.kind = "import"
          BY <4>3 DEF IdOf
        <5>2. receipt'[<<"import", i>>] = new
          BY <3>2, <4>1, <4>3 DEF ReceiptsSound
        <5>3. QED
          BY <2>2, <5>1, <5>2
      <4>4. CASE IdOf(r) # <<"import", i>>
        <5>1. receipt'[<<"import", i>>] = receipt[<<"import", i>>]
          BY <3>2, <4>1, <4>4 DEF ReceiptsSound
        <5>2. QED
          BY <1>2, <4>1, <4>2, <5>1
      <4>5. QED
        BY <4>3, <4>4
    <3>5. QED
      BY <3>3, <3>4 DEF ReceiptsSound
  <2>3. QED
    BY <1>4, <2>1, <2>2
<1>6. BoxType'
  BY <1>2
<1>7. QED
  BY <1>2, <1>3, <1>5, <1>6

\* The host's cursor only advances, and an answer covers what it has.
LEMMA HostCursorGrows ==
    ASSUME BoxInv, StreamInv, Len(toHome) <= MaxToHome, NEW r, RequestSound(r),
           HostHandles(r) \/ HostDies(r)
    PROVE  /\ hostCursor' \in Nat /\ hostCursor <= hostCursor'
           /\ HostHandles(r) /\ r.kind = "import" /\ ~ Throws(r) =>
                 Through(r) \in Nat /\ Through(r) <= hostCursor'
<1> USE DEF BoxInv, BoxType, RequestSound
<1>0. /\ IdOf(r) \in RequestId /\ r.from \in 0..MaxToWorker + 1 /\ r.to \in Nat
      /\ r.kind \in {"ack", "import"}
  BY RequestHasRow
<1>1. /\ hostCursor' \in Nat /\ hostCursor <= hostCursor'
      /\ r.kind = "import" /\ handle(r) => hostCursor' = Larger(hostCursor, r.to)
  BY <1>0 DEF HostHandles, HostDies, handle, importThrough, handleOrchestrationFederationAck, Larger
<1>2. CASE HostHandles(r) /\ r.kind = "import" /\ ~ Throws(r)
  <2>1. CASE Starts(r)
    <3>1. handle(r)
      BY <1>2, <2>1 DEF HostHandles
    <3>2. Through(r) = Larger(r.to, hostCursor)
      BY <1>2, <2>1 DEF Through
    <3>3. QED
      BY <1>0, <1>1, <1>2, <3>1, <3>2 DEF Larger
  <2>2. CASE Replays(r) /\ ~ Starts(r)
    <3>1. IdOf(r) = <<"import", r.to>> /\ r.to \in 1..MaxToWorker
      BY <1>2 DEF IdOf, Request
    <3>2. Through(r) = receipt[<<"import", r.to>>].through
      BY <2>2, <3>1 DEF Through
    <3>3. receipt[<<"import", r.to>>] \in Receipt /\ Through(r) <= hostCursor
      BY <1>0, <3>1, <3>2 DEF ReceiptsSound
    <3>4. Through(r) \in Nat
      BY <3>2, <3>3 DEF Receipt
    <3>5. QED
      BY <1>1, <3>3, <3>4
  <2>3. QED
    BY <1>2, <2>1, <2>2 DEF Throws
<1>3. QED
  BY <1>1, <1>2

LEMMA BoxHostStep ==
    ASSUME BoxInv, Host
    PROVE  BoxInv'
<1> USE DEF homeVars, homeStore, homeMemory, hostVars, hostRelay, importVars
<1>1. CASE askRemoteRunHome
  <2>1. /\ remoteAnswer = "none" /\ remoteAnswer' = "pending"
        /\ UNCHANGED <<toWorker, hostCursor, ackedWorker, mail, answered, replying, receipt>>
    BY <1>1 DEF askRemoteRunHome
  <2>2. QED
    BY <2>1 DEF BoxInv, BoxType, Delivered, AnswersKnown, ReceiptsSound
<1>2. CASE Host /\ ~ askRemoteRunHome
  <2>1. UNCHANGED boxVars
    BY <1>2 DEF boxVars, Host, HostRefusesAttach, createRemoteDispatchAttachment,
       prepareRemoteAttachmentAuthority, markRemoteAttachmentReady, failRemoteAttachment,
       beginRemoteAttachmentStop, settleRemoteAttachmentStop, SendMessage, SendWorkerDone,
       monitorFederatedSetup, handleOrchestrationFederationShow, HostRestart, HostProcessEnds
  <2>2. QED
    BY <2>1, BoxStutter
<1>3. QED
  BY <1>1, <1>2

LEMMA BoxCallStep ==
    ASSUME StreamInv, BoxInv, CallsSound, Call
    PROVE  BoxInv'
<1> USE DEF homeVars, homeStore, homeMemory, hostVars
<1>0. Len(toHome) <= MaxToHome /\ ackedWorker \in Nat /\ ackedWorker <= hostCursor /\ hostCursor \in Nat
  BY DEF CallsSound, BoxInv, BoxType
<1>1. ASSUME NEW s \in Sync, PullAnswered(s) \/ SyncFails(s) \/ CallDelayed(s)
      PROVE  BoxInv'
  <2>1. UNCHANGED boxVars
    BY <1>1 DEF boxVars, PullAnswered, SyncFails, CallDelayed
  <2>2. QED
    BY <2>1, BoxStutter
<1>2. ASSUME NEW s \in Sync, CallAnswered(s)
      PROVE  BoxInv'
  <2> DEFINE r == RequestOf(s)
  <2>1. RequestSound(r) /\ HostHandles(r) /\ UNCHANGED <<toWorker, answered, replying>>
    BY <1>2 DEF CallAnswered, CallsSound
  <2>2. ackedWorker' = IF r.kind = "import" /\ ~ Throws(r)
                       THEN Larger(ackedWorker, Through(r)) ELSE ackedWorker
    BY <1>2 DEF CallAnswered
  <2> HIDE DEF r
  <2>3. /\ hostCursor' \in Nat /\ hostCursor <= hostCursor'
        /\ r.kind = "import" /\ ~ Throws(r) => Through(r) \in Nat /\ Through(r) <= hostCursor'
    BY <1>0, <2>1, HostCursorGrows
  <2>4. ackedWorker' \in Nat /\ ackedWorker' <= hostCursor'
    BY <1>0, <2>2, <2>3 DEF Larger
  <2>5. QED
    BY <1>0, <2>1, <2>4, HostCallBox
<1>3. ASSUME NEW r, RequestSound(r), HostHandles(r) \/ HostDies(r),
             UNCHANGED <<toWorker, answered, replying, ackedWorker>>
      PROVE  BoxInv'
  <2>1. hostCursor' \in Nat /\ hostCursor <= hostCursor'
    BY <1>0, <1>3, HostCursorGrows
  <2>2. ackedWorker' \in Nat /\ ackedWorker' <= hostCursor'
    BY <1>0, <1>3, <2>1
  <2>3. QED
    BY <1>0, <1>3, <2>2, HostCallBox
<1>4. ASSUME NEW s \in Sync, AnswerLost(s) \/ CallCut(s)
      PROVE  BoxInv'
  <2>1. RequestSound(RequestOf(s))
    BY <1>4 DEF AnswerLost, CallCut, CallsSound, HostDies, Calling
  <2>2. QED
    BY <1>3, <1>4, <2>1 DEF AnswerLost, CallCut
<1>5. ASSUME NEW r \in late, LateCall(r) \/ LateCallCut(r)
      PROVE  BoxInv'
  BY <1>3, <1>5 DEF LateCall, LateCallCut, CallsSound
<1>6. QED
  BY <1>1, <1>2, <1>4, <1>5 DEF Call

LEMMA BoxHomeStep ==
    ASSUME BoxInv, Home
    PROVE  BoxInv'
<1> USE DEF homeVars, homeStore, homeMemory, hostVars
<1>1. ASSUME NEW kind \in ToWorkerKind, enqueueToWorker(kind), kind = "reply" => answered,
             UNCHANGED <<hostCursor, ackedWorker, mail, remoteAnswer, answered, receipt>>,
             replying' \in BOOLEAN, replying' => answered
      PROVE  BoxInv'
  <2>1. /\ toWorker' \in Seq(ToWorkerKind)
        /\ Len(toWorker') = Len(toWorker) + 1 /\ Len(toWorker') <= MaxToWorker
        /\ \A i \in 1..Len(toWorker) : toWorker'[i] = toWorker[i]
        /\ toWorker'[Len(toWorker')] = kind
    BY <1>1, RelayAssumption DEF RelayAssumption, enqueueToWorker, BoxInv, BoxType
  <2>2. BoxType'
    BY <1>1, <2>1 DEF BoxInv, BoxType
  <2>3. Delivered'
    BY <1>1, <2>1 DEF BoxInv, BoxType, Delivered
  <2>4. ASSUME NEW i \in 1..Len(toWorker'), toWorker'[i] = "reply"
        PROVE  answered
    <3>1. i \in 1..Len(toWorker) \/ i = Len(toWorker')
      BY <2>1 DEF BoxInv, BoxType
    <3>2. QED
      BY <1>1, <2>1, <2>4, <3>1, Zenon DEF BoxInv, AnswersKnown
  <2>5. AnswersKnown'
    BY <1>1, <2>4, Zenon DEF BoxInv, AnswersKnown
  <2>6. ReceiptsSound'
    BY <1>1 DEF BoxInv, ReceiptsSound
  <2>7. QED
    BY <2>2, <2>3, <2>5, <2>6 DEF BoxInv
<1>2. ASSUME UNCHANGED <<toWorker, hostCursor, ackedWorker, mail, remoteAnswer, receipt>>,
             answered' \in BOOLEAN, replying' \in BOOLEAN, answered => answered',
             replying' => answered'
      PROVE  BoxInv'
  <2>1. BoxType' /\ Delivered' /\ ReceiptsSound'
    BY <1>2 DEF BoxInv, BoxType, Delivered, ReceiptsSound
  <2>2. AnswersKnown'
    BY <1>2, Zenon DEF BoxInv, AnswersKnown
  <2>3. QED
    BY <2>1, <2>2 DEF BoxInv
<1>3. answered \in BOOLEAN /\ replying \in BOOLEAN /\ (replying => answered)
  BY DEF BoxInv, BoxType, AnswersKnown
<1>4. CASE SendControlMail
  <2>1. /\ enqueueToWorker("control") /\ "control" \in ToWorkerKind
        /\ UNCHANGED <<hostCursor, ackedWorker, mail, remoteAnswer, answered, replying, receipt>>
    BY <1>4 DEF SendControlMail, ToWorkerKind
  <2>2. QED
    BY <1>1, <1>3, <2>1
<1>5. CASE ReplyRecorded
  <2>1. UNCHANGED <<toWorker, hostCursor, ackedWorker, mail, remoteAnswer, receipt>>
    BY <1>5 DEF ReplyRecorded
  <2>2. answered' \in BOOLEAN /\ replying' \in BOOLEAN /\ answered'
    BY <1>5, Zenon DEF ReplyRecorded
  <2>3. QED
    BY <1>2, <2>1, <2>2
<1>6. CASE ReplyQueued
  <2>1. /\ replying /\ replying' \in BOOLEAN /\ ~ replying'
        /\ UNCHANGED <<hostCursor, ackedWorker, mail, remoteAnswer, answered, receipt>>
        /\ enqueueToWorker("reply") \/ UNCHANGED toWorker
    BY <1>6, Zenon DEF ReplyQueued
  <2>2. CASE enqueueToWorker("reply")
    BY <1>1, <1>3, <2>1, <2>2 DEF ToWorkerKind
  <2>3. CASE UNCHANGED toWorker
    BY <1>2, <1>3, <2>1, <2>3
  <2>4. QED
    BY <2>1, <2>2, <2>3
<1>7. CASE HomeRestart
  <2>1. UNCHANGED <<toWorker, hostCursor, ackedWorker, mail, remoteAnswer, answered, receipt>>
    BY <1>7 DEF HomeRestart
  <2>2. replying' \in BOOLEAN /\ ~ replying'
    BY <1>7, Zenon DEF HomeRestart
  <2>3. QED
    BY <1>2, <1>3, <2>1, <2>2
<1>8. CASE /\ Home
           /\ ~ SendControlMail /\ ~ ReplyRecorded /\ ~ ReplyQueued /\ ~ HomeRestart
  <2>1. UNCHANGED boxVars
    BY <1>8 DEF boxVars, Home, HomeTaskCreate, HomeWorkerStart, WorkerStartAnswered, WorkerStartUnanswered,
       HomeWorkerStop, WorkerStopAnswered, WorkerStopUnanswered, HomeWorkerAbandon, WorkerShowAnswered,
       ensureOrchestrationFederationRelay, TimerTick, PullWasEmpty, importFederatedRelayItem
  <2>2. QED
    BY <2>1, BoxStutter
<1>9. QED
  BY <1>4, <1>5, <1>6, <1>7, <1>8

\* A sync starts waiting for something, and the host's store is as it was.
LEMMA StreamWaits ==
    ASSUME StreamInv, NEW s \in Sync, NEW n \in Nat, NEW to \in Nat,
           NEW at \in {"idle", "pull", "ack", "import"},
           at \in {"pull", "ack"} => n <= cursor,
           SetSync(s, Waiting(at, n, to)),
           UNCHANGED <<toHome, cursor, inbox>>,
           ackedHome' \in Nat, ackedHome' <= cursor,
           \A r \in late' : r.kind = "ack" => r.to \in Nat /\ r.to <= cursor
    PROVE  StreamInv'
<1>1. Waiting(at, n, to) \in SyncRecord /\ SyncSound(s)'
  BY WaitingIsSound
<1>2. QED
  BY <1>1, StreamSync

LEMMA OutboxIsWaiting ==
    ASSUME BoxInv
    PROVE  \E at \in {"idle", "import"}, n \in Nat, to \in Nat : outbox = Waiting(at, n, to)
<1>1. ackedWorker + 1 \in Nat /\ PageEnd(toWorker, ackedWorker) \in Nat /\ 0 \in Nat
  BY RelayAssumption DEF RelayAssumption, BoxInv, BoxType, PageEnd
<1>2. QED
  BY <1>1, IdleIsWaiting DEF outbox

LEMMA StreamCallStep ==
    ASSUME StreamInv, BoxInv, Call
    PROVE  StreamInv'
<1> USE DEF homeVars, homeStore, netVars, hostVars
<1>0. /\ ackedHome \in Nat /\ ackedHome <= cursor /\ cursor \in Nat
      /\ \A r \in late : r.kind = "ack" => r.to \in Nat /\ r.to <= cursor
  BY DEF StreamInv, AckedIsImported
<1>1. ASSUME NEW s \in Sync, PullAnswered(s)
      PROVE  StreamInv'
  <2> DEFINE n == sync[s].n
             batch == listFederationRelay(n)
  <2>1. sync[s] \in SyncRecord /\ n \in Nat /\ n <= cursor /\ cursor <= Len(toHome)
    BY <1>1 DEF StreamInv, SyncRecord, SyncSound, PullAnswered
  <2>2. /\ batch \in Seq(ToHomeKind) /\ n + Len(batch) <= Len(toHome)
        /\ \A j \in 1..Len(batch) : batch[j] = toHome[n + j]
    <3> DEFINE m == IF Len(toHome) < n + PullLimit THEN Len(toHome) ELSE n + PullLimit
    <3>1. m \in Nat /\ n <= m /\ m <= Len(toHome) /\ toHome \in Seq(ToHomeKind)
      BY <1>0, <2>1, RelayAssumption DEF RelayAssumption, StreamInv
    <3>2. batch = SubSeq(toHome, n + 1, m)
      BY DEF listFederationRelay, PageEnd
    <3> HIDE DEF m, n
    <3>3. /\ SubSeq(toHome, n + 1, m) \in Seq(ToHomeKind)
          /\ Len(SubSeq(toHome, n + 1, m)) = m - n
          /\ \A j \in 1..(m - n) : SubSeq(toHome, n + 1, m)[j] = toHome[n + j]
      BY <2>1, <3>1
    <3>4. QED
      BY <2>1, <3>1, <3>2, <3>3
  <2> DEFINE point == [sync[s] EXCEPT !.at = "pulled", !.batch = batch]
  <2>3. batch \in Seq(Item)
    BY <2>2 DEF Item
  <2> HIDE DEF batch
  <2>4. /\ point \in SyncRecord /\ point.at = "pulled" /\ point.n = n /\ point.batch = batch
    BY <2>1, <2>3 DEF SyncRecord, SyncPoint
  <2>5. SetSync(s, point)
    BY <1>1 DEF PullAnswered, batch
  <2>6. sync'[s] = point
    BY <2>5 DEF SetSync, StreamInv
  <2> HIDE DEF point
  <2>7. SyncSound(s)'
    BY <1>1, <2>1, <2>2, <2>4, <2>6 DEF SyncSound, StandsFor, PullAnswered
  <2>8. QED
    BY <1>0, <1>1, <2>4, <2>5, <2>7, StreamSync DEF PullAnswered
<1>2. ASSUME NEW s \in Sync, CallAnswered(s)
      PROVE  StreamInv'
  <2>1. toHome' = toHome /\ ackedHome' \in Nat /\ ackedHome' <= cursor
    BY <1>2, CallAcks, RequestAcks DEF CallAnswered
  <2>2. SetSync(s, outbox) \/ SetSync(s, Idle)
    BY <1>2 DEF CallAnswered
  <2>3. PICK at \in {"idle", "import"}, n \in Nat, to \in Nat : SetSync(s, Waiting(at, n, to))
    BY <2>2, OutboxIsWaiting, IdleIsWaiting
  <2>4. late' = late /\ cursor' = cursor /\ inbox' = inbox
    BY <1>2 DEF CallAnswered
  <2>5. QED
    BY <1>0, <2>1, <2>3, <2>4, StreamWaits
<1>3. ASSUME NEW s \in Sync, SyncFails(s) \/ AnswerLost(s) \/ CallDelayed(s) \/ CallCut(s)
      PROVE  StreamInv'
  <2>1. SetSync(s, Waiting("idle", 0, 0)) /\ cursor' = cursor /\ inbox' = inbox
    BY <1>3, IdleIsWaiting DEF SyncFails, AnswerLost, CallDelayed, CallCut
  <2>2. toHome' = toHome /\ ackedHome' \in Nat /\ ackedHome' <= cursor
    <3>1. CASE AnswerLost(s) \/ CallCut(s)
      BY <3>1, CallAcks, RequestAcks DEF AnswerLost, CallCut
    <3>2. CASE SyncFails(s) \/ CallDelayed(s)
      BY <1>0, <3>2 DEF SyncFails, CallDelayed
    <3>3. QED
      BY <1>3, <3>1, <3>2
  <2>3. \A r \in late' : r.kind = "ack" => r.to \in Nat /\ r.to <= cursor
    <3>1. late' = late \/ (Calling(s) /\ late' = late \cup {RequestOf(s)})
      BY <1>3 DEF SyncFails, AnswerLost, CallDelayed, CallCut
    <3>2. QED
      BY <1>0, <3>1, RequestAcks
  <2>4. QED
    BY <2>1, <2>2, <2>3, StreamWaits
<1>4. ASSUME NEW r \in late, LateCall(r) \/ LateCallCut(r)
      PROVE  StreamInv'
  <2>1. toHome' = toHome /\ ackedHome' \in Nat /\ ackedHome' <= cursor
    BY <1>0, <1>4, CallAcks DEF LateCall, LateCallCut
  <2>2. late' \subseteq late /\ UNCHANGED <<cursor, inbox, sync>>
    BY <1>4 DEF LateCall, LateCallCut
  <2>3. QED
    BY <1>0, <2>1, <2>2 DEF StreamInv, AckedIsImported, ImportedOnceInOrder, SyncSound, StandsFor
<1>5. QED
  BY <1>1, <1>2, <1>3, <1>4 DEF Call

LEMMA StreamHomeStep ==
    ASSUME StreamInv, BoxInv, Home
    PROVE  StreamInv'
<1> USE DEF homeVars, homeStore, homeMemory, netVars, hostVars, hostRelay
<1>0. /\ ackedHome \in Nat /\ ackedHome <= cursor /\ cursor \in Nat
      /\ \A r \in late : r.kind = "ack" => r.to \in Nat /\ r.to <= cursor
  BY DEF StreamInv, AckedIsImported
<1>1. CASE \/ \E t \in Task : HomeTaskCreate(t) \/ HomeWorkerStart(t)
           \/ WorkerStartAnswered \/ WorkerStartUnanswered
           \/ HomeWorkerStop \/ WorkerStopUnanswered \/ HomeWorkerAbandon
           \/ ensureOrchestrationFederationRelay
           \/ SendControlMail \/ ReplyRecorded \/ ReplyQueued
  <2>1. UNCHANGED streamVars
    BY <1>1 DEF streamVars, HomeTaskCreate, HomeWorkerStart, WorkerStartAnswered, WorkerStartUnanswered,
       HomeWorkerStop, WorkerStopUnanswered, HomeWorkerAbandon, ensureOrchestrationFederationRelay,
       SendControlMail, ReplyRecorded, ReplyQueued
  <2>2. QED
    BY <2>1, StreamStutter
<1>2. ASSUME NEW s \in Sync, SyncBegins(s), UNCHANGED <<toHome, ackedHome, cursor, inbox, late>>
      PROVE  StreamInv'
  <2>1. SetSync(s, Waiting("pull", cursor, 0))
    BY <1>2 DEF SyncBegins
  <2>2. QED
    BY <1>0, <1>2, <2>1, StreamWaits
<1>3. CASE WorkerStopAnswered
  <2>1. UNCHANGED sync \/ ("direct" \in Sync /\ SyncBegins("direct"))
    BY <1>3 DEF WorkerStopAnswered
  <2>2. UNCHANGED <<toHome, ackedHome, cursor, inbox, late>>
    BY <1>3 DEF WorkerStopAnswered
  <2>3. QED
    BY <1>2, <2>1, <2>2, StreamStutter DEF streamVars
<1>4. CASE TimerTick
  <2>1. UNCHANGED sync \/ SyncBegins("timer")
    BY <1>4 DEF TimerTick
  <2>2. UNCHANGED <<toHome, ackedHome, cursor, inbox, late>>
    BY <1>4 DEF TimerTick
  <2>3. QED
    BY <1>2, <2>1, <2>2, StreamStutter, RelayAssumption DEF streamVars, RelayAssumption
<1>5. CASE WorkerShowAnswered
  <2>1. "direct" \in Sync /\ UNCHANGED <<toHome, ackedHome, cursor, inbox, late>>
    BY <1>5 DEF WorkerShowAnswered
  <2>2. SetSync("direct", Waiting("pull", cursor, 0)) \/ SetSync("direct", Waiting("idle", 0, 0))
    BY <1>5, IdleIsWaiting DEF WorkerShowAnswered
  <2>3. QED
    BY <1>0, <2>1, <2>2, StreamWaits
<1>6. ASSUME NEW s \in Sync, PullWasEmpty(s)
      PROVE  StreamInv'
  <2>1. sync[s].n \in Nat /\ sync[s].n <= cursor
    BY <1>6 DEF PullWasEmpty, StreamInv, SyncRecord, SyncSound
  <2>2. UNCHANGED <<toHome, ackedHome, cursor, inbox, late>>
    BY <1>6 DEF PullWasEmpty
  <2>3. SetSync(s, Waiting("ack", sync[s].n, 0)) \/ SetSync(s, outbox)
    BY <1>6 DEF PullWasEmpty
  <2>4. CASE SetSync(s, Waiting("ack", sync[s].n, 0))
    BY <1>0, <2>1, <2>2, <2>4, StreamWaits
  <2>5. CASE SetSync(s, outbox)
    <3>1. PICK at \in {"idle", "import"}, n \in Nat, to \in Nat : SetSync(s, Waiting(at, n, to))
      BY <2>5, OutboxIsWaiting
    <3>2. QED
      BY <1>0, <2>2, <3>1, StreamWaits
  <2>6. QED
    BY <2>3, <2>4, <2>5
<1>7. ASSUME NEW s \in Sync, importFederatedRelayItem(s)
      PROVE  StreamInv'
  BY <1>7, StreamImport
<1>8. CASE HomeRestart
  <2>1. /\ UNCHANGED <<toHome, ackedHome, cursor, inbox, late>>
        /\ sync' = [s \in Sync |-> Waiting("idle", 0, 0)]
    BY <1>8, IdleIsWaiting DEF HomeRestart
  <2>2. sync' \in [Sync -> SyncRecord] /\ \A s \in Sync : SyncSound(s)'
    BY <2>1 DEF Waiting, SyncRecord, SyncPoint, SyncSound
  <2>3. QED
    BY <2>1, <2>2 DEF StreamInv, AckedIsImported, ImportedOnceInOrder
<1>9. QED
  BY <1>1, <1>3, <1>4, <1>5, <1>6, <1>7, <1>8 DEF Home

-----------------------------------------------------------------------------
\* Calls stay sound: what they name exists.
LEMMA CallsStutter ==
    ASSUME CallsSound, BoxInv, UNCHANGED <<sync, late>>, Len(toHome') <= MaxToHome,
           Len(toWorker') \in Nat, Len(toWorker) <= Len(toWorker')
    PROVE  CallsSound'
<1>1. \A r : RequestSound(r) => RequestSound(r)'
  BY RequestHasRow DEF RequestSound, BoxInv, BoxType
<1>2. \A s \in Sync : Calling(s)' = Calling(s) /\ RequestOf(s)' = RequestOf(s)
  BY DEF Calling, RequestOf
<1>3. QED
  BY <1>1, <1>2 DEF CallsSound

LEMMA CallsSync ==
    ASSUME CallsSound, StreamInv, NEW s \in Sync, NEW point \in SyncRecord, SetSync(s, point),
           UNCHANGED <<toHome, toWorker>>, \A r \in late' : RequestSound(r),
           point.at = "ack" => point.n \in 1..Len(toHome),
           point.at = "import" => RequestSound([kind |-> "import", from |-> point.n, to |-> point.to])
    PROVE  CallsSound'
<1>1. \A r : RequestSound(r)' = RequestSound(r)
  BY DEF RequestSound
<1>2. sync' = [sync EXCEPT ![s] = point]
  BY DEF SetSync
<1>3. ASSUME NEW o \in Sync, Calling(o)'
      PROVE  RequestSound(RequestOf(o)')
  <2>1. CASE o # s
    <3>1. sync'[o] = sync[o]
      BY <1>2, <2>1 DEF StreamInv
    <3>2. Calling(o) /\ RequestOf(o)' = RequestOf(o)
      BY <1>3, <3>1 DEF Calling, RequestOf
    <3>3. QED
      BY <3>2 DEF CallsSound
  <2>2. CASE o = s
    <3>1. sync'[o] = point
      BY <1>2, <2>2 DEF StreamInv
    <3>2. CASE point.at = "ack"
      <4>1. RequestOf(o)' = [kind |-> "ack", from |-> 1, to |-> point.n]
        BY <3>1, <3>2 DEF RequestOf
      <4>2. point.n \in 1..MaxToHome
        BY <3>2, RelayAssumption DEF RelayAssumption, CallsSound, StreamInv
      <4>3. QED
        BY <4>1, <4>2 DEF RequestSound, Request
    <3>3. CASE point.at = "import"
      BY <3>1, <3>3 DEF RequestOf
    <3>4. QED
      BY <1>3, <3>1, <3>2, <3>3 DEF Calling
  <2>3. QED
    BY <2>1, <2>2
<1>4. QED
  BY <1>1, <1>3 DEF CallsSound

\* The two things a sync calls for are sound.
LEMMA CallsWait ==
    ASSUME CallsSound, StreamInv, BoxInv, NEW s \in Sync, NEW point,
           \/ point = outbox
           \/ \E at \in {"idle", "pull"}, n \in Nat : point = Waiting(at, n, 0)
           \/ \E n \in 1..Len(toHome) : point = Waiting("ack", n, 0),
           SetSync(s, point), UNCHANGED <<toHome, toWorker>>, \A r \in late' : RequestSound(r)
    PROVE  CallsSound'
<1>1. CASE point = outbox /\ outbox # Idle
  <2> DEFINE from == ackedWorker + 1
             to == PageEnd(toWorker, ackedWorker)
  <2>1. point = [at |-> "import", n |-> from, to |-> to, batch |-> <<>>]
    BY <1>1 DEF outbox, Waiting
  <2>2. /\ from \in 1..MaxToWorker /\ to \in 1..MaxToWorker /\ to \in Nat /\ from \in Nat
        /\ to <= Len(toWorker)
    BY <1>1, RelayAssumption DEF outbox, RelayAssumption, BoxInv, BoxType, PageEnd
  <2> HIDE DEF from, to
  <2>3. RequestSound([kind |-> "import", from |-> from, to |-> to])
    BY <2>2 DEF RequestSound, Request
  <2>4. point \in SyncRecord
    BY <2>1, <2>2 DEF SyncRecord, SyncPoint
  <2>5. point.at = "import" /\ point.n = from /\ point.to = to
    BY <2>1
  <2>6. QED
    BY <2>3, <2>4, <2>5, CallsSync
<1>2. ASSUME NEW at \in {"idle", "pull", "ack"}, NEW n \in Nat, point = Waiting(at, n, 0),
             at = "ack" => n \in 1..Len(toHome)
      PROVE  CallsSound'
  <2>1. point \in SyncRecord /\ point.at = at /\ point.n = n
    BY <1>2 DEF Waiting, SyncRecord, SyncPoint
  <2>2. QED
    BY <1>2, <2>1, CallsSync
<1>3. 0 \in Nat /\ \A n \in 1..Len(toHome) : n \in Nat
  OBVIOUS
<1>4. QED
  BY <1>1, <1>2, <1>3, IdleIsWaiting

LEMMA CallsHostStep ==
    ASSUME CallsSound, StreamInv, BoxInv, AttachmentTypeOK, Host
    PROVE  CallsSound'
<1> USE DEF homeVars, homeStore, homeMemory, netVars, hostVars, hostRelay
<1>1. CASE ~ handleOrchestrationFederationShow
  <2>1. UNCHANGED <<sync, late, toWorker>>
    BY <1>1 DEF Host, HostRefusesAttach, createRemoteDispatchAttachment,
       prepareRemoteAttachmentAuthority, markRemoteAttachmentReady, failRemoteAttachment,
       beginRemoteAttachmentStop, settleRemoteAttachmentStop, SendMessage, askRemoteRunHome, SendWorkerDone,
       monitorFederatedSetup, HostRestart, HostProcessEnds
  <2>2. \/ \E kind : enqueueFederationRelay(kind)
        \/ \E o : replaceHeartbeat(o)
        \/ toHome' = toHome
    BY <1>1 DEF Host, HostRefusesAttach, createRemoteDispatchAttachment,
       prepareRemoteAttachmentAuthority, markRemoteAttachmentReady, failRemoteAttachment,
       beginRemoteAttachmentStop, settleRemoteAttachmentStop, SendMessage, askRemoteRunHome, SendWorkerDone,
       monitorFederatedSetup, HostRestart, HostProcessEnds
  <2>3. Len(toHome') <= MaxToHome
    <3>1. toHome \in Seq(ToHomeKind) /\ Len(toHome) \in Nat /\ Len(toHome) <= MaxToHome /\ MaxToHome \in Nat
      BY RelayAssumption DEF RelayAssumption, StreamInv, CallsSound
    <3>2. ASSUME NEW kind, enqueueFederationRelay(kind)
          PROVE  Len(toHome') <= MaxToHome
      BY <3>1, <3>2 DEF enqueueFederationRelay
    <3>3. ASSUME NEW o, replaceHeartbeat(o)
          PROVE  Len(toHome') <= MaxToHome
      BY <3>1, <3>3 DEF replaceHeartbeat
    <3>4. QED
      BY <2>2, <3>1, <3>2, <3>3
  <2>4. Len(toWorker') \in Nat /\ Len(toWorker) <= Len(toWorker')
    BY <2>1 DEF BoxInv, BoxType
  <2>5. QED
    BY <2>1, <2>3, <2>4, CallsStutter
<1>2. CASE handleOrchestrationFederationShow
  <2>1. PICK reply \in Item : SetSync("direct", Shown(reply))
    BY <1>2 DEF handleOrchestrationFederationShow, Item, AttachmentTypeOK
  <2>2. "direct" \in Sync /\ UNCHANGED <<toHome, toWorker, late>>
    BY <1>2 DEF handleOrchestrationFederationShow
  <2>3. Shown(reply).at = "shown"
    BY DEF Shown
  <2>4. \A r \in late' : RequestSound(r)
    BY <2>2 DEF CallsSound
  <2>5. QED
    BY <2>1, <2>2, <2>3, <2>4, ShownType, CallsSync
<1>3. QED
  BY <1>1, <1>2

LEMMA CallsCallStep ==
    ASSUME CallsSound, StreamInv, BoxInv, Call
    PROVE  CallsSound'
<1> USE DEF homeVars, homeStore, homeMemory, netVars, hostVars
<1>0. /\ \A r \in late : RequestSound(r)
      /\ Len(toHome) <= MaxToHome
      /\ Len(toWorker) \in Nat /\ Len(toWorker) <= Len(toWorker)
  BY DEF CallsSound, BoxInv, BoxType
<1>1. ASSUME NEW s \in Sync, PullAnswered(s)
      PROVE  CallsSound'
  <2> DEFINE point == [sync[s] EXCEPT !.at = "pulled", !.batch = listFederationRelay(sync[s].n)]
  <2>1. SetSync(s, point) /\ UNCHANGED <<toHome, toWorker, late>>
    BY <1>1 DEF PullAnswered
  <2>2. StreamInv'
    BY <1>1, StreamCallStep DEF Call
  <2>3. sync'[s] = point /\ point.at = "pulled"
    BY <2>1 DEF SetSync, StreamInv, SyncRecord
  <2>4. point \in SyncRecord
    BY <2>2, <2>3 DEF StreamInv
  <2> HIDE DEF point
  <2>5. QED
    BY <1>0, <2>1, <2>3, <2>4, CallsSync
<1>2. ASSUME NEW r, HostHandles(r) \/ HostDies(r)
      PROVE  toHome' = toHome
  BY <1>2 DEF HostHandles, HostDies, HostProcessEnds
<1>3. ASSUME NEW s \in Sync, CallAnswered(s) \/ SyncFails(s) \/ AnswerLost(s) \/ CallDelayed(s) \/ CallCut(s)
      PROVE  CallsSound'
  <2>1. /\ SetSync(s, outbox) \/ SetSync(s, Waiting("idle", 0, 0))
        /\ UNCHANGED <<toHome, toWorker>>
    BY <1>2, <1>3, IdleIsWaiting DEF CallAnswered, SyncFails, AnswerLost, CallDelayed, CallCut
  <2>2. late' = late \/ (Calling(s) /\ late' = late \cup {RequestOf(s)})
    BY <1>3 DEF CallAnswered, SyncFails, AnswerLost, CallDelayed, CallCut
  <2>3. \A r \in late' : RequestSound(r)
    BY <1>0, <2>2 DEF CallsSound
  <2>4. QED
    BY <2>1, <2>3, CallsWait
<1>4. ASSUME NEW r \in late, LateCall(r) \/ LateCallCut(r)
      PROVE  CallsSound'
  <2>1. toHome' = toHome /\ late' \subseteq late /\ UNCHANGED <<sync, toWorker>>
    BY <1>2, <1>4 DEF LateCall, LateCallCut
  <2>2. \A s \in Sync : Calling(s)' = Calling(s) /\ RequestOf(s)' = RequestOf(s)
    BY <2>1 DEF Calling, RequestOf
  <2>3. \A q : RequestSound(q)' = RequestSound(q)
    BY <2>1 DEF RequestSound
  <2>4. QED
    BY <2>1, <2>2, <2>3 DEF CallsSound
<1>5. QED
  BY <1>1, <1>3, <1>4 DEF Call

LEMMA CallsHomeStep ==
    ASSUME CallsSound, StreamInv, BoxInv, Home
    PROVE  CallsSound'
<1> USE DEF homeVars, homeStore, homeMemory, netVars, hostVars, hostRelay
<1>0. /\ \A r \in late : RequestSound(r)
      /\ Len(toHome) <= MaxToHome
      /\ toWorker \in Seq(ToWorkerKind) /\ Len(toWorker) \in Nat
      /\ cursor \in Nat /\ cursor <= Len(toHome) /\ Len(toHome) \in Nat
      /\ sync \in [Sync -> SyncRecord]
  BY DEF CallsSound, BoxInv, BoxType, StreamInv
<1>1. ASSUME UNCHANGED <<sync, late, toHome>>, toWorker' = toWorker \/ \E kind : enqueueToWorker(kind)
      PROVE  CallsSound'
  <2>1. Len(toWorker') \in Nat /\ Len(toWorker) <= Len(toWorker')
    BY <1>0, <1>1 DEF enqueueToWorker
  <2>2. QED
    BY <1>0, <1>1, <2>1, CallsStutter
<1>2. CASE \/ \E t \in Task : HomeTaskCreate(t) \/ HomeWorkerStart(t)
           \/ WorkerStartAnswered \/ WorkerStartUnanswered
           \/ HomeWorkerStop \/ WorkerStopUnanswered \/ HomeWorkerAbandon
           \/ ensureOrchestrationFederationRelay
           \/ SendControlMail \/ ReplyRecorded \/ ReplyQueued
  <2>1. UNCHANGED <<sync, late, toHome>>
    BY <1>2 DEF HomeTaskCreate, HomeWorkerStart, WorkerStartAnswered, WorkerStartUnanswered,
       HomeWorkerStop, WorkerStopUnanswered, HomeWorkerAbandon, ensureOrchestrationFederationRelay,
       SendControlMail, ReplyRecorded, ReplyQueued
  <2>2. toWorker' = toWorker \/ \E kind : enqueueToWorker(kind)
    BY <1>2 DEF HomeTaskCreate, HomeWorkerStart, WorkerStartAnswered, WorkerStartUnanswered,
       HomeWorkerStop, WorkerStopUnanswered, HomeWorkerAbandon, ensureOrchestrationFederationRelay,
       SendControlMail, ReplyRecorded, ReplyQueued
  <2>3. QED
    BY <1>1, <2>1, <2>2
<1>3. ASSUME NEW s \in Sync, UNCHANGED <<late, toHome, toWorker>>,
             \/ SyncBegins(s)
             \/ SetSync(s, outbox)
             \/ SetSync(s, Waiting("idle", 0, 0))
             \/ SetSync(s, Waiting("pull", cursor, 0))
             \/ \E n \in 1..Len(toHome) : SetSync(s, Waiting("ack", n, 0))
      PROVE  CallsSound'
  BY <1>0, <1>3, CallsWait DEF SyncBegins
<1>4. CASE WorkerStopAnswered \/ TimerTick \/ WorkerShowAnswered
  <2>1. UNCHANGED <<late, toHome, toWorker>>
    BY <1>4 DEF WorkerStopAnswered, TimerTick, WorkerShowAnswered
  <2>2. \/ UNCHANGED sync
        \/ \E s \in Sync : \/ SyncBegins(s)
                           \/ SetSync(s, Waiting("idle", 0, 0))
                           \/ SetSync(s, Waiting("pull", cursor, 0))
    BY <1>4, IdleIsWaiting, RelayAssumption
       DEF RelayAssumption, WorkerStopAnswered, TimerTick, WorkerShowAnswered
  <2>3. QED
    BY <1>1, <1>3, <2>1, <2>2
<1>5. ASSUME NEW s \in Sync, PullWasEmpty(s)
      PROVE  CallsSound'
  <2>1. UNCHANGED <<late, toHome, toWorker>>
    BY <1>5 DEF PullWasEmpty
  <2>2. sync[s].n \in Nat /\ sync[s].n <= cursor
    BY <1>5 DEF PullWasEmpty, StreamInv, SyncRecord, SyncSound
  <2>3. SetSync(s, outbox) \/ (sync[s].n > 0 /\ SetSync(s, Waiting("ack", sync[s].n, 0)))
    BY <1>5 DEF PullWasEmpty
  <2>4. sync[s].n > 0 => sync[s].n \in 1..Len(toHome)
    BY <1>0, <2>2
  <2>5. QED
    BY <1>3, <2>1, <2>3, <2>4
<1>6. ASSUME NEW s \in Sync, importFederatedRelayItem(s)
      PROVE  CallsSound'
  <2> DEFINE n == sync[s].n + 1
             point == afterItem(n, Tail(sync[s].batch))
  <2>1. UNCHANGED <<late, toHome, toWorker>>
    BY <1>6 DEF importFederatedRelayItem
  <2>2. CASE SetSync(s, Idle)
    BY <1>3, <2>1, <2>2, IdleIsWaiting
  <2>3. CASE SetSync(s, point)
    <3>1. StreamInv'
      BY <1>6, StreamImport
    <3>2. sync'[s] = point
      BY <1>0, <2>3 DEF SetSync
    <3>3. point \in SyncRecord /\ SyncSound(s)'
      BY <3>1, <3>2 DEF StreamInv
    <3>4. point.at \in {"loop", "ack"} /\ point.n = n
      BY DEF afterItem, Waiting
    <3>5. n \in 1..Len(toHome)
      <4>1. n \in Nat /\ n >= 1
        BY <1>0 DEF SyncRecord
      <4>2. point.n <= cursor'
        BY <3>2, <3>3, <3>4 DEF SyncSound
      <4>3. cursor' \in Nat /\ cursor' <= Len(toHome)
        BY <2>1, <3>1 DEF StreamInv
      <4>4. QED
        BY <1>0, <3>4, <4>1, <4>2, <4>3
    <3> HIDE DEF point, n
    <3>6. QED
      BY <1>0, <2>1, <2>3, <3>3, <3>4, <3>5, CallsSync
  <2>4. QED
    BY <1>6, <2>2, <2>3 DEF importFederatedRelayItem
<1>7. CASE HomeRestart
  <2>1. UNCHANGED <<late, toHome, toWorker>> /\ sync' = [s \in Sync |-> Idle]
    BY <1>7 DEF HomeRestart
  <2>2. \A s \in Sync : ~ Calling(s)'
    BY <2>1 DEF Calling, Idle
  <2>3. \A r : RequestSound(r)' = RequestSound(r)
    BY <2>1 DEF RequestSound
  <2>4. QED
    BY <1>0, <2>1, <2>2, <2>3 DEF CallsSound
<1>8. QED
  BY <1>2, <1>4, <1>5, <1>6, <1>7 DEF Home

-----------------------------------------------------------------------------
\* The two streams and the calls between them, together.
DeliveryInv == AttachmentTypeOK /\ StreamInv /\ BoxInv /\ CallsSound

LEMMA DeliveryInvariant == RelaySafeSpec => []DeliveryInv
<1>1. RelayInit => StreamInv /\ BoxInv /\ CallsSound
  BY StreamInit, BoxInit
<1>2. AttachmentTypeOK /\ StreamInv /\ BoxInv /\ CallsSound /\ [RelayNext]_relayVars
          => StreamInv' /\ BoxInv' /\ CallsSound'
  <2> SUFFICES ASSUME AttachmentTypeOK, StreamInv, BoxInv, CallsSound, [RelayNext]_relayVars
               PROVE  StreamInv' /\ BoxInv' /\ CallsSound'
      OBVIOUS
  <2>1. CASE Host
    BY <2>1, StreamHostStep, BoxHostStep, CallsHostStep
  <2>2. CASE Call
    BY <2>2, StreamCallStep, BoxCallStep, CallsCallStep
  <2>3. CASE Home
    BY <2>3, StreamHomeStep, BoxHomeStep, CallsHomeStep
  <2>4. CASE UNCHANGED relayVars
    <3>1. UNCHANGED streamVars /\ UNCHANGED boxVars
      BY <2>4 DEF relayVars, streamVars, boxVars, hostVars, homeVars, homeStore, homeMemory, netVars
    <3>2. CallsSound'
      BY <2>4 DEF relayVars, hostVars, homeVars, homeStore, netVars, CallsSound, RequestSound, Calling, RequestOf
    <3>3. QED
      BY <3>1, <3>2, StreamStutter, BoxStutter
  <2>5. QED
    BY <2>1, <2>2, <2>3, <2>4 DEF RelayNext
<1>3. QED
  BY <1>1, <1>2, AttachmentType, PTL DEF RelaySafeSpec, DeliveryInv

\* The host forgets nothing that the home daemon has not stored: whatever the
\* quota, the page, and the calls that are lost, cut or late.
THEOREM AckedIsImportedTheorem == RelaySafeSpec => []AckedIsImported
<1>1. DeliveryInv => AckedIsImported
  BY DEF DeliveryInv, StreamInv
<1>2. QED
  BY <1>1, DeliveryInvariant, PTL

\* The home daemon's copy of the host's items is faithful.
THEOREM ImportedTheorem == RelaySafeSpec => []ImportedOnceInOrder
<1>1. DeliveryInv => ImportedOnceInOrder
  BY DEF DeliveryInv, StreamInv
<1>2. QED
  BY <1>1, DeliveryInvariant, PTL

\* What the home daemon takes for delivered the worker's mailbox holds, once.
THEOREM DeliveredTheorem == RelaySafeSpec => []DeliveredOnce
<1>1. BoxInv => DeliveredOnce
  <2> SUFFICES ASSUME BoxInv, NEW i \in DOMAIN toWorker
               PROVE  /\ ackedWorker <= hostCursor
                      /\ mail[i] <= 1
                      /\ i <= hostCursor /\ toWorker[i] = "control" => mail[i] = 1
                      /\ i <= hostCursor /\ toWorker[i] = "reply" => remoteAnswer = "answered"
      BY DEF DeliveredOnce, BoxInv, BoxType
  <2>1. i \in 1..Len(toWorker) /\ i \in 1..MaxToWorker
    BY RelayAssumption DEF RelayAssumption, BoxInv, BoxType
  <2>2. i <= hostCursor => i \in 1..hostCursor
    BY <2>1 DEF BoxInv, BoxType
  <2>3. QED
    BY <2>1, <2>2 DEF BoxInv, BoxType, Delivered
<1>2. QED
  BY <1>1, DeliveryInvariant, PTL DEF DeliveryInv

\* No agent acts on an answer its run does not have.
THEOREM AnswerTheorem == RelaySafeSpec => []AnswerIsRecorded
<1>1. DeliveryInv => AnswerIsRecorded
  BY DEF DeliveryInv, BoxInv, AnswersKnown, AnswerIsRecorded
<1>2. QED
  BY <1>1, DeliveryInvariant, PTL

-----------------------------------------------------------------------------
\* Both directions of the relay implement RelayChannel.  A step of the worker
\* host numbers an item or shows nothing.
LEMMA HomewardSteps ==
    /\ \A kind \in ToHomeKind :
          StreamInv /\ enqueueFederationRelay(kind) /\ UNCHANGED inbox => HomewardChannel!ChannelNext
    /\ \A o \in Outcome :
          StreamInv /\ replaceHeartbeat(o) /\ UNCHANGED inbox => HomewardChannel!ChannelNext
<1>0. StreamInv => Len(toHome) \in Nat /\ ackedHome \in Nat /\ Quota \in Nat
  BY RelayAssumption DEF RelayAssumption, StreamInv
<1>1. ASSUME NEW kind \in ToHomeKind, StreamInv, enqueueFederationRelay(kind), UNCHANGED inbox
      PROVE  HomewardChannel!ChannelNext
  <2>1. HomewardChannel!Number(kind)
    BY <1>0, <1>1 DEF enqueueFederationRelay, QuotaLeft, HomewardChannel!Number, HomewardChannel!WindowIsFull
  <2>2. QED
    BY <2>1 DEF HomewardChannel!ChannelNext
<1>2. ASSUME NEW o \in Outcome, StreamInv, replaceHeartbeat(o), UNCHANGED inbox
      PROVE  HomewardChannel!ChannelNext
  <2>1. PICK i \in Unacked("heartbeat") : toHome' = [toHome EXCEPT ![i] = o]
    BY <1>2 DEF replaceHeartbeat
  <2>2. i \in DOMAIN toHome /\ i > ackedHome /\ toHome[i] = "heartbeat"
    BY <1>0, <1>2 DEF Unacked
  <2>3. ~ QuotaLeft /\ UNCHANGED <<inbox, ackedHome>>
    BY <1>2 DEF replaceHeartbeat
  <2>4. Len(toHome) - ackedHome >= Quota
    BY <1>0, <1>2, <2>3 DEF QuotaLeft
  <2>5. HomewardChannel!Replace(i, o)
    BY <2>1, <2>2, <2>3, <2>4 DEF HomewardChannel!Replace, HomewardChannel!WindowIsFull
  <2>6. QED
    BY <2>2, <2>5 DEF HomewardChannel!ChannelNext
<1>3. QED
  BY <1>1, <1>2

LEMMA HomewardHostStep ==
    ASSUME StreamInv, Host
    PROVE  HomewardChannel!ChannelNext \/ UNCHANGED <<toHome, inbox, ackedHome>>
<1> USE DEF homeVars, homeStore, hostVars, hostRelay
<1>1. UNCHANGED inbox
  BY DEF Host, HostRefusesAttach, createRemoteDispatchAttachment, prepareRemoteAttachmentAuthority,
     markRemoteAttachmentReady, failRemoteAttachment, beginRemoteAttachmentStop,
     settleRemoteAttachmentStop, SendMessage, askRemoteRunHome, SendWorkerDone, monitorFederatedSetup,
     handleOrchestrationFederationShow, HostRestart, HostProcessEnds
<1>2. \/ \E kind \in ToHomeKind : enqueueFederationRelay(kind)
      \/ \E o \in Outcome : replaceHeartbeat(o)
      \/ UNCHANGED <<toHome, ackedHome>>
  <2>1. Chatter \subseteq ToHomeKind
    BY RelayAssumption DEF RelayAssumption, ToHomeKind
  <2>2. Outcome \subseteq ToHomeKind /\ "question" \in ToHomeKind /\ "status" \in ToHomeKind
    BY DEF ToHomeKind
  <2>3. QED
    BY <2>1, <2>2 DEF Host, HostRefusesAttach, createRemoteDispatchAttachment, prepareRemoteAttachmentAuthority,
       markRemoteAttachmentReady, failRemoteAttachment, beginRemoteAttachmentStop,
       settleRemoteAttachmentStop, SendMessage, askRemoteRunHome, SendWorkerDone, monitorFederatedSetup,
       handleOrchestrationFederationShow, HostRestart, HostProcessEnds
<1>3. QED
  BY <1>1, <1>2, HomewardSteps

\* A call has the sender forget, at most what was received.
LEMMA HomewardCallStep ==
    ASSUME StreamInv, Call
    PROVE  HomewardChannel!ChannelNext \/ UNCHANGED <<toHome, inbox, ackedHome>>
<1> USE DEF homeVars, homeStore, netVars, hostVars
<1>0. /\ ackedHome \in Nat /\ ackedHome <= cursor /\ cursor \in Nat /\ cursor <= Len(toHome)
      /\ Len(inbox) = cursor /\ Len(toHome) \in Nat
      /\ \A r \in late : r.kind = "ack" => r.to \in Nat /\ r.to <= cursor
  BY DEF StreamInv, AckedIsImported, ImportedOnceInOrder
<1>1. ASSUME NEW r, r.kind = "ack" => r.to \in Nat /\ r.to <= cursor,
             HostHandles(r) \/ HostDies(r), UNCHANGED inbox
      PROVE  HomewardChannel!ChannelNext
  <2>1. toHome' = toHome /\ ackedHome' \in Nat /\ ackedHome' <= cursor /\ ackedHome <= ackedHome'
    <3>1. toHome' = toHome /\ ackedHome' \in Nat /\ ackedHome' <= cursor
      BY <1>1, CallAcks
    <3>2. ackedHome' = ackedHome \/ (r.kind = "ack" /\ ackedHome' = Larger(ackedHome, r.to))
      BY <1>1 DEF HostHandles, HostDies, HostProcessEnds, handle, importThrough, handleOrchestrationFederationAck
    <3>3. QED
      BY <1>0, <1>1, <3>1, <3>2 DEF Larger
  <2>2. HomewardChannel!Transfer(cursor, ackedHome')
    BY <1>0, <1>1, <2>1 DEF HomewardChannel!Transfer
  <2>3. cursor \in Len(inbox)..Len(toHome) /\ ackedHome' \in ackedHome..cursor
    BY <1>0, <2>1
  <2>4. PICK k : k = ackedHome'
    OBVIOUS
  <2>5. QED
    BY <2>2, <2>3, <2>4 DEF HomewardChannel!ChannelNext
<1>2. ASSUME NEW s \in Sync, CallAnswered(s) \/ AnswerLost(s) \/ CallCut(s)
      PROVE  HomewardChannel!ChannelNext
  <2>1. Calling(s) /\ (HostHandles(RequestOf(s)) \/ HostDies(RequestOf(s))) /\ UNCHANGED inbox
    BY <1>2 DEF CallAnswered, AnswerLost, CallCut
  <2>2. QED
    BY <1>1, <2>1, RequestAcks
<1>3. ASSUME NEW r \in late, LateCall(r) \/ LateCallCut(r)
      PROVE  HomewardChannel!ChannelNext
  BY <1>0, <1>1, <1>3 DEF LateCall, LateCallCut
<1>4. ASSUME NEW s \in Sync, PullAnswered(s) \/ SyncFails(s) \/ CallDelayed(s)
      PROVE  UNCHANGED <<toHome, inbox, ackedHome>>
  BY <1>4 DEF PullAnswered, SyncFails, CallDelayed
<1>5. QED
  BY <1>2, <1>3, <1>4 DEF Call

\* The import of an item that is new gives the next one.
LEMMA HomewardHomeStep ==
    ASSUME StreamInv, Home
    PROVE  HomewardChannel!ChannelNext \/ UNCHANGED <<toHome, inbox, ackedHome>>
<1> USE DEF homeVars, homeStore, homeMemory, hostVars, hostRelay
<1>1. CASE \E s \in Sync : importFederatedRelayItem(s)
  <2>1. PICK s \in Sync : importFederatedRelayItem(s)
    BY <1>1
  <2> DEFINE n == sync[s].n + 1
             kind == Head(sync[s].batch)
  <2>2. /\ sync[s] \in SyncRecord /\ SyncSound(s)
        /\ sync[s].at \in {"pulled", "loop"} /\ sync[s].batch # <<>>
    BY <2>1 DEF StreamInv, importFederatedRelayItem
  <2>3. n \in 1..Len(toHome) /\ StandsFor(kind, n)
    <3>1. /\ sync[s].batch \in Seq(Item) /\ Len(sync[s].batch) \in Nat
          /\ Len(sync[s].batch) >= 1 /\ sync[s].n \in Nat /\ Len(toHome) \in Nat
      BY <2>2 DEF SyncRecord, StreamInv
    <3>2. 1 \in 1..Len(sync[s].batch)
      BY <3>1
    <3>3. sync[s].n + Len(sync[s].batch) <= Len(toHome) /\ StandsFor(sync[s].batch[1], sync[s].n + 1)
      BY <2>2, <3>2 DEF SyncSound
    <3>4. QED
      BY <3>1, <3>3
  <2>4. toHome' = toHome /\ ackedHome' = ackedHome
    BY <2>1 DEF importFederatedRelayItem
  <2>5. inbox' = inbox \/ (n = cursor + 1 /\ inbox' = Append(inbox, kind))
    BY <2>1 DEF importFederatedRelayItem
  <2>6. /\ inbox \in Seq(ToHomeKind) /\ Len(inbox) = cursor /\ cursor \in Nat
        /\ ackedHome \in Nat /\ ackedHome <= cursor /\ Len(toHome) \in Nat
    BY DEF StreamInv, AckedIsImported, ImportedOnceInOrder
  <2> HIDE DEF n, kind
  <2>7. ASSUME n = cursor + 1, inbox' = Append(inbox, kind)
        PROVE  HomewardChannel!ChannelNext
    <3>1. /\ Len(inbox') = n /\ inbox'[n] = kind
          /\ \A i \in 1..Len(inbox) : inbox'[i] = inbox[i]
      BY <2>6, <2>7
    <3>2. HomewardChannel!MayBe(kind, n)
      BY <2>3 DEF StandsFor, HomewardChannel!MayBe
    <3>3. \A i \in 1..n : i <= Len(inbox) \/ i = n
      BY <2>6, <2>7
    <3>4. HomewardChannel!Transfer(n, ackedHome)
      BY <2>3, <2>4, <2>6, <3>1, <3>2, <3>3 DEF HomewardChannel!Transfer
    <3>5. n \in Len(inbox)..Len(toHome) /\ ackedHome \in ackedHome..n
      BY <2>3, <2>6, <2>7
    <3>6. QED
      BY <3>4, <3>5 DEF HomewardChannel!ChannelNext
  <2>8. QED
    BY <2>4, <2>5, <2>7
<1>2. CASE Home /\ ~ \E s \in Sync : importFederatedRelayItem(s)
  <2>1. UNCHANGED <<toHome, inbox, ackedHome>>
    BY <1>2 DEF Home, HomeTaskCreate, HomeWorkerStart, WorkerStartAnswered, WorkerStartUnanswered,
       HomeWorkerStop, WorkerStopAnswered, WorkerStopUnanswered, HomeWorkerAbandon, WorkerShowAnswered,
       ensureOrchestrationFederationRelay, TimerTick, PullWasEmpty, SendControlMail, ReplyRecorded,
       ReplyQueued, HomeRestart
  <2>2. QED
    BY <2>1
<1>3. QED
  BY <1>1, <1>2

\* What the host numbers for the home daemon is given to it once, in order, and
\* forgotten only when it is there, whatever the calls do.
THEOREM HomewardTheorem == RelaySafeSpec => HomewardIsChannel
<1>1. RelayInit => HomewardChannel!ChannelInit
  BY DEF RelayInit, HomewardChannel!ChannelInit
<1>2. DeliveryInv /\ [RelayNext]_relayVars => [HomewardChannel!ChannelNext]_HomewardChannel!channelVars
  <2> SUFFICES ASSUME DeliveryInv, [RelayNext]_relayVars
               PROVE  HomewardChannel!ChannelNext \/ UNCHANGED <<toHome, inbox, ackedHome>>
      BY DEF HomewardChannel!channelVars
  <2>1. CASE Host
    BY <2>1, HomewardHostStep DEF DeliveryInv
  <2>2. CASE Call
    BY <2>2, HomewardCallStep DEF DeliveryInv
  <2>3. CASE Home
    BY <2>3, HomewardHomeStep DEF DeliveryInv
  <2>4. CASE UNCHANGED relayVars
    BY <2>4 DEF relayVars, hostVars, homeVars, homeStore
  <2>5. QED
    BY <2>1, <2>2, <2>3, <2>4 DEF RelayNext
<1>3. QED
  BY <1>1, <1>2, DeliveryInvariant, PTL DEF RelaySafeSpec, HomewardIsChannel, HomewardChannel!ChannelSpec

\* Towards the worker, received is what is before the host's cursor.
LEMMA WorkerwardNumber ==
    ASSUME BoxInv, NEW kind \in ToWorkerKind, enqueueToWorker(kind), UNCHANGED <<hostCursor, ackedWorker>>
    PROVE  WorkerwardChannel!ChannelNext
<1>1. /\ toWorker \in Seq(ToWorkerKind) /\ hostCursor \in Nat /\ hostCursor <= Len(toWorker)
      /\ ackedWorker \in Nat /\ Quota \in Nat
  BY RelayAssumption DEF RelayAssumption, BoxInv, BoxType
<1>2. toWorker' = Append(toWorker, kind) /\ Len(toWorker) - ackedWorker < Quota
  BY DEF enqueueToWorker
<1>3. SubSeq(toWorker', 1, hostCursor') = SubSeq(toWorker, 1, hostCursor)
  BY <1>1, <1>2
<1>4. WorkerwardChannel!Number(kind)
  BY <1>1, <1>2, <1>3 DEF WorkerwardChannel!Number, WorkerwardChannel!WindowIsFull
<1>5. QED
  BY <1>4 DEF WorkerwardChannel!ChannelNext

\* However a call ends, the cursors only advance, and the home daemon's never
\* passes the host's.
LEMMA WorkerwardTransfer ==
    ASSUME BoxInv, BoxInv', UNCHANGED toWorker, hostCursor <= hostCursor', ackedWorker <= ackedWorker'
    PROVE  WorkerwardChannel!ChannelNext
<1> DEFINE had == SubSeq(toWorker, 1, hostCursor)
<1>1. /\ toWorker \in Seq(ToWorkerKind) /\ Len(toWorker) \in Nat
      /\ hostCursor \in Nat /\ hostCursor <= Len(toWorker)
      /\ ackedWorker \in Nat /\ ackedWorker <= hostCursor
      /\ hostCursor' \in Nat /\ hostCursor' <= Len(toWorker)
      /\ ackedWorker' \in Nat /\ ackedWorker' <= hostCursor' /\ toWorker' = toWorker
  BY DEF BoxInv, BoxType
<1>2. PICK n, k : n = hostCursor' /\ k = ackedWorker'
  OBVIOUS
<1>3. had' = SubSeq(toWorker, 1, n)
  BY <1>1, <1>2
<1>4. /\ Len(had) = hostCursor /\ \A i \in 1..hostCursor : had[i] = toWorker[i]
      /\ Len(had') = n /\ \A i \in 1..n : had'[i] = toWorker[i]
  <2>1. ASSUME NEW m \in Nat, m <= Len(toWorker)
        PROVE  /\ Len(SubSeq(toWorker, 1, m)) = m
               /\ \A i \in 1..m : SubSeq(toWorker, 1, m)[i] = toWorker[i]
    BY <1>1, <2>1
  <2>2. n \in Nat /\ n <= Len(toWorker)
    BY <1>1, <1>2
  <2>3. QED
    BY <1>1, <1>3, <2>1, <2>2
<1>5. WorkerwardChannel!Transfer(n, k)
  <2>1. \A i \in 1..n : IF i <= Len(had) THEN had'[i] = had[i] ELSE WorkerwardChannel!MayBe(had'[i], i)
    BY <1>1, <1>2, <1>4 DEF WorkerwardChannel!MayBe
  <2>2. QED
    BY <1>1, <1>2, <1>4, <2>1 DEF WorkerwardChannel!Transfer
<1>6. n \in Len(had)..Len(toWorker) /\ k \in ackedWorker..n
  BY <1>1, <1>2, <1>4
<1>7. QED
  BY <1>5, <1>6 DEF WorkerwardChannel!ChannelNext

LEMMA WorkerwardCallStep ==
    ASSUME StreamInv, BoxInv, CallsSound, Call
    PROVE  WorkerwardChannel!ChannelNext
<1> USE DEF homeVars, homeStore, homeMemory, hostVars
<1>0. /\ Len(toHome) <= MaxToHome /\ ackedWorker \in Nat /\ hostCursor \in Nat
      /\ BoxInv'
  BY BoxCallStep DEF CallsSound, BoxInv, BoxType
<1>1. ASSUME NEW r, RequestSound(r), HostHandles(r) \/ HostDies(r), UNCHANGED <<toWorker, ackedWorker>>
      PROVE  WorkerwardChannel!ChannelNext
  BY <1>0, <1>1, HostCursorGrows, WorkerwardTransfer
<1>2. ASSUME NEW s \in Sync, CallAnswered(s)
      PROVE  WorkerwardChannel!ChannelNext
  <2> DEFINE r == RequestOf(s)
  <2>1. RequestSound(r) /\ HostHandles(r) /\ UNCHANGED toWorker
    BY <1>2 DEF CallAnswered, CallsSound
  <2>2. ackedWorker' = IF r.kind = "import" /\ ~ Throws(r)
                       THEN Larger(ackedWorker, Through(r)) ELSE ackedWorker
    BY <1>2 DEF CallAnswered
  <2> HIDE DEF r
  <2>3. /\ hostCursor <= hostCursor'
        /\ r.kind = "import" /\ ~ Throws(r) => Through(r) \in Nat
    BY <1>0, <2>1, HostCursorGrows
  <2>4. ackedWorker <= ackedWorker'
    BY <1>0, <2>2, <2>3 DEF Larger
  <2>5. QED
    BY <1>0, <2>1, <2>3, <2>4, WorkerwardTransfer
<1>3. ASSUME NEW s \in Sync, AnswerLost(s) \/ CallCut(s)
      PROVE  WorkerwardChannel!ChannelNext
  <2>1. RequestSound(RequestOf(s))
    BY <1>3 DEF AnswerLost, CallCut, CallsSound
  <2>2. QED
    BY <1>1, <1>3, <2>1 DEF AnswerLost, CallCut
<1>4. ASSUME NEW r \in late, LateCall(r) \/ LateCallCut(r)
      PROVE  WorkerwardChannel!ChannelNext
  BY <1>1, <1>4 DEF LateCall, LateCallCut, CallsSound
<1>5. ASSUME NEW s \in Sync, PullAnswered(s) \/ SyncFails(s) \/ CallDelayed(s)
      PROVE  WorkerwardChannel!ChannelNext
  BY <1>0, <1>5, WorkerwardTransfer DEF PullAnswered, SyncFails, CallDelayed
<1>6. QED
  BY <1>2, <1>3, <1>4, <1>5 DEF Call

LEMMA WorkerwardHomeStep ==
    ASSUME BoxInv, Home
    PROVE  WorkerwardChannel!ChannelNext \/ UNCHANGED <<toWorker, hostCursor, ackedWorker>>
<1>1. UNCHANGED <<hostCursor, ackedWorker>>
  BY DEF homeVars, homeStore, hostVars, Home, HomeTaskCreate, HomeWorkerStart, WorkerStartAnswered,
     WorkerStartUnanswered, HomeWorkerStop, WorkerStopAnswered, WorkerStopUnanswered, HomeWorkerAbandon,
     WorkerShowAnswered, ensureOrchestrationFederationRelay, TimerTick, PullWasEmpty,
     importFederatedRelayItem, SendControlMail, ReplyRecorded, ReplyQueued, HomeRestart
<1>2. (\E kind \in ToWorkerKind : enqueueToWorker(kind)) \/ UNCHANGED toWorker
  BY DEF ToWorkerKind, homeVars, homeStore, Home, HomeTaskCreate, HomeWorkerStart, WorkerStartAnswered,
     WorkerStartUnanswered, HomeWorkerStop, WorkerStopAnswered, WorkerStopUnanswered, HomeWorkerAbandon,
     WorkerShowAnswered, ensureOrchestrationFederationRelay, TimerTick, PullWasEmpty,
     importFederatedRelayItem, SendControlMail, ReplyRecorded, ReplyQueued, HomeRestart
<1>3. QED
  BY <1>1, <1>2, WorkerwardNumber

\* What the home daemon numbers for the worker is stored on the host once, in
\* order, and taken for delivered only when it is there: though an import call
\* may be cut after some of its items, and a late one come after its successor.
THEOREM WorkerwardTheorem == RelaySafeSpec => WorkerwardIsChannel
<1>1. RelayInit => WorkerwardChannel!ChannelInit
  BY DEF RelayInit, WorkerwardChannel!ChannelInit
<1>2. DeliveryInv /\ [RelayNext]_relayVars => [WorkerwardChannel!ChannelNext]_WorkerwardChannel!channelVars
  <2> SUFFICES ASSUME DeliveryInv, [RelayNext]_relayVars
               PROVE  WorkerwardChannel!ChannelNext \/ UNCHANGED <<toWorker, hostCursor, ackedWorker>>
      BY DEF WorkerwardChannel!channelVars
  <2>1. CASE Host
    BY <2>1 DEF homeVars, homeStore, hostVars, hostRelay, importVars, Host, HostRefusesAttach,
       createRemoteDispatchAttachment, prepareRemoteAttachmentAuthority, markRemoteAttachmentReady,
       failRemoteAttachment, beginRemoteAttachmentStop, settleRemoteAttachmentStop, SendMessage,
       askRemoteRunHome, SendWorkerDone, monitorFederatedSetup, handleOrchestrationFederationShow,
       HostRestart, HostProcessEnds
  <2>2. CASE Call
    BY <2>2, WorkerwardCallStep DEF DeliveryInv
  <2>3. CASE Home
    BY <2>3, WorkerwardHomeStep DEF DeliveryInv
  <2>4. CASE UNCHANGED relayVars
    BY <2>4 DEF relayVars, hostVars, homeVars, homeStore
  <2>5. QED
    BY <2>1, <2>2, <2>3, <2>4 DEF RelayNext
<1>3. QED
  BY <1>1, <1>2, DeliveryInvariant, PTL DEF RelaySafeSpec, WorkerwardIsChannel, WorkerwardChannel!ChannelSpec

-----------------------------------------------------------------------------
\* The attachment, and what is under way about it: the request or its answer,
\* the report, the state that worker-show has read.
CallsMatch ==
    /\ nDispatch = 0 => attach = "none" /\ attachment = "absent"
    /\ attach \in {"sent", "refused"} => attachment = "absent"
    /\ attach = "served" => attachment = "starting"
    /\ attach = "failed" => attachment = "failed"
    /\ stop = "served" => attachment = "stopping"
    /\ stop = "stopped" => attachment = "stopped"
    /\ authority = FALSE \/ attachment \in {"starting", "ready"}

ReportsMatch == \A i \in 1..Len(toHome) : toHome[i] \in Outcome => attachment = toHome[i]

ShownMatches ==
    \A s \in Sync : sync[s].at = "shown" =>
        (Head(sync[s].batch) \in {"failed", "stopped"} => attachment = Head(sync[s].batch))

AttachInv == CallsMatch /\ ReportsMatch /\ ShownMatches

\* What the home daemon holds for ended the host has ended too.
EndsMatch ==
    /\ worker[D] \in {"succeeded", "failed", "stopped"} =>
          attachment \in SettledAttachment \cup {"absent"} /\ attach # "sent"
    /\ status[D] = "completed" => attachment = "succeeded"

LEMMA AttachInit == RelayInit => AttachInv /\ EndsMatch
BY TheDispatch DEF RelayInit, Init, StoreInit, AttachInv, CallsMatch, ReportsMatch, ShownMatches,
   EndsMatch, Idle

\* An attachment that ended keeps its state.
LEMMA SettledStays ==
    ASSUME CallsMatch, Host \/ Call, attachment \in SettledAttachment
    PROVE  attachment' = attachment
<1> USE DEF CallsMatch, SettledAttachment, hostVars, attachVars
<1>1. CASE Host
  BY <1>1 DEF Host, HostRefusesAttach, createRemoteDispatchAttachment, prepareRemoteAttachmentAuthority,
     markRemoteAttachmentReady, failRemoteAttachment, beginRemoteAttachmentStop, settleRemoteAttachmentStop,
     SendMessage, askRemoteRunHome, SendWorkerDone, monitorFederatedSetup,
     handleOrchestrationFederationShow, HostRestart, HostProcessEnds
<1>2. CASE Call
  BY <1>2 DEF Call, PullAnswered, CallAnswered, SyncFails, AnswerLost, CallDelayed, CallCut,
     LateCall, LateCallCut, HostHandles, HostDies, HostProcessEnds
<1>3. QED
  BY <1>1, <1>2

\* Only the home daemon sends attach-start.
LEMMA CreatedOnRequest ==
    ASSUME Host \/ Call
    PROVE  /\ attach' = attach \/ attach' # "sent"
           /\ attach # "sent" /\ attachment = "absent" /\ CallsMatch => attachment' = "absent"
<1> USE DEF CallsMatch, hostVars, homeVars, netVars, attachVars, AnswerStart, AgentMaySend
<1>1. CASE Host
  BY <1>1 DEF Host, HostRefusesAttach, createRemoteDispatchAttachment, prepareRemoteAttachmentAuthority,
     markRemoteAttachmentReady, failRemoteAttachment, beginRemoteAttachmentStop, settleRemoteAttachmentStop,
     SendMessage, askRemoteRunHome, SendWorkerDone, monitorFederatedSetup,
     handleOrchestrationFederationShow, HostRestart, HostProcessEnds
<1>2. CASE Call
  BY <1>2 DEF Call, PullAnswered, CallAnswered, SyncFails, AnswerLost, CallDelayed, CallCut,
     LateCall, LateCallCut, HostHandles, HostDies, HostProcessEnds
<1>3. QED
  BY <1>1, <1>2

\* What the home daemon holds stays true while only the host moves.
LEMMA EndsHiddenStep ==
    ASSUME CallsMatch, EndsMatch, Host \/ Call
    PROVE  EndsMatch'
<1>1. worker' = worker /\ status' = status
  BY HostIsHidden DEF vars, storeVars, dispatchVars, workerVars
<1>2. QED
  BY <1>1, SettledStays, CreatedOnRequest DEF EndsMatch, SettledAttachment

LEMMA CallsMatchHidden ==
    ASSUME CallsMatch, Host \/ Call
    PROVE  CallsMatch'
<1>0. nDispatch' = nDispatch
  BY HostIsHidden DEF vars, storeVars, dispatchVars
<1> USE DEF hostVars, homeVars, netVars, attachVars
<1>1. CASE HostRefusesAttach \/ createRemoteDispatchAttachment \/ prepareRemoteAttachmentAuthority
  BY <1>0, <1>1 DEF CallsMatch, HostRefusesAttach, createRemoteDispatchAttachment,
     prepareRemoteAttachmentAuthority, AnswerStart
<1>2. CASE markRemoteAttachmentReady \/ \E a \in {"failed", "start_unknown"} : failRemoteAttachment(a)
  BY <1>0, <1>2 DEF CallsMatch, markRemoteAttachmentReady, failRemoteAttachment, AnswerStart
<1>3. CASE beginRemoteAttachmentStop
  BY <1>0, <1>3 DEF CallsMatch, beginRemoteAttachmentStop, AnswerStop, SettledAttachment
<1>4. CASE \E a \in {"stopped", "stop_unknown"} : settleRemoteAttachmentStop(a)
  BY <1>0, <1>4 DEF CallsMatch, settleRemoteAttachmentStop, AnswerStop
<1>5. ASSUME NEW o \in Outcome, SendWorkerDone(o)
      PROVE  CallsMatch'
  BY <1>0, <1>5 DEF CallsMatch, SendWorkerDone, AgentMaySend
<1>6. CASE UNCHANGED <<attachment, authority, attach, stop>>
  BY <1>0, <1>6 DEF CallsMatch
<1>7. CASE \/ \E kind \in Chatter : SendMessage(kind)
           \/ askRemoteRunHome \/ monitorFederatedSetup \/ handleOrchestrationFederationShow
  BY <1>6, <1>7 DEF SendMessage, askRemoteRunHome, monitorFederatedSetup, handleOrchestrationFederationShow
<1>8. ASSUME HostProcessEnds
      PROVE  CallsMatch'
  BY <1>0, <1>8 DEF CallsMatch, HostProcessEnds
<1>9. CASE HostRestart
  BY <1>8, <1>9 DEF HostRestart
<1>10. CASE Call
  <2>1. HostProcessEnds \/ UNCHANGED <<attachment, authority, attach, stop>>
    BY <1>10 DEF Call, PullAnswered, CallAnswered, SyncFails, AnswerLost, CallDelayed, CallCut,
       LateCall, LateCallCut, HostHandles, HostDies
  <2>2. QED
    BY <1>6, <1>8, <2>1
<1>11. QED
  BY <1>1, <1>2, <1>3, <1>4, <1>5, <1>7, <1>9, <1>10 DEF Host

LEMMA ReportsMatchHidden ==
    ASSUME StreamInv, CallsMatch, ReportsMatch, Host \/ Call
    PROVE  ReportsMatch'
<1> USE DEF hostVars, attachVars, hostRelay
<1>1. ASSUME NEW o \in Outcome, SendWorkerDone(o)
      PROVE  ReportsMatch'
  <2>1. attachment = "ready" /\ attachment' = o
    BY <1>1 DEF SendWorkerDone
  <2>2. \A i \in 1..Len(toHome) : toHome[i] \notin Outcome
    BY <2>1 DEF ReportsMatch, Outcome
  <2>3. CASE enqueueFederationRelay(o)
    <3>1. /\ toHome' = Append(toHome, o) /\ toHome \in Seq(ToHomeKind)
      BY <2>3 DEF enqueueFederationRelay, StreamInv
    <3>2. \A i \in 1..Len(toHome') : (i \in 1..Len(toHome) /\ toHome'[i] = toHome[i]) \/ toHome'[i] = o
      BY <3>1
    <3>3. QED
      BY <2>1, <2>2, <3>2 DEF ReportsMatch
  <2>4. CASE replaceHeartbeat(o)
    <3>1. PICK j : toHome' = [toHome EXCEPT ![j] = o]
      BY <2>4 DEF replaceHeartbeat
    <3>2. \A i \in 1..Len(toHome') : (i \in 1..Len(toHome) /\ toHome'[i] = toHome[i]) \/ toHome'[i] = o
      BY <3>1 DEF StreamInv
    <3>3. QED
      BY <2>1, <2>2, <3>2 DEF ReportsMatch
  <2>5. QED
    BY <1>1, <2>3, <2>4 DEF SendWorkerDone
<1>2. ASSUME toHome' = toHome \/ \E kind \in {"status", "heartbeat", "question"} : toHome' = Append(toHome, kind)
      PROVE  ReportsMatch'
  <2> DEFINE NoNewReport ==
          \A i \in 1..Len(toHome') : toHome'[i] \in Outcome => i \in 1..Len(toHome) /\ toHome'[i] = toHome[i]
  <2>1. NoNewReport
    <3>1. ASSUME NEW kind \in {"status", "heartbeat", "question"}, toHome' = Append(toHome, kind)
          PROVE  NoNewReport
      <4>1. \A i \in 1..Len(toHome') : (i \in 1..Len(toHome) /\ toHome'[i] = toHome[i]) \/ toHome'[i] = kind
        BY <3>1 DEF StreamInv
      <4>2. QED
        BY <4>1 DEF Outcome
    <3>2. QED
      BY <1>2, <3>1 DEF StreamInv
  <2>2. \A i \in 1..Len(toHome) : toHome[i] \in Outcome => attachment \in SettledAttachment
    BY DEF ReportsMatch, Outcome, SettledAttachment
  <2>3. QED
    BY <2>1, <2>2, SettledStays DEF ReportsMatch
<1>3. ASSUME NEW kind \in Chatter, SendMessage(kind)
      PROVE  ReportsMatch'
  BY <1>2, <1>3, RelayAssumption DEF RelayAssumption, SendMessage, enqueueFederationRelay
<1>4. CASE askRemoteRunHome \/ monitorFederatedSetup
  BY <1>2, <1>4 DEF askRemoteRunHome, monitorFederatedSetup, enqueueFederationRelay
<1>5. CASE \/ HostRefusesAttach
           \/ createRemoteDispatchAttachment
           \/ prepareRemoteAttachmentAuthority
           \/ markRemoteAttachmentReady
           \/ \E a \in {"failed", "start_unknown"} : failRemoteAttachment(a)
           \/ beginRemoteAttachmentStop
           \/ \E a \in {"stopped", "stop_unknown"} : settleRemoteAttachmentStop(a)
           \/ handleOrchestrationFederationShow
           \/ HostRestart
  <2>1. toHome' = toHome
    BY <1>5 DEF HostRefusesAttach, createRemoteDispatchAttachment,
       prepareRemoteAttachmentAuthority, markRemoteAttachmentReady, failRemoteAttachment,
       beginRemoteAttachmentStop, settleRemoteAttachmentStop, handleOrchestrationFederationShow,
       HostRestart, HostProcessEnds
  <2>2. QED
    BY <1>2, <2>1
<1>6. CASE Call
  <2>1. toHome' = toHome
    BY <1>6 DEF Call, PullAnswered, CallAnswered, SyncFails, AnswerLost, CallDelayed, CallCut,
       LateCall, LateCallCut, HostHandles, HostDies, HostProcessEnds
  <2>2. QED
    BY <1>2, <2>1
<1>7. QED
  BY <1>1, <1>3, <1>4, <1>5, <1>6 DEF Host

\* While nothing is shown anew, what is shown stays true.
LEMMA ShownStays ==
    ASSUME ShownMatches, attachment \in SettledAttachment => attachment' = attachment,
           \A s \in Sync : sync'[s].at = "shown" => sync'[s] = sync[s]
    PROVE  ShownMatches'
<1> SUFFICES ASSUME NEW s \in Sync, sync'[s].at = "shown", Head(sync'[s].batch) \in {"failed", "stopped"}
             PROVE  attachment' = Head(sync'[s].batch)
    BY DEF ShownMatches
<1>1. sync'[s] = sync[s]
  OBVIOUS
<1>2. attachment = Head(sync[s].batch)
  BY <1>1 DEF ShownMatches
<1>3. attachment \in SettledAttachment
  BY <1>1, <1>2 DEF SettledAttachment
<1>4. QED
  BY <1>1, <1>2, <1>3

LEMMA ShownMatchesHidden ==
    ASSUME StreamInv, CallsMatch, ShownMatches, Host \/ Call
    PROVE  ShownMatches'
<1> USE DEF homeVars, netVars
<1>1. CASE handleOrchestrationFederationShow
  <2>1. PICK reply : /\ SetSync("direct", Shown(reply)) /\ reply \in {attachment, "reported"}
                     /\ "direct" \in Sync /\ attachment' = attachment
    BY <1>1 DEF handleOrchestrationFederationShow, hostVars
  <2>2. \A s \in Sync : sync'[s] = IF s = "direct" THEN Shown(reply) ELSE sync[s]
    BY <2>1 DEF SetSync, StreamInv
  <2>3. Head(Shown(reply).batch) = reply
    BY DEF Shown
  <2>4. QED
    BY <2>1, <2>2, <2>3 DEF ShownMatches
<1>2. CASE ~ handleOrchestrationFederationShow
  <2>1. \/ sync' = sync
        \/ \E s \in Sync : \E point : SetSync(s, point) /\ point.at # "shown"
    <3>1. CASE Host
      BY <1>2, <3>1 DEF Host, HostRefusesAttach, createRemoteDispatchAttachment,
         prepareRemoteAttachmentAuthority, markRemoteAttachmentReady, failRemoteAttachment,
         beginRemoteAttachmentStop, settleRemoteAttachmentStop, SendMessage, askRemoteRunHome, SendWorkerDone,
         monitorFederatedSetup, HostRestart
    <3>2. ASSUME NEW s \in Sync, PullAnswered(s)
          PROVE  \E point : SetSync(s, point) /\ point.at # "shown"
      <4> DEFINE point == [sync[s] EXCEPT !.at = "pulled", !.batch = listFederationRelay(sync[s].n)]
      <4>1. point.at # "shown"
        BY DEF StreamInv, SyncRecord
      <4>2. SetSync(s, point)
        BY <3>2 DEF PullAnswered
      <4>3. QED
        BY <4>1, <4>2
    <3>3. Idle.at # "shown" /\ outbox.at # "shown"
      BY DEF Idle, outbox, Waiting
    <3>4. CASE Call
      BY <3>2, <3>3, <3>4 DEF Call, CallAnswered, SyncFails, AnswerLost, CallDelayed, CallCut,
         LateCall, LateCallCut
    <3>5. QED
      BY <3>1, <3>4
  <2>2. \A s \in Sync : sync'[s].at = "shown" => sync'[s] = sync[s]
    BY <2>1 DEF SetSync, StreamInv
  <2>3. QED
    BY <2>2, SettledStays, ShownStays
<1>3. QED
  BY <1>1, <1>2

LEMMA AttachHiddenStep ==
    ASSUME StreamInv, AttachInv, Host \/ Call
    PROVE  AttachInv'
BY CallsMatchHidden, ReportsMatchHidden, ShownMatchesHidden DEF AttachInv

\* Rows of dispatch_contexts are never removed.
LEMMA RowsStay ==
    ASSUME StoreTypeOK, [Next]_vars
    PROVE  nDispatch' = 0 => nDispatch = 0
<1>1. CASE UNCHANGED storeVars
  BY <1>1 DEF storeVars, dispatchVars
<1>2. ASSUME NEW t \in Task, NEW r \in Dispatch \cup {NoDispatch}, NEW remote \in BOOLEAN,
             createStartingWorkerDispatch(t, r, remote)
      PROVE  nDispatch' # 0
  BY <1>2, StoreAssumption DEF StoreAssumption, createStartingWorkerDispatch, NextDispatch, StoreTypeOK
<1>3. ASSUME NEW e \in Dispatch, DispatchOp(e)
      PROVE  nDispatch' = nDispatch
  BY <1>3, Zenon
  DEF DispatchOp, WholeOp, TornOp, prepareStartingWorkerAuthority, markWorkerDispatchReady, failWorkerStart,
     markWorkerStartUnknown, reconcileFederatedWorkerStart, beginWorkerStop, workerStopped,
     resumeFederatedWorkerForTerminalRelay, markWorkerStopUnknown, abandonWorkerDispatch,
     settleWorkerReport, failDispatch, failDispatchTorn, updateFailedDispatch, createQuestion, registerFederatedQuestion,
     answerQuestion, identityVars, dispatchVars
<1>4. ASSUME NEW t \in Task, NEW P \in SUBSET Task, createTask(t, P)
      PROVE  nDispatch' = nDispatch
  BY <1>4 DEF createTask, dispatchVars
<1>5. QED
  BY <1>1, <1>2, <1>3, <1>4, StepIsStoreStep DEF StoreStep

\* What the home daemon does to the calls about the attachment.
LEMMA HomeCalls ==
    ASSUME Home
    PROVE  /\ UNCHANGED <<attachment, authority, toHome>>
           /\ attach' \in {attach, "none"} \/ (nDispatch = 0 /\ attach' = "sent" /\ nDispatch' = NextDispatch)
           /\ stop' \in {stop, "none", "sent"}
<1> USE DEF hostVars, netVars
<1>1. ASSUME NEW t \in Task, HomeTaskCreate(t) \/ HomeWorkerStart(t)
      PROVE  /\ UNCHANGED <<attachment, authority, toHome>>
             /\ attach' \in {attach, "none"} \/ (nDispatch = 0 /\ attach' = "sent" /\ nDispatch' = NextDispatch)
             /\ stop' \in {stop, "none", "sent"}
  BY <1>1 DEF HomeTaskCreate, HomeWorkerStart, WorkerStart, createStartingWorkerDispatch
<1>2. CASE \/ WorkerStartAnswered \/ WorkerStartUnanswered \/ HomeWorkerStop \/ WorkerStopAnswered
           \/ WorkerStopUnanswered \/ HomeWorkerAbandon \/ WorkerShowAnswered
           \/ ensureOrchestrationFederationRelay \/ TimerTick \/ SendControlMail \/ ReplyRecorded
           \/ ReplyQueued \/ HomeRestart
  BY <1>2 DEF WorkerStartAnswered, WorkerStartUnanswered, HomeWorkerStop, WorkerStopAnswered,
     WorkerStopUnanswered, HomeWorkerAbandon, WorkerShowAnswered, ensureOrchestrationFederationRelay,
     TimerTick, SendControlMail, ReplyRecorded, ReplyQueued, HomeRestart
<1>3. ASSUME NEW s \in Sync, PullWasEmpty(s) \/ importFederatedRelayItem(s)
      PROVE  UNCHANGED <<attachment, authority, toHome, attach, stop>>
  BY <1>3 DEF PullWasEmpty, importFederatedRelayItem
<1>4. QED
  BY <1>1, <1>2, <1>3 DEF Home

LEMMA ShownHomeStep ==
    ASSUME StreamInv, ShownMatches, Home
    PROVE  ShownMatches'
<1> USE DEF homeVars
<1>1. \/ sync' = sync
      \/ sync' = [s \in Sync |-> Idle]
      \/ \E s \in Sync : \E point : SetSync(s, point) /\ point.at # "shown"
  <2>1. /\ Idle.at # "shown" /\ outbox.at # "shown" /\ Waiting("pull", cursor, 0).at # "shown"
        /\ \A n : Waiting("ack", n, 0).at # "shown"
        /\ \A n, rest : afterItem(n, rest).at # "shown"
    BY DEF Idle, outbox, Waiting, afterItem
  <2>2. ASSUME NEW s \in Sync, PullWasEmpty(s) \/ importFederatedRelayItem(s)
        PROVE  \E point : SetSync(s, point) /\ point.at # "shown"
    BY <2>1, <2>2 DEF PullWasEmpty, importFederatedRelayItem
  <2>3. CASE WorkerStopAnswered \/ WorkerShowAnswered \/ TimerTick \/ HomeRestart
    BY <2>1, <2>3, RelayAssumption
       DEF RelayAssumption, WorkerStopAnswered, WorkerShowAnswered, TimerTick, HomeRestart, SyncBegins
  <2>4. CASE \/ \E t \in Task : HomeTaskCreate(t) \/ HomeWorkerStart(t)
             \/ WorkerStartAnswered \/ WorkerStartUnanswered
             \/ HomeWorkerStop \/ WorkerStopUnanswered \/ HomeWorkerAbandon
             \/ ensureOrchestrationFederationRelay
             \/ SendControlMail \/ ReplyRecorded \/ ReplyQueued
    BY <2>4 DEF HomeTaskCreate, HomeWorkerStart, WorkerStartAnswered, WorkerStartUnanswered,
       HomeWorkerStop, WorkerStopUnanswered, HomeWorkerAbandon, ensureOrchestrationFederationRelay,
       SendControlMail, ReplyRecorded, ReplyQueued
  <2>5. QED
    BY <2>2, <2>3, <2>4 DEF Home
<1>2. \A s \in Sync : sync'[s].at = "shown" => sync'[s] = sync[s]
  BY <1>1 DEF SetSync, StreamInv, Idle
<1>3. QED
  BY <1>2, HomeCalls, ShownStays

LEMMA AttachHomeStep ==
    ASSUME StoreTypeOK, StreamInv, AttachInv, Home
    PROVE  AttachInv'
<1>1. nDispatch' = 0 => nDispatch = 0
  BY HomeIsNext, RowsStay
<1>2. nDispatch = 0 => NextDispatch # 0
  BY DEF NextDispatch
<1>3. CallsMatch'
  BY <1>1, <1>2, HomeCalls DEF AttachInv, CallsMatch
<1>4. ReportsMatch'
  BY HomeCalls DEF AttachInv, ReportsMatch
<1>5. QED
  BY <1>3, <1>4, ShownHomeStep DEF AttachInv

\* How a step of the home daemon may end the dispatch: as the host has it.
EndsAsHost ==
    /\ \/ worker'[D] = worker[D] \/ worker'[D] \notin {"succeeded", "failed", "stopped"}
       \/ attachment \in SettledAttachment \cup {"absent"} /\ attach' # "sent"
    /\ status'[D] \in {status[D], "pending", "dispatched", "failed"} \/ attachment = "succeeded"

LEMMA EndsKept ==
    ASSUME EndsMatch, EndsAsHost, attachment' = attachment, attach' \in {attach, "none"}
    PROVE  EndsMatch'
BY DEF EndsMatch, EndsAsHost

\* The answers to attach-start.
LEMMA EndsStart ==
    ASSUME StoreTypeOK, AttachInv, WorkerStartAnswered \/ WorkerStartUnanswered
    PROVE  EndsAsHost
<1> USE TheDispatch DEF StoreTypeOK, EndsAsHost, SettledAttachment
<1>1. CASE attach = "ready" /\ WorkerReady(D)
  BY <1>1 DEF WorkerReady, markWorkerDispatchReady
<1>2. CASE WorkerStartUnknown(D)
  BY <1>2 DEF WorkerStartUnknown, markWorkerStartUnknown, identityVars
<1>3. CASE worker[D] # "starting" /\ WorkerStartFails(D)
  BY <1>3 DEF WorkerStartFails, failWorkerStart, storeVars, dispatchVars, workerVars
<1>4. CASE attach \in {"failed", "refused"} /\ attach' = "none" /\ WorkerStartFails(D)
  <2>1. attachment \in {"failed", "absent"}
    BY <1>4 DEF AttachInv, CallsMatch
  <2>2. CASE failWorkerStart(D)
    BY <1>4, <2>1, <2>2 DEF failWorkerStart
  <2>3. CASE UNCHANGED storeVars
    BY <2>3 DEF storeVars, dispatchVars, workerVars
  <2>4. QED
    BY <1>4, <2>2, <2>3 DEF WorkerStartFails
<1>5. QED
  BY <1>1, <1>2, <1>3, <1>4 DEF WorkerStartAnswered, WorkerStartUnanswered

\* The answers to stop, and abandon.
LEMMA EndsStop ==
    ASSUME StoreTypeOK, AttachInv,
           HomeWorkerStop \/ WorkerStopAnswered \/ WorkerStopUnanswered \/ HomeWorkerAbandon
    PROVE  EndsAsHost
<1> USE TheDispatch DEF StoreTypeOK, EndsAsHost, SettledAttachment
<1>1. CASE HomeWorkerStop
  BY <1>1 DEF HomeWorkerStop, WorkerStop, beginWorkerStop, identityVars
<1>2. CASE HomeWorkerAbandon
  BY <1>2 DEF HomeWorkerAbandon, WorkerAbandon, abandonWorkerDispatch, identityVars, Active
<1>3. CASE WorkerStopUnconfirmed(D)
  BY <1>3 DEF WorkerStopUnconfirmed, markWorkerStopUnknown, identityVars, storeVars, dispatchVars, workerVars
<1>4. CASE WorkerStopSuperseded(D)
  BY <1>4 DEF WorkerStopSuperseded, resumeFederatedWorkerForTerminalRelay, identityVars
<1>5. CASE stop = "stopped" /\ WorkerStoppedRemotely(D) /\ UNCHANGED attach
  <2>1. attachment = "stopped" /\ attach' # "sent"
    BY <1>5 DEF AttachInv, CallsMatch
  <2>2. status'[D] \in {status[D], "failed"}
    BY <1>5 DEF WorkerStoppedRemotely, reconcileFederatedWorkerStop, workerStopped
  <2>3. QED
    BY <2>1, <2>2
<1>6. QED
  BY <1>1, <1>2, <1>3, <1>4, <1>5 DEF WorkerStopAnswered, WorkerStopUnanswered

\* What worker-show read from the host.
LEMMA EndsShow ==
    ASSUME StoreTypeOK, AttachInv, WorkerShowAnswered
    PROVE  EndsAsHost
<1> DEFINE reply == Head(sync["direct"].batch)
<1> USE TheDispatch DEF StoreTypeOK, EndsAsHost, SettledAttachment
<1>1. CASE UNCHANGED vars
  BY <1>1 DEF vars, storeVars, dispatchVars, workerVars
<1>2. CASE reply \in {"ready", "failed", "stopped"} /\ WorkerShowRemote(D, reply)
  <2> HIDE DEF reply
  <2>1. worker'[D] = reply /\ status'[D] \in {status[D], "dispatched", "failed"}
    <3>1. CASE reconcileFederatedWorkerStart(D, reply)
      BY <1>2, <3>1 DEF reconcileFederatedWorkerStart
    <3>2. CASE reconcileFederatedWorkerStop(D) /\ reply = "stopped"
      BY <1>2, <3>2 DEF reconcileFederatedWorkerStop, workerStopped
    <3>3. QED
      BY <1>2, <3>1, <3>2 DEF WorkerShowRemote
  <2>2. "direct" \in Sync /\ sync["direct"].at = "shown" /\ attach' = attach
    BY DEF WorkerShowAnswered, netVars
  <2>3. reply \in {"failed", "stopped"} => attachment = reply
    BY <2>2 DEF AttachInv, ShownMatches, reply
  <2>4. attachment # "absent" => attach # "sent"
    BY DEF AttachInv, CallsMatch
  <2>5. QED
    BY <1>2, <2>1, <2>2, <2>3, <2>4
<1>3. QED
  BY <1>1, <1>2, Zenon DEF WorkerShowAnswered

\* A report in the relay.
LEMMA EndsImport ==
    ASSUME StoreTypeOK, StreamInv, AttachInv, NEW s \in Sync, importFederatedRelayItem(s)
    PROVE  EndsAsHost
<1> DEFINE kind == Head(sync[s].batch)
<1> USE TheDispatch DEF EndsAsHost, SettledAttachment
<1>1. kind \in Outcome => attachment = kind
  <2>1. /\ sync[s] \in SyncRecord /\ SyncSound(s)
        /\ sync[s].at \in {"pulled", "loop"} /\ sync[s].batch # <<>>
    BY DEF StreamInv, importFederatedRelayItem
  <2>2. /\ sync[s].batch \in Seq(Item) /\ Len(sync[s].batch) \in Nat
        /\ Len(sync[s].batch) >= 1 /\ sync[s].n \in Nat /\ Len(toHome) \in Nat
    BY <2>1 DEF SyncRecord, StreamInv
  <2>3. 1 \in 1..Len(sync[s].batch) /\ kind = sync[s].batch[1]
    BY <2>2
  <2>4. sync[s].n + Len(sync[s].batch) <= Len(toHome) /\ StandsFor(kind, sync[s].n + 1)
    BY <2>1, <2>3 DEF SyncSound
  <2>5. sync[s].n + 1 \in 1..Len(toHome)
    BY <2>2, <2>4
  <2> HIDE DEF kind
  <2>6. QED
    BY <2>4, <2>5 DEF StandsFor, AttachInv, ReportsMatch, Outcome
<1>2. attach' = attach /\ (attachment # "absent" => attach # "sent")
  BY DEF importFederatedRelayItem, netVars, AttachInv, CallsMatch
<1> HIDE DEF kind
<1>3. CASE UNCHANGED <<worker, status>>
  BY <1>3
<1>4. CASE kind \in Outcome /\ settleWorkerReport(D, kind)
  <2>1. worker'[D] \in {worker[D], kind}
    BY <1>4 DEF settleWorkerReport, StoreTypeOK
  <2>2. status'[D] = IF kind = "succeeded" THEN "completed" ELSE "failed"
    BY <1>4 DEF settleWorkerReport, StoreTypeOK
  <2>3. QED
    BY <1>1, <1>2, <1>4, <2>1, <2>2 DEF Outcome
<1>5. UNCHANGED vars \/ ImportEffect(kind)
  BY DEF importFederatedRelayItem, kind
<1>6. QED
  BY <1>3, <1>4, <1>5 DEF ImportEffect, WorkerReportRelayed, WorkerAskRelayed, registerFederatedQuestion,
     vars, storeVars, dispatchVars, workerVars

LEMMA EndsHomeStep ==
    ASSUME StoreTypeOK, StreamInv, AttachInv, EndsMatch, Home
    PROVE  EndsMatch'
<1>1. ASSUME NEW t \in Task, HomeWorkerStart(t)
      PROVE  EndsMatch'
  <2>1. NextDispatch = D /\ status[D] # "completed"
    BY <1>1, TheDispatch DEF HomeWorkerStart, NextDispatch, D, StoreTypeOK
  <2>2. worker'[D] = "starting" /\ status'[D] = "pending"
    BY <1>1, <2>1, TheDispatch DEF HomeWorkerStart, WorkerStart, createStartingWorkerDispatch, StoreTypeOK
  <2>3. QED
    BY <2>2 DEF EndsMatch
<1>2. ASSUME ~ \E t \in Task : HomeWorkerStart(t)
      PROVE  attach' \in {attach, "none"}
  BY <1>2 DEF Home, netVars, HomeTaskCreate, WorkerStartAnswered, WorkerStartUnanswered, HomeWorkerStop,
     WorkerStopAnswered, WorkerStopUnanswered, HomeWorkerAbandon, WorkerShowAnswered,
     ensureOrchestrationFederationRelay, TimerTick, SendControlMail, ReplyRecorded, ReplyQueued,
     HomeRestart, PullWasEmpty, importFederatedRelayItem
<1>3. ASSUME UNCHANGED <<worker, status>>
      PROVE  EndsAsHost
  BY <1>3 DEF EndsAsHost
<1>4. ASSUME ensureOrchestrationFederationRelay \/ TimerTick \/ SendControlMail \/ ReplyRecorded
             \/ ReplyQueued \/ HomeRestart
      PROVE  EndsAsHost
  <2>1. UNCHANGED <<worker, status>>
    BY <1>4, Zenon DEF ensureOrchestrationFederationRelay, TimerTick,
       SendControlMail, ReplyRecorded, ReplyQueued, HomeRestart, Restart, CoordinatorAnswer,
       answerQuestion, vars, storeVars, dispatchVars, workerVars
  <2>2. QED
    BY <1>3, <2>1
<1>5. CASE ~ \E t \in Task : HomeWorkerStart(t)
  <2>1. EndsAsHost
    <3>1. ASSUME NEW s \in Sync, importFederatedRelayItem(s)
          PROVE  EndsAsHost
      BY <3>1, EndsImport
    <3>2. CASE WorkerStartAnswered \/ WorkerStartUnanswered
      BY <3>2, EndsStart
    <3>3. CASE HomeWorkerStop \/ WorkerStopAnswered \/ WorkerStopUnanswered \/ HomeWorkerAbandon
      BY <3>3, EndsStop
    <3>4. CASE WorkerShowAnswered
      BY <3>4, EndsShow
    <3>5. ASSUME NEW t \in Task, HomeTaskCreate(t)
          PROVE  EndsAsHost
      BY <1>3, <3>5 DEF HomeTaskCreate, TaskCreate, createTask, dispatchVars, workerVars
    <3>6. ASSUME NEW s \in Sync, PullWasEmpty(s)
          PROVE  EndsAsHost
      BY <1>3, <3>6 DEF PullWasEmpty, vars, storeVars, dispatchVars, workerVars
    <3>7. CASE ensureOrchestrationFederationRelay \/ TimerTick \/ SendControlMail \/ ReplyRecorded
               \/ ReplyQueued \/ HomeRestart
      BY <1>4, <3>7
    <3>8. QED
      BY <1>5, <3>1, <3>2, <3>3, <3>4, <3>5, <3>6, <3>7 DEF Home
  <2>2. QED
    BY <1>2, <1>5, <2>1, HomeCalls, EndsKept
<1>6. QED
  BY <1>1, <1>5

LEMMA AttachInvariant == RelaySafeSpec => [](AttachInv /\ EndsMatch)
<1>1. RelayInit => AttachInv /\ EndsMatch
  BY AttachInit
<1>2. StoreInv /\ DeliveryInv /\ AttachInv /\ EndsMatch /\ [RelayNext]_relayVars
          => AttachInv' /\ EndsMatch'
  <2> SUFFICES ASSUME StoreInv, DeliveryInv, AttachInv, EndsMatch, [RelayNext]_relayVars
               PROVE  AttachInv' /\ EndsMatch'
      OBVIOUS
  <2>1. StreamInv /\ StoreTypeOK
    BY DEF DeliveryInv, StoreInv, AuthorityInv
  <2>2. CASE Host \/ Call
    BY <2>1, <2>2, AttachHiddenStep, EndsHiddenStep DEF AttachInv
  <2>3. CASE Home
    BY <2>1, <2>3, AttachHomeStep, EndsHomeStep
  <2>4. CASE UNCHANGED relayVars
    BY <2>4 DEF relayVars, vars, storeVars, dispatchVars, workerVars, hostVars, homeVars, netVars,
       AttachInv, CallsMatch, ReportsMatch, ShownMatches, EndsMatch
  <2>5. QED
    BY <2>2, <2>3, <2>4 DEF RelayNext
<1>3. HomeIsSupervised => []StoreInv
  BY StoreInvariant DEF HomeIsSupervised
<1>4. QED
  BY <1>1, <1>2, <1>3, HomeTheorem, DeliveryInvariant, PTL DEF RelaySafeSpec

\* A dispatch the home daemon holds for ended has no agent that may still act.
THEOREM NoLiveRemoteAgentTheorem == RelaySafeSpec => []NoLiveRemoteAgent
<1>1. AttachInv /\ EndsMatch => NoLiveRemoteAgent
  <2> SUFFICES ASSUME AttachInv, EndsMatch, worker[D] \in {"succeeded", "failed", "stopped"}
               PROVE  attachment \in SettledAttachment \cup {"absent"} /\ ~ authority
      BY DEF NoLiveRemoteAgent
  <2>1. attachment \in SettledAttachment \cup {"absent"}
    BY DEF EndsMatch
  <2>2. attachment \notin {"starting", "ready"}
    BY <2>1 DEF SettledAttachment
  <2>3. authority = FALSE
    BY <2>2 DEF AttachInv, CallsMatch
  <2>4. QED
    BY <2>1, <2>3, Zenon
<1>2. QED
  BY <1>1, AttachInvariant, PTL

\* A task completed here was reported complete there.
THEOREM ReportsAgreeTheorem == RelaySafeSpec => []ReportsAgree
<1>1. EndsMatch => ReportsAgree
  BY DEF EndsMatch, ReportsAgree
<1>2. QED
  BY <1>1, AttachInvariant, PTL

-----------------------------------------------------------------------------
\* The types of the rest: the memory of both processes, the calls, and the
\* numbers a sync holds.
SmallPoint(p) == /\ p.at \in {"idle", "shown"} => p.n = 0
                 /\ p.at # "import" => p.to = 0
SyncSmall == \A s \in Sync : SmallPoint(sync[s])

MemoryType ==
    /\ authority \in BOOLEAN /\ monitor \in BOOLEAN /\ timer \in BOOLEAN
    /\ attach \in AttachPoint /\ stop \in StopPoint

LEMMA MemoryHostStep ==
    ASSUME AttachmentTypeOK, MemoryType, Host
    PROVE  MemoryType'
<1> USE DEF MemoryType, AttachPoint, StopPoint, netVars, homeVars, homeMemory, attachVars
<1>1. CASE HostRefusesAttach \/ createRemoteDispatchAttachment \/ markRemoteAttachmentReady
  <2>1. UNCHANGED <<authority, timer, stop>>
    BY <1>1 DEF HostRefusesAttach, createRemoteDispatchAttachment, markRemoteAttachmentReady, hostVars
  <2>2. monitor' = HasSetup \/ monitor' = monitor
    BY <1>1 DEF HostRefusesAttach, createRemoteDispatchAttachment, markRemoteAttachmentReady, hostVars
  <2>3. attach' \in AttachPoint
    BY <1>1 DEF HostRefusesAttach, createRemoteDispatchAttachment, markRemoteAttachmentReady, AnswerStart
  <2>4. monitor' \in BOOLEAN
    BY <2>2, RelayAssumption, Zenon DEF RelayAssumption
  <2>5. QED
    BY <2>1, <2>3, <2>4
<1>2. CASE prepareRemoteAttachmentAuthority
  BY <1>2 DEF prepareRemoteAttachmentAuthority
<1>3. ASSUME NEW a \in {"failed", "start_unknown"}, failRemoteAttachment(a)
      PROVE  MemoryType'
  BY <1>3 DEF failRemoteAttachment, AnswerStart
<1>4. CASE beginRemoteAttachmentStop
  BY <1>4 DEF beginRemoteAttachmentStop, AnswerStop, SettledAttachment
<1>5. ASSUME NEW a \in {"stopped", "stop_unknown"}, settleRemoteAttachmentStop(a)
      PROVE  MemoryType'
  BY <1>5 DEF settleRemoteAttachmentStop, AnswerStop
<1>6. CASE (\E kind \in Chatter : SendMessage(kind)) \/ askRemoteRunHome
            \/ handleOrchestrationFederationShow
  BY <1>6 DEF SendMessage, askRemoteRunHome, handleOrchestrationFederationShow, hostVars
<1>7. CASE (\E o \in Outcome : SendWorkerDone(o)) \/ monitorFederatedSetup
  BY <1>7 DEF SendWorkerDone, monitorFederatedSetup
<1>8. CASE HostRestart
  BY <1>8 DEF HostRestart, HostProcessEnds
<1>9. QED
  BY <1>1, <1>2, <1>3, <1>4, <1>5, <1>6, <1>7, <1>8 DEF Host

LEMMA MemoryCallStep ==
    ASSUME MemoryType, Call
    PROVE  MemoryType'
<1> USE DEF MemoryType, AttachPoint, StopPoint, netVars, homeVars, homeMemory, attachVars, hostVars
<1>1. CASE \E s \in Sync : PullAnswered(s) \/ SyncFails(s) \/ CallDelayed(s)
  BY <1>1 DEF PullAnswered, SyncFails, CallDelayed
<1>2. CASE \E s \in Sync : CallAnswered(s) \/ AnswerLost(s)
  BY <1>2 DEF CallAnswered, AnswerLost, HostHandles
<1>3. CASE \E s \in Sync : CallCut(s)
  BY <1>3 DEF CallCut, HostDies, HostProcessEnds
<1>4. CASE \E r \in late : LateCall(r) \/ LateCallCut(r)
  BY <1>4 DEF LateCall, LateCallCut, HostHandles, HostDies, HostProcessEnds
<1>5. QED
  BY <1>1, <1>2, <1>3, <1>4 DEF Call

LEMMA MemoryHomeStep ==
    ASSUME MemoryType, Home
    PROVE  MemoryType'
<1> USE DEF MemoryType, AttachPoint, StopPoint, netVars, homeVars, homeMemory, hostVars
<1>1. CASE \E t \in Task : HomeTaskCreate(t) \/ HomeWorkerStart(t)
  BY <1>1 DEF HomeTaskCreate, HomeWorkerStart
<1>2. CASE WorkerStartAnswered
  <2>1. timer' = TRUE \/ UNCHANGED timer
    BY <1>2, Zenon DEF WorkerStartAnswered
  <2>2. attach' = "none" /\ UNCHANGED <<authority, monitor, stop>>
    BY <1>2 DEF WorkerStartAnswered
  <2>3. QED
    BY <2>1, <2>2
<1>3. CASE WorkerStartUnanswered \/ HomeWorkerStop \/ WorkerStopUnanswered
  BY <1>3 DEF WorkerStartUnanswered, HomeWorkerStop, WorkerStopUnanswered
<1>4. CASE WorkerStopAnswered
  <2>1. stop' = "none" /\ UNCHANGED <<authority, monitor, timer, attach>>
    BY <1>4, Zenon DEF WorkerStopAnswered
  <2>2. QED
    BY <2>1
<1>5. CASE HomeWorkerAbandon \/ WorkerShowAnswered
  BY <1>5 DEF HomeWorkerAbandon, WorkerShowAnswered
<1>6. CASE ensureOrchestrationFederationRelay \/ TimerTick
  BY <1>6 DEF ensureOrchestrationFederationRelay, TimerTick
<1>7. CASE \E s \in Sync : PullWasEmpty(s) \/ importFederatedRelayItem(s)
  BY <1>7 DEF PullWasEmpty, importFederatedRelayItem
<1>8. CASE SendControlMail \/ ReplyRecorded \/ ReplyQueued
  BY <1>8 DEF SendControlMail, ReplyRecorded, ReplyQueued
<1>9. CASE HomeRestart
  BY <1>9 DEF HomeRestart
<1>10. QED
  BY <1>1, <1>2, <1>3, <1>4, <1>5, <1>6, <1>7, <1>8, <1>9 DEF Home

\* A sync goes to a point with no number left over from an earlier one.
LEMMA SmallSync ==
    ASSUME StreamInv, SyncSmall, NEW s \in Sync, NEW p, SmallPoint(p), SetSync(s, p)
    PROVE  SyncSmall'
BY DEF SyncSmall, SmallPoint, SetSync, StreamInv

LEMMA SmallPoints ==
    /\ SmallPoint(Idle) /\ SmallPoint(outbox)
    /\ \A n : SmallPoint(Waiting("pull", n, 0)) /\ SmallPoint(Waiting("ack", n, 0))
    /\ \A n, b : SmallPoint(afterItem(n, b))
    /\ \A reply : SmallPoint(Shown(reply))
BY DEF SmallPoint, Idle, outbox, Waiting, afterItem, Shown

LEMMA SmallStutter ==
    SyncSmall /\ UNCHANGED sync => SyncSmall'
BY DEF SyncSmall

LEMMA SyncSmallStep ==
    ASSUME StreamInv, SyncSmall, RelayNext
    PROVE  SyncSmall'
<1> USE SmallPoints, SmallSync, SmallStutter
<1>1. CASE Host
  <2>1. CASE handleOrchestrationFederationShow
    <3>1. "direct" \in Sync /\ \E reply : SetSync("direct", Shown(reply))
      BY <2>1 DEF handleOrchestrationFederationShow
    <3>2. QED
      BY <3>1
  <2>2. CASE ~ handleOrchestrationFederationShow
    <3>1. UNCHANGED sync
      BY <1>1, <2>2 DEF Host, HostRefusesAttach, createRemoteDispatchAttachment,
         prepareRemoteAttachmentAuthority, markRemoteAttachmentReady, failRemoteAttachment,
         beginRemoteAttachmentStop, settleRemoteAttachmentStop, SendMessage, askRemoteRunHome,
         SendWorkerDone, monitorFederatedSetup, HostRestart, homeVars
    <3>2. QED
      BY <3>1
  <2>3. QED
    BY <2>1, <2>2
<1>2. ASSUME NEW s \in Sync, PullAnswered(s)
      PROVE  SyncSmall'
  <2>1. PICK b : SetSync(s, [sync[s] EXCEPT !.at = "pulled", !.batch = b]) /\ sync[s].at = "pull"
    BY <1>2 DEF PullAnswered
  <2>2. sync[s] \in SyncRecord /\ sync[s].to = 0
    BY <2>1 DEF SyncSmall, SmallPoint, StreamInv
  <2>3. SmallPoint([sync[s] EXCEPT !.at = "pulled", !.batch = b])
    BY <2>2 DEF SmallPoint, SyncRecord
  <2>4. QED
    BY <2>1, <2>3
<1>3. ASSUME NEW s \in Sync, CallAnswered(s)
      PROVE  SyncSmall'
  <2>1. SetSync(s, outbox) \/ SetSync(s, Idle)
    BY <1>3 DEF CallAnswered
  <2>2. QED
    BY <2>1
<1>4. ASSUME NEW s \in Sync, SyncFails(s) \/ AnswerLost(s) \/ CallDelayed(s) \/ CallCut(s)
      PROVE  SyncSmall'
  <2>1. SetSync(s, Idle)
    BY <1>4 DEF SyncFails, AnswerLost, CallDelayed, CallCut
  <2>2. QED
    BY <2>1
<1>5. CASE \E r \in late : LateCall(r) \/ LateCallCut(r)
  BY <1>5 DEF LateCall, LateCallCut, homeVars
<1>6. CASE Call
  BY <1>2, <1>3, <1>4, <1>5, <1>6 DEF Call
<1>7. ASSUME NEW s \in Sync, PullWasEmpty(s)
      PROVE  SyncSmall'
  <2>1. SetSync(s, outbox) \/ SetSync(s, Waiting("ack", sync[s].n, 0))
    BY <1>7 DEF PullWasEmpty
  <2>2. QED
    BY <2>1
<1>8. ASSUME NEW s \in Sync, importFederatedRelayItem(s)
      PROVE  SyncSmall'
  <2>1. SetSync(s, Idle) \/ \E n, b : SetSync(s, afterItem(n, b))
    BY <1>8, Zenon DEF importFederatedRelayItem
  <2>2. QED
    BY <2>1
<1>9. CASE TimerTick
  <2>1. "timer" \in Sync
    BY RelayAssumption DEF RelayAssumption
  <2>2. UNCHANGED sync \/ SetSync("timer", Waiting("pull", cursor, 0))
    BY <1>9 DEF TimerTick, SyncBegins
  <2>3. QED
    BY <2>1, <2>2
<1>10. CASE WorkerStopAnswered
  <2>1. UNCHANGED sync \/ ("direct" \in Sync /\ SetSync("direct", Waiting("pull", cursor, 0)))
    BY <1>10, Zenon DEF WorkerStopAnswered, SyncBegins
  <2>2. QED
    BY <2>1
<1>11. CASE WorkerShowAnswered
  <2>1. /\ "direct" \in Sync
        /\ SetSync("direct", Idle) \/ SetSync("direct", Waiting("pull", cursor, 0))
    BY <1>11, Zenon DEF WorkerShowAnswered
  <2>2. QED
    BY <2>1
<1>12. CASE HomeRestart
  BY <1>12 DEF HomeRestart, SyncSmall
<1>13. CASE \/ \E t \in Task : HomeTaskCreate(t) \/ HomeWorkerStart(t)
            \/ WorkerStartAnswered \/ WorkerStartUnanswered
            \/ HomeWorkerStop \/ WorkerStopUnanswered \/ HomeWorkerAbandon
            \/ ensureOrchestrationFederationRelay
            \/ SendControlMail \/ ReplyRecorded \/ ReplyQueued
  <2>1. UNCHANGED sync
    BY <1>13 DEF HomeTaskCreate, HomeWorkerStart, WorkerStartAnswered, WorkerStartUnanswered,
       HomeWorkerStop, WorkerStopUnanswered, HomeWorkerAbandon, ensureOrchestrationFederationRelay,
       SendControlMail, ReplyRecorded, ReplyQueued, homeVars
  <2>2. QED
    BY <2>1
<1>14. QED
  BY <1>1, <1>6, <1>7, <1>8, <1>9, <1>10, <1>11, <1>12, <1>13 DEF RelayNext, Home

\* The numbers of a sync are numbers of items.
LEMMA SyncType ==
    ASSUME DeliveryInv, SyncSmall
    PROVE  sync \in [Sync -> [at : SyncPoint, n : 0..Larger(MaxToHome, MaxToWorker),
                              to : 0..MaxToWorker,
                              batch : Seq(ToHomeKind \cup AttachmentState \cup {"reported"})]]
<1> SUFFICES ASSUME NEW s \in Sync
             PROVE  sync[s].n \in 0..Larger(MaxToHome, MaxToWorker) /\ sync[s].to \in 0..MaxToWorker
  BY DEF DeliveryInv, StreamInv, SyncRecord, Item
<1> USE RelayAssumption DEF RelayAssumption, Larger
<1>1. sync[s].at \in SyncPoint /\ sync[s].n \in Nat /\ sync[s].to \in Nat
  BY DEF DeliveryInv, StreamInv, SyncRecord
<1>2. SmallPoint(sync[s])
  BY DEF SyncSmall
<1>3. CASE sync[s].at \in {"idle", "shown"}
  BY <1>2, <1>3 DEF SmallPoint
<1>4. CASE sync[s].at \in {"pull", "pulled", "loop", "ack"}
  <2>1. sync[s].n <= cursor /\ cursor <= Len(toHome) /\ Len(toHome) <= MaxToHome
    BY <1>4 DEF DeliveryInv, StreamInv, SyncSound, CallsSound
  <2>2. cursor \in Nat /\ Len(toHome) \in Nat
    BY DEF DeliveryInv, StreamInv
  <2>3. sync[s].to = 0
    BY <1>2, <1>4 DEF SmallPoint
  <2>4. QED
    BY <1>1, <2>1, <2>2, <2>3
<1>5. CASE sync[s].at = "import"
  <2>1. RequestOf(s) \in Request
    BY <1>5 DEF DeliveryInv, CallsSound, Calling, RequestSound
  <2>2. RequestOf(s).kind = "import" /\ RequestOf(s).from = sync[s].n /\ RequestOf(s).to = sync[s].to
    BY <1>5 DEF RequestOf
  <2>3. sync[s].n \in 1..MaxToWorker /\ sync[s].to \in 1..MaxToWorker
    BY <2>1, <2>2 DEF Request
  <2>4. QED
    BY <2>3
<1>6. QED
  BY <1>1, <1>3, <1>4, <1>5 DEF SyncPoint

\* Both stores, the calls between them and the syncs under way stay what their
\* types say, in particular within what either side has numbered.
THEOREM RelayTypeTheorem == RelaySafeSpec => []RelayTypeOK
<1>1. RelayInit => MemoryType /\ SyncSmall
  BY SmallPoints DEF RelayInit, MemoryType, AttachPoint, StopPoint, SyncSmall
<1>2. DeliveryInv /\ MemoryType /\ SyncSmall /\ [RelayNext]_relayVars => MemoryType' /\ SyncSmall'
  <2> SUFFICES ASSUME DeliveryInv, MemoryType, SyncSmall, [RelayNext]_relayVars
               PROVE  MemoryType' /\ SyncSmall'
      OBVIOUS
  <2>1. CASE RelayNext
    BY <2>1, MemoryHostStep, MemoryCallStep, MemoryHomeStep, SyncSmallStep DEF RelayNext, DeliveryInv
  <2>2. CASE UNCHANGED relayVars
    BY <2>2, SmallStutter DEF relayVars, hostVars, homeVars, homeMemory, netVars, MemoryType
  <2>3. QED
    BY <2>1, <2>2
<1>3. RelaySafeSpec => []TypeOK
  BY HomeTheorem, TypeCorrect, PTL DEF HomeIsSupervised
<1>4. DeliveryInv /\ MemoryType /\ SyncSmall /\ TypeOK => RelayTypeOK
  <2> SUFFICES ASSUME DeliveryInv, MemoryType, SyncSmall, TypeOK
               PROVE  RelayTypeOK
      OBVIOUS
  <2>1. /\ toHome \in Seq(ToHomeKind) /\ Len(toHome) <= MaxToHome
        /\ ackedHome \in 0..Len(toHome) /\ inbox \in Seq(ToHomeKind) /\ cursor \in 0..Len(toHome)
    BY DEF DeliveryInv, StreamInv, AckedIsImported, CallsSound
  <2>2. /\ toWorker \in Seq(ToWorkerKind) /\ Len(toWorker) <= MaxToWorker
        /\ ackedWorker \in 0..Len(toWorker) /\ hostCursor \in 0..Len(toWorker)
        /\ mail \in [1..MaxToWorker -> 0..1] /\ remoteAnswer \in {"none", "pending", "answered"}
        /\ receipt \in [RequestId -> Receipt]
    BY DEF DeliveryInv, BoxInv, BoxType, ReceiptsSound
  <2>3. answered \in BOOLEAN /\ replying \in BOOLEAN
    BY Zenon DEF DeliveryInv, BoxInv, BoxType
  <2>4. late \in SUBSET Request /\ attachment \in AttachmentState
    BY DEF DeliveryInv, CallsSound, RequestSound, AttachmentTypeOK
  <2>5. QED
    BY <2>1, <2>2, <2>3, <2>4, SyncType, Zenon DEF MemoryType, RelayTypeOK
<1>5. QED
  BY <1>1, <1>2, <1>3, <1>4, DeliveryInvariant, PTL DEF RelaySafeSpec
=============================================================================
