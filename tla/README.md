# Yiru, in TLA+

Yiru is a workbench for coding agents: a daemon (`apps/daemon`) owns repositories,
worktrees, terminals and the *orchestration* of agents; a Chrome extension, a React
client and an iOS app are its clients; other daemons can be its federated peers. This
directory models the daemon's orchestration, the part in which agents, people, timers,
terminal exits, remote hosts and restarts all change the same rows: the store of tasks and
dispatches, the relay that carries a remote worker's reports home, the mailbox of a run and
the receipts that make a mutation repeatable. Paths below are relative to
`apps/daemon/src/` of the repository.

Contents: [inventory](#inventory), [modules](#modules), [runs](#runs), [fairness](#fairness),
[proofs](#proofs), [divergences](#where-the-code-and-its-comments-disagree),
[limits](#what-is-not-modelled), [plan](#plan).

## Inventory

### Orchestration

State is one SQLite database (`runtime/orchestration/orchestration-db-layer-1.ts` has the
schema); it survives a restart. What a request still has to do after an `await` lives in
the process only. The daemon is one thread, so a handler runs alone between two awaits.

| component | state | operations | how it interacts | hard behaviour | what makes it correct |
|---|---|---|---|---|---|
| Store of tasks and dispatches (`orchestration-db-layer-6,7,8,13,14,15.ts`) | `tasks`, `dispatch_contexts`, `worker_dispatches`, `decision_gates` | about 30 operations, some transactions, some autocommit statements one after the other | called by every handler below | one row changed by many parties; a crash between two statements | one agent per task, no authority after the end, tasks never stuck |
| Worker start (`rpc/methods/orchestration/worker/start.ts`, `federation/worker-start.ts`) | the waiting request | create the dispatch, set up worktree and terminal, mint a capability, type the prompt, mark it ready, or fail it | store, PTYs, worker host | awaits of a minute between the steps | a start reaches a receipt; an ended dispatch is not marked ready |
| Worker stop, show, abandon (`worker/stop.ts`, `worker/control.ts`) | the waiting request | begin, settle, mark unknown, reconcile with the worker host, abandon | store, terminal, worker host | the worker reports, exits or is shown while it is being stopped | a stop reaches a receipt; a settled worker ends its dispatch |
| Commands by hand (`dispatch.ts`, `tasks.ts`, `gates.ts`) | the waiting prompt | dispatch, task-create, task-update, gate-create, gate-resolve | the same store, not aware of supervised workers | stale failure of a prompt; gates, also resolved ones, reopening a task that is being worked on | terminal lock; nothing ended becomes active |
| Terminal exit (`runtime/yiru-runtime/terminal/fail-active-dispatch-on-exit.ts`) | none | fail the active dispatch of the terminal, escalate to the coordinator | PTY callback, store, mailbox | arrives inside any await; counted twice with the escalation | |
| Reports and questions (`message-send.ts`, `ask.ts`, `lifecycle-reconciliation.ts`, layer 5) | `question_threads`, messages | worker_done, ask, answer | agents, store | late, duplicate or unauthorised reports | only the current dispatch of a task can settle it |
| Coordinator loop (`coordinator.ts`, `coordinator-messages.ts`, `coordinator-task-dispatch.ts`) | `coordinator_runs`, snapshots held across awaits | tick: read messages, apply gates, dispatch ready tasks, check convergence | store, terminals, mailbox | stale snapshots; stale escalations | bounded concurrency and attempts; a second agent on a task only after a gate; convergence |
| Federation relay (`federation-sync.ts`, layers 9 to 12) | relay items with sequence numbers and cursors on both daemons | enqueue, pull, import, acknowledge, reconcile | two daemons over calls that fail | loss, repetition, coalescing, quota replacement | what was imported is imported once, in order; both stores agree on how a worker ended |
| Run mailbox (layers 3, 4, `message-check.ts`, `message-history.ts`) | runs, consumer generation, deliveries | bind, check, acknowledge, fence, reply, reset | agents waiting for messages | a consumer replaced while it waits; messages read outside their delivery | no acknowledged message is delivered again, none is lost |
| Mutation receipts (`runtime/rpc/orchestration-mutation-executor.ts`) | receipts, in-flight map | begin, complete, discard | wraps every mutating request | retries, concurrency, restarts | a retried request takes effect once |

### The rest of the daemon and the clients

| component | state and operations | hard behaviour | what would make it correct |
|---|---|---|---|
| Workspace event log (`events/log.ts`) | revision, listeners, a queue of actions run at a revision | subscribing while events arrive | a subscriber sees each later event once, in order |
| Runtime RPC call queue (`runtime-rpc-call-queue.ts`) | running and queued calls per peer | the limits of concurrent and background calls | limits kept, no call starved |
| Terminal multiplexing (`runtime/terminal-multiplex/`) | streams, unacknowledged bytes, snapshots | snapshots while output flows | a client's screen is a prefix of the output |
| Terminal session authority (`runtime/terminal-session-authority/`) | who is present, who holds the input floor | a phone disconnecting while it holds it | one writer at a time, the floor is released |
| Remote runtime connection (`remote-runtime/shared-control-*.ts`) | connection state, pending requests, subscriptions | reconnect with requests in flight | each request ends once |
| Mobile sessions (`mobile/`) | pairing codes, devices, message counters | reordered or repeated frames | a counter is never accepted twice |
| Rate-limit resume (`rate-limit-resume/`) | scheduled resumes | a restart around the reset time | each resume fires, at least once |
| PTYs, sessions, worktrees, persistence, updates, native messaging | processes, files | mostly I/O | |
| Extension, React client, iOS app, protocol package, CLI, APNs gateway | views, types, a stateless forwarder | | |

## Modules

```
TaskLease            abstract: what dispatching promises
   ^ implemented by
SupervisedWorker ---- extends --> TaskDispatch <-- extends ---- DispatchContext
   ^          ^                    (the store)                      ^      ^
   |          +---- Orchestration (both, one store) ----------------+      |
FederationRelay                                       CoordinatorDispatch -+
 (with the worker host)                                  ^ MCCoordinator
   v each direction implements
RelayChannel         abstract: what a direction of the relay promises

MutationReceipts <-- extends -- RunMailbox <-- MCRunMailbox
                                  v implements
                                MessageQueues   abstract: what the mailboxes promise
```

- **TaskDispatch** is the store: one operator per database operation, with the guard under
  which the code writes and exactly the columns it writes. It has no `Next` of its own. A
  dispatch id is its creation order (the code orders by `rowid`); a terminal stands for a
  handle with its pane and process; a capability is `none`, `live` or `revoked`.
- **SupervisedWorker** adds the requests: `startCall[d]` and `stopCall` say where a
  worker-start or worker-stop waits, `staleEpoch` which dispatches an earlier process
  created (`worker_dispatches.runtime_epoch`). Each action is the code between two awaits:
  `WorkerStart`, `WorkerAuthority`, `WorkerReady`, `WorkerStartFails`, `WorkerStartUnknown`
  for start; `WorkerStop`, `WorkerStopped`, `WorkerStoppedRemotely`, `WorkerStopSuperseded`,
  `WorkerStopUnconfirmed` for stop. `Restart` forgets the requests and keeps the store. Most
  operations here are transactions; `failDispatch` is two statements (layer 15, 145-156), so
  `DiesFailingDispatch` lets the daemon die between them at the exit of a terminal. The
  worker host is external: any answer its handler distinguishes may come.
- **DispatchContext** has the operations of dispatches without a supervised worker, and
  decision gates. They are not transactions in the code, so each has `...Torn` prefixes.
- **Orchestration** composes the two on one store: the dispatch command and its prompt
  (`injecting`), task-update, gates, a restart, and `DiesInside`, a crash between two
  statements of an operation.
- **CoordinatorDispatch** is the coordinator loop, with the snapshots `todo`, `slots`,
  `free` it holds across awaits. `orchestration.run`, its only entry, is refused at this
  commit (`orchestration/rpc-contract.ts:39`), so the loop is modelled as written on a
  store it does not share with the other commands. A gate may be resolved again after it was
  resolved, as neither `gates.ts:89` nor `resolveGate` asks for its status. `DiesInside` is a
  crash inside an operation of the loop, of an exit or of a gate command: a dispatch inserted
  without its task's update, a failed dispatch with its task still dispatched, a gate without
  its task, some of the blocked tasks. `Restart` and `DiesInside` leave the row of the run.
  **MCCoordinator** adds symmetry. **MCCoordinatorBreaker** fixes the order in which two tasks
  are created, the second depending on the first, and counts the gate-resolve commands; there
  the process dies only between runs, because a run whose process died takes no more steps.
- **TaskLease** is the abstract specification: a task is leased to one dispatch at a time,
  no lease is granted twice, only when the dependencies are done and the task is not, and
  only a holder makes a task done. `SupervisedWorker!Leases` is the refinement mapping: the
  holder is the active dispatch, done are the tasks with a completed dispatch.
- **FederationRelay** puts a modelled worker host in the place of SupervisedWorker's
  arbitrary one. Home side: the handlers of SupervisedWorker, taken over action by action,
  with the answers of `attach`, `stop` and `sync["direct"]` (worker-show) in place of any
  answer; the import cursor, the imported items, the items for the host, the relay timer.
  Host side: the attachment and its authority, the numbered `toHome` items with their quota
  (a full quota makes a report take the place of a heartbeat), what was imported, the
  receipts of relay calls. `sync[s]` says where `syncFederatedDispatch` waits: a pull, the
  loop over the pulled items, the acknowledgement, the import of the host's mail. A call may
  be refused, answered, lose its answer (`AnswerLost`), be given up and carried out later
  (`CallDelayed`, `LateCall`), or be cut by the host's death after some of its transactions
  (`HostDies`). Both daemons restart. `HomeIsSupervised` is the refinement: the home side is
  a behaviour of `SupervisedWorker!SafeSpec`.
- **RelayChannel** is the abstract specification of one direction of the relay: a window of
  numbered items, a receiver that is given each once and in order, a sender that forgets only
  what was received, and the replacement of a heartbeat when the window is full.
  `HomewardChannel` maps it to `toHome`, the imported items and `ackedHome`,
  `WorkerwardChannel` to `toWorker`, its items up to `hostCursor`, and `ackedWorker`; there
  nothing is replaced, and that the host stored those items and no others once is DeliveredOnce.
- **MutationReceipts** is the executor: `run` finds no receipt, leaves one and starts the
  handler; `Finish` completes or discards it. The two methods that start a worker
  (`Atomic`) get their receipt in the transaction that accepts the dispatch. Handlers are
  abstract.
- **RunMailbox** gives that executor the handlers of the mailbox: run-create, run-use, send,
  check and reply, with the consumer generation of a run, its deliveries and the message
  waiters. Two handlers mark messages read outside any delivery: a reply marks the message it
  answers (`message-history.ts:63`), whoever gives it, delivered or not, in any order; and a
  send whose report was accepted marks the earlier heartbeats of its dispatch (`Suppressed`,
  `suppressEarlierHeartbeats`). A heartbeat of an ended dispatch is stored as read.
  An answer may be lost (`Receive`), a completed request repeated (`Replay`), a pane reopen
  under a new handle, and the daemon die between receipt, effect and answer. A call, a
  message or the end of a wait is a task of the event loop and starts only when the
  continuations of the calls before it have run (`Settled`); these are free in their order.
  `handleOrchestrationReset` is what a reset of the scopes messages and all does here: the
  mailboxes are emptied, the deliveries deleted (their ids stay, as `deleted`, for whoever
  still holds one), and with `all` the runs are gone. A waiting check is not told of it.
- **MessageQueues** is the abstract specification of the mailboxes: per run a log, one reader,
  what is read, what it has acknowledged and the page it was given last. Messages may be
  settled aside of the pages, and are in no later page. `RunMailbox!Queues` maps the reader to
  the pane the run is bound to, the page to the messages of its outstanding delivery and `done`
  to those of the acknowledged ones. Receipts, generations, calls and waits have no counterpart.
  **MCRunMailbox** adds symmetry and the filters to RunMailbox.
- **DispatchContextProofs**, **SupervisedWorkerProofs**, **OrchestrationProofs**,
  **CoordinatorProofs**, **FederationRelayProofs** and **RunMailboxProofs** hold the theorems;
  **LeaseProofs** adds to SupervisedWorkerProofs the refinement of TaskLease (and
  FederationRelayProofs lifts both to the relay), **MailDeliveryProofs** to RunMailboxProofs
  what becomes of the deliveries and the refinement of MessageQueues.

Operators marked as a mutant or a bug (`RevokeForgotten`, `insertDispatchUnlocked`, ...) are
not used by any specification. Each is a definition with a plausible bug; putting it in place
of the definition below it makes TLC find the property it belongs to violated.

## Runs

| run | specification | bounds | distinct states | properties |
|---|---|---|---|---|
| MCWorkerDependencies | SupervisedWorker `Spec` | 2 tasks, 1 terminal, 2 dispatches | 95,740 | TypeOK, OneActiveDispatchPerTask, DispatchedTaskHasWorker, DispatchedAfterDependencies, NeverReactivated, ImplementsLeases, StartReachesReceipt, StopReachesReceipt |
| MCOrchestration | `OrchestrationSpec` | 1 task, 1 terminal, 2 dispatches, 1 gate, task-update to ready or completed | 525,774 | OrchestrationTypeOK, LiveCapabilityIsTrusted, SettledWorkerEndsDispatch, TransientStateHasOwner, OpenQuestionHasAuthority, ByHandRespectsTerminalLock, NeverActiveAgain |
| MCCoordinatorLoop | CoordinatorDispatch `SafeSpec` | 2 tasks, 2 terminals, 3 dispatches, 1 slot, 1 message, 1 gate, symmetry | 1,412,765 | TypeOK, SecondAgentOnlyAfterGate, ConcurrencyBound |
| MCCoordinatorBreaker | MCCoordinatorBreaker `BreakerSpec` | 2 tasks, the second depending on the first, 1 terminal, 7 dispatches, 1 slot, 1 message, 1 gate resolved once | 668,999 | AttemptsBounded, LoopConverges |
| MCFederationRelay | `RelaySpec` | 1 dispatch, syncs of the timer and of show or stop, heartbeats, quota 1, 2 items to home | 279,240 | RelayTypeOK, NoLiveRemoteAgent, ReportsAgree, ImportedOnceInOrder, HomewardIsChannel, RelayCatchesUp |
| MCFederationMail | `RelaySafeSpec` | 1 dispatch, syncs of the timer, a setup script, a question, quota 2, 1 item to home, 2 to the worker, 1 late call | 1,419,822 | DeliveredOnce, AnswerIsRecorded, WorkerwardIsChannel |
| MCRunMailbox | `MailboxSpec` | 2 requests, calls, runs, panes and message types, pages of 1, 2 messages, 2 deliveries (at most 1 when a reset comes), 3 generations, together 4 rows, symmetry | 730,885 | MailboxTypeOK, OneConsumer, AcknowledgedIsRead, AcknowledgedInOrder, NoLostWakeup, OneReceiver, SentOnce, OneHandlerPerRequest, InFlightIsJoined, CompletedReceiptStands, ImplementsQueues |
| MCTerminalLock, MCPromotion, MCBreakerCarry | SupervisedWorker `SafeSpec` | 1 or 2 tasks, 1 terminal, 2 dispatches | (violated) | one each, see below |
| MCRelayReport | `RelaySafeSpec` | as MCFederationRelay, syncs of the timer only | (violated) | AcceptedReportIsPending |
| MCReceipts | MutationReceipts `ReceiptsSpec` | 2 requests, 1 of them atomic, 2 calls | (violated) | AcceptanceIsRecorded |

The bounds are named constants: `MaxDispatch` (rows created in a behaviour), `MaxGate`,
`MaxInbox`, `UpdateStatus` (the statuses task-update is given), `MaxToHome`, `MaxToWorker`
(items numbered), `MaxLate` (calls on their way), `Sync` and `Chatter` (who syncs, what the
agent sends), `MaxMessages`, `MaxDeliveries`, `MaxGeneration` (totals over the store; messages and
generations count the deliveries a reset has deleted too), `MaxDeleted` (deliveries of the store when it is reset),
`MaxRows` (messages, generations and deleted deliveries together), `MaxResolve` (gate-resolve commands). Why
they are enough:

- two dispatches of a task are needed for anything stale (a late stop, exit or prompt
  failure of the first meeting the second); three let the breaker of `failDispatch` be met
  in the coordinator, which carries counts;
- one task suffices where the property speaks of a task and its dispatches; dependencies
  need two, the concurrency bound needs more ready tasks than slots, and a terminal taken
  twice needs one terminal;
- in MCCoordinatorBreaker a task is attempted three times and once more for the gate that was
  resolved. Two tasks, of which one has the gate, need seven dispatches, so the bound checked,
  not the model, stops the retries; the second task shows a child of a task that fails;
- one gate-resolve there: who resolves gates for ever keeps a task ready for ever, so
  convergence says nothing then. MCCoordinatorLoop, MCOrchestration and the theorems resolve
  them as often as they like;
- task-update to "completed" also ends the dispatch and to "ready" reopens the task; to any
  other status it only writes one that other operations write too;
- one federated dispatch suffices for the relay, since no row is shared between two. The
  quota is what makes a report replace a heartbeat: 1 here, 256 in the code. Two items are
  the least that a stale pull can mix up. The two relay runs divide the question: with the
  second sync, the direction home; with mail, a question and late calls, the direction to
  the host. The host's restart and cut calls are in both;
- in the mailbox two runs and two panes let a run change hands both ways, pages of one
  message let a delivery leave some behind, and three generations let a run be taken and
  taken back; with four rows these come in every combination but all at their limits at once
  (2 messages with 2 generations, or 1 with 3); a reset with one delivery shows a deleted delivery that is acknowledged, a
  check that waits for a deleted run, and a request whose receipt names what is gone;
- the theorems below have no bounds, for the properties they cover.

The coordinator runs allow one unread message. That lets an exit be counted twice, and lets an
escalation that arrives after a tick has read its messages be read in the next, when its task
has been dispatched again; `SecondAgentTheorem` and `AttemptsTheorem` have no bound on them.
Deadlock is checked in every run; a restart is always possible, so the systems never stop, and the
liveness runs are what says that requests go on.

What the properties say, and why they are not obvious:

- **OneActiveDispatchPerTask**: at most one active dispatch per task, its last one, and none
  while the task could be started. Ten operations write the statuses it relates. It holds
  for supervised workers alone, a crash inside `failDispatch` included. It does *not* hold in
  the coordinator, see SecondAgentOnlyAfterGate, nor in
  Orchestration: task-update can make a task ready while it is worked on, a gate resolved
  twice or two gates on a task do the same, a prompt failure reported late makes the task
  ready under the next dispatch, and a crash inside `createDispatchContext` leaves an active
  dispatch with a ready task. The properties of MCOrchestration are those the code keeps
  even then.
- **DispatchedTaskHasWorker**: the worker of the last dispatch of a task shown as dispatched is
  starting or ready, so worker-abandon is accepted and the task can be retried. One would like
  to say that this dispatch is active. It is, unless the daemon died between the two statements
  of `failDispatch`: then the dispatch has failed, its task stays `dispatched`, nothing repairs
  that at startup, and the property says only that a command by hand still can. The exception
  is a dispatch of an earlier process, on a terminal of this daemon.
- **NeverReactivated**, **NeverActiveAgain**: ended dispatches stay ended; with supervised
  workers alone a success stays a success, in the composition it may be rewritten
  (`failDispatch` has no guard).
- **LiveCapabilityIsTrusted**, **SettledWorkerEndsDispatch**, **OpenQuestionHasAuthority**:
  every path that ends a dispatch, stops its worker or stops trusting its start must revoke,
  end or close what belongs to it, whoever else changed it before. The question property is
  about local dispatches: `registerFederatedQuestion` does not look at the dispatch.
- **TransientStateHasOwner**: `starting` and `stopping` have a request that will leave them,
  or a stale epoch by which worker-show will. **StartReachesReceipt**, **StopReachesReceipt**
  are the liveness half.
- **ByHandRespectsTerminalLock**: two active dispatches share a terminal only if one is
  supervised; the part of the terminal lock that the code does keep.
- **DispatchedAfterDependencies**, **ImplementsLeases**: no dispatch before the dependencies
  were completed by a dispatch, and the refinement of TaskLease.
- **SecondAgentOnlyAfterGate**: in the coordinator two dispatches of a task are active together
  only if a gate of the task was resolved. A gate-resolve makes the task ready whoever works on
  it, so a second agent is then what the code does. Nothing else brings it about: no stale list
  of ready tasks, no stale escalation, no late prompt failure, and no crash. A crash inside
  `createDispatchContext` does leave an active dispatch with a ready task; but the row of that
  run stays `running`, and no later run starts.
- **ConcurrencyBound**: the loop counts slots once per tick and dispatches across awaits.
- **AttemptsBounded**: a task none of whose gates was resolved is dispatched at most three times,
  though exits are counted twice, a stale escalation fails a healthy retry, and a process may
  die between the two statements of `failDispatch`. Each gate-resolve, also a repeated one,
  makes ready a task that the breaker has failed, so for other tasks there is no bound.
- **LoopConverges**: if agents end and terminals can be had, a run either ends or is stuck again
  and again. Stuck means that no agent works, and each task that has not ended is blocked (a gate),
  pending (a failed dependency), or shown as dispatched without an active dispatch, left by a
  process that died inside `failDispatch` before this run. Such tasks count against
  `--max-concurrent`, and when they fill it, ready tasks wait as well. The property says that
  nothing else keeps a run going.
- **NoLiveRemoteAgent**, **ReportsAgree**: the report, the stop and the start's answer reach
  the home daemon by different calls, in any order or not at all. Still a dispatch that has
  ended at home has no agent on the host that may act (a retry would be a second agent), and
  home never takes for completed what the host does not. A dispatch abandoned by hand is the
  exception that the code announces.
- **ImportedOnceInOrder**, **HomewardIsChannel**: every item is imported once, in order,
  through repeated pulls and overlapping syncs, and the host forgets only what home has
  stored. The first is a state invariant, the second says it of the steps, by refinement of
  RelayChannel. Both name one exception, which is real: a report that took the place of a
  heartbeat already imported is behind the cursor and is never imported
  (`orchestration-db-layer-11.ts:93`). That what is acknowledged is imported
  (`AckedIsImported`) follows and is proved on its own.
- **DeliveredOnce**, **WorkerwardIsChannel**, **AnswerIsRecorded**: the same towards the host. A control message is
  stored once although the call may be cut between message and cursor and sent again, and
  the agent has no answer that its run does not have.
- **RelayCatchesUp**: while the timer runs for a worker, the cursor reaches the last item
  again and again, however many calls fail.
- **OneConsumer**, **OneReceiver**: a run has one consumer. A check that waited while the run
  was bound to another pane takes nothing (`message-check.ts:98`), a fenced delivery is not
  handed out, and the receipt of a repeated request hands no delivery to another pane.
- **AcknowledgedIsRead**: what an acknowledged delivery holds is read, and no other delivery that
  is acknowledged or open holds it: fencing, repeated checks and acknowledgements, and replies to
  messages of an open delivery never hand out again what was acknowledged. The converse is not
  true: a reply reads its message without a delivery, and one given by somebody else before the
  message was delivered keeps it from the coordinator.
- **AcknowledgedInOrder**: nothing unread lies before an acknowledged message, although a check
  that waits for one type skips the others and replies and reports read messages out of order.
- **ImplementsQueues**: the refinement of MessageQueues says this of the steps: a page is the
  first of what is left unread at that moment, a second one is given only with or after the
  acknowledgement of the first, and what a new reader does not find read it is given
  again.
- **NoLostWakeup**: no check sleeps while its run has a message it waits for.
- **SentOnce**, **OneHandlerPerRequest**, **InFlightIsJoined**, **CompletedReceiptStands**: a
  repeated request takes effect once and is told the same, over lost answers and restarts. The
  last is about the requests of the mailbox. `ask`, which is not among them, completes its own
  receipt early (`ask.ts:98`), and the executor overwrites it with the final answer (line 99).

## Fairness

`SupervisedWorker!Spec` has weak fairness of `StartStep(d)` and `StopStep(d)`, the steps of
a handler that has accepted a request: each await there is bounded by a timeout (60 s
readiness wait, 30 s and 75 s remote calls) or by the process it waits for, and one of its
continuations always follows. Nothing else is fair: no client has to call, no agent to
report, no daemon to restart. `CoordinatorDispatch!Spec` has weak fairness of the loop,
which is a timer and bounded calls. `LoopConverges` additionally *assumes*, in the property,
that agents end (by a report or an exit) and that terminals can be had; both are outside
the daemon.

`FederationRelay!RelaySpec` has weak fairness of the timer, which ticks each second, of
`SyncFails("timer")` (every relay call has a timeout of 15 s, so a sync does not wait for
ever) and of the loop over pulled items, which has no await. It has strong fairness of
`PullAnswered("timer")` and of the timer's import: of the pulls of a host that can be
reached again and again one gets through. Nothing is assumed of acknowledgements, of mail,
of attach and stop. `RelayCatchesUp` says nothing of a host that stays away, and its
premise is that the timer goes on running: after a restart it is started by the next show,
check, send or reply.

## Where the code and its comments disagree

1. `orchestration-db-layer-14.ts:27`: "lock on pane identity too, so a reminted handle can't
   open a second concurrent dispatch on the same pane". worker-start with `--terminal` does
   not take that lock (`worker/start.ts:135`). Run MCTerminalLock.
2. `orchestration-db-layer-6.ts:167`: "runs in the status-update transaction, so a completed
   task never leaves its ready children unpromoted". `createTask` (layer 6, line 54) makes a
   task with dependencies pending even if they are all completed. Run MCPromotion.
3. `orchestration-db-layer-14.ts:36`: "Carry forward failure_count so the circuit breaker
   accumulates across retries for the same task". `createStartingWorkerDispatch` (layer 7,
   line 94) starts from zero. Run MCBreakerCarry.
4. `orchestration-db-layer-13.ts:145`: a worker that a stop finds ended on its host becomes
   ready with `stage = 'remote_report_pending'`. There may be no report: the start was
   unknown at home and failed on the host. The task then waits until it is abandoned by hand.
   Run MCRelayReport.
5. `orchestration-db-layer-7.ts:41`: "already has a durable acceptance record". Of two calls
   of worker-start with one request id that run together, one that throws a plain error
   discards the pending receipt by request id
   (`runtime/rpc/orchestration-mutation-executor.ts:103`), and with it the acceptance
   record of the other. Run MCReceipts.

Not findings, since no comment says otherwise, but worth knowing:

- A worker's report can be lost in three ways: it replaced a heartbeat that home had
  imported but not yet acknowledged; it was imported while the worker was starting or
  stopping at home, and rejected; or it never existed (4 above).
- A setup status numbered after the report is not pulled once the worker has settled.
- After a host restart an attachment may stay `starting` or `stopping`: nothing there
  reconciles it.
- The request id of a relay call names only its last sequence number. An import repeated
  with an earlier first item is refused as a mismatch, and a receipt left pending by a crash
  makes the calls with that id fail until another item changes it. For an acknowledgement
  this also holds back the mail for the worker, which is sent after it.

## Proofs

The theorems hold for all sets `Task` and `Terminal` and all bounds, from the assumptions
on the constants only (`StoreAssumption`, `GateAssumption`, `UpdateAssumption`,
`CoordinatorAssumption`, `RelayAssumption`, `ReceiptAssumption`, `MailboxAssumption`: the
"no task", "no terminal", "no pane", "no run" values are not members, bounds are naturals, statuses
are statuses; for the loop, tasks are finitely many; in the mailbox no method starts a
worker).

**Supervised workers** (`SupervisedWorkerProofs`). Every action is a store operation with a
guard, or leaves the store alone (`SupervisedIsStoreStep`); so the proof is about
`StoreStep`, the store operations under the weakest guards their callers use, and lifts to
the specification once; `failDispatchTorn`, what a crash leaves of `failDispatch`, is one of these
operations. The inductive invariant is `StoreInv`: the types; settled workers
have ended dispatches, live capabilities trusted ones (together `AuthorityInv`); a dispatch
that exists has a worker row and a task past pending; a starting worker's dispatch is not
yet dispatched or completed; and one active dispatch per task. The last is not inductive
alone: `createStartingWorkerDispatch` retries on the word of a worker's state, and the stop,
abandon and reconciliation operations write the task through a dispatch, so the proof needs
the link from worker state to dispatch state. `DependenciesTheorem` adds that a task past
pending has its dependencies done, and that only a report makes a task completed.

**Leases** (`LeaseProofs`). That supervised dispatching implements TaskLease needs more: a
completed dispatch is never followed by another. A retry of one would need a task completed
while its worker was being stopped, and that needs the task shown as dispatched meanwhile,
which only an older dispatch on a worker host could do. Such a dispatch is never overtaken:
it ends only with its worker, since no terminal of this daemon can exit under it
(`RemoteInv`, `RemoteIsActive`). `LeaseInv` says this with the other facts the argument
needs: an unknown start is not yet dispatched, a task whose worker is being stopped is held,
a completed dispatch is the last of its task. None of it is broken by a crash inside
`failDispatch`. That the task such a crash leaves dispatched is still in reach
(`WorkedOnTheorem`) is proved from it: the worker row is not written by `failDispatch`, and only
the operations that settle a worker take the task out of `dispatched`, or a retry makes another
dispatch its last. The refinement maps the lease of a task to its active dispatch (`HolderFacts`: there
is one at most); each store operation is then a Declare, a Grant, a Return, a Complete or a
stutter.

**Composition** (`OrchestrationProofs`). Its invariant `SharedInv` drops what the commands by
hand destroy, keeps `AuthorityInv`, and adds that questions and federation rows belong to
existing dispatches. The by-hand operations write dispatches in three ways only (`HandOp`:
insert one, complete the last active one, fail one), so their torn prefixes need no case of
their own.

**Coordinator** (`CoordinatorProofs`). A resolved gate ends what can be said of a task, so the
invariant `ChainInv` speaks of the tasks none of whose gates was resolved. Of these an active
dispatch is the last one (`ActiveIsLatest`); the prompt being typed is for the last dispatch of
all, since its failure makes the task ready (`SendingIsLast`); the last dispatch carries the most
failures (`LatestCarriesFailures`, which is needed because a dispatch may be failed more than
once; `priorFailures` takes the maximum, `MostFailures`, so a new dispatch keeps it so); and each
attempt but one is paid for by a failure below the threshold (`AttemptsPaid`). What makes this
inductive is that a task that waits for a dispatch has no active one and has paid for all of its
attempts (`WaitingIsFree`). A process that dies inside `createDispatchContext` breaks exactly
that, and leaves an orphaned run, in which nothing is dispatched again; so the invariant has
`Orphaned \/ WaitingIsFree`. `SecondAgentTheorem` and `AttemptsTheorem` follow from it. The
concurrency bound needs `SlotsAreFree`: tasks dispatched plus slots still to be used never exceed
the maximum, though the slots were counted when the tick began. `OrphanedRunTheorem` says what
is left of a run whose process died: its row stays `running`, since nothing adopts it at
startup and another run is refused while it is there, and no step dispatches a task again.
`CoordinatorRun` alone leaves `phase = "off"`, and only `DispatchNext` adds a dispatched task
(`QuietRunning`). No run checks it, as it states a weakness (in a program whose
`orchestration.run` is refused anyway).

**Federation** (`FederationRelayProofs`). `HomeTheorem` proves the refinement: each step of
the relay is a step of `SupervisedWorker` or leaves the home rows alone, so the theorems
above hold with a modelled host too: `RelayOneActiveTheorem`, `RelayWorkedOnTheorem` and, since
refinements compose, `RelayLeaseTheorem` (the relay implements TaskLease). They are proved and
need no run. The relay's own
properties need an invariant over everything on its way. `StreamInv`: the imported items are
the host's prefix up to the cursor, and what a sync has pulled stands for the host's items
after the number it knows, also for a sync that is behind; an acknowledgement on its way
names no more than the cursor. `BoxInv`: the same for the items to the host and the
receipts of its calls, whose answers never promise more than the host's cursor. `CallsSound`:
late calls too ask for items that exist. For the two properties that relate the dispatch to
the attachment, `AttachInv`: an answer on its way (of attach-start, stop, show) says what the
attachment still is or may still become, a report among the items says how it ended; and
`EndsMatch`, that a worker ended at home, other than by abandon, has an ended attachment.
The one step where all meet is the import of a report, whose worker may have been started,
stopped or shown in between. The types (`RelayTypeTheorem`) follow from the first two
invariants, `MemoryType`, and `SyncSmall`: a sync carries no number over into its next.

That each direction implements RelayChannel (`HomewardTheorem`, `WorkerwardTheorem`) is
proved step by step from these invariants. A step of the host numbers an item, replaces a
heartbeat, or is a stutter (`HomewardSteps`, `HostStep`). The transfer is where the argument
lies: the receiver's store grows when a call is answered and the sender forgets when another
call is, in whatever order the calls come. Each of the two is a `Transfer(n, k)`, because what
a sync has pulled still stands for the numbered items after the cursor, a heartbeat
perhaps in the place of a report (`StreamInv`), and an acknowledgement on its way never names
more than the cursor. Towards the host one call may carry several items and be cut after any
of them, and the answer by which home forgets items may be that of an earlier call;
`AnswersKnown` and `ReceiptsSound` (parts of `BoxInv`) say that none promises more than
`hostCursor`, and `CallsSound` that a late call asks for no item that does not exist.

**Mailbox** (`RunMailboxProofs`). `MailInv` has five parts. `ExecutorInv`: a handler runs for
a pending receipt only, and no two for one. `SentInv`: a send counts once per request and
has not counted while its handler runs. `MailType`. `ConsumerInv`: outstanding deliveries and
waiting checks belong to the current generation of their run, one each. `WakeInv`: the
mailbox of a waiting check has nothing for it. Every handler step moves calls forward in
their stages and leaves receipts alone (`Moves`), which is proved once for the helpers that
change `op`; an acknowledgement, a reply or a report only marks messages read, the first also
closes deliveries (`LessUnread`, `Closes`). A check may also wait for a run that a reset has deleted; its id
is not used again while a check names it (`NewRun`: ids are random).

**Deliveries** (`MailDeliveryProofs`). `DeliveryInv` adds two parts. `Reading`: what an
acknowledged page holds is read (`AckedRead`), live pages share nothing (`Disjoint`), and
a page leaves nothing unread behind it (`Prefix`). Replies and reports keep the three, as they
only mark messages read. A page is a beginning of what is unread
(`PageFacts`, by the cardinality of what is below), and it is made only when no other is
open, so an acknowledgement cannot overlap it. `Holding`: whoever has been told of a
delivery, or is about to be (by an answer on its way or a receipt that a repeated request
will read), is one pane, and while the delivery is open that pane is the consumer of its run
(`HoldersInv`). That needs the checks under way: one that wakes up in the generation in which
it went to sleep still speaks for the consumer (`WayInv`). Binding a run anew closes its
delivery and leaves that generation behind, which is what fencing is for.

`QueuesTheorem` proves that the mailbox implements MessageQueues. A handler of check gives a
page, acknowledges one (with the next page given in the same transaction or not), or changes
no queue; a bind, of one run or of all the runs a pane had, hands queues over; a reset clears
them. What makes a page of the code the abstract `NextPage` is that the deliveries that are
not open hold only read messages (`Reading`), that one delivery at most is open per run
(`ConsumerInv`), and that the acknowledgement marks exactly its messages (`MarkReadFacts`). A
reply is a `Settle`, and a send with the heartbeats its report made old is a `Post`. A
check that wakes up gives a page only for the consumer of its run (`Holding`).

| theorem | states |
|---|---|
| `StoreInvariant` | the inductive invariant of supervised dispatching |
| `TypeCorrect`, `OneActiveTheorem`, `NeverReactivatedTheorem`, `DependenciesTheorem` | TypeOK, OneActiveDispatchPerTask, NeverReactivated, DispatchedAfterDependencies of SupervisedWorker |
| `LeaseInvariant`, `WorkedOnTheorem`, `LeaseTheorem` | the invariant of the leases; DispatchedTaskHasWorker and the refinement ImplementsLeases of SupervisedWorker |
| `OrchestrationInvariant` | the inductive invariant of the composition |
| `OrchestrationTypeCorrect`, `CapabilityTheorem`, `SettledTheorem`, `OwnerTheorem`, `QuestionTheorem`, `TerminalLockTheorem`, `NeverActiveAgainTheorem` | the seven properties of MCOrchestration |
| `ChainInvariant` | the inductive invariant of the coordinator loop |
| `CoordinatorTypeCorrect`, `SecondAgentTheorem`, `ConcurrencyTheorem`, `AttemptsTheorem` | TypeOK, SecondAgentOnlyAfterGate, ConcurrencyBound, AttemptsBounded of CoordinatorDispatch |
| `OrphanedRunTheorem` | a run whose process died never ends and dispatches nothing |
| `HomeTheorem`, `RelayOneActiveTheorem`, `RelayWorkedOnTheorem`, `RelayLeaseTheorem` | the home side of the relay is SupervisedWorker; OneActiveDispatchPerTask, DispatchedTaskHasWorker and ImplementsLeases of it |
| `HomewardTheorem`, `WorkerwardTheorem` | the refinements HomewardIsChannel and WorkerwardIsChannel |
| `RelayTypeTheorem`, `AckedIsImportedTheorem`, `ImportedTheorem`, `DeliveredTheorem`, `AnswerTheorem`, `NoLiveRemoteAgentTheorem`, `ReportsAgreeTheorem` | RelayTypeOK, AckedIsImported, ImportedOnceInOrder, DeliveredOnce, AnswerIsRecorded, NoLiveRemoteAgent, ReportsAgree |
| `OneHandlerTheorem`, `InFlightTheorem`, `SentOnceTheorem`, `OneConsumerTheorem`, `WakeupTheorem`, `CompletedTheorem` | OneHandlerPerRequest, InFlightIsJoined, SentOnce, OneConsumer, NoLostWakeup, CompletedReceiptStands |
| `DeliveryInvariant` | the inductive invariant of the deliveries |
| `MailboxTypeTheorem`, `AcknowledgedIsReadTheorem`, `AcknowledgedInOrderTheorem`, `OneReceiverTheorem` | MailboxTypeOK, AcknowledgedIsRead, AcknowledgedInOrder, OneReceiver |
| `QueuesTheorem` | the refinement ImplementsQueues |

Every safety property of a passing run is proved, the refinements included. Only model-checked: `StartReachesReceipt`,
`StopReachesReceipt`, `LoopConverges`, `RelayCatchesUp`: liveness under fairness, and
ENABLED, are beyond the prover. No module uses a RECURSIVE operator; nothing here is defined
by induction over data.

## What is not modelled

- Of orchestration reset, the deletion of tasks and dispatches (the scope tasks, and that half
  of all): a behaviour of the modules about them lies between two resets.
- Of messages: their text and conversions, the mailbox of a pane that is bound to no run,
  group addresses, heartbeat timestamps, and a crash between storing a local `worker_done`
  message and applying it. RunMailbox does not know dispatches: a send of type `worker_done` may
  find its report accepted or not, and reads any of the earlier heartbeats.
- The message a reply sends: it goes to the sender's handle. Only an answer to a reply that was
  given without `--from` comes back to a run (`from` is then `run:<id>`), and is stored and
  announced there as a send is. A reply to a
  question is in the other modules (`CoordinatorAnswer`, the relay's mail).
- Crashes inside operations that are not in a transaction, other than those of `DiesInside` and
  `DiesFailingDispatch`.
- Worktree creation and setup scripts inside worker-start, except that they may fail or
  leave the outcome unknown; `recordWorkerStage`, `updateWorkerSetupEvidence`,
  `recordRemoteAttachmentStage` and `updateFederatedDispatchResources`, which write texts.
- Of the relay: item bodies and their byte quota, peer identity, the receipts of attach-start
  and stop (home sends each once), the reading of a host's terminal output.
- Of the mailbox: `check --peek` without an acknowledgement and the history (they change
  nothing); `--run`, which only refuses more; a wait that times out and one whose caller
  hangs up are one action, `WaitEnds`.
- Request payloads in the executor: a call that reuses an id with other input is refused
  before it changes anything.
- Operations nobody calls: `failActiveDispatchForTask`, `timeoutGate`,
  `revokeDispatchCapability`.
- The components of the second inventory table. Most of the repository is clients, views,
  protocol types and process I/O, whose state is a copy of what the daemon owns.

## Plan

1. Done: store, supervised workers, commands by hand, coordinator loop, abstract leases;
   federation relay, run mailbox, mutation receipts, the abstract channel and queues; the
   theorems above.
2. Orchestration reset as an action of the store (the mailbox has it): it deletes dispatches
   under the requests that wait for them.
3. Terminal input floor, event log, RPC call queue, shared control connection, stream flow
   control, rate-limit resume: one small module each, as far as their state warrants.
