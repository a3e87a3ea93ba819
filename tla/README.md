# Formal model of the MiaoLink Gateway

TLA+ specifications of the Go Gateway in this repository and of the Node it
talks to (the independent fixture `internal/fakenode`), TLC configurations that
check them on small instances, and TLAPS proofs for every instance. Source paths
are relative to `src/`; "gateway/" is `internal/gateway/`, "fakenode" is
`internal/fakenode/node.go`.

## The system

A phone (mini program) sends commands over HTTP; the Gateway persists them in
PostgreSQL and forwards them over one WebSocket per Node; the Node executes them
natively, journals what it did, and sends a numbered stream of source events
back, which the Gateway commits and pushes to watching clients.

**Scheduling.** One mutex `s.mu` serialises HTTP handlers (server.go 245-291),
the handling of a frame (realtime.go 273-295), the writer's check-and-write of
one frame (realtime.go 94-111) and the one-second tick (maintenance.go 64-103).
Under the mutex a handler may still commit several transactions one after the
other; a crash, a cancelled context or a database error can fall between them.
Connection loss, the Node process and the database connection are outside the
mutex. The subscription loop and the identity provider call run without it.

### Inventory

| Component (files) | State | Operations | Interacts with | What is hard, what must hold |
|---|---|---|---|---|
| Remote command delivery (commands.go, realtime.go, store.go, maintenance.go, node.go) | `operations`, `command_outbox`, `nodes.connection_epoch`; registered peer with write queue | command, dispatch, failUnsent, finishOp, writer, acknowledge, expireOperations, recoverOperations, revokeNode | Node journal; session rows | crash between commits, uncertain writes, late receipts, replaced connections: recorded outcomes are true and final, nothing is executed twice |
| Node journal (fakenode) | `state.json`: journal, sessions, spool | command, command.query, load, save | Gateway socket | crash around the native call, failed saves: dedupe, honest receipts |
| Event ingestion and spool (node.go, fakenode) | `node_event_receipts`, `sessions.last_source_sequence`, `session_events`; spool | source, events.ack, replay, emitState, nodeReady, releaseUnstartedSync | command admission (readiness) | lost acknowledgements, replay, restarts: exactly once, in order; readiness fence |
| Session, turn, request, queue life cycle (node.go, commands.go) | `sessions`, `turns`, `interaction_requests`, queue items | sessionUpdate, requestCreate, requestCancel, queueMirror, rejectedEffects, acknowledge effects | ingestion, delivery | receipts and events on two paths: no illegal transition, no reopened request |
| Client feed (realtime.go, history.go) | watched cursors, `user_changes`, `session_events` | watch, pump, history pages | ingestion, every change | barrier against concurrent commits: no gap, no repeat; slow consumers |
| History, checkpoints (history.go, history_actions.go, resources.go) | `timeline_items`, checkpoints | projectItem, page, checkpoint, deleteHistory, importHistory | ingestion | late deltas, page boundaries, immutability |
| Maintenance and retention (maintenance.go) | all tables | purge statements | everything | order against foreign keys, dedupe records kept long enough |
| Login, enrolment, pairing (pairing.go) | tokens, enrolments, challenges, nodes | enrol, confirm, poll, challenge, prove | socket | one-time use under concurrency, expiry |
| Sharing (shares.go) | shares, grants | create, redeem, revoke, shared command | delivery | redemption and revocation races |
| Subscriptions (subscriptions.go) | consents, credits, notification outbox | grant, enqueue, deliver | maintenance, external API | send outside the mutex, crash between send and record |
| Device inventory (node.go) | `projects`, `agents`, accumulated frames | inventory | readiness, admission | several frames, quota, capability revision |
| Single-instance lease (server.go, maintenance.go) | advisory lock | New, loop, Close | everything | lost lock while handlers run |
| HTTP front end, rates (server.go, common.go, client_ip.go) | rate table | wrap, limit | all handlers | table at its limit |
| Profile, workspace, resources, identity provider, configuration, protocol schema, migrations | rows or none | reads, single-row updates | | no protocol state |

## Modules

| Module | Models | Run by |
|---|---|---|
| `OperationOutcome` | abstract: what the command path promises about each operation | (refined) |
| `CommandDelivery` | delivery of commands, Gateway and Node | `CommandDelivery.cfg`, `CommandLiveness.cfg` |
| `CommandDeliveryProofs` | theorems about `CommandDelivery` | tlapm |
| `EventLog` | abstract: what ingestion promises about each session's log | (refined) |
| `SourceIngest` | ingestion of source events, spool, readiness fence | `SourceIngest.cfg`, `SourceLiveness.cfg` |
| `SourceIngestProofs` | theorems about `SourceIngest` | tlapm |
| `SessionLifecycle` | session, turn, request and queue rows against the Node's own session | `SessionLifecycle.cfg`, `SessionReplay.cfg` |
| `SessionInvariants` | the two inductive invariants of `SessionLifecycle` | (extended) |
| `SessionLifecycleProofs` | theorems about `SessionLifecycle`; in its second half, about the replay of the spool | tlapm |
| `ClientFeed` | watch barrier, pump, pages, checkpoints and message projection, with the client | `ClientFeed.cfg` |
| `ClientFeedProofs` | theorems about `ClientFeed` | tlapm |
| `Retention` | maintenance(): what is forgotten and when, against the foreign keys | `Retention.cfg` |
| `RetentionProofs` | theorems about `Retention` | tlapm |
| `Lease` | the advisory lock: acquired, lost, noticed, given back | (extended) |
| `Failover` | `Lease` with the dispatch and the recovery of commands | `Failover.cfg` |
| `FailoverProofs` | theorems about `Failover` | tlapm |
| `Subscriptions` | `Lease` with consents, credits and the notification outbox | `Subscriptions.cfg` |
| `SubscriptionsProofs` | theorems about `Subscriptions` | tlapm |
| `Pairing` | enrolment, tickets, confirmation, challenges, tokens, revocation | (extended) |
| `Shares` | `Pairing` with shares of a session and shared commands | `MCShares.cfg` |
| `SharesProofs` | theorems about `Shares` and the pairing under it | tlapm |
| `MCShares` | `Shares` with its symmetry | `MCShares.cfg` |
| `Inventory` | the Node's directory in frames | `Inventory.cfg` |

The remaining configurations reproduce the documented divergences listed below
(*Known divergences*).

### CommandDelivery

State: per operation `opState` (operations.state), `outbox`
(command_outbox.state) and `opEpoch` (the node epoch in the command); the node's
`dbEpoch` and `revoked`; of the process, whether it is `up`, the registered peer
(`reg` is its epoch, `live` that it was not stopped, `ready`, `fresh` that it was
heard from within OfflineAfter, `queue`), and the HTTP handler that holds the
mutex between two commits (`busyOp`, `step`); on the other side the connection
`serve()` runs on, the frames in both directions, the journal in memory and on
disk, the operation `command()` is working on, and a ghost count of native
`calls`.

Actions follow the handlers. `command()` is `Submit` (admission transaction),
`DispatchIntent`/`DispatchTooLate` (the persisted intent, or failUnsent) and
`DispatchEnqueue`, because the process can die between those commits. The writer
is `WriterSend`, `WriterDrop` (an expired command is failed, not written) and
`WriterError` (the write failed; the bytes may have gone out). `socket()` is
`Connect`: `AskAbout` takes the `QueryLimit` oldest open operations (LIMIT 200) and,
since the error of that query is discarded, any part of them when the database
fails; `unasked` remembers what was left out. The tick asks about an operation at
its deadline (`ExpiryQuery`), but not about one that is reconciling already.
`acknowledge()` is split by its outcome: `AckRefused`, `AckOnFinal`, `AckFails`,
`AckUnknown`, `AckSucceeds`. `Expire` is one row of expireOperations, `Start` is
`New()` with recoverOperations, `Revoke` is revokeNode with
invalidateNodeOperations; the last two settle one row per transaction, so an
error may leave any subset settled. The Node's `command()` is `NodeReceive`
(dedupe, journal, receipt), `NodeReject`, `NodeExecute` (intent and native call)
and `NodeConfirm`; every save may fail when `DiskFaults` holds, and every send
may fail when the connection is broken.

Abstractions. The kind of a command and its effects on session, turn, request and
queue rows are left out: they are the subject of `SessionLifecycle`. The queue's byte budget is
folded into its capacity in frames. A transaction of `acknowledge` or
`expireOperations` that fails rolls back and leaves the row to the next report or
tick, which is the behaviour of not taking the action. Clocks are `late` and
`fresh`: a deadline or a silence may fall at any moment.

### SourceIngest

State: per session the state `op` of its create operation, `lastSource`, the
`log` and the `receipts` ledger; the peer's `needsSync`, `inventoried`, `ready`;
the Node's State (journal, sequence numbers, spool) as one record in memory and
one on disk; how far `serve()` is (`unsent` is what it has still to replay, then
snapshots, loop); the frames in both directions. The spool is a list in the code
and here the set of its events: an event never changes and is only appended, so
that the list is the set in the order of the identities, and `Replay` sends the
smallest. History variables: `mark` is the next event identity when the present
connection began; `missed` and `unasked` are what its reading of the database left
out of the fence and of the queries.

`socket()` is `Connect`: `ReadOnConnect` takes the fence (`ToSynchronise`) and the
open creates to ask about (`OpenCreates`). socket() passes over a row it cannot scan,
looks at no error after the last row and discards the error of the second query, so
that a database error leaves out any part of either; 200 older open operations of
other kinds leave out creates as well. `TickAsks` is the query of expireOperations
for a create that was left out; what else expiry does is CommandDelivery's.

`source()` is `Commit`, `Repeat` (the ledger knows the event; acknowledge again)
and `Conflict` (SOURCE_CONFLICT); a failing transaction is `DatabaseError`.
`nodeReady` sets `ready` before its own transaction and may then add an error
frame. `acknowledge` with releaseUnstartedSync is `TakeReport`/`RefuseReport`. On
the Node, `emit` numbers, spools, saves and transmits; `serve()` is `Replay`,
`BeginSync`, `Sync` and the loop (`Work`, `TakeCreate` ... `TakeAck`,
`ReadError`). Both processes can restart, connections can break at either end.

Abstractions. An event is its session, number, identity and whether it is a
node.session; its contents are taken to be acceptable to the projections (an
event that a projection refuses is a subject of `SessionLifecycle`). A
source event is one log entry; the events derived from it are not counted. The
inventory is the one complete frame of the fixture. Purged histories and closed
sessions are not modelled.

### SessionLifecycle

State: the rows of one session (`session`, `turns`, `op`, `request`, `queue`,
`consumed`); of the peer whether it is `connected`, `ready`, and `blocked` (an
event was refused, so that later ones do not continue the source sequence); the
Node's `native` Session (`working` says that its agent is running), its
`journal`, the operation `doing` that command() has confirmed and not yet carried
through, and the `spool`; the frames in both directions; which requests are
`overdue`. The `spool` is its uncommitted part. Of the committed events in front of
it only one thing matters, that the replay of a snapshot among them is acknowledged
again and opens remote control as any snapshot does (node.go:160-169, 229-232):
`unacked` says that there are such snapshots, `replaying` that they come first on
this connection, `TakeReplay` reads them, and `TakeAck` is the Node dropping them.
socket() is `Connect`; what an ignored database error leaves out of the fence and of
the queries may be anything, so that a connection may be ready from the start.

`command()` is `Create`, `Send`, `Enqueue`, `Cancel` and `Respond`, each with its
admission rules on the session's state and turn. failUnsent with rejectedEffects
is `Unsent`, or `TakeReceipt` with a negative receipt; `TakeReceipt` also applies
the effects of a confirmation (the queue mirror, the resolved request, the
cancelling turn). `source()` is `Ingest` (sessionUpdate with validTransition and
queueMirror, requestCreate, requestCancel) and `Refuse`: the first refused event
tells the Node, whose connection ends with it, and the events behind it no longer
continue the sequence, so that they are refused one by one. `Expire` is the
maintenance of requests. The Node's `command()` is `Reject`, `Execute` with
`Finish`, or `Interrupted`; `runTurn` and `complete` are `Ask`, `Complete` and
`CompleteOnly`.

Abstractions. An operation is open, confirmed or failed (its finer states are
CommandDelivery's); that an event is committed once and in order is SourceIngest's. A turn and a queue item have the
number of the operation that reserved them. `Send` stands for the native commands
that reserve a turn as well; resuming a closed session, capabilities and the
contents of requests and answers are left out. The fixture runs its script only
while it is connected and never withdraws a request or closes a session; the
protocol lets a Node do all three, so the agent here may work offline, `Withdraw`
and `Close` (external).

### ClientFeed

State: the session's `log` and `timeline`, the user's `revision` and the `floor`
below which changes are deleted, `purged`, a `checkpoint`; the client's `peer`
(watched revision and cursor, bounded write queue); the `phone` with what it has
applied. `appendEvent` and `change` are `AppendEvent` and `CommitChanges`; every
commit ends with `Pump`, as every handler does before it gives up the mutex, and so
does the `Tick`. `clientFrame` is `Watch` (refused as a whole, or registered at the
barrier with ready as its first frame) and `Unwatch`; `eventsPage`, `changesPage`,
`bootstrap`, `checkpoint` and `checkpointItems` are `PageEvents`/`PageGone`,
`PageChanges`, `Bootstrap`, `TakeCheckpoint` and `InstallCheckpoint`. A frame that
does not fit stops the peer (`Offer`). A read of pump() that fails, because the range
was deleted or by any error of the database, is reported and ends the watch, of
everything or of the session (`PumpChanges`, `PumpEvents`, `Pumps`). `projectItem` is `Project`, for messages,
checked against the reference definition `Says`: the last completion wins, nothing
after it counts, deltas are joined in order and cut once.

The client is not in this repository: `TakeAnswer`, `Recovered`, `TakeFrame` follow
the recovery procedure of docs/backend-design.md section 10 (external). Every ready
is a new barrier for the client, whatever its mode (`AtBarrier`): ready carries no
identifier of its watch, and neither do the errors of pump(), so that a client that
watches again after such an error may find the ready of an earlier watch first. A
client that takes only the first one drops the second, and with it the promise
of the changes between the two. That takes four revisions, more than `ClientFeed.cfg`
has; the proof, which has no bounds, asked for it.
One user, session and socket; a text is the sequence of events that wrote it.

### Retention

Rows are keys <<table, id>> in the set `rows`; `References` and `Cascade` are the
foreign keys of the migrations; rows that always go together (events, timeline,
diffs, checkpoints of a session) are one row. `sess` and `op` hold what the purge
conditions read: states, days since the end, payload, whether a reserved turn has
started. maintenance() is `Purge`, `Retire` and `Clear`; each deletes one session
per transaction, so an error leaves any subset done and ends the run, and
`Interrupted` is an error or a crash between them. A `Retire` whose statements the
foreign keys refuse (`RetireRefused`, statement by statement) ends the run as well.
Users and Nodes are `Create` to `Start`, with the admission rules that matter here;
`Day` is the clock.

### Lease, Failover, Subscriptions

`Lease` is the lock alone: `Acquire`, `Started`, `LoseLease` (the database ends the
connection, the process does not know), `Tick` (it finds out and drains), `Kill`,
`Close`. `Failover` adds what two instances do to one operation meanwhile:
admission, the conditional dispatching intent whose row count nobody reads, queue
and writer (`Write`, or `Drop` at the deadline), and on the other side
recoverOperations, which reads the open rows and then commits them one by one
(`RecoverRead`, `RecoverOne`). `NotSent` is failUnsent() of dispatch(): offline or too
late before the intent, a full queue after it. acknowledge() is `Acknowledge` (the
receipts of a command: delivered, then its end) and `Reconcile` (the answer to a query
of `AskAbout` or `Expire`). `begun` is what the Node is working on; when the connection
goes it may stop at a receipt that it cannot send (fakenode 508-515), and the entry
of a command in `cut` stays at delivered or executing, for which the answer is
delivered or unknown and leaves the operation open. `strays` remembers which
commands were written without the lock, `unasked` what the connection was not asked
about.

`Subscriptions` adds to the same lock consents with their credits, the outbox and
deliverSubscription in its three steps: `Reserve` (transaction under the mutex),
`Post` (outside it), `ClearCredits` and `Finish`. Meanwhile consent is withdrawn
(`Reject`), the Node revoked, the session purged or retired, the process killed or
the lease lost; `StartLoop` marks what was being sent as unknown, and may fail to.
`readable` says whether the identity fits the configured key, which a restart can
change and a login repairs. What WeChat answers is external.

### Pairing, Shares

`Pairing`: the rows of enrolments, tickets, nodes, challenges and tokens; handlers
are atomic under the mutex, deadlines pass at any moment (`LapseEnrolment`,
`LapseCredentials`). A machine may enrol the same key again, before or after its
Node was revoked. `Shares` adds the shares of a session; a shared command is split
at the one place where time counts: `SharedCommand` is authorizeShare on arrival,
`Admission` the condition of recordShareAdmission in the admitting transaction; no
other handler runs between them. Signatures, codes and links are taken to be
perfect; a Node has one session.

### Inventory

`Receive` is inventory() with its four ways out: over the quota, an earlier frame,
the last frame refused because a capability revision goes back, the last frame
applied and nodeReady(). `whole` in a frame is a ghost: all that its inventory lists.

## Runs

| Run | Result | What it shows |
|---|---|---|
| command_delivery | pass, about 2.4 million states | OutcomeTruth, FinalImmutable, NoStaleCommandOnWire, NothingWrittenAfterRevoke, refinement of OperationOutcome |
| command_liveness | pass, about 0.5 million states | EventuallyReconciled |
| source_ingest | pass, about 1 million states | OnlyCommittedIsDropped, FailedNeverStarted, ReadyMeansReported, with disk and database errors |
| source_liveness | pass, about 0.9 million states | refinement of EventLog while saves succeed; EventuallyIngested, EventuallyReady |
| session_lifecycle | pass, about 5.7 million states | OneTurnAtATime, QueuedIsKept, OneSuccessor, OneAnswer, OccupiedByOpenDecision, RefusedOnlyForCause, Converged |
| retention | pass | UnresolvedKept, HandoverKept, RefusedOnlyForCause, EventuallyForgotten |
| client_feed | pass, about 0.8 million states | BodyMatchesCursor, NoGapAtBarrier, AlwaysCatchesUp |
| subscriptions | pass, about 0.8 million states | PostedAtMostOnce, WithdrawnNeverPosted, OutcomeStays, EventuallyDecided |
| failover | pass, about 0.3 million states | FailedUnlessStray, EventuallySettled |
| access | pass, about 0.4 million states up to symmetry | OneIncarnation, EndedShareStays, NothingAdmittedAfterEnd |
| session_replay | violation | a request that expired in the spool is refused on every replay and blocks the session (docs/backend-design.md:92, 187) |
| inventory | violation | an inventory over the quota: its last frames are taken for all of it (docs/backend-design.md:185) |

**Known divergences.** Besides the two violation runs above, the models show where
the code departs from a sentence of its documents in smaller ways. Each is a property of
its module with a configuration of its own; `tlc -config X.cfg M` shows the steps.

| Configuration, module | Property | What happens |
|---|---|---|
| `CommandReconciling.cfg`, CommandDelivery | ReconcilingOnlySettles | acknowledge() (gateway/node.go:592) records a late delivered receipt on a reconciling operation and moves it back, which the diagram of docs/backend-design.md:79 does not have; the next tick repairs it |
| `CommandUnasked.cfg`, CommandDelivery | EveryReconcilingIsAsked | socket() discards the error of reading the open operations and takes 200 of them (gateway/realtime.go:225), and the tick does not ask about a reconciling one (gateway/maintenance.go:108): it stays open while the connection lasts (docs/backend-design.md:86) |
| `CommandDurability.cfg`, CommandDelivery | DeliveredIsDurable | after a failed save the journal entry is reported delivered from memory (fakenode 510; docs/node-contract.md:49) |
| `SourceDurability.cfg`, SourceIngest | DurableBeforeSent | after a failed save an event is transmitted before it is on disk (fakenode 459; docs/node-contract.md:51) |
| `SourceFence.cfg`, SourceIngest | ReadyMeansCaughtUp | an old replayed snapshot opens the fence before the spool is through (gateway/node.go:231; docs/backend-design.md:187) |
| `SourcePartialFence.cfg`, SourceIngest | ReadyMeansAllReported | socket() ignores the errors of reading the fence (gateway/realtime.go:217-223): remote control opens with a session unreported (docs/backend-design.md:187) |
| `SourceUnasked.cfg`, SourceIngest | NothingHoldsTheFence | an open create that the Node never saw and connect did not ask about keeps the fence closed (gateway/realtime.go:225; comment at gateway/realtime.go:207) |
| `SessionRequests.cfg`, SessionLifecycle | PendingIsCurrent | an answer that fails after its turn has ended makes the request pending again (gateway/commands.go:427; docs/backend-design.md:72, 146) |
| `FailoverStray.cfg`, Failover | FailedNeverReceived | dispatch() does not look at how many rows its dispatching update changed (gateway/commands.go:378): an instance that has lost the lock writes a command the next one has already failed as unsent (comment at gateway/maintenance.go:10; docs/backend-design.md:225) |
| `FailoverReopened.cfg`, Failover | FinalStays | finishOp() is unconditional: an instance that recovers what it has read, without the lock by now, reopens an operation that was failed meanwhile (gateway/maintenance.go:18, gateway/store.go:130; the final receipt is immutable, gateway/node.go:563) |
| `RetentionBlocked.cfg`, Retention | EverySessionForgotten | session_share_commands refers to operations without a cascade: the session of a shared command is never retired, and the refused statement ends every run before the rest of it (docs/backend-design.md:215) |

Two more were met without a configuration. The outbox row of a finished
projectHistory operation is never removed, so deleting old operations without a
session (gateway/maintenance.go:223) is refused from the day the first of them is due;
RefusedOnlyForCause names it. And the purge condition (gateway/maintenance.go:171)
looks at open operations and queued items only, so that a session whose send is
confirmed but whose turn the Node has not reported is purged like an idle one:
`AcceptedWorkKept` in Retention states the contrary.

**Refused events.** In `SessionLifecycle`, source() never skips an event, so one that is refused blocks
its session until the cause is gone. RefusedOnlyForCause says that an event of a
Node that keeps to the protocol is refused for these causes only; each of them
does happen, and the property fails without it.

* An expired request in the spool (node.go:474): permanent, the session_replay
  finding.
* `OfLostCancel`: the cancel was confirmed and the Gateway's turn is cancelling, but
  the connection went before the Node ended its turn (`LostCancel`). Its next
  snapshot says running, which is no transition from cancelling: refused on every
  connection. The replay of a committed snapshot may nevertheless open remote
  control; a second cancel is then admitted, and the Node ends the turn
  (`CancelledTwice`), but the snapshots reported in between stay refused.
* `StartedUnconfirmed`: a queued message started its turn before the Gateway had
  its confirmation (node.go:281). The snapshot is replayed before the journal is
  queried and refused; a query that follows confirms the operation, and the next
  connection goes through.
* `Leftover`: a request of an earlier turn is pending again (PendingIsCurrent
  above), and the snapshot that ends the present turn is refused with STALE_TURN
  (node.go:359) until the request expires.

**Bounds.** `MaxEpoch`, `MaxFaults` and `MaxEmitted` cap connections, faults and
spontaneous events. Two operations are needed for a query batch that leaves one
out (`QueryLimit` 1, in `CommandDelivery` and `Failover`) and for a queue with frames
of two commands (`QueueFrames` 2); three connections let a receipt, a query and a
command of different epochs meet; three faults cover a lost connection, a restart of each process and a disk
error in any order. In `SourceIngest` two sessions share one spool and one fence,
and two faults with three connections are what it takes to use a sequence number
twice (failed save, replay, restart). In `SessionLifecycle` three commands are a
create and two that compete (two sends, two queued messages, a cancel against a
queued message), one request is enough for its life cycle to meet any of them, and
two connections give one loss with replay. What these two bounds cut off is
covered by the proofs of `SessionLifecycleProofs`, which hold for every number of
commands and connections.
In `Retention` two sessions allow a parent with a child and one session that stands
in another's way, two operations a create with one message, answer, shared or
detached command after it; ages stop one day after the longest period, and identifiers are given out in
order. `ClientFeed` has queue, batch and page at their smallest (2, 1, 1), so that a
recovery takes several pages, a burst overflows the queue and a text is cut; the
invariant of its proof was also checked by hand with four revisions. In
`Subscriptions` and `Failover` two instances are the one that has lost the lock and the
one that has it; two users or two operations show that one does not hold
up the other. `MCShares` has one key enrolled twice by three users, a quota of one
share and two shares that follow each other. `Inventory` needs a quota below the
number of agents.

Deadlock is checked for `ClientFeed` only: elsewhere, when users stop
and the bounds are used up, the system rests.

**Fairness.** Weak fairness of the goroutines (handler, writer, reader), of the
tick, of the supervisor that starts the Gateway again, and of the Node's serve and
reconnect loops. No fault and no user action is fair. The liveness runs exclude
disk errors. Their exceptions are states that the code stays in:

* EventuallyReconciled and EventuallySettled except a reconciling operation that the
  present connection was not asked about (`Overlooked`): beyond the limit of 200,
  behind an ignored database error or, in `Failover`, recovered by an instance without
  the lock after the Node connected to another. An accepted or delivered one left out
  is asked about at its deadline, which both properties check (`QueryLimit` is 1).
* EventuallyReconciled asks nothing where the journal has no verdict (delivered,
  executing, unknown), and EventuallySettled nothing of what the Node was stopped
  in (`cut`), which comes to the same.
* EventuallyReady excepts a create stranded at delivered: the connection broke between
  the journal entry and the execution, the Node has no session to report and the
  Gateway may not call the operation unsent, so that the fence stays closed
  (docs/node-contract.md:11 accepts this). It excepts also an open create that the
  Node never saw and was not asked about (`Overlooked`).

`ClientFeed`: the tick (without a fault), the writer and a client that keeps to the
procedure are weakly fair; nothing makes it unwatch, watch twice or take a checkpoint. `Retention`:
strong fairness of the day and of an uninterrupted run of maintenance(), because a
single run may be interrupted and the next one starts over; EventuallyForgotten
excepts sessions behind a shared command (`Obstructed`). `Failover` and
`Subscriptions`: instances that stopped are started again, ticks, loops and handlers
run, a POST ends after its timeout of ten seconds; EventuallyDecided excepts rows of
a purged session, which wait for its retirement, and rows behind an identity that
cannot be decrypted (`Blocked`): the oldest eligible row is tried again and again
until that user logs in. `Shares` and `Inventory` have no liveness.

## Proofs

TLC checks the instances above; TLAPS proves the following for every value of the
constants that the named assumption admits. Every bound of the runs (operations,
connections, faults, instances, queue lengths) is a constant, so that the theorems
hold without them.

| Module | Theorem | Statement |
|---|---|---|
| `CommandDeliveryProofs` | TypeCorrect | `Spec => []TypeOK` |
| | Invariant | `Spec => []IInv` |
| | OutcomesAreTrue | `Spec => []OutcomeTruth` |
| | WireIsCurrent | `Spec => []NoStaleCommandOnWire` |
| | FinalStatesStay | `Spec => FinalImmutable` |
| | RevokedIsSilent | `Spec => NothingWrittenAfterRevoke` |
| | DeliveryImplementsPromise | `Spec => ImplementsPromise` |
| `SourceIngestProofs` | Invariant, TypesKept | `Spec => []IInv`, `Spec => []TypeOK` |
| | FailedIsBlank | `Spec => []FailedNeverStarted` |
| | FenceHolds | `Spec => []ReadyMeansReported` |
| | DiskKeepsUncommitted | `Spec => OnlyCommittedIsDropped` |
| | IngestionImplementsLog | `DiskFaults = FALSE => (Spec => ImplementsLog)` |
| `SessionLifecycleProofs` | Invariant, TypesKept | `Spec => []IInv`, `Spec => []TypeOK` |
| | TurnsOneAtATime | `Spec => []OneTurnAtATime` |
| | QueuedKept | `Spec => []QueuedIsKept` |
| | SuccessorOnce | `Spec => []OneSuccessor` |
| | AnsweredOnce | `Spec => []OneAnswer` |
| | OccupiedWhileOpen | `Spec => []OccupiedByOpenDecision` |
| | MirrorInvariant | `Spec => []MInv` |
| | MirrorConverges | `Spec => []Converged` |
| | RefusedForCause | `Spec => []RefusedOnlyForCause` |
| `ClientFeedProofs` | FeedInvariant, TypesKept | `Spec => []IInv`, `Spec => []TypeOK` |
| | BodyIsRight | `Spec => []BodyMatchesCursor` |
| | NoGap | `Spec => []NoGapAtBarrier` |
| `RetentionProofs` | Invariant, TypesKept | `Spec => []IInv`, `Spec => []TypeOK` |
| | UnresolvedIsKept | `Spec => []UnresolvedKept` |
| | HandoverIsKept | `Spec => []HandoverKept` |
| | RefusalsHaveACause | `Spec => []RefusedOnlyForCause` |
| `FailoverProofs` | Invariant | `Spec => []IInv` |
| | FailuresAreTrue | `Spec => []FailedUnlessStray` |
| `SubscriptionsProofs` | Invariant | `Spec => []IInv` |
| | NoSecondPost | `Spec => []PostedAtMostOnce` |
| | WithdrawnIsNotPosted | `Spec => WithdrawnNeverPosted` |
| | OutcomesStay | `Spec => OutcomeStays` |
| `SharesProofs` | Invariant | `Spec => []IInv` |
| | OneNodePerKey | `Spec => []OneIncarnation` |
| | EndedStays | `Spec => EndedShareStays` |
| | AdmittedWhileLive | `Spec => NothingAdmittedAfterEnd` |

Each proof has one lemma or step per action and one step per conjunct under it;
lemmas on sequences say what Append, Tail, removal and concatenation do to "occurs",
"occurs once" and "occurs before". A refinement is proved operation by operation, or
session by session: it says which step of the abstract specification a step is.

### CommandDelivery

Assumption: naturals, at least one operation and one query, and a queue longer than
the batch of queries. `OutcomeTruth` is not inductive: whether failing an operation
is right depends on where its command is. `IInv` follows a command along its
pipeline.

* *Control*: registry, connection and handler agree with each other: a handler
  exists only while its process and peer do, both ends of a connection name the
  same epoch, a revoked Node has no registered peer.
* *Pipeline*: a command is in at most one of handler, write queue and wire, at most
  once, and only on the connection of its epoch; on each channel a query about an
  operation never overtakes its command. This is why "not_seen" is evidence.
* *Untouched*: an operation whose command is still on its way, or was never handed
  to a writer, has neither a journal entry nor a native call.
* *JournalTruth*: journal and disk say no more and no less about the native call
  than happened; the disk may lag, but never behind the call's own entry.
* *ReportTruth*: a receipt on its way is still true when it is read.
* *RecordTruth*: what the database says follows from the above: "pending" was not
  handed over, "failed" will never be executed, "confirmed" was.

### SourceIngest

Assumption: finitely many sessions, natural bounds. The invariant holds with disk
errors, when a number may be given out twice.

* *Numbered*: an identity belongs to one event, and within what the present
  connection has or will have, order of emission is order of the numbers.
* *Ledger*: log, receipts and `lastSource` tell the same story.
* *DiskInMem*: what the disk has more than the memory was committed before. With it
  an acknowledgement may drop what it covers from both.
* *Arriving*: an event of the memory that is not in the log is still to be replayed,
  or on its way, or an error frame is, which ends the connection; and everything
  earlier of its session is committed or in front of it. This is why a new event
  always continues the sequence, and why refusing one cannot skip another.
* *Acks*: an acknowledgement the Node will read covers committed events only, or
  comes behind an error.
* *Creates*: as long as a create may still be refused (it is on its way, or a
  "not_seen" or "rejected" is) the Node has nothing of that session, in memory, on
  disk or on the wire. FailedNeverStarted follows.
* *Fence*: a session with events spooled when the connection began and no entry in
  the log is in `needsSync`, or in `missed`: socket() may have read any part of it.
  ReadyMeansReported follows, with that exception: it is a theorem about what the
  fence does for the sessions it was read of, not about the reading.

The refinement needs DiskFaults = FALSE: after a failed save and a restart a number
is given to another event, and the abstract log, which is of events in their order,
is not what the Node emitted. OnlyCommittedIsDropped holds in both cases.

### SessionLifecycle

Assumption: naturals, at least one command. Rows and Node do not agree at any one
moment, so the invariant says what each frame proves of the other side.

* *Commands*: a command on its way is open, has no journal entry, and no query or
  receipt of it is about; "rejected" and "not_seen" are on their way only for what
  was not executed, "confirmed" only for what was. So failed means not executed.
* *Snapshots*, *NodeSession*: turn and queue of the Node, and of every snapshot in
  the spool or on the wire, are operations it has executed. With the above the queue
  mirror cannot bring a failed message back.
* *QueueRows*: a queued message has a turn exactly if it was consumed, and is in the
  queue if it is confirmed and was not.
* *Decisions*: the open answer of a request and the row that it occupies point at
  each other; an open or unanswered request has failed answers only, and of two
  answers one has failed.
* *Serialised*, *Admissions*: one open control at a time, numbered in order.
* *Successors*: a turn that an executed send names has ended for the Node for good:
  it is neither its turn nor in its queue.
* *Line*: as long as nothing was refused, the events on a connection are the spool,
  in order, with receipts between them. Taking an event from the wire and from the
  spool is the same step.

`QueueWithout` in the model says Head and Tail where a filter would do as well: a
turn of the queue starts from its head only, and filters are opaque to the provers.

### SessionLifecycle: the replay of the spool

The invariant above does not say that events are accepted. `MInv`, inductive
together with `IInv`, adds the order of the events: the spool with the Node's session
behind it (`Trail`) is a `Path` of legal steps, and the first of them is a step from
the rows (`Shown`).

* *Paths*: each snapshot `Follows` the one before by a valid transition of the same
  turn or by the start of a new one; a turn that was left does not come back, one
  that is over is not revived, one that has begun is not queued again; a request
  stands between two snapshots of its turn. A committed event takes the first step
  off, a step of the Node puts one behind; repeating the last snapshot, as serve()
  does on every connection, keeps the path (`Reported1`).
* *Points*: a turn in any snapshot is the row's or one the rows do not know yet, and
  its queue has only turns that they do not know.
* *Levels*: the last thing reported is what the Node has, between two steps.
  Converged follows, with the exception that it names (a cancel cut off).
* *CancelledWork*, *CancelledRows*, *CutOff*: the rows and the Node learn of a cancel
  on two paths, so that the rows may be cancelling while the spool still says
  running: then the connection that lost the rest is gone, or the cancel was sent
  twice, or an expired request stands in front of it. Remote control may be open
  before the spool is through (`TakeReplay`), so that no step of the proof takes a
  command for impossible because events are still uncommitted.
* *KeptByNode*, *BeforeTurnEnds*, *BehindReceipt*: an executed queued message is in the
  Node's queue, in the rows, or in the queue of a snapshot that is still to come; a
  receipt overtaken by no snapshot was read before the snapshot that starts its turn.
* *RefusedHead*: what was refused on a connection stays refused on it, so that the
  events behind it are refused for the same cause.
* *Requested*, *Withdrawals*: a request is asked once and on a running turn, and a
  withdrawal comes behind its request.

RefusedOnlyForCause is read off the head of the spool (`HeadAccepted`, `HeadRead`):
it is a step from the rows, and the code accepts each such step but for the causes
listed under *Refused events*.

### ClientFeed

Assumption: natural bounds; queue, batch and page hold at least one. `IInv` is the
two properties themselves with what they rest on, since both are about numbers that
must not run ahead of what is committed.

* `PeerHolds`, `PhoneHolds`: cursors, bounds and every frame on its way name changes
  and events that exist; as long as the client wants the events, every ready has a
  high water for them.
* `Copies`: timeline, checkpoint and the client's items are what the log says up to
  their number (`Says`). One event keeps that (`Project` against `Says`, with the cut
  and a completion that comes before, in or after the deltas), appending to the
  log changes nothing behind; that a page of events keeps it is an induction over
  the page. A purge ends the Gateway's copy only.
* *GapFree* (NoGapAtBarrier, said of any client and peer): what is behind the last
  ready is what pump() sent since. A round of pump() puts the next numbers at the
  end in order (`Run`), or cuts the peer off and drops all (`Offer`): then the
  promise is void, because the peer is closed. A ready at the end takes over the
  promise from the watch, and what was on its way before no longer counts. The
  client that takes a frame moves its own number by the frame it removes.

Recursive functions and filters are opaque to the provers, but induction over data is
not out of reach where its range is in the naturals: `Induct` takes a set instead of
an operator and follows from the least number that is not in it (WFMin). `Walk` and
`Applied` (a page), and the batches of pump() go by it.

### Retention

Assumption: content is kept no longer than metadata, and so is the grace period.
`IInv` is the integrity of the foreign keys, table by table (*SessionRows*,
*OpRows*), what kind of command has which rows (*Kinds*), and *Reserved*: a confirmed
message whose turn has not started has its payload and, if queued, its item.
RefusedOnlyForCause follows case by case: a statement is refused only by a key that
neither goes before it nor cascades.

### Failover, Subscriptions, Shares

`Failover`: *OnePlace* (a command is in one handler or queue of one instance),
*PendingIsUntouched* (without a recorded intent it has not left its handler),
*HolderUndisturbed* (who holds the lock is the only one to fail what it holds, as
long as its connection to the Node stands) and *ReadBeforeStray* (a row that
recovery read as unsent and that reached the Node since came from an instance
without the lock). `Subscriptions`: *OneCourier* (a reserved row is in the hands of
one instance, is not pending and was not withdrawn; before its POST it has none) and
*PendingIsUntouched*. `Shares`: *Paired* (every Node is from one confirmed enrolment
of its key, counted), *SharesOfNodes* and *AdmittedOfRecipient*. Assumptions:
finite sets of operations, users, shares and client identities; `NoOne` is neither an
instance nor an operation; at least one credit.

### Only model-checked

Liveness and fairness are out of the prover's reach: EventuallyReconciled,
EventuallyIngested, EventuallyReady, EventuallyForgotten, AlwaysCatchesUp,
EventuallyDecided, EventuallySettled. Every safety invariant, action property and
refinement of the passing runs is proved (ImplementsLog where it holds, without disk
errors). The two violations are TLC's alone.

## Not modelled

Parts of modelled components that are left out: resuming a closed session; item
upserts, diffs, export and the organisation of sessions; shared reads; projects of
the inventory; user tokens. They are reads, or rows that no other step depends on,
or (projects) go the way of what is modelled. `announced` in `Inventory` has
no property: when the transaction of nodeReady() fails the Node is ready in memory
and the change is missing, and no document says what a client may conclude.

Left out for good: JSON schema validation and generated types, HTTP routing and the
rate table, configuration, the identity provider client, migrations, profile,
workspace and resource reads: input and output without protocol state.
