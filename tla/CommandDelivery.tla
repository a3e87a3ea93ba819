--------------------------- MODULE CommandDelivery ---------------------------
(***************************************************************************)
(* Delivery of remote commands from the Gateway to one Node: the           *)
(* operations and command_outbox rows, the registered node socket with its *)
(* epoch and bounded write queue, deadlines, the restart of either process *)
(* and the Node's command journal.                                         *)
(*                                                                         *)
(* The Gateway's mutex s.mu makes every handler atomic with respect to the *)
(* others; a handler that commits more than one transaction is split where *)
(* a crash or a database error can separate them (variable step).          *)
(* A connection is named by its epoch.                                     *)
(***************************************************************************)
EXTENDS Naturals, Sequences

CONSTANTS
  NumOps,        \* operations a user may submit, in order of created_at
  QueueFrames,   \* capacity of peer.queue (cfg.QueueFrames)
  QueryLimit,    \* LIMIT of the command.query batch sent on connect
  MaxEpoch,      \* bound: connections per behaviour
  MaxFaults,     \* bound: crashes, lost connections, database and disk errors
  DiskFaults     \* whether the Node's save() may fail

ASSUME ConstantsAssumption ==
  /\ NumOps \in Nat \ {0}
  /\ QueryLimit \in Nat \ {0}
  /\ QueueFrames \in Nat /\ QueueFrames > QueryLimit
  /\ MaxEpoch \in Nat
  /\ MaxFaults \in Nat
  /\ DiskFaults \in BOOLEAN

Ops  == 1..NumOps
NoOp == 0
None == 0        \* no connection

VARIABLES
  \* database
  opState,   \* operations.state ("none": no row)
  outbox,    \* command_outbox.state
  opEpoch,   \* command_outbox.node_epoch = nodeEpoch of the command
  dbEpoch,   \* nodes.connection_epoch
  revoked,   \* nodes.revoked_at is set
  \* Gateway process
  up,        \* the process holds the lease and serves
  reg,       \* s.nodes[nid]: epoch of the registered peer, or None
  live,      \* its context is not cancelled (stop() was not called)
  ready,     \* peer.ready
  fresh,     \* now - peer.lastSeen < OfflineAfter
  queue,     \* peer.queue
  unasked,   \* open operations socket() did not ask the Node about (history)
  busyOp,    \* operation whose HTTP handler holds s.mu between two commits
  step,      \* where that handler is
  \* network and Node process
  nodeConn,  \* epoch of the connection serve() runs on, or None
  toNode,    \* frames written and not yet read, on nodeConn
  toGw,      \* command.ack / command.status not yet read, on reg
  journal,   \* State.Journal in memory
  disk,      \* State.Journal in state.json
  execOp,    \* operation command() is working on
  calls,     \* native calls made for an operation
  \* environment
  late,      \* operations whose deadline_at has passed
  faults     \* faults so far

dbVars   == <<opState, outbox, opEpoch, dbEpoch, revoked>>
peerVars == <<reg, live, ready, fresh, queue, unasked>>
gwVars   == <<up, peerVars, busyOp, step>>
nodeVars == <<nodeConn, toNode, journal, disk, execOp, calls>>
vars     == <<dbVars, gwVars, nodeVars, toGw, late, faults>>

Open  == {"accepted", "delivered", "reconciling"}
Final == {"confirmed", "failed"}

Command(o) == [type |-> "command", op |-> o]
Query(o)   == [type |-> "query", op |-> o]
Error(o)   == [type |-> "error", op |-> o]
Frame      == [type : {"command", "query", "error"}, op : Ops]

Report == [kind : {"ack", "status"}, op : Ops,
           state : {"not_seen", "delivered", "unknown", "rejected", "confirmed"}]

Fault == faults < MaxFaults /\ faults' = faults + 1

Init ==
  /\ opState = [o \in Ops |-> "none"]
  /\ outbox = [o \in Ops |-> "none"]
  /\ opEpoch = [o \in Ops |-> 0]
  /\ dbEpoch = 0 /\ revoked = FALSE
  /\ up = TRUE /\ reg = None /\ live = FALSE /\ ready = FALSE /\ fresh = FALSE
  /\ queue = <<>> /\ unasked = {} /\ busyOp = NoOp /\ step = "idle"
  /\ nodeConn = None /\ toNode = <<>> /\ toGw = <<>>
  /\ journal = [o \in Ops |-> "none"]
  /\ disk = [o \in Ops |-> "none"]
  /\ execOp = NoOp
  /\ calls = [o \in Ops |-> 0]
  /\ late = {} /\ faults = 0

-----------------------------------------------------------------------------
(* Gateway helpers. *)

\* Server.online: registered, not stopped, synchronised, heard from lately.
Online == reg # None /\ live /\ ready /\ fresh

\* s.mu is free for a handler of the running process.
Mutex == up /\ step = "idle"

\* peer.enqueue on the registered peer: a full or closed queue stops it.
HasRoom == live /\ Len(queue) < QueueFrames
Enqueue(f) ==
  /\ queue' = IF HasRoom THEN Append(queue, f) ELSE queue
  /\ live' = HasRoom

\* failUnsent: one transaction, no condition on the present state.
FailUnsent(o) ==
  /\ opState' = [opState EXCEPT ![o] = "failed"]
  /\ outbox' = [outbox EXCEPT ![o] = "not_sent"]
  /\ UNCHANGED <<opEpoch, dbEpoch, revoked>>

FinishOp(o, state) == opState' = [opState EXCEPT ![o] = state]

\* A call whose database transaction may not commit.
OrDbError(commit) ==
  \/ commit /\ UNCHANGED faults
  \/ Fault /\ UNCHANGED dbVars

\* The registered peer and everything buffered for it are gone.
DropPeer ==
  /\ reg' = None /\ live' = FALSE /\ ready' = FALSE /\ fresh' = FALSE
  /\ queue' = <<>> /\ unasked' = {} /\ toGw' = <<>>

-----------------------------------------------------------------------------
(* HTTP handler command(): admission, then dispatch. *)

\* The admission transaction; a key already used returns the prior operation.
Submit(o) ==
  /\ Mutex /\ Online
  /\ opState[o] = "none" /\ \A p \in 1..(o - 1) : opState[p] # "none"
  /\ opState' = [opState EXCEPT ![o] = "accepted"]
  /\ outbox' = [outbox EXCEPT ![o] = "pending"]
  /\ opEpoch' = [opEpoch EXCEPT ![o] = reg]
  /\ busyOp' = o /\ step' = "intent"
  /\ UNCHANGED <<dbEpoch, revoked, up, peerVars, nodeVars, toGw, late, faults>>

HandlerEnds == busyOp' = NoOp /\ step' = "idle"

\* dispatch: persist the write intent, unless the command can no longer go.
DispatchIntent ==
  /\ step = "intent" /\ Online /\ busyOp \notin late
  /\ \/ /\ outbox' = [outbox EXCEPT ![busyOp] = "dispatching"]
        /\ step' = "enqueue"
        /\ UNCHANGED <<opState, opEpoch, dbEpoch, revoked, busyOp, faults>>
     \/ Fault /\ HandlerEnds /\ UNCHANGED dbVars
  /\ UNCHANGED <<up, peerVars, nodeVars, toGw, late>>

DispatchTooLate ==
  /\ step = "intent" /\ (~Online \/ busyOp \in late)
  /\ OrDbError(FailUnsent(busyOp)) /\ HandlerEnds
  /\ UNCHANGED <<up, peerVars, nodeVars, toGw, late>>

\* dispatch: hand the frame to the writer.
DispatchEnqueue ==
  /\ step = "enqueue" /\ HandlerEnds
  /\ Enqueue(Command(busyOp))
  /\ IF HasRoom THEN UNCHANGED <<dbVars, faults>>
                                  ELSE OrDbError(FailUnsent(busyOp))
  /\ UNCHANGED <<up, reg, ready, fresh, unasked, nodeVars, toGw, late>>

-----------------------------------------------------------------------------
(* The writer goroutine of the registered peer. *)

Unsendable(f) == f.type = "command" /\ (f.op \in late \/ ~Online)

WriterReady == Mutex /\ reg # None /\ live /\ queue # <<>>

\* A command that expired in the queue is failed without being written.
WriterDrop ==
  /\ WriterReady /\ Unsendable(Head(queue))
  /\ queue' = Tail(queue)
  /\ OrDbError(FailUnsent(Head(queue).op))
  /\ UNCHANGED <<up, reg, live, ready, fresh, unasked, busyOp, step, nodeVars, toGw, late>>

\* The bytes reach the Node only if it still reads this connection.
Written(f) == IF nodeConn = reg THEN Append(toNode, f) ELSE toNode

WriterSend ==
  /\ WriterReady /\ ~Unsendable(Head(queue))
  /\ queue' = Tail(queue)
  /\ toNode' = Written(Head(queue))
  /\ UNCHANGED <<dbVars, up, reg, live, ready, fresh, unasked, busyOp, step, nodeConn,
                 journal, disk, execOp, calls, toGw, late, faults>>

\* Mutated form: a failed write is taken for a command that was not sent.
WriterErrorFailsOp ==
  /\ WriterReady /\ ~Unsendable(Head(queue)) /\ Fault
  /\ queue' = Tail(queue) /\ live' = FALSE
  /\ toNode' \in {toNode, Written(Head(queue))}
  /\ FailUnsent(Head(queue).op)
  /\ UNCHANGED <<up, reg, ready, fresh, unasked, busyOp, step, nodeConn,
                 journal, disk, execOp, calls, toGw, late>>

\* conn.Write fails or times out; the frame may have gone out all the same.
WriterError ==
  /\ WriterReady /\ ~Unsendable(Head(queue)) /\ Fault
  /\ queue' = Tail(queue) /\ live' = FALSE
  /\ toNode' \in {toNode, Written(Head(queue))}
  /\ UNCHANGED <<dbVars, up, reg, ready, fresh, unasked, busyOp, step, nodeConn,
                 journal, disk, execOp, calls, toGw, late>>

-----------------------------------------------------------------------------
(* Connection life cycle in the Gateway. *)

OpenOps == {o \in Ops : opState[o] \in Open}

\* The queries of a new connection: the QueryLimit oldest open operations.
IsQueryBatch(ops, n) ==
  /\ \A i, j \in 1..n : i < j => ops[i] < ops[j]
  /\ \A o \in OpenOps : \/ \E i \in 1..n : ops[i] = o
                        \/ n = QueryLimit /\ \A i \in 1..n : ops[i] < o

\* Mutated form: the new peer inherits the queue of the one it replaces.
InheritedQueue(ops, n) == queue \o [i \in 1..n |-> Query(ops[i])]

\* The queue of a new peer holds its queries only.
InitialQueue(ops, n) == [i \in 1..n |-> Query(ops[i])]

\* The error of rowsJSON is not looked at: a database error leaves the batch
\* with its first k rows, or none, and the connection serves all the same.
AskAbout(ops, n, k) ==
  /\ IsQueryBatch(ops, n)
  /\ IF k = n THEN UNCHANGED faults ELSE Fault
  /\ queue' = InitialQueue(ops, k)
  /\ unasked' = OpenOps \ {ops[i] : i \in 1..k}

\* socket(): a new epoch replaces whatever was registered; the Node's serve()
\* has left its earlier connection.
Connect ==
  /\ Mutex /\ ~revoked /\ nodeConn = None /\ execOp = NoOp /\ dbEpoch < MaxEpoch
  /\ dbEpoch' = dbEpoch + 1
  /\ reg' = dbEpoch + 1 /\ live' = TRUE /\ ready' = FALSE /\ fresh' = TRUE
  /\ nodeConn' = dbEpoch + 1 /\ toNode' = <<>> /\ toGw' = <<>>
  /\ \E n \in 0..QueryLimit : \E ops \in [1..n -> OpenOps] : \E k \in 0..n :
       AskAbout(ops, n, k)
  /\ UNCHANGED <<opState, outbox, opEpoch, revoked, up, busyOp, step,
                 journal, disk, execOp, calls, late>>

\* nodeReady: inventory complete and every session synchronised.
BecomeReady ==
  /\ Mutex /\ reg # None /\ live /\ nodeConn = reg /\ ~ready
  /\ ready' = TRUE /\ fresh' = TRUE
  /\ UNCHANGED <<dbVars, up, reg, live, queue, unasked, busyOp, step, nodeVars, toGw, late, faults>>

\* The socket breaks or times out, or its authorisation ends: p.stop().
PeerStop ==
  /\ up /\ reg # None /\ live /\ Fault
  /\ live' = FALSE
  /\ UNCHANGED <<dbVars, up, reg, ready, fresh, queue, unasked, busyOp, step, nodeVars, toGw, late>>

\* No frame for OfflineAfter.
Silence ==
  /\ reg # None /\ live /\ fresh /\ Fault
  /\ fresh' = FALSE
  /\ UNCHANGED <<dbVars, up, reg, live, ready, queue, unasked, busyOp, step, nodeVars, toGw, late>>

\* loop(): a silent peer is stopped at the next tick.
TickStopsSilentPeer ==
  /\ Mutex /\ reg # None /\ live /\ ~fresh
  /\ live' = FALSE
  /\ UNCHANGED <<dbVars, up, reg, ready, fresh, queue, unasked, busyOp, step, nodeVars, toGw, late, faults>>

\* reader(): deferred removal of a stopped peer from the registry.
Unregister ==
  /\ Mutex /\ reg # None /\ ~live
  /\ DropPeer
  /\ UNCHANGED <<dbVars, up, busyOp, step, nodeVars, late, faults>>

-----------------------------------------------------------------------------
(* acknowledge(): the reader handles the oldest report of the registered peer. *)

HasReport == Mutex /\ reg # None /\ live /\ toGw # <<>>
TheReport == Head(toGw)

\* The reports the Gateway answers with an error frame: an acknowledgement of
\* a command of another epoch, a journal that lost a delivered command, and a
\* confirmation of an operation already recorded as failed.
Refused(m) ==
  \/ opState[m.op] \in Open /\ m.kind = "ack" /\ opEpoch[m.op] # reg
  \/ opState[m.op] \in Open /\ m.state = "not_seen" /\ outbox[m.op] = "delivered"
  \/ opState[m.op] = "failed" /\ m.state = "confirmed"

\* A stale acknowledgement also ends the connection, so the error frame queued
\* for it makes no difference.
AckRefused ==
  /\ HasReport /\ Refused(TheReport)
  /\ toGw' = Tail(toGw)
  /\ IF opState[TheReport.op] \in Open /\ TheReport.kind = "status"
       THEN FinishOp(TheReport.op, "reconciling") ELSE UNCHANGED opState
  /\ IF TheReport.kind = "ack" /\ opState[TheReport.op] \in Open
       THEN live' = FALSE /\ UNCHANGED queue
       ELSE Enqueue(Error(TheReport.op))
  /\ UNCHANGED <<outbox, opEpoch, dbEpoch, revoked, up, reg, ready, fresh, unasked, busyOp, step,
                 nodeVars, late, faults>>

\* The common part of a report handled without error.
Handled ==
  /\ HasReport /\ ~Refused(TheReport)
  /\ toGw' = Tail(toGw) /\ fresh' = TRUE
  /\ UNCHANGED <<opEpoch, dbEpoch, revoked, up, reg, live, ready, queue, unasked, busyOp, step,
                 nodeVars, late, faults>>

AckOnFinal ==
  /\ Handled /\ opState[TheReport.op] \notin Open
  /\ UNCHANGED <<opState, outbox>>

\* Node rejected the command, or its journal never saw it.
AckFails ==
  /\ Handled /\ opState[TheReport.op] \in Open
  /\ TheReport.state \in {"not_seen", "rejected"}
  /\ FailUnsent(TheReport.op)

AckUnknown ==
  /\ Handled /\ opState[TheReport.op] \in Open /\ TheReport.state = "unknown"
  /\ FinishOp(TheReport.op, "reconciling")
  /\ UNCHANGED outbox

AckSucceeds ==
  /\ Handled /\ opState[TheReport.op] \in Open
  /\ TheReport.state \in {"delivered", "confirmed"}
  /\ FinishOp(TheReport.op, TheReport.state)
  /\ outbox' = [outbox EXCEPT ![TheReport.op] = "delivered"]

-----------------------------------------------------------------------------
(* Deadlines, restart and revocation. *)

DeadlinePasses(o) ==
  /\ opState[o] \in Open /\ o \notin late
  /\ late' = late \union {o}
  /\ UNCHANGED <<dbVars, gwVars, nodeVars, toGw, faults>>

\* Mutated form: the tick selects every state but the one it sets.
ExpirableUnlessReconciling(o) == o \in late /\ opState[o] # "reconciling"

\* The rows expireOperations selects.
Expirable(o) == o \in late /\ opState[o] \in {"accepted", "delivered"}

\* Mutated form: the operation is only marked.
NoExpiryQuery(o) == UNCHANGED <<queue, live, unasked>>

\* An expired operation is queried if the Node is connected at all.
ExpiryQuery(o) == IF reg # None THEN Enqueue(Query(o)) /\ unasked' = unasked \ {o}
                                ELSE UNCHANGED <<queue, live, unasked>>

\* expireOperations, one row of the tick.
Expire(o) ==
  /\ Mutex /\ Expirable(o)
  /\ IF outbox[o] = "pending"
       THEN FailUnsent(o) /\ UNCHANGED <<queue, live, unasked>>
       ELSE /\ FinishOp(o, "reconciling")
            /\ outbox' = [outbox EXCEPT ![o] = IF @ = "delivered" THEN @ ELSE "uncertain"]
            /\ ExpiryQuery(o)
            /\ UNCHANGED <<opEpoch, dbEpoch, revoked>>
  /\ UNCHANGED <<up, reg, ready, fresh, busyOp, step, nodeVars, toGw, late, faults>>

\* The process dies (or Close stops it) between any two commits.
Crash ==
  /\ up /\ Fault
  /\ up' = FALSE /\ HandlerEnds /\ DropPeer
  /\ UNCHANGED <<dbVars, nodeVars, late>>

\* Mutated form: a persisted write intent is taken for an unsent command.
AbandonedBeforeAnswer(o) ==
  IF opState[o] \notin Open THEN opState[o]
  ELSE IF outbox[o] \in {"pending", "dispatching"} THEN "failed" ELSE "reconciling"

\* Mutated form: the outbox's word is written into operations.state.
AbandonedUncertain(o) ==
  IF opState[o] \notin Open THEN opState[o]
  ELSE IF outbox[o] = "pending" THEN "failed" ELSE "uncertain"

\* What becomes of an open operation nobody will dispatch any more.
Abandoned(o) == IF opState[o] \notin Open THEN opState[o]
                ELSE IF outbox[o] = "pending" THEN "failed" ELSE "reconciling"

\* recoverOperations has settled the rows of the operations done.
Recovered(done) ==
  /\ opState' = [o \in Ops |-> IF o \in done THEN Abandoned(o) ELSE opState[o]]
  /\ outbox' = [o \in Ops |->
       IF o \notin done \/ opState[o] \notin Open \/ outbox[o] = "delivered" THEN outbox[o]
       ELSE IF outbox[o] = "pending" THEN "not_sent" ELSE "uncertain"]

\* New(): lease, recoverOperations, then serving. One transaction settles one
\* row; an error part way makes New() fail and the process end.
Start ==
  /\ ~up
  /\ \/ up' = TRUE /\ Recovered(Ops) /\ UNCHANGED faults
     \/ \E done \in SUBSET Ops : Recovered(done) /\ UNCHANGED up /\ Fault
  /\ UNCHANGED <<opEpoch, dbEpoch, revoked, peerVars, busyOp, step, nodeVars, toGw, late>>

\* Mutated form: revocation leaves the registered peer alone.
RevokeKeepsPeer ==
  /\ Mutex /\ ~revoked
  /\ revoked' = TRUE /\ dbEpoch' = dbEpoch + 1
  /\ UNCHANGED <<opState, outbox, opEpoch, gwVars, nodeVars, toGw, late, faults>>

\* invalidateNodeOperations has settled the rows of the operations done.
Invalidated(done) ==
  /\ opState' = [o \in Ops |-> IF o \in done THEN Abandoned(o) ELSE opState[o]]
  /\ outbox' = [o \in Ops |-> IF o \in done /\ opState[o] \in Open /\ outbox[o] = "pending"
                                THEN "not_sent" ELSE outbox[o]]

\* revokeNode: credentials end, the peer is dropped, then the open operations
\* are settled one transaction at a time; an error or a crash leaves the rest.
Revoke ==
  /\ Mutex /\ ~revoked
  /\ revoked' = TRUE /\ dbEpoch' = dbEpoch + 1
  /\ DropPeer
  /\ \/ Invalidated(Ops) /\ UNCHANGED <<up, faults>>
     \/ \E done \in SUBSET Ops : Invalidated(done) /\ up' \in BOOLEAN /\ Fault
  /\ UNCHANGED <<opEpoch, busyOp, step, nodeVars, late>>

-----------------------------------------------------------------------------
(* The Node. *)

\* Journal.State as receipt() and the query handler report it.
ReportOf(j) == CASE j = "none" -> "not_seen"
                 [] j = "executing" -> "unknown"
                 [] OTHER -> j

Reported(kind, o, j) == [kind |-> kind, op |-> o, state |-> ReportOf(j)]

\* A receipt reaches the Gateway only on the connection it still serves.
Sent(m) == IF nodeConn = reg THEN Append(toGw, m) ELSE toGw

\* serve() returns: what the connection still held is lost to the Node.
HangUp == nodeConn' = None /\ toNode' = <<>> /\ execOp' = NoOp

\* The other end has closed the connection.
Broken == nodeConn # reg \/ ~live

\* A write on the connection fails: it is broken, or breaks now.
SendFails == (Broken /\ UNCHANGED faults) \/ Fault

\* save() the journal j, then send receipt m; a failure of either ends serve().
\* Otherwise command() goes on with operation o, and rest is what is left to read.
SaveAndAck(j, m, o, rest) ==
  /\ journal' = j
  /\ \/ /\ disk' = j /\ toGw' = Sent(m) /\ execOp' = o
        /\ toNode' = rest /\ UNCHANGED <<nodeConn, faults>>
     \/ disk' = j /\ SendFails /\ HangUp /\ UNCHANGED toGw
     \/ DiskFaults /\ Fault /\ HangUp /\ UNCHANGED <<disk, toGw>>

NodeReads(type) == nodeConn # None /\ execOp = NoOp /\ toNode # <<>> /\ Head(toNode).type = type

\* command(): the deduplicating entry. A known operation only gets its receipt.
NodeReceive ==
  /\ NodeReads("command")
  /\ LET o == Head(toNode).op IN
       IF journal[o] # "none"
         THEN /\ toNode' = Tail(toNode) /\ toGw' = Sent(Reported("ack", o, journal[o]))
              /\ UNCHANGED <<nodeConn, journal, disk, execOp, faults>>
         ELSE SaveAndAck([journal EXCEPT ![o] = "delivered"],
                         Reported("ack", o, "delivered"), o, Tail(toNode))
  /\ UNCHANGED <<dbVars, gwVars, calls, late>>

\* command(): deadline, epoch, turn or capability precondition fails.
NodeReject ==
  /\ execOp # NoOp /\ journal[execOp] = "delivered"
  /\ SaveAndAck([journal EXCEPT ![execOp] = "rejected"],
                Reported("ack", execOp, "rejected"), NoOp, toNode)
  /\ UNCHANGED <<dbVars, gwVars, calls, late>>

\* command(): the intent is saved around the native call; a failing save or the
\* injected fault after it ends serve() with the entry left executing.
NodeExecute ==
  /\ execOp # NoOp /\ journal[execOp] = "delivered"
  /\ opEpoch[execOp] = nodeConn
  /\ journal' = [journal EXCEPT ![execOp] = "executing"]
  /\ calls' = [calls EXCEPT ![execOp] = @ + 1]
  /\ \/ disk' = journal' /\ UNCHANGED <<nodeConn, toNode, execOp, faults>>
     \/ disk' = journal' /\ Fault /\ HangUp
     \/ DiskFaults /\ Fault /\ HangUp /\ UNCHANGED disk
  /\ UNCHANGED <<dbVars, gwVars, toGw, late>>

NodeConfirm ==
  /\ execOp # NoOp /\ journal[execOp] = "executing"
  /\ SaveAndAck([journal EXCEPT ![execOp] = "confirmed"],
                Reported("ack", execOp, "confirmed"), NoOp, toNode)
  /\ UNCHANGED <<dbVars, gwVars, calls, late>>

\* command.query reads the journal and never executes.
NodeAnswersQuery ==
  /\ NodeReads("query")
  /\ toNode' = Tail(toNode)
  /\ toGw' = Sent(Reported("status", Head(toNode).op, journal[Head(toNode).op]))
  /\ UNCHANGED <<dbVars, gwVars, nodeConn, journal, disk, execOp, calls, late, faults>>

\* An error frame makes serve() return.
NodeReadsError ==
  /\ NodeReads("error") /\ HangUp
  /\ UNCHANGED <<dbVars, gwVars, toGw, journal, disk, calls, late, faults>>

\* serve() notices that the connection has ended, or loses it.
NodeHangsUp ==
  /\ nodeConn # None /\ execOp = NoOp /\ Broken /\ HangUp
  /\ UNCHANGED <<dbVars, gwVars, toGw, journal, disk, calls, late, faults>>

NodeLosesConnection ==
  /\ nodeConn # None /\ execOp = NoOp /\ Fault /\ HangUp
  /\ UNCHANGED <<dbVars, gwVars, toGw, journal, disk, calls, late>>

\* The process dies anywhere; load() reads state.json back.
Reloaded == [o \in Ops |-> IF disk[o] = "executing" THEN "unknown" ELSE disk[o]]

NodeRestart ==
  /\ Fault /\ HangUp
  /\ journal' = Reloaded /\ disk' = Reloaded
  /\ UNCHANGED <<dbVars, gwVars, toGw, calls, late>>

-----------------------------------------------------------------------------
Dispatch == DispatchIntent \/ DispatchTooLate \/ DispatchEnqueue
Writer   == WriterDrop \/ WriterSend \/ WriterError
Acknowledge == AckRefused \/ AckOnFinal \/ AckFails \/ AckUnknown \/ AckSucceeds
NodeCommand == NodeReceive \/ NodeReject \/ NodeExecute \/ NodeConfirm

Next ==
  \/ \E o \in Ops : Submit(o) \/ DeadlinePasses(o) \/ Expire(o)
  \/ DispatchIntent \/ DispatchTooLate \/ DispatchEnqueue
  \/ WriterDrop \/ WriterSend \/ WriterError
  \/ Connect \/ BecomeReady \/ PeerStop \/ Silence \/ TickStopsSilentPeer \/ Unregister
  \/ AckRefused \/ AckOnFinal \/ AckFails \/ AckUnknown \/ AckSucceeds
  \/ Crash \/ Start \/ Revoke
  \/ NodeReceive \/ NodeReject \/ NodeExecute \/ NodeConfirm
  \/ NodeAnswersQuery \/ NodeReadsError \/ NodeHangsUp \/ NodeLosesConnection \/ NodeRestart

Spec == Init /\ [][Next]_vars

\* Every goroutine, the one-second tick, the supervisor that restarts the
\* Gateway and the Node's reconnect loop keep running; faults are not fair.
Fairness ==
  /\ WF_vars(Dispatch) /\ WF_vars(Writer) /\ WF_vars(Acknowledge)
  /\ WF_vars(Connect) /\ WF_vars(BecomeReady) /\ WF_vars(Unregister)
  /\ WF_vars(TickStopsSilentPeer) /\ WF_vars(Start)
  /\ \A o \in Ops : WF_vars(DeadlinePasses(o)) /\ WF_vars(Expire(o))
  /\ WF_vars(NodeCommand) /\ WF_vars(NodeAnswersQuery)
  /\ WF_vars(NodeReadsError) /\ WF_vars(NodeHangsUp)

FairSpec == Spec /\ Fairness

-----------------------------------------------------------------------------
(* Properties. *)

FlagsOK ==
  /\ revoked \in BOOLEAN /\ up \in BOOLEAN
  /\ live \in BOOLEAN /\ ready \in BOOLEAN /\ fresh \in BOOLEAN

JournalStates == {"none", "delivered", "executing", "unknown", "rejected", "confirmed"}

DataOK ==
  /\ opState \in [Ops -> Open \union Final \union {"none"}]
  /\ outbox \in [Ops -> {"none", "pending", "dispatching", "delivered", "uncertain", "not_sent"}]
  /\ opEpoch \in [Ops -> Nat] /\ dbEpoch \in Nat
  /\ reg \in Nat /\ queue \in Seq(Frame) /\ unasked \subseteq Ops
  /\ busyOp \in Ops \union {NoOp} /\ step \in {"idle", "intent", "enqueue"}
  /\ step # "idle" => busyOp \in Ops
  /\ nodeConn \in Nat /\ toNode \in Seq(Frame) /\ toGw \in Seq(Report)
  /\ journal \in [Ops -> JournalStates] /\ disk \in [Ops -> JournalStates]
  /\ execOp \in Ops \union {NoOp} /\ calls \in [Ops -> Nat]
  /\ late \subseteq Ops /\ faults \in Nat

\* Every variable keeps its type; a handler that holds s.mu works on an operation.
TypeOK == FlagsOK /\ DataOK

\* The recorded outcome is true: a failed operation was never executed
\* natively, a confirmed one exactly once, and no operation twice, whatever
\* crashed, was lost or was answered late (backend-design section 4: "failed:
\* there is certain evidence it was not executed").
OutcomeTruth ==
  \A o \in Ops : /\ calls[o] <= 1
                 /\ opState[o] = "failed" => calls[o] = 0
                 /\ opState[o] = "confirmed" => calls[o] = 1

\* A final state is never revised: finishOp and failUnsent update without
\* looking at the state, so every caller must come too early for a final one.
FinalImmutable ==
  [][\A o \in Ops : opState[o] \in Final => opState'[o] = opState[o]]_vars

\* A command is only ever on the wire of the connection it was accepted on:
\* nothing queued for a replaced peer is written to its successor.
NoStaleCommandOnWire ==
  \A i \in DOMAIN toNode : toNode[i].type = "command" => opEpoch[toNode[i].op] = nodeConn

\* After revokeNode nothing more is written to the Node ("revoke ... cannot
\* race an old queued write", realtime.go:93).
NothingWrittenAfterRevoke ==
  [][revoked => Len(toNode') <= Len(toNode)]_vars

\* The operation has come to rest: final, or the journal itself has no verdict.
Undecided == {"delivered", "executing", "unknown"}
Settled(o) == \/ opState[o] \in Final \union {"none"}
              \/ journal[o] \in Undecided
              \/ revoked

\* A reconciling operation the present connection was not asked about: socket()
\* lost the error of its query, or there were QueryLimit older ones, and the tick
\* takes accepted and delivered operations only.
Overlooked(o) == opState[o] = "reconciling" /\ o \in unasked

\* Once faults stop, every open operation the journal can decide is decided by
\* the queries sent on connect and on expiry, unless it is overlooked: an open
\* one left out on connect is still asked about when its deadline passes.
EventuallyReconciled == \A o \in Ops : []<>(Settled(o) \/ Overlooked(o))

\* backend-design.md section 4: the journal must be queried about a reconciling
\* operation. On a connection that serves it would then not stay open.
EveryReconcilingIsAsked == \A o \in Ops : []<>Settled(o)

\* backend-design.md section 4: a reconciling operation only becomes confirmed
\* or failed.
ReconcilingOnlySettles ==
  [][\A o \in Ops : opState[o] = "reconciling" => opState'[o] \in {"reconciling"} \union Final]_vars

\* node-contract.md section 4: a command is reported as delivered only after the
\* journal entry is on disk.
DeliveredIsDurable == \A o \in Ops : outbox[o] = "delivered" => disk[o] # "none"

-----------------------------------------------------------------------------
(* Refinement. *)

OutcomeOf(state) == IF state \in Open THEN "open" ELSE state
Promise == INSTANCE OperationOutcome
             WITH outcome <- [o \in Ops |-> OutcomeOf(opState[o])],
                  executed <- [o \in Ops |-> calls[o] > 0]

\* The delivery protocol implements the promise of OperationOutcome.
ImplementsPromise == Promise!Spec
=============================================================================
