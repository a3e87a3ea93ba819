---------------------------- MODULE SourceIngest ----------------------------
(***************************************************************************)
(* The way of a Node's source events into the Gateway's session log: the   *)
(* Node's numbered spool in memory and on disk, its replay on every new    *)
(* connection, the Gateway's receipts ledger and cumulative events.ack,    *)
(* and the readiness fence that holds back remote control until every      *)
(* session has been synchronised or is known never to have started.        *)
(*                                                                         *)
(* The create command of a session is CommandDelivery's subject; it is     *)
(* here only as far as the fence depends on it. What an event says is      *)
(* abstracted: it either carries a state snapshot of its session or not,   *)
(* and its contents are acceptable to the projections. The Node opens a    *)
(* connection only after leaving the previous one, so when both ends       *)
(* believe in a connection it is the same one.                             *)
(***************************************************************************)
EXTENDS Naturals, FiniteSets, Sequences, SequencesExt

CONSTANTS
  Sessions,      \* sessions a user may create
  MaxEpoch,      \* bound: connections per behaviour
  MaxEmitted,    \* bound: events besides the snapshots of a new connection
  MaxFaults,     \* bound: lost connections, restarts, database and disk errors
  DiskFaults     \* whether the Node's save() may fail

ASSUME ConstantsAssumption ==
  /\ IsFiniteSet(Sessions) /\ DiskFaults \in BOOLEAN
  /\ MaxEpoch \in Nat /\ MaxEmitted \in Nat /\ MaxFaults \in Nat

VARIABLES
  \* database
  op,           \* op[s]: operations row of the create command of s
  lastSource,   \* sessions.last_source_sequence
  log,          \* session_events: identities of the source events committed
  receipts,     \* node_event_receipts
  \* Gateway process: the registered peer
  registered, needsSync, inventoried, ready,
  missed,       \* sessions the reading of the fence left out (history)
  unasked,      \* open creates its queries left out and the tick did not add (history)
  \* Node process
  connected,    \* serve() is running
  unsent,       \* spool events serve() has still to replay
  syncing,      \* serve() is past the replay
  todo,         \* sessions whose snapshot serve() has still to emit
  busy,         \* sessions whose create command() is working on (at most one)
  mem,          \* State in memory: journal, sequence numbers, spool (a list there,
                \* here the set of its events, ordered by their ids)
  disk,         \* State in state.json
  \* frames not yet read
  toGw, toNode,
  \* environment
  epoch,        \* connections so far
  nextId,       \* the next sourceEventId
  mark,         \* nextId when the present connection began
  emits,        \* events emitted besides the snapshots of a new connection
  faults

dbVars   == <<op, lastSource, log, receipts>>
peerVars == <<registered, needsSync, inventoried, ready, missed, unasked>>
nodeVars == <<connected, unsent, syncing, todo, busy, mem, disk>>
envVars  == <<epoch, nextId, mark, emits, faults>>
vars     == <<dbVars, peerVars, nodeVars, toGw, toNode, envVars>>

Event == [session : Sessions, kind : {"state", "content"}, seq : Nat, id : Nat]

Inventory    == [type |-> "inventory"]
Source(e)    == [type |-> "source", event |-> e]
Status(s, r) == [type |-> "report", session |-> s, state |-> r]
Create(s)    == [type |-> "create", session |-> s]
Query(s)     == [type |-> "query", session |-> s]
Ack(s, n)    == [type |-> "ack", session |-> s, seq |-> n]
Error        == [type |-> "error"]

Fault == faults < MaxFaults /\ faults' = faults + 1

EmptyState == [journal |-> [s \in Sessions |-> "none"],
               seq     |-> [s \in Sessions |-> 0],
               spool   |-> {}]

Init ==
  /\ op = [s \in Sessions |-> "none"]
  /\ lastSource = [s \in Sessions |-> 0]
  /\ log = [s \in Sessions |-> <<>>]
  /\ receipts = {}
  /\ registered = FALSE /\ needsSync = {} /\ inventoried = FALSE /\ ready = FALSE
  /\ missed = {} /\ unasked = {}
  /\ connected = FALSE /\ unsent = {} /\ syncing = FALSE /\ todo = {} /\ busy = {}
  /\ mem = EmptyState /\ disk = EmptyState
  /\ toGw = <<>> /\ toNode = <<>>
  /\ epoch = 0 /\ nextId = 0 /\ mark = 0 /\ emits = 0 /\ faults = 0

-----------------------------------------------------------------------------
(* The Gateway. *)

\* What the Gateway puts on a connection the Node has left is lost.
Put(f) == toNode' = IF connected THEN Append(toNode, f) ELSE toNode

\* A create that failed before the Node sent anything was never a session.
NeverStarted(s) == op[s] = "failed" /\ lastSource[s] = 0

\* Mutated form: the fence does not cover sessions the Node has not reported.
ToSynchroniseKnown == {s \in Sessions : lastSource[s] > 0}

\* Mutated form: a failed create still owes its snapshot.
ToSynchroniseFailed == {s \in Sessions : op[s] # "none"}

\* The sessions whose snapshot a new connection owes.
ToSynchronise == {s \in Sessions : op[s] # "none" /\ ~NeverStarted(s)}

\* The creates a new connection is to be asked about.
OpenCreates == {s \in Sessions : op[s] \in {"open", "delivered"}}

\* What socket() read of the fence and of the open operations. It passes over a
\* row it cannot scan and looks at no error after the last one: a database error
\* leaves out any part of either. So do 200 older open operations of other kinds.
ReadOnConnect(fence, asked) ==
  /\ IF fence = ToSynchronise /\ asked = OpenCreates THEN UNCHANGED faults ELSE Fault
  /\ needsSync' = fence /\ missed' = ToSynchronise \ fence
  /\ toNode' = SetToSeq({Query(s) : s \in asked}) /\ unasked' = OpenCreates \ asked

\* socket(): a fresh peer with its fence and the queries of the open creates;
\* serve() begins with the inventory.
Connect ==
  /\ ~connected /\ epoch < MaxEpoch
  /\ epoch' = epoch + 1 /\ mark' = nextId
  /\ registered' = TRUE /\ inventoried' = FALSE /\ ready' = FALSE
  /\ \E fence \in SUBSET ToSynchronise, asked \in SUBSET OpenCreates : ReadOnConnect(fence, asked)
  /\ connected' = TRUE /\ unsent' = mem.spool /\ syncing' = FALSE /\ todo' = {}
  /\ toGw' = <<Inventory>>
  /\ UNCHANGED <<dbVars, busy, mem, disk, nextId, emits>>

\* expireOperations: a create left out is asked about when its deadline passes
\* on this connection, which that of a reconciling one has done already.
TickAsks(s) ==
  /\ registered /\ s \in unasked /\ op[s] \in {"open", "delivered"}
  /\ Put(Query(s)) /\ unasked' = unasked \ {s}
  /\ UNCHANGED <<dbVars, registered, needsSync, inventoried, ready, missed, nodeVars, toGw, envVars>>

\* The peer leaves the registry with everything it had not read yet.
Unregister ==
  /\ registered' = FALSE /\ needsSync' = {} /\ inventoried' = FALSE /\ ready' = FALSE
  /\ missed' = {} /\ unasked' = {} /\ toGw' = <<>>

\* The reader finds the connection closed.
PeerGone ==
  /\ registered /\ ~connected /\ Unregister
  /\ UNCHANGED <<dbVars, nodeVars, toNode, envVars>>

\* The connection breaks at the Gateway's end, or the process restarts.
PeerLost ==
  /\ registered /\ Fault /\ Unregister
  /\ UNCHANGED <<dbVars, nodeVars, toNode, epoch, nextId, mark, emits>>

\* command(): a create is admitted when the Node is ready and handed to the
\* writer; a fault before that leaves it open or fails it as unsent.
Admit(s) ==
  /\ registered /\ ready /\ op[s] = "none"
  /\ \/ /\ op' = [op EXCEPT ![s] = "open"]
        /\ Put(Create(s)) /\ UNCHANGED faults
     \/ /\ \E r \in {"open", "failed"} : op' = [op EXCEPT ![s] = r]
        /\ Fault /\ UNCHANGED toNode
  /\ UNCHANGED <<lastSource, log, receipts, peerVars, nodeVars, toGw, epoch, nextId, mark, emits>>

Reads(type) == registered /\ toGw # <<>> /\ Head(toGw).type = type

\* A frame whose handling fails leaves the database alone and is answered
\* with an error frame.
AnswerError ==
  /\ toGw' = Tail(toGw) /\ Put(Error)
  /\ UNCHANGED <<dbVars, peerVars, nodeVars, epoch, nextId, mark, emits>>

DatabaseError == registered /\ toGw # <<>> /\ Fault /\ AnswerError

\* nodeReady: ready is set in memory before its own transaction, whose failure
\* only adds an error frame to the replies.
NodeReady(replies) ==
  /\ ready' = (inventoried' /\ needsSync' = {})
  /\ \/ /\ toNode' = IF connected THEN toNode \o replies ELSE toNode
        /\ UNCHANGED faults
     \/ /\ ready' # ready /\ Fault
        /\ toNode' = IF connected THEN toNode \o Append(replies, Error) ELSE toNode

\* inventory(): the directory is replaced and the connection counts as listed.
TakeInventory ==
  /\ Reads("inventory") /\ toGw' = Tail(toGw)
  /\ inventoried' = TRUE /\ UNCHANGED <<registered, needsSync, missed, unasked>>
  /\ NodeReady(<<>>)
  /\ UNCHANGED <<dbVars, nodeVars, epoch, nextId, mark, emits>>

Known(e) == \E r \in receipts : r.id = e.id

\* Mutated form: a later event is taken although earlier ones are missing.
IsNextOrLater(e) == ~Known(e) /\ e.seq > lastSource[e.session]

\* Mutated form: the ledger is not consulted.
IsNextById(e) == e.seq \in {lastSource[e.session], lastSource[e.session] + 1}

\* An event that no receipt knows and that continues the session's sequence.
IsNext(e) == ~Known(e) /\ e.seq = lastSource[e.session] + 1

\* The replies and the fence after an event is committed or known already.
Acknowledge(e) ==
  /\ needsSync' = IF e.kind = "state" THEN needsSync \ {e.session} ELSE needsSync
  /\ UNCHANGED <<registered, inventoried, missed, unasked>>
  /\ IF e.kind = "state"
       THEN NodeReady(<<Ack(e.session, e.seq)>>)
       ELSE Put(Ack(e.session, e.seq)) /\ UNCHANGED <<ready, faults>>

\* source(): commit a new event with its receipt.
Commit ==
  /\ Reads("source") /\ toGw' = Tail(toGw)
  /\ LET e == Head(toGw).event IN
       /\ IsNext(e)
       /\ log' = [log EXCEPT ![e.session] = Append(@, e.id)]
       /\ receipts' = receipts \union {e}
       /\ lastSource' = [lastSource EXCEPT ![e.session] = e.seq]
       /\ Acknowledge(e)
  /\ UNCHANGED <<op, nodeVars, epoch, nextId, mark, emits>>

\* source(): an event the ledger knows is only acknowledged again.
Repeat ==
  /\ Reads("source") /\ toGw' = Tail(toGw)
  /\ LET e == Head(toGw).event IN e \in receipts /\ ~IsNext(e) /\ Acknowledge(e)
  /\ UNCHANGED <<dbVars, nodeVars, epoch, nextId, mark, emits>>

\* source(): SOURCE_CONFLICT.
Conflict ==
  /\ Reads("source") /\ UNCHANGED faults
  /\ LET e == Head(toGw).event IN e \notin receipts /\ ~IsNext(e)
  /\ AnswerError

\* acknowledge(): what a report does to a create operation.
Outcome(s, r) ==
  CASE op[s] \in {"failed", "confirmed"} -> op[s]
    [] r \in {"not_seen", "rejected"}    -> "failed"
    [] r = "unknown"                     -> op[s]
    [] OTHER                             -> r

Refused(s, r) == \/ r = "not_seen" /\ op[s] = "delivered"
                 \/ r = "confirmed" /\ op[s] = "failed"

\* acknowledge() with releaseUnstartedSync: a create that turns out never to
\* have started no longer holds the fence.
TakeReport ==
  /\ Reads("report")
  /\ LET s == Head(toGw).session
         r == Head(toGw).state
     IN /\ ~Refused(s, r)
        /\ op' = [op EXCEPT ![s] = Outcome(s, r)]
        /\ needsSync' = IF op'[s] = "failed" /\ lastSource[s] = 0
                          THEN needsSync \ {s} ELSE needsSync
  /\ toGw' = Tail(toGw)
  /\ UNCHANGED <<registered, inventoried, missed, unasked>> /\ NodeReady(<<>>)
  /\ UNCHANGED <<lastSource, log, receipts, nodeVars, epoch, nextId, mark, emits>>

RefuseReport ==
  /\ Reads("report") /\ UNCHANGED faults
  /\ Refused(Head(toGw).session, Head(toGw).state)
  /\ AnswerError

-----------------------------------------------------------------------------
(* The Node. *)

\* A frame reaches the Gateway only while it serves the connection.
Sent(f) == IF registered THEN Append(toGw, f) ELSE toGw

\* serve() returns.
HangUp == /\ connected' = FALSE /\ unsent' = {} /\ syncing' = FALSE
          /\ busy' = {} /\ toNode' = <<>>

SendFails == (~registered /\ UNCHANGED faults) \/ Fault

\* save() the state m, then send f; a failure of either ends serve(). Otherwise
\* it goes on with the create of a session in work, with rest left to read.
SaveAndSend(m, f, work, rest) ==
  /\ mem' = m
  /\ \/ /\ disk' = m /\ toGw' = Sent(f) /\ busy' = work /\ toNode' = rest
        /\ UNCHANGED <<connected, unsent, syncing, faults>>
     \/ disk' = m /\ SendFails /\ HangUp /\ UNCHANGED toGw
     \/ DiskFaults /\ Fault /\ HangUp /\ UNCHANGED <<disk, toGw>>

\* emit(): number the event, put it into the spool, save, transmit.
Emit(s, kind) ==
  LET e == [session |-> s, kind |-> kind, seq |-> mem.seq[s] + 1, id |-> nextId]
  IN /\ SaveAndSend([mem EXCEPT !.seq[s] = @ + 1, !.spool = @ \union {e}],
                    Source(e), busy, toNode)
     /\ nextId' = nextId + 1

\* The Node has the session: it was recorded with the intent to execute.
Has(s) == mem.journal[s] \in {"executing", "unknown", "confirmed"}

\* serve(): the spool goes out again before anything else, in the order of emission.
Replay ==
  /\ connected /\ ~syncing /\ unsent # {}
  /\ \/ /\ \E e \in unsent : /\ \A x \in unsent : e.id <= x.id
                            /\ toGw' = Sent(Source(e)) /\ unsent' = unsent \ {e}
        /\ UNCHANGED <<connected, syncing, busy, toNode, faults>>
     \/ SendFails /\ HangUp /\ UNCHANGED toGw
  /\ UNCHANGED <<dbVars, peerVars, todo, mem, disk, epoch, nextId, mark, emits>>

\* Mutated form: the snapshots do not wait for the replay.
BeginSyncEarly ==
  /\ connected /\ ~syncing
  /\ syncing' = TRUE /\ todo' = {s \in Sessions : Has(s)}
  /\ UNCHANGED <<dbVars, peerVars, connected, unsent, busy, mem, disk, toGw, toNode, envVars>>

\* The spool is through.
BeginSync ==
  /\ connected /\ ~syncing /\ unsent = {}
  /\ syncing' = TRUE /\ todo' = {s \in Sessions : Has(s)}
  /\ UNCHANGED <<dbVars, peerVars, connected, unsent, busy, mem, disk, toGw, toNode, envVars>>

\* emitState of every session on a new connection.
Sync(s) ==
  /\ connected /\ s \in todo /\ Emit(s, "state")
  /\ todo' = IF connected' THEN todo \ {s} ELSE {}
  /\ UNCHANGED <<dbVars, peerVars, epoch, mark, emits>>

\* serve() is in its select loop.
Looping == connected /\ syncing /\ todo = {} /\ busy = {}

\* The turns of a session: state snapshots, messages and requests.
Work(s) ==
  /\ Looping /\ Has(s) /\ emits < MaxEmitted /\ emits' = emits + 1
  /\ \E kind \in {"state", "content"} : Emit(s, kind)
  /\ UNCHANGED <<dbVars, peerVars, todo, epoch, mark>>

NodeReads(type) == Looping /\ toNode # <<>> /\ Head(toNode).type = type

\* Record state r of the create of s, and report it.
Journal(s, r, work, rest) ==
  SaveAndSend([mem EXCEPT !.journal[s] = r], Status(s, r), work, rest)

\* command(): a create is sent once only, so the journal does not know it.
TakeCreate ==
  /\ NodeReads("create")
  /\ LET s == Head(toNode).session IN
       mem.journal[s] = "none" /\ Journal(s, "delivered", {s}, Tail(toNode))
  /\ UNCHANGED <<dbVars, peerVars, todo, epoch, nextId, mark, emits>>

\* command(): a precondition fails.
RejectCreate(s) ==
  /\ s \in busy /\ mem.journal[s] = "delivered" /\ Journal(s, "rejected", {}, toNode)
  /\ UNCHANGED <<dbVars, peerVars, todo, epoch, nextId, mark, emits>>

\* The session and the intent are saved together; the injected fault or a
\* failing save leaves the entry executing.
StartSession(s) ==
  /\ s \in busy /\ mem.journal[s] = "delivered"
  /\ mem' = [mem EXCEPT !.journal[s] = "executing"]
  /\ \/ disk' = mem' /\ UNCHANGED <<connected, unsent, syncing, busy, toNode, faults>>
     \/ disk' = mem' /\ Fault /\ HangUp
     \/ DiskFaults /\ Fault /\ HangUp /\ UNCHANGED disk
  /\ UNCHANGED <<dbVars, peerVars, todo, toGw, epoch, nextId, mark, emits>>

ConfirmCreate(s) ==
  /\ s \in busy /\ mem.journal[s] = "executing" /\ Journal(s, "confirmed", {}, toNode)
  /\ UNCHANGED <<dbVars, peerVars, todo, epoch, nextId, mark, emits>>

\* Mutated form: an entry still executing is reported as never seen.
ReportedIfDone(j) == IF j \in {"none", "executing", "unknown"} THEN "not_seen" ELSE j

\* Mutated form: the journal's states go out as they are.
ReportedRaw(j) == j

\* The journal's word for a create.
Reported(j) == CASE j = "none" -> "not_seen" [] j = "executing" -> "unknown" [] OTHER -> j

AnswerQuery ==
  /\ NodeReads("query") /\ toNode' = Tail(toNode)
  /\ toGw' = Sent(Status(Head(toNode).session, Reported(mem.journal[Head(toNode).session])))
  /\ UNCHANGED <<dbVars, peerVars, nodeVars, envVars>>

\* Mutated form: an acknowledgement is taken for the whole session.
PrunedSession(s, n) == {e \in mem.spool : e.session # s}

\* events.ack: everything of the session up to the number is dropped.
Pruned(s, n) == {e \in mem.spool : e.session # s \/ e.seq > n}

TakeAck ==
  /\ NodeReads("ack")
  /\ mem' = [mem EXCEPT !.spool = Pruned(Head(toNode).session, Head(toNode).seq)]
  /\ \/ disk' = mem' /\ toNode' = Tail(toNode)
        /\ UNCHANGED <<connected, unsent, syncing, busy, faults>>
     \/ DiskFaults /\ Fault /\ HangUp /\ UNCHANGED disk
  /\ UNCHANGED <<dbVars, peerVars, todo, toGw, epoch, nextId, mark, emits>>

\* An error frame makes serve() return.
ReadError ==
  /\ NodeReads("error") /\ HangUp
  /\ UNCHANGED <<dbVars, peerVars, todo, mem, disk, toGw, envVars>>

\* serve() ends because the Gateway has gone, or for a fault of its own.
NodeHangsUp ==
  /\ connected /\ busy = {} /\ HangUp /\ todo' = {}
  /\ (~registered /\ UNCHANGED faults) \/ Fault
  /\ UNCHANGED <<dbVars, peerVars, mem, disk, toGw, epoch, nextId, mark, emits>>

\* The process dies anywhere; load() marks interrupted work as unknown.
Reloaded == [disk EXCEPT !.journal =
               [s \in Sessions |-> IF disk.journal[s] = "executing" THEN "unknown" ELSE disk.journal[s]]]

NodeRestart ==
  /\ Fault /\ HangUp /\ todo' = {}
  /\ mem' = Reloaded /\ disk' = Reloaded
  /\ UNCHANGED <<dbVars, peerVars, toGw, epoch, nextId, mark, emits>>

-----------------------------------------------------------------------------
Gateway == DatabaseError \/ TakeInventory \/ Commit \/ Repeat \/ Conflict
             \/ TakeReport \/ RefuseReport

Node == Replay \/ BeginSync \/ TakeCreate \/ AnswerQuery \/ TakeAck \/ ReadError
          \/ \E s \in Sessions : Sync(s) \/ RejectCreate(s) \/ StartSession(s) \/ ConfirmCreate(s)

Next == \/ Connect \/ PeerGone \/ PeerLost
        \/ DatabaseError \/ TakeInventory \/ Commit \/ Repeat \/ Conflict
        \/ TakeReport \/ RefuseReport
        \/ Replay \/ BeginSync \/ TakeCreate \/ AnswerQuery \/ TakeAck \/ ReadError
        \/ NodeHangsUp \/ NodeRestart
        \/ \E s \in Sessions : \/ Admit(s) \/ TickAsks(s) \/ Sync(s) \/ Work(s)
                               \/ RejectCreate(s) \/ StartSession(s) \/ ConfirmCreate(s)

Spec == Init /\ [][Next]_vars

\* The reader and writer goroutines, serve() and the Node's reconnect loop keep
\* running; nothing forces a user to act, a session to work or a fault to occur.
Fairness == /\ WF_vars(Gateway) /\ WF_vars(Node)
            /\ WF_vars(Connect) /\ WF_vars(PeerGone)
            /\ WF_vars(~registered /\ NodeHangsUp)

FairSpec == Spec /\ Fairness

-----------------------------------------------------------------------------
(* Properties. *)

JournalStates == {"none", "delivered", "executing", "unknown", "rejected", "confirmed"}

ToGwFrame == {Inventory} \union [type : {"source"}, event : Event]
               \union [type : {"report"}, session : Sessions,
                      state : {"not_seen", "delivered", "unknown", "rejected", "confirmed"}]

ToNodeFrame == {Error} \union [type : {"create", "query"}, session : Sessions]
                 \union [type : {"ack"}, session : Sessions, seq : Nat]

NodeState == [journal : [Sessions -> JournalStates], seq : [Sessions -> Nat], spool : SUBSET Event]

\* Every variable keeps its type.
TypeOK ==
  /\ op \in [Sessions -> {"none", "open", "delivered", "confirmed", "failed"}]
  /\ lastSource \in [Sessions -> Nat] /\ log \in [Sessions -> Seq(Nat)]
  /\ receipts \subseteq Event
  /\ registered \in BOOLEAN /\ needsSync \subseteq Sessions
  /\ inventoried \in BOOLEAN /\ ready \in BOOLEAN
  /\ missed \subseteq Sessions /\ unasked \subseteq Sessions
  /\ connected \in BOOLEAN /\ unsent \subseteq Event /\ syncing \in BOOLEAN
  /\ todo \subseteq Sessions /\ busy \subseteq Sessions
  /\ mem \in NodeState /\ disk \in NodeState
  /\ toGw \in Seq(ToGwFrame) /\ toNode \in Seq(ToNodeFrame)
  /\ epoch \in Nat /\ nextId \in Nat /\ mark \in Nat /\ emits \in Nat /\ faults \in Nat

Logged(e) == e.id \in Range(log[e.session])

\* The Node drops from its disk only what the Gateway has committed, even when
\* saves fail and sequence numbers are used again (backend-design section 9: the
\* local spool may be deleted only after the commit ACK).
OnlyCommittedIsDropped ==
  [][\A e \in disk.spool \ disk'.spool : Logged(e)]_vars

\* A create recorded as failed never became a session of the Node and sent
\* nothing, which is what lets its fence go without a snapshot.
FailedNeverStarted ==
  \A s \in Sessions : op[s] = "failed" => ~Has(s) /\ log[s] = <<>>

\* When remote control opens, no session the Node had work of is still blank in
\* the Gateway, but for those socket() lost when it read the fence: the fence
\* waits for sessions that have reported nothing yet.
ReadyMeansReported ==
  registered /\ ready =>
    \A e \in mem.spool : e.id < mark /\ e.session \notin missed => log[e.session] # <<>>

\* backend-design.md section 11: the sessions are reconciled before new commands
\* are allowed. No session the Node had work of would then be blank.
ReadyMeansAllReported ==
  registered /\ ready => \A e \in mem.spool : e.id < mark => log[e.session] # <<>>

\* backend-design.md section 11: after a reconnect the sessions are reconciled
\* before new commands are allowed, the spool filling in history first. When
\* remote control opens, all the Node had emitted before is then in the log for
\* the sessions the fence was read of.
ReadyMeansCaughtUp ==
  registered /\ ready => \A e \in mem.spool : e.id < mark /\ e.session \notin missed => Logged(e)

\* node-contract.md section 4: the spool reaches the local disk before it is
\* sent. An event on its way that is not in the log yet must be on disk.
DurableBeforeSent ==
  \A i \in DOMAIN toGw :
    toGw[i].type = "source" /\ ~Logged(toGw[i].event) => toGw[i].event \in disk.spool

\* Once faults stop, whatever the Node has emitted gets into the log.
EventuallyIngested ==
  \A s \in Sessions : []<>(\A e \in mem.spool : e.session = s => e.seq <= lastSource[s])

\* A create whose journal entry stopped at delivered: the Node has no session to
\* take a snapshot of, and the Gateway may not call it unsent.
Stranded(s) == op[s] \in {"open", "delivered"} /\ mem.journal[s] = "delivered"

\* An open create the Node never began and the present connection was not asked about.
Overlooked(s) == s \in unasked /\ op[s] \in {"open", "delivered"} /\ ~Has(s)

\* Once faults stop, the fence opens, unless a create is stranded or overlooked.
EventuallyReady == []<>(ready \/ \E s \in Sessions : Stranded(s) \/ Overlooked(s))

\* The comment in socket(): a create that was never a native session must not
\* fence a healthy Node for ever.
NothingHoldsTheFence == []<>(ready \/ \E s \in Sessions : Stranded(s))

-----------------------------------------------------------------------------
(* Refinement. *)

\* What the Node has emitted for s: the log, and after it what the spool still holds.
Emitted(s) ==
  log[s] \o [i \in 1..(mem.seq[s] - Len(log[s])) |->
               (CHOOSE e \in mem.spool : e.session = s /\ e.seq = Len(log[s]) + i).id]

Promise == INSTANCE EventLog WITH emitted <- [s \in Sessions |-> Emitted(s)]

\* While saves succeed, ingestion implements EventLog: exactly once, in order.
ImplementsLog == Promise!Spec
=============================================================================
