-------------------------- MODULE SessionLifecycle --------------------------
(***************************************************************************)
(* One session of a Node as the Gateway records it (session, turns, queue, *)
(* requests) and as the Node has it, from the create command on. Two paths *)
(* change the Gateway's rows: the receipts of commands and the Node's      *)
(* source events. Both travel on one connection in order, but a lost       *)
(* connection loses the receipts and keeps the events: these come again    *)
(* from the spool before the journal is queried.                           *)
(*                                                                         *)
(* That spooled events are committed once and in order is SourceIngest's   *)
(* subject, the states of an operation before it is settled are            *)
(* CommandDelivery's: here an operation is open, confirmed or failed, and  *)
(* the spool is the events that are not committed. Of those that are, and  *)
(* that the Node has no acknowledgement of, only whether there are         *)
(* snapshots matters: their replay opens remote control. When the Node     *)
(* reads an acknowledgement among the other frames is left open.           *)
(* A turn has the number of the operation                                  *)
(* that reserved it, and so has a queue item. Sends stand for the native   *)
(* commands that reserve a turn (compact, review) too; the fixture knows   *)
(* no native command, and resuming a closed session is left out. What the  *)
(* agent does is not the fixture's: it may work while the Node is offline, *)
(* ask, withdraw what it asked, complete, and its process may go away.     *)
(***************************************************************************)
EXTENDS Naturals, Sequences, SequencesExt, FiniteSets

CONSTANTS
  MaxOps,        \* bound: commands; the first is the create
  MaxRequests,   \* bound: requests the agent makes
  MaxQueue,      \* queued messages a session may hold (20 in the code)
  MaxConnects    \* bound: connections, and so lost ones

ASSUME ConstantsAssumption ==
  MaxOps \in Nat \ {0} /\ MaxRequests \in Nat /\ MaxQueue \in Nat /\ MaxConnects \in Nat

Ops      == 1..MaxOps
Requests == 1..MaxRequests

VARIABLES
  \* database
  session,     \* sessions row: state and current_turn_id
  turns,       \* turns[i]: state of the turn reserved by i
  op,          \* op[i]: operations row
  request,     \* request[r]: interaction_requests row
  queue,       \* queue_items not yet consumed, by position
  consumed,    \* queue_items consumed
  \* the registered peer
  connected,
  ready,       \* remote control is open
  blocked,     \* an event of this connection was refused: the later ones are gaps
  replaying,   \* committed snapshots come first on this connection, and are to be read
  \* Node
  native,      \* its Session: state, turn, open request, queue; is the agent working
  journal,     \* journal[i]
  doing,       \* the operation command() has confirmed and not carried through, or 0
  spool,       \* source events that are not committed
  unacked,     \* the Node has committed snapshots in its spool too
  \* frames not yet read
  toGw, toNode,
  \* environment
  admitted,    \* operations so far
  asked,       \* requests so far
  overdue,     \* requests past their expiresAt
  connects

dbVars   == <<session, turns, op, request, queue, consumed>>
peerVars == <<connected, ready, blocked, replaying>>
nodeVars == <<native, journal, doing, spool, unacked>>
envVars  == <<admitted, asked, overdue, connects>>
vars     == <<dbVars, peerVars, nodeVars, toGw, toNode, envVars>>

\* An approval and a question; the kinds alternate.
WaitingState(r) == IF r % 2 = 1 THEN "waiting_approval" ELSE "waiting_input"
Waiting         == {"waiting_approval", "waiting_input"}
Ended           == {"completed", "cancelled", "failed"}
SessionStates   == {"idle", "running", "cancelling", "closed"} \union Waiting \union Ended

Snapshot(n)       == [type |-> "session", state |-> n.state, turn |-> n.turn, queue |-> n.queue]
Asking(r, t)      == [type |-> "request", request |-> r, turn |-> t]
Withdrawal(r, t)  == [type |-> "withdraw", request |-> r, turn |-> t]
Receipt(i, s)     == [type |-> "receipt", op |-> i, state |-> s]
Command(i)        == [type |-> "command", op |-> i]
Query(i)          == [type |-> "query", op |-> i]
Error             == [type |-> "error"]

Init ==
  /\ session = [state |-> "none", turn |-> 0]
  /\ turns = [i \in Ops |-> "none"]
  /\ op = [i \in Ops |-> [kind |-> "none", turn |-> 0, request |-> 0, state |-> "none"]]
  /\ request = [r \in Requests |-> [state |-> "none", turn |-> 0, by |-> 0]]
  /\ queue = <<>> /\ consumed = {}
  /\ connected = FALSE /\ ready = FALSE /\ blocked = FALSE /\ replaying = FALSE
  /\ native = [state |-> "none", turn |-> 0, request |-> 0, queue |-> <<>>, working |-> FALSE]
  /\ journal = [i \in Ops |-> "none"]
  /\ doing = 0 /\ spool = <<>> /\ unacked = FALSE /\ toGw = <<>> /\ toNode = <<>>
  /\ admitted = 0 /\ asked = 0 /\ overdue = {} /\ connects = 0

-----------------------------------------------------------------------------
(* Connections. *)

\* A create that failed never became a session: nothing is owed for it.
NothingOwed == session.state = "none" \/ op[1].state = "failed"

\* socket() fences the session and queries the open operations, but for what an
\* ignored error of the database, or LIMIT, leaves out of either; serve() replays
\* the spool, what is committed first, and adds a snapshot before it reads.
Connect ==
  /\ ~connected /\ connects < MaxConnects
  /\ connects' = connects + 1
  /\ connected' = TRUE /\ ready' \in {NothingOwed, TRUE} /\ blocked' = FALSE /\ replaying' = unacked
  /\ spool' = IF native.state = "none" THEN spool ELSE Append(spool, Snapshot(native))
  /\ toGw' = spool'
  /\ \E batch \in SUBSET {j \in Ops : op[j].state = "open"} :
       toNode' = SetToSeq({Query(i) : i \in batch})
  /\ UNCHANGED <<dbVars, native, journal, doing, unacked, admitted, asked, overdue>>

\* The connection and all that was on it are gone.
Gone ==
  /\ connected' = FALSE /\ ready' = FALSE /\ blocked' = FALSE /\ replaying' = FALSE
  /\ toGw' = <<>> /\ toNode' = <<>> /\ doing' = 0

\* Either end breaks the connection or restarts, at any moment.
Disconnect ==
  /\ connected /\ Gone
  /\ UNCHANGED <<dbVars, native, journal, spool, unacked, envVars>>

-----------------------------------------------------------------------------
(* The Gateway: commands. *)

isActive(s) == s \in {"idle", "running", "cancelling"} \union Waiting

\* Controls whose acceptance is unknown are serialised; queueing is not.
Busy == \E i \in Ops : op[i].state = "open" /\ op[i].kind # "queue"

\* The admission of a command that names the session's current turn: the
\* operation and, after the commit, the frame for the Node.
Submit(kind, r) ==
  /\ connected /\ ready /\ ~Busy /\ admitted < MaxOps
  /\ admitted' = admitted + 1
  /\ op' = [op EXCEPT ![admitted'] =
              [kind |-> kind, turn |-> session.turn, request |-> r, state |-> "open"]]
  /\ toNode' = Append(toNode, Command(admitted'))
  /\ UNCHANGED <<queue, consumed, peerVars, nodeVars, toGw, asked, overdue, connects>>

Create ==
  /\ session.state = "none" /\ Submit("create", 0)
  /\ session' = [state |-> "idle", turn |-> admitted']
  /\ turns' = [turns EXCEPT ![admitted'] = "starting"]
  /\ UNCHANGED request

Send ==
  /\ session.state \in Ended /\ Submit("send", 0)
  /\ UNCHANGED <<session, turns, request>>

Enqueue ==
  /\ session.state \in {"running"} \union Waiting /\ Len(queue) < MaxQueue
  /\ Submit("queue", 0)
  /\ UNCHANGED <<session, turns, request>>

Cancel ==
  /\ isActive(session.state) /\ session.state # "idle" /\ Submit("cancel", 0)
  /\ UNCHANGED <<session, turns, request>>

\* respondRequest: the decision occupies the request.
Respond(r) ==
  /\ request[r].state = "pending" /\ request[r].turn = session.turn /\ r \notin overdue
  /\ session.state \notin {"cancelling", "closed"}
  /\ Submit("respond", r)
  /\ request' = [request EXCEPT ![r].state = "deciding", ![r].by = admitted']
  /\ UNCHANGED <<session, turns>>

\* Mutated form: only a request of the present turn is given back.
GivenBackIfCurrent(i) ==
  [r \in Requests |-> IF /\ request[r].state = "deciding" /\ request[r].by = i
                         /\ request[r].turn = session.turn /\ isActive(session.state)
                        THEN [request[r] EXCEPT !.state = IF r \in overdue THEN "expired" ELSE "pending",
                                                !.by = 0]
                        ELSE request[r]]

\* rejectedEffects: the request a failed answer occupied is open again.
GivenBack(i) ==
  [r \in Requests |-> IF request[r].state = "deciding" /\ request[r].by = i
                        THEN [request[r] EXCEPT !.state = IF r \in overdue THEN "expired" ELSE "pending",
                                                !.by = 0]
                        ELSE request[r]]

\* failUnsent with rejectedEffects.
Fail(i) ==
  /\ op' = [op EXCEPT ![i].state = "failed"]
  /\ IF op[i].kind = "create" /\ session.state = "idle"
       THEN /\ session' = [session EXCEPT !.state = "failed"]
            /\ turns' = [turns EXCEPT ![session.turn] = "failed"]
       ELSE UNCHANGED <<session, turns>>
  /\ request' = GivenBack(i)
  /\ UNCHANGED <<queue, consumed>>

\* The command was not written: too late, or the write queue was full.
Unsent ==
  /\ connected
  /\ \E n \in DOMAIN toNode :
       /\ toNode[n].type = "command"
       /\ Fail(toNode[n].op) /\ toNode' = RemoveAt(toNode, n)
  /\ ready' = (ready \/ op'[1].state = "failed")
  /\ UNCHANGED <<connected, blocked, replaying, nodeVars, toGw, envVars>>

\* maintenance(): a pending request past its expiry.
Expire(r) ==
  /\ request[r].state = "pending" /\ r \in overdue
  /\ request' = [request EXCEPT ![r].state = "expired"]
  /\ UNCHANGED <<session, turns, op, queue, consumed, peerVars, nodeVars, toGw, toNode, envVars>>

-----------------------------------------------------------------------------
(* The Gateway: receipts. *)

Reads(type) == connected /\ ~replaying /\ toGw # <<>> /\ Head(toGw).type = type

\* Mutated form: the confirmation of a queued message waits for its snapshot.
QueueOfSnapshot(i) == queue

\* acknowledge() of a queued message: the item is added unless a snapshot
\* mirrored it before.
QueueWith(i) == IF i \in Range(queue) THEN queue ELSE Append(queue, i)

\* The mirror refuses an item over the quota or one that was consumed.
Confirmable(i) ==
  op[i].kind = "queue" =>
    i \in Range(queue) \/ (Len(queue) < MaxQueue /\ i \notin consumed)

\* A confirmed cancel marks its own turn only.
Cancels(i) == /\ op[i].kind = "cancel" /\ session.turn = op[i].turn
              /\ isActive(session.state) /\ session.state # "cancelling"

\* acknowledge(): the outcome with its effects.
Confirm(i) ==
  /\ op' = [op EXCEPT ![i].state = "confirmed"]
  /\ queue' = IF op[i].kind = "queue" THEN QueueWith(i) ELSE queue
  /\ request' = [r \in Requests |-> IF op[i].kind = "respond" /\ request[r].by = i
                                      THEN [request[r] EXCEPT !.state = "resolved"] ELSE request[r]]
  /\ IF Cancels(i)
       THEN /\ session' = [session EXCEPT !.state = "cancelling"]
            /\ turns' = [turns EXCEPT ![session.turn] = "cancelling"]
       ELSE UNCHANGED <<session, turns>>
  /\ UNCHANGED consumed

\* acknowledge(): "not_seen" and "rejected" fail an open operation; a settled
\* one stays, "unknown" and "delivered" leave it open, and so does a
\* confirmation that is refused.
TakeReceipt ==
  /\ Reads("receipt")
  /\ LET i == Head(toGw).op
         s == Head(toGw).state
         settles == op[i].state = "open" /\ s \notin {"unknown", "delivered"}
         refused == settles /\ s = "confirmed" /\ ~Confirmable(i)
     IN /\ \/ settles /\ s # "confirmed" /\ Fail(i)
           \/ settles /\ s = "confirmed" /\ ~refused /\ Confirm(i)
           \/ (~settles \/ refused) /\ UNCHANGED dbVars
        /\ toNode' = IF refused THEN Append(toNode, Error) ELSE toNode
  /\ toGw' = Tail(toGw)
  /\ ready' = (ready \/ op'[1].state = "failed")
  /\ UNCHANGED <<connected, blocked, replaying, nodeVars, envVars>>

-----------------------------------------------------------------------------
(* The Gateway: source events. *)

\* source(): snapshots the ledger knows are only acknowledged again, and open
\* remote control as any snapshot does.
TakeReplay ==
  /\ connected /\ replaying /\ replaying' = FALSE /\ ready' = TRUE
  /\ UNCHANGED <<dbVars, connected, blocked, nodeVars, toGw, toNode, envVars>>

validTransition(old, next) ==
  \/ old = next
  \/ old # "closed" /\ next = "closed"
  \/ old = "idle" /\ next \in {"running", "failed"}
  \/ old = "running" /\ next \in Waiting \union {"cancelling"} \union Ended
  \/ old \in Waiting /\ next \in {"running", "cancelling"} \union Ended
  \/ old = "cancelling" /\ next \in Ended

\* Another turn starts only when none is active, for a reservation that did not
\* fail; from the queue only after a completed turn, confirmed, and in order.
MayStart(t) ==
  /\ ~isActive(session.state) /\ session.state # "closed" /\ turns[t] = "none"
  /\ op[t].kind \in {"send", "queue"} /\ op[t].state \in {"open", "confirmed"}
  /\ op[t].kind = "queue" =>
       /\ session.state = "completed" /\ op[t].state = "confirmed"
       /\ queue # <<>> /\ Head(queue) = t

\* The items left when turn t starts; a queued one starts from the head.
QueueWithout(t) == IF queue # <<>> /\ Head(queue) = t THEN Tail(queue) ELSE queue

\* queueMirror: items are only added behind, each a queued message that did not
\* fail and was not consumed.
Mirrorable(left, items, spent) ==
  /\ IsPrefix(left, items)
  /\ Cardinality(Range(items)) = Len(items)
  /\ \A i \in Range(items) : op[i].kind = "queue" /\ op[i].state # "failed" /\ i \notin spent

ConsumedBy(t) == consumed \union (Range(queue) \intersect {t})

\* What ends, or is about to, takes the open requests with it: requestCancel
\* with the turn of the session.
ClosesRequests(s) == ~isActive(s) \/ s = "cancelling"

Pending == {r \in Requests : request[r].state = "pending"}

AcceptsSession(e) ==
  /\ IF e.turn # session.turn THEN e.state = "running" /\ MayStart(e.turn)
                              ELSE validTransition(session.state, e.state)
  /\ Mirrorable(QueueWithout(e.turn), e.queue, ConsumedBy(e.turn))
  /\ ClosesRequests(e.state) => \A r \in Pending : request[r].turn = session.turn

\* Mutated form: the turn takes the session's state.
TurnStateRaw(e) == IF e.state = "idle" THEN "starting" ELSE e.state

\* Mutated form: closing leaves the turn as it was.
TurnStateKept(e) == CASE e.state = "idle" -> "starting"
                      [] e.state = "closed" -> turns[e.turn]
                      [] OTHER -> e.state

\* "closed" is no state of a turn: an unfinished one failed, others stay.
TurnState(e) ==
  CASE e.state = "idle" -> "starting"
    [] e.state = "closed" /\ session.state = "closed" -> turns[e.turn]
    [] e.state = "closed" /\ isActive(session.state) -> "failed"
    [] e.state = "closed" /\ session.state \in Ended -> session.state
    [] OTHER -> e.state

\* An answer on its way stays deciding.
CancelledBy(s) ==
  [r \in Requests |-> IF ClosesRequests(s) /\ request[r].state = "pending"
                        THEN [request[r] EXCEPT !.state = "cancelled"] ELSE request[r]]

\* Mutated form: the mirror only checks.
MirroredChecked(e) == QueueWithout(e.turn)

\* The queue after queueMirror: the items it did not know are added.
Mirrored(e) == e.queue

sessionUpdate(e) ==
  /\ session' = [state |-> e.state, turn |-> e.turn]
  /\ turns' = [turns EXCEPT ![e.turn] = TurnState(e)]
  /\ queue' = Mirrored(e) /\ consumed' = ConsumedBy(e.turn)
  /\ request' = CancelledBy(e.state)
  /\ UNCHANGED op

AcceptsRequest(e) ==
  /\ e.turn = session.turn /\ isActive(session.state) /\ session.state # "cancelling"
  /\ e.request \notin overdue

requestCreate(e) ==
  /\ request' = IF request[e.request].state = "none"
                  THEN [request EXCEPT ![e.request] = [state |-> "pending", turn |-> e.turn, by |-> 0]]
                  ELSE request
  /\ UNCHANGED <<session, turns, op, queue, consumed>>

AcceptsWithdrawal(e) == request[e.request].state # "none" /\ request[e.request].turn = e.turn

requestCancel(e) ==
  /\ request' = IF request[e.request].state = "pending"
                  THEN [request EXCEPT ![e.request].state = "cancelled"] ELSE request
  /\ UNCHANGED <<session, turns, op, queue, consumed>>

Accepts(e) == CASE e.type = "session"  -> AcceptsSession(e)
                [] e.type = "request"  -> AcceptsRequest(e)
                [] e.type = "withdraw" -> AcceptsWithdrawal(e)

ReadsEvent == Reads("session") \/ Reads("request") \/ Reads("withdraw")

\* source(): the event is committed and acknowledged; a snapshot opens remote
\* control, and comes again until the Node has read of it.
Ingest ==
  /\ ReadsEvent /\ ~blocked /\ Accepts(Head(toGw))
  /\ LET e == Head(toGw)
     IN /\ \/ e.type = "session" /\ sessionUpdate(e)
           \/ e.type = "request" /\ requestCreate(e)
           \/ e.type = "withdraw" /\ requestCancel(e)
        /\ ready' = (ready \/ e.type = "session") /\ unacked' = (unacked \/ e.type = "session")
  /\ toGw' = Tail(toGw) /\ spool' = Tail(spool)
  /\ UNCHANGED <<connected, blocked, replaying, native, journal, doing, toNode, envVars>>

\* source(): the event is refused and the Node is told, whose connection ends with
\* the first such answer. Later events of this connection do not continue the
\* sequence and are refused as well; receipts are still read.
Refuse ==
  /\ ReadsEvent /\ (blocked \/ ~Accepts(Head(toGw)))
  /\ blocked' = TRUE /\ toGw' = Tail(toGw)
  /\ toNode' = IF blocked THEN toNode ELSE Append(toNode, Error)
  /\ UNCHANGED <<dbVars, connected, ready, replaying, nodeVars, envVars>>

-----------------------------------------------------------------------------
(* The Node. *)

\* emit() of some events: into the spool and, if it is of use, onto the wire.
Emit(events) ==
  /\ spool' = spool \o events
  /\ toGw' = IF connected /\ ~blocked THEN toGw \o events ELSE toGw
  /\ UNCHANGED unacked

\* events.ack of the last committed snapshot: it and those before it are dropped.
TakeAck ==
  /\ connected /\ ~replaying /\ doing = 0 /\ unacked /\ unacked' = FALSE
  /\ UNCHANGED <<dbVars, peerVars, native, journal, doing, spool, toGw, toNode, envVars>>

NodeReads(type) == connected /\ doing = 0 /\ toNode # <<>> /\ Head(toNode).type = type

\* Mutated form: the turn a command expects is not compared.
OnAnyTurn(i) == native.state # "none"

\* Every command but create names the turn it is about.
OnItsTurn(i) == native.state # "none" /\ native.turn = op[i].turn

\* command(): the preconditions by kind.
Executable(i) ==
  CASE op[i].kind = "create"  -> native.state = "none"
    [] op[i].kind = "send"    -> OnItsTurn(i) /\ native.state \in Ended
    [] op[i].kind = "queue"   -> /\ OnItsTurn(i) /\ native.state \in {"running"} \union Waiting
                                 /\ Len(native.queue) < MaxQueue
    [] op[i].kind = "cancel"  -> OnItsTurn(i) /\ native.state \notin {"completed", "cancelled", "closed"}
    [] op[i].kind = "respond" -> /\ OnItsTurn(i) /\ native.request = op[i].request
                                 /\ op[i].request \notin overdue

\* The Session as saved with the intent to execute.
Begun(i) ==
  CASE op[i].kind = "create"  -> [native EXCEPT !.state = "running", !.turn = i]
    [] op[i].kind = "send"    -> [native EXCEPT !.state = "running", !.turn = i]
    [] op[i].kind = "queue"   -> [native EXCEPT !.queue = Append(@, i)]
    [] op[i].kind = "cancel"  -> [native EXCEPT !.request = 0, !.working = FALSE]
    [] op[i].kind = "respond" -> native

Journal(i, s) == journal' = [journal EXCEPT ![i] = s]

\* command(): a precondition fails, the deadline among them.
Reject ==
  /\ NodeReads("command") /\ toNode' = Tail(toNode)
  /\ Journal(Head(toNode).op, "rejected")
  /\ toGw' = Append(toGw, Receipt(Head(toNode).op, "rejected"))
  /\ UNCHANGED <<dbVars, peerVars, native, doing, spool, unacked, envVars>>

\* command(): the intent, the native call, the confirmation.
Execute ==
  /\ NodeReads("command") /\ toNode' = Tail(toNode)
  /\ LET i == Head(toNode).op
     IN /\ Executable(i) /\ native' = Begun(i) /\ Journal(i, "confirmed") /\ doing' = i
        /\ toGw' = Append(toGw, Receipt(i, "confirmed"))
  /\ UNCHANGED <<dbVars, peerVars, spool, unacked, envVars>>

\* The connection or the process goes after the entry or after the intent.
Interrupted ==
  /\ NodeReads("command") /\ Gone
  /\ LET i == Head(toNode).op
     IN \/ Journal(i, "delivered") /\ UNCHANGED native
        \/ Executable(i) /\ native' = Begun(i) /\ Journal(i, "unknown")
  /\ UNCHANGED <<dbVars, spool, unacked, envVars>>

\* The Session after a confirmed command.
Carried(i) ==
  CASE op[i].kind = "cancel"  -> [native EXCEPT !.state = "cancelled"]
    [] op[i].kind = "respond" -> [native EXCEPT !.state = "running", !.request = 0]
    [] op[i].kind = "queue"   -> native
    [] OTHER                  -> [native EXCEPT !.working = TRUE]

\* What command() does after the receipt; a lost connection takes it away.
Finish ==
  /\ doing # 0 /\ doing' = 0
  /\ native' = Carried(doing) /\ Emit(<<Snapshot(native')>>)
  /\ UNCHANGED <<dbVars, peerVars, journal, toNode, envVars>>

\* Mutated form: an interrupted operation is reported as never seen.
ReportedIfSure(j) == IF j \in {"none", "unknown"} THEN "not_seen" ELSE j

\* The journal's word for an operation.
Reported(j) == IF j = "none" THEN "not_seen" ELSE j

AnswerQuery ==
  /\ NodeReads("query") /\ toNode' = Tail(toNode)
  /\ toGw' = Append(toGw, Receipt(Head(toNode).op, Reported(journal[Head(toNode).op])))
  /\ UNCHANGED <<dbVars, peerVars, nodeVars, envVars>>

\* An error frame makes serve() return.
ReadError ==
  /\ NodeReads("error") /\ Gone
  /\ UNCHANGED <<dbVars, native, journal, spool, unacked, envVars>>

\* The agent asks: the request, then the waiting state.
Ask ==
  /\ doing = 0 /\ native.working /\ native.state = "running" /\ asked < MaxRequests
  /\ asked' = asked + 1
  /\ native' = [native EXCEPT !.state = WaitingState(asked'), !.request = asked']
  /\ Emit(<<Asking(asked', native.turn), Snapshot(native')>>)
  /\ UNCHANGED <<dbVars, peerVars, journal, doing, toNode, admitted, overdue, connects>>

\* The agent no longer needs an answer and goes on.
Withdraw ==
  /\ doing = 0 /\ native.working /\ native.state \in Waiting
  /\ native' = [native EXCEPT !.state = "running", !.request = 0]
  /\ Emit(<<Withdrawal(native.request, native.turn), Snapshot(native')>>)
  /\ UNCHANGED <<dbVars, peerVars, journal, doing, toNode, envVars>>

Completed == [native EXCEPT !.state = "completed", !.working = FALSE]

\* Mutated form: the queue is served from its end.
NextOfQueueLast == [native EXCEPT !.turn = Last(native.queue), !.queue = Front(native.queue)]

\* The Session when the head of its queue starts.
NextOfQueue == [native EXCEPT !.turn = Head(native.queue), !.queue = Tail(native.queue)]

\* complete(): the turn ends and the head of the queue starts.
Complete ==
  /\ doing = 0 /\ native.working /\ native.state = "running"
  /\ \/ /\ native.queue = <<>>
        /\ native' = Completed /\ Emit(<<Snapshot(native')>>)
     \/ /\ native.queue # <<>> /\ journal[Head(native.queue)] = "confirmed"
        /\ native' = NextOfQueue /\ Emit(<<Snapshot(Completed), Snapshot(native')>>)
  /\ UNCHANGED <<dbVars, peerVars, journal, doing, toNode, envVars>>

\* complete(): the connection goes between the two, or the head of the queue is
\* not confirmed by the journal, which ends serve() too.
CompleteOnly ==
  /\ doing = 0 /\ native.working /\ native.state = "running" /\ native.queue # <<>>
  /\ native' = Completed /\ spool' = Append(spool, Snapshot(native'))
  /\ Gone
  /\ UNCHANGED <<dbVars, journal, unacked, envVars>>

\* The agent's process is gone for good.
Close ==
  /\ doing = 0 /\ (native.working \/ native.state \in Ended)
  /\ native' = [native EXCEPT !.state = "closed", !.request = 0, !.working = FALSE]
  /\ Emit(<<Snapshot(native')>>)
  /\ UNCHANGED <<dbVars, peerVars, journal, doing, toNode, envVars>>

\* Time passes a request's expiresAt; it no longer matters once it has ended.
Pass(r) ==
  /\ r <= asked /\ request[r].state \in {"none", "pending", "deciding"} /\ r \notin overdue /\ overdue' = overdue \union {r}
  /\ UNCHANGED <<dbVars, peerVars, nodeVars, toGw, toNode, admitted, asked, connects>>

-----------------------------------------------------------------------------
Next == \/ Connect \/ Disconnect
        \/ Create \/ Send \/ Enqueue \/ Cancel \/ Unsent
        \/ TakeReceipt \/ TakeReplay \/ Ingest \/ Refuse \/ TakeAck
        \/ Reject \/ Execute \/ Interrupted \/ Finish \/ AnswerQuery \/ ReadError
        \/ Ask \/ Withdraw \/ Complete \/ CompleteOnly \/ Close
        \/ \E r \in Requests : Respond(r) \/ Expire(r) \/ Pass(r)

Spec == Init /\ [][Next]_vars

-----------------------------------------------------------------------------
(* Properties. *)

Event == [type : {"session"}, state : SessionStates, turn : Ops, queue : Seq(Ops)]
           \union [type : {"request", "withdraw"}, request : Requests, turn : Ops]

\* Every variable keeps its type.
TypeOK ==
  /\ session \in [state : {"none"} \union SessionStates, turn : {0} \union Ops]
  /\ turns \in [Ops -> {"none", "starting", "running", "cancelling"} \union Waiting \union Ended]
  /\ op \in [Ops -> [kind : {"none", "create", "send", "queue", "cancel", "respond"},
                     turn : {0} \union Ops, request : {0} \union Requests,
                     state : {"none", "open", "confirmed", "failed"}]]
  /\ request \in [Requests -> [state : {"none", "pending", "deciding", "resolved", "cancelled", "expired"},
                               turn : {0} \union Ops, by : {0} \union Ops]]
  /\ queue \in Seq(Ops) /\ consumed \subseteq Ops
  /\ connected \in BOOLEAN /\ ready \in BOOLEAN /\ blocked \in BOOLEAN /\ replaying \in BOOLEAN
  /\ native \in [state : {"none"} \union SessionStates, turn : {0} \union Ops,
                 request : {0} \union Requests, queue : Seq(Ops), working : BOOLEAN]
  /\ journal \in [Ops -> {"none", "delivered", "unknown", "rejected", "confirmed"}]
  /\ doing \in {0} \union Ops /\ spool \in Seq(Event) /\ unacked \in BOOLEAN
  /\ toGw \in Seq(Event \union [type : {"receipt"}, op : Ops,
                   state : {"not_seen", "delivered", "unknown", "rejected", "confirmed"}])
  /\ toNode \in Seq({Error} \union [type : {"command", "query"}, op : Ops])
  /\ admitted \in 0..MaxOps /\ asked \in 0..MaxRequests
  /\ overdue \subseteq Requests /\ connects \in 0..MaxConnects

Unfinished == {i \in Ops : turns[i] \in {"starting", "running", "cancelling"} \union Waiting}

\* Whatever order receipts and events come in, at most one turn is unfinished,
\* it is the session's current one, and the two rows tell the same story.
OneTurnAtATime ==
  /\ Unfinished \subseteq {session.turn}
  /\ session.state \notin {"none", "closed"} =>
       turns[session.turn] = IF session.state = "idle" THEN "starting" ELSE session.state
  /\ session.state = "closed" => turns[session.turn] \in Ended

\* A message confirmed as queued is kept until its turn starts, and its turn
\* starts once: neither a snapshot, a replay nor a second receipt loses it or
\* brings it back.
QueuedIsKept ==
  \A i \in Ops : op[i].kind = "queue" /\ op[i].state = "confirmed" =>
    /\ i \in Range(queue) <=> i \notin consumed
    /\ i \in consumed <=> turns[i] # "none"

Executed(i) == journal[i] \in {"unknown", "confirmed"}

\* Of several sends admitted against the same ended turn the Node executes one:
\* a confirmed send is not busy any more and its turn may not have been ingested,
\* so admission alone does not prevent the second.
OneSuccessor ==
  \A i, j \in Ops :
    i # j /\ Executed(i) /\ Executed(j) /\ op[i].kind = "send" /\ op[j].kind = "send"
      => op[i].turn # op[j].turn

\* A request is answered once: after a lost receipt it is not offered again while
\* the first answer may have reached the agent.
OneAnswer ==
  \A i, j \in Ops :
    i # j /\ op[i].kind = "respond" /\ op[j].kind = "respond" /\ op[i].request = op[j].request
      => ~(Executed(i) /\ Executed(j))

\* A request is occupied exactly as long as its decision is open.
OccupiedByOpenDecision ==
  \A r \in Requests :
    request[r].state = "deciding" <=>
      \E i \in Ops : op[i].kind = "respond" /\ op[i].request = r /\ op[i].state = "open"

\* A cancel was confirmed, but the Node lost its connection before it could end
\* the turn: it goes on reporting a turn that nobody works on.
LostCancel ==
  /\ session.state = "cancelling" /\ session.turn = native.turn
  /\ native.state \in {"running"} \union Waiting /\ ~native.working

\* A second cancel may then end the turn, behind what was reported of it since.
CancelledTwice ==
  /\ session.state = "cancelling"
  /\ \E c, d \in Ops : /\ c # d /\ op[c].kind = "cancel" /\ op[d].kind = "cancel"
                       /\ op[c].turn = session.turn /\ op[d].turn = session.turn
                       /\ Executed(c) /\ Executed(d)

\* The event says that such a turn goes on.
OfLostCancel(e) ==
  /\ LostCancel \/ CancelledTwice
  /\ e.turn = session.turn /\ (e.type = "session" => e.state \in {"running"} \union Waiting)

\* The message was queued and its turn has started, but the receipt was lost.
StartedUnconfirmed(e) ==
  e.type = "session" /\ op[e.turn].kind = "queue" /\ op[e.turn].state = "open"

\* A request was given back after its turn had ended.
Leftover == \E r \in Pending : request[r].turn # session.turn

\* An event that arrives in order is refused, so that the Node hangs up and
\* replays it, for these causes only: a request past its expiry, a turn whose
\* cancel was lost, a queued message whose confirmation has not arrived, a
\* leftover request.
RefusedOnlyForCause ==
  ReadsEvent /\ ~blocked /\ ~Accepts(Head(toGw)) =>
    LET e == Head(toGw)
    IN \/ e.type = "request" /\ e.request \in overdue
       \/ OfLostCancel(e)
       \/ StartedUnconfirmed(e)
       \/ e.type = "session" /\ ClosesRequests(e.state) /\ Leftover

\* When nothing is on its way the Gateway shows the session as the Node has it.
Converged ==
  connected /\ spool = <<>> /\ doing = 0 /\ native.state # "none" =>
    /\ session.turn = native.turn /\ queue = native.queue
    /\ session.state = native.state \/ LostCancel

\* backend-design.md section 4: a late message must not reopen a request that has
\* ended, and section 8: a decision that was not sent is cleared as cancelled. A
\* request is open only while its turn is the session's and has not ended.
PendingIsCurrent ==
  \A r \in Pending : request[r].turn = session.turn /\ isActive(session.state)

\* backend-design.md section 11: after a reconnect the spool fills in the history
\* and the session is reconciled. No event that comes before that is refused.
ReconnectSynchronises == ReadsEvent /\ ~blocked /\ ~ready => Accepts(Head(toGw))
=============================================================================
