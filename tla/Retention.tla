------------------------------ MODULE Retention ------------------------------
(***************************************************************************)
(* maintenance(): what the Gateway forgets, and when. Content of ended     *)
(* sessions is purged after ContentRetention, a purged and resolved        *)
(* session is retired with all its rows after MetadataRetention, payloads  *)
(* and detached operations are cleared on the way. The database refuses a  *)
(* DELETE that would leave a dangling foreign key; an error ends the run.  *)
(*                                                                         *)
(* Rows are keys <<table, id>>; their foreign keys are those of            *)
(* database/migrations. How a command travels is CommandDelivery's and     *)
(* what a turn does SessionLifecycle's subject: here an operation is open, *)
(* confirmed or failed and a session active, ended or closed. A row that   *)
(* stands for many (events, timeline, diffs and checkpoints of a session)  *)
(* is one row.                                                             *)
(***************************************************************************)
EXTENDS Naturals, FiniteSets

CONSTANTS
  NumSessions, NumOps, \* bounds: sessions and operations of a behaviour
  Content, Metadata,   \* ContentRetention and MetadataRetention, in days
  Grace                \* days a final operation keeps its payload

ASSUME ConstantsAssumption ==
  /\ NumSessions \in Nat /\ NumOps \in Nat
  /\ Content \in Nat /\ Metadata \in Nat /\ Grace \in Nat
  /\ Grace <= Metadata /\ Content <= Metadata

Sessions == 1..NumSessions
Ops      == 1..NumOps
None     == 0          \* no session
Oldest   == Metadata + 1   \* ages are told apart up to here
Ages     == 0..Oldest

VARIABLES
  rows,      \* the rows that exist
  sess,      \* sessions and their current turn: state, history, parent, and the days
             \* since the turn ended
  op,        \* operations: kind, session, state, days since the final update, whether
             \* the payload is kept and the reserved turn has started
  phase      \* where maintenance() is; it holds the mutex unless it is idle

dbVars == <<rows, sess, op>>
vars   == <<dbVars, phase>>

SessionRow(s) == <<"sessions", s>>
TurnRow(s)    == <<"turns", s>>
ContentRow(s) == <<"session_events", s>>
ReceiptRow(s) == <<"node_event_receipts", s>>
NoticeRow(s)  == <<"notifications", s>>
PushRow(s)    == <<"subscription_outbox", s>>
ShareRow(s)   == <<"session_shares", s>>
OpRow(o)      == <<"operations", o>>
OutboxRow(o)  == <<"command_outbox", o>>
QueueRow(o)   == <<"queue_items", o>>
RequestRow(o) == <<"interaction_requests", o>>
SharedRow(o)  == <<"session_share_commands", o>>

SessionTables == {"sessions", "turns", "session_events", "node_event_receipts",
                  "notifications", "subscription_outbox", "session_shares"}
OpTables == {"operations", "command_outbox", "queue_items", "interaction_requests",
             "session_share_commands"}
Keys == (SessionTables \X Sessions) \union (OpTables \X Ops)

Operation == [kind : {"none", "create", "send", "queue", "respond", "history", "local", "delete", "import"},
              session : Sessions \union {None}, state : {"none", "open", "confirmed", "failed"},
              age : Ages, payload : BOOLEAN, started : BOOLEAN]
Session   == [state : {"none", "idle", "active", "ended", "closed"},
              history : {"available", "purged"}, parent : Sessions \union {None}, ended : Ages]

NoOperation == [kind |-> "none", session |-> None, state |-> "none", age |-> 0,
                payload |-> FALSE, started |-> FALSE]
NoSession   == [state |-> "none", history |-> "available", parent |-> None, ended |-> 0]

Init ==
  /\ rows = {} /\ phase = "idle"
  /\ sess = [s \in Sessions |-> NoSession]
  /\ op = [o \in Ops |-> NoOperation]

-----------------------------------------------------------------------------
(* Foreign keys. *)

\* The rows a row refers to and cannot outlive.
References(k) ==
  LET x == k[2] IN
  CASE k[1] = "operations"             -> {SessionRow(op[x].session), TurnRow(op[x].session)}
    [] k[1] = "command_outbox"         -> {OpRow(x)}
    [] k[1] = "queue_items"            -> {OpRow(x), SessionRow(op[x].session)}
    [] k[1] = "interaction_requests"   -> {OpRow(x), SessionRow(op[x].session),
                                           TurnRow(op[x].session)}
    [] k[1] = "session_share_commands" -> {OpRow(x)}
    [] k[1] = "turns"                  -> {SessionRow(x)}
    [] k[1] = "session_events"         -> {SessionRow(x), TurnRow(x)}
    [] k[1] = "node_event_receipts"    -> {SessionRow(x)}
    [] k[1] = "notifications"          -> {SessionRow(x)}
    [] OTHER                           -> {}

\* The rows ON DELETE CASCADE removes with a row.
Cascade(k) ==
  LET x == k[2] IN
  CASE k[1] = "notifications"  -> {PushRow(x)}
    [] k[1] = "sessions"       -> {ShareRow(x)} \union
                                  {SharedRow(o) : o \in {p \in Ops : op[p].session = x}}
    [] OTHER                   -> {}

\* One DELETE statement: what is left of a set of rows.
Delete(left, gone) == left \ (gone \union UNION {Cascade(k) : k \in gone})

\* ... and whether the database accepts it.
Refused(left, gone) == \E k \in Delete(left, gone) : References(k) \cap (gone \cap left) # {}

-----------------------------------------------------------------------------
(* Users and Nodes, while maintenance() does not hold the mutex. *)

Idle == phase = "idle" /\ UNCHANGED phase

OpsOf(s)    == {o \in Ops : op[o].session = s /\ OpRow(o) \in rows}
Open(s)     == {o \in OpsOf(s) : op[o].state = "open"}
Exists(s)   == SessionRow(s) \in rows
Unstarted(o) == op[o].state = "confirmed" /\ ~op[o].started

Fresh(kind, s, state) == [kind |-> kind, session |-> s, state |-> state, age |-> 0,
                          payload |-> state = "open", started |-> FALSE]

\* Identifiers are given out in order.
NewOp(o)      == op[o].kind = "none" /\ \A p \in 1..(o - 1) : op[p].kind # "none"
NewSession(s) == sess[s].state = "none" /\ \A t \in 1..(s - 1) : sess[t].state # "none"

\* command(): createSession, with a parent whose history it continues.
Create(s, o, p) ==
  /\ Idle /\ NewSession(s) /\ NewOp(o)
  /\ p = None \/ (p # s /\ Exists(p) /\ sess[p].history = "available")
  /\ sess' = [sess EXCEPT ![s].state = "idle", ![s].parent = p]
  /\ op' = [op EXCEPT ![o] = Fresh("create", s, "open")]
  /\ rows' = rows \union {SessionRow(s), TurnRow(s), OpRow(o), OutboxRow(o)}

\* command() on a session: a message starts a turn of an ended session, or waits
\* in the queue of a running one; an answer goes to a request of the running turn.
Command(s, o, kind) ==
  /\ Idle /\ Exists(s) /\ NewOp(o)
  /\ sess[s].history = "available"
  /\ {p \in Open(s) : op[p].kind # "queue"} = {}
  /\ \/ kind = "send" /\ sess[s].state = "ended"
     \/ kind \in {"queue", "respond"} /\ sess[s].state = "active"
  /\ op' = [op EXCEPT ![o] = Fresh(kind, s, "open")]
  /\ rows' = rows \union {OpRow(o), OutboxRow(o)}
                  \union (IF kind = "respond" THEN {RequestRow(o)} ELSE {})
  /\ UNCHANGED sess

\* sharedCommand() with recordShareAdmission: the same by the recipient of a share,
\* whose row is here from its first use.
SharedSend(s, o) ==
  /\ Idle /\ Exists(s) /\ NewOp(o)
  /\ sess[s].history = "available" /\ sess[s].state = "ended"
  /\ {p \in Open(s) : op[p].kind # "queue"} = {}
  /\ op' = [op EXCEPT ![o] = Fresh("send", s, "open")]
  /\ rows' = rows \union {OpRow(o), OutboxRow(o), ShareRow(s), SharedRow(o)}
  /\ UNCHANGED sess

\* command(): projectHistory, a native command of no session.
ProjectHistory(o) ==
  /\ Idle /\ NewOp(o)
  /\ op' = [op EXCEPT ![o] = Fresh("history", None, "open")]
  /\ rows' = rows \union {OpRow(o), OutboxRow(o)}
  /\ UNCHANGED sess

\* localCommand(): pairing, revocation, read marks; final at once.
LocalCommand(o) ==
  /\ Idle /\ NewOp(o)
  /\ op' = [op EXCEPT ![o] = Fresh("local", None, "confirmed")]
  /\ rows' = rows \union {OpRow(o)}
  /\ UNCHANGED sess

\* The rows a purge removes.
ContentRows(s) == {ContentRow(s)} \union {RequestRow(o) : o \in OpsOf(s)}
                                  \union {QueueRow(o) : o \in OpsOf(s)}

\* historyCommand(): deleteHistory, for a closed and resolved session.
DeleteHistory(s, o) ==
  /\ Idle /\ Exists(s) /\ NewOp(o)
  /\ sess[s].state = "closed" /\ Open(s) = {}
  /\ sess' = [sess EXCEPT ![s].history = "purged"]
  /\ op' = [p \in Ops |-> IF p = o THEN Fresh("delete", s, "confirmed")
                          ELSE IF p \in OpsOf(s) THEN [op[p] EXCEPT !.payload = FALSE]
                          ELSE op[p]]
  /\ rows' = Delete(Delete(rows, {NoticeRow(s)}), ContentRows(s)) \union {OpRow(o)}

\* historyCommand(): importHistory, a closed session with its content, without a command to the Node.
ImportHistory(s, o) ==
  /\ Idle /\ NewSession(s) /\ NewOp(o)
  /\ sess' = [sess EXCEPT ![s].state = "closed"]
  /\ op' = [op EXCEPT ![o] = Fresh("import", s, "confirmed")]
  /\ rows' = rows \union {SessionRow(s), TurnRow(s), ContentRow(s), OpRow(o)}

\* Mutated form: a receipt is recorded as the journal words it.
SettleVerbatim(o, outcome) ==
  /\ Idle /\ OpRow(o) \in rows /\ op[o].state = "open"
  /\ op' = [op EXCEPT ![o].state = IF outcome = "failed" THEN "rejected" ELSE outcome]
  /\ UNCHANGED <<rows, sess>>

\* acknowledge(), failUnsent(): an operation becomes final; a failed create ends
\* a session that never reported.
Settle(o, outcome) ==
  LET s == op[o].session IN
  /\ Idle /\ OpRow(o) \in rows /\ op[o].state = "open"
  /\ op' = [op EXCEPT ![o].state = outcome, ![o].age = 0,
                      ![o].started = @ \/ op[o].kind \notin {"send", "queue"}]
  /\ rows' = rows \union (IF op[o].kind = "queue" /\ outcome = "confirmed"
                          THEN {QueueRow(o)} ELSE {})
  /\ sess' = IF op[o].kind = "create" /\ outcome = "failed" /\ sess[s].state = "idle"
             THEN [sess EXCEPT ![s].state = "ended", ![s].ended = 0]
             ELSE sess

\* sessionUpdate(): the Node reports the first turn as running, a turn as ended or
\* the session as closed.
Report(s, state) ==
  /\ Idle /\ Exists(s) /\ sess[s].history = "available"
  /\ \/ state = "active" /\ sess[s].state = "idle"
     \/ state = "ended" /\ sess[s].state = "active"
     \/ state = "closed" /\ sess[s].state # "closed"
  /\ sess' = [sess EXCEPT ![s].state = state,
                          ![s].ended = IF sess[s].state \in {"idle", "active"} THEN 0 ELSE @]
  /\ rows' = rows \union {ContentRow(s), ReceiptRow(s)}
                  \union (IF state = "ended" THEN {NoticeRow(s), PushRow(s)} ELSE {})
  /\ UNCHANGED op

\* sessionUpdate(): the reserved turn of a message begins; its reservation is
\* read from the payload.
Start(o) ==
  LET s == op[o].session IN
  /\ Idle /\ OpRow(o) \in rows /\ op[o].kind \in {"send", "queue"}
  /\ op[o].state \in (IF op[o].kind = "queue" THEN {"confirmed"} ELSE {"open", "confirmed"})
  /\ ~op[o].started /\ op[o].payload
  /\ sess[s].history = "available" /\ sess[s].state = "ended"
  /\ sess' = [sess EXCEPT ![s].state = "active", ![s].ended = 0]
  /\ op' = [op EXCEPT ![o].started = TRUE]
  /\ rows' = rows \union {ContentRow(s), ReceiptRow(s)}

\* Another day without maintenance() running. Ages advance while some statement
\* looks at them.
Day ==
  LET older(age, limit) == IF age <= limit THEN age + 1 ELSE age IN
  /\ Idle
  /\ sess' = [s \in Sessions |-> IF Exists(s) /\ sess[s].state \in {"ended", "closed"}
                                 THEN [sess[s] EXCEPT !.ended = older(@, Oldest - 1)] ELSE sess[s]]
  /\ op' = [o \in Ops |->
       IF OpRow(o) \notin rows \/ op[o].state = "open" THEN op[o]
       ELSE [op[o] EXCEPT !.age = older(@, IF op[o].session = None THEN Oldest - 1 ELSE Grace)]]
  /\ UNCHANGED rows

-----------------------------------------------------------------------------
(* maintenance(). *)

Queued(s) == \E o \in OpsOf(s) : QueueRow(o) \in rows /\ ~op[o].started

\* Mutated form: the uncertain outcome of an operation does not hold a session.
PurgeableAnyway(s) ==
  /\ Exists(s) /\ sess[s].history = "available" /\ sess[s].state \in {"ended", "closed"}
  /\ sess[s].ended > Content /\ ~Queued(s)

\* The sessions whose content is due.
Purgeable(s) ==
  /\ Exists(s) /\ sess[s].history = "available" /\ sess[s].state \in {"ended", "closed"}
  /\ sess[s].ended > Content
  /\ Open(s) = {} /\ ~Queued(s)

\* Mutated form: only sessions the user has closed.
RetirableClosed(s) ==
  /\ Exists(s) /\ sess[s].history = "purged" /\ sess[s].state = "closed"
  /\ sess[s].ended > Metadata
  /\ \A c \in Sessions : Exists(c) => sess[c].parent # s
  /\ Open(s) = {}

\* The sessions that may be forgotten.
Retirable(s) ==
  /\ Exists(s) /\ sess[s].history = "purged"
  /\ sess[s].ended > Metadata
  /\ \A c \in Sessions : Exists(c) => sess[c].parent # s
  /\ Open(s) = {}

\* One transaction per session the SELECT returned; an error or a crash leaves the
\* rest of them, and of the run, undone.
Purge(done) ==
  LET due == {s \in Sessions : Purgeable(s)} IN
  /\ phase = "idle" /\ done \subseteq due
  /\ rows' = Delete(rows, UNION {ContentRows(s) : s \in done})
  /\ sess' = [s \in Sessions |-> IF s \in done THEN [sess[s] EXCEPT !.history = "purged"]
                                              ELSE sess[s]]
  /\ phase' = IF done = due THEN "retire" ELSE "idle"
  /\ UNCHANGED op

\* Mutated form: the outbox is emptied after the operations.
RetireSwapped(s) ==
  <<{NoticeRow(s)}, {ReceiptRow(s)}, {OpRow(o) : o \in OpsOf(s)},
    {OutboxRow(o) : o \in OpsOf(s)}, {TurnRow(s)}, {SessionRow(s)}>>

\* The DELETE statements of the transaction that retires a session, in order.
RetireStatements(s) ==
  <<{NoticeRow(s)}, {ReceiptRow(s)}, {OutboxRow(o) : o \in OpsOf(s)},
    {OpRow(o) : o \in OpsOf(s)}, {TurnRow(s)}, {SessionRow(s)}>>

\* After[i] is what the first i - 1 statements leave.
After(s) ==
  LET q == RetireStatements(s)
      left[i \in 1..7] == IF i = 1 THEN rows ELSE Delete(left[i - 1], q[i - 1])
  IN left

RetireRefused(s) == \E i \in 1..6 : Refused(After(s)[i], RetireStatements(s)[i])

\* One transaction per session again; the first one that is refused ends the run.
Retire(done) ==
  LET due == {s \in Sessions : Retirable(s)} IN
  /\ phase = "retire" /\ done \subseteq {s \in due : ~RetireRefused(s)}
  /\ rows' = {k \in rows : \A s \in done : k \in After(s)[7]}
  /\ phase' = IF done = due THEN "clear" ELSE "idle"
  /\ UNCHANGED <<sess, op>>

\* Mutated form: only the queue protects a payload.
ExpendableReserved(o) ==
  /\ op[o].state \in {"confirmed", "failed"} /\ op[o].age > Grace
  /\ ~(QueueRow(o) \in rows /\ ~op[o].started)

\* The payload is not needed to hand a reserved turn over.
Expendable(o) ==
  /\ op[o].state \in {"confirmed", "failed"} /\ op[o].age > Grace
  /\ ~(QueueRow(o) \in rows /\ ~op[o].started)
  /\ ~(op[o].kind = "send" /\ Unstarted(o))

\* Operations of no session.
Detached == {o \in Ops : /\ OpRow(o) \in rows /\ op[o].session = None
                         /\ op[o].state \in {"confirmed", "failed"} /\ op[o].age > Metadata}

OldReceipts == {ReceiptRow(s) : s \in {t \in Sessions : sess[t].ended > Metadata}}

DetachedRefused == Refused(rows, {OpRow(o) : o \in Detached})

\* The remaining statements: payloads, operations of no session, receipts. The last
\* two are not reached after an error, nor the last one when the other is refused.
Clear(complete) ==
  /\ phase = "clear" /\ phase' = "idle"
  /\ op' = [o \in Ops |-> IF OpRow(o) \in rows /\ Expendable(o)
                          THEN [op[o] EXCEPT !.payload = FALSE] ELSE op[o]]
  /\ rows' = IF ~complete \/ DetachedRefused THEN rows
             ELSE Delete(Delete(rows, {OpRow(o) : o \in Detached}), OldReceipts)
  /\ UNCHANGED sess

\* A database error, a timeout or a crash between two statements.
Interrupted ==
  /\ phase # "idle" /\ phase' = "idle"
  /\ UNCHANGED dbVars

-----------------------------------------------------------------------------
UserNext ==
  \/ \E s \in Sessions, o \in Ops :
       \/ \E p \in Sessions \union {None} : Create(s, o, p)
       \/ \E kind \in {"send", "queue", "respond"} : Command(s, o, kind)
       \/ SharedSend(s, o)
       \/ DeleteHistory(s, o) \/ ImportHistory(s, o)
  \/ \E o \in Ops : \/ ProjectHistory(o) \/ LocalCommand(o) \/ Start(o)
                    \/ \E outcome \in {"confirmed", "failed"} : Settle(o, outcome)
  \/ \E s \in Sessions, state \in {"active", "ended", "closed"} : Report(s, state)

MaintenanceNext ==
  \/ \E done \in SUBSET Sessions : Purge(done) \/ Retire(done)
  \/ \E complete \in BOOLEAN : Clear(complete)

Next == UserNext \/ Day \/ MaintenanceNext \/ Interrupted

Spec == Init /\ [][Next]_vars

\* The run comes through a phase without an error of its own making.
PurgeAll  == /\ phase = "idle"
             /\ \E done \in {{s \in Sessions : Purgeable(s)}} : Purge(done)
RetireAll == /\ phase = "retire"
             /\ \E done \in {{s \in Sessions : Retirable(s) /\ ~RetireRefused(s)}} : Retire(done)

\* Days pass, and maintenance() is not interrupted for ever.
Fairness == SF_vars(Day) /\ SF_vars(PurgeAll) /\ SF_vars(RetireAll) /\ WF_vars(Clear(TRUE))

FairSpec == Spec /\ Fairness

-----------------------------------------------------------------------------
(* Properties. *)

\* The type invariant: the states maintenance() tells apart are the only ones commands,
\* receipts and reports write.
TypeOK ==
  /\ rows \subseteq Keys
  /\ sess \in [Sessions -> Session]
  /\ op \in [Ops -> Operation]
  /\ phase \in {"idle", "retire", "clear"}

\* What is not resolved is not forgotten: while the outcome of an operation is open
\* its row, its outbox row and its payload are there, and so is the history of its
\* session (the tombstones of maintenance.go 193).
UnresolvedKept ==
  \A o \in Ops : op[o].state = "open" =>
    /\ OpRow(o) \in rows /\ OutboxRow(o) \in rows /\ op[o].payload
    /\ op[o].session # None => /\ Exists(op[o].session)
                               /\ sess[op[o].session].history = "available"

\* A confirmed message whose turn the Node has not started keeps the payload that
\* reserves the turn, and a queued one the history of its session as well, unless
\* the Node has closed the session (sessionUpdate could not hand the turn over).
HandoverKept ==
  \A o \in Ops :
    op[o].kind \in {"send", "queue"} /\ Unstarted(o) /\ sess[op[o].session].state # "closed" =>
      /\ OpRow(o) \in rows => op[o].payload
      /\ op[o].kind = "queue" => OpRow(o) \in rows /\ sess[op[o].session].history = "available"

\* The database refuses the statements of maintenance() for two causes only: a
\* command sent through a share refers to an operation of the session, and a
\* projectHistory command has an outbox row that nothing removes.
RefusedOnlyForCause ==
  /\ phase = "retire" => \A s \in Sessions : Retirable(s) /\ RetireRefused(s) =>
       \E o \in OpsOf(s) : SharedRow(o) \in rows
  /\ phase = "clear" /\ DetachedRefused =>
       \E o \in Detached : op[o].kind = "history"

\* A session that may be forgotten: ended, resolved, without unconsumed messages.
Forgettable(s) ==
  /\ Exists(s) /\ sess[s].state \in {"ended", "closed"} /\ Open(s) = {} /\ ~Queued(s)
  /\ \A c \in Sessions : Exists(c) => sess[c].parent # s

\* The session of a shared command stands in the way of every other session.
Obstructed == \E o \in Ops : SharedRow(o) \in rows

\* A session that may be forgotten is forgotten, unless a shared command obstructs
\* maintenance() or the session is taken up again.
EventuallyForgotten ==
  \A s \in Sessions : Forgettable(s) ~> (~Forgettable(s) \/ Obstructed)

\* backend-design.md 215: a resolved and ended session is removed in the end.
EverySessionForgotten == \A s \in Sessions : Forgettable(s) ~> ~Forgettable(s)

\* backend-design.md 215: a session with work in hand is not purged. A confirmed
\* message is work in hand although its turn has not been reported yet.
AcceptedWorkKept ==
  \A o \in Ops : op[o].kind = "send" /\ Unstarted(o) /\ sess[op[o].session].state # "closed" =>
    OpRow(o) \in rows /\ sess[op[o].session].history = "available"
=============================================================================
