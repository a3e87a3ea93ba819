-------------------------- MODULE SessionInvariants --------------------------
(***************************************************************************)
(* What SessionLifecycleProofs proves of every reachable state: IInv, from *)
(* which the safety of commands, turns and requests follows, and MInv,     *)
(* with which it says that the replay of the spool brings the Gateway to   *)
(* the Node's session.                                                     *)
(***************************************************************************)
EXTENDS SessionLifecycle

\* Element x is in sequence q.
Has(q, x) == \E n \in 1..Len(q) : q[n] = x

\* Element x is at most once in q.
Once(q, x) == \A m, n \in 1..Len(q) : q[m] = x /\ q[n] = x => m = n

InGw(f)   == Has(toGw, f)
InNode(f) == Has(toNode, f)

\* What a receipt may say.
Words == {"not_seen", "delivered", "unknown", "rejected", "confirmed"}

ToGateway == Event \union [type : {"receipt"}, op : Ops, state : Words]
ToTheNode == {Error} \union [type : {"command", "query"}, op : Ops]

\* Operations are numbered as they are admitted, the first with the session.
Admissions ==
  /\ \A i \in Ops : op[i].kind = "none" <=> i > admitted
  /\ \A i \in Ops : op[i].state = "none" <=> op[i].kind = "none"
  /\ \A i \in Ops : op[i].kind = "respond" => op[i].request # 0
  /\ session.state = "none" => /\ admitted = 0 /\ session.turn = 0
                              /\ \A r \in Requests : request[r].state = "none"
  /\ session.state # "none" => session.turn # 0

\* The Node's session: what it works on and what it has queued was executed.
NodeSession ==
  /\ native.state # "none" => native.turn # 0
  /\ native.turn # 0 => Executed(native.turn)
  /\ \A n \in 1..Len(native.queue) : Executed(native.queue[n]) /\ native.queue[n] # native.turn
  /\ \A m, n \in 1..Len(native.queue) : native.queue[m] = native.queue[n] => m = n
  /\ native.working => native.state # "none"
  /\ native.working /\ native.state \in Waiting => native.request # 0
  /\ doing # 0 => /\ native.state # "none" /\ op[doing].kind # "none"
                  /\ op[doing].kind \in {"create", "send"} => native.state = "running"

\* Where the command of i and the reports of it may be, and what they prove.
CommandOf(i) ==
  /\ InNode(Command(i)) =>
       /\ op[i].state = "open" /\ journal[i] = "none" /\ ~InNode(Query(i))
       /\ \A s \in Words : ~InGw(Receipt(i, s))
       /\ Once(toNode, Command(i))
  /\ InNode(Query(i)) => op[i].kind # "none"
  /\ \A s \in Words : InGw(Receipt(i, s)) => op[i].kind # "none"
  /\ InGw(Receipt(i, "confirmed")) => journal[i] = "confirmed"
  /\ InGw(Receipt(i, "rejected")) \/ InGw(Receipt(i, "not_seen")) => ~Executed(i)
  /\ op[i].kind = "none" => journal[i] = "none"
  /\ op[i].state = "failed" => ~Executed(i)
  /\ op[i].state = "confirmed" => journal[i] = "confirmed"

Commands == \A i \in Ops : CommandOf(i)

\* A snapshot names only messages that the Node has queued.
Truthful(e) == e.type = "session" => \A n \in 1..Len(e.queue) : Executed(e.queue[n])

Snapshots ==
  \A e \in Event : Has(spool, e) \/ InGw(e) => Truthful(e)

\* The events among the frames w, in order, are s.
Carries(w, s) ==
  \E g \in [1..Len(s) -> 1..Len(w)] :
    /\ \A k \in 1..Len(s) : w[g[k]] = s[k]
    /\ \A k, l \in 1..Len(s) : k < l => g[k] < g[l]
    /\ \A n \in 1..Len(w) : w[n].type # "receipt" => \E k \in 1..Len(s) : g[k] = n

\* A connection on which nothing was refused carries the spool.
Line == connected /\ ~blocked => Carries(toGw, spool)

\* At most one operation that is not a queued message is open.
Serialised ==
  \A i, j \in Ops : /\ op[i].state = "open" /\ op[i].kind # "queue"
                    /\ op[j].state = "open" /\ op[j].kind # "queue"
                    => i = j

Answers(i, r) == op[i].kind = "respond" /\ op[i].request = r

\* A request and the answers to it.
Decisions ==
  /\ \A r \in Requests : request[r].by # 0 => Answers(request[r].by, r)
  /\ \A r \in Requests : request[r].state = "deciding" =>
       request[r].by # 0 /\ op[request[r].by].state = "open"
  /\ \A i \in Ops : \A r \in Requests : Answers(i, r) /\ op[i].state = "open" =>
       request[r].state = "deciding" /\ request[r].by = i
  /\ \A i \in Ops : \A r \in Requests :
       Answers(i, r) /\ request[r].state \in {"none", "pending"} => op[i].state = "failed"
  /\ \A i, j \in Ops : \A r \in Requests :
       Answers(i, r) /\ Answers(j, r) /\ i # j => op[i].state = "failed" \/ op[j].state = "failed"

\* The queue and the turns that left it.
QueueRows ==
  /\ \A n \in 1..Len(queue) : /\ op[queue[n]].kind = "queue" /\ op[queue[n]].state # "failed"
                              /\ Executed(queue[n]) /\ queue[n] \notin consumed
  /\ \A i \in Ops : op[i].kind = "queue" => (i \in consumed <=> turns[i] # "none")
  /\ \A i \in Ops : op[i].kind = "queue" /\ op[i].state = "confirmed" /\ i \notin consumed =>
       Has(queue, i)
  /\ \A i \in Ops : op[i].kind = "none" => turns[i] = "none" /\ i \notin consumed

\* A turn that has a successor is over for the Node.
Successors ==
  /\ \A k \in Ops : op[k].kind = "send" /\ Executed(k) =>
       /\ op[k].turn # 0 /\ Executed(op[k].turn)
       /\ op[k].turn # native.turn /\ ~Has(native.queue, op[k].turn)
  /\ OneSuccessor

IInv == /\ TypeOK /\ Admissions /\ NodeSession /\ Commands /\ Snapshots /\ Line /\ Serialised
        /\ Decisions /\ OneTurnAtATime /\ QueueRows /\ Successors

-----------------------------------------------------------------------------
(* The events that are not committed are a trail of legal steps from what  *)
(* the rows show to what the Node has, whatever receipts were lost, read   *)
(* late or overtaken by a snapshot.                                        *)

OnTurn == {"running"} \union Waiting
Over   == Ended \union {"closed"}

\* What the rows and the Node's session show.
Shown == [type |-> "session", state |-> session.state, turn |-> session.turn, queue |-> queue]
Own   == Snapshot(native)

\* The spool, and behind it the session as the Node has it.
Trail == Append(spool, Own)

\* Snapshot e says that turn t goes on.
GoingOn(e, t) == e.type = "session" /\ e.turn = t /\ e.state \in OnTurn

\* What one step of the Node does to a queue.
Adds(q, r) == r = q \/ \E i \in Ops : r = Append(q, i)

\* Snapshot b may be the next one after a, the operations being o. A turn that is
\* cancelled by the rows may be reported as anything.
Follows(o, a, b) ==
  \/ /\ b.turn = a.turn /\ Adds(a.queue, b.queue)
     /\ a.state = "cancelling" \/ validTransition(a.state, b.state)
  \/ /\ b.turn # a.turn /\ a.state \in Ended /\ b.state = "running"
     /\ \/ o[b.turn].kind = "send" /\ b.queue = a.queue
        \/ /\ o[b.turn].kind = "queue" /\ a.state = "completed"
           /\ a.queue # <<>> /\ b.turn = Head(a.queue) /\ b.queue = Tail(a.queue)

\* The snapshots k and l of z have no other one between them.
Adjacent(z, k, l) == l = k + 1 \/ (l = k + 2 /\ z[k + 1].type # "session")

\* The last element of a trail is the Node's session. A request or a withdrawal
\* comes before a snapshot and after one.
Shape(z) ==
  \A k \in 1..Len(z) : z[k].type # "session" =>
    /\ k + 1 < Len(z) /\ z[k + 1].type = "session"
    /\ z[k].type = "request" => GoingOn(z[k + 1], z[k].turn)
    /\ k > 1 => z[k - 1].type = "session"

\* A turn that was left does not come back, when t is the turn of the rows.
NoReturn(t, z) ==
  /\ \A k, l \in 1..Len(z) :
       k < l /\ z[k].type = "session" /\ z[l].type = "session" /\ z[l].turn = t => z[k].turn = t
  /\ \A k, l, m \in 1..Len(z) :
       /\ k < l /\ l < m /\ z[k].type = "session" /\ z[l].type = "session" /\ z[m].type = "session"
       /\ z[k].turn = z[m].turn
       => z[l].turn = z[k].turn

\* A turn that is over stays as it is, unless it is closed.
NoRevival(z) ==
  \A k, l \in 1..Len(z) :
    /\ k < l /\ z[k].type = "session" /\ z[l].type = "session"
    /\ z[k].turn = z[l].turn /\ z[k].state \in Over
    => z[l].state \in {z[k].state, "closed"}

\* A turn that has begun is no longer queued.
NoRequeue(z) ==
  \A k, l \in 1..Len(z) :
    k <= l /\ z[k].type = "session" /\ z[l].type = "session" => ~Has(z[l].queue, z[k].turn)

\* Every snapshot is a legal step from the one before.
StepByStep(o, z) ==
  \A k, l \in 1..Len(z) :
    k < l /\ z[k].type = "session" /\ z[l].type = "session" /\ Adjacent(z, k, l)
      => Follows(o, z[k], z[l])

Path(o, t, z) == Shape(z) /\ NoReturn(t, z) /\ NoRevival(z) /\ NoRequeue(z) /\ StepByStep(o, z)

\* The first snapshot of z.
First(z) == IF z[1].type = "session" THEN z[1] ELSE z[2]

\* The head of the spool is not accepted any more: its request is past the expiry,
\* or the turn that it continues is cancelled.
Stuck ==
  /\ spool # <<>>
  /\ \/ spool[1].type = "request" /\ spool[1].request \in overdue
     \/ /\ session.state = "cancelling"
        /\ spool[1].type = "request" \/ GoingOn(spool[1], session.turn)

\* What a snapshot says of turns that the rows do not know.
Ahead(e) ==
  /\ e.turn = session.turn \/ (turns[e.turn] = "none" /\ op[e.turn].kind \in {"send", "queue"})
  /\ \A n \in 1..Len(e.queue) : turns[e.queue[n]] = "none" /\ op[e.queue[n]].kind = "queue"
  /\ \A m, n \in 1..Len(e.queue) : e.queue[m] = e.queue[n] => m = n
  /\ Executed(e.turn)
  /\ e.state \in OnTurn \union {"completed", "cancelled", "closed"}

\* The session, from the create command on.
Beginning ==
  /\ \A i \in Ops : op[i].kind = "create" <=> i = 1 /\ admitted # 0
  /\ \A i \in Ops : op[i].kind \notin {"none", "create"} =>
       op[i].turn # 0 /\ turns[op[i].turn] # "none" /\ op[i].turn # i
  /\ native.state = "none" =>
       /\ spool = <<>> /\ doing = 0 /\ native.queue = <<>> /\ native.request = 0 /\ ~native.working
       /\ \A i \in Ops : ~Executed(i)
       /\ session.state # "none" /\ op[1].state # "failed" => session.state = "idle" /\ session.turn = 1
  /\ native.state # "none" => Executed(1) /\ session.state # "none" /\ session.state # "failed"
  /\ \A i \in Ops : turns[i] # "none" => i = 1 \/ Executed(i)

\* The Node's session between its steps.
Engaged ==
  /\ native.state \in {"none", "completed", "cancelled", "closed"} \union OnTurn
  /\ native.request # 0 => native.state \in Waiting
  /\ native.working => native.state \in OnTurn
  /\ doing # 0 =>
       /\ connected /\ native.state \in OnTurn
       /\ op[doing].kind \in {"create", "send"} => native.turn = doing /\ native.state = "running" /\ ~native.working
       /\ op[doing].kind \notin {"create", "send"} => native.turn = op[doing].turn
       /\ op[doing].kind = "cancel" => Executed(doing)
       /\ op[doing].kind = "respond" => native.state \in Waiting /\ native.request # 0

\* An executed cancel has stopped the work on its turn.
CancelledWork ==
  \A c \in Ops : op[c].kind = "cancel" /\ Executed(c) =>
    /\ Executed(op[c].turn) /\ ~Has(native.queue, op[c].turn)
    /\ op[c].turn = native.turn => ~native.working /\ native.request = 0
    /\ doing # 0 /\ op[doing].kind \in {"create", "send", "queue"} => op[c].turn # native.turn
    /\ \A j \in Ops : InNode(Command(j)) /\ op[j].kind = "queue" => op[j].turn # op[c].turn

\* A confirmed cancel has marked its turn, and nothing else marks one.
CancelledRows ==
  /\ \A c \in Ops : op[c].kind = "cancel" /\ op[c].state = "confirmed" /\ op[c].turn = session.turn =>
       ~isActive(session.state) \/ session.state = "cancelling"
  /\ session.state = "cancelling" =>
       \E c \in Ops : op[c].kind = "cancel" /\ Executed(c) /\ op[c].turn = session.turn

\* Nothing is admitted behind a control on its way, and nothing before the
\* connection is ready.
Admitted ==
  /\ \A m, n \in 1..Len(toNode) : \A i, j \in Ops :
       m < n /\ toNode[m] = Command(i) /\ toNode[n] = Command(j) => op[i].kind = "queue"
  /\ connected /\ ~ready => doing = 0 /\ \A i \in Ops : ~InNode(Command(i))

\* Every snapshot of the trail.
Points == native.state # "none" => \A k \in 1..Len(Trail) : Trail[k].type = "session" => Ahead(Trail[k])

Paths == native.state # "none" => /\ Path(op, session.turn, Trail)
                                  /\ Stuck \/ Follows(op, Shown, First(Trail))

\* The last thing the Node reported is what it has.
Latest == IF spool = <<>> THEN Shown ELSE spool[Len(spool)]

Level == /\ Latest.turn = native.turn /\ Latest.queue = native.queue
         /\ Latest.state = native.state \/ (spool = <<>> /\ LostCancel)

Levels ==
  native.state # "none" =>
    /\ connected /\ doing = 0 => Level
    /\ native.state \in Over => Level
    /\ doing # 0 /\ op[doing].kind \in {"cancel", "respond"} => Level
    /\ native.working => Latest.turn = native.turn /\ Latest.state = native.state

Recorded(i) == Has(queue, i) \/ i \in consumed

\* Snapshot m of z or one before it shows the message i in the queue.
Queued(z, m, i) == \E k \in 1..Len(z) : k <= m /\ z[k].type = "session" /\ Has(z[k].queue, i)

\* An executed message is somewhere.
KeptByNode ==
  \A i \in Ops : op[i].kind = "queue" /\ Executed(i) =>
    Has(native.queue, i) \/ Recorded(i) \/ Queued(spool, Len(spool), i)

\* A snapshot behind a confirmation knows the message, or one before it did.
BehindReceipt ==
  connected /\ ~blocked =>
    \A p, q \in 1..Len(toGw) : \A i \in Ops :
      /\ p < q /\ toGw[p] = Receipt(i, "confirmed") /\ toGw[q].type = "session"
      => /\ op[i].kind = "queue" => Recorded(i) \/ Queued(toGw, q, i)
         /\ op[i].kind = "cancel" => ~GoingOn(toGw[q], op[i].turn)

\* A message is queued while its turn goes on.
BeforeTurnEnds ==
  \A m \in 1..Len(spool) : \A i \in Ops :
    /\ op[i].kind = "queue" /\ Executed(i) /\ spool[m].type = "session"
    /\ ~GoingOn(spool[m], op[i].turn)
    => Recorded(i) \/ Queued(spool, m, i)

\* What was refused is not accepted later on the same connection.
RefusedHead ==
  connected /\ blocked =>
    /\ spool # <<>> /\ spool[1].type # "withdraw"
    /\ spool[1].type = "request" => Stuck
    /\ GoingOn(spool[1], session.turn) => Stuck

OverdueHead == spool # <<>> /\ spool[1].type = "request" /\ spool[1].request \in overdue

\* A turn that the rows cancelled and the spool continues is one whose cancel was cut
\* off, and that nothing or a second cancel ended.
CutOff ==
  \A m \in 1..Len(spool) : session.state = "cancelling" /\ GoingOn(spool[m], session.turn) =>
    OverdueHead \/ CancelledTwice \/ (LostCancel /\ doing = 0)

\* Requests and withdrawals find what they need.
Requested ==
  /\ \A k \in 1..Len(spool) : spool[k].type = "request" =>
       /\ k = 1 => spool[k].turn = session.turn /\ session.state \in {"running", "cancelling"}
       /\ k > 1 => spool[k].turn = spool[k - 1].turn /\ spool[k - 1].state = "running"
       /\ request[spool[k].request].state = "none" /\ spool[k].request <= asked
       /\ \A l \in 1..Len(spool) : spool[l].type = "request" /\ spool[l].request = spool[k].request => l = k
  /\ \A r \in Requests : request[r].state # "none" => r <= asked
  /\ native.request <= asked

Known(r, t, m) ==
  \/ request[r].state # "none" /\ request[r].turn = t
  \/ \E k \in 1..Len(spool) : k <= m /\ spool[k] = Asking(r, t)

Withdrawals ==
  /\ \A k \in 1..Len(spool) : spool[k].type = "withdraw" => Known(spool[k].request, spool[k].turn, k - 1)
  /\ native.request # 0 => Known(native.request, native.turn, Len(spool))

MInv == /\ Beginning /\ Engaged /\ CancelledWork /\ CancelledRows /\ Admitted /\ Points /\ Paths /\ Levels
        /\ KeptByNode /\ BehindReceipt /\ BeforeTurnEnds /\ RefusedHead /\ CutOff
        /\ Requested /\ Withdrawals

=============================================================================
