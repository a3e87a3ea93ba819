----------------------- MODULE SessionLifecycleProofs -----------------------
(***************************************************************************)
(* The inductive invariants of SessionLifecycle (SessionInvariants) and    *)
(* what follows from them, for any number of commands, requests, queued    *)
(* messages and connections.                                               *)
(***************************************************************************)
EXTENDS SessionInvariants, SequenceTheorems, FiniteSetTheorems, TLAPS

-----------------------------------------------------------------------------
(* Sequences and frames. *)

\* 0 is no operation and no request.
LEMMA Zero == 0 \notin Ops /\ 0 \notin Requests /\ Ops \subseteq Nat /\ Requests \subseteq Nat
  BY ConstantsAssumption DEF Ops, Requests

\* What a new last element changes.
LEMMA AppendFacts ==
  ASSUME NEW S, NEW q \in Seq(S), NEW x \in S
  PROVE  /\ Append(q, x) \in Seq(S) /\ Len(Append(q, x)) = Len(q) + 1
         /\ \A n \in 1..Len(q) : Append(q, x)[n] = q[n]
         /\ Append(q, x)[Len(q) + 1] = x
         /\ \A n \in 1..Len(Append(q, x)) : n \in 1..Len(q) \/ n = Len(q) + 1
         /\ \A y : Has(Append(q, x), y) <=> Has(q, y) \/ y = x
<1>1. /\ Append(q, x) \in Seq(S) /\ Len(Append(q, x)) = Len(q) + 1 /\ Len(q) \in Nat
      /\ \A n \in 1..Len(q) : Append(q, x)[n] = q[n]
      /\ Append(q, x)[Len(q) + 1] = x
  OBVIOUS
<1>2. \A n \in 1..Len(Append(q, x)) : n \in 1..Len(q) \/ n = Len(q) + 1
  BY <1>1
<1>3. \A y : Has(Append(q, x), y) <=> Has(q, y) \/ y = x
  BY <1>1, <1>2 DEF Has
<1>4. QED
  BY <1>1, <1>2, <1>3

\* What is left when the first element is taken.
LEMMA TailFacts ==
  ASSUME NEW S, NEW q \in Seq(S), q # <<>>
  PROVE  /\ Tail(q) \in Seq(S) /\ Head(q) \in S /\ Head(q) = q[1] /\ 1 \in 1..Len(q)
         /\ Len(Tail(q)) = Len(q) - 1 /\ Len(q) \in Nat
         /\ \A n \in 1..Len(Tail(q)) : n + 1 \in 1..Len(q) /\ Tail(q)[n] = q[n + 1] /\ n + 1 # 1
         /\ Has(q, Head(q))
         /\ \A y : Has(Tail(q), y) => Has(q, y)
         /\ \A y : Has(q, y) => y = Head(q) \/ Has(Tail(q), y)
<1>1. /\ Tail(q) \in Seq(S) /\ Head(q) \in S /\ Head(q) = q[1] /\ Len(q) >= 1
      /\ Len(Tail(q)) = Len(q) - 1 /\ Len(q) \in Nat
      /\ \A n \in 1..Len(Tail(q)) : Tail(q)[n] = q[n + 1]
  OBVIOUS
<1>2. /\ 1 \in 1..Len(q)
      /\ \A n \in 1..Len(Tail(q)) : n + 1 \in 1..Len(q) /\ n + 1 # 1
      /\ \A n \in 1..Len(q) : n = 1 \/ (n - 1 \in 1..Len(Tail(q)) /\ (n - 1) + 1 = n)
  BY <1>1
<1>3. Has(q, Head(q)) /\ \A y : Has(Tail(q), y) => Has(q, y)
  BY <1>1, <1>2 DEF Has
<1>4. \A y : Has(q, y) => y = Head(q) \/ Has(Tail(q), y)
  BY <1>1, <1>2 DEF Has
<1>5. QED
  BY <1>1, <1>2, <1>3, <1>4

\* What is left when element n is taken.
LEMMA RemoveFacts ==
  ASSUME NEW S, NEW q \in Seq(S), NEW n \in 1..Len(q)
  PROVE  /\ RemoveAt(q, n) \in Seq(S) /\ Len(RemoveAt(q, n)) = Len(q) - 1 /\ Len(q) \in Nat
         /\ \A m \in 1..Len(RemoveAt(q, n)) :
              RemoveAt(q, n)[m] = IF m < n THEN q[m] ELSE q[m + 1]
         /\ \A y : Has(RemoveAt(q, n), y) => Has(q, y)
<1> DEFINE a == SubSeq(q, 1, n - 1)
           b == SubSeq(q, n + 1, Len(q))
           r == RemoveAt(q, n)
<1>0. Len(q) \in Nat /\ n \in Nat /\ 1 <= n /\ n <= Len(q)
  OBVIOUS
<1>1. a \in Seq(S) /\ Len(a) = n - 1 /\ \A m \in 1..(n - 1) : a[m] = q[m]
  BY <1>0
<1>2. b \in Seq(S) /\ Len(b) = Len(q) - n /\ \A m \in 1..(Len(q) - n) : b[m] = q[n + m]
  BY <1>0
<1>3. r = a \o b
  BY DEF RemoveAt
<1> HIDE DEF a, b, r
<1>4. /\ r \in Seq(S) /\ Len(r) = Len(q) - 1
      /\ \A m \in 1..(n - 1) : r[m] = a[m]
      /\ \A m \in n..Len(r) : r[m] = b[m - (n - 1)]
  BY <1>0, <1>1, <1>2, <1>3
<1>5. ASSUME NEW m \in 1..Len(r) PROVE r[m] = IF m < n THEN q[m] ELSE q[m + 1]
  <2>1. CASE m < n
    BY <1>0, <1>1, <1>4, <2>1
  <2>2. CASE ~(m < n)
    <3>1. m - (n - 1) \in 1..(Len(q) - n) /\ n + (m - (n - 1)) = m + 1 /\ m \in n..Len(r)
      BY <1>0, <1>4, <2>2
    <3>2. r[m] = b[m - (n - 1)]
      BY <1>4, <3>1
    <3>3. b[m - (n - 1)] = q[n + (m - (n - 1))]
      BY <1>2, <3>1
    <3> QED BY <2>2, <3>1, <3>2, <3>3
  <2> QED BY <2>1, <2>2
<1>6. \A m \in 1..Len(r) : m \in 1..Len(q) /\ m + 1 \in 1..Len(q)
  BY <1>0, <1>4
<1>7. \A y : Has(r, y) => Has(q, y)
  BY <1>5, <1>6 DEF Has
<1> QED BY <1>0, <1>4, <1>5, <1>7 DEF r

\* What is in two sequences one after the other.
LEMMA ConcatFacts ==
  ASSUME NEW S, NEW q \in Seq(S), NEW r \in Seq(S)
  PROVE  /\ q \o r \in Seq(S)
         /\ \A n \in 1..Len(q \o r) : \/ n \in 1..Len(q) /\ (q \o r)[n] = q[n]
                                      \/ n - Len(q) \in 1..Len(r) /\ (q \o r)[n] = r[n - Len(q)]
         /\ \A y : Has(q \o r, y) => Has(q, y) \/ Has(r, y)
<1>1. /\ q \o r \in Seq(S) /\ Len(q) \in Nat /\ Len(r) \in Nat /\ Len(q \o r) = Len(q) + Len(r)
      /\ \A n \in 1..Len(q) : (q \o r)[n] = q[n]
      /\ \A n \in (Len(q) + 1)..(Len(q) + Len(r)) : (q \o r)[n] = r[n - Len(q)]
  OBVIOUS
<1>2. ASSUME NEW n \in 1..Len(q \o r)
      PROVE  \/ n \in 1..Len(q) /\ (q \o r)[n] = q[n]
             \/ n - Len(q) \in 1..Len(r) /\ (q \o r)[n] = r[n - Len(q)]
  <2>1. CASE n <= Len(q)
    BY <1>1, <2>1
  <2>2. CASE ~(n <= Len(q))
    <3>1. n \in (Len(q) + 1)..(Len(q) + Len(r)) /\ n - Len(q) \in 1..Len(r)
      BY <1>1, <2>2
    <3> QED BY <1>1, <3>1
  <2> QED BY <2>1, <2>2
<1>3. \A y : Has(q \o r, y) => Has(q, y) \/ Has(r, y)
  BY <1>2 DEF Has
<1> QED BY <1>1, <1>2, <1>3

\* The members of a set, each once.
LEMMA SetToSeqFacts ==
  ASSUME NEW S, IsFiniteSet(S)
  PROVE  /\ SetToSeq(S) \in Seq(S)
         /\ \A n \in 1..Len(SetToSeq(S)) : SetToSeq(S)[n] \in S
<1>1. Cardinality(S) \in Nat /\ ExistsBijection(1..Cardinality(S), S)
  BY FS_CardinalityType
<1>2. \E f \in [1..Cardinality(S) -> S] : IsInjective(f)
  BY <1>1 DEF ExistsBijection, Bijection, Injection, Surjection, IsInjective
<1>3. SetToSeq(S) \in [1..Cardinality(S) -> S]
  BY <1>2 DEF SetToSeq
<1> HIDE DEF SetToSeq
<1>4. SetToSeq(S) \in Seq(S)
  BY <1>1, <1>3, IsASeq
<1> QED BY <1>4

\* The frames for the Gateway.
LEMMA GatewayFrames ==
  ASSUME NEW f \in ToGateway
  PROVE  /\ f.type = "receipt" => f.op \in Ops /\ f.state \in Words /\ f = Receipt(f.op, f.state)
         /\ f.type \in {"session", "request", "withdraw"} => f \in Event
         /\ f.type \in {"session", "request", "withdraw", "receipt"}
  BY DEF ToGateway, Event, Receipt

\* The events of a session.
LEMMA Events ==
  ASSUME NEW e \in Event
  PROVE  /\ e.type = "session" => e.state \in SessionStates /\ e.turn \in Ops /\ e.queue \in Seq(Ops)
         /\ e.type \in {"request", "withdraw"} => e.request \in Requests /\ e.turn \in Ops
         /\ e.type \in {"session", "request", "withdraw"}
         /\ e \in ToGateway
  BY DEF Event, ToGateway

\* The frames for the Node.
LEMMA NodeFrames ==
  ASSUME NEW f \in ToTheNode
  PROVE  /\ f.type \in {"command", "query", "error"}
         /\ f.type = "command" => f.op \in Ops /\ f = Command(f.op)
         /\ f.type = "query" => f.op \in Ops /\ f = Query(f.op)
         /\ f.type = "error" => f = Error
  BY DEF ToTheNode, Command, Query, Error

\* Frames differ by kind and by operation.
LEMMA FramesDiffer ==
  ASSUME NEW i \in Ops, NEW j \in Ops, NEW s, NEW t
  PROVE  /\ Command(i) \in ToTheNode /\ Query(i) \in ToTheNode /\ Error \in ToTheNode
         /\ Command(i) # Query(j) /\ Command(i) # Error /\ Query(i) # Error
         /\ Command(i) = Command(j) => i = j
         /\ Query(i) = Query(j) => i = j
         /\ Receipt(i, s) = Receipt(j, t) => i = j /\ s = t
         /\ s \in Words => Receipt(i, s) \in ToGateway
  BY DEF ToTheNode, Command, Query, Error, Receipt, ToGateway

-----------------------------------------------------------------------------
(* Types. *)

Kinds         == {"none", "create", "send", "queue", "cancel", "respond"}
TurnStates    == {"none", "starting", "running", "cancelling"} \union Waiting \union Ended
OpRow         == [kind : Kinds, turn : {0} \union Ops, request : {0} \union Requests,
                  state : {"none", "open", "confirmed", "failed"}]
RequestRow    == [state : {"none", "pending", "deciding", "resolved", "cancelled", "expired"},
                  turn : {0} \union Ops, by : {0} \union Ops]
SessionRow    == [state : {"none"} \union SessionStates, turn : {0} \union Ops]
NativeSession == [state : {"none"} \union SessionStates, turn : {0} \union Ops,
                  request : {0} \union Requests, queue : Seq(Ops), working : BOOLEAN]
JournalStates == {"none", "delivered", "unknown", "rejected", "confirmed"}

RowTypes == /\ session \in SessionRow /\ turns \in [Ops -> TurnStates] /\ op \in [Ops -> OpRow]
            /\ request \in [Requests -> RequestRow] /\ queue \in Seq(Ops) /\ consumed \subseteq Ops
FlagTypes == /\ connected \in BOOLEAN /\ ready \in BOOLEAN /\ blocked \in BOOLEAN
             /\ replaying \in BOOLEAN /\ unacked \in BOOLEAN
NodeTypes == native \in NativeSession /\ journal \in [Ops -> JournalStates] /\ doing \in {0} \union Ops
FrameTypes == spool \in Seq(Event) /\ toGw \in Seq(ToGateway) /\ toNode \in Seq(ToTheNode)
CountTypes == /\ admitted \in 0..MaxOps /\ asked \in 0..MaxRequests
              /\ overdue \subseteq Requests /\ connects \in 0..MaxConnects

LEMMA TypeParts == TypeOK <=> RowTypes /\ FlagTypes /\ NodeTypes /\ FrameTypes /\ CountTypes
  BY DEF TypeOK, RowTypes, FlagTypes, NodeTypes, FrameTypes, CountTypes, SessionRow, TurnStates, OpRow,
         RequestRow, NativeSession, JournalStates, ToGateway, ToTheNode, Kinds, Words

\* What an admission writes.
LEMMA Submits ==
  ASSUME TypeOK, Admissions, NEW kind \in Kinds \ {"none"}, NEW r \in {0} \union Requests, Submit(kind, r)
  PROVE  /\ admitted' \in Ops /\ admitted' = admitted + 1 /\ admitted' \in 0..MaxOps
         /\ op' \in [Ops -> OpRow]
         /\ op'[admitted'] = [kind |-> kind, turn |-> session.turn, request |-> r, state |-> "open"]
         /\ \A i \in Ops : i # admitted' => op'[i] = op[i]
         /\ op[admitted'].kind = "none" /\ op[admitted'].state = "none"
         /\ toNode' = Append(toNode, Command(admitted'))
         /\ ~Busy
<1>1. admitted' \in Ops /\ admitted' = admitted + 1 /\ admitted' \in 0..MaxOps /\ admitted' > admitted
  BY ConstantsAssumption DEF Submit, TypeOK, Ops
<1>2. [kind |-> kind, turn |-> session.turn, request |-> r, state |-> "open"] \in OpRow
  BY TypeParts DEF RowTypes, SessionRow, OpRow
<1>3. op \in [Ops -> OpRow]
  BY TypeParts DEF RowTypes
<1>4. op' = [op EXCEPT ![admitted'] =
                [kind |-> kind, turn |-> session.turn, request |-> r, state |-> "open"]]
  BY DEF Submit
<1>5. /\ op' \in [Ops -> OpRow]
      /\ op'[admitted'] = [kind |-> kind, turn |-> session.turn, request |-> r, state |-> "open"]
      /\ \A i \in Ops : i # admitted' => op'[i] = op[i]
  BY <1>1, <1>2, <1>3, <1>4
<1>6. op[admitted'].kind = "none" /\ op[admitted'].state = "none"
  BY <1>1 DEF Admissions
<1> QED BY <1>1, <1>5, <1>6 DEF Submit

\* The five admissions.
Submission == \/ Create \/ Send \/ Enqueue \/ Cancel
              \/ \E r \in Requests : Respond(r)

\* What a failure writes.
LEMMA Failing ==
  ASSUME RowTypes, NEW i \in Ops, Fail(i)
  PROVE  /\ RowTypes' /\ queue' = queue /\ consumed' = consumed
         /\ \A j \in Ops : op'[j] = IF j = i THEN [op[i] EXCEPT !.state = "failed"] ELSE op[j]
         /\ \A r \in Requests : request'[r] = GivenBack(i)[r]
         /\ \/ UNCHANGED <<session, turns>>
            \/ /\ session.state = "idle" /\ session' = [session EXCEPT !.state = "failed"]
               /\ turns' = [turns EXCEPT ![session.turn] = "failed"]
<1>1. \A j \in Ops : op'[j] = IF j = i THEN [op[i] EXCEPT !.state = "failed"] ELSE op[j]
  BY DEF Fail, RowTypes
<1>2. op' \in [Ops -> OpRow]
  BY DEF Fail, RowTypes, OpRow
<1>3. request' = GivenBack(i)
  BY DEF Fail
<1>4. request' \in [Requests -> RequestRow]
  <2>1. ASSUME NEW r \in Requests
        PROVE  [request[r] EXCEPT !.state = IF r \in overdue THEN "expired" ELSE "pending", !.by = 0]
                 \in RequestRow
    BY DEF RowTypes, RequestRow
  <2> QED BY <1>3, <2>1 DEF GivenBack, RowTypes
<1>5. session' \in SessionRow /\ turns' \in [Ops -> TurnStates]
  BY DEF Fail, RowTypes, SessionRow, TurnStates, Ended, SessionStates
<1> QED BY <1>1, <1>2, <1>3, <1>4, <1>5 DEF Fail, RowTypes

\* What a confirmation writes.
LEMMA Confirming ==
  ASSUME RowTypes, NEW i \in Ops, Confirm(i)
  PROVE  /\ RowTypes' /\ consumed' = consumed
         /\ queue' \in {queue, Append(queue, i)}
         /\ \A j \in Ops : op'[j] = IF j = i THEN [op[i] EXCEPT !.state = "confirmed"] ELSE op[j]
         /\ \A r \in Requests :
              request'[r] = IF op[i].kind = "respond" /\ request[r].by = i
                              THEN [request[r] EXCEPT !.state = "resolved"] ELSE request[r]
         /\ \/ UNCHANGED <<session, turns>>
            \/ /\ isActive(session.state) /\ session' = [session EXCEPT !.state = "cancelling"]
               /\ turns' = [turns EXCEPT ![session.turn] = "cancelling"]
<1>1. \A j \in Ops : op'[j] = IF j = i THEN [op[i] EXCEPT !.state = "confirmed"] ELSE op[j]
  BY DEF Confirm, RowTypes
<1>2. op' \in [Ops -> OpRow]
  <2>1. op \in [Ops -> OpRow] /\ op' = [op EXCEPT ![i].state = "confirmed"]
    BY DEF Confirm, RowTypes
  <2>2. [op[i] EXCEPT !.state = "confirmed"] \in OpRow
    BY <2>1 DEF OpRow
  <2> QED BY <2>1, <2>2
<1>3. request' = [r \in Requests |-> IF op[i].kind = "respond" /\ request[r].by = i
                                       THEN [request[r] EXCEPT !.state = "resolved"] ELSE request[r]]
  BY DEF Confirm
<1>4. request' \in [Requests -> RequestRow]
  <2>1. ASSUME NEW r \in Requests PROVE [request[r] EXCEPT !.state = "resolved"] \in RequestRow
    BY DEF RowTypes, RequestRow
  <2> QED BY <1>3, <2>1 DEF RowTypes
<1>5. session' \in SessionRow /\ turns' \in [Ops -> TurnStates]
  BY DEF Confirm, RowTypes, SessionRow, TurnStates, SessionStates
<1>6. queue' \in {queue, Append(queue, i)} /\ queue' \in Seq(Ops)
  BY AppendFacts DEF Confirm, RowTypes, QueueWith
<1>7. \/ UNCHANGED <<session, turns>>
      \/ /\ isActive(session.state) /\ session' = [session EXCEPT !.state = "cancelling"]
         /\ turns' = [turns EXCEPT ![session.turn] = "cancelling"]
  BY DEF Confirm, Cancels
<1> QED BY <1>1, <1>2, <1>3, <1>4, <1>5, <1>6, <1>7 DEF Confirm, RowTypes

-----------------------------------------------------------------------------
(* What the steps do to frames and to the Node's session. *)

Open == {j \in Ops : op[j].state = "open"}

\* The queries of a new connection.
LEMMA Queries ==
  ASSUME Connect
  PROVE  /\ toNode' \in Seq(ToTheNode)
         /\ \A n \in 1..Len(toNode') : \E i \in Open : toNode'[n] = Query(i)
<1>0. PICK batch \in SUBSET Open : toNode' = SetToSeq({Query(i) : i \in batch})
  BY DEF Connect, Open
<1> DEFINE S == {Query(i) : i \in batch}
<1>1. IsFiniteSet(batch)
  <2>1. IsFiniteSet(Ops)
    BY FS_Interval, ConstantsAssumption DEF Ops
  <2> QED BY <2>1, FS_Subset DEF Open
<1>2. IsFiniteSet(S)
  <2>1. [i \in batch |-> Query(i)] \in Surjection(batch, S)
    BY DEF Surjection
  <2> QED BY <1>1, <2>1, FS_Surjection
<1>3. toNode' = SetToSeq(S)
  BY <1>0
<1>4. S \subseteq ToTheNode /\ \A f \in S : \E i \in Open : f = Query(i)
  BY FramesDiffer DEF Open
<1> HIDE DEF S
<1>5. toNode' \in Seq(S) /\ \A n \in 1..Len(toNode') : toNode'[n] \in S
  BY <1>2, <1>3, SetToSeqFacts
<1> QED BY <1>4, <1>5, SeqMonotonic

\* A snapshot of an existing session is an event.
LEMMA SnapshotFacts ==
  ASSUME NEW n \in NativeSession, n.state # "none", n.turn # 0
  PROVE  /\ Snapshot(n) \in Event /\ Snapshot(n).type = "session" /\ Snapshot(n).queue = n.queue
         /\ Snapshot(n).turn = n.turn /\ Snapshot(n).state = n.state
  BY DEF Snapshot, Event, NativeSession

\* What emit() adds.
LEMMA Emits ==
  ASSUME FrameTypes, NEW es \in Seq(Event), Emit(es)
  PROVE  /\ spool' \in Seq(Event) /\ toGw' \in Seq(ToGateway)
         /\ \A e : Has(spool', e) => Has(spool, e) \/ Has(es, e)
         /\ \A e : Has(toGw', e) => InGw(e) \/ Has(es, e)
<1>1. es \in Seq(ToGateway)
  BY Events, SeqMonotonic
<1>2. spool' \in Seq(Event) /\ \A e : Has(spool', e) => Has(spool, e) \/ Has(es, e)
  BY ConcatFacts DEF Emit, FrameTypes
<1>3. toGw' \in {toGw, toGw \o es}
  BY DEF Emit
<1>4. /\ toGw \o es \in Seq(ToGateway)
      /\ \A e : Has(toGw \o es, e) => Has(toGw, e) \/ Has(es, e)
  BY <1>1, ConcatFacts DEF FrameTypes
<1>5. toGw' \in Seq(ToGateway) /\ \A e : Has(toGw', e) => InGw(e) \/ Has(es, e)
  <2>1. CASE toGw' = toGw
    BY <2>1 DEF FrameTypes, InGw
  <2>2. CASE toGw' = toGw \o es
    BY <1>4, <2>2 DEF InGw
  <2> QED BY <1>3, <2>1, <2>2
<1> QED BY <1>2, <1>5

\* A single event, and two.
LEMMA Listed ==
  ASSUME NEW a, NEW b
  PROVE  /\ \A e : Has(<<a>>, e) => e = a
         /\ \A e : Has(<<a, b>>, e) => e = a \/ e = b
         /\ \A S : a \in S => <<a>> \in Seq(S)
         /\ \A S : a \in S /\ b \in S => <<a, b>> \in Seq(S)
  BY DEF Has

\* The frame that the Gateway reads.
LEMMA GatewayReads ==
  ASSUME FrameTypes, toGw # <<>>
  PROVE  /\ Head(toGw) \in ToGateway /\ InGw(Head(toGw)) /\ Tail(toGw) \in Seq(ToGateway)
         /\ \A f : Has(Tail(toGw), f) => InGw(f)
  BY TailFacts DEF FrameTypes, InGw

\* The frame that the Node reads.
LEMMA TheNodeReads ==
  ASSUME FrameTypes, toNode # <<>>
  PROVE  /\ Head(toNode) \in ToTheNode /\ InNode(Head(toNode)) /\ Tail(toNode) \in Seq(ToTheNode)
         /\ \A f : Has(Tail(toNode), f) => InNode(f)
  BY TailFacts DEF FrameTypes, InNode

\* What begins a command, and what carries it through.
LEMMA BegunFacts ==
  ASSUME NodeTypes, NEW i \in Ops, op[i].kind \in Kinds \ {"none"}, Executable(i)
  PROVE  /\ Begun(i) \in NativeSession
         /\ op[i].kind = "create" => native.state = "none"
         /\ op[i].kind # "create" => native.state # "none" /\ native.turn = op[i].turn
         /\ op[i].kind \in {"create", "send"} =>
              /\ Begun(i).state = "running" /\ Begun(i).turn = i /\ Begun(i).queue = native.queue
              /\ Begun(i).request = native.request /\ Begun(i).working = native.working
         /\ op[i].kind = "queue" =>
              /\ Begun(i).queue = Append(native.queue, i)
              /\ Begun(i).request = native.request /\ Begun(i).working = native.working
         /\ op[i].kind \notin {"create", "send"} =>
              Begun(i).state = native.state /\ Begun(i).turn = native.turn
         /\ op[i].kind = "cancel" => Begun(i).working = FALSE
         /\ op[i].kind \in {"cancel", "respond"} => Begun(i).queue = native.queue
         /\ op[i].kind = "respond" => Begun(i) = native
<1>1. native \in NativeSession
  BY DEF NodeTypes
<1>2. CASE op[i].kind = "create"
  BY <1>1, <1>2 DEF Begun, Executable, NativeSession, SessionStates
<1>3. CASE op[i].kind = "send"
  BY <1>1, <1>3 DEF Begun, Executable, OnItsTurn, NativeSession, SessionStates
<1>4. CASE op[i].kind = "queue"
  <2>1. Append(native.queue, i) \in Seq(Ops)
    BY <1>1, AppendFacts DEF NativeSession
  <2>2. Begun(i) = [native EXCEPT !.queue = Append(native.queue, i)]
    BY <1>4 DEF Begun
  <2> QED BY <1>1, <1>4, <2>1, <2>2 DEF Executable, OnItsTurn, NativeSession
<1>5. CASE op[i].kind = "cancel"
  BY <1>1, <1>5, Zero DEF Begun, Executable, OnItsTurn, NativeSession
<1>6. CASE op[i].kind = "respond"
  BY <1>1, <1>6 DEF Begun, Executable, OnItsTurn, NativeSession
<1> QED BY <1>2, <1>3, <1>4, <1>5, <1>6 DEF Kinds

LEMMA CarriedFacts ==
  ASSUME NodeTypes, NEW i \in Ops, native.state # "none", op[i].kind \in Kinds \ {"none"},
         op[i].kind \in {"create", "send"} => native.state = "running"
  PROVE  /\ Carried(i) \in NativeSession /\ Carried(i).state # "none"
         /\ Carried(i).turn = native.turn /\ Carried(i).queue = native.queue
         /\ Carried(i).working /\ Carried(i).state \in Waiting =>
              native.working /\ native.state \in Waiting /\ Carried(i).request = native.request
<1>1. native \in NativeSession
  BY DEF NodeTypes
<1>2. CASE op[i].kind = "cancel"
  BY <1>1, <1>2 DEF Carried, NativeSession, SessionStates, Ended, Waiting
<1>3. CASE op[i].kind = "respond"
  BY <1>1, <1>3 DEF Carried, NativeSession, SessionStates, Waiting
<1>4. CASE op[i].kind = "queue"
  BY <1>1, <1>4 DEF Carried, NativeSession
<1>5. CASE op[i].kind \in {"create", "send"}
  <2>1. Carried(i) = [native EXCEPT !.working = TRUE] /\ native.state = "running"
    BY <1>5 DEF Carried
  <2> QED BY <1>1, <2>1 DEF NativeSession, Waiting
<1> QED BY <1>2, <1>3, <1>4, <1>5 DEF Kinds

-----------------------------------------------------------------------------
(* Which step changes what. *)

Answered == Unsent \/ TakeReceipt
ByCommand == Reject \/ Execute \/ Interrupted
AgentStep == Finish \/ Ask \/ Withdraw \/ Complete \/ CompleteOnly \/ Close
Replays == TakeReplay \/ TakeAck
Silent == Connect \/ Disconnect \/ Refuse \/ AnswerQuery \/ ReadError \/ Replays \/ \E r \in Requests : Pass(r)
RequestEnds == \E r \in Requests : Expire(r)

LEMMA Steps ==
  Next <=> \/ Submission \/ Answered \/ RequestEnds \/ Ingest
           \/ ByCommand \/ AgentStep \/ Silent
  BY DEF Next, Submission, Answered, ByCommand, AgentStep, Silent, RequestEnds, Replays

\* Only the Gateway's handlers change its rows.
LEMMA RowsKept == ByCommand \/ AgentStep \/ Silent => UNCHANGED dbVars
<1>1. ByCommand => UNCHANGED dbVars
  BY DEF ByCommand, Reject, Execute, Interrupted
<1>2. AgentStep => UNCHANGED dbVars
  BY DEF AgentStep, Finish, Ask, Withdraw, Complete, CompleteOnly, Close
<1>3. Silent => UNCHANGED dbVars
  BY DEF Silent, Connect, Disconnect, Refuse, AnswerQuery, ReadError, Replays, TakeReplay, TakeAck, Pass
<1> QED BY <1>1, <1>2, <1>3

\* Only commands change the journal.
LEMMA JournalKept ==
  Submission \/ Answered \/ RequestEnds \/ Ingest \/ AgentStep \/ Silent => journal' = journal
<1>1. Submission => journal' = journal
  BY DEF Submission, Create, Send, Enqueue, Cancel, Respond, Submit, nodeVars
<1>2. Answered \/ RequestEnds \/ Ingest => journal' = journal
  BY DEF Answered, Unsent, TakeReceipt, RequestEnds, Expire, Ingest, nodeVars
<1>3. AgentStep => journal' = journal
  BY DEF AgentStep, Finish, Ask, Withdraw, Complete, CompleteOnly, Close, nodeVars
<1>4. Silent => journal' = journal
  BY DEF Silent, Connect, Disconnect, Refuse, AnswerQuery, ReadError, Replays, TakeReplay, TakeAck, Pass, nodeVars
<1> QED BY <1>1, <1>2, <1>3, <1>4

\* Only commands and the agent change the Node's session.
LEMMA NativeKept ==
  Submission \/ Answered \/ RequestEnds \/ Ingest \/ Silent =>
    native' = native /\ doing' \in {doing, 0}
<1>1. Submission => native' = native /\ doing' = doing
  BY DEF Submission, Create, Send, Enqueue, Cancel, Respond, Submit, nodeVars
<1>2. Answered \/ RequestEnds \/ Ingest => native' = native /\ doing' = doing
  BY DEF Answered, Unsent, TakeReceipt, RequestEnds, Expire, Ingest, nodeVars
<1>3. Silent => native' = native /\ doing' \in {doing, 0}
  BY DEF Silent, Connect, Disconnect, Refuse, AnswerQuery, ReadError, Replays, TakeReplay, TakeAck, Pass, Gone, nodeVars
<1> QED BY <1>1, <1>2, <1>3

-----------------------------------------------------------------------------
(* Types are kept. *)

\* What an accepted snapshot writes.
LEMMA SessionUpdates ==
  ASSUME RowTypes, Admissions, NEW e \in Event, e.type = "session", AcceptsSession(e), sessionUpdate(e)
  PROVE  /\ RowTypes' /\ op' = op
         /\ session' = [state |-> e.state, turn |-> e.turn]
         /\ \A i \in Ops : turns'[i] = IF i = e.turn THEN TurnState(e) ELSE turns[i]
         /\ queue' = e.queue /\ consumed' = ConsumedBy(e.turn)
         /\ request' = CancelledBy(e.state)
         /\ \/ e.turn # session.turn /\ e.state = "running" /\ MayStart(e.turn)
            \/ /\ e.turn = session.turn /\ validTransition(session.state, e.state)
               /\ session.state \in SessionStates
<1>1. e.state \in SessionStates /\ e.turn \in Ops /\ e.queue \in Seq(Ops)
  BY Events
<1>2. \/ e.turn # session.turn /\ e.state = "running" /\ MayStart(e.turn)
      \/ /\ e.turn = session.turn /\ validTransition(session.state, e.state)
         /\ session.state \in SessionStates
  BY <1>1, Zero DEF AcceptsSession, RowTypes, SessionRow, Admissions
<1>3. TurnState(e) \in TurnStates
  <2>1. CASE e.state = "idle"
    BY <2>1 DEF TurnState, TurnStates
  <2>2. CASE e.state = "closed"
    <3>1. session.state \in SessionStates
      BY <1>2, <2>2
    <3>2. session.state = "closed" \/ isActive(session.state) \/ session.state \in Ended
      BY <3>1 DEF SessionStates, isActive
    <3>3. turns[e.turn] \in TurnStates
      BY <1>1 DEF RowTypes
    <3> QED BY <2>2, <3>2, <3>3 DEF TurnState, TurnStates, Ended
  <2>3. CASE e.state \notin {"idle", "closed"}
    BY <1>1, <2>3 DEF TurnState, TurnStates, SessionStates
  <2> QED BY <2>1, <2>2, <2>3
<1>4. turns' = [turns EXCEPT ![e.turn] = TurnState(e)] /\ turns \in [Ops -> TurnStates]
  BY DEF sessionUpdate, RowTypes
<1>5. turns' \in [Ops -> TurnStates] /\ \A i \in Ops : turns'[i] = IF i = e.turn THEN TurnState(e) ELSE turns[i]
  BY <1>1, <1>3, <1>4
<1>6. session' \in SessionRow
  BY <1>1 DEF sessionUpdate, SessionRow
<1>7. queue' \in Seq(Ops) /\ consumed' \subseteq Ops
  BY <1>1 DEF sessionUpdate, Mirrored, ConsumedBy, RowTypes
<1>8. request' \in [Requests -> RequestRow]
  <2>1. \A r \in Requests : [request[r] EXCEPT !.state = "cancelled"] \in RequestRow
    BY DEF RowTypes, RequestRow
  <2>2. request' = CancelledBy(e.state)
    BY DEF sessionUpdate
  <2> QED BY <2>1, <2>2 DEF CancelledBy, RowTypes
<1> QED BY <1>2, <1>5, <1>6, <1>7, <1>8 DEF sessionUpdate, Mirrored, RowTypes

\* What the events about requests write.
LEMMA RequestEvents ==
  ASSUME RowTypes, NEW e \in Event, e.type \in {"request", "withdraw"}, requestCreate(e) \/ requestCancel(e)
  PROVE  /\ RowTypes' /\ UNCHANGED <<session, turns, op, queue, consumed>>
         /\ \A r \in Requests :
              \/ request'[r] = request[r]
              \/ request[r].state = "none" /\ request'[r].state = "pending" /\ request'[r].by = 0
              \/ request[r].state = "pending" /\ request'[r] = [request[r] EXCEPT !.state = "cancelled"]
<1>1. e.request \in Requests /\ e.turn \in Ops
  BY Events
<1>2. request \in [Requests -> RequestRow]
  BY DEF RowTypes
<1>3. CASE requestCreate(e)
  <2>1. [state |-> "pending", turn |-> e.turn, by |-> 0] \in RequestRow
    BY <1>1 DEF RequestRow
  <2>2. request' \in [Requests -> RequestRow]
    BY <1>1, <1>2, <1>3, <2>1 DEF requestCreate
  <2>3. \A r \in Requests :
              \/ request'[r] = request[r]
              \/ request[r].state = "none" /\ request'[r].state = "pending" /\ request'[r].by = 0
    BY <1>1, <1>2, <1>3 DEF requestCreate
  <2> QED BY <1>3, <2>2, <2>3 DEF requestCreate, RowTypes
<1>4. CASE requestCancel(e)
  <2>1. [request[e.request] EXCEPT !.state = "cancelled"] \in RequestRow
    BY <1>1, <1>2 DEF RequestRow
  <2>2. \/ request' = request
        \/ request[e.request].state = "pending"
             /\ request' = [request EXCEPT ![e.request] = [request[e.request] EXCEPT !.state = "cancelled"]]
    BY <1>4 DEF requestCancel
  <2> HIDE <1>4
  <2>3. request' \in [Requests -> RequestRow]
    BY <1>1, <1>2, <2>1, <2>2
  <2>4. \A r \in Requests :
              \/ request'[r] = request[r]
              \/ request[r].state = "pending" /\ request'[r] = [request[r] EXCEPT !.state = "cancelled"]
    BY <1>1, <1>2, <2>2
  <2> QED BY <1>4, <2>3, <2>4 DEF requestCancel, RowTypes
<1> QED BY <1>3, <1>4

\* The receipt that the Gateway reads, and what it does.
LEMMA ReceiptRead ==
  ASSUME FrameTypes, TakeReceipt
  PROVE  \E i \in Ops : \E s \in Words :
           /\ InGw(Receipt(i, s)) /\ toGw # <<>>
           /\ \/ op[i].state = "open" /\ s \in {"not_seen", "rejected"} /\ Fail(i)
              \/ op[i].state = "open" /\ s = "confirmed" /\ Confirmable(i) /\ Confirm(i)
              \/ UNCHANGED dbVars
<1> DEFINE f == Head(toGw)
<1>1. f \in ToGateway /\ InGw(f) /\ f.type = "receipt" /\ toGw # <<>>
  BY GatewayReads DEF TakeReceipt, Reads
<1>2. f.op \in Ops /\ f.state \in Words /\ f = Receipt(f.op, f.state)
  BY <1>1, GatewayFrames
<1>3. \/ op[f.op].state = "open" /\ f.state \notin {"unknown", "delivered"} /\ f.state # "confirmed" /\ Fail(f.op)
      \/ op[f.op].state = "open" /\ f.state = "confirmed" /\ Confirmable(f.op) /\ Confirm(f.op)
      \/ UNCHANGED dbVars
  BY DEF TakeReceipt
<1> HIDE DEF f
<1>4. f.state \notin {"unknown", "delivered"} /\ f.state # "confirmed" => f.state \in {"not_seen", "rejected"}
  BY <1>2 DEF Words
<1> QED BY <1>1, <1>2, <1>3, <1>4

\* The command that is not written.
LEMMA CommandDropped ==
  ASSUME FrameTypes, Unsent
  PROVE  \E n \in 1..Len(toNode) : \E i \in Ops :
           toNode[n] = Command(i) /\ Fail(i) /\ toNode' = RemoveAt(toNode, n)
<1>1. PICK n \in DOMAIN toNode :
        toNode[n].type = "command" /\ Fail(toNode[n].op) /\ toNode' = RemoveAt(toNode, n)
  BY DEF Unsent
<1>2. n \in 1..Len(toNode) /\ toNode[n] \in ToTheNode
  BY DEF FrameTypes
<1>3. toNode[n].op \in Ops /\ toNode[n] = Command(toNode[n].op)
  BY <1>1, <1>2, NodeFrames
<1> QED BY <1>1, <1>2, <1>3

\* An operation fails only if the Node has not executed it, and is confirmed only if
\* it has.
LEMMA Outcomes ==
  ASSUME FrameTypes, Commands, Answered
  PROVE  \/ UNCHANGED dbVars
         \/ \E i \in Ops : /\ op[i].state = "open"
                           /\ \/ Fail(i) /\ ~Executed(i)
                              \/ Confirm(i) /\ Confirmable(i) /\ journal[i] = "confirmed"
<1>1. CASE TakeReceipt
  <2>1. PICK i \in Ops, s \in Words :
           /\ InGw(Receipt(i, s))
           /\ \/ op[i].state = "open" /\ s \in {"not_seen", "rejected"} /\ Fail(i)
              \/ op[i].state = "open" /\ s = "confirmed" /\ Confirmable(i) /\ Confirm(i)
              \/ UNCHANGED dbVars
    BY <1>1, ReceiptRead
  <2>2. CommandOf(i)
    BY DEF Commands
  <2>3. /\ s \in {"not_seen", "rejected"} => ~Executed(i)
        /\ s = "confirmed" => journal[i] = "confirmed"
    BY <2>1, <2>2 DEF CommandOf
  <2> QED BY <2>1, <2>3
<1>2. CASE Unsent
  <2>1. PICK n \in 1..Len(toNode), i \in Ops : toNode[n] = Command(i) /\ Fail(i)
    BY <1>2, CommandDropped
  <2>2. CommandOf(i) /\ InNode(Command(i))
    BY <2>1 DEF Commands, InNode, Has
  <2>3. op[i].state = "open" /\ ~Executed(i)
    BY <2>2 DEF CommandOf, Executed
  <2> QED BY <2>1, <2>3
<1> QED BY <1>1, <1>2 DEF Answered

\* The event that the Gateway takes.
LEMMA EventTaken ==
  ASSUME FrameTypes, Ingest
  PROVE  \E e \in Event :
           /\ InGw(e)
           /\ \/ e.type = "session" /\ AcceptsSession(e) /\ sessionUpdate(e)
              \/ e.type = "request" /\ AcceptsRequest(e) /\ requestCreate(e)
              \/ e.type = "withdraw" /\ requestCancel(e)
<1> DEFINE e == Head(toGw)
<1>1. toGw # <<>> /\ e.type \in {"session", "request", "withdraw"}
  BY DEF Ingest, ReadsEvent, Reads
<1>2. InGw(e) /\ e \in Event
  BY <1>1, GatewayReads, GatewayFrames
<1>3. /\ Accepts(e)
      /\ \/ e.type = "session" /\ sessionUpdate(e)
         \/ e.type = "request" /\ requestCreate(e)
         \/ e.type = "withdraw" /\ requestCancel(e)
  BY DEF Ingest
<1>4. (e.type = "session" => AcceptsSession(e)) /\ (e.type = "request" => AcceptsRequest(e))
  BY <1>3 DEF Accepts
<1> HIDE DEF e
<1> QED BY <1>2, <1>3, <1>4

\* The rows keep their types.
LEMMA RowStep ==
  ASSUME TypeOK, Admissions, Commands, [Next]_vars
  PROVE  RowTypes'
<1> USE TypeParts
<1>1. CASE Submission
  <2>1. ASSUME NEW kind \in Kinds \ {"none"}, NEW r \in {0} \union Requests, Submit(kind, r)
        PROVE  admitted' \in Ops /\ op' \in [Ops -> OpRow] /\ UNCHANGED <<queue, consumed>>
    BY <2>1, Submits DEF Submit
  <2>2. CASE Create
    <3>1. admitted' \in Ops /\ op' \in [Ops -> OpRow] /\ UNCHANGED <<queue, consumed>>
      BY <2>1, <2>2 DEF Create, Kinds
    <3>2. session' \in SessionRow /\ turns' \in [Ops -> TurnStates] /\ request' = request
      BY <2>2, <3>1 DEF Create, SessionRow, SessionStates, TurnStates, RowTypes
    <3> QED BY <3>1, <3>2 DEF RowTypes
  <2>3. CASE Send \/ Enqueue \/ Cancel
    <3>1. op' \in [Ops -> OpRow] /\ UNCHANGED <<queue, consumed>>
      BY <2>1, <2>3 DEF Send, Enqueue, Cancel, Kinds
    <3> QED BY <2>3, <3>1 DEF Send, Enqueue, Cancel, RowTypes
  <2>4. ASSUME NEW r \in Requests, Respond(r) PROVE RowTypes'
    <3>1. admitted' \in Ops /\ op' \in [Ops -> OpRow] /\ UNCHANGED <<queue, consumed>>
      BY <2>1, <2>4 DEF Respond, Kinds
    <3>2. request \in [Requests -> RequestRow]
            /\ request' = [request EXCEPT ![r] = [request[r] EXCEPT !.state = "deciding", !.by = admitted']]
      BY <2>4 DEF Respond, RowTypes
    <3>3. [request[r] EXCEPT !.state = "deciding", !.by = admitted'] \in RequestRow
      BY <3>1, <3>2 DEF RequestRow
    <3>4. request' \in [Requests -> RequestRow] /\ UNCHANGED <<session, turns>>
      BY <2>4, <3>2, <3>3 DEF Respond
    <3> QED BY <3>1, <3>4 DEF RowTypes
  <2> QED BY <1>1, <2>2, <2>3, <2>4 DEF Submission
<1>2. CASE Answered
  <2>1. CASE UNCHANGED dbVars
    BY <2>1 DEF dbVars, RowTypes
  <2>2. ASSUME NEW i \in Ops, Fail(i) \/ Confirm(i) PROVE RowTypes'
    BY <2>2, Failing, Confirming
  <2> QED BY <1>2, <2>1, <2>2, Outcomes
<1>3. CASE RequestEnds
  <2>1. PICK r \in Requests : Expire(r)
    BY <1>3 DEF RequestEnds
  <2>2. request \in [Requests -> RequestRow]
          /\ request' = [request EXCEPT ![r] = [request[r] EXCEPT !.state = "expired"]]
    BY <2>1 DEF Expire, RowTypes
  <2>3. [request[r] EXCEPT !.state = "expired"] \in RequestRow
    BY <2>2 DEF RequestRow
  <2>4. request' \in [Requests -> RequestRow]
    BY <2>2, <2>3
  <2> QED BY <2>1, <2>4 DEF Expire, RowTypes
<1>4. CASE Ingest
  <2>1. PICK e \in Event :
           \/ e.type = "session" /\ AcceptsSession(e) /\ sessionUpdate(e)
           \/ e.type = "request" /\ requestCreate(e)
           \/ e.type = "withdraw" /\ requestCancel(e)
    BY <1>4, EventTaken
  <2> QED BY <2>1, SessionUpdates, RequestEvents
<1>5. CASE ByCommand \/ AgentStep \/ Silent \/ UNCHANGED vars
  BY <1>5, RowsKept DEF dbVars, vars, RowTypes
<1> QED BY <1>1, <1>2, <1>3, <1>4, <1>5, Steps

\* The flags and the counters keep their types.
LEMMA FlagStep ==
  ASSUME TypeOK, [Next]_vars
  PROVE  FlagTypes' /\ CountTypes'
<1> USE DEF FlagTypes, CountTypes
<1>0. FlagTypes /\ CountTypes
  BY TypeParts
<1>1. CASE Submission
  <2>1. PICK kind, r : Submit(kind, r)
    BY <1>1 DEF Submission, Create, Send, Enqueue, Cancel, Respond
  <2>2. admitted \in 0..MaxOps /\ admitted < MaxOps /\ admitted' = admitted + 1
    BY <1>0, <2>1 DEF Submit
  <2>3. admitted' \in 0..MaxOps
    BY <2>2, ConstantsAssumption
  <2> QED BY <1>0, <2>1, <2>3 DEF Submit, peerVars, nodeVars
<1>2. CASE Answered \/ RequestEnds \/ Ingest
  BY <1>0, <1>2 DEF Answered, Unsent, TakeReceipt, RequestEnds, Expire, Ingest, envVars, peerVars, nodeVars
<1>3. CASE ByCommand
  BY <1>0, <1>3 DEF ByCommand, Reject, Execute, Interrupted, Gone, envVars, peerVars, nodeVars
<1>4. CASE AgentStep
  <2>1. UNCHANGED <<admitted, overdue, connects>> /\ asked' \in {asked, asked + 1}
          /\ (asked' = asked \/ asked < MaxRequests)
    BY <1>4 DEF AgentStep, Finish, Ask, Withdraw, Complete, CompleteOnly, Close, envVars
  <2>2. asked' \in 0..MaxRequests
    BY <1>0, <2>1, ConstantsAssumption
  <2>3. FlagTypes'
    BY <1>0, <1>4 DEF AgentStep, Finish, Ask, Withdraw, Complete, CompleteOnly, Close, Gone, peerVars, Emit
  <2> QED BY <1>0, <2>1, <2>2, <2>3
<1>5. CASE Silent
  <2>1. CASE Connect
    <3>1. connects' \in 0..MaxConnects
      BY <1>0, <2>1, ConstantsAssumption DEF Connect
    <3> QED BY <1>0, <2>1, <3>1 DEF Connect, NothingOwed
  <2>2. CASE Disconnect \/ Refuse \/ AnswerQuery \/ ReadError \/ Replays
    BY <1>0, <2>2 DEF Disconnect, Refuse, AnswerQuery, ReadError, Replays, TakeReplay, TakeAck, Gone, envVars,
                      peerVars, nodeVars
  <2>3. ASSUME NEW r \in Requests, Pass(r) PROVE FlagTypes' /\ CountTypes'
    BY <1>0, <2>3 DEF Pass, peerVars, nodeVars
  <2> QED BY <1>5, <2>1, <2>2, <2>3 DEF Silent
<1>6. CASE UNCHANGED vars
  BY <1>0, <1>6 DEF vars, peerVars, nodeVars, envVars
<1> QED BY <1>1, <1>2, <1>3, <1>4, <1>5, <1>6, Steps

-----------------------------------------------------------------------------
(* The Node: types, its session, its snapshots. *)

\* What the Node does with a command: it rejects, executes, or is interrupted.
Rejects(i) ==
  /\ journal' = [journal EXCEPT ![i] = "rejected"] /\ UNCHANGED <<native, doing>>
  /\ toGw' = Append(toGw, Receipt(i, "rejected")) /\ toNode' = Tail(toNode)
Executes(i) ==
  /\ Executable(i) /\ native' = Begun(i)
  /\ \/ /\ journal' = [journal EXCEPT ![i] = "confirmed"] /\ doing' = i
        /\ toGw' = Append(toGw, Receipt(i, "confirmed")) /\ toNode' = Tail(toNode)
     \/ /\ journal' = [journal EXCEPT ![i] = "unknown"] /\ doing' = 0
        /\ toGw' = <<>> /\ toNode' = <<>>
Drops(i) ==
  /\ journal' = [journal EXCEPT ![i] = "delivered"] /\ native' = native /\ doing' = 0
  /\ toGw' = <<>> /\ toNode' = <<>>

LEMMA CommandRead ==
  ASSUME TypeOK, Admissions, Commands, ByCommand
  PROVE  \E i \in Ops :
           /\ toNode # <<>> /\ Head(toNode) = Command(i) /\ InNode(Command(i))
           /\ op[i].state = "open" /\ journal[i] = "none" /\ op[i].kind \in Kinds \ {"none"}
           /\ Rejects(i) \/ Executes(i) \/ Drops(i)
           /\ spool' = spool
<1> DEFINE f == Head(toNode)
           i == f.op
<1>1. toNode # <<>> /\ f.type = "command" /\ FrameTypes /\ RowTypes
  BY TypeParts DEF ByCommand, Reject, Execute, Interrupted, NodeReads
<1>2. f \in ToTheNode /\ InNode(f)
  BY <1>1, TheNodeReads
<1>3. i \in Ops /\ f = Command(i)
  BY <1>1, <1>2, NodeFrames
<1>4. op[i].state = "open" /\ journal[i] = "none"
  BY <1>2, <1>3 DEF Commands, CommandOf
<1>5. op[i].kind \in Kinds \ {"none"}
  BY <1>1, <1>3, <1>4 DEF Admissions, RowTypes, OpRow
<1>6. CASE Reject
  <2>1. Rejects(i) /\ spool' = spool
    BY <1>6 DEF Reject, Rejects, Journal
  <2> QED BY <1>1, <1>2, <1>3, <1>4, <1>5, <2>1
<1>7. CASE Execute
  <2>1. Executes(i) /\ spool' = spool
    BY <1>7 DEF Execute, Executes, Journal
  <2> QED BY <1>1, <1>2, <1>3, <1>4, <1>5, <2>1
<1>8. CASE Interrupted
  <2>1. (Executes(i) \/ Drops(i)) /\ spool' = spool
    BY <1>8 DEF Interrupted, Executes, Drops, Journal, Gone
  <2> QED BY <1>1, <1>2, <1>3, <1>4, <1>5, <2>1
<1> QED BY <1>6, <1>7, <1>8 DEF ByCommand

\* The journal says something new only of the command that was read.
LEMMA JournalStep ==
  ASSUME TypeOK, Admissions, Commands, [Next]_vars
  PROVE  /\ journal' \in [Ops -> JournalStates]
         /\ \A i \in Ops : journal'[i] = journal[i] \/ (InNode(Command(i)) /\ journal[i] = "none")
         /\ \A i \in Ops : Executed(i) => Executed(i)'
<1>1. journal \in [Ops -> JournalStates]
  BY TypeParts DEF NodeTypes
<1>2. CASE ByCommand
  <2>1. PICK i \in Ops : InNode(Command(i)) /\ journal[i] = "none" /\ (Rejects(i) \/ Executes(i) \/ Drops(i))
    BY <1>2, CommandRead
  <2>2. \E s \in JournalStates : journal' = [journal EXCEPT ![i] = s]
    BY <2>1 DEF Rejects, Executes, Drops, JournalStates
  <2> QED BY <1>1, <2>1, <2>2 DEF Executed
<1>3. CASE ~ByCommand
  <2>1. journal' = journal
    BY <1>3, JournalKept, Steps DEF vars, nodeVars
  <2> QED BY <1>1, <2>1 DEF Executed
<1> QED BY <1>2, <1>3

\* The next session of the Node after the agent's steps, and what they emit.
LEMMA AgentSteps ==
  ASSUME TypeOK, NodeSession, AgentStep
  PROVE  /\ native' \in NativeSession /\ native'.state # "none" /\ native'.turn # 0 /\ doing' = 0
         /\ native'.working /\ native'.state \in Waiting => native'.request # 0
         /\ \/ native'.turn = native.turn /\ native'.queue = native.queue
            \/ /\ native.queue # <<>> /\ native'.turn = Head(native.queue)
               /\ native'.queue = Tail(native.queue)
         /\ spool' \in Seq(Event) /\ toGw' \in Seq(ToGateway)
         /\ \A e \in Event : Has(spool', e) \/ Has(toGw', e) =>
              \/ Has(spool, e) \/ InGw(e)
              \/ e.type # "session"
              \/ e.queue \in {native.queue, native'.queue}
         /\ \A f : Has(toGw', f) /\ f \notin Event => InGw(f)
         /\ toNode' \in {toNode, <<>>}
         /\ connected' = FALSE \/ \E es \in Seq(Event) : Emit(es) /\ UNCHANGED <<connected, blocked>>
<1> USE TypeParts
<1>a. native \in NativeSession /\ FrameTypes /\ NodeTypes
  BY DEF NodeTypes
<1> DEFINE Written(es) ==
      /\ spool' \in Seq(Event) /\ toGw' \in Seq(ToGateway)
      /\ \A e : Has(spool', e) => Has(spool, e) \/ Has(es, e)
      /\ \A e : Has(toGw', e) => InGw(e) \/ Has(es, e)
      /\ connected' = FALSE \/ \E fs \in Seq(Event) : Emit(fs) /\ UNCHANGED <<connected, blocked>>
<1> HIDE DEF Written
<1>b. ASSUME NEW es \in Seq(Event), Emit(es) PROVE Written(es)
  <2>1. UNCHANGED <<connected, blocked>> \/ connected' = FALSE
    BY DEF AgentStep, Finish, Ask, Withdraw, Complete, CompleteOnly, Close, Gone, peerVars
  <2> QED BY <1>a, <1>b, <2>1, Emits DEF Written
<1>1. CASE Finish
  <2>1. doing \in Ops /\ native' = Carried(doing) /\ Emit(<<Snapshot(native')>>) /\ doing' = 0 /\ toNode' = toNode
    BY <1>1, <1>a DEF Finish, NodeTypes
  <2>2. native.state # "none" /\ op[doing].kind # "none" /\ native.turn # 0
          /\ (op[doing].kind \in {"create", "send"} => native.state = "running")
    BY <2>1, Zero DEF NodeSession
  <2>3. op[doing].kind \in Kinds \ {"none"}
    BY <2>1, <2>2 DEF RowTypes, OpRow
  <2>4. /\ native' \in NativeSession /\ native'.state # "none"
        /\ native'.turn = native.turn /\ native'.queue = native.queue
        /\ native'.working /\ native'.state \in Waiting => native'.request # 0
    BY <1>a, <2>1, <2>2, <2>3, CarriedFacts DEF NodeSession
  <2>5. Snapshot(native') \in Event /\ Snapshot(native').queue = native'.queue
    BY <2>2, <2>4, SnapshotFacts
  <2>6. Written(<<Snapshot(native')>>)
    BY <1>b, <2>1, <2>5, Listed
  <2> QED BY <2>1, <2>2, <2>4, <2>5, <2>6, Listed DEF Written
<1>2. CASE Ask
  <2>1. /\ native' = [native EXCEPT !.state = WaitingState(asked'), !.request = asked']
        /\ native.state = "running" /\ asked < MaxRequests /\ asked' = asked + 1
        /\ Emit(<<Asking(asked', native.turn), Snapshot(native')>>) /\ doing' = 0 /\ toNode' = toNode
    BY <1>2 DEF Ask
  <2>2. asked' \in Requests /\ asked' # 0
    BY <2>1, ConstantsAssumption DEF CountTypes, Requests
  <2>3. native.turn # 0 /\ WaitingState(asked') \in Waiting
    BY <2>1 DEF NodeSession, WaitingState, Waiting
  <2>4. /\ native' \in NativeSession /\ native'.state \in Waiting /\ native'.request # 0
        /\ native'.turn = native.turn /\ native'.queue = native.queue
    BY <1>a, <2>1, <2>2, <2>3 DEF NativeSession, SessionStates
  <2>5. native'.state # "none"
    BY <2>4 DEF Waiting
  <2>6. Snapshot(native') \in Event /\ Snapshot(native').queue = native'.queue
    BY <2>3, <2>4, <2>5, SnapshotFacts
  <2>7. Asking(asked', native.turn) \in Event /\ Asking(asked', native.turn).type # "session"
    BY <1>a, <2>2, <2>3 DEF Asking, Event, NativeSession
  <2>8. Written(<<Asking(asked', native.turn), Snapshot(native')>>)
    BY <1>b, <2>1, <2>6, <2>7, Listed
  <2> QED BY <2>1, <2>3, <2>4, <2>5, <2>6, <2>7, <2>8, Listed DEF Written
<1>3. CASE Withdraw
  <2>1. /\ native' = [native EXCEPT !.state = "running", !.request = 0]
        /\ native.state \in Waiting /\ native.working
        /\ Emit(<<Withdrawal(native.request, native.turn), Snapshot(native')>>)
        /\ doing' = 0 /\ toNode' = toNode
    BY <1>3 DEF Withdraw
  <2>2. native.turn # 0 /\ native.request # 0
    BY <2>1 DEF NodeSession
  <2>3. /\ native' \in NativeSession /\ native'.state = "running"
        /\ native'.turn = native.turn /\ native'.queue = native.queue
    BY <1>a, <2>1 DEF NativeSession, SessionStates
  <2>4. Snapshot(native') \in Event /\ Snapshot(native').queue = native'.queue
    BY <2>2, <2>3, SnapshotFacts
  <2>5. Withdrawal(native.request, native.turn) \in Event
          /\ Withdrawal(native.request, native.turn).type # "session"
    BY <1>a, <2>2 DEF Withdrawal, Event, NativeSession
  <2>6. Written(<<Withdrawal(native.request, native.turn), Snapshot(native')>>)
    BY <1>b, <2>1, <2>4, <2>5, Listed
  <2> QED BY <2>1, <2>2, <2>3, <2>4, <2>5, <2>6, Listed DEF Written, Waiting
<1>4. CASE Complete \/ CompleteOnly
  <2>1. /\ Completed \in NativeSession /\ Completed.state = "completed" /\ Completed.turn = native.turn
        /\ Completed.queue = native.queue /\ native.turn # 0
    BY <1>4, <1>a DEF Complete, CompleteOnly, Completed, NativeSession, SessionStates, Ended, NodeSession
  <2>2. Snapshot(Completed) \in Event /\ Snapshot(Completed).queue = native.queue
    BY <2>1, SnapshotFacts
  <2>3. CASE Complete /\ native.queue = <<>>
    <3>1. native' = Completed /\ Emit(<<Snapshot(Completed)>>) /\ doing' = 0 /\ toNode' = toNode
      BY <2>3 DEF Complete
    <3>2. Written(<<Snapshot(Completed)>>)
      BY <1>b, <2>2, <3>1, Listed
    <3> QED BY <2>1, <2>2, <3>1, <3>2, Listed DEF Written, Waiting
  <2>4. CASE Complete /\ native.queue # <<>>
    <3>1. /\ native' = NextOfQueue /\ Emit(<<Snapshot(Completed), Snapshot(native')>>)
          /\ doing' = 0 /\ toNode' = toNode /\ native.state = "running"
      BY <2>4 DEF Complete
    <3>2. Head(native.queue) \in Ops /\ Tail(native.queue) \in Seq(Ops)
      BY <1>a, <2>4, TailFacts DEF NativeSession
    <3>3. /\ native' \in NativeSession /\ native'.state = "running"
          /\ native'.turn = Head(native.queue) /\ native'.queue = Tail(native.queue) /\ native'.turn # 0
      BY <1>a, <3>1, <3>2, Zero DEF NextOfQueue, NativeSession
    <3>4. Snapshot(native') \in Event /\ Snapshot(native').queue = native'.queue
      BY <3>3, SnapshotFacts
    <3>5. Written(<<Snapshot(Completed), Snapshot(native')>>)
      BY <1>b, <2>2, <3>1, <3>4, Listed
    <3> QED BY <2>2, <2>4, <3>1, <3>3, <3>4, <3>5, Listed DEF Written, Waiting
  <2>5. CASE CompleteOnly
    <3>1. /\ native' = Completed /\ spool' = Append(spool, Snapshot(Completed))
          /\ doing' = 0 /\ toNode' = <<>> /\ toGw' = <<>>
      BY <2>5 DEF CompleteOnly, Gone
    <3>2. spool' \in Seq(Event) /\ \A e : Has(spool', e) <=> Has(spool, e) \/ e = Snapshot(Completed)
      BY <1>a, <2>2, <3>1, AppendFacts DEF FrameTypes
    <3>3. \A f : ~Has(toGw', f)
      BY <3>1 DEF Has
    <3>4. connected' = FALSE
      BY <2>5 DEF CompleteOnly, Gone
    <3> QED BY <2>1, <2>2, <3>1, <3>2, <3>3, <3>4 DEF Waiting
  <2> QED BY <1>4, <2>3, <2>4, <2>5
<1>5. CASE Close
  <2>1. /\ native' = [native EXCEPT !.state = "closed", !.request = 0, !.working = FALSE]
        /\ native.working \/ native.state \in Ended
        /\ Emit(<<Snapshot(native')>>) /\ doing' = 0 /\ toNode' = toNode
    BY <1>5 DEF Close
  <2>2. native.turn # 0
    BY <2>1 DEF NodeSession, Ended
  <2>3. /\ native' \in NativeSession /\ native'.state = "closed"
        /\ native'.turn = native.turn /\ native'.queue = native.queue
    BY <1>a, <2>1 DEF NativeSession, SessionStates
  <2>4. Snapshot(native') \in Event /\ Snapshot(native').queue = native'.queue
    BY <2>2, <2>3, SnapshotFacts
  <2>5. Written(<<Snapshot(native')>>)
    BY <1>b, <2>1, <2>4, Listed
  <2> QED BY <2>1, <2>2, <2>3, <2>4, <2>5, Listed DEF Written, Waiting
<1> QED BY <1>1, <1>2, <1>3, <1>4, <1>5 DEF AgentStep

-----------------------------------------------------------------------------
(* The connection carries the spool. *)

LEMMA CarriesSelf ==
  ASSUME NEW s \in Seq(Event)
  PROVE  Carries(s, s)
<1> DEFINE g == [k \in 1..Len(s) |-> k]
<1>1. Len(s) \in Nat
  OBVIOUS
<1>2. g \in [1..Len(s) -> 1..Len(s)] /\ \A k \in 1..Len(s) : g[k] = k
  OBVIOUS
<1> HIDE DEF g
<1> QED BY <1>1, <1>2 DEF Carries

LEMMA CarriesReceiptToo ==
  ASSUME NEW w \in Seq(ToGateway), NEW s \in Seq(Event), NEW f \in ToGateway,
         f.type = "receipt", Carries(w, s)
  PROVE  Carries(Append(w, f), s)
<1> DEFINE v == Append(w, f)
<1>1. PICK g \in [1..Len(s) -> 1..Len(w)] :
        /\ \A k \in 1..Len(s) : w[g[k]] = s[k]
        /\ \A k, l \in 1..Len(s) : k < l => g[k] < g[l]
        /\ \A n \in 1..Len(w) : w[n].type # "receipt" => \E k \in 1..Len(s) : g[k] = n
  BY DEF Carries
<1>2. /\ Len(v) = Len(w) + 1 /\ Len(w) \in Nat
      /\ \A n \in 1..Len(w) : v[n] = w[n]
      /\ \A n \in 1..Len(v) : n \in 1..Len(w) \/ v[n] = f
  BY AppendFacts
<1> HIDE DEF v
<1>3. g \in [1..Len(s) -> 1..Len(v)]
  BY <1>2
<1>4. \A n \in 1..Len(v) : v[n].type # "receipt" => \E k \in 1..Len(s) : g[k] = n
  BY <1>1, <1>2
<1>5. \A k \in 1..Len(s) : v[g[k]] = s[k]
  BY <1>1, <1>2
<1>6. Carries(v, s)
  BY <1>1, <1>3, <1>4, <1>5 DEF Carries
<1> QED BY <1>6 DEF v

LEMMA CarriesEventsToo ==
  ASSUME NEW w \in Seq(ToGateway), NEW s \in Seq(Event), NEW es \in Seq(Event), Carries(w, s)
  PROVE  Carries(w \o es, s \o es)
<1> DEFINE v == w \o es
           t == s \o es
<1>1. PICK g \in [1..Len(s) -> 1..Len(w)] :
        /\ \A k \in 1..Len(s) : w[g[k]] = s[k]
        /\ \A k, l \in 1..Len(s) : k < l => g[k] < g[l]
        /\ \A n \in 1..Len(w) : w[n].type # "receipt" => \E k \in 1..Len(s) : g[k] = n
  BY DEF Carries
<1>2. Len(w) \in Nat /\ Len(s) \in Nat /\ Len(es) \in Nat /\ es \in Seq(ToGateway)
  BY Events, SeqMonotonic
<1>3. /\ Len(v) = Len(w) + Len(es)
      /\ \A n \in 1..Len(w) : v[n] = w[n]
      /\ \A m \in 1..Len(es) : v[Len(w) + m] = es[m]
  <2>1. /\ Len(v) = Len(w) + Len(es)
        /\ \A i \in 1..Len(w) + Len(es) : v[i] = IF i <= Len(w) THEN w[i] ELSE es[i - Len(w)]
    BY <1>2, ConcatProperties
  <2> HIDE DEF v
  <2>2. ASSUME NEW n \in 1..Len(w) PROVE v[n] = w[n]
    BY <1>2, <2>1
  <2>3. ASSUME NEW m \in 1..Len(es) PROVE v[Len(w) + m] = es[m]
    <3>1. Len(w) + m \in 1..Len(w) + Len(es) /\ ~(Len(w) + m <= Len(w)) /\ (Len(w) + m) - Len(w) = m
      BY <1>2
    <3> QED BY <2>1, <3>1
  <2> QED BY <2>1, <2>2, <2>3
<1>4. /\ Len(t) = Len(s) + Len(es)
      /\ \A n \in 1..Len(s) : t[n] = s[n]
      /\ \A m \in 1..Len(es) : t[Len(s) + m] = es[m]
  <2>1. /\ Len(t) = Len(s) + Len(es)
        /\ \A i \in 1..Len(s) + Len(es) : t[i] = IF i <= Len(s) THEN s[i] ELSE es[i - Len(s)]
    BY <1>2, ConcatProperties
  <2> HIDE DEF t
  <2>2. ASSUME NEW n \in 1..Len(s) PROVE t[n] = s[n]
    BY <1>2, <2>1
  <2>3. ASSUME NEW m \in 1..Len(es) PROVE t[Len(s) + m] = es[m]
    <3>1. Len(s) + m \in 1..Len(s) + Len(es) /\ ~(Len(s) + m <= Len(s)) /\ (Len(s) + m) - Len(s) = m
      BY <1>2
    <3> QED BY <2>1, <3>1
  <2> QED BY <2>1, <2>2, <2>3
<1> DEFINE h == [k \in 1..Len(t) |-> IF k <= Len(s) THEN g[k] ELSE Len(w) + (k - Len(s))]
<1> HIDE DEF v, t
<1>5. /\ \A k \in 1..Len(s) : k \in 1..Len(t) /\ h[k] = g[k] /\ g[k] \in 1..Len(w)
      /\ \A m \in 1..Len(es) : Len(s) + m \in 1..Len(t) /\ h[Len(s) + m] = Len(w) + m
      /\ h \in [1..Len(t) -> 1..Len(v)]
  <2>1. ASSUME NEW k \in 1..Len(s) PROVE k \in 1..Len(t) /\ h[k] = g[k] /\ g[k] \in 1..Len(w)
    <3>1. k \in 1..Len(t) /\ k <= Len(s)
      BY <1>2, <1>4
    <3>2. g[k] \in 1..Len(w)
      BY <1>1
    <3> QED BY <3>1, <3>2
  <2>2. ASSUME NEW m \in 1..Len(es) PROVE Len(s) + m \in 1..Len(t) /\ h[Len(s) + m] = Len(w) + m
    <3>1. Len(s) + m \in 1..Len(t) /\ ~(Len(s) + m <= Len(s)) /\ (Len(s) + m) - Len(s) = m
      BY <1>2, <1>4
    <3> QED BY <3>1
  <2>3. ASSUME NEW k \in 1..Len(t)
        PROVE  (IF k <= Len(s) THEN g[k] ELSE Len(w) + (k - Len(s))) \in 1..Len(v)
    <3>1. CASE k <= Len(s)
      <4>1. g[k] \in 1..Len(w)
        BY <1>2, <1>4, <3>1
      <4> QED BY <1>2, <1>3, <3>1, <4>1
    <3>2. CASE ~(k <= Len(s))
      BY <1>2, <1>3, <1>4, <3>2
    <3> QED BY <3>1, <3>2
  <2> QED BY <2>1, <2>2, <2>3
<1>6. \A k \in 1..Len(t) : k \in 1..Len(s) \/ \E m \in 1..Len(es) : k = Len(s) + m
  <2>1. ASSUME NEW k \in 1..Len(t), k \notin 1..Len(s) PROVE k - Len(s) \in 1..Len(es) /\ k = Len(s) + (k - Len(s))
    BY <1>2, <1>4, <2>1
  <2> QED BY <2>1
<1>7. \A n \in 1..Len(v) : n \in 1..Len(w) \/ \E m \in 1..Len(es) : n = Len(w) + m
  <2>1. ASSUME NEW n \in 1..Len(v), n \notin 1..Len(w) PROVE n - Len(w) \in 1..Len(es) /\ n = Len(w) + (n - Len(w))
    BY <1>2, <1>3, <2>1
  <2> QED BY <2>1
<1> HIDE DEF h
<1>8. \A k \in 1..Len(t) : v[h[k]] = t[k]
  <2>1. ASSUME NEW k \in 1..Len(s) PROVE v[h[k]] = t[k]
    <3>1. h[k] = g[k] /\ g[k] \in 1..Len(w)
      BY <1>5
    <3>2. v[g[k]] = w[g[k]] /\ w[g[k]] = s[k] /\ t[k] = s[k]
      BY <1>1, <1>3, <1>4, <3>1
    <3> QED BY <3>1, <3>2
  <2>2. ASSUME NEW m \in 1..Len(es) PROVE v[h[Len(s) + m]] = t[Len(s) + m]
    BY <1>3, <1>4, <1>5
  <2> QED BY <1>6, <2>1, <2>2
<1>9. ASSUME NEW k \in 1..Len(t), NEW l \in 1..Len(t), k < l PROVE h[k] < h[l]
  <2>1. CASE l \in 1..Len(s)
    <3>1. k \in 1..Len(s)
      BY <1>2, <1>4, <1>9, <2>1
    <3> QED BY <1>1, <1>5, <1>9, <2>1, <3>1
  <2>2. CASE k \in 1..Len(s) /\ l \notin 1..Len(s)
    <3>1. PICK m \in 1..Len(es) : l = Len(s) + m
      BY <1>6, <2>2
    <3>2. h[k] \in 1..Len(w) /\ h[l] = Len(w) + m
      BY <1>5, <2>2, <3>1
    <3> QED BY <1>2, <3>2
  <2>3. CASE k \notin 1..Len(s) /\ l \notin 1..Len(s)
    <3>1. PICK m \in 1..Len(es) : k = Len(s) + m
      BY <1>6, <2>3
    <3>2. PICK o \in 1..Len(es) : l = Len(s) + o
      BY <1>6, <2>3
    <3>3. h[k] = Len(w) + m /\ h[l] = Len(w) + o
      BY <1>5, <3>1, <3>2
    <3> QED BY <1>2, <1>9, <3>1, <3>2, <3>3
  <2> QED BY <2>1, <2>2, <2>3
<1>10. ASSUME NEW n \in 1..Len(v), v[n].type # "receipt" PROVE \E k \in 1..Len(t) : h[k] = n
  <2>1. CASE n \in 1..Len(w)
    <3>1. PICK k \in 1..Len(s) : g[k] = n
      BY <1>1, <1>3, <1>10, <2>1
    <3> QED BY <1>5, <3>1
  <2>2. ASSUME NEW m \in 1..Len(es), n = Len(w) + m PROVE \E k \in 1..Len(t) : h[k] = n
    BY <1>5, <2>2
  <2> QED BY <1>7, <2>1, <2>2
<1>11. Carries(v, t)
  BY <1>5, <1>8, <1>9, <1>10 DEF Carries
<1> QED BY <1>11 DEF v, t

LEMMA CarriesAfterReceipt ==
  ASSUME NEW w \in Seq(ToGateway), NEW s \in Seq(Event), w # <<>>,
         Head(w).type = "receipt", Carries(w, s)
  PROVE  Carries(Tail(w), s)
<1> DEFINE v == Tail(w)
<1>1. PICK g \in [1..Len(s) -> 1..Len(w)] :
        /\ \A k \in 1..Len(s) : w[g[k]] = s[k]
        /\ \A k, l \in 1..Len(s) : k < l => g[k] < g[l]
        /\ \A n \in 1..Len(w) : w[n].type # "receipt" => \E k \in 1..Len(s) : g[k] = n
  BY DEF Carries
<1>2. /\ Len(v) = Len(w) - 1 /\ Len(w) \in Nat /\ Head(w) = w[1] /\ Len(s) \in Nat
      /\ \A n \in 1..Len(v) : n + 1 \in 1..Len(w) /\ v[n] = w[n + 1]
  BY TailFacts
<1>3. \A k \in 1..Len(s) : s[k].type # "receipt"
  BY Events, ElementOfSeq
<1> DEFINE h == [k \in 1..Len(s) |-> g[k] - 1]
<1> HIDE DEF v
<1>4. ASSUME NEW k \in 1..Len(s)
      PROVE  h[k] \in 1..Len(v) /\ h[k] + 1 = g[k] /\ g[k] \in 1..Len(w)
  <2>1. g[k] \in 1..Len(w) /\ g[k] # 1
    BY <1>1, <1>2, <1>3
  <2> QED BY <1>2, <2>1
<1>5. h \in [1..Len(s) -> 1..Len(v)]
  BY <1>4
<1> HIDE DEF h
<1>6. \A k \in 1..Len(s) : v[h[k]] = s[k]
  BY <1>1, <1>2, <1>4
<1>7. ASSUME NEW k \in 1..Len(s), NEW l \in 1..Len(s), k < l PROVE h[k] < h[l]
  <2>1. g[k] < g[l]
    BY <1>1, <1>7
  <2>2. h[k] \in Nat /\ h[l] \in Nat /\ h[k] + 1 = g[k] /\ h[l] + 1 = g[l]
    BY <1>2, <1>4
  <2> QED BY <2>1, <2>2
<1>8. ASSUME NEW n \in 1..Len(v), v[n].type # "receipt" PROVE \E k \in 1..Len(s) : h[k] = n
  <2>1. PICK k \in 1..Len(s) : g[k] = n + 1
    BY <1>1, <1>2, <1>8
  <2>2. h[k] \in Nat /\ h[k] + 1 = n + 1
    BY <1>2, <1>4, <2>1
  <2>3. h[k] = n
    BY <2>2
  <2> QED BY <2>3
<1>9. Carries(v, s)
  BY <1>5, <1>6, <1>7, <1>8 DEF Carries
<1> QED BY <1>9 DEF v

\* The event that is read is the first of the spool.
LEMMA CarriesAfterEvent ==
  ASSUME NEW w \in Seq(ToGateway), NEW s \in Seq(Event), w # <<>>,
         Head(w).type # "receipt", Carries(w, s)
  PROVE  s # <<>> /\ Head(s) = Head(w) /\ Carries(Tail(w), Tail(s))
<1> DEFINE v == Tail(w)
           t == Tail(s)
<1>1. PICK g \in [1..Len(s) -> 1..Len(w)] :
        /\ \A k \in 1..Len(s) : w[g[k]] = s[k]
        /\ \A k, l \in 1..Len(s) : k < l => g[k] < g[l]
        /\ \A n \in 1..Len(w) : w[n].type # "receipt" => \E k \in 1..Len(s) : g[k] = n
  BY DEF Carries
<1>2. /\ Len(v) = Len(w) - 1 /\ Len(w) \in Nat /\ Head(w) = w[1] /\ 1 \in 1..Len(w)
      /\ \A n \in 1..Len(v) : n + 1 \in 1..Len(w) /\ v[n] = w[n + 1]
  BY TailFacts
<1>3. PICK first \in 1..Len(s) : g[first] = 1
  BY <1>1, <1>2
<1>4. Len(s) \in Nat /\ s # <<>> /\ 1 \in 1..Len(s) /\ first \in Nat
  BY <1>3
<1>5. first = 1
  <2>1. CASE first > 1
    <3>1. g[1] < g[first] /\ g[1] \in 1..Len(w)
      BY <1>1, <1>4, <2>1
    <3> QED BY <1>2, <1>3, <3>1
  <2> QED BY <1>3, <1>4, <2>1
<1>6. /\ Len(t) = Len(s) - 1 /\ Head(s) = s[1]
      /\ \A n \in 1..Len(t) : n + 1 \in 1..Len(s) /\ t[n] = s[n + 1] /\ n + 1 # 1
  BY <1>4, TailFacts
<1> DEFINE h == [k \in 1..Len(t) |-> g[k + 1] - 1]
<1> HIDE DEF v, t
<1>7. ASSUME NEW k \in 1..Len(t)
      PROVE  h[k] \in 1..Len(v) /\ h[k] + 1 = g[k + 1] /\ g[k + 1] \in 1..Len(w)
  <2>1. k + 1 \in 1..Len(s) /\ 1 < k + 1
    BY <1>4, <1>6
  <2>2. g[k + 1] \in 1..Len(w) /\ g[1] < g[k + 1] /\ g[1] = 1
    BY <1>1, <1>3, <1>4, <1>5, <2>1
  <2> QED BY <1>2, <2>2
<1>8. h \in [1..Len(t) -> 1..Len(v)]
  BY <1>7
<1> HIDE DEF h
<1>9. \A k \in 1..Len(t) : v[h[k]] = t[k]
  BY <1>1, <1>2, <1>6, <1>7
<1>10. ASSUME NEW k \in 1..Len(t), NEW l \in 1..Len(t), k < l PROVE h[k] < h[l]
  <2>1. g[k + 1] < g[l + 1]
    BY <1>1, <1>4, <1>6, <1>10
  <2>2. h[k] \in Nat /\ h[l] \in Nat /\ h[k] + 1 = g[k + 1] /\ h[l] + 1 = g[l + 1]
    BY <1>2, <1>7
  <2> QED BY <2>1, <2>2
<1>11. ASSUME NEW n \in 1..Len(v), v[n].type # "receipt" PROVE \E k \in 1..Len(t) : h[k] = n
  <2>1. PICK k \in 1..Len(s) : g[k] = n + 1
    BY <1>1, <1>2, <1>11
  <2>2. k # 1
    BY <1>2, <1>3, <1>5, <2>1
  <2>3. k - 1 \in 1..Len(t) /\ (k - 1) + 1 = k
    BY <1>4, <1>6, <2>1, <2>2
  <2>4. h[k - 1] \in Nat /\ h[k - 1] + 1 = n + 1
    BY <1>2, <1>7, <2>1, <2>3
  <2>5. h[k - 1] = n
    BY <2>4
  <2> QED BY <2>3, <2>5
<1>12. Carries(v, t)
  BY <1>8, <1>9, <1>10, <1>11 DEF Carries
<1>13. Head(s) = Head(w)
  BY <1>1, <1>2, <1>3, <1>4, <1>5, <1>6
<1> QED BY <1>4, <1>12, <1>13 DEF v, t

-----------------------------------------------------------------------------
(* Operations: admitted once, settled once, and settled by what the Node did. *)

\* An admission, whatever its kind.
LEMMA Submitted ==
  ASSUME TypeOK, Admissions, Submission
  PROVE  \E kind \in Kinds \ {"none"} : \E r \in {0} \union Requests :
           /\ Submit(kind, r)
           /\ \/ kind = "respond" /\ r \in Requests /\ Respond(r)
              \/ kind # "respond" /\ request' = request
           /\ \/ kind = "create" /\ Create
              \/ kind # "create" /\ session.state # "none" /\ UNCHANGED <<session, turns>>
<1>1. CASE Create
  BY <1>1 DEF Create, Kinds
<1>2. CASE Send
  BY <1>2 DEF Send, Kinds, Ended
<1>3. CASE Enqueue
  BY <1>3 DEF Enqueue, Kinds, Waiting
<1>4. CASE Cancel
  BY <1>4 DEF Cancel, Kinds, isActive, Waiting
<1>5. ASSUME NEW r \in Requests, Respond(r)
      PROVE  Submit("respond", r) /\ session.state # "none" /\ UNCHANGED <<session, turns>>
  BY <1>5 DEF Respond, Admissions
<1> QED BY <1>1, <1>2, <1>3, <1>4, <1>5, Zero DEF Submission, Kinds

AdmittedNow(i) ==
  /\ i = admitted' /\ admitted' = admitted + 1
  /\ op[i].kind = "none" /\ op[i].state = "none" /\ ~Busy
  /\ op'[i].kind \in Kinds \ {"none"} /\ op'[i].state = "open" /\ op'[i].turn = session.turn
  /\ op'[i].kind = "respond" => op'[i].request \in Requests
FailedNow(i) ==
  op[i].state = "open" /\ op'[i] = [op[i] EXCEPT !.state = "failed"] /\ ~Executed(i)
ConfirmedNow(i) ==
  op[i].state = "open" /\ op'[i] = [op[i] EXCEPT !.state = "confirmed"] /\ journal[i] = "confirmed"

\* At most one operation changes in a step, and how.
LEMMA OpStep ==
  ASSUME TypeOK, Admissions, Commands, [Next]_vars
  PROVE  \/ op' = op /\ admitted' = admitted
         \/ \E i \in Ops : /\ AdmittedNow(i) \/ (admitted' = admitted /\ (FailedNow(i) \/ ConfirmedNow(i)))
                           /\ \A j \in Ops : j # i => op'[j] = op[j]
<1>1. CASE Submission
  <2>1. PICK kind \in Kinds \ {"none"}, r \in {0} \union Requests :
           Submit(kind, r) /\ (kind = "respond" => r \in Requests)
    BY <1>1, Submitted
  <2>2. /\ admitted' \in Ops /\ admitted' = admitted + 1
        /\ op'[admitted'] = [kind |-> kind, turn |-> session.turn, request |-> r, state |-> "open"]
        /\ \A i \in Ops : i # admitted' => op'[i] = op[i]
        /\ op[admitted'].kind = "none" /\ op[admitted'].state = "none" /\ ~Busy
    BY <2>1, Submits
  <2>3. AdmittedNow(admitted')
    BY <2>1, <2>2 DEF AdmittedNow
  <2> QED BY <2>2, <2>3
<1>2. CASE Answered
  <2>1. admitted' = admitted
    BY <1>2 DEF Answered, Unsent, TakeReceipt, envVars
  <2>2. FrameTypes /\ RowTypes
    BY TypeParts
  <2>3. CASE UNCHANGED dbVars
    BY <2>1, <2>3 DEF dbVars
  <2>4. ASSUME NEW i \in Ops, op[i].state = "open",
               \/ Fail(i) /\ ~Executed(i)
               \/ Confirm(i) /\ journal[i] = "confirmed"
        PROVE  /\ FailedNow(i) \/ ConfirmedNow(i)
               /\ \A j \in Ops : j # i => op'[j] = op[j]
    BY <2>2, <2>4, Failing, Confirming DEF FailedNow, ConfirmedNow
  <2>5. \/ UNCHANGED dbVars
        \/ \E i \in Ops : /\ op[i].state = "open"
                          /\ \/ Fail(i) /\ ~Executed(i)
                             \/ Confirm(i) /\ journal[i] = "confirmed"
    BY <1>2, <2>2, Outcomes
  <2> QED BY <2>1, <2>3, <2>4, <2>5
<1>3. CASE RequestEnds
  BY <1>3 DEF RequestEnds, Expire, envVars
<1>4. CASE Ingest
  <2>1. FrameTypes
    BY TypeParts
  <2>2. op' = op
    BY <1>4, <2>1, EventTaken DEF sessionUpdate, requestCreate, requestCancel
  <2> QED BY <1>4, <2>2 DEF Ingest, envVars
<1>5. CASE ByCommand \/ AgentStep \/ Silent \/ UNCHANGED vars
  <2>1. op' = op
    BY <1>5, RowsKept DEF vars, dbVars
  <2>2. ByCommand => admitted' = admitted
    BY DEF ByCommand, Reject, Execute, Interrupted, envVars
  <2>3. AgentStep => admitted' = admitted
    BY DEF AgentStep, Finish, Ask, Withdraw, Complete, CompleteOnly, Close, envVars
  <2>4. Silent => admitted' = admitted
    BY DEF Silent, Connect, Disconnect, Refuse, AnswerQuery, ReadError, Replays, TakeReplay, TakeAck, Pass, envVars
  <2> QED BY <1>5, <2>1, <2>2, <2>3, <2>4 DEF vars, envVars
<1> QED BY <1>1, <1>2, <1>3, <1>4, <1>5, Steps

\* What is fixed at its admission.
LEMMA OpKept ==
  ASSUME TypeOK, Admissions, Commands, [Next]_vars, NEW i \in Ops, op[i].kind # "none"
  PROVE  op'[i].kind = op[i].kind /\ op'[i].turn = op[i].turn /\ op'[i].request = op[i].request
<1>1. op[i] \in OpRow
  BY TypeParts DEF RowTypes
<1>2. op'[i] = op[i] \/ FailedNow(i) \/ ConfirmedNow(i)
  BY OpStep DEF AdmittedNow
<1> QED BY <1>1, <1>2 DEF FailedNow, ConfirmedNow, OpRow

-----------------------------------------------------------------------------
(* The parts of the invariant that are about the Node and the frames. *)

ExecutedThen(i) == journal'[i] \in {"unknown", "confirmed"}

LEMMA NodeSessionStep ==
  ASSUME TypeOK, Admissions, Commands, NodeSession, [Next]_vars
  PROVE  NodeTypes' /\ NodeSession'
<1> USE TypeParts
<1>a. native \in NativeSession /\ native.queue \in Seq(Ops) /\ doing \in {0} \union Ops
  BY DEF NodeTypes, NativeSession
<1>b. journal' \in [Ops -> JournalStates] /\ \A i \in Ops : Executed(i) => ExecutedThen(i)
  BY JournalStep DEF Executed, ExecutedThen
<1>c. \A n \in 1..Len(native.queue) : native.queue[n] \in Ops
  BY <1>a
<1>d. native.turn # 0 => native.turn \in Ops
  BY <1>a DEF NativeSession
<1>1. CASE ByCommand
  <2>1. PICK i \in Ops :
           /\ op[i].state = "open" /\ journal[i] = "none" /\ op[i].kind \in Kinds \ {"none"}
           /\ Rejects(i) \/ Executes(i) \/ Drops(i)
    BY <1>1, CommandRead
  <2>2. op' = op
    BY <1>1, RowsKept DEF dbVars
  <2>3. CASE Rejects(i) \/ Drops(i)
    <3>1. native' = native /\ doing' \in {doing, 0}
      BY <2>3 DEF Rejects, Drops
    <3>2. NodeTypes'
      BY <1>a, <1>b, <3>1 DEF NodeTypes
    <3>3. NodeSession'
      BY <1>b, <1>c, <1>d, <2>2, <3>1 DEF NodeSession, Executed, ExecutedThen
    <3> QED BY <3>2, <3>3
  <2>4. CASE Executes(i)
    <3>1. /\ Executable(i) /\ native' = Begun(i) /\ doing' \in {i, 0}
          /\ \E s \in {"confirmed", "unknown"} : journal' = [journal EXCEPT ![i] = s]
      BY <2>4 DEF Executes
    <3>2. ExecutedThen(i) /\ ~Executed(i)
      BY <2>1, <3>1 DEF Executed, ExecutedThen, NodeTypes
    <3>3. native' \in NativeSession
      BY <2>1, <3>1, BegunFacts
    <3>4. native.turn # i /\ \A n \in 1..Len(native.queue) : native.queue[n] # i
      BY <3>2, Zero DEF NodeSession
    <3>5. CASE op[i].kind \in {"create", "send"}
      <4>1. /\ native'.state = "running" /\ native'.turn = i /\ native'.queue = native.queue
        BY <2>1, <3>1, <3>5, BegunFacts
      <4>2. native'.turn # 0 /\ native'.state # "none" /\ native'.state \notin Waiting
        BY <4>1, Zero DEF Waiting
      <4>3. \A n \in 1..Len(native.queue) : ExecutedThen(native.queue[n])
        BY <1>b, <1>c DEF NodeSession
      <4> QED BY <1>b, <2>1, <2>2, <3>1, <3>2, <3>3, <3>4, <4>1, <4>2, <4>3 DEF NodeTypes, NodeSession, Executed, ExecutedThen
    <3>6. CASE op[i].kind = "queue"
      <4>1. /\ native'.state = native.state /\ native'.turn = native.turn
            /\ native'.queue = Append(native.queue, i) /\ native.state # "none"
            /\ native'.request = native.request /\ native'.working = native.working
        BY <2>1, <3>1, <3>6, BegunFacts
      <4>2. /\ Len(native'.queue) = Len(native.queue) + 1 /\ Len(native.queue) \in Nat
            /\ \A n \in 1..Len(native.queue) : native'.queue[n] = native.queue[n]
            /\ \A n \in 1..Len(native'.queue) :
                 n \in 1..Len(native.queue) \/ (n = Len(native.queue) + 1 /\ native'.queue[n] = i)
        BY <1>a, <4>1, AppendFacts
      <4>3. \A n \in 1..Len(native'.queue) : ExecutedThen(native'.queue[n]) /\ native'.queue[n] # native'.turn
        BY <1>b, <1>c, <3>2, <3>4, <4>1, <4>2 DEF NodeSession
      <4>4. \A m, n \in 1..Len(native'.queue) : native'.queue[m] = native'.queue[n] => m = n
        BY <3>4, <4>2 DEF NodeSession
      <4>5. native'.turn # 0 => ExecutedThen(native'.turn)
        BY <1>b, <1>d, <4>1 DEF NodeSession
      <4> QED BY <1>b, <2>1, <2>2, <3>1, <3>3, <3>6, <4>1, <4>3, <4>4, <4>5 DEF NodeTypes, NodeSession, Executed, ExecutedThen
    <3>7. CASE op[i].kind \in {"cancel", "respond"}
      <4>1. /\ native'.state = native.state /\ native'.turn = native.turn
            /\ native'.queue = native.queue /\ native.state # "none"
            /\ native'.working = FALSE \/ native' = native
        BY <2>1, <3>1, <3>7, BegunFacts
      <4>2. \A n \in 1..Len(native.queue) : ExecutedThen(native.queue[n])
        BY <1>b, <1>c DEF NodeSession
      <4>3. native'.turn # 0 => ExecutedThen(native'.turn)
        BY <1>b, <1>d, <4>1 DEF NodeSession
      <4> QED BY <1>b, <2>1, <2>2, <3>1, <3>3, <3>7, <4>1, <4>2, <4>3 DEF NodeTypes, NodeSession, Executed, ExecutedThen
    <3> QED BY <2>1, <3>5, <3>6, <3>7 DEF Kinds
  <2> QED BY <2>1, <2>3, <2>4
<1>2. CASE AgentStep
  <2>1. /\ native' \in NativeSession /\ native'.state # "none" /\ native'.turn # 0 /\ doing' = 0
        /\ native'.working /\ native'.state \in Waiting => native'.request # 0
        /\ \/ native'.turn = native.turn /\ native'.queue = native.queue
           \/ /\ native.queue # <<>> /\ native'.turn = Head(native.queue)
              /\ native'.queue = Tail(native.queue)
    BY <1>2, AgentSteps
  <2>2. CASE native'.turn = native.turn /\ native'.queue = native.queue
    BY <1>b, <1>c, <1>d, <2>1, <2>2 DEF NodeTypes, NodeSession, Executed, ExecutedThen
  <2>3. CASE /\ native.queue # <<>> /\ native'.turn = Head(native.queue)
             /\ native'.queue = Tail(native.queue)
    <3>1. /\ native'.turn = native.queue[1] /\ 1 \in 1..Len(native.queue)
          /\ \A n \in 1..Len(native'.queue) :
               n + 1 \in 1..Len(native.queue) /\ native'.queue[n] = native.queue[n + 1] /\ n + 1 # 1
          /\ Len(native'.queue) \in Nat
      BY <1>a, <2>3, TailFacts
    <3>2. \A n \in 1..Len(native'.queue) : ExecutedThen(native'.queue[n]) /\ native'.queue[n] # native'.turn
      BY <1>b, <1>c, <3>1 DEF NodeSession
    <3>3. ASSUME NEW m \in 1..Len(native'.queue), NEW n \in 1..Len(native'.queue),
                 native'.queue[m] = native'.queue[n]
          PROVE  m = n
      <4>1. m + 1 = n + 1
        BY <3>1, <3>3 DEF NodeSession
      <4> QED BY <3>1, <4>1
    <3>4. ExecutedThen(native'.turn)
      BY <1>b, <1>c, <3>1 DEF NodeSession
    <3> QED BY <1>b, <2>1, <3>2, <3>3, <3>4 DEF NodeTypes, NodeSession, Executed, ExecutedThen
  <2> QED BY <2>1, <2>2, <2>3
<1>3. CASE Submission \/ Answered \/ RequestEnds \/ Ingest \/ Silent \/ UNCHANGED vars
  <2>1. native' = native /\ doing' \in {doing, 0}
    BY <1>3, NativeKept DEF vars, nodeVars
  <2>2. doing # 0 => /\ op[doing].kind # "none" => op'[doing].kind # "none"
                     /\ op[doing].kind # "none" => op'[doing].kind = op[doing].kind
    BY <1>a, OpKept
  <2>3. NodeTypes'
    BY <1>a, <1>b, <2>1 DEF NodeTypes
  <2>4. NodeSession'
    BY <1>b, <1>c, <1>d, <2>1, <2>2 DEF NodeSession, Executed, ExecutedThen
  <2> QED BY <2>3, <2>4
<1> QED BY <1>1, <1>2, <1>3, Steps

LEMMA FrameStep ==
  ASSUME TypeOK, Admissions, Commands, NodeSession, Snapshots, Line, [Next]_vars
  PROVE  FrameTypes' /\ Snapshots' /\ Line'
<1> USE TypeParts
<1>a. spool \in Seq(Event) /\ toGw \in Seq(ToGateway) /\ toNode \in Seq(ToTheNode) /\ FrameTypes
  BY DEF FrameTypes
<1>b. \A i \in Ops : Executed(i) => ExecutedThen(i)
  BY JournalStep DEF Executed, ExecutedThen
<1>c. native.queue \in Seq(Ops) /\ \A n \in 1..Len(native.queue) : Executed(native.queue[n])
  BY DEF NodeTypes, NativeSession, NodeSession
<1>d. <<>> \in Seq(ToGateway) /\ <<>> \in Seq(ToTheNode) /\ (\A f : ~Has(<<>>, f))
  BY DEF Has
<1> DEFINE Speaks(e) == e.type = "session" => \A n \in 1..Len(e.queue) : ExecutedThen(e.queue[n])
<1>e. \A e \in Event : Truthful(e) => Speaks(e)
  <2>1. ASSUME NEW e \in Event, Truthful(e) PROVE Speaks(e)
    <3>1. e.type = "session" => \A n \in 1..Len(e.queue) : e.queue[n] \in Ops
      BY Events
    <3> QED BY <1>b, <2>1, <3>1 DEF Truthful
  <2> QED BY <2>1
<1>f. ASSUME \A e \in Event : Has(spool', e) \/ Has(toGw', e) => Speaks(e)
      PROVE  Snapshots'
  BY <1>f DEF Snapshots, Truthful, InGw, Executed, ExecutedThen
<1> HIDE DEF Speaks
<1>g. ASSUME NEW s \in Seq(Event), \A e : Has(s, e) => Has(spool, e),
             NEW w \in Seq(ToGateway), \A e : Has(w, e) /\ e \in Event => InGw(e),
             spool' = s, toGw' = w
      PROVE  Snapshots'
  BY <1>e, <1>f, <1>g DEF Snapshots
<1>h. \A i \in Ops : \A s \in Words : /\ Receipt(i, s) \in ToGateway /\ Receipt(i, s) \notin Event
                                      /\ Receipt(i, s).type = "receipt"
  BY FramesDiffer, Events DEF Receipt
<1>k. ASSUME NEW i \in Ops, NEW s \in Words, toGw' = Append(toGw, Receipt(i, s)), spool' = spool,
             UNCHANGED <<connected, blocked>>
      PROVE  toGw' \in Seq(ToGateway) /\ Snapshots' /\ Line'
  <2>1. toGw' \in Seq(ToGateway) /\ \A e : Has(toGw', e) <=> Has(toGw, e) \/ e = Receipt(i, s)
    BY <1>a, <1>h, <1>k, AppendFacts
  <2>2. Snapshots'
    BY <1>a, <1>g, <1>h, <1>k, <2>1 DEF InGw
  <2>3. Line'
    BY <1>a, <1>h, <1>k, CarriesReceiptToo DEF Line
  <2> QED BY <2>1, <2>2, <2>3
<1>1. CASE Submission
  <2>1. PICK kind \in Kinds \ {"none"}, r \in {0} \union Requests : Submit(kind, r)
    BY <1>1, Submitted
  <2>2. /\ UNCHANGED <<spool, toGw, connected, blocked>>
        /\ toNode' = Append(toNode, Command(admitted')) /\ admitted' \in Ops
    BY <2>1, Submits DEF Submit, nodeVars, peerVars
  <2>3. toNode' \in Seq(ToTheNode)
    BY <1>a, <2>2, FramesDiffer, AppendFacts
  <2> QED BY <1>a, <1>g, <2>2, <2>3 DEF FrameTypes, Line, InGw
<1>2. CASE Unsent
  <2>1. UNCHANGED <<spool, toGw, connected, blocked>>
    BY <1>2 DEF Unsent, nodeVars
  <2>2. PICK n \in 1..Len(toNode) : toNode' = RemoveAt(toNode, n)
    BY <1>2, <1>a, CommandDropped
  <2>3. toNode' \in Seq(ToTheNode)
    BY <1>a, <2>2, RemoveFacts
  <2> QED BY <1>a, <1>g, <2>1, <2>3 DEF FrameTypes, Line, InGw
<1>3. CASE TakeReceipt
  <2>1. /\ toGw # <<>> /\ Head(toGw).type = "receipt" /\ toGw' = Tail(toGw)
        /\ toNode' \in {toNode, Append(toNode, Error)}
        /\ UNCHANGED <<spool, connected, blocked>>
    BY <1>3 DEF TakeReceipt, Reads, nodeVars
  <2>2. toGw' \in Seq(ToGateway) /\ \A e : Has(toGw', e) => InGw(e)
    BY <1>a, <2>1, GatewayReads
  <2>3. Append(toNode, Error) \in Seq(ToTheNode)
    BY <1>a, AppendFacts DEF ToTheNode
  <2>4. toNode' \in Seq(ToTheNode)
    BY <1>a, <2>1, <2>3
  <2>5. Line'
    BY <1>a, <2>1, CarriesAfterReceipt DEF Line
  <2> QED BY <1>a, <1>g, <2>1, <2>2, <2>4, <2>5 DEF FrameTypes
<1>4. CASE RequestEnds
  <2>1. UNCHANGED <<spool, toGw, toNode, connected, blocked>>
    BY <1>4 DEF RequestEnds, Expire, nodeVars, peerVars
  <2> QED BY <1>a, <1>g, <2>1 DEF FrameTypes, Line, InGw
<1>5. CASE Ingest
  <2>1. /\ toGw # <<>> /\ Head(toGw).type \in {"session", "request", "withdraw"} /\ connected /\ ~blocked
        /\ toGw' = Tail(toGw) /\ spool' = Tail(spool) /\ UNCHANGED <<toNode, connected, blocked>>
    BY <1>5 DEF Ingest, ReadsEvent, Reads
  <2>2. spool # <<>> /\ Carries(Tail(toGw), Tail(spool))
    BY <1>a, <2>1, CarriesAfterEvent DEF Line
  <2>3. spool' \in Seq(Event) /\ \A e : Has(spool', e) => Has(spool, e)
    BY <1>a, <2>1, <2>2, TailFacts
  <2>4. toGw' \in Seq(ToGateway) /\ \A e : Has(toGw', e) => InGw(e)
    BY <1>a, <2>1, GatewayReads
  <2> QED BY <1>a, <1>g, <2>1, <2>2, <2>3, <2>4 DEF FrameTypes, Line
<1>6. CASE ByCommand
  <2>1. PICK i \in Ops :
           /\ toNode # <<>> /\ (Rejects(i) \/ Executes(i) \/ Drops(i))
           /\ spool' = spool
    BY <1>6, CommandRead
  <2>2. \/ /\ \E s \in {"rejected", "confirmed"} : toGw' = Append(toGw, Receipt(i, s))
           /\ toNode' = Tail(toNode)
        \/ toGw' = <<>> /\ toNode' = <<>>
    BY <2>1 DEF Rejects, Executes, Drops
  <2>3. \/ UNCHANGED <<connected, blocked>>
        \/ connected' = FALSE /\ toGw' = <<>> /\ toNode' = <<>>
    BY <1>6 DEF ByCommand, Reject, Execute, Interrupted, Gone, peerVars
  <2>4. toNode' \in Seq(ToTheNode)
    BY <1>a, <1>d, <2>1, <2>2, TheNodeReads
  <2>5. CASE toGw' = <<>>
    <3>1. connected' = FALSE
      <4>1. \A f : Append(toGw, f) # <<>>
        BY <1>a
      <4>2. ~Reject /\ ~Execute
        BY <2>5, <4>1 DEF Reject, Execute
      <4> QED BY <1>6, <4>2 DEF ByCommand, Interrupted, Gone
    <3> QED BY <1>a, <1>d, <1>g, <2>1, <2>4, <2>5, <3>1 DEF FrameTypes, Line
  <2>6. CASE toGw' # <<>>
    <3>1. PICK s \in Words : toGw' = Append(toGw, Receipt(i, s))
      BY <2>2, <2>6 DEF Words
    <3> QED BY <1>a, <1>k, <2>1, <2>3, <2>4, <2>6, <3>1 DEF FrameTypes
  <2> QED BY <2>5, <2>6
<1>7. CASE AgentStep
  <2>1. /\ spool' \in Seq(Event) /\ toGw' \in Seq(ToGateway)
        /\ \A e \in Event : Has(spool', e) \/ Has(toGw', e) =>
              \/ Has(spool, e) \/ InGw(e)
              \/ e.type # "session"
              \/ e.queue \in {native.queue, native'.queue}
        /\ toNode' \in {toNode, <<>>}
        /\ connected' = FALSE \/ \E es \in Seq(Event) : Emit(es) /\ UNCHANGED <<connected, blocked>>
    BY <1>7, AgentSteps
  <2>2. \A n \in 1..Len(native'.queue) : ExecutedThen(native'.queue[n])
    BY <1>7, NodeSessionStep DEF NodeSession, Executed, ExecutedThen
  <2>3. \A n \in 1..Len(native.queue) : ExecutedThen(native.queue[n])
    BY <1>b, <1>c
  <2>4. ASSUME NEW e \in Event, Has(spool', e) \/ Has(toGw', e) PROVE Speaks(e)
    <3>1. CASE Has(spool, e) \/ InGw(e)
      BY <1>e, <3>1 DEF Snapshots
    <3>2. CASE e.type # "session"
      BY <3>2 DEF Speaks
    <3>3. CASE e.queue \in {native.queue, native'.queue}
      BY <2>2, <2>3, <3>3 DEF Speaks
    <3> QED BY <2>1, <2>4, <3>1, <3>2, <3>3
  <2>5. Snapshots'
    BY <1>f, <2>4
  <2>6. FrameTypes'
    BY <1>a, <1>d, <2>1 DEF FrameTypes
  <2>7. Line'
    <3>1. SUFFICES ASSUME connected', ~blocked' PROVE Carries(toGw, spool)'
      BY DEF Line
    <3>2. PICK es \in Seq(Event) : Emit(es) /\ UNCHANGED <<connected, blocked>>
      BY <2>1, <3>1
    <3>3. connected /\ ~blocked /\ Carries(toGw, spool)
      BY <3>1, <3>2 DEF Line
    <3>4. toGw' = toGw \o es /\ spool' = spool \o es
      BY <3>2, <3>3 DEF Emit
    <3>5. Carries(toGw \o es, spool \o es)
      BY <1>a, <3>3, CarriesEventsToo
    <3> QED BY <3>4, <3>5
  <2> QED BY <2>5, <2>6, <2>7
<1>8. CASE Silent
  <2>1. CASE Connect
    <3>1. /\ spool' = IF native.state = "none" THEN spool ELSE Append(spool, Snapshot(native))
          /\ toGw' = spool'
      BY <2>1 DEF Connect
    <3>2. toNode' \in Seq(ToTheNode)
      BY <2>1, Queries
    <3>3. CASE native.state = "none"
      <4>1. spool' = spool /\ toGw' = spool /\ spool \in Seq(ToGateway)
        BY <1>a, <3>1, <3>3, Events, SeqMonotonic
      <4>2. Snapshots'
        BY <1>e, <1>f, <4>1 DEF Snapshots
      <4> QED BY <1>a, <3>2, <4>1, <4>2, CarriesSelf DEF FrameTypes, Line
    <3>4. CASE native.state # "none"
      <4>1. /\ Snapshot(native) \in Event /\ Snapshot(native).type = "session"
            /\ Snapshot(native).queue = native.queue
        BY <3>4, SnapshotFacts DEF NodeTypes, NodeSession
      <4>2. spool' = Append(spool, Snapshot(native)) /\ toGw' = spool'
        BY <3>1, <3>4
      <4>3. spool' \in Seq(Event) /\ \A e : Has(spool', e) <=> Has(spool, e) \/ e = Snapshot(native)
        BY <1>a, <4>1, <4>2, AppendFacts
      <4>4. spool' \in Seq(ToGateway)
        BY <4>3, Events, SeqMonotonic
      <4>5. Speaks(Snapshot(native))
        BY <1>b, <1>c, <4>1 DEF Speaks
      <4>6. Snapshots'
        BY <1>e, <1>f, <4>2, <4>3, <4>5 DEF Snapshots
      <4> QED BY <3>2, <4>2, <4>3, <4>4, <4>6, CarriesSelf DEF FrameTypes, Line
    <3> QED BY <3>3, <3>4
  <2>2. CASE Disconnect \/ ReadError
    <3>1. spool' = spool /\ toGw' = <<>> /\ toNode' = <<>> /\ connected' = FALSE
      BY <2>2 DEF Disconnect, ReadError, Gone
    <3> QED BY <1>a, <1>d, <1>g, <3>1 DEF FrameTypes, Line
  <2>3. CASE Refuse
    <3>1. /\ toGw # <<>> /\ toGw' = Tail(toGw) /\ spool' = spool /\ blocked' = TRUE
          /\ toNode' = toNode \/ toNode' = Append(toNode, Error)
      BY <2>3 DEF Refuse, ReadsEvent, Reads, nodeVars
    <3>2. Append(toNode, Error) \in Seq(ToTheNode)
      BY <1>a, AppendFacts DEF ToTheNode
    <3>3. toNode' \in Seq(ToTheNode)
      BY <1>a, <3>1, <3>2
    <3>4. toGw' \in Seq(ToGateway) /\ \A e : Has(toGw', e) => InGw(e)
      BY <1>a, <3>1, GatewayReads
    <3> QED BY <1>a, <1>g, <3>1, <3>3, <3>4 DEF FrameTypes, Line
  <2>4. CASE AnswerQuery
    <3>1. /\ toNode # <<>> /\ Head(toNode).type = "query" /\ toNode' = Tail(toNode)
          /\ toGw' = Append(toGw, Receipt(Head(toNode).op, Reported(journal[Head(toNode).op])))
          /\ UNCHANGED <<spool, connected, blocked>>
      BY <2>4 DEF AnswerQuery, NodeReads, nodeVars, peerVars
    <3>2. Head(toNode).op \in Ops /\ toNode' \in Seq(ToTheNode)
      BY <1>a, <3>1, TheNodeReads, NodeFrames
    <3>3. Reported(journal[Head(toNode).op]) \in Words
      BY <3>2 DEF Reported, Words, NodeTypes, JournalStates
    <3> QED BY <1>a, <1>k, <3>1, <3>2, <3>3 DEF FrameTypes
  <2>5. CASE Replays \/ \E r \in Requests : Pass(r)
    <3>1. UNCHANGED <<spool, toGw, toNode, connected, blocked>>
      BY <2>5 DEF Replays, TakeReplay, TakeAck, Pass, nodeVars, peerVars
    <3> QED BY <1>a, <1>g, <3>1 DEF FrameTypes, Line, InGw
  <2> QED BY <1>8, <2>1, <2>2, <2>3, <2>4, <2>5 DEF Silent
<1>9. CASE UNCHANGED vars
  <2>1. UNCHANGED <<spool, toGw, toNode, connected, blocked>>
    BY <1>9 DEF vars, nodeVars, peerVars
  <2> QED BY <1>a, <1>g, <2>1 DEF FrameTypes, Line, InGw
<1> QED BY <1>1, <1>2, <1>3, <1>4, <1>5, <1>6, <1>7, <1>8, <1>9, Steps DEF Answered

LEMMA TypeStep ==
  ASSUME TypeOK, Admissions, Commands, NodeSession, Snapshots, Line, [Next]_vars
  PROVE  TypeOK'
<1>1. RowTypes' /\ FlagTypes' /\ CountTypes' /\ NodeTypes' /\ FrameTypes'
  BY RowStep, FlagStep, NodeSessionStep, FrameStep
<1> QED
  BY <1>1 DEF TypeOK, RowTypes, FlagTypes, NodeTypes, FrameTypes, CountTypes, SessionRow, TurnStates, OpRow,
         RequestRow, NativeSession, JournalStates, ToGateway, ToTheNode, Kinds, Words

-----------------------------------------------------------------------------
(* The parts of the invariant that are about operations and their frames. *)

\* Until the create the session has no rows.
LEMMA SessionBegins ==
  ASSUME TypeOK, Admissions, Commands, [Next]_vars, session'.state = "none"
  PROVE  admitted' = 0 /\ session'.turn = 0 /\ \A r \in Requests : request'[r].state = "none"
<1> USE TypeParts
<1>1. session.state = "none" /\ session' = session /\ op' = op /\ UNCHANGED admitted
      /\ \A r \in Requests : request[r].state = "none" => request'[r].state = "none"
  <2>1. CASE Submission
    <3>1. PICK kind \in Kinds \ {"none"}, r \in {0} \union Requests :
             \/ kind = "create" /\ Create
             \/ kind # "create" /\ session.state # "none" /\ UNCHANGED <<session, turns>>
      BY <2>1, Submitted
    <3> QED BY <3>1 DEF Create
  <2>2. CASE Answered
    <3>1. UNCHANGED admitted
      BY <2>2 DEF Answered, Unsent, TakeReceipt, envVars
    <3>2. CASE UNCHANGED dbVars
      BY <3>1, <3>2 DEF dbVars, Admissions
    <3>3. ASSUME NEW i \in Ops, op[i].state = "open", Fail(i) \/ Confirm(i) PROVE FALSE
      <4>1. session.state = "none" \/ session'.state # "none"
        BY <3>3, Failing, Confirming DEF RowTypes, SessionRow
      <4>2. session.state # "none"
        <5>1. i <= admitted /\ i # 0
          BY <3>3, Zero, ConstantsAssumption DEF Admissions, Ops, CountTypes
        <5> QED BY <5>1, Zero, ConstantsAssumption DEF Admissions, Ops
      <4> QED BY <4>1, <4>2
    <3> QED BY <2>2, <3>2, <3>3, Outcomes
  <2>3. CASE RequestEnds
    <3>1. PICK r \in Requests : Expire(r)
      BY <2>3 DEF RequestEnds
    <3> QED BY <3>1 DEF Expire, envVars, RowTypes, Admissions
  <2>4. CASE Ingest
    <3>1. PICK e \in Event :
             \/ e.type = "session" /\ AcceptsSession(e) /\ sessionUpdate(e)
             \/ e.type = "request" /\ AcceptsRequest(e) /\ requestCreate(e)
             \/ e.type = "withdraw" /\ requestCancel(e)
      BY <2>4, EventTaken
    <3>2. CASE e.type = "session" /\ AcceptsSession(e) /\ sessionUpdate(e)
      <4>1. session'.state = e.state /\ e.state \in SessionStates
        BY <3>2, Events, SessionUpdates
      <4> QED BY <4>1 DEF SessionStates, Waiting, Ended
    <3>3. CASE e.type = "request" /\ AcceptsRequest(e) /\ requestCreate(e)
      <4>1. session' = session /\ isActive(session.state)
        BY <3>3 DEF AcceptsRequest, requestCreate
      <4> QED BY <4>1 DEF isActive, Waiting
    <3>4. CASE e.type = "withdraw" /\ requestCancel(e)
      <4>1. \A r \in Requests : request[r].state = "none" => request'[r].state = "none"
        BY <3>4 DEF requestCancel, RowTypes
      <4> QED BY <2>4, <3>4, <4>1 DEF requestCancel, Ingest, envVars
    <3> QED BY <3>1, <3>2, <3>3, <3>4
  <2>5. CASE ByCommand \/ AgentStep \/ Silent \/ UNCHANGED vars
    <3>1. UNCHANGED dbVars
      BY <2>5, RowsKept DEF vars
    <3>2. UNCHANGED admitted
      <4>1. ByCommand => admitted' = admitted
        BY DEF ByCommand, Reject, Execute, Interrupted, envVars
      <4>2. AgentStep => admitted' = admitted
        BY DEF AgentStep, Finish, Ask, Withdraw, Complete, CompleteOnly, Close, envVars
      <4>3. Silent => admitted' = admitted
        BY DEF Silent, Connect, Disconnect, Refuse, AnswerQuery, ReadError, Replays, TakeReplay, TakeAck, Pass, envVars
      <4> QED BY <2>5, <4>1, <4>2, <4>3 DEF vars, envVars
    <3> QED BY <3>1, <3>2 DEF dbVars
  <2> QED BY <2>1, <2>2, <2>3, <2>4, <2>5, Steps
<1> QED BY <1>1 DEF Admissions

\* Once it has begun the session has a turn.
LEMMA SessionHasTurn ==
  ASSUME TypeOK, Admissions, Commands, [Next]_vars, session'.state # "none"
  PROVE  session'.turn # 0
<1> USE TypeParts
<1>1. CASE Submission
  <2>1. PICK kind \in Kinds \ {"none"}, r \in {0} \union Requests :
           /\ Submit(kind, r)
           /\ \/ kind = "create" /\ Create
              \/ kind # "create" /\ session.state # "none" /\ UNCHANGED <<session, turns>>
    BY <1>1, Submitted
  <2>2. admitted' \in Ops
    BY <2>1, Submits
  <2> QED BY <2>1, <2>2, Zero DEF Create, Admissions
<1>2. CASE Answered
  <2>1. CASE UNCHANGED dbVars
    BY <2>1 DEF dbVars, Admissions
  <2>2. ASSUME NEW i \in Ops, op[i].state = "open", Fail(i) \/ Confirm(i) PROVE session'.turn # 0
    <3>1. session'.turn = session.turn
      BY <2>2, Failing, Confirming DEF RowTypes, SessionRow
    <3>2. session.state # "none"
      <4>1. i <= admitted /\ i # 0
        BY <2>2, Zero, ConstantsAssumption DEF Admissions, Ops, CountTypes
      <4> QED BY <4>1, Zero, ConstantsAssumption DEF Admissions, Ops
    <3> QED BY <3>1, <3>2 DEF Admissions
  <2> QED BY <1>2, <2>1, <2>2, Outcomes
<1>3. CASE RequestEnds
  BY <1>3 DEF RequestEnds, Expire, Admissions
<1>4. CASE Ingest
  <2>1. PICK e \in Event :
           \/ e.type = "session" /\ AcceptsSession(e) /\ sessionUpdate(e)
           \/ e.type = "request" /\ requestCreate(e)
           \/ e.type = "withdraw" /\ requestCancel(e)
    BY <1>4, EventTaken
  <2>2. CASE e.type = "session" /\ AcceptsSession(e) /\ sessionUpdate(e)
    <3>1. session'.turn = e.turn /\ e.turn \in Ops
      BY <2>2, Events, SessionUpdates
    <3> QED BY <3>1, Zero
  <2>3. CASE requestCreate(e) \/ requestCancel(e)
    BY <2>3 DEF requestCreate, requestCancel, Admissions
  <2> QED BY <2>1, <2>2, <2>3
<1>5. CASE ByCommand \/ AgentStep \/ Silent \/ UNCHANGED vars
  BY <1>5, RowsKept DEF vars, dbVars, Admissions
<1> QED BY <1>1, <1>2, <1>3, <1>4, <1>5, Steps

LEMMA AdmissionsStep ==
  ASSUME TypeOK, Admissions, Commands, [Next]_vars
  PROVE  Admissions'
<1> USE TypeParts
<1>a. \A i \in Ops : op[i] \in OpRow
  BY DEF RowTypes
<1>b. admitted \in Nat /\ Ops \subseteq Nat
  BY ConstantsAssumption, Zero DEF CountTypes
<1>1. \A i \in Ops : /\ op'[i].kind = "none" <=> i > admitted'
                     /\ op'[i].state = "none" <=> op'[i].kind = "none"
                     /\ op'[i].kind = "respond" => op'[i].request # 0
  <2>1. CASE op' = op /\ admitted' = admitted
    BY <2>1 DEF Admissions
  <2>2. ASSUME NEW i \in Ops, AdmittedNow(i), \A j \in Ops : j # i => op'[j] = op[j], NEW k \in Ops
        PROVE  /\ op'[k].kind = "none" <=> k > admitted'
               /\ op'[k].state = "none" <=> op'[k].kind = "none"
               /\ op'[k].kind = "respond" => op'[k].request # 0
    <3>1. CASE k = i
      BY <1>b, <2>2, <3>1, Zero DEF AdmittedNow
    <3>2. CASE k # i
      <4>1. op'[k] = op[k] /\ (k > admitted <=> k > admitted')
        BY <1>b, <2>2, <3>2 DEF AdmittedNow
      <4> QED BY <4>1 DEF Admissions
    <3> QED BY <3>1, <3>2
  <2>3. ASSUME NEW i \in Ops, admitted' = admitted, FailedNow(i) \/ ConfirmedNow(i),
               \A j \in Ops : j # i => op'[j] = op[j], NEW k \in Ops
        PROVE  /\ op'[k].kind = "none" <=> k > admitted'
               /\ op'[k].state = "none" <=> op'[k].kind = "none"
               /\ op'[k].kind = "respond" => op'[k].request # 0
    <3>1. /\ op'[k].kind = op[k].kind /\ op'[k].request = op[k].request
          /\ op'[k].state = "none" <=> op[k].state = "none"
      BY <1>a, <2>3 DEF FailedNow, ConfirmedNow, OpRow
    <3> QED BY <2>3, <3>1 DEF Admissions
  <2> QED BY <2>1, <2>2, <2>3, OpStep
<1> QED BY <1>1, SessionBegins, SessionHasTurn DEF Admissions

\* What stays at most once in a sequence.
LEMMA OnceFacts ==
  ASSUME NEW S, NEW q \in Seq(S), NEW x, Once(q, x)
  PROVE  /\ \A y \in S : (y = x => ~Has(q, x)) => Once(Append(q, y), x)
         /\ q # <<>> => Once(Tail(q), x) /\ (Head(q) = x => ~Has(Tail(q), x))
         /\ \A n \in 1..Len(q) : Once(RemoveAt(q, n), x) /\ (q[n] = x => ~Has(RemoveAt(q, n), x))
<1>0. Len(q) \in Nat
  OBVIOUS
<1>1. ASSUME NEW y \in S, y = x => ~Has(q, x) PROVE Once(Append(q, y), x)
  <2> DEFINE r == Append(q, y)
  <2>1. /\ \A n \in 1..Len(q) : r[n] = q[n]
        /\ r[Len(q) + 1] = y
        /\ \A n \in 1..Len(r) : n \in 1..Len(q) \/ n = Len(q) + 1
    BY AppendFacts
  <2> HIDE DEF r
  <2>2. Once(r, x)
    BY <1>0, <1>1, <2>1 DEF Once, Has
  <2> QED BY <2>2 DEF r
<1>2. ASSUME q # <<>> PROVE Once(Tail(q), x) /\ (Head(q) = x => ~Has(Tail(q), x))
  <2> DEFINE r == Tail(q)
  <2>1. /\ Head(q) = q[1] /\ 1 \in 1..Len(q) /\ Len(r) = Len(q) - 1
        /\ \A n \in 1..Len(r) : n + 1 \in 1..Len(q) /\ r[n] = q[n + 1] /\ n + 1 # 1
    BY <1>2, TailFacts
  <2> HIDE DEF r
  <2>2. ASSUME NEW m \in 1..Len(r), NEW n \in 1..Len(r), r[m] = x, r[n] = x PROVE m = n
    <3>1. m + 1 = n + 1
      BY <2>1, <2>2 DEF Once
    <3> QED BY <1>0, <2>1, <3>1
  <2>3. Head(q) = x => ~Has(r, x)
    BY <2>1 DEF Once, Has
  <2>4. Once(r, x)
    BY <2>2 DEF Once
  <2> QED BY <2>3, <2>4 DEF r
<1>3. ASSUME NEW n \in 1..Len(q)
      PROVE  Once(RemoveAt(q, n), x) /\ (q[n] = x => ~Has(RemoveAt(q, n), x))
  <2> DEFINE r == RemoveAt(q, n)
             at(m) == IF m < n THEN m ELSE m + 1
  <2>1. /\ Len(r) = Len(q) - 1
        /\ \A m \in 1..Len(r) : r[m] = IF m < n THEN q[m] ELSE q[m + 1]
    BY RemoveFacts
  <2> HIDE DEF r
  <2>2. \A m \in 1..Len(r) : at(m) \in 1..Len(q) /\ r[m] = q[at(m)] /\ at(m) # n
    BY <1>0, <2>1
  <2>3. \A m, k \in 1..Len(r) : at(m) = at(k) => m = k
    BY <1>0, <2>1
  <2> HIDE DEF at
  <2>4. Once(r, x)
    BY <2>2, <2>3 DEF Once
  <2>5. q[n] = x => ~Has(r, x)
    BY <2>2 DEF Once, Has
  <2> QED BY <2>4, <2>5 DEF r
<1> QED BY <1>1, <1>2, <1>3

\* What a step may put on the wire about operation j, and what it leaves there.
CommandWire(j) ==
  /\ InNode(Command(j))' =>
       \/ AdmittedNow(j)
       \/ InNode(Command(j)) /\ op'[j] = op[j] /\ journal'[j] = journal[j]
  /\ Once(toNode, Command(j))'
QueryWire(j) ==
  InNode(Query(j))' => InNode(Query(j)) \/ (op[j].state = "open" /\ ~InNode(Command(j))')
ReceiptWire(j) ==
  \A s \in Words : InGw(Receipt(j, s))' =>
    \/ InGw(Receipt(j, s))
    \/ /\ op[j].kind # "none" /\ ~InNode(Command(j))'
       /\ s = "confirmed" => journal'[j] = "confirmed"
       /\ s \in {"rejected", "not_seen"} => ~ExecutedThen(j)

LEMMA WireStep ==
  ASSUME TypeOK, Admissions, Commands, NodeSession, [Next]_vars, NEW j \in Ops
  PROVE  CommandWire(j) /\ QueryWire(j) /\ ReceiptWire(j)
<1> USE TypeParts
<1>a. toGw \in Seq(ToGateway) /\ toNode \in Seq(ToTheNode) /\ FrameTypes
  BY DEF FrameTypes
<1>b. CommandOf(j)
  BY DEF Commands
<1>c. Once(toNode, Command(j))
  BY <1>b DEF CommandOf, InNode, Has, Once
<1>d. \A f : ~Has(<<>>, f)
  BY DEF Has
<1>e. /\ Error \in ToTheNode /\ Error # Command(j) /\ Error # Query(j)
      /\ \A i \in Ops : /\ Command(i) \in ToTheNode /\ Query(i) # Command(j) /\ Command(i) # Query(j)
                        /\ Command(i) = Command(j) => i = j
                        /\ Query(i) = Query(j) => i = j
  BY FramesDiffer
<1>f. ASSUME \A f : Has(toGw', f) => InGw(f) PROVE ReceiptWire(j)
  BY <1>f DEF ReceiptWire, InGw
<1>g. ASSUME toNode' = toNode \/ toNode' = <<>> \/ toNode' = Append(toNode, Error)
      PROVE  /\ InNode(Command(j))' => InNode(Command(j))
             /\ Once(toNode, Command(j))' /\ QueryWire(j)
  <2>1. CASE toNode' = toNode
    BY <1>c, <2>1 DEF InNode, QueryWire
  <2>2. CASE toNode' = <<>>
    BY <1>d, <2>2 DEF InNode, QueryWire, Once
  <2>3. CASE toNode' = Append(toNode, Error)
    <3>1. \A f : Has(toNode', f) <=> Has(toNode, f) \/ f = Error
      BY <1>a, <1>e, <2>3, AppendFacts
    <3>2. Once(toNode, Command(j))'
      BY <1>a, <1>c, <1>e, <2>3, OnceFacts
    <3> QED BY <1>e, <3>1, <3>2 DEF InNode, QueryWire
  <2> QED BY <1>g, <2>1, <2>2, <2>3
<1>h. ASSUME toNode # <<>>, toNode' = Tail(toNode)
      PROVE  /\ InNode(Command(j))' => InNode(Command(j)) /\ Head(toNode) # Command(j)
             /\ Once(toNode, Command(j))' /\ QueryWire(j)
  <2>1. \A f : Has(toNode', f) => InNode(f)
    BY <1>a, <1>h, TheNodeReads
  <2>2. Once(toNode, Command(j))' /\ (Head(toNode) = Command(j) => ~Has(toNode', Command(j)))
    BY <1>a, <1>c, <1>h, OnceFacts
  <2> QED BY <2>1, <2>2 DEF InNode, QueryWire
<1>1. CASE Submission
  <2>1. PICK kind \in Kinds \ {"none"}, r \in {0} \union Requests : Submit(kind, r) /\ (kind = "respond" => r \in Requests)
    BY <1>1, Submitted
  <2>2. /\ admitted' \in Ops /\ toNode' = Append(toNode, Command(admitted'))
        /\ op'[admitted'] = [kind |-> kind, turn |-> session.turn, request |-> r, state |-> "open"]
        /\ \A i \in Ops : i # admitted' => op'[i] = op[i]
        /\ op[admitted'].kind = "none" /\ op[admitted'].state = "none" /\ ~Busy /\ admitted' = admitted + 1
        /\ toGw' = toGw /\ journal' = journal
    BY <2>1, Submits DEF Submit, nodeVars
  <2>3. AdmittedNow(admitted')
    BY <2>1, <2>2 DEF AdmittedNow
  <2>4. \A f : Has(toNode', f) <=> Has(toNode, f) \/ f = Command(admitted')
    BY <1>a, <1>e, <2>2, AppendFacts
  <2>5. Command(admitted') = Command(j) => ~Has(toNode, Command(j))
    BY <1>b, <1>e, <2>2 DEF CommandOf, InNode
  <2>6. Once(toNode, Command(j))'
    BY <1>a, <1>c, <1>e, <2>2, <2>5, OnceFacts
  <2>7. CommandWire(j)
    <3>1. CASE j = admitted'
      BY <2>3, <2>6, <3>1 DEF CommandWire
    <3>2. CASE j # admitted'
      BY <1>e, <2>2, <2>4, <2>6, <3>2 DEF CommandWire, InNode
    <3> QED BY <3>1, <3>2
  <2>8. QueryWire(j)
    BY <1>e, <2>2, <2>4 DEF QueryWire, InNode
  <2>9. ReceiptWire(j)
    BY <1>f, <2>2 DEF InGw
  <2> QED BY <2>7, <2>8, <2>9
<1>2. CASE Unsent
  <2>1. PICK n \in 1..Len(toNode), i \in Ops :
           toNode[n] = Command(i) /\ Fail(i) /\ toNode' = RemoveAt(toNode, n)
    BY <1>a, <1>2, CommandDropped
  <2>2. toGw' = toGw /\ journal' = journal
    BY <1>2 DEF Unsent, nodeVars
  <2>3. \A f : Has(toNode', f) => InNode(f)
    BY <1>a, <2>1, RemoveFacts DEF InNode
  <2>4. Once(toNode, Command(j))' /\ (i = j => ~InNode(Command(j))')
    BY <1>a, <1>c, <2>1, OnceFacts DEF InNode
  <2>5. j # i => op'[j] = op[j]
    BY <2>1, Failing
  <2>6. CommandWire(j)
    BY <2>2, <2>3, <2>4, <2>5 DEF CommandWire, InNode
  <2> QED BY <1>f, <2>2, <2>3, <2>6 DEF QueryWire, InGw, InNode
<1>3. CASE TakeReceipt
  <2>1. PICK i \in Ops, s \in Words :
           /\ InGw(Receipt(i, s)) /\ toGw # <<>>
           /\ Fail(i) \/ Confirm(i) \/ UNCHANGED dbVars
    BY <1>a, <1>3, ReceiptRead
  <2>2. i = j => ~InNode(Command(j))
    BY <1>b, <2>1 DEF CommandOf
  <2>3. i # j => op'[j] = op[j]
    BY <2>1, Failing, Confirming DEF dbVars
  <2>4. toGw' = Tail(toGw) /\ journal' = journal /\ (toNode' = toNode \/ toNode' = Append(toNode, Error))
    BY <1>3 DEF TakeReceipt, nodeVars
  <2>5. \A f : Has(toGw', f) => InGw(f)
    BY <1>a, <2>1, <2>4, GatewayReads
  <2> QED BY <1>f, <1>g, <2>2, <2>3, <2>4, <2>5 DEF CommandWire
<1>4. CASE RequestEnds \/ Ingest
  <2>1. op' = op /\ journal' = journal /\ toNode' = toNode
    <3>1. Ingest => op' = op /\ journal' = journal /\ toNode' = toNode
      BY <1>a, EventTaken DEF sessionUpdate, requestCreate, requestCancel, Ingest
    <3> QED BY <1>4, <3>1 DEF RequestEnds, Expire, nodeVars
  <2>2. \A f : Has(toGw', f) => InGw(f)
    <3>1. RequestEnds => toGw' = toGw
      BY DEF RequestEnds, Expire
    <3>2. Ingest => toGw # <<>> /\ toGw' = Tail(toGw)
      BY DEF Ingest, ReadsEvent, Reads
    <3> QED BY <1>a, <1>4, <3>1, <3>2, GatewayReads DEF InGw
  <2> QED BY <1>f, <1>g, <2>1, <2>2 DEF CommandWire
<1>5. CASE ByCommand
  <2>1. PICK i \in Ops :
           /\ toNode # <<>> /\ Head(toNode) = Command(i)
           /\ op[i].kind \in Kinds \ {"none"} /\ journal[i] = "none"
           /\ Rejects(i) \/ Executes(i) \/ Drops(i)
    BY <1>5, CommandRead
  <2>2. op' = op /\ (i # j => journal'[j] = journal[j])
    BY <1>5, <2>1, RowsKept DEF dbVars, Rejects, Executes, Drops, NodeTypes
  <2>3. toNode' = Tail(toNode) \/ toNode' = <<>>
    BY <2>1 DEF Rejects, Executes, Drops
  <2>4. InNode(Command(j))' => InNode(Command(j)) /\ i # j
    BY <1>d, <1>h, <2>1, <2>3 DEF InNode
  <2>5. Once(toNode, Command(j))' /\ QueryWire(j)
    BY <1>g, <1>h, <2>1, <2>3
  <2>6. CASE toGw' = <<>>
    BY <1>d, <1>f, <2>2, <2>4, <2>5, <2>6 DEF CommandWire
  <2>7. ASSUME NEW s \in {"rejected", "confirmed"}, toGw' = Append(toGw, Receipt(i, s)),
               journal' = [journal EXCEPT ![i] = s]
        PROVE  ReceiptWire(j)
    <3>1. \A f : Has(toGw', f) <=> Has(toGw, f) \/ f = Receipt(i, s)
      BY <1>a, <2>7, FramesDiffer, AppendFacts DEF Words
    <3>2. \A t \in Words : Receipt(j, t) = Receipt(i, s) => i = j /\ t = s
      BY FramesDiffer
    <3>3. journal'[i] = s
      BY <2>7 DEF NodeTypes
    <3> QED BY <2>1, <2>4, <3>1, <3>2, <3>3 DEF ReceiptWire, InGw, ExecutedThen
  <2>8. \/ toGw' = <<>>
        \/ \E s \in {"rejected", "confirmed"} :
             toGw' = Append(toGw, Receipt(i, s)) /\ journal' = [journal EXCEPT ![i] = s]
    BY <2>1 DEF Rejects, Executes, Drops
  <2> QED BY <2>2, <2>4, <2>5, <2>6, <2>7, <2>8 DEF CommandWire
<1>6. CASE AgentStep
  <2>1. op' = op /\ journal' = journal
    BY <1>6, RowsKept, JournalKept DEF dbVars
  <2>2. (\A f : Has(toGw', f) /\ f \notin Event => InGw(f)) /\ (toNode' = toNode \/ toNode' = <<>>)
    BY <1>6, AgentSteps
  <2>3. \A s \in Words : Receipt(j, s) \notin Event
    BY Events DEF Receipt
  <2>4. ReceiptWire(j)
    BY <2>2, <2>3 DEF ReceiptWire, InGw
  <2> QED BY <1>g, <2>1, <2>2, <2>4 DEF CommandWire
<1>7. CASE Silent
  <2>1. op' = op /\ journal' = journal
    BY <1>7, RowsKept, JournalKept DEF dbVars
  <2>2. CASE Connect
    <3>1. \A n \in 1..Len(toNode') : \E i \in Open : toNode'[n] = Query(i)
      BY <2>2, Queries
    <3>2. ~InNode(Command(j))' /\ (InNode(Query(j))' => op[j].state = "open")
      BY <1>e, <3>1 DEF InNode, Has, Open
    <3>3. Once(toNode, Command(j))'
      BY <3>2 DEF InNode, Has, Once
    <3>4. toGw' \in {spool, Append(spool, Snapshot(native))}
      BY <2>2 DEF Connect
    <3>5. \A f : Has(toGw', f) => f \in Event
      <4>1. spool \in Seq(Event)
        BY DEF FrameTypes
      <4>2. \A f : Has(spool, f) => f \in Event
        BY <4>1 DEF Has
      <4>3. CASE native.state = "none"
        BY <2>2, <4>2, <4>3 DEF Connect
      <4>4. CASE native.state # "none"
        <5>1. Snapshot(native) \in Event
          BY <4>4, SnapshotFacts DEF NodeTypes, NodeSession
        <5>2. toGw' = Append(spool, Snapshot(native))
          BY <2>2, <4>4 DEF Connect
        <5> QED BY <4>1, <4>2, <5>1, <5>2, AppendFacts
      <4> QED BY <4>3, <4>4
    <3>6. \A s \in Words : Receipt(j, s) \notin Event
      BY Events DEF Receipt
    <3> QED BY <3>2, <3>3, <3>5, <3>6 DEF CommandWire, QueryWire, ReceiptWire, InGw
  <2>3. CASE Disconnect \/ ReadError
    <3>1. toGw' = <<>> /\ toNode' = <<>>
      BY <2>3 DEF Disconnect, ReadError, Gone
    <3> QED BY <1>d, <1>f, <1>g, <2>1, <3>1 DEF CommandWire
  <2>4. CASE Refuse
    <3>1. /\ toGw # <<>> /\ toGw' = Tail(toGw)
          /\ toNode' = toNode \/ toNode' = Append(toNode, Error)
      BY <2>4 DEF Refuse, ReadsEvent, Reads
    <3>2. \A f : Has(toGw', f) => InGw(f)
      BY <1>a, <3>1, GatewayReads
    <3> QED BY <1>f, <1>g, <2>1, <3>1, <3>2 DEF CommandWire
  <2>5. CASE AnswerQuery
    <3> DEFINE i == Head(toNode).op
               t == Reported(journal[i])
    <3>1. toNode # <<>> /\ Head(toNode).type = "query" /\ toNode' = Tail(toNode)
            /\ toGw' = Append(toGw, Receipt(i, t))
      BY <2>5 DEF AnswerQuery, NodeReads
    <3>2. i \in Ops /\ InNode(Query(i))
      BY <1>a, <3>1, TheNodeReads, NodeFrames
    <3> HIDE DEF i
    <3>3. t \in Words /\ (t = "confirmed" => journal[i] = "confirmed")
            /\ (t \in {"rejected", "not_seen"} => ~Executed(i))
      BY <3>2 DEF Reported, Words, NodeTypes, JournalStates, Executed
    <3> HIDE DEF t
    <3>4. \A f : Has(toGw', f) <=> Has(toGw, f) \/ f = Receipt(i, t)
      BY <1>a, <3>1, <3>2, <3>3, FramesDiffer, AppendFacts
    <3>5. \A s \in Words : Receipt(j, s) = Receipt(i, t) => i = j /\ s = t
      BY <3>2, FramesDiffer
    <3>6. i = j => op[j].kind # "none" /\ ~InNode(Command(j))
      BY <1>b, <3>2 DEF CommandOf
    <3>7. CommandWire(j) /\ QueryWire(j)
      BY <1>h, <2>1, <3>1 DEF CommandWire
    <3>8. ReceiptWire(j)
      BY <1>h, <2>1, <3>1, <3>3, <3>4, <3>5, <3>6 DEF ReceiptWire, InGw, Executed, ExecutedThen
    <3> QED BY <3>7, <3>8
  <2>6. CASE Replays \/ \E r \in Requests : Pass(r)
    <3>1. UNCHANGED <<toGw, toNode>>
      BY <2>6 DEF Replays, TakeReplay, TakeAck, Pass
    <3> QED BY <1>f, <1>g, <2>1, <3>1 DEF CommandWire, InGw
  <2> QED BY <1>7, <2>2, <2>3, <2>4, <2>5, <2>6 DEF Silent
<1>8. CASE UNCHANGED vars
  <2>1. UNCHANGED <<toGw, toNode, op, journal>>
    BY <1>8 DEF vars, dbVars, nodeVars
  <2> QED BY <1>f, <1>g, <2>1 DEF CommandWire, InGw
<1> QED BY <1>1, <1>2, <1>3, <1>4, <1>5, <1>6, <1>7, <1>8, Steps DEF Answered

LEMMA CommandsStep ==
  ASSUME TypeOK, Admissions, Commands, NodeSession, [Next]_vars
  PROVE  Commands'
<1>1. op' = op \/ journal' = journal
  BY JournalKept, RowsKept, Steps DEF vars, dbVars, nodeVars
<1>2. SUFFICES ASSUME NEW j \in Ops PROVE CommandOf(j)'
  BY DEF Commands
<1>a. CommandOf(j) /\ op[j] \in OpRow
  BY TypeParts DEF Commands, RowTypes
<1>b. CommandWire(j) /\ QueryWire(j) /\ ReceiptWire(j)
  BY WireStep
<1>c. journal'[j] = journal[j] \/ (InNode(Command(j)) /\ journal[j] = "none")
  BY JournalStep
<1>d. op[j].kind # "none" => op'[j].kind = op[j].kind
  BY OpKept
<1>e. op'[j] = op[j] \/ AdmittedNow(j) \/ FailedNow(j) \/ ConfirmedNow(j)
  BY OpStep
<1>f. op[j].state = "open" => op[j].kind # "none"
  BY DEF Admissions
<1>g. AdmittedNow(j) => journal'[j] = "none" /\ ~InNode(Query(j)) /\ \A s \in Words : ~InGw(Receipt(j, s))
  BY <1>a, <1>c DEF AdmittedNow, CommandOf
<1>3. InNode(Command(j))' =>
       /\ op'[j].state = "open" /\ journal'[j] = "none" /\ ~InNode(Query(j))'
       /\ \A s \in Words : ~InGw(Receipt(j, s))'
       /\ Once(toNode, Command(j))'
  <2> SUFFICES ASSUME InNode(Command(j))'
               PROVE  /\ op'[j].state = "open" /\ journal'[j] = "none" /\ ~InNode(Query(j))'
                      /\ \A s \in Words : ~InGw(Receipt(j, s))'
                      /\ Once(toNode, Command(j))'
    OBVIOUS
  <2>1. CASE AdmittedNow(j)
    <3>1. op'[j].state = "open" /\ op[j].kind = "none" /\ op[j].state = "none"
      BY <2>1 DEF AdmittedNow
    <3> QED BY <1>b, <1>g, <2>1, <3>1 DEF CommandWire, QueryWire, ReceiptWire
  <2>2. CASE InNode(Command(j)) /\ op'[j] = op[j] /\ journal'[j] = journal[j]
    BY <1>a, <1>b, <2>2 DEF CommandWire, QueryWire, ReceiptWire, CommandOf
  <2> QED BY <1>b, <2>1, <2>2 DEF CommandWire
<1>4. InNode(Query(j))' => op'[j].kind # "none"
  BY <1>a, <1>b, <1>d, <1>f DEF QueryWire, CommandOf
<1>5. \A s \in Words : InGw(Receipt(j, s))' => op'[j].kind # "none"
  BY <1>a, <1>b, <1>d DEF ReceiptWire, CommandOf
<1>6. InGw(Receipt(j, "confirmed"))' => journal'[j] = "confirmed"
  <2>1. "confirmed" \in Words
    BY DEF Words
  <2> QED BY <1>a, <1>b, <1>c, <2>1 DEF ReceiptWire, CommandOf
<1>7. ASSUME NEW s \in {"rejected", "not_seen"}, InGw(Receipt(j, s))' PROVE ~ExecutedThen(j)
  <2>1. s \in Words
    BY DEF Words
  <2>2. CASE InGw(Receipt(j, s))
    <3>1. ~Executed(j) /\ ~InNode(Command(j))
      BY <1>a, <2>1, <2>2 DEF CommandOf
    <3> QED BY <1>c, <3>1 DEF Executed, ExecutedThen
  <2> QED BY <1>b, <1>7, <2>1, <2>2 DEF ReceiptWire
<1>8. op'[j].kind = "none" => journal'[j] = "none"
  BY <1>a, <1>c, <1>d, <1>f DEF CommandOf
<1>9. op'[j].state = "failed" => ~ExecutedThen(j)
  <2> SUFFICES ASSUME op'[j].state = "failed" PROVE ~ExecutedThen(j)
    OBVIOUS
  <2>1. CASE op'[j] = op[j]
    <3>1. ~Executed(j) /\ ~InNode(Command(j))
      BY <1>a, <2>1 DEF CommandOf
    <3> QED BY <1>c, <3>1 DEF Executed, ExecutedThen
  <2>2. CASE op'[j] # op[j]
    <3>1. FailedNow(j)
      BY <1>a, <1>e, <2>2 DEF AdmittedNow, ConfirmedNow, OpRow
    <3>2. journal' = journal
      BY <1>1, <2>2
    <3> QED BY <3>1, <3>2 DEF FailedNow, Executed, ExecutedThen
  <2> QED BY <2>1, <2>2
<1>10. op'[j].state = "confirmed" => journal'[j] = "confirmed"
  <2> SUFFICES ASSUME op'[j].state = "confirmed" PROVE journal'[j] = "confirmed"
    OBVIOUS
  <2>1. journal[j] = "confirmed"
    BY <1>a, <1>e DEF CommandOf, AdmittedNow, FailedNow, ConfirmedNow, OpRow
  <2> QED BY <1>c, <2>1
<1>11. InGw(Receipt(j, "rejected"))' \/ InGw(Receipt(j, "not_seen"))' => ~Executed(j)'
  BY <1>7 DEF ExecutedThen, Executed
<1>12. op'[j].state = "failed" => ~Executed(j)'
  BY <1>9 DEF ExecutedThen, Executed
<1> QED BY <1>3, <1>4, <1>5, <1>6, <1>8, <1>10, <1>11, <1>12 DEF CommandOf

LEMMA SerialisedStep ==
  ASSUME TypeOK, Admissions, Commands, Serialised, [Next]_vars
  PROVE  Serialised'
<1>1. ASSUME NEW i \in Ops, NEW j \in Ops,
             op'[i].state = "open", op'[i].kind # "queue", op'[j].state = "open", op'[j].kind # "queue"
      PROVE  i = j
  <2>1. ASSUME NEW k \in Ops, op'[k].state = "open", ~AdmittedNow(k) PROVE op'[k] = op[k]
    <3>1. op[k] \in OpRow
      BY TypeParts DEF RowTypes
    <3>2. op'[k] = op[k] \/ FailedNow(k) \/ ConfirmedNow(k)
      BY <2>1, OpStep
    <3> QED BY <2>1, <3>1, <3>2 DEF FailedNow, ConfirmedNow, OpRow
  <2>2. CASE AdmittedNow(i) \/ AdmittedNow(j)
    <3>1. ~Busy
      BY <2>2 DEF AdmittedNow
    <3>2. AdmittedNow(i) /\ AdmittedNow(j)
      BY <1>1, <2>1, <2>2, <3>1 DEF Busy
    <3> QED BY <3>2 DEF AdmittedNow
  <2>3. CASE ~AdmittedNow(i) /\ ~AdmittedNow(j)
    BY <1>1, <2>1, <2>3 DEF Serialised
  <2> QED BY <2>2, <2>3
<1> QED BY <1>1 DEF Serialised

\* A request that no decision occupies is asked, withdrawn or expires.
Unoccupied(r) ==
  \/ request'[r] = request[r]
  \/ /\ request[r].state \in {"none", "pending"} /\ request'[r].state # "deciding"
     /\ request'[r].by \in {0, request[r].by}

LEMMA RequestsUnoccupied ==
  ASSUME TypeOK, Admissions, Commands, [Next]_vars, ~Submission, ~Answered
  PROVE  op' = op /\ \A r \in Requests : Unoccupied(r)
<1>a. RowTypes /\ FrameTypes
  BY TypeParts
<1>1. CASE RequestEnds
  <2>1. PICK x \in Requests : Expire(x)
    BY <1>1 DEF RequestEnds
  <2>2. /\ op' = op /\ request[x].state = "pending"
        /\ request' = [request EXCEPT ![x] = [request[x] EXCEPT !.state = "expired"]]
    BY <2>1 DEF Expire
  <2>3. request[x] \in RequestRow /\ request \in [Requests -> RequestRow]
    BY <1>a DEF RowTypes
  <2>4. \A r \in Requests : r # x => request'[r] = request[r]
    BY <2>2, <2>3
  <2>5. request'[x].state = "expired" /\ request'[x].by = request[x].by
    BY <2>2, <2>3 DEF RequestRow
  <2> QED BY <2>2, <2>4, <2>5 DEF Unoccupied
<1>2. CASE Ingest
  <2>1. PICK e \in Event :
           \/ e.type = "session" /\ AcceptsSession(e) /\ sessionUpdate(e)
           \/ e.type = "request" /\ AcceptsRequest(e) /\ requestCreate(e)
           \/ e.type = "withdraw" /\ requestCancel(e)
    BY <1>2, <1>a, EventTaken
  <2>2. CASE e.type = "session" /\ AcceptsSession(e) /\ sessionUpdate(e)
    <3>1. op' = op /\ request' = CancelledBy(e.state)
      BY <2>2 DEF sessionUpdate
    <3>2. ASSUME NEW r \in Requests PROVE Unoccupied(r)
      <4>1. request[r] \in RequestRow
        BY <1>a DEF RowTypes
      <4>2. \/ request'[r] = request[r]
            \/ request[r].state = "pending" /\ request'[r] = [request[r] EXCEPT !.state = "cancelled"]
        BY <3>1 DEF CancelledBy
      <4> QED BY <4>1, <4>2 DEF Unoccupied, RequestRow
    <3> QED BY <3>1, <3>2
  <2>3. CASE e.type \in {"request", "withdraw"} /\ (requestCreate(e) \/ requestCancel(e))
    <3>1. /\ op' = op
          /\ \A r \in Requests :
              \/ request'[r] = request[r]
              \/ request[r].state = "none" /\ request'[r].state = "pending" /\ request'[r].by = 0
              \/ request[r].state = "pending" /\ request'[r] = [request[r] EXCEPT !.state = "cancelled"]
      BY <1>a, <2>3, RequestEvents
    <3>2. ASSUME NEW r \in Requests PROVE Unoccupied(r)
      <4>1. request[r] \in RequestRow
        BY <1>a DEF RowTypes
      <4> QED BY <3>1, <4>1 DEF Unoccupied, RequestRow
    <3> QED BY <3>1, <3>2
  <2> QED BY <2>1, <2>2, <2>3
<1>3. CASE ByCommand \/ AgentStep \/ Silent \/ UNCHANGED vars
  BY <1>3, RowsKept DEF vars, dbVars, Unoccupied
<1> QED BY <1>1, <1>2, <1>3, Steps

AnswersThen(i, r) == op'[i].kind = "respond" /\ op'[i].request = r

LEMMA DecisionsStep ==
  ASSUME TypeOK, Admissions, Commands, Decisions, [Next]_vars
  PROVE  Decisions'
<1>a. RowTypes /\ FrameTypes
  BY TypeParts
<1>b. \A i \in Ops : op[i] \in OpRow
  BY <1>a DEF RowTypes
<1>c. \A r \in Requests : request[r] \in RequestRow
  BY <1>a DEF RowTypes
<1>d. \A r \in Requests : request[r].by \in {0} \union Ops
  BY <1>c DEF RequestRow
<1>1. CASE ~Submission /\ ~Answered
  <2>1. op' = op /\ \A r \in Requests : Unoccupied(r)
    BY <1>1, RequestsUnoccupied
  <2>2. \A i : \A r : AnswersThen(i, r) <=> Answers(i, r)
    BY <2>1 DEF Answers, AnswersThen
  <2>3. \A r \in Requests : request'[r].by # 0 => Answers(request'[r].by, r)
    BY <2>1 DEF Decisions, Unoccupied
  <2>4. \A r \in Requests : request'[r].state = "deciding" => request'[r] = request[r]
    BY <2>1 DEF Unoccupied
  <2>5. \A i \in Ops : \A r \in Requests : Answers(i, r) /\ op[i].state = "open" => request'[r] = request[r]
    BY <2>1 DEF Decisions, Unoccupied
  <2>6. \A r \in Requests : request'[r].state \in {"none", "pending"} => request[r].state \in {"none", "pending"}
    BY <2>1 DEF Unoccupied
  <2> QED BY <2>1, <2>2, <2>3, <2>4, <2>5, <2>6 DEF Decisions, Answers, AnswersThen
<1>2. CASE Submission
  <2>1. PICK kind \in Kinds \ {"none"}, r0 \in {0} \union Requests :
           /\ Submit(kind, r0)
           /\ \/ kind = "respond" /\ r0 \in Requests /\ Respond(r0)
              \/ kind # "respond" /\ request' = request
    BY <1>2, Submitted
  <2> DEFINE n == admitted'
  <2>2. /\ n \in Ops
        /\ op'[n] = [kind |-> kind, turn |-> session.turn, request |-> r0, state |-> "open"]
        /\ \A i \in Ops : i # n => op'[i] = op[i]
        /\ op[n].kind = "none"
    BY <2>1, Submits
  <2> HIDE DEF n
  <2>3. n # 0 /\ \A r \in Requests : request[r].by # n
    BY <1>d, <2>2, Zero DEF Decisions, Answers, AnswersThen
  <2>4. CASE kind # "respond" /\ request' = request
    <3>1. \A i \in Ops : \A r \in Requests : (AnswersThen(i, r) <=> Answers(i, r)) /\ (Answers(i, r) => op'[i] = op[i])
      BY <2>2, <2>4 DEF Answers, AnswersThen
    <3>2. \A r \in Requests : request'[r].by # 0 => AnswersThen(request'[r].by, r)
      BY <1>d, <2>4, <3>1 DEF Decisions
    <3>3. \A r \in Requests : request'[r].state = "deciding" =>
            request'[r].by # 0 /\ op'[request'[r].by].state = "open"
      BY <1>d, <2>2, <2>3, <2>4 DEF Decisions
    <3> QED BY <2>4, <3>1, <3>2, <3>3 DEF Decisions, Answers, AnswersThen
  <2>5. CASE kind = "respond" /\ r0 \in Requests /\ Respond(r0)
    <3>1. /\ request' = [request EXCEPT ![r0] = [request[r0] EXCEPT !.state = "deciding", !.by = n]]
          /\ request[r0].state = "pending"
      BY <2>5 DEF Respond, n
    <3>2. /\ request'[r0].state = "deciding" /\ request'[r0].by = n
          /\ \A r \in Requests : r # r0 => request'[r] = request[r]
      BY <1>a, <1>c, <2>5, <3>1 DEF RowTypes, RequestRow
    <3>3. \A i \in Ops : \A r \in Requests :
            AnswersThen(i, r) <=> Answers(i, r) \/ (i = n /\ r = r0)
      BY <2>2, <2>5 DEF Answers, AnswersThen
    <3>4. \A i \in Ops : \A r \in Requests : Answers(i, r) => i # n /\ op'[i] = op[i]
      BY <2>2 DEF Answers, AnswersThen
    <3>5. \A i \in Ops : Answers(i, r0) => op[i].state = "failed"
      BY <2>5, <3>1 DEF Decisions
    <3>6. op'[n].state = "open"
      BY <2>2
    <3>7. \A r \in Requests : request'[r].by # 0 => AnswersThen(request'[r].by, r)
      <4>1. ASSUME NEW r \in Requests, request'[r].by # 0 PROVE AnswersThen(request'[r].by, r)
        <5>1. CASE r = r0
          BY <2>2, <3>2, <3>3, <5>1
        <5>2. CASE r # r0
          BY <1>d, <3>2, <3>3, <4>1, <5>2 DEF Decisions
        <5> QED BY <5>1, <5>2
      <4> QED BY <4>1
    <3>8. \A r \in Requests : request'[r].state = "deciding" =>
            request'[r].by # 0 /\ op'[request'[r].by].state = "open"
      <4>1. ASSUME NEW r \in Requests, request'[r].state = "deciding", r # r0
            PROVE  request'[r].by # 0 /\ op'[request'[r].by].state = "open"
        BY <1>d, <2>2, <2>3, <3>2, <4>1 DEF Decisions
      <4> QED BY <2>3, <3>2, <3>6, <4>1
    <3>9. \A i \in Ops : \A r \in Requests : AnswersThen(i, r) /\ op'[i].state = "open" =>
            request'[r].state = "deciding" /\ request'[r].by = i
      <4>1. ASSUME NEW i \in Ops, NEW r \in Requests, Answers(i, r), op'[i].state = "open"
            PROVE  request'[r].state = "deciding" /\ request'[r].by = i
        <5>1. op[i].state = "open"
          BY <3>4, <4>1
        <5>2. r # r0
          BY <3>5, <4>1, <5>1
        <5> QED BY <3>2, <4>1, <5>1, <5>2 DEF Decisions
      <4> QED BY <3>2, <3>3, <4>1
    <3>10. \A i \in Ops : \A r \in Requests :
             AnswersThen(i, r) /\ request'[r].state \in {"none", "pending"} => op'[i].state = "failed"
      <4>1. ASSUME NEW i \in Ops, NEW r \in Requests, AnswersThen(i, r), request'[r].state \in {"none", "pending"}
            PROVE  op'[i].state = "failed"
        <5>1. r # r0
          BY <3>2, <4>1
        <5>2. Answers(i, r) /\ request'[r] = request[r]
          BY <3>2, <3>3, <4>1, <5>1
        <5>3. op[i].state = "failed"
          BY <4>1, <5>2 DEF Decisions
        <5> QED BY <3>4, <5>2, <5>3
      <4> QED BY <4>1
    <3>11. \A i, j \in Ops : \A r \in Requests :
             AnswersThen(i, r) /\ AnswersThen(j, r) /\ i # j => op'[i].state = "failed" \/ op'[j].state = "failed"
      <4>1. ASSUME NEW i \in Ops, NEW j \in Ops, NEW r \in Requests, AnswersThen(i, r), AnswersThen(j, r), i # j
            PROVE  op'[i].state = "failed" \/ op'[j].state = "failed"
        <5>1. CASE Answers(i, r) /\ Answers(j, r)
          BY <3>4, <4>1, <5>1 DEF Decisions
        <5>2. CASE i = n /\ r = r0
          BY <3>3, <3>4, <3>5, <4>1, <5>2
        <5>3. CASE j = n /\ r = r0
          BY <3>3, <3>4, <3>5, <4>1, <5>3
        <5> QED BY <3>3, <4>1, <5>1, <5>2, <5>3
      <4> QED BY <4>1
    <3> QED BY <3>7, <3>8, <3>9, <3>10, <3>11 DEF Decisions, Answers, AnswersThen
  <2> QED BY <2>1, <2>4, <2>5
<1>3. CASE Answered
  <2>1. CASE UNCHANGED dbVars
    BY <2>1 DEF dbVars, Decisions, Answers
  <2>2. ASSUME NEW i \in Ops, op[i].state = "open", Fail(i) PROVE Decisions'
    <3>1. /\ \A j \in Ops : op'[j] = IF j = i THEN [op[i] EXCEPT !.state = "failed"] ELSE op[j]
          /\ \A r \in Requests : request'[r] = GivenBack(i)[r]
      BY <1>a, <2>2, Failing
    <3>2. /\ op'[i].kind = op[i].kind /\ op'[i].request = op[i].request /\ op'[i].state = "failed"
          /\ \A j \in Ops : j # i => op'[j] = op[j]
      BY <1>b, <3>1 DEF OpRow
    <3>3. \A j \in Ops : \A r \in Requests : AnswersThen(j, r) <=> Answers(j, r)
      BY <3>2 DEF Answers, AnswersThen
    <3>4. ASSUME NEW r \in Requests
          PROVE  \/ request'[r] = request[r] /\ ~(request[r].state = "deciding" /\ request[r].by = i)
                 \/ /\ request[r].state = "deciding" /\ request[r].by = i
                    /\ request'[r].state # "deciding" /\ request'[r].by = 0
      BY <1>c, <3>1 DEF GivenBack, RequestRow
    <3>5. \A r \in Requests : request'[r].by # 0 => AnswersThen(request'[r].by, r)
      BY <1>d, <3>3, <3>4 DEF Decisions
    <3>6. \A r \in Requests : request'[r].state = "deciding" =>
            request'[r].by # 0 /\ op'[request'[r].by].state = "open"
      BY <1>d, <3>2, <3>4 DEF Decisions
    <3>7. \A j \in Ops : \A r \in Requests : AnswersThen(j, r) /\ op'[j].state = "open" =>
            request'[r].state = "deciding" /\ request'[r].by = j
      BY <3>2, <3>3, <3>4 DEF Decisions
    <3>8. ASSUME NEW j \in Ops, NEW r \in Requests, Answers(j, r), request'[r].state \in {"none", "pending"}
          PROVE  op'[j].state = "failed"
      <4>1. CASE request'[r] = request[r]
        BY <3>2, <3>8, <4>1 DEF Decisions
      <4>2. CASE request[r].state = "deciding" /\ request[r].by = i
        <5>1. Answers(i, r)
          BY <4>2, Zero DEF Decisions
        <5>2. j # i => op[j].state = "failed"
          BY <2>2, <3>8, <5>1 DEF Decisions
        <5> QED BY <3>2, <5>2
      <4> QED BY <3>4, <4>1, <4>2
    <3>9. \A j, k \in Ops : \A r \in Requests :
             AnswersThen(j, r) /\ AnswersThen(k, r) /\ j # k => op'[j].state = "failed" \/ op'[k].state = "failed"
      BY <3>2, <3>3 DEF Decisions
    <3> QED BY <3>3, <3>5, <3>6, <3>7, <3>8, <3>9 DEF Decisions, Answers, AnswersThen
  <2>3. ASSUME NEW i \in Ops, op[i].state = "open", Confirm(i) PROVE Decisions'
    <3>1. /\ \A j \in Ops : op'[j] = IF j = i THEN [op[i] EXCEPT !.state = "confirmed"] ELSE op[j]
          /\ \A r \in Requests :
              request'[r] = IF op[i].kind = "respond" /\ request[r].by = i
                              THEN [request[r] EXCEPT !.state = "resolved"] ELSE request[r]
      BY <1>a, <2>3, Confirming
    <3>2. /\ op'[i].kind = op[i].kind /\ op'[i].request = op[i].request /\ op'[i].state = "confirmed"
          /\ \A j \in Ops : j # i => op'[j] = op[j]
      BY <1>b, <3>1 DEF OpRow
    <3>3. \A j \in Ops : \A r \in Requests : AnswersThen(j, r) <=> Answers(j, r)
      BY <3>2 DEF Answers, AnswersThen
    <3>4. ASSUME NEW r \in Requests
          PROVE  /\ request'[r].by = request[r].by
                 /\ \/ request'[r] = request[r] /\ request[r].by # i
                    \/ request'[r].state = "resolved"
      <4>1. request[r].by = i => op[i].kind = "respond"
        BY Zero DEF Decisions, Answers, AnswersThen
      <4> QED BY <1>c, <3>1, <4>1 DEF RequestRow
    <3>5. \A r \in Requests : request'[r].by # 0 => AnswersThen(request'[r].by, r)
      BY <1>d, <3>3, <3>4 DEF Decisions
    <3>6. \A r \in Requests : request'[r].state = "deciding" =>
            request'[r].by # 0 /\ op'[request'[r].by].state = "open"
      BY <1>d, <3>2, <3>4 DEF Decisions
    <3>7. ASSUME NEW j \in Ops, NEW r \in Requests, Answers(j, r), op'[j].state = "open"
          PROVE  request'[r].state = "deciding" /\ request'[r].by = j
      <4>1. j # i /\ op[j].state = "open"
        BY <3>2, <3>7
      <4>2. request[r].state = "deciding" /\ request[r].by = j
        BY <3>7, <4>1 DEF Decisions
      <4>3. request'[r] = request[r]
        BY <3>1, <4>1, <4>2
      <4> QED BY <4>2, <4>3
    <3>8. ASSUME NEW j \in Ops, NEW r \in Requests, Answers(j, r), request'[r].state \in {"none", "pending"}
          PROVE  op'[j].state = "failed"
      <4>1. request'[r] = request[r]
        BY <3>4, <3>8
      <4>2. op[j].state = "failed"
        BY <3>8, <4>1 DEF Decisions
      <4> QED BY <2>3, <3>2, <4>2
    <3>9. \A j, k \in Ops : \A r \in Requests :
             AnswersThen(j, r) /\ AnswersThen(k, r) /\ j # k => op'[j].state = "failed" \/ op'[k].state = "failed"
      <4>1. \A j \in Ops : op[j].state = "failed" => op'[j].state = "failed"
        BY <2>3, <3>2
      <4> QED BY <3>3, <4>1 DEF Decisions
    <3> QED BY <3>3, <3>5, <3>6, <3>7, <3>8, <3>9 DEF Decisions, Answers, AnswersThen
  <2> QED BY <1>3, <1>a, <2>1, <2>2, <2>3, Outcomes
<1> QED BY <1>1, <1>2, <1>3

-----------------------------------------------------------------------------
(* Turns and the queue. *)

\* What becomes of the session's row and of its turn's.
LEMMA TurnsChange ==
  ASSUME TypeOK, Admissions, Commands, [Next]_vars
  PROVE  \/ UNCHANGED <<session, turns>>
         \/ /\ session.state = "none" /\ session'.state = "idle" /\ session'.turn \in Ops
            /\ turns' = [turns EXCEPT ![session'.turn] = "starting"]
            /\ op[session'.turn].kind = "none" /\ op'[session'.turn].kind = "create"
         \/ /\ session.state \in {"idle"} /\ session' = [session EXCEPT !.state = "failed"]
            /\ turns' = [turns EXCEPT ![session.turn] = "failed"]
         \/ /\ isActive(session.state) /\ session' = [session EXCEPT !.state = "cancelling"]
            /\ turns' = [turns EXCEPT ![session.turn] = "cancelling"]
         \/ \E e \in Event : e.type = "session" /\ InGw(e) /\ AcceptsSession(e) /\ sessionUpdate(e)
<1>a. RowTypes /\ FrameTypes
  BY TypeParts
<1>1. CASE Submission
  <2>1. PICK kind \in Kinds \ {"none"}, r \in {0} \union Requests :
           /\ Submit(kind, r)
           /\ \/ kind = "create" /\ Create
              \/ kind # "create" /\ session.state # "none" /\ UNCHANGED <<session, turns>>
    BY <1>1, Submitted
  <2>2. /\ admitted' \in Ops /\ op[admitted'].kind = "none"
        /\ op'[admitted'] = [kind |-> kind, turn |-> session.turn, request |-> r, state |-> "open"]
    BY <2>1, Submits
  <2>3. CASE kind = "create" /\ Create
    <3>1. /\ session.state = "none" /\ session' = [state |-> "idle", turn |-> admitted']
          /\ turns' = [turns EXCEPT ![admitted'] = "starting"]
      BY <2>3 DEF Create
    <3> QED BY <2>2, <2>3, <3>1
  <2> QED BY <2>1, <2>3
<1>2. CASE Answered
  <2>1. \/ UNCHANGED dbVars
        \/ \E i \in Ops : Fail(i) \/ Confirm(i)
    BY <1>2, <1>a, Outcomes
  <2> QED BY <1>a, <2>1, Failing, Confirming DEF dbVars
<1>3. CASE Ingest
  <2>1. PICK e \in Event :
           /\ InGw(e)
           /\ \/ e.type = "session" /\ AcceptsSession(e) /\ sessionUpdate(e)
              \/ e.type = "request" /\ AcceptsRequest(e) /\ requestCreate(e)
              \/ e.type = "withdraw" /\ requestCancel(e)
    BY <1>3, <1>a, EventTaken
  <2> QED BY <2>1 DEF requestCreate, requestCancel
<1>4. CASE RequestEnds \/ ByCommand \/ AgentStep \/ Silent \/ UNCHANGED vars
  BY <1>4, RowsKept DEF RequestEnds, Expire, vars, dbVars
<1> QED BY <1>1, <1>2, <1>3, <1>4, Steps

LEMMA TurnsStep ==
  ASSUME TypeOK, Admissions, Commands, OneTurnAtATime, [Next]_vars
  PROVE  OneTurnAtATime'
<1>a. RowTypes /\ FrameTypes
  BY TypeParts
<1>b. session \in SessionRow /\ turns \in [Ops -> TurnStates]
  BY <1>a DEF RowTypes
<1>c. session.state # "none" => session.turn \in Ops
  BY <1>b DEF SessionRow, Admissions
<1>d. \A i \in Ops : turns[i] \in {"starting", "running", "cancelling"} \union Waiting => i = session.turn
  BY DEF OneTurnAtATime, Unfinished
<1>e. session.state \in {"none"} \union Ended =>
        \A i \in Ops : turns[i] \notin {"starting", "running", "cancelling"} \union Waiting
  <2>1. session.state = "none" => session.turn = 0
    BY DEF Admissions
  <2>2. session.state \in Ended => turns[session.turn] \in Ended
    BY DEF OneTurnAtATime, Ended
  <2>3. \A x \in Ended : x \notin {"starting", "running", "cancelling"} \union Waiting
    BY DEF Ended, Waiting
  <2> QED BY <1>d, <2>1, <2>2, <2>3, Zero
<1>1. CASE UNCHANGED <<session, turns>>
  BY <1>1 DEF OneTurnAtATime, Unfinished
<1>f. ASSUME NEW t \in Ops, NEW s, turns' = [turns EXCEPT ![t] = s], session'.turn = t,
             t = session.turn \/ session.state \in {"none"} \union Ended,
             session'.state \notin {"none", "closed"} => s = IF session'.state = "idle" THEN "starting" ELSE session'.state,
             session'.state = "closed" => s \in Ended
      PROVE  OneTurnAtATime'
  <2>1. turns'[t] = s /\ \A i \in Ops : i # t => turns'[i] = turns[i]
    BY <1>b, <1>f
  <2>2. \A i \in Ops : turns'[i] \in {"starting", "running", "cancelling"} \union Waiting => i = t
    BY <1>d, <1>e, <1>f, <2>1
  <2> QED BY <1>f, <2>1, <2>2 DEF OneTurnAtATime, Unfinished
<1>2. CASE /\ session.state = "none" /\ session'.state = "idle" /\ session'.turn \in Ops
           /\ turns' = [turns EXCEPT ![session'.turn] = "starting"]
  BY <1>2, <1>f
<1>3. CASE /\ session.state \in {"idle"} /\ session' = [session EXCEPT !.state = "failed"]
           /\ turns' = [turns EXCEPT ![session.turn] = "failed"]
  <2>1. session'.state = "failed" /\ session'.turn = session.turn /\ session.turn \in Ops
    BY <1>b, <1>c, <1>3 DEF SessionRow
  <2> QED BY <1>f, <1>3, <2>1
<1>4. CASE /\ isActive(session.state) /\ session' = [session EXCEPT !.state = "cancelling"]
           /\ turns' = [turns EXCEPT ![session.turn] = "cancelling"]
  <2>1. session'.state = "cancelling" /\ session'.turn = session.turn /\ session.turn \in Ops
    BY <1>b, <1>c, <1>4 DEF SessionRow, isActive, Waiting
  <2> QED BY <1>f, <1>4, <2>1
<1>5. ASSUME NEW e \in Event, e.type = "session", AcceptsSession(e), sessionUpdate(e)
      PROVE  OneTurnAtATime'
  <2>1. e.state \in SessionStates /\ e.turn \in Ops /\ e.state # "none"
    BY <1>5, Events DEF SessionStates, Waiting, Ended
  <2>2. /\ session' = [state |-> e.state, turn |-> e.turn]
        /\ turns' = [turns EXCEPT ![e.turn] = TurnState(e)]
        /\ \/ e.turn # session.turn /\ e.state = "running" /\ MayStart(e.turn)
           \/ e.turn = session.turn /\ session.state \in SessionStates
    BY <1>a, <1>5, SessionUpdates DEF sessionUpdate
  <2>3. session'.state = e.state /\ session'.turn = e.turn
    BY <2>2
  <2>4. e.turn = session.turn \/ session.state \in {"none"} \union Ended
    BY <1>b, <2>2 DEF MayStart, isActive, SessionRow, SessionStates
  <2>5. e.state # "closed" => TurnState(e) = IF e.state = "idle" THEN "starting" ELSE e.state
    BY DEF TurnState
  <2>6. e.state = "closed" => TurnState(e) \in Ended
    <3> SUFFICES ASSUME e.state = "closed" PROVE TurnState(e) \in Ended
      OBVIOUS
    <3>1. e.turn = session.turn /\ session.state \in SessionStates
      BY <2>2
    <3>2. CASE session.state = "closed"
      <4>1. ~isActive("closed") /\ "closed" \notin Ended
        BY DEF isActive, Waiting, Ended
      <4>2. TurnState(e) = turns[e.turn]
        BY <3>2, <4>1 DEF TurnState
      <4> QED BY <3>1, <3>2, <4>2 DEF OneTurnAtATime
    <3>3. CASE isActive(session.state)
      <4>1. session.state # "closed"
        BY <3>3 DEF isActive, Waiting
      <4> QED BY <3>3, <4>1 DEF TurnState, Ended
    <3>4. CASE session.state \in Ended
      <4>1. session.state # "closed" /\ ~isActive(session.state)
        BY <3>4 DEF isActive, Waiting, Ended
      <4> QED BY <3>4, <4>1 DEF TurnState
    <3> QED BY <3>1, <3>2, <3>3, <3>4 DEF SessionStates, isActive
  <2> QED BY <1>f, <2>1, <2>2, <2>3, <2>4, <2>5, <2>6
<1> QED BY <1>1, <1>2, <1>3, <1>4, <1>5, TurnsChange

LEMMA RangeHas ==
  ASSUME NEW S, NEW q \in Seq(S), NEW x
  PROVE  x \in Range(q) <=> Has(q, x)
  BY DEF Range, Has

\* What is in a prefix is in the whole.
LEMMA PrefixHas ==
  ASSUME NEW S, NEW p \in Seq(S), NEW q \in Seq(S), IsPrefix(p, q), NEW x, Has(p, x)
  PROVE  Has(q, x)
<1>1. Len(p) \in Nat /\ Len(q) \in Nat /\ Len(p) <= Len(q)
  BY DEF IsPrefix
<1>2. ASSUME NEW n \in 1..Len(p) PROVE n \in 1..Len(q) /\ p[n] = q[n]
  <2>1. SubSeq(p, 1, Len(p))[n] = p[n] /\ SubSeq(q, 1, Len(p))[n] = q[n]
    BY <1>1
  <2> QED BY <1>1, <2>1 DEF IsPrefix
<1> QED BY <1>2 DEF Has

\* A turn that has begun keeps a state, and an operation that was not admitted has none.
LEMMA TurnRows ==
  ASSUME TypeOK, Admissions, Commands, OneTurnAtATime, QueueRows, [Next]_vars, NEW i \in Ops,
         ~\E e \in Event : e.type = "session" /\ InGw(e) /\ AcceptsSession(e) /\ sessionUpdate(e)
  PROVE  /\ op[i].kind # "none" => (turns'[i] = "none" <=> turns[i] = "none")
         /\ op[i].kind = "none" /\ op'[i].kind # "create" => turns'[i] = "none"
<1>a. session \in SessionRow /\ turns \in [Ops -> TurnStates]
  BY TypeParts DEF RowTypes
<1>b. op[i].kind # "none" => op'[i].kind = op[i].kind
  BY OpKept
<1>c. op[i].kind = "none" => turns[i] = "none"
  BY DEF QueueRows
<1>1. CASE UNCHANGED <<session, turns>>
  BY <1>b, <1>c, <1>1
<1>2. CASE /\ session'.turn \in Ops
           /\ turns' = [turns EXCEPT ![session'.turn] = "starting"]
           /\ op[session'.turn].kind = "none" /\ op'[session'.turn].kind = "create"
  BY <1>a, <1>b, <1>c, <1>2
<1>3. ASSUME session.state \notin {"none", "closed"}, NEW s, s # "none",
             turns' = [turns EXCEPT ![session.turn] = s]
      PROVE  /\ op[i].kind # "none" => (turns'[i] = "none" <=> turns[i] = "none")
             /\ op[i].kind = "none" /\ op'[i].kind # "create" => turns'[i] = "none"
  <2>1. turns[session.turn] # "none"
    BY <1>3 DEF OneTurnAtATime
  <2> QED BY <1>a, <1>b, <1>c, <1>3, <2>1
<1>4. CASE session.state \in {"idle"} /\ turns' = [turns EXCEPT ![session.turn] = "failed"]
  BY <1>3, <1>4
<1>5. CASE isActive(session.state) /\ turns' = [turns EXCEPT ![session.turn] = "cancelling"]
  BY <1>3, <1>5 DEF isActive, Waiting
<1> QED BY <1>1, <1>2, <1>4, <1>5, TurnsChange

\* The rows of the queue after a snapshot.
LEMMA QueueMirrored ==
  ASSUME TypeOK, Admissions, Commands, Snapshots, OneTurnAtATime, QueueRows,
         NEW e \in Event, e.type = "session", InGw(e), AcceptsSession(e), sessionUpdate(e)
  PROVE  /\ \A n \in 1..Len(queue') : /\ op[queue'[n]].kind = "queue" /\ op[queue'[n]].state # "failed"
                                      /\ Executed(queue'[n]) /\ queue'[n] \notin consumed'
         /\ \A i \in Ops : op[i].kind = "queue" => (i \in consumed' <=> turns'[i] # "none")
         /\ \A i \in Ops : op[i].kind = "queue" /\ op[i].state = "confirmed" /\ i \notin consumed' =>
              Has(queue', i)
         /\ \A i \in Ops : op[i].kind = "none" => turns'[i] = "none" /\ i \notin consumed'
<1> DEFINE t == e.turn
           left == QueueWithout(t)
<1>a. RowTypes /\ queue \in Seq(Ops) /\ consumed \subseteq Ops
  BY TypeParts DEF RowTypes
<1>b. e.state \in SessionStates /\ t \in Ops /\ e.queue \in Seq(Ops)
  BY Events
<1>1. /\ \A i \in Ops : turns'[i] = IF i = t THEN TurnState(e) ELSE turns[i]
      /\ queue' = e.queue /\ consumed' = ConsumedBy(t)
      /\ \/ t # session.turn /\ e.state = "running" /\ MayStart(t)
         \/ /\ t = session.turn /\ validTransition(session.state, e.state)
            /\ session.state \in SessionStates
  BY <1>a, SessionUpdates
<1>2. IsPrefix(left, e.queue)
      /\ \A i \in Range(e.queue) : op[i].kind = "queue" /\ op[i].state # "failed" /\ i \notin ConsumedBy(t)
  BY DEF AcceptsSession, Mirrorable
<1>3. \A n \in 1..Len(e.queue) : Executed(e.queue[n])
  BY DEF Snapshots, Truthful
<1>4. \A i \in Ops : i \in ConsumedBy(t) <=> i \in consumed \/ (i = t /\ Has(queue, t))
  BY <1>a, RangeHas DEF ConsumedBy
<1>5. \A n \in 1..Len(e.queue) : e.queue[n] \in Range(e.queue)
  BY <1>b DEF Range
<1>6. t = session.turn => turns[t] # "none" /\ op[t].kind # "none"
  <2>1. t = session.turn => session.state \in SessionStates
    BY <1>1
  <2>2. t = session.turn => turns[t] # "none"
    BY <2>1 DEF OneTurnAtATime, SessionStates, Waiting, Ended
  <2> QED BY <1>b, <2>2 DEF QueueRows
<1>7. TurnState(e) # "none"
  <2>1. CASE e.state # "closed"
    BY <1>b, <2>1 DEF TurnState, SessionStates, Waiting, Ended
  <2>2. CASE e.state = "closed"
    <3>1. t = session.turn /\ session.state \in SessionStates
      BY <1>1, <2>2
    <3>2. ~isActive("closed") /\ "closed" \notin Ended /\ "none" \notin Ended
      BY DEF isActive, Waiting, Ended
    <3>3. \A x \in Ended : ~isActive(x)
      BY DEF isActive, Waiting, Ended
    <3>4. session.state = "closed" \/ isActive(session.state) \/ session.state \in Ended
      BY <3>1 DEF SessionStates, isActive
    <3>5. TurnState(e) = turns[t] \/ TurnState(e) = "failed" \/ (TurnState(e) = session.state /\ session.state \in Ended)
      BY <2>2, <3>2, <3>3, <3>4 DEF TurnState
    <3> QED BY <1>6, <3>1, <3>2, <3>5
  <2> QED BY <2>1, <2>2
<1>8. t # session.turn =>
        op[t].kind \in {"send", "queue"} /\ (op[t].kind = "queue" => Has(queue, t))
  <2>1. queue # <<>> => Has(queue, Head(queue))
    BY <1>a, TailFacts
  <2> QED BY <1>1, <2>1 DEF MayStart
<1>9. \A i \in Ops : op[i].kind = "queue" => (i \in consumed' <=> turns'[i] # "none")
  <2>1. ASSUME NEW i \in Ops, op[i].kind = "queue", i # t PROVE i \in consumed' <=> turns'[i] # "none"
    BY <1>1, <1>4, <2>1 DEF QueueRows
  <2>2. ASSUME op[t].kind = "queue" PROVE t \in consumed' /\ turns'[t] # "none"
    <3>1. t = session.turn => t \in consumed
      BY <1>b, <1>6, <2>2 DEF QueueRows
    <3> QED BY <1>b, <1>1, <1>4, <1>7, <1>8, <2>2, <3>1
  <2> QED BY <2>1, <2>2
<1>10. \A i \in Ops : op[i].kind = "none" => turns'[i] = "none" /\ i \notin consumed'
  <2>1. op[t].kind # "none"
    BY <1>6, <1>8
  <2> QED BY <1>1, <1>4, <2>1 DEF QueueRows
<1>11. ASSUME NEW i \in Ops, op[i].kind = "queue", op[i].state = "confirmed", i \notin consumed'
       PROVE  Has(queue', i)
  <2>1. i \notin consumed /\ ~(i = t /\ Has(queue, t))
    BY <1>1, <1>4, <1>11
  <2>2. Has(queue, i)
    BY <1>11, <2>1 DEF QueueRows
  <2>3. left \in Seq(Ops) /\ Has(left, i)
    <3>1. CASE queue # <<>> /\ Head(queue) = t
      <4>1. Tail(queue) \in Seq(Ops) /\ (i = Head(queue) \/ Has(Tail(queue), i))
        BY <1>a, <2>2, <3>1, TailFacts
      <4> QED BY <2>1, <2>2, <3>1, <4>1 DEF QueueWithout
    <3>2. CASE ~(queue # <<>> /\ Head(queue) = t)
      <4>1. left = queue
        BY <3>2 DEF QueueWithout
      <4> QED BY <1>a, <2>2, <4>1
    <3> QED BY <3>1, <3>2
  <2> QED BY <1>b, <1>1, <1>2, <2>3, PrefixHas
<1>12. \A n \in 1..Len(queue') : /\ op[queue'[n]].kind = "queue" /\ op[queue'[n]].state # "failed"
                                 /\ Executed(queue'[n]) /\ queue'[n] \notin consumed'
  BY <1>1, <1>2, <1>3, <1>5
<1> QED BY <1>9, <1>10, <1>11, <1>12

LEMMA QueueStep ==
  ASSUME TypeOK, Admissions, Commands, Snapshots, OneTurnAtATime, QueueRows, [Next]_vars
  PROVE  QueueRows'
<1>a. RowTypes /\ FrameTypes
  BY TypeParts
<1>b. queue \in Seq(Ops) /\ consumed \subseteq Ops /\ (\A i \in Ops : op[i] \in OpRow)
  BY <1>a DEF RowTypes
<1>c. \A n \in 1..Len(queue) : queue[n] \in Ops
  BY <1>b
<1>d. \A i \in Ops : Executed(i) => ExecutedThen(i)
  BY JournalStep DEF Executed, ExecutedThen
<1>e. \A i \in Ops : op[i].kind # "none" => op'[i].kind = op[i].kind
  BY OpKept
<1>1. ASSUME NEW e \in Event, e.type = "session", InGw(e), AcceptsSession(e), sessionUpdate(e)
      PROVE  QueueRows'
  <2>1. op' = op
    BY <1>1 DEF sessionUpdate
  <2>2. /\ \A n \in 1..Len(queue') : /\ op[queue'[n]].kind = "queue" /\ op[queue'[n]].state # "failed"
                                     /\ Executed(queue'[n]) /\ queue'[n] \notin consumed'
        /\ \A i \in Ops : op[i].kind = "queue" => (i \in consumed' <=> turns'[i] # "none")
        /\ \A i \in Ops : op[i].kind = "queue" /\ op[i].state = "confirmed" /\ i \notin consumed' =>
             Has(queue', i)
        /\ \A i \in Ops : op[i].kind = "none" => turns'[i] = "none" /\ i \notin consumed'
    BY <1>1, QueueMirrored
  <2>3. \A n \in 1..Len(queue') : queue'[n] \in Ops
    <3>1. queue' \in Seq(Ops)
      BY RowStep DEF RowTypes
    <3> QED BY <3>1
  <2>4. \A n \in 1..Len(queue') : ExecutedThen(queue'[n])
    BY <1>d, <2>2, <2>3
  <2> QED BY <2>1, <2>2, <2>4 DEF QueueRows, Executed, ExecutedThen
<1>2. CASE ~\E e \in Event : e.type = "session" /\ InGw(e) /\ AcceptsSession(e) /\ sessionUpdate(e)
  <2>1. \A i \in Ops : /\ op[i].kind # "none" => (turns'[i] = "none" <=> turns[i] = "none")
                       /\ op[i].kind = "none" /\ op'[i].kind # "create" => turns'[i] = "none"
    BY <1>2, TurnRows
  <2>2. /\ consumed' = consumed
        /\ \/ queue' = queue /\ \A i \in Ops : op[i].kind = "queue" /\ op'[i] # op[i] => ~ConfirmedNow(i)
           \/ \E i \in Ops : Confirm(i) /\ Confirmable(i) /\ journal[i] = "confirmed"
    <3>1. CASE Submission
      <4>1. UNCHANGED <<queue, consumed>>
        BY <3>1, Submitted DEF Submit
      <4>2. ASSUME NEW i \in Ops, op[i].kind = "queue" PROVE op'[i] = op[i]
        <5>1. PICK kind \in Kinds \ {"none"}, r \in {0} \union Requests : Submit(kind, r)
          BY <3>1, Submitted
        <5>2. op[admitted'].kind = "none" /\ \A j \in Ops : j # admitted' => op'[j] = op[j]
          BY <5>1, Submits
        <5> QED BY <4>2, <5>2
      <4> QED BY <4>1, <4>2
    <3>2. CASE Answered
      <4>1. CASE UNCHANGED dbVars
        BY <4>1 DEF dbVars
      <4>2. ASSUME NEW i \in Ops, Fail(i)
            PROVE  queue' = queue /\ consumed' = consumed /\ \A j \in Ops : op'[j] # op[j] => ~ConfirmedNow(j)
        <5>1. /\ queue' = queue /\ consumed' = consumed
              /\ \A j \in Ops : op'[j] = IF j = i THEN [op[i] EXCEPT !.state = "failed"] ELSE op[j]
          BY <1>a, <4>2, Failing
        <5>2. op'[i].state = "failed" /\ \A j \in Ops : j # i => op'[j] = op[j]
          BY <1>b, <5>1 DEF OpRow
        <5> QED BY <1>b, <5>1, <5>2 DEF ConfirmedNow, OpRow
      <4>3. ASSUME NEW i \in Ops, Confirm(i) PROVE consumed' = consumed
        BY <4>3 DEF Confirm
      <4> QED BY <3>2, <1>a, <4>1, <4>2, <4>3, Outcomes
    <3>3. CASE ~Submission /\ ~Answered
      <4>1. op' = op
        BY <3>3, RequestsUnoccupied
      <4>2. RequestEnds => UNCHANGED <<queue, consumed>>
        BY DEF RequestEnds, Expire
      <4>3. Ingest => UNCHANGED <<queue, consumed>>
        BY <1>a, <1>2, EventTaken DEF requestCreate, requestCancel
      <4>4. ByCommand \/ AgentStep \/ Silent \/ UNCHANGED vars => UNCHANGED <<queue, consumed>>
        BY RowsKept DEF vars, dbVars
      <4> QED BY <3>3, <4>1, <4>2, <4>3, <4>4, Steps
    <3> QED BY <3>1, <3>2, <3>3
  <2>3. \A i \in Ops : op[i].kind = "queue" /\ Executed(i) /\ op[i].state # "failed" => op'[i].state # "failed"
    <3>1. ASSUME NEW i \in Ops, op[i].kind = "queue", Executed(i), op[i].state # "failed"
          PROVE  op'[i].state # "failed"
      <4>1. op'[i] = op[i] \/ ConfirmedNow(i)
        BY <3>1, OpStep DEF AdmittedNow, FailedNow
      <4> QED BY <1>b, <3>1, <4>1 DEF ConfirmedNow, OpRow
    <3> QED BY <3>1
  <2>4. \A i \in Ops : op'[i].kind = "queue" => (i \in consumed' <=> turns'[i] # "none")
    <3>1. ASSUME NEW i \in Ops, op'[i].kind = "queue", op[i].kind = "none" PROVE i \notin consumed /\ turns'[i] = "none"
      BY <2>1, <3>1 DEF QueueRows
    <3>2. ASSUME NEW i \in Ops, op'[i].kind = "queue", op[i].kind # "none"
          PROVE  i \in consumed' <=> turns'[i] # "none"
      <4>1. op[i].kind = "queue"
        BY <1>e, <3>2
      <4> QED BY <2>1, <2>2, <3>2, <4>1 DEF QueueRows
    <3> QED BY <2>2, <3>1, <3>2
  <2>5. \A i \in Ops : op'[i].kind = "none" => turns'[i] = "none" /\ i \notin consumed'
    <3>1. \A i \in Ops : op'[i].kind = "none" => op[i].kind = "none"
      BY <1>e
    <3> QED BY <2>1, <2>2, <3>1 DEF QueueRows
  <2>6. CASE queue' = queue /\ \A i \in Ops : op[i].kind = "queue" /\ op'[i] # op[i] => ~ConfirmedNow(i)
    <3>1. \A n \in 1..Len(queue') : /\ op'[queue'[n]].kind = "queue" /\ op'[queue'[n]].state # "failed"
                                    /\ ExecutedThen(queue'[n]) /\ queue'[n] \notin consumed'
      BY <1>c, <1>d, <1>e, <2>2, <2>3, <2>6 DEF QueueRows
    <3>2. ASSUME NEW i \in Ops, op'[i].kind = "queue", op'[i].state = "confirmed", i \notin consumed'
          PROVE  Has(queue', i)
      <4>1. op[i].kind = "queue" /\ op'[i] = op[i]
        <5>1. ~AdmittedNow(i) /\ ~FailedNow(i)
          BY <1>b, <3>2 DEF AdmittedNow, FailedNow, OpRow
        <5>2. op'[i] = op[i] \/ ConfirmedNow(i)
          BY <5>1, OpStep
        <5>3. op[i].kind = "queue"
          BY <1>b, <3>2, <5>2 DEF ConfirmedNow, OpRow
        <5> QED BY <2>6, <5>2, <5>3
      <4> QED BY <2>2, <2>6, <3>2, <4>1 DEF QueueRows
    <3> QED BY <2>4, <2>5, <3>1, <3>2 DEF QueueRows, Executed, ExecutedThen
  <2>7. ASSUME NEW i \in Ops, Confirm(i), Confirmable(i), journal[i] = "confirmed" PROVE QueueRows'
    <3>1. /\ \A j \in Ops : op'[j] = IF j = i THEN [op[i] EXCEPT !.state = "confirmed"] ELSE op[j]
          /\ queue' = IF op[i].kind = "queue" THEN QueueWith(i) ELSE queue
      BY <1>a, <2>7, Confirming DEF Confirm
    <3>2. op'[i].state = "confirmed" /\ op'[i].kind = op[i].kind /\ \A j \in Ops : j # i => op'[j] = op[j]
      BY <1>b, <3>1 DEF OpRow
    <3>3. Executed(i) /\ ExecutedThen(i)
      BY <1>d, <2>7 DEF Executed
    <3>4. \/ queue' = queue /\ (op[i].kind = "queue" => Has(queue, i))
          \/ queue' = Append(queue, i) /\ op[i].kind = "queue" /\ i \notin consumed
      BY <1>b, <2>7, <3>1, RangeHas DEF QueueWith, Confirmable
    <3>5. /\ \A y : Has(queue, y) => Has(queue', y)
          /\ op[i].kind = "queue" => Has(queue', i)
          /\ \A n \in 1..Len(queue') : \/ \E m \in 1..Len(queue) : queue'[n] = queue[m]
                                       \/ queue'[n] = i /\ op[i].kind = "queue" /\ i \notin consumed
      <4>1. CASE queue' = queue /\ (op[i].kind = "queue" => Has(queue, i))
        BY <4>1
      <4>2. CASE queue' = Append(queue, i) /\ op[i].kind = "queue" /\ i \notin consumed
        BY <1>b, <4>2, AppendFacts
      <4> QED BY <3>4, <4>1, <4>2
    <3>6. \A n \in 1..Len(queue') : /\ op'[queue'[n]].kind = "queue" /\ op'[queue'[n]].state # "failed"
                                    /\ ExecutedThen(queue'[n]) /\ queue'[n] \notin consumed'
      <4>1. \A m \in 1..Len(queue) : /\ op'[queue[m]].kind = "queue" /\ op'[queue[m]].state # "failed"
                                     /\ ExecutedThen(queue[m]) /\ queue[m] \notin consumed'
        BY <1>c, <1>d, <1>e, <2>2, <2>3 DEF QueueRows
      <4> QED BY <2>2, <3>2, <3>3, <3>5, <4>1
    <3>7. ASSUME NEW j \in Ops, op'[j].kind = "queue", op'[j].state = "confirmed", j \notin consumed'
          PROVE  Has(queue', j)
      BY <2>2, <3>2, <3>5, <3>7 DEF QueueRows
    <3> QED BY <2>4, <2>5, <3>6, <3>7 DEF QueueRows, Executed, ExecutedThen
  <2> QED BY <2>2, <2>6, <2>7
<1> QED BY <1>1, <1>2

LEMMA SuccessorsStep ==
  ASSUME TypeOK, Admissions, Commands, NodeSession, Successors, [Next]_vars
  PROVE  Successors'
<1>a. /\ native \in NativeSession /\ native.queue \in Seq(Ops) /\ (\A i \in Ops : op[i] \in OpRow)
      /\ journal \in [Ops -> JournalStates]
  BY TypeParts DEF NodeTypes, NativeSession, RowTypes
<1>b. \A i \in Ops : op[i].turn # 0 => op[i].turn \in Ops
  BY <1>a DEF OpRow
<1>c. \A i \in Ops : Executed(i) => ExecutedThen(i)
  BY JournalStep DEF Executed, ExecutedThen
<1>d. ASSUME NEW k \in Ops, ExecutedThen(k)
      PROVE  op'[k].kind = op[k].kind /\ op'[k].turn = op[k].turn
  <2>1. op[k].kind # "none"
    <3>1. op[k].kind = "none" => journal[k] = "none" /\ ~InNode(Command(k))
      BY DEF Commands, CommandOf, Admissions
    <3>2. journal'[k] = journal[k] \/ InNode(Command(k))
      BY JournalStep
    <3> QED BY <1>d, <3>1, <3>2 DEF ExecutedThen
  <2> QED BY <2>1, OpKept
<1>e. \A k \in Ops : op[k].kind = "send" /\ Executed(k) =>
        /\ op[k].turn # 0 /\ Executed(op[k].turn)
        /\ op[k].turn # native.turn /\ ~Has(native.queue, op[k].turn)
  BY DEF Successors
<1>f. \A i, j \in Ops :
        i # j /\ Executed(i) /\ Executed(j) /\ op[i].kind = "send" /\ op[j].kind = "send"
          => op[i].turn # op[j].turn
  BY DEF Successors, OneSuccessor
<1>g. ASSUME \A k \in Ops : op[k].kind = "send" /\ ExecutedThen(k) =>
               /\ op[k].turn # 0 /\ ExecutedThen(op[k].turn)
               /\ op[k].turn # native'.turn /\ ~Has(native'.queue, op[k].turn),
             \A i, j \in Ops :
               i # j /\ ExecutedThen(i) /\ ExecutedThen(j) /\ op[i].kind = "send" /\ op[j].kind = "send"
                 => op[i].turn # op[j].turn
      PROVE  Successors'
  BY <1>d, <1>g DEF Successors, OneSuccessor, Executed, ExecutedThen
\* The Node executed nothing new.
<1>h. ASSUME \A k \in Ops : ExecutedThen(k) => Executed(k),
             \A k \in Ops : k # native.turn /\ ~Has(native.queue, k) =>
               k # native'.turn /\ ~Has(native'.queue, k)
      PROVE  Successors'
  <2>1. \A k \in Ops : op[k].kind = "send" /\ ExecutedThen(k) =>
               /\ op[k].turn # 0 /\ ExecutedThen(op[k].turn)
               /\ op[k].turn # native'.turn /\ ~Has(native'.queue, op[k].turn)
    BY <1>b, <1>c, <1>e, <1>h
  <2>2. \A i, j \in Ops :
               i # j /\ ExecutedThen(i) /\ ExecutedThen(j) /\ op[i].kind = "send" /\ op[j].kind = "send"
                 => op[i].turn # op[j].turn
    BY <1>f, <1>h
  <2> QED BY <1>g, <2>1, <2>2
<1>1. CASE ByCommand
  <2>1. PICK i \in Ops :
           /\ op[i].state = "open" /\ journal[i] = "none" /\ op[i].kind \in Kinds \ {"none"}
           /\ Rejects(i) \/ Executes(i) \/ Drops(i)
    BY <1>1, CommandRead
  <2>2. CASE Rejects(i) \/ Drops(i)
    <3>1. native' = native /\ \E s \in {"rejected", "delivered"} : journal' = [journal EXCEPT ![i] = s]
      BY <2>2 DEF Rejects, Drops
    <3>2. \A k \in Ops : ExecutedThen(k) => Executed(k)
      BY <1>a, <3>1 DEF ExecutedThen, Executed
    <3> QED BY <1>h, <3>1, <3>2
  <2>3. CASE Executes(i)
    <3>1. /\ Executable(i) /\ native' = Begun(i)
          /\ \E s \in {"confirmed", "unknown"} : journal' = [journal EXCEPT ![i] = s]
      BY <2>3 DEF Executes
    <3>2. ~Executed(i) /\ \A k \in Ops : ExecutedThen(k) => Executed(k) \/ k = i
      BY <1>a, <2>1, <3>1 DEF ExecutedThen, Executed
    <3>3. \A k \in Ops : op[k].kind = "send" /\ Executed(k) => op[k].turn # i
      BY <1>e, <3>2
    <3>4. /\ native'.turn \in {native.turn, i}
          /\ \A y : Has(native'.queue, y) => Has(native.queue, y) \/ y = i
      <4>1. CASE op[i].kind = "queue"
        <5>1. native'.queue = Append(native.queue, i) /\ native'.turn = native.turn
          BY <2>1, <3>1, <4>1, BegunFacts, TypeParts
        <5> QED BY <1>a, <5>1, AppendFacts
      <4>2. CASE op[i].kind # "queue"
        <5>1. native'.queue = native.queue /\ native'.turn \in {native.turn, i}
          BY <2>1, <3>1, <4>2, BegunFacts, TypeParts DEF Kinds
        <5> QED BY <5>1
      <4> QED BY <4>1, <4>2
    <3>5. op[i].kind = "send" =>
            /\ op[i].turn = native.turn /\ native.turn # 0 /\ Executed(native.turn)
            /\ ~Has(native.queue, native.turn)
            /\ native'.turn = i /\ native'.queue = native.queue /\ native.turn # i
      <4>1. op[i].kind = "send" =>
              /\ op[i].turn = native.turn /\ native.state # "none"
              /\ native'.turn = i /\ native'.queue = native.queue
        BY <2>1, <3>1, BegunFacts, TypeParts
      <4>2. native.state # "none" => native.turn # 0 /\ Executed(native.turn)
        BY DEF NodeSession
      <4>3. ~Has(native.queue, native.turn)
        BY DEF NodeSession, Has
      <4> QED BY <3>2, <4>1, <4>2, <4>3
    <3>6. \A k \in Ops : op[k].kind = "send" /\ ExecutedThen(k) =>
               /\ op[k].turn # 0 /\ ExecutedThen(op[k].turn)
               /\ op[k].turn # native'.turn /\ ~Has(native'.queue, op[k].turn)
      <4>1. ASSUME NEW k \in Ops, op[k].kind = "send", Executed(k)
            PROVE  /\ op[k].turn # 0 /\ ExecutedThen(op[k].turn)
                   /\ op[k].turn # native'.turn /\ ~Has(native'.queue, op[k].turn)
        BY <1>b, <1>c, <1>e, <3>3, <3>4, <4>1
      <4>2. ASSUME op[i].kind = "send"
            PROVE  /\ op[i].turn # 0 /\ ExecutedThen(op[i].turn)
                   /\ op[i].turn # native'.turn /\ ~Has(native'.queue, op[i].turn)
        BY <1>b, <1>c, <3>5, <4>2
      <4> QED BY <3>2, <4>1, <4>2
    <3>7. \A j, k \in Ops :
               j # k /\ ExecutedThen(j) /\ ExecutedThen(k) /\ op[j].kind = "send" /\ op[k].kind = "send"
                 => op[j].turn # op[k].turn
      <4>1. \A k \in Ops : op[k].kind = "send" /\ op[i].kind = "send" /\ Executed(k) => op[k].turn # op[i].turn
        BY <1>e, <3>5
      <4> QED BY <1>f, <3>2, <4>1
    <3> QED BY <1>g, <3>6, <3>7
  <2> QED BY <2>1, <2>2, <2>3
<1>2. CASE AgentStep
  <2>1. journal' = journal
    BY <1>2, JournalKept
  <2>2. \A k \in Ops : ExecutedThen(k) => Executed(k)
    BY <2>1 DEF ExecutedThen, Executed
  <2>3. \/ native'.turn = native.turn /\ native'.queue = native.queue
        \/ /\ native.queue # <<>> /\ native'.turn = Head(native.queue)
           /\ native'.queue = Tail(native.queue)
    BY <1>2, AgentSteps
  <2>4. \A k \in Ops : k # native.turn /\ ~Has(native.queue, k) =>
          k # native'.turn /\ ~Has(native'.queue, k)
    <3>1. native.queue # <<>> =>
            Has(native.queue, Head(native.queue)) /\ \A y : Has(Tail(native.queue), y) => Has(native.queue, y)
      BY <1>a, TailFacts
    <3> QED BY <2>3, <3>1
  <2> QED BY <1>h, <2>2, <2>4
<1>3. CASE Submission \/ Answered \/ RequestEnds \/ Ingest \/ Silent \/ UNCHANGED vars
  <2>1. native' = native /\ journal' = journal
    BY <1>3, NativeKept, JournalKept DEF vars, nodeVars
  <2>2. \A k \in Ops : ExecutedThen(k) => Executed(k)
    BY <2>1 DEF ExecutedThen, Executed
  <2> QED BY <1>h, <2>1, <2>2
<1> QED BY <1>1, <1>2, <1>3, Steps

-----------------------------------------------------------------------------
(* The invariant. *)

LEMMA Initially == Init => IInv
<1> SUFFICES ASSUME Init PROVE IInv
  OBVIOUS
<1> USE DEF Init
<1>a. \A q : q = <<>> => Len(q) = 0 /\ \A x : ~Has(q, x) /\ Once(q, x)
  BY DEF Has, Once
<1>b. /\ \A f : ~InGw(f) /\ ~InNode(f) /\ ~Has(spool, f) /\ Once(toNode, f)
      /\ Len(queue) = 0 /\ Len(native.queue) = 0 /\ \A x : ~Has(native.queue, x)
  BY <1>a DEF InGw, InNode
<1>c. \A i \in Ops : ~Executed(i)
  BY DEF Executed
<1>1. TypeOK
  <2>1. admitted \in 0..MaxOps /\ asked \in 0..MaxRequests /\ connects \in 0..MaxConnects
    BY ConstantsAssumption
  <2>2. spool \in Seq(Event) /\ toGw \in Seq(ToGateway) /\ toNode \in Seq(ToTheNode)
        /\ queue \in Seq(Ops) /\ native.queue \in Seq(Ops)
    OBVIOUS
  <2>3. FrameTypes /\ CountTypes /\ FlagTypes
    BY <2>1, <2>2 DEF FrameTypes, CountTypes, FlagTypes
  <2>4. NodeTypes
    BY <2>2 DEF NodeTypes, NativeSession, JournalStates
  <2>5. RowTypes
    BY <2>2 DEF RowTypes, SessionRow, TurnStates, OpRow, RequestRow, Kinds
  <2> QED BY <2>3, <2>4, <2>5, TypeParts
<1>2. Admissions
  BY ConstantsAssumption DEF Admissions, Ops
<1>3. NodeSession
  BY <1>b DEF NodeSession
<1>4. Commands
  BY <1>b, <1>c DEF Commands, CommandOf
<1>5. Snapshots /\ Line
  BY <1>b DEF Snapshots, Line
<1>6. Serialised /\ Decisions
  BY DEF Serialised, Decisions, Answers
<1>7. OneTurnAtATime
  BY DEF OneTurnAtATime, Unfinished, Waiting
<1>8. QueueRows
  BY <1>b DEF QueueRows
<1>9. Successors
  BY <1>c DEF Successors, OneSuccessor
<1> QED BY <1>1, <1>2, <1>3, <1>4, <1>5, <1>6, <1>7, <1>8, <1>9 DEF IInv

LEMMA InvariantStep == IInv /\ [Next]_vars => IInv'
<1> SUFFICES ASSUME IInv, [Next]_vars PROVE IInv'
  OBVIOUS
<1> USE DEF IInv
<1>1. TypeOK' /\ Admissions' /\ NodeSession' /\ Snapshots' /\ Line'
  BY TypeStep, AdmissionsStep, NodeSessionStep, FrameStep
<1>2. Commands' /\ Serialised' /\ Decisions'
  BY CommandsStep, SerialisedStep, DecisionsStep
<1>3. OneTurnAtATime' /\ QueueRows' /\ Successors'
  BY TurnsStep, QueueStep, SuccessorsStep
<1> QED BY <1>1, <1>2, <1>3

\* The inductive invariant: whatever is lost, repeated or delayed between the rows of
\* the Gateway (node.go, operations.go) and the Node's journal and session, what the one side holds is
\* backed by what the other did.
THEOREM Invariant == Spec => []IInv
  BY Initially, InvariantStep, PTL DEF Spec

\* Every variable keeps its type, after any loss of a connection.
THEOREM TypesKept == Spec => []TypeOK
<1>1. IInv => TypeOK
  BY DEF IInv
<1> QED BY <1>1, Invariant, PTL

\* The sessions row and the turns row that sessionUpdate, acknowledge() and rejectedEffects write tell the
\* same story, and no second turn is unfinished.
THEOREM TurnsOneAtATime == Spec => []OneTurnAtATime
<1>1. IInv => OneTurnAtATime
  BY DEF IInv
<1> QED BY <1>1, Invariant, PTL

\* queueMirror and the confirmation of acknowledge() neither lose a queued message nor
\* bring back one whose turn has started.
THEOREM QueuedKept == Spec => []QueuedIsKept
<1>1. IInv => QueuedIsKept
  <2> SUFFICES ASSUME IInv, NEW i \in Ops, op[i].kind = "queue", op[i].state = "confirmed"
               PROVE  /\ i \in Range(queue) <=> i \notin consumed
                      /\ i \in consumed <=> turns[i] # "none"
    BY DEF QueuedIsKept
  <2>1. queue \in Seq(Ops)
    BY TypeParts DEF IInv, RowTypes
  <2>2. (i \notin consumed => Has(queue, i)) /\ (Has(queue, i) => i \notin consumed)
    BY DEF IInv, QueueRows, Has
  <2>3. i \in consumed <=> turns[i] # "none"
    BY DEF IInv, QueueRows
  <2> QED BY <2>1, <2>2, <2>3, RangeHas
<1> QED BY <1>1, Invariant, PTL

\* The Node's command() compares the turn a send expects with its own: of the sends that the
\* Gateway admitted against one ended turn it executes one.
THEOREM SuccessorOnce == Spec => []OneSuccessor
<1>1. IInv => OneSuccessor
  BY DEF IInv, Successors
<1> QED BY <1>1, Invariant, PTL

\* respondRequest, rejectedEffects and acknowledge() hand a request out again only after an
\* answer that the Node did not execute: the agent gets one answer.
THEOREM AnsweredOnce == Spec => []OneAnswer
<1>1. IInv => OneAnswer
  <2> SUFFICES ASSUME IInv, NEW i \in Ops, NEW j \in Ops, i # j,
                      op[i].kind = "respond", op[j].kind = "respond", op[i].request = op[j].request
               PROVE  ~(Executed(i) /\ Executed(j))
    BY DEF OneAnswer
  <2>1. op[i] \in OpRow /\ op[i].request # 0
    BY TypeParts DEF IInv, RowTypes, Admissions
  <2>2. op[i].request \in Requests
    BY <2>1 DEF OpRow
  <2>3. op[i].state = "failed" \/ op[j].state = "failed"
    BY <2>2 DEF IInv, Decisions, Answers
  <2> QED BY <2>3 DEF IInv, Commands, CommandOf
<1> QED BY <1>1, Invariant, PTL

\* A request is deciding exactly while the operation of its answer is open: nothing that is
\* settled leaves it occupied, and no event frees it before.
THEOREM OccupiedWhileOpen == Spec => []OccupiedByOpenDecision
<1>1. IInv => OccupiedByOpenDecision
  <2> SUFFICES ASSUME IInv, NEW r \in Requests
               PROVE  request[r].state = "deciding" <=>
                        \E i \in Ops : op[i].kind = "respond" /\ op[i].request = r /\ op[i].state = "open"
    BY DEF OccupiedByOpenDecision
  <2>1. request[r] \in RequestRow
    BY TypeParts DEF IInv, RowTypes
  <2>2. request[r].by # 0 => request[r].by \in Ops
    BY <2>1 DEF RequestRow
  <2> QED BY <2>2 DEF IInv, Decisions, Answers
<1> QED BY <1>1, Invariant, PTL

-----------------------------------------------------------------------------
(* The replay of the spool: trails. *)

\* w is z with repetitions and without some of its events.
Within(w, z, f) ==
  /\ f \in [1..Len(w) -> Int]
  /\ \A k \in 1..Len(w) : w[k].type = "session" => f[k] \in 1..Len(z) /\ z[f[k]] = w[k]
  /\ \A k, l \in 1..Len(w) :
       k < l /\ w[k].type = "session" /\ w[l].type = "session" => f[k] <= f[l]

\* What holds of any two or three snapshots in order.
LEMMA Reindexed ==
  ASSUME NEW z \in Seq(Event), NEW w \in Seq(Event), NEW f, Within(w, z, f)
  PROVE  /\ \A t : NoReturn(t, z) => NoReturn(t, w)
         /\ NoRevival(z) => NoRevival(w)
         /\ NoRequeue(z) => NoRequeue(w)
<1>1. /\ \A k \in 1..Len(w) : w[k].type = "session" =>
             f[k] \in 1..Len(z) /\ z[f[k]] = w[k] /\ f[k] \in Int
      /\ \A k, l \in 1..Len(w) :
           k < l /\ w[k].type = "session" /\ w[l].type = "session" => f[k] < f[l] \/ w[k] = w[l]
  BY DEF Within
<1>2. ASSUME NEW t, NoReturn(t, z) PROVE NoReturn(t, w)
  <2>1. ASSUME NEW k \in 1..Len(w), NEW l \in 1..Len(w), k < l,
               w[k].type = "session", w[l].type = "session", w[l].turn = t
        PROVE  w[k].turn = t
    BY <1>1, <1>2, <2>1 DEF NoReturn
  <2>2. ASSUME NEW k \in 1..Len(w), NEW l \in 1..Len(w), NEW m \in 1..Len(w), k < l, l < m,
               w[k].type = "session", w[l].type = "session", w[m].type = "session",
               w[k].turn = w[m].turn
        PROVE  w[l].turn = w[k].turn
    <3>1. CASE w[k] = w[l] \/ w[l] = w[m]
      BY <2>2, <3>1
    <3>2. CASE f[k] < f[l] /\ f[l] < f[m]
      <4>1. /\ f[k] \in 1..Len(z) /\ f[l] \in 1..Len(z) /\ f[m] \in 1..Len(z)
            /\ z[f[k]] = w[k] /\ z[f[l]] = w[l] /\ z[f[m]] = w[m]
        BY <1>1, <2>2
      <4>2. \A a, b, c \in 1..Len(z) :
              /\ a < b /\ b < c /\ z[a].type = "session" /\ z[b].type = "session" /\ z[c].type = "session"
              /\ z[a].turn = z[c].turn
              => z[b].turn = z[a].turn
        BY <1>2 DEF NoReturn
      <4>3. /\ z[f[k]].type = "session" /\ z[f[l]].type = "session" /\ z[f[m]].type = "session"
            /\ z[f[k]].turn = z[f[m]].turn
        BY <2>2, <4>1
      <4>4. z[f[l]].turn = z[f[k]].turn
        BY <3>2, <4>1, <4>2, <4>3
      <4> QED BY <4>1, <4>4
    <3> QED BY <1>1, <2>2, <3>1, <3>2
  <2> QED BY <2>1, <2>2 DEF NoReturn
<1>3. ASSUME NoRevival(z) PROVE NoRevival(w)
  <2> SUFFICES ASSUME NEW k \in 1..Len(w), NEW l \in 1..Len(w), k < l,
                      w[k].type = "session", w[l].type = "session",
                      w[k].turn = w[l].turn, w[k].state \in Over
               PROVE  w[l].state \in {w[k].state, "closed"}
    BY DEF NoRevival
  <2> QED BY <1>1, <1>3 DEF NoRevival
<1>4. ASSUME NoRequeue(z) PROVE NoRequeue(w)
  <2> SUFFICES ASSUME NEW k \in 1..Len(w), NEW l \in 1..Len(w), k <= l,
                      w[k].type = "session", w[l].type = "session"
               PROVE  ~Has(w[l].queue, w[k].turn)
    BY DEF NoRequeue
  <2>1. f[k] <= f[l] \/ w[k] = w[l]
    BY <1>1
  <2>2. f[k] <= f[k] /\ f[l] <= f[l]
    BY <1>1
  <2> QED BY <1>1, <1>4, <2>1, <2>2 DEF NoRequeue
<1> QED BY <1>2, <1>3, <1>4

\* The last element once more: the Node has reported its session.
LEMMA Reported1 ==
  ASSUME NEW o, NEW t, NEW s \in Seq(Event), NEW x \in Event, x.type = "session",
         s # <<>> => s[Len(s)].type = "session", Path(o, t, Append(s, x)),
         x.state # "none"
  PROVE  Path(o, t, Append(Append(s, x), x))
<1> DEFINE z == Append(s, x)
           w == Append(Append(s, x), x)
           f == [k \in 1..(Len(s) + 2) |-> IF k <= Len(s) THEN k ELSE Len(s) + 1]
<1>0. Len(s) \in Nat
  OBVIOUS
<1>1. /\ z \in Seq(Event) /\ Len(z) = Len(s) + 1 /\ z[Len(s) + 1] = x
      /\ \A k \in 1..Len(s) : z[k] = s[k]
  BY AppendFacts
<1>2. /\ w \in Seq(Event) /\ Len(w) = Len(s) + 2 /\ w[Len(s) + 2] = x
      /\ \A k \in 1..(Len(s) + 1) : w[k] = z[k]
  BY <1>0, <1>1, AppendFacts
<1> HIDE DEF z, w
<1>3. Within(w, z, f)
  BY <1>0, <1>1, <1>2 DEF Within
<1>4. NoReturn(t, w) /\ NoRevival(w) /\ NoRequeue(w)
  <2>1. NoReturn(t, z) /\ NoRevival(z) /\ NoRequeue(z)
    BY DEF Path, z
  <2> QED BY <1>1, <1>2, <1>3, <2>1, Reindexed
<1>5. Shape(w)
  <2> SUFFICES ASSUME NEW k \in 1..Len(w), w[k].type # "session"
               PROVE  /\ k + 1 < Len(w) /\ w[k + 1].type = "session"
                      /\ w[k].type = "request" => GoingOn(w[k + 1], w[k].turn)
                      /\ k > 1 => w[k - 1].type = "session"
    BY DEF Shape
  <2>1. k \in 1..Len(s) /\ z[k] = w[k] /\ k \in 1..Len(z)
    BY <1>0, <1>1, <1>2
  <2>2. Shape(z)
    BY DEF Path, z
  <2>3. /\ k + 1 < Len(z) /\ z[k + 1].type = "session"
        /\ z[k].type = "request" => GoingOn(z[k + 1], z[k].turn)
        /\ k > 1 => z[k - 1].type = "session"
    BY <2>1, <2>2 DEF Shape
  <2>4. z[k + 1] = w[k + 1] /\ (k > 1 => z[k - 1] = w[k - 1])
    BY <1>0, <1>1, <1>2, <2>1, <2>3
  <2> QED BY <1>0, <1>1, <1>2, <2>1, <2>3, <2>4
<1>6. StepByStep(o, w)
  <2> SUFFICES ASSUME NEW k \in 1..Len(w), NEW l \in 1..Len(w), k < l, w[k].type = "session",
                      w[l].type = "session", Adjacent(w, k, l)
               PROVE  Follows(o, w[k], w[l])
    BY DEF StepByStep
  <2>1. CASE l <= Len(z)
    <3>0. k \in 1..(Len(s) + 1) /\ l \in 1..(Len(s) + 1)
      BY <1>0, <1>1, <1>2, <2>1
    <3>1. k \in 1..Len(z) /\ l \in 1..Len(z) /\ w[k] = z[k] /\ w[l] = z[l]
      BY <1>1, <1>2, <3>0
    <3>2. Adjacent(z, k, l)
      <4>1. l = k + 2 => k + 1 \in 1..Len(z)
        BY <1>0, <1>1, <2>1
      <4> QED BY <1>1, <1>2, <4>1 DEF Adjacent
    <3>3. StepByStep(o, z)
      BY DEF Path, z
    <3> QED BY <3>1, <3>2, <3>3 DEF StepByStep
  <2>2. CASE ~(l <= Len(z))
    <3>1. l = Len(s) + 2 /\ k = Len(s) + 1
      BY <1>0, <1>1, <1>2, <2>2 DEF Adjacent
    <3> QED BY <1>0, <1>1, <1>2, <3>1 DEF Follows, Adds, validTransition
  <2> QED BY <2>1, <2>2
<1> QED BY <1>4, <1>5, <1>6 DEF Path, w

\* The last element changes: the Node's session takes a step.
LEMMA Moved ==
  ASSUME NEW o, NEW t, NEW s \in Seq(Event), NEW x \in Event, NEW y \in Event,
         x.type = "session", y.type = "session", Path(o, t, Append(s, x)),
         s # <<>> => s[Len(s)].type = "session" /\ Follows(o, s[Len(s)], y),
         \/ y.turn = x.turn /\ (x.state \in Over => y.state \in {x.state, "closed"})
         \/ y.turn # t /\ \A k \in 1..Len(s) : s[k].type = "session" => s[k].turn # y.turn,
         \A i : Has(y.queue, i) =>
           /\ i # y.turn
           /\ Has(x.queue, i) \/ \A k \in 1..Len(s) : s[k].type = "session" => s[k].turn # i
  PROVE  Path(o, t, Append(s, y))
<1> DEFINE z == Append(s, x)
           w == Append(s, y)
           n == Len(s)
<1>0. n \in Nat /\ (s # <<>> => n \in 1..n) /\ (n \in 1..n => s # <<>>)
  OBVIOUS
<1>1. /\ z \in Seq(Event) /\ Len(z) = n + 1 /\ z[n + 1] = x
      /\ \A k \in 1..n : z[k] = s[k]
  BY AppendFacts
<1>2. /\ w \in Seq(Event) /\ Len(w) = n + 1 /\ w[n + 1] = y
      /\ \A k \in 1..n : w[k] = s[k]
  BY AppendFacts
<1>3. Path(o, t, z)
  OBVIOUS
<1> HIDE DEF z, w, n
<1>4. /\ 1..Len(z) = 1..(n + 1) /\ 1..Len(w) = 1..(n + 1)
      /\ \A k \in 1..(n + 1) : (k \in 1..n /\ w[k] = z[k] /\ w[k] = s[k]) \/ (k = n + 1 /\ w[k] = y /\ z[k] = x)
      /\ n + 1 \in 1..(n + 1) /\ 1..n \subseteq 1..(n + 1)
  BY <1>0, <1>1, <1>2
<1>5. Shape(w)
  <2> SUFFICES ASSUME NEW k \in 1..(n + 1), w[k].type # "session"
               PROVE  /\ k + 1 < n + 1 /\ w[k + 1].type = "session"
                      /\ w[k].type = "request" => GoingOn(w[k + 1], w[k].turn)
                      /\ k > 1 => w[k - 1].type = "session"
    BY <1>2, <1>4 DEF Shape
  <2>1. k \in 1..n /\ z[k] = w[k]
    BY <1>4
  <2>2. /\ k + 1 < n + 1 /\ z[k + 1].type = "session"
        /\ z[k].type = "request" => GoingOn(z[k + 1], z[k].turn)
        /\ k > 1 => z[k - 1].type = "session"
    BY <1>1, <1>3, <1>4, <2>1 DEF Path, Shape
  <2>3. k + 1 \in 1..n /\ (k > 1 => k - 1 \in 1..n)
    BY <1>0, <2>1, <2>2
  <2>4. z[k + 1] = w[k + 1] /\ (k > 1 => z[k - 1] = w[k - 1])
    BY <1>1, <1>2, <2>3
  <2> QED BY <2>1, <2>2, <2>4
<1>6. ASSUME NEW l \in 1..n, z[l].type = "session", NEW k \in 1..n, z[k].type = "session", k < l, z[k].turn = y.turn
      PROVE  y.turn = x.turn /\ z[l].turn = y.turn
  <2>1. y.turn = x.turn
    <3>1. z[k] = s[k] /\ k \in 1..Len(s)
      BY <1>1, <1>6 DEF n
    <3> QED BY <1>6, <3>1
  <2>2. k \in 1..Len(z) /\ l \in 1..Len(z) /\ n + 1 \in 1..Len(z) /\ l < n + 1 /\ z[n + 1] = x
    BY <1>0, <1>1, <1>4
  <2>3. \A a, b, c \in 1..Len(z) :
          /\ a < b /\ b < c /\ z[a].type = "session" /\ z[b].type = "session" /\ z[c].type = "session"
          /\ z[a].turn = z[c].turn
          => z[b].turn = z[a].turn
    BY <1>3 DEF Path, NoReturn
  <2> QED BY <1>6, <2>1, <2>2, <2>3
<1>7. NoReturn(t, w)
  <2>1. ASSUME NEW k \in 1..(n + 1), NEW l \in 1..(n + 1), k < l,
               w[k].type = "session", w[l].type = "session", w[l].turn = t
        PROVE  w[k].turn = t
    <3>1. \A a, b \in 1..Len(z) :
            a < b /\ z[a].type = "session" /\ z[b].type = "session" /\ z[b].turn = t => z[a].turn = t
      BY <1>3 DEF Path, NoReturn
    <3>2. k \in 1..n /\ w[k] = z[k] /\ k \in 1..Len(z) /\ l \in 1..Len(z)
      BY <1>0, <1>4, <2>1
    <3>3. CASE l \in 1..n
      BY <1>4, <2>1, <3>1, <3>2, <3>3
    <3>4. CASE l = n + 1
      <4>1. y.turn = x.turn /\ z[l] = x
        BY <1>1, <1>2, <2>1, <3>4
      <4> QED BY <1>2, <2>1, <3>1, <3>2, <3>4, <4>1
    <3> QED BY <1>4, <3>3, <3>4
  <2>2. ASSUME NEW k \in 1..(n + 1), NEW l \in 1..(n + 1), NEW m \in 1..(n + 1), k < l, l < m,
               w[k].type = "session", w[l].type = "session", w[m].type = "session",
               w[k].turn = w[m].turn
        PROVE  w[l].turn = w[k].turn
    <3>1. k \in 1..n /\ l \in 1..n /\ w[k] = z[k] /\ w[l] = z[l]
      BY <1>0, <1>4, <2>2
    <3>2. CASE m \in 1..n
      <4>1. \A a, b, c \in 1..Len(z) :
              /\ a < b /\ b < c /\ z[a].type = "session" /\ z[b].type = "session" /\ z[c].type = "session"
              /\ z[a].turn = z[c].turn
              => z[b].turn = z[a].turn
        BY <1>3 DEF Path, NoReturn
      <4>2. w[m] = z[m]
        BY <1>1, <1>2, <3>2
      <4> QED BY <1>4, <2>2, <3>1, <4>1, <4>2
    <3>3. CASE m = n + 1
      BY <1>2, <1>6, <2>2, <3>1, <3>3
    <3> QED BY <1>4, <3>2, <3>3
  <2> QED BY <1>4, <2>1, <2>2 DEF NoReturn
<1>8. NoRevival(w)
  <2> SUFFICES ASSUME NEW k \in 1..(n + 1), NEW l \in 1..(n + 1), k < l,
                      w[k].type = "session", w[l].type = "session",
                      w[k].turn = w[l].turn, w[k].state \in Over
               PROVE  w[l].state \in {w[k].state, "closed"}
    BY <1>4 DEF NoRevival
  <2>1. k \in 1..n /\ w[k] = z[k] /\ w[k] = s[k]
    BY <1>0, <1>4
  <2>2. \A a, b \in 1..Len(z) :
          /\ a < b /\ z[a].type = "session" /\ z[b].type = "session"
          /\ z[a].turn = z[b].turn /\ z[a].state \in Over
          => z[b].state \in {z[a].state, "closed"}
    BY <1>3 DEF Path, NoRevival
  <2>3. CASE l \in 1..n
    <3>1. w[l] = z[l] /\ k \in 1..Len(z) /\ l \in 1..Len(z)
      BY <1>1, <1>2, <1>4, <2>1, <2>3
    <3>2. z[k].type = "session" /\ z[l].type = "session" /\ z[k].turn = z[l].turn /\ z[k].state \in Over
      BY <2>1, <3>1
    <3>3. z[l].state \in {z[k].state, "closed"}
      BY <2>2, <3>1, <3>2
    <3> QED BY <2>1, <3>1, <3>3
  <2>4. CASE l = n + 1
    <3>1. w[l] = y /\ z[l] = x /\ y.turn = x.turn
      BY <1>1, <1>2, <2>1, <2>4 DEF n
    <3>2. x.state \in {w[k].state, "closed"}
      BY <1>4, <2>1, <2>2, <3>1
    <3>3. x.state \in Over
      BY <3>2 DEF Over
    <3>4. y.state \in {x.state, "closed"}
      BY <2>1, <3>1, <3>3 DEF n
    <3> QED BY <3>1, <3>2, <3>4
  <2> QED BY <1>4, <2>3, <2>4
<1>9. NoRequeue(w)
  <2> SUFFICES ASSUME NEW k \in 1..(n + 1), NEW l \in 1..(n + 1), k <= l,
                      w[k].type = "session", w[l].type = "session"
               PROVE  ~Has(w[l].queue, w[k].turn)
    BY <1>4 DEF NoRequeue
  <2>1. \A a, b \in 1..Len(z) :
          a <= b /\ z[a].type = "session" /\ z[b].type = "session" => ~Has(z[b].queue, z[a].turn)
    BY <1>3 DEF Path, NoRequeue
  <2>2. CASE l \in 1..n
    <3>1. k \in 1..n
      BY <1>0, <2>2
    <3> QED BY <1>1, <1>2, <1>4, <2>1, <2>2, <3>1
  <2>3. CASE l = n + 1 /\ k \in 1..n
    <3>1. w[l] = y /\ z[l] = x /\ w[k] = z[k] /\ w[k] = s[k]
      BY <1>1, <1>2, <2>3
    <3>2. ~Has(x.queue, w[k].turn)
      BY <1>4, <2>1, <3>1
    <3> QED BY <2>3, <3>1, <3>2 DEF n
  <2>4. CASE l = n + 1 /\ k = n + 1
    BY <1>2, <2>4
  <2> QED BY <1>4, <2>2, <2>3, <2>4
<1>10. StepByStep(o, w)
  <2> SUFFICES ASSUME NEW k \in 1..(n + 1), NEW l \in 1..(n + 1), k < l, w[k].type = "session",
                      w[l].type = "session", Adjacent(w, k, l)
               PROVE  Follows(o, w[k], w[l])
    BY <1>4 DEF StepByStep
  <2>1. CASE l \in 1..n
    <3>1. k \in 1..n /\ (l = k + 2 => k + 1 \in 1..n)
      BY <1>0, <2>1
    <3>2. Adjacent(z, k, l)
      BY <1>1, <1>2, <3>1 DEF Adjacent
    <3>3. StepByStep(o, z)
      BY <1>3 DEF Path
    <3>4. w[k] = z[k] /\ w[l] = z[l]
      BY <1>1, <1>2, <2>1, <3>1
    <3> QED BY <1>4, <3>2, <3>3, <3>4 DEF StepByStep
  <2>2. CASE l = n + 1
    <3>1. k \in 1..n /\ s # <<>>
      BY <1>0, <2>2
    <3>2. k = n
      <4>1. n \in 1..n /\ w[n] = s[n] /\ s[n].type = "session"
        BY <1>0, <1>2, <3>1 DEF n
      <4> QED BY <1>0, <2>2, <3>1, <4>1 DEF Adjacent
    <3> QED BY <1>2, <2>2, <3>1, <3>2 DEF n
  <2> QED BY <1>4, <2>1, <2>2
<1> QED BY <1>5, <1>7, <1>8, <1>9, <1>10 DEF Path, w

\* A request or a withdrawal is put before the last report.
LEMMA Inserted ==
  ASSUME NEW o, NEW t, NEW s \in Seq(Event), NEW x \in Event, NEW y \in Event,
         x.type = "session", y.type # "session", s # <<>> => s[Len(s)].type = "session",
         y.type = "request" => GoingOn(x, y.turn), Path(o, t, Append(Append(s, x), x))
  PROVE  Path(o, t, Append(Append(Append(s, y), x), x))
<1> DEFINE z == Append(Append(s, x), x)
           w == Append(Append(Append(s, y), x), x)
           n == Len(s)
           f == [k \in 1..(n + 3) |-> IF k <= n THEN k ELSE k - 1]
<1>0. n \in Nat /\ (n \in 1..n => s # <<>>)
  OBVIOUS
<1>1. /\ z \in Seq(Event) /\ Len(z) = n + 2 /\ z[n + 1] = x /\ z[n + 2] = x
      /\ \A k \in 1..n : z[k] = s[k]
  OBVIOUS
<1>2. /\ w \in Seq(Event) /\ Len(w) = n + 3 /\ w[n + 1] = y /\ w[n + 2] = x /\ w[n + 3] = x
      /\ \A k \in 1..n : w[k] = s[k]
  OBVIOUS
<1>3. Path(o, t, z) /\ (n \in 1..n => s[n].type = "session")
  BY <1>0
<1> HIDE DEF z, w, n
<1>4. /\ 1..Len(z) = 1..(n + 2) /\ 1..Len(w) = 1..(n + 3)
      /\ \A k \in 1..(n + 3) : k \in 1..n \/ k = n + 1 \/ k = n + 2 \/ k = n + 3
      /\ \A k \in 1..n : w[k] = z[k] /\ k \in 1..(n + 2)
      /\ n + 1 \in 1..(n + 2) /\ n + 2 \in 1..(n + 2)
  BY <1>0, <1>1, <1>2
<1>5. Within(w, z, f)
  <2>1. \A k \in 1..(n + 3) : w[k].type = "session" => f[k] \in 1..(n + 2) /\ z[f[k]] = w[k]
    BY <1>0, <1>1, <1>2, <1>4
  <2> QED BY <1>0, <1>1, <1>2, <2>1 DEF Within
<1>6. NoReturn(t, w) /\ NoRevival(w) /\ NoRequeue(w)
  BY <1>1, <1>2, <1>3, <1>5, Reindexed DEF Path
<1>7. Shape(w)
  <2> SUFFICES ASSUME NEW k \in 1..(n + 3), w[k].type # "session"
               PROVE  /\ k + 1 < n + 3 /\ w[k + 1].type = "session"
                      /\ w[k].type = "request" => GoingOn(w[k + 1], w[k].turn)
                      /\ k > 1 => w[k - 1].type = "session"
    BY <1>2, <1>4 DEF Shape
  <2>1. CASE k \in 1..n
    <3>1. /\ k + 1 < n + 2 /\ z[k + 1].type = "session"
          /\ z[k].type = "request" => GoingOn(z[k + 1], z[k].turn)
          /\ k > 1 => z[k - 1].type = "session"
      BY <1>1, <1>3, <1>4, <2>1 DEF Path, Shape
    <3>2. k # n
      BY <1>2, <1>3, <2>1
    <3>3. k + 1 \in 1..n /\ (k > 1 => k - 1 \in 1..n)
      BY <1>0, <2>1, <3>2
    <3> QED BY <1>0, <1>4, <2>1, <3>1, <3>3
  <2>2. CASE k = n + 1
    <3>1. k > 1 => n \in 1..n /\ k - 1 = n
      BY <1>0, <2>2
    <3> QED BY <1>0, <1>2, <1>3, <2>2, <3>1
  <2> QED BY <1>2, <1>4, <2>1, <2>2
<1>8. StepByStep(o, w)
  <2> SUFFICES ASSUME NEW k \in 1..(n + 3), NEW l \in 1..(n + 3), k < l, w[k].type = "session",
                      w[l].type = "session", Adjacent(w, k, l)
               PROVE  Follows(o, w[k], w[l])
    BY <1>4 DEF StepByStep
  <2>0. \A a, b \in 1..(n + 2) :
          a < b /\ z[a].type = "session" /\ z[b].type = "session" /\ Adjacent(z, a, b) => Follows(o, z[a], z[b])
    BY <1>3, <1>4 DEF Path, StepByStep
  <2>1. CASE l \in 1..n
    <3>1. k \in 1..n /\ (l = k + 2 => k + 1 \in 1..n)
      BY <1>0, <2>1
    <3>2. Adjacent(z, k, l)
      BY <1>1, <1>2, <3>1 DEF Adjacent
    <3> QED BY <1>4, <2>0, <2>1, <3>1, <3>2
  <2>2. CASE l = n + 2
    <3>1. k = n
      BY <1>0, <1>2, <2>2 DEF Adjacent
    <3>2. k \in 1..n
      BY <3>1
    <3>3. Adjacent(z, k, n + 1)
      BY <3>1 DEF Adjacent
    <3> QED BY <1>0, <1>1, <1>2, <1>4, <2>0, <2>2, <3>1, <3>2, <3>3
  <2>3. CASE l = n + 3
    <3>1. k = n + 2
      BY <1>0, <1>2, <2>3 DEF Adjacent
    <3>2. Adjacent(z, n + 1, n + 2)
      BY <1>0 DEF Adjacent
    <3> QED BY <1>0, <1>1, <1>2, <1>4, <2>0, <2>3, <3>1, <3>2
  <2> QED BY <1>2, <1>4, <2>1, <2>2, <2>3
<1> QED BY <1>6, <1>7, <1>8 DEF Path, w

\* The first event of a trail is taken.
LEMMA Dropped ==
  ASSUME NEW o, NEW t, NEW z \in Seq(Event), Len(z) >= 2, Path(o, t, z)
  PROVE  /\ Path(o, IF z[1].type = "session" THEN z[1].turn ELSE t, Tail(z))
         /\ z[1].type # "session" => z[2].type = "session" /\ First(z) = First(Tail(z)) /\ Len(z) >= 3
         /\ z[1].type = "session" => Follows(o, z[1], First(Tail(z)))
<1> DEFINE w == Tail(z)
           n == Len(w)
           f == [k \in 1..n |-> k + 1]
           u == IF z[1].type = "session" THEN z[1].turn ELSE t
<1>1. /\ w \in Seq(Event) /\ n \in Nat /\ Len(z) = n + 1 /\ n >= 1
      /\ \A k \in 1..n : k + 1 \in 1..Len(z) /\ w[k] = z[k + 1] /\ k + 1 > 1
      /\ 1 \in 1..Len(z) /\ 1 \in 1..n
  OBVIOUS
<1> HIDE DEF w
<1>2. Within(w, z, f)
  BY <1>1 DEF Within
<1>3. NoReturn(t, w) /\ NoRevival(w) /\ NoRequeue(w)
  BY <1>1, <1>2, Reindexed DEF Path
<1>4. NoReturn(u, w)
  <2> SUFFICES ASSUME z[1].type = "session"
               PROVE  \A k, l \in 1..n : k < l /\ w[k].type = "session" /\ w[l].type = "session" /\ w[l].turn = z[1].turn
                        => w[k].turn = z[1].turn
    BY <1>3 DEF NoReturn
  <2>1. \A a, b, c \in 1..Len(z) :
          /\ a < b /\ b < c /\ z[a].type = "session" /\ z[b].type = "session" /\ z[c].type = "session"
          /\ z[a].turn = z[c].turn
          => z[b].turn = z[a].turn
    BY DEF Path, NoReturn
  <2> TAKE k, l \in 1..n
  <2> HAVE k < l /\ w[k].type = "session" /\ w[l].type = "session" /\ w[l].turn = z[1].turn
  <2>2. /\ k + 1 < l + 1 /\ 1 < k + 1 /\ 1 \in 1..Len(z) /\ k + 1 \in 1..Len(z) /\ l + 1 \in 1..Len(z)
        /\ w[k] = z[k + 1] /\ w[l] = z[l + 1]
    BY <1>1
  <2>3. z[k + 1].turn = z[1].turn
    BY <2>1, <2>2
  <2> QED BY <2>2, <2>3
<1>5. \A k \in 1..Len(z) : z[k].type # "session" =>
        /\ k + 1 < Len(z) /\ z[k + 1].type = "session"
        /\ z[k].type = "request" => GoingOn(z[k + 1], z[k].turn)
        /\ k > 1 => z[k - 1].type = "session"
  BY DEF Path, Shape
<1>6. Shape(w)
  <2> SUFFICES ASSUME NEW k \in 1..n, w[k].type # "session"
               PROVE  /\ k + 1 < n /\ w[k + 1].type = "session"
                      /\ w[k].type = "request" => GoingOn(w[k + 1], w[k].turn)
                      /\ k > 1 => w[k - 1].type = "session"
    BY DEF Shape
  <2>1. /\ (k + 1) + 1 < n + 1 /\ z[(k + 1) + 1].type = "session"
        /\ w[k].type = "request" => GoingOn(z[(k + 1) + 1], w[k].turn)
        /\ k + 1 > 1 => z[(k + 1) - 1].type = "session"
    BY <1>1, <1>5
  <2>2. k + 1 \in 1..n /\ (k > 1 => k - 1 \in 1..n /\ (k - 1) + 1 = k /\ (k + 1) - 1 = k)
    BY <1>1, <2>1
  <2> QED BY <1>1, <2>1, <2>2
<1>7. StepByStep(o, w)
  <2> SUFFICES ASSUME NEW k \in 1..n, NEW l \in 1..n, k < l, w[k].type = "session",
                      w[l].type = "session", Adjacent(w, k, l)
               PROVE  Follows(o, w[k], w[l])
    BY DEF StepByStep
  <2>1. k + 1 < l + 1 /\ (l = k + 2 => k + 1 \in 1..n) /\ (k + 1) + 1 = k + 2 /\ (k + 1) + 2 = k + 3
    BY <1>1
  <2>2. Adjacent(z, k + 1, l + 1)
    BY <1>1, <2>1 DEF Adjacent
  <2> QED BY <1>1, <2>1, <2>2 DEF Path, StepByStep
<1>8. z[1].type # "session" => z[2].type = "session" /\ First(z) = First(w) /\ Len(z) >= 3
  BY <1>1, <1>5 DEF First
<1>9. z[1].type = "session" => Follows(o, z[1], First(w))
  <2> SUFFICES ASSUME z[1].type = "session" PROVE Follows(o, z[1], First(w))
    OBVIOUS
  <2>0. \A a, b \in 1..Len(z) :
          a < b /\ z[a].type = "session" /\ z[b].type = "session" /\ Adjacent(z, a, b) => Follows(o, z[a], z[b])
    BY DEF Path, StepByStep
  <2>1. CASE w[1].type = "session"
    BY <1>1, <2>0, <2>1 DEF First, Adjacent
  <2>2. CASE w[1].type # "session"
    <3>1. z[2].type # "session" /\ 2 \in 1..Len(z)
      BY <1>1, <2>2
    <3>2. 3 \in 1..Len(z) /\ z[3].type = "session" /\ 2 \in 1..n
      BY <1>1, <1>5, <3>1
    <3>3. w[2] = z[3] /\ First(w) = z[3]
      BY <1>1, <2>2, <3>2 DEF First
    <3> QED BY <1>1, <2>0, <3>1, <3>2, <3>3 DEF Adjacent
  <2> QED BY <2>1, <2>2
<1> QED BY <1>3, <1>4, <1>6, <1>7, <1>8, <1>9 DEF Path, w

-----------------------------------------------------------------------------
(* What the steps do. *)

\* The Node's next session and the events of the step, by what the agent does.
QuietForm ==
  /\ \/ doing # 0 /\ native' = Carried(doing)
     \/ doing = 0 /\ native.working /\ native.state = "running" /\ native' = Completed
     \/ /\ doing = 0 /\ (native.working \/ native.state \in Ended)
        /\ native' = [native EXCEPT !.state = "closed", !.request = 0, !.working = FALSE]
  /\ spool' = Append(spool, Snapshot(native')) /\ asked' = asked

AskForm ==
  /\ doing = 0 /\ native.working /\ native.state = "running" /\ asked' = asked + 1
  /\ native' = [native EXCEPT !.state = WaitingState(asked'), !.request = asked']
  /\ spool' = Append(Append(spool, Asking(asked', native.turn)), Snapshot(native'))

WithdrawForm ==
  /\ doing = 0 /\ native.working /\ native.state \in Waiting
  /\ native' = [native EXCEPT !.state = "running", !.request = 0]
  /\ spool' = Append(Append(spool, Withdrawal(native.request, native.turn)), Snapshot(native'))
  /\ asked' = asked

NextForm ==
  /\ doing = 0 /\ native.working /\ native.state = "running" /\ native.queue # <<>>
  /\ native' = NextOfQueue
  /\ spool' = Append(Append(spool, Snapshot(Completed)), Snapshot(native'))
  /\ asked' = asked

\* The events es of a step are in the spool and, if it is of use, on the wire.
Sent(es) ==
  /\ spool' = spool \o es
  /\ connected' => /\ UNCHANGED <<connected, ready, blocked, toNode>>
                   /\ toGw' = IF blocked THEN toGw ELSE toGw \o es
  /\ ready' \in {ready, FALSE} /\ toNode' \in {toNode, <<>>}

\* What the agent may send.
News == {<<Snapshot(native')>>, <<Asking(asked', native.turn), Snapshot(native')>>,
         <<Withdrawal(native.request, native.turn), Snapshot(native')>>,
         <<Snapshot(Completed), Snapshot(native')>>}

Sends(es) == /\ es \in News /\ es \in Seq(Event) /\ Sent(es)
             /\ es[1] = Snapshot(Completed) => NextForm \/ native' = Completed

LEMMA Glued ==
  ASSUME NEW S, NEW q \in Seq(S), NEW a \in S, NEW b \in S
  PROVE  q \o <<a>> = Append(q, a) /\ q \o <<a, b>> = Append(Append(q, a), b)
  OBVIOUS

\* The steps of the agent and the end of a command.
LEMMA AgentForms ==
  ASSUME IInv, Engaged, AgentStep
  PROVE  /\ native.state # "none" /\ native' \in NativeSession /\ native'.state # "none"
         /\ Snapshot(native') \in Event /\ Snapshot(Completed) \in Event /\ Own \in Event
         /\ doing' = 0 /\ UNCHANGED <<dbVars, journal, overdue>>
         /\ QuietForm \/ AskForm \/ WithdrawForm \/ NextForm
         /\ asked' \in Nat /\ asked \in Nat /\ asked \in 0..MaxRequests /\ asked' \in 0..MaxRequests
         /\ \E es : Sends(es)
<1>a. /\ TypeOK /\ NodeSession /\ native \in NativeSession /\ spool \in Seq(Event) /\ native.turn \in {0} \union Ops
      /\ asked \in 0..MaxRequests /\ native.queue \in Seq(Ops) /\ MaxRequests \in Nat
  BY TypeParts, ConstantsAssumption DEF IInv, NodeTypes, FrameTypes, CountTypes, NativeSession
<1>b. /\ native' \in NativeSession /\ native'.state # "none" /\ native'.turn # 0 /\ doing' = 0
  BY <1>a, AgentSteps
<1>c. native.state # "none" /\ native.turn # 0 /\ native.turn \in Ops
  <2>1. native.state # "none"
    BY <1>a DEF AgentStep, Finish, Ask, Withdraw, Complete, CompleteOnly, Close, NodeSession, Waiting, Ended
  <2> QED BY <1>a, <2>1 DEF NodeSession
<1>d. Completed \in NativeSession /\ Completed.state = "completed" /\ Completed.turn = native.turn
  BY <1>a DEF Completed, NativeSession, SessionStates, Ended
<1>e. Snapshot(native') \in Event /\ Snapshot(Completed) \in Event /\ Own \in Event
  BY <1>a, <1>b, <1>c, <1>d, SnapshotFacts DEF Own
<1>f. UNCHANGED <<dbVars, journal, overdue>>
  BY DEF AgentStep, Finish, Ask, Withdraw, Complete, CompleteOnly, Close, envVars
<1>g. ASSUME NEW es \in Seq(Event), Emit(es), UNCHANGED <<peerVars, toNode>> PROVE Sent(es)
  BY <1>g DEF Sent, Emit, peerVars
<1> DEFINE n == native'
           Goal == /\ QuietForm \/ AskForm \/ WithdrawForm \/ NextForm
                   /\ asked' \in Nat /\ asked' \in 0..MaxRequests
                   /\ \E es : Sends(es)
<1>h. ASSUME NEW a \in Event, NEW b \in Event
      PROVE  <<a>> \in Seq(Event) /\ <<a, b>> \in Seq(Event) /\ <<a>>[1] = a /\ <<a, b>>[1] = a
  BY <1>h, Listed
<1>1. ASSUME Finish \/ Close PROVE Goal
  <2>1. /\ Emit(<<Snapshot(n)>>) /\ UNCHANGED <<peerVars, toNode>> /\ asked' = asked
        /\ spool' = spool \o <<Snapshot(n)>>
    BY <1>1 DEF Finish, Close, Emit, envVars
  <2>2. /\ <<Snapshot(n)>> \in Seq(Event) /\ <<Snapshot(n)>>[1] = Snapshot(n)
        /\ <<Snapshot(n)>> \in News
    BY <1>e, <1>h DEF News
  <2>8. Sent(<<Snapshot(n)>>)
    BY <1>g, <2>1, <2>2
  <2>3. spool' = Append(spool, Snapshot(n))
    BY <1>a, <1>e, <2>1, Glued
  <2>4. QuietForm
    BY <1>1, <2>1, <2>3 DEF Finish, Close, QuietForm
  <2>5. n.state # "completed" \/ n = Completed
    <3>1. CASE Close
      BY <1>a, <3>1 DEF Close, NativeSession
    <3>2. CASE Finish
      <4>1. /\ doing \in Ops /\ n = Carried(doing) /\ op[doing].kind \in Kinds \ {"none"}
            /\ native.state \in {"none"} \union SessionStates
        BY <1>a, <3>2, TypeParts DEF Finish, NodeSession, NodeTypes, RowTypes, OpRow, NativeSession
      <4>2. op[doing].kind \in {"create", "send", "queue"} => n.state = native.state /\ native.state \in OnTurn
        BY <1>a, <4>1, Zero DEF Carried, NativeSession, Kinds, Engaged
      <4>3. op[doing].kind \in {"create", "send", "queue", "cancel", "respond"}
        BY <4>1 DEF Kinds
      <4>4. op[doing].kind \in {"cancel", "respond"} => n.state \in {"cancelled", "running"}
        BY <1>a, <4>1 DEF Carried, NativeSession
      <4> QED BY <4>2, <4>3, <4>4 DEF OnTurn, Waiting
    <3> QED BY <1>1, <3>1, <3>2
  <2>6. Snapshot(n) = Snapshot(Completed) => n.state = "completed"
    BY <1>d DEF Snapshot
  <2>7. Sends(<<Snapshot(n)>>)
    BY <2>2, <2>5, <2>6, <2>8 DEF Sends
  <2> QED BY <1>a, <2>1, <2>4, <2>7
<1>2. ASSUME Ask PROVE Goal
  <2> DEFINE es == <<Asking(asked', native.turn), Snapshot(n)>>
  <2>1. /\ Emit(es) /\ UNCHANGED <<peerVars, toNode>> /\ asked' = asked + 1 /\ asked < MaxRequests
        /\ spool' = spool \o es
    BY <1>2 DEF Ask, Emit, envVars
  <2>2. asked' \in Requests /\ asked' \in 0..MaxRequests
    BY <1>a, <2>1 DEF Requests
  <2>3. Asking(asked', native.turn) \in Event /\ Asking(asked', native.turn) # Snapshot(Completed)
    BY <1>c, <2>2 DEF Asking, Event, Snapshot
  <2>4. es \in Seq(Event) /\ es[1] # Snapshot(Completed) /\ es \in News
    BY <1>e, <1>h, <2>3 DEF News
  <2>7. Sends(es)
    BY <1>g, <2>1, <2>4 DEF Sends
  <2>5. spool' = Append(Append(spool, Asking(asked', native.turn)), Snapshot(n))
    BY <1>a, <1>e, <2>1, <2>3, Glued
  <2>6. AskForm
    BY <1>2, <2>5 DEF Ask, AskForm
  <2> QED BY <1>a, <2>2, <2>6, <2>7
<1>3. ASSUME Withdraw PROVE Goal
  <2> DEFINE es == <<Withdrawal(native.request, native.turn), Snapshot(n)>>
  <2>1. /\ Emit(es) /\ UNCHANGED <<peerVars, toNode>> /\ asked' = asked /\ spool' = spool \o es
    BY <1>3 DEF Withdraw, Emit, envVars
  <2>2. native.request \in Requests
    BY <1>3, <1>a DEF Withdraw, NodeSession, NativeSession
  <2>3. Withdrawal(native.request, native.turn) \in Event /\ Withdrawal(native.request, native.turn) # Snapshot(Completed)
    BY <1>c, <2>2 DEF Withdrawal, Event, Snapshot
  <2>4. es \in Seq(Event) /\ es[1] # Snapshot(Completed) /\ es \in News
    BY <1>e, <1>h, <2>3 DEF News
  <2>7. Sends(es)
    BY <1>g, <2>1, <2>4 DEF Sends
  <2>5. spool' = Append(Append(spool, Withdrawal(native.request, native.turn)), Snapshot(n))
    BY <1>a, <1>e, <2>1, <2>3, Glued
  <2>6. WithdrawForm
    BY <1>3, <2>1, <2>5 DEF Withdraw, WithdrawForm
  <2> QED BY <1>a, <2>1, <2>6, <2>7
<1>4. ASSUME Complete PROVE Goal
  <2>1. CASE native.queue = <<>>
    <3>1. /\ Emit(<<Snapshot(n)>>) /\ UNCHANGED <<peerVars, toNode>> /\ asked' = asked
          /\ spool' = spool \o <<Snapshot(n)>> /\ n = Completed
      BY <1>4, <2>1 DEF Complete, Emit, envVars
    <3>2. <<Snapshot(n)>> \in Seq(Event) /\ <<Snapshot(n)>> \in News
      BY <1>e, <1>h DEF News
    <3>5. Sends(<<Snapshot(n)>>)
      BY <1>g, <3>1, <3>2 DEF Sends
    <3>3. spool' = Append(spool, Snapshot(n))
      BY <1>a, <1>e, <3>1, Glued
    <3>4. QuietForm
      BY <1>4, <3>1, <3>3 DEF Complete, QuietForm
    <3> QED BY <1>a, <3>1, <3>4, <3>5
  <2>2. CASE native.queue # <<>>
    <3> DEFINE es == <<Snapshot(Completed), Snapshot(n)>>
    <3>1. /\ Emit(es) /\ UNCHANGED <<peerVars, toNode>> /\ asked' = asked
          /\ spool' = spool \o es /\ n = NextOfQueue
      BY <1>4, <2>2 DEF Complete, Emit, envVars
    <3>2. es \in Seq(Event) /\ es \in News
      BY <1>e, <1>h DEF News
    <3>5. NextForm => Sends(es)
      BY <1>g, <3>1, <3>2 DEF Sends
    <3>3. spool' = Append(Append(spool, Snapshot(Completed)), Snapshot(n))
      BY <1>a, <1>e, <3>1, Glued
    <3>4. NextForm
      BY <1>4, <2>2, <3>1, <3>3 DEF Complete, NextForm
    <3> QED BY <1>a, <3>1, <3>4, <3>5
  <2> QED BY <2>1, <2>2
<1>5. ASSUME CompleteOnly PROVE Goal
  <2>1. /\ n = Completed /\ spool' = Append(spool, Snapshot(n)) /\ asked' = asked
        /\ ~connected' /\ ready' = FALSE /\ toNode' = <<>>
    BY <1>5 DEF CompleteOnly, Gone, envVars
  <2>2. /\ <<Snapshot(n)>> \in Seq(Event) /\ <<Snapshot(n)>> \in News
    BY <1>e, <1>h DEF News
  <2>5. spool' = spool \o <<Snapshot(n)>>
    BY <1>a, <1>e, <2>1, Glued
  <2>3. Sends(<<Snapshot(n)>>)
    BY <2>1, <2>2, <2>5 DEF Sends, Sent
  <2>4. QuietForm
    BY <1>5, <2>1 DEF CompleteOnly, QuietForm
  <2> QED BY <1>a, <2>1, <2>3, <2>4
<1>6. Goal
  BY <1>1, <1>2, <1>3, <1>4, <1>5 DEF AgentStep
<1> QED BY <1>a, <1>b, <1>c, <1>e, <1>f, <1>6

\* An admission leaves the Node, the wire to the Gateway and the queue alone.
LEMMA SubmissionKeeps ==
  ASSUME IInv, Submission
  PROVE  /\ UNCHANGED <<queue, consumed, peerVars, nodeVars, toGw, asked, overdue, connects>>
         /\ connected /\ ready
  BY DEF Submission, Create, Send, Enqueue, Cancel, Respond, Submit

\* What a receipt or a dropped command does.
LEMMA Answer ==
  ASSUME IInv, Answered
  PROVE  /\ UNCHANGED <<nodeVars, envVars, connected, blocked>>
         /\ \/ toGw' = toGw
            \/ toGw # <<>> /\ Head(toGw).type = "receipt" /\ toGw' = Tail(toGw)
         /\ ready' = (ready \/ op'[1].state = "failed")
         /\ \/ UNCHANGED dbVars
            \/ \E i \in Ops : Fail(i) /\ ~Executed(i) /\ op[i].state = "open"
            \/ \E i \in Ops :
                 /\ op[i].state = "open" /\ Confirm(i) /\ Confirmable(i) /\ journal[i] = "confirmed"
                 /\ connected /\ toGw # <<>> /\ Head(toGw) = Receipt(i, "confirmed") /\ toGw' = Tail(toGw)
<1>a. FrameTypes /\ Commands
  BY TypeParts DEF IInv
<1>1. /\ UNCHANGED <<nodeVars, envVars, connected, blocked>>
      /\ ready' = (ready \/ op'[1].state = "failed")
  BY DEF Answered, Unsent, TakeReceipt
<1>2. CASE Unsent
  <2>1. PICK n \in 1..Len(toNode), i \in Ops : toNode[n] = Command(i) /\ Fail(i)
    BY <1>2, <1>a, CommandDropped
  <2>2. CommandOf(i) /\ InNode(Command(i))
    BY <1>a, <2>1 DEF Commands, InNode, Has
  <2>3. op[i].state = "open" /\ ~Executed(i)
    BY <2>2 DEF CommandOf, Executed
  <2>4. toGw' = toGw
    BY <1>2 DEF Unsent
  <2> QED BY <1>1, <2>1, <2>3, <2>4
<1>3. CASE TakeReceipt
  <2> DEFINE f == Head(toGw)
  <2>1. f \in ToGateway /\ InGw(f) /\ f.type = "receipt" /\ toGw # <<>> /\ connected /\ toGw' = Tail(toGw)
    BY <1>3, <1>a, GatewayReads DEF TakeReceipt, Reads
  <2>2. f.op \in Ops /\ f.state \in Words /\ f = Receipt(f.op, f.state)
    BY <2>1, GatewayFrames
  <2>3. \/ op[f.op].state = "open" /\ f.state \notin {"unknown", "delivered"} /\ f.state # "confirmed" /\ Fail(f.op)
        \/ op[f.op].state = "open" /\ f.state = "confirmed" /\ Confirmable(f.op) /\ Confirm(f.op)
        \/ UNCHANGED dbVars
    BY <1>3 DEF TakeReceipt
  <2> HIDE DEF f
  <2>4. CommandOf(f.op)
    BY <1>a, <2>2 DEF Commands
  <2>5. f.state \in {"not_seen", "rejected"} => ~Executed(f.op)
    BY <2>1, <2>2, <2>4 DEF CommandOf
  <2>6. f.state = "confirmed" => journal[f.op] = "confirmed"
    BY <2>1, <2>2, <2>4 DEF CommandOf
  <2>7. f.state \notin {"unknown", "delivered"} /\ f.state # "confirmed" => f.state \in {"not_seen", "rejected"}
    BY <2>2 DEF Words
  <2>8. CASE UNCHANGED dbVars
    BY <1>1, <2>1, <2>8 DEF f
  <2>9. CASE op[f.op].state = "open" /\ f.state \notin {"unknown", "delivered"} /\ f.state # "confirmed" /\ Fail(f.op)
    BY <1>1, <2>1, <2>2, <2>5, <2>7, <2>9 DEF f
  <2>10. CASE op[f.op].state = "open" /\ f.state = "confirmed" /\ Confirmable(f.op) /\ Confirm(f.op)
    BY <1>1, <2>1, <2>2, <2>6, <2>10 DEF f
  <2> QED BY <2>3, <2>8, <2>9, <2>10
<1> QED BY <1>2, <1>3 DEF Answered

\* What an event does that is taken.
LEMMA Taken ==
  ASSUME IInv, Ingest
  PROVE  /\ UNCHANGED <<native, journal, doing, connected, blocked, envVars, toNode, op>>
         /\ connected /\ ~blocked /\ spool # <<>> /\ toGw # <<>> /\ Head(toGw) = spool[1] /\ spool[1] \in Event
         /\ spool' = Tail(spool) /\ toGw' = Tail(toGw) /\ ready' = (ready \/ spool[1].type = "session")
         /\ \/ spool[1].type = "session" /\ AcceptsSession(spool[1]) /\ sessionUpdate(spool[1])
            \/ spool[1].type = "request" /\ AcceptsRequest(spool[1]) /\ requestCreate(spool[1])
            \/ spool[1].type = "withdraw" /\ AcceptsWithdrawal(spool[1]) /\ requestCancel(spool[1])
<1> DEFINE e == Head(toGw)
<1>a. FrameTypes /\ Line
  BY TypeParts DEF IInv
<1>1. toGw # <<>> /\ e.type \in {"session", "request", "withdraw"} /\ connected /\ ~blocked
  BY DEF Ingest, ReadsEvent, Reads
<1>2. /\ UNCHANGED <<native, journal, doing, connected, blocked, envVars, toNode>>
      /\ spool' = Tail(spool) /\ toGw' = Tail(toGw) /\ ready' = (ready \/ e.type = "session")
  BY DEF Ingest
<1>3. /\ Accepts(e)
      /\ \/ e.type = "session" /\ sessionUpdate(e)
         \/ e.type = "request" /\ requestCreate(e)
         \/ e.type = "withdraw" /\ requestCancel(e)
  BY DEF Ingest
<1>4. /\ e.type = "session" => AcceptsSession(e)
      /\ e.type = "request" => AcceptsRequest(e)
      /\ e.type = "withdraw" => AcceptsWithdrawal(e)
  BY <1>3 DEF Accepts
<1>5. op' = op
  BY <1>3 DEF sessionUpdate, requestCreate, requestCancel
<1>6. spool # <<>> /\ Head(spool) = e
  <2>1. Carries(toGw, spool) /\ e.type # "receipt"
    BY <1>a, <1>1 DEF Line
  <2> QED BY <1>a, <1>1, <2>1, CarriesAfterEvent DEF FrameTypes
<1>7. Head(spool) = spool[1] /\ spool[1] \in Event
  BY <1>a, <1>6, TailFacts DEF FrameTypes
<1> HIDE DEF e
<1>8. e = spool[1]
  BY <1>6, <1>7
<1> QED BY <1>1, <1>2, <1>3, <1>4, <1>5, <1>6, <1>7, <1>8 DEF e

\* Only an admission numbers an operation.
LEMMA KindsKept ==
  ASSUME IInv, Next
  PROVE  /\ ~Submission => admitted' = admitted
         /\ ~Submission => \A i \in Ops : /\ op'[i].kind = op[i].kind /\ op'[i].turn = op[i].turn
                                          /\ op'[i].request = op[i].request
         /\ \A i \in Ops : op[i].kind # "none" => /\ op'[i].kind = op[i].kind /\ op'[i].turn = op[i].turn
                                                  /\ op'[i].request = op[i].request
<1>a. TypeOK /\ Admissions /\ Commands /\ admitted \in Nat /\ op \in [Ops -> OpRow]
  BY TypeParts DEF IInv, CountTypes, RowTypes
<1>1. \A i \in Ops : op[i].kind # "none" => /\ op'[i].kind = op[i].kind /\ op'[i].turn = op[i].turn
                                            /\ op'[i].request = op[i].request
  BY <1>a, OpKept
<1>2. ~Submission => admitted' = admitted
  BY DEF Next, Submission, Connect, Disconnect, Unsent, TakeReceipt, TakeReplay, TakeAck, Ingest, Refuse, Reject, Execute,
         Interrupted, Finish, AnswerQuery, ReadError, Ask, Withdraw, Complete, CompleteOnly, Close,
         Expire, Pass, envVars
<1>3. ASSUME ~Submission, NEW i \in Ops
      PROVE  op'[i].kind = op[i].kind /\ op'[i].turn = op[i].turn /\ op'[i].request = op[i].request
  <2>1. op' = op \/ \E j \in Ops : /\ FailedNow(j) \/ ConfirmedNow(j)
                                   /\ \A k \in Ops : k # j => op'[k] = op[k]
    BY <1>a, <1>2, <1>3, OpStep DEF AdmittedNow
  <2>2. ASSUME NEW j \in Ops, FailedNow(j) \/ ConfirmedNow(j), \A k \in Ops : k # j => op'[k] = op[k]
        PROVE  op'[i].kind = op[i].kind /\ op'[i].turn = op[i].turn /\ op'[i].request = op[i].request
    <3>1. op[j] \in OpRow
      BY <1>a
    <3> QED BY <2>2, <3>1 DEF FailedNow, ConfirmedNow, OpRow
  <2> QED BY <2>1, <2>2
<1> QED BY <1>1, <1>2, <1>3

\* A turn that has a row keeps it, and only the session's turn gets one.
LEMMA TurnsKept ==
  ASSUME IInv, IInv', Next, NEW i \in Ops
  PROVE  /\ turns[i] # "none" => turns'[i] # "none"
         /\ turns'[i] # "none" => turns[i] # "none" \/ (i = session'.turn /\ session'.state # "none")
<1>a. TypeOK /\ Admissions /\ Commands /\ turns \in [Ops -> TurnStates] /\ session \in SessionRow /\ RowTypes
  BY TypeParts DEF IInv, RowTypes
<1>b. session'.state # "none" => turns'[session'.turn] # "none"
  BY DEF IInv, OneTurnAtATime, Ended
<1>1. CASE UNCHANGED <<session, turns>>
  BY <1>1
<1>2. CASE /\ session.state = "none" /\ session'.state = "idle" /\ session'.turn \in Ops
           /\ turns' = [turns EXCEPT ![session'.turn] = "starting"]
  BY <1>2, <1>a
<1>3. CASE /\ session.state \in {"idle"} /\ session' = [session EXCEPT !.state = "failed"]
           /\ turns' = [turns EXCEPT ![session.turn] = "failed"]
  BY <1>3, <1>a DEF SessionRow
<1>4. CASE /\ isActive(session.state) /\ session' = [session EXCEPT !.state = "cancelling"]
           /\ turns' = [turns EXCEPT ![session.turn] = "cancelling"]
  BY <1>4, <1>a DEF SessionRow
<1>5. ASSUME NEW e \in Event, e.type = "session", AcceptsSession(e), sessionUpdate(e)
      PROVE  /\ turns[i] # "none" => turns'[i] # "none"
             /\ turns'[i] # "none" => turns[i] # "none" \/ (i = session'.turn /\ session'.state # "none")
  <2>1. session' = [state |-> e.state, turn |-> e.turn] /\ (i # e.turn => turns'[i] = turns[i])
    BY <1>a, <1>5, SessionUpdates
  <2>2. e.state # "none"
    BY <1>5, Events DEF SessionStates, Waiting, Ended
  <2> QED BY <1>b, <2>1, <2>2
<1> QED BY <1>a, <1>1, <1>2, <1>3, <1>4, <1>5, TurnsChange

\* The session's turn has a row.
LEMMA RowsBegun ==
  ASSUME IInv, session.state # "none"
  PROVE  session.turn \in Ops /\ turns[session.turn] # "none" /\ op[session.turn].kind # "none" /\ admitted # 0
<1>1. session.turn \in Ops /\ admitted \in Nat
  BY TypeParts DEF IInv, Admissions, RowTypes, SessionRow, CountTypes
<1>2. turns[session.turn] # "none"
  BY DEF IInv, OneTurnAtATime, Ended
<1>3. op[session.turn].kind # "none"
  BY <1>1, <1>2 DEF IInv, QueueRows
<1>4. admitted # 0
  BY <1>1, <1>3, Zero DEF IInv, Admissions, Ops
<1> QED BY <1>1, <1>2, <1>3, <1>4

\* The trail, point by point.
LEMMA TrailFacts ==
  ASSUME IInv
  PROVE  /\ spool \in Seq(Event) /\ Len(spool) \in Nat /\ (spool # <<>> => 1 \in 1..Len(spool))
         /\ \A k \in 1..Len(spool) : spool[k] \in Event
         /\ Own.type = "session" /\ Own.state = native.state /\ Own.turn = native.turn /\ Own.queue = native.queue
         /\ native.queue \in Seq(Ops)
         /\ native.state # "none" =>
              /\ native.turn \in Ops /\ Own \in Event /\ Trail \in Seq(Event)
              /\ Len(Trail) = Len(spool) + 1 /\ Trail[Len(spool) + 1] = Own
              /\ Len(spool) + 1 \in 1..Len(Trail)
              /\ \A k \in 1..Len(spool) : Trail[k] = spool[k] /\ k \in 1..Len(Trail)
              /\ \A k \in 1..Len(Trail) : k \in 1..Len(spool) \/ k = Len(spool) + 1
<1>1. /\ spool \in Seq(Event) /\ native \in NativeSession /\ native.turn \in {0} \union Ops
      /\ native.queue \in Seq(Ops) /\ NodeSession
  BY TypeParts DEF IInv, NodeTypes, FrameTypes, NativeSession
<1>2. /\ Len(spool) \in Nat /\ (spool # <<>> => 1 \in 1..Len(spool))
      /\ \A k \in 1..Len(spool) : spool[k] \in Event
  BY <1>1
<1>3. Own.type = "session" /\ Own.state = native.state /\ Own.turn = native.turn /\ Own.queue = native.queue
  BY DEF Own, Snapshot
<1>4. ASSUME native.state # "none"
      PROVE  native.turn \in Ops /\ Own \in Event
  BY <1>1, <1>4, SnapshotFacts DEF Own, NodeSession
<1>5. ASSUME native.state # "none"
      PROVE  /\ Trail \in Seq(Event)
             /\ Len(Trail) = Len(spool) + 1 /\ Trail[Len(spool) + 1] = Own
             /\ \A k \in 1..Len(spool) : Trail[k] = spool[k]
  BY <1>1, <1>4, <1>5, AppendFacts DEF Trail
<1> HIDE DEF Trail
<1>6. ASSUME native.state # "none"
      PROVE  /\ Len(spool) + 1 \in 1..Len(Trail)
             /\ \A k \in 1..Len(spool) : k \in 1..Len(Trail)
             /\ \A k \in 1..Len(Trail) : k \in 1..Len(spool) \/ k = Len(spool) + 1
  BY <1>2, <1>5, <1>6
<1> QED BY <1>1, <1>2, <1>3, <1>4, <1>5, <1>6

\* What the spool has and what the Node is are ahead of the rows.
LEMMA PointFacts ==
  ASSUME IInv, Beginning, Points
  PROVE  /\ \A k \in 1..Len(spool) : native.state # "none" /\ (spool[k].type = "session" => Ahead(spool[k]))
         /\ native.state # "none" => Ahead(Own)
<1>1. spool # <<>> => native.state # "none"
  BY DEF Beginning
<1>2. (\E k \in 1..Len(spool) : TRUE) => spool # <<>>
  OBVIOUS
<1> QED BY <1>1, <1>2, TrailFacts DEF Points

\* An admission: the first one begins the session.
LEMMA Admission ==
  ASSUME IInv, Submission
  PROVE  /\ \/ session.state = "none" /\ admitted = 0 /\ session' = [state |-> "idle", turn |-> 1]
               /\ turns' = [turns EXCEPT ![1] = "starting"]
            \/ session.state # "none" /\ admitted # 0 /\ UNCHANGED <<session, turns>>
         /\ admitted' = admitted + 1 /\ admitted' \in Ops
         /\ \A i \in Ops : i # admitted' => op'[i] = op[i]
         /\ op'[admitted'].kind = "create" <=> session.state = "none"
         /\ op'[admitted'].turn = session.turn /\ op[admitted'].kind = "none"
         /\ op'[admitted'].kind # "none" /\ op'[admitted'].state = "open"
         /\ toNode' = Append(toNode, Command(admitted')) /\ ~Busy
         /\ op'[admitted'].kind = "queue" => session.state \in OnTurn
<1>a. TypeOK /\ Admissions /\ admitted \in Nat
  BY TypeParts DEF IInv, CountTypes
<1>1. PICK kind \in Kinds \ {"none"}, r \in {0} \union Requests :
         /\ Submit(kind, r)
         /\ \/ kind = "create" /\ Create
            \/ kind # "create" /\ session.state # "none" /\ UNCHANGED <<session, turns>>
  BY <1>a, Submitted
<1>2. /\ admitted' \in Ops /\ admitted' = admitted + 1
      /\ op'[admitted'] = [kind |-> kind, turn |-> session.turn, request |-> r, state |-> "open"]
      /\ \A i \in Ops : i # admitted' => op'[i] = op[i]
      /\ op[admitted'].kind = "none"
      /\ toNode' = Append(toNode, Command(admitted')) /\ ~Busy
  BY <1>a, <1>1, Submits
<1>3. session.state = "none" => admitted = 0
  BY <1>a DEF Admissions
<1>4. session.state # "none" => admitted # 0
  BY RowsBegun
<1>5. kind = "create" => /\ session.state = "none" /\ session' = [state |-> "idle", turn |-> admitted']
                         /\ turns' = [turns EXCEPT ![admitted'] = "starting"]
  BY <1>1 DEF Create
<1>6. ASSUME op'[admitted'].kind = "queue" PROVE session.state \in OnTurn
  <2>1. ASSUME NEW a, NEW b, Submit(a, b) PROVE op'[admitted'].kind = a
    BY <1>2, <2>1, TypeParts DEF Submit, IInv, RowTypes
  <2>2. Enqueue
    BY <1>6, <2>1 DEF Submission, Create, Send, Cancel, Respond
  <2> QED BY <2>2 DEF Enqueue, OnTurn
<1> QED BY <1>a, <1>1, <1>2, <1>3, <1>4, <1>5, <1>6

\* How the session's row changes.
Starts  == /\ Submission /\ session.state = "none" /\ native.state = "none" /\ session' = [state |-> "idle", turn |-> 1]
           /\ turns' = [turns EXCEPT ![1] = "starting"]
Breaks  == /\ Answered /\ session.state = "idle" /\ native.state = "none" /\ op'[1].state = "failed"
           /\ session' = [session EXCEPT !.state = "failed"] /\ turns' = [turns EXCEPT ![session.turn] = "failed"]
Marks(c) == /\ Answered /\ Confirm(c) /\ op[c].kind = "cancel" /\ op[c].state = "open" /\ journal[c] = "confirmed"
            /\ op[c].turn = session.turn /\ isActive(session.state) /\ session.state # "cancelling"
            /\ session' = [session EXCEPT !.state = "cancelling"]
            /\ turns' = [turns EXCEPT ![session.turn] = "cancelling"]
            /\ connected /\ toGw # <<>> /\ Head(toGw) = Receipt(c, "confirmed")
Takes   == Ingest /\ spool[1].type = "session" /\ AcceptsSession(spool[1]) /\ sessionUpdate(spool[1])

LEMMA SessionChange ==
  ASSUME IInv, Beginning, Next
  PROVE  UNCHANGED <<session, turns>> \/ Starts \/ Breaks \/ (\E c \in Ops : Marks(c)) \/ Takes
<1>a. RowTypes /\ TypeOK /\ Admissions /\ Commands
  BY TypeParts DEF IInv
<1>1. CASE Submission
  <2>1. session.state = "none" => native.state = "none"
    BY DEF Beginning
  <2> QED BY <1>1, <2>1, Admission DEF Starts
<1>2. CASE Answered
  <2>1. ASSUME NEW i \in Ops, Fail(i), ~Executed(i), op[i].state = "open"
        PROVE  UNCHANGED <<session, turns>> \/ Breaks
    <3>1. CASE op[i].kind = "create" /\ session.state = "idle"
      <4>1. i = 1
        BY <3>1 DEF Beginning
      <4>2. native.state = "none"
        BY <2>1, <4>1 DEF Beginning
      <4>3. op'[1].state = "failed"
        BY <1>a, <2>1, <4>1 DEF Fail, RowTypes, OpRow
      <4> QED BY <1>2, <2>1, <3>1, <4>2, <4>3 DEF Fail, Breaks
    <3>2. CASE ~(op[i].kind = "create" /\ session.state = "idle")
      BY <2>1, <3>2 DEF Fail
    <3> QED BY <3>1, <3>2
  <2>2. ASSUME NEW i \in Ops, op[i].state = "open", Confirm(i), journal[i] = "confirmed", connected, toGw # <<>>,
               Head(toGw) = Receipt(i, "confirmed")
        PROVE  UNCHANGED <<session, turns>> \/ Marks(i)
    BY <1>2, <2>2 DEF Confirm, Cancels, Marks
  <2> QED BY <1>2, <2>1, <2>2, Answer DEF dbVars
<1>3. CASE RequestEnds
  BY <1>3 DEF RequestEnds, Expire
<1>4. CASE Ingest
  <2>1. spool[1].type \in {"request", "withdraw"} => UNCHANGED <<session, turns>>
    BY <1>4, Taken DEF requestCreate, requestCancel
  <2> QED BY <1>4, <2>1, Taken DEF Takes
<1>5. CASE ByCommand \/ AgentStep \/ Silent
  BY <1>5, RowsKept DEF dbVars
<1> QED BY <1>1, <1>2, <1>3, <1>4, <1>5, Steps

\* The first snapshot of the spool becomes the session's row.
LEMMA TakesFacts ==
  ASSUME IInv, Beginning, Points, Takes
  PROVE  /\ native.state # "none" /\ Ahead(spool[1]) /\ spool # <<>>
         /\ session' = [state |-> spool[1].state, turn |-> spool[1].turn]
         /\ queue' = spool[1].queue /\ consumed' = ConsumedBy(spool[1].turn) /\ op' = op
         /\ \A i \in Ops : turns'[i] = IF i = spool[1].turn THEN TurnState(spool[1]) ELSE turns[i]
         /\ request' = CancelledBy(spool[1].state)
         /\ \/ spool[1].turn # session.turn /\ spool[1].state = "running" /\ MayStart(spool[1].turn)
            \/ spool[1].turn = session.turn /\ validTransition(session.state, spool[1].state)
<1>1. RowTypes /\ Admissions
  BY TypeParts DEF IInv
<1>2. spool # <<>> /\ spool[1] \in Event /\ spool[1].type = "session"
  BY Taken DEF Takes
<1>3. native.state # "none" /\ Ahead(spool[1])
  BY <1>2, PointFacts, TrailFacts
<1> QED BY <1>1, <1>2, <1>3, SessionUpdates DEF Takes

\* What has failed stays so.
LEMMA FailedStays ==
  ASSUME IInv, Next, NEW i \in Ops, op[i].state = "failed"
  PROVE  op'[i].state = "failed"
<1>1. TypeOK /\ Admissions /\ Commands
  BY DEF IInv
<1>2. PICK j \in Ops : op' = op \/ ((AdmittedNow(j) \/ FailedNow(j) \/ ConfirmedNow(j)) /\ \A k \in Ops : k # j => op'[k] = op[k])
  BY <1>1, OpStep
<1> QED BY <1>2 DEF AdmittedNow, FailedNow, ConfirmedNow

-----------------------------------------------------------------------------
(* The session, from the create command on. *)

LEMMA BeginningStep ==
  ASSUME IInv, IInv', MInv, Next
  PROVE  Beginning'
<1>a. /\ Beginning /\ Engaged /\ Points /\ TypeOK /\ Admissions /\ Commands /\ NodeSession /\ QueueRows
      /\ RowTypes /\ NodeTypes /\ FrameTypes /\ admitted \in 0..MaxOps /\ admitted \in Nat
  BY TypeParts DEF IInv, MInv, CountTypes
<1>b. /\ admitted' \in Nat
      /\ \A i \in Ops : op'[i].kind = "none" <=> i > admitted'
  BY ConstantsAssumption DEF IInv, Admissions, TypeOK
<1>c. 1 \in Ops /\ \A i \in Ops : i \in Nat /\ i >= 1
  BY ConstantsAssumption DEF Ops
<1>1. \A i \in Ops : op'[i].kind = "create" <=> i = 1 /\ admitted' # 0
  <2>1. CASE Submission
    <3>1. \A i \in Ops : op[i].kind = "create" <=> i = 1 /\ admitted # 0
      BY <1>a DEF Beginning
    <3>2. session.state = "none" <=> admitted = 0
      BY Admission, <2>1
    <3> QED BY <1>a, <1>c, Admission, <2>1, <3>1, <3>2
  <2>2. CASE ~Submission
    BY <1>a, <2>2, KindsKept DEF Beginning
  <2> QED BY <2>1, <2>2
<1>2. \A i \in Ops : op'[i].kind \notin {"none", "create"} =>
         op'[i].turn # 0 /\ turns'[op'[i].turn] # "none" /\ op'[i].turn # i
  <2> SUFFICES ASSUME NEW i \in Ops, op'[i].kind \notin {"none", "create"}
               PROVE  op'[i].turn # 0 /\ turns'[op'[i].turn] # "none" /\ op'[i].turn # i
    OBVIOUS
  <2>1. CASE op[i].kind # "none"
    <3>1. op'[i].kind = op[i].kind /\ op'[i].turn = op[i].turn
      BY <2>1, KindsKept
    <3>2. op[i].turn # 0 /\ turns[op[i].turn] # "none" /\ op[i].turn # i
      BY <1>a, <3>1 DEF Beginning
    <3>3. op[i].turn \in Ops
      BY <1>a, <3>2 DEF RowTypes, OpRow
    <3> QED BY <3>1, <3>2, <3>3, TurnsKept
  <2>2. CASE op[i].kind = "none"
    <3>1. Submission
      BY <2>2, KindsKept
    <3>2. i = admitted' /\ session.state # "none" /\ UNCHANGED <<session, turns>> /\ op'[i].turn = session.turn
      BY Admission, <2>2, <3>1
    <3>3. session.turn \in Ops /\ turns[session.turn] # "none" /\ op[session.turn].kind # "none"
      BY <3>2, RowsBegun
    <3> QED BY <2>2, <3>2, <3>3, Zero
  <2> QED BY <2>1, <2>2
<1>3. \A i \in Ops : turns'[i] # "none" => i = 1 \/ ExecutedThen(i)
  <2> SUFFICES ASSUME NEW i \in Ops, turns'[i] # "none" PROVE i = 1 \/ ExecutedThen(i)
    OBVIOUS
  <2>1. Executed(i) => ExecutedThen(i)
    BY <1>a, JournalStep DEF Executed, ExecutedThen
  <2>2. CASE turns[i] # "none"
    BY <1>a, <2>1, <2>2 DEF Beginning
  <2>3. CASE turns[i] = "none"
    <3>1. i = session'.turn /\ ~UNCHANGED <<session, turns>>
      BY <2>3, TurnsKept
    <3>2. CASE Starts
      BY <3>1, <3>2 DEF Starts
    <3>3. CASE Breaks \/ \E c \in Ops : Marks(c)
      <4>1. i = session.turn /\ session.state # "none"
        BY <1>a, <3>1, <3>3 DEF Breaks, Marks, isActive, RowTypes, SessionRow, Waiting
      <4> QED BY <2>3, <4>1, RowsBegun
    <3>4. CASE Takes
      BY <1>a, <2>1, <3>1, <3>4, TakesFacts DEF Ahead
    <3> QED BY <1>a, <3>1, <3>2, <3>3, <3>4, SessionChange
  <2> QED BY <2>2, <2>3
<1>4. ASSUME native'.state = "none"
      PROVE  /\ native.state = "none" /\ native' = native /\ spool' = <<>> /\ doing' = 0
             /\ \A i \in Ops : ~ExecutedThen(i)
  <2>1. ~AgentStep
    BY <1>a, <1>4, AgentSteps
  <2>2. ASSUME ByCommand PROVE native' = native /\ spool' = spool /\ doing' = 0
                               /\ \A j \in Ops : journal'[j] = journal[j] \/ journal'[j] \in {"rejected", "delivered"}
    <3>1. PICK i \in Ops : /\ op[i].kind \in Kinds \ {"none"}
                           /\ Rejects(i) \/ Executes(i) \/ Drops(i)
                           /\ spool' = spool
      BY <1>a, <2>2, CommandRead
    <3>2. Executes(i) => native'.state # "none"
      <4>1. Executes(i) => Executable(i) /\ native' = Begun(i)
        BY DEF Executes
      <4> QED BY <1>a, <3>1, <4>1, BegunFacts DEF Kinds
    <3> QED BY <1>a, <1>4, <3>1, <3>2 DEF Rejects, Drops, NodeTypes, Beginning
  <2>3. ~ByCommand => native' = native /\ journal' = journal /\ doing' \in {doing, 0}
    BY <2>1, Steps, NativeKept, JournalKept
  <2>4. native.state = "none" /\ native' = native
    BY <1>4, <2>2, <2>3
  <2>5. spool = <<>> /\ doing = 0 /\ \A i \in Ops : ~Executed(i)
    BY <1>a, <2>4 DEF Beginning
  <2>6. ~ByCommand => spool' = <<>>
    <3>1. ~Ingest
      BY <2>5, Taken
    <3>2. Submission \/ Answered \/ RequestEnds => spool' = spool
      BY SubmissionKeeps, Answer DEF RequestEnds, Expire, nodeVars
    <3>3. Silent => spool' = spool
      BY <2>4 DEF Silent, Connect, Disconnect, Refuse, AnswerQuery, ReadError, Replays, TakeReplay, TakeAck, Pass, nodeVars
    <3> QED BY <2>1, <2>5, <3>1, <3>2, <3>3, Steps
  <2> QED BY <2>2, <2>3, <2>4, <2>5, <2>6 DEF Executed, ExecutedThen
<1>5. ASSUME native'.state = "none", session'.state # "none", op'[1].state # "failed"
      PROVE  session'.state = "idle" /\ session'.turn = 1
  <2>1. native.state = "none" /\ spool = <<>> /\ \A i \in Ops : ~Executed(i)
    BY <1>4, <1>5, <1>a DEF Beginning
  <2>2. ~Takes /\ ~Breaks
    BY <1>5, <2>1, Taken DEF Takes, Breaks
  <2>3. \A c \in Ops : ~Marks(c)
    BY <2>1 DEF Marks, Executed
  <2>4. op[1].state # "failed" /\ session.state # "none" => session.state = "idle" /\ session.turn = 1
    BY <1>a, <2>1 DEF Beginning
  <2>5. CASE Starts
    BY <2>5 DEF Starts
  <2>6. CASE UNCHANGED <<session, turns>>
    <3>1. op[1].state # "failed"
      <4>1. op[1].kind # "none"
        BY <1>5, <1>a, <1>c, <2>6, RowsBegun DEF Admissions
      <4> QED BY <1>5, <1>a, <1>c, <4>1, FailedStays
    <3> QED BY <1>5, <2>4, <2>6, <3>1
  <2> QED BY <1>a, <2>2, <2>3, <2>5, <2>6, SessionChange
<1>6. ASSUME native'.state # "none"
      PROVE  ExecutedThen(1) /\ session'.state # "none" /\ session'.state # "failed"
  <2>1. CASE native.state # "none"
    <3>1. Executed(1) /\ session.state # "none" /\ session.state # "failed"
      BY <1>a, <2>1 DEF Beginning
    <3>2. ExecutedThen(1)
      BY <1>a, <1>c, <3>1, JournalStep DEF Executed, ExecutedThen
    <3>3. Takes => session'.state # "none" /\ session'.state # "failed"
      BY <1>a, TakesFacts DEF Ahead, OnTurn, Waiting
    <3>4. ~Starts /\ ~Breaks
      BY <2>1 DEF Starts, Breaks
    <3>5. ASSUME NEW c \in Ops, Marks(c) PROVE session'.state = "cancelling"
      BY <1>a, <3>5 DEF Marks, RowTypes, SessionRow
    <3> QED BY <1>a, <3>1, <3>2, <3>3, <3>4, <3>5, SessionChange
  <2>2. CASE native.state = "none"
    <3>1. ~AgentStep /\ ByCommand
      <4>1. ~AgentStep
        BY <2>2, <1>a, AgentForms
      <4> QED BY <1>6, <2>2, <4>1, Steps, NativeKept
    <3>2. PICK i \in Ops : /\ op[i].kind \in Kinds \ {"none"} /\ op[i].state = "open"
                           /\ Rejects(i) \/ Executes(i) \/ Drops(i)
      BY <1>a, <3>1, CommandRead
    <3>3. Executes(i) /\ Executable(i)
      BY <1>6, <2>2, <3>2 DEF Rejects, Drops, Executes
    <3>4. op[i].kind = "create"
      BY <1>a, <2>2, <3>2, <3>3, BegunFacts
    <3>5. i = 1
      BY <1>a, <3>4 DEF Beginning
    <3>6. journal'[i] \in {"unknown", "confirmed"}
      BY <1>a, <3>3 DEF Executes, NodeTypes
    <3>7. session.state # "none"
      BY <1>a, <1>c, <3>4, <3>5 DEF Admissions
    <3>8. session.state = "idle" /\ UNCHANGED session
      BY <1>a, <2>2, <3>1, <3>2, <3>5, <3>7, RowsKept DEF Beginning, dbVars
    <3> QED BY <3>5, <3>6, <3>8 DEF ExecutedThen
  <2> QED BY <2>1, <2>2
<1>7. native'.state = "none" =>
        /\ spool' = <<>> /\ doing' = 0 /\ native'.queue = <<>> /\ native'.request = 0 /\ ~native'.working
        /\ \A i \in Ops : ~ExecutedThen(i)
        /\ session'.state # "none" /\ op'[1].state # "failed" => session'.state = "idle" /\ session'.turn = 1
  <2>1. native.state = "none" => native.queue = <<>> /\ native.request = 0 /\ ~native.working
    BY <1>a DEF Beginning
  <2> QED BY <1>4, <1>5, <2>1
<1> QED BY <1>1, <1>2, <1>3, <1>6, <1>7 DEF Beginning, Executed, ExecutedThen

\* The steps of the Node on a command.
LEMMA CommandForms ==
  ASSUME IInv, ByCommand
  PROVE  /\ connected /\ doing = 0 /\ spool' = spool /\ UNCHANGED <<dbVars, envVars>>
         /\ UNCHANGED peerVars \/ Gone
         /\ \E i \in Ops :
              /\ toNode # <<>> /\ Head(toNode) = Command(i) /\ InNode(Command(i))
              /\ op[i].state = "open" /\ journal[i] = "none" /\ op[i].kind \in Kinds \ {"none"}
              /\ \/ native' = native /\ doing' = 0 /\ ~ExecutedThen(i)
                 \/ Executable(i) /\ native' = Begun(i) /\ ExecutedThen(i) /\ doing' \in {0, i}
              /\ \A j \in Ops : j # i => journal'[j] = journal[j]
              /\ Gone \/ (toNode' = Tail(toNode) /\ \E s \in Words : toGw' = Append(toGw, Receipt(i, s)))
              /\ native' # native => doing' # 0 \/ Gone
<1>a. TypeOK /\ Admissions /\ Commands /\ journal \in [Ops -> JournalStates]
  BY TypeParts DEF IInv, NodeTypes
<1>1. /\ connected /\ doing = 0 /\ spool' = spool /\ UNCHANGED <<dbVars, envVars>>
      /\ UNCHANGED peerVars \/ Gone
  BY DEF ByCommand, Reject, Execute, Interrupted, NodeReads
<1>2. PICK i \in Ops :
           /\ toNode # <<>> /\ Head(toNode) = Command(i) /\ InNode(Command(i))
           /\ op[i].state = "open" /\ journal[i] = "none" /\ op[i].kind \in Kinds \ {"none"}
           /\ Rejects(i) \/ Executes(i) \/ Drops(i)
  BY <1>a, CommandRead
<1>3. \/ native' = native /\ doing' = 0 /\ ~ExecutedThen(i)
      \/ Executable(i) /\ native' = Begun(i) /\ ExecutedThen(i) /\ doing' \in {0, i}
  BY <1>a, <1>1, <1>2 DEF Rejects, Executes, Drops, ExecutedThen
<1>4. \A j \in Ops : j # i => journal'[j] = journal[j]
  BY <1>a, <1>2 DEF Rejects, Executes, Drops
<1>5. Gone \/ (toNode' = Tail(toNode) /\ \E s \in Words : toGw' = Append(toGw, Receipt(i, s)))
  BY <1>2 DEF ByCommand, Reject, Execute, Interrupted, Words, Rejects, Executes, Drops, Command
<1>6. native' # native => doing' # 0 \/ Gone
  <2>1. Head(toNode).op = i /\ i # 0
    BY <1>2, Zero DEF Command
  <2> QED BY <2>1 DEF ByCommand, Reject, Execute, Interrupted
<1> QED BY <1>1, <1>2, <1>3, <1>4, <1>5, <1>6

\* The other steps of the Node and of the connection.
LEMMA SilentForms ==
  ASSUME IInv, Silent
  PROVE  /\ UNCHANGED <<dbVars, native, journal, admitted, asked>> /\ overdue \subseteq overdue'
         /\ doing' \in {doing, 0}
         /\ \/ Gone /\ spool' = spool /\ overdue' = overdue
            \/ Connect
            \/ Refuse
            \/ AnswerQuery
            \/ \E r \in Requests : Pass(r)
            \/ Replays
         /\ ~Connect => spool' = spool /\ ((connected' = connected /\ (ready => ready')) \/ Gone)
         /\ Replays => UNCHANGED <<dbVars, native, journal, doing, spool, toGw, toNode, connected, blocked, envVars>>
<1>1. Connect => UNCHANGED <<dbVars, native, journal, admitted, asked, overdue, doing>>
  BY DEF Connect
<1> QED
  BY <1>1 DEF Silent, Disconnect, Refuse, AnswerQuery, ReadError, Replays, TakeReplay, TakeAck, Pass, nodeVars, envVars, peerVars, Gone

LEMMA EngagedStep ==
  ASSUME IInv, IInv', MInv, Next
  PROVE  Engaged'
<1>a. /\ Beginning /\ Engaged /\ CancelledWork /\ TypeOK /\ NodeSession /\ native \in NativeSession
      /\ op \in [Ops -> OpRow] /\ doing \in {0} \union Ops /\ NodeTypes /\ native.working \in BOOLEAN
  BY TypeParts DEF IInv, MInv, NodeTypes, RowTypes, NativeSession
<1>1. ASSUME native' = native, doing' = 0 \/ (doing' = doing /\ connected' = connected)
      PROVE  Engaged'
  <2>1. ASSUME doing' # 0
        PROVE  /\ doing \in Ops /\ op'[doing].kind = op[doing].kind /\ op'[doing].turn = op[doing].turn
               /\ Executed(doing) => ExecutedThen(doing)
    <3>1. doing \in Ops /\ op[doing].kind # "none"
      BY <1>1, <1>a, <2>1 DEF NodeSession
    <3> QED BY <3>1, KindsKept, JournalStep DEF IInv, Executed, ExecutedThen
  <2>2. doing' # 0 => /\ connected' /\ native'.state \in OnTurn
                      /\ op'[doing'].kind \in {"create", "send"} =>
                           native'.turn = doing' /\ native'.state = "running" /\ ~native'.working
                      /\ op'[doing'].kind \notin {"create", "send"} => native'.turn = op'[doing'].turn
                      /\ op'[doing'].kind = "cancel" => ExecutedThen(doing')
                      /\ op'[doing'].kind = "respond" => native'.state \in Waiting /\ native'.request # 0
    BY <1>1, <1>a, <2>1 DEF Engaged, Executed, ExecutedThen
  <2> QED BY <1>1, <1>a, <2>2 DEF Engaged, Executed, ExecutedThen
<1>2. CASE Submission \/ Answered \/ RequestEnds \/ Ingest
  BY <1>1, <1>2, SubmissionKeeps, Answer, Taken DEF RequestEnds, Expire, nodeVars, peerVars
<1>3. CASE Silent
  <2>1. connected' = connected \/ Gone \/ (Connect /\ doing = 0 /\ doing' = 0)
    BY <1>3, <1>a, SilentForms DEF Connect, Engaged
  <2> QED BY <1>1, <1>3, <2>1, SilentForms DEF Gone
<1>4. CASE ByCommand
  <2>1. PICK i \in Ops :
          /\ op[i].state = "open" /\ op[i].kind \in Kinds \ {"none"}
          /\ \/ native' = native /\ doing' = 0
             \/ Executable(i) /\ native' = Begun(i) /\ ExecutedThen(i) /\ doing' \in {0, i}
    BY <1>4, CommandForms
  <2>2. op' = op /\ connected /\ (connected' \/ doing' = 0)
    BY <1>4, CommandForms DEF dbVars, Gone, peerVars
  <2>3. CASE Executable(i) /\ native' = Begun(i) /\ ExecutedThen(i) /\ doing' \in {0, i}
    <3> DEFINE k == op[i].kind
    <3>1. k \in {"create", "send", "queue", "cancel", "respond"}
      BY <2>1 DEF Kinds
    <3>2. CASE k \in {"create", "send"}
      <4>1. native'.state = "running" /\ native'.turn = i /\ native'.request = native.request /\ native'.working = native.working
        BY <1>a, <2>1, <2>3, <3>2, BegunFacts
      <4>2. native.state \in Ended \/ native.state = "none"
        BY <2>3, <3>2 DEF Executable
      <4>3. native.request = 0 /\ ~native.working
        BY <1>a, <4>2 DEF Beginning, Engaged, OnTurn, Waiting, Ended
      <4> QED BY <2>2, <2>3, <3>2, <4>1, <4>3 DEF Engaged, OnTurn
    <3>3. CASE k \in {"queue", "cancel", "respond"}
      <4>1. native'.state = native.state /\ native'.turn = native.turn /\ native.turn = op[i].turn /\ native.state # "none"
        BY <1>a, <2>1, <2>3, <3>3, BegunFacts
      <4>2. native.state \in OnTurn
        <5>1. k = "respond" => native.request # 0
          BY <2>1, <2>3 DEF Executable, IInv, Admissions
        <5> QED BY <1>a, <2>3, <3>3, <4>1, <5>1 DEF Executable, Engaged, OnTurn
      <4>3. native'.request \in {native.request, 0} /\ (native'.working => native.working) /\ (k = "respond" => native' = native)
        BY <1>a, <2>3, <3>3 DEF Begun, NativeSession
      <4>4. k = "respond" => native.request # 0
        BY <2>1, <2>3 DEF Executable, IInv, Admissions
      <4> QED BY <1>a, <2>2, <2>3, <3>3, <4>1, <4>2, <4>3, <4>4 DEF Engaged, Executed, ExecutedThen
    <3> QED BY <3>1, <3>2, <3>3
  <2> QED BY <1>1, <2>1, <2>3
<1>5. CASE AgentStep
  <2>1. doing' = 0 /\ (QuietForm \/ AskForm \/ WithdrawForm \/ NextForm) /\ native.state # "none"
    BY <1>5, <1>a, AgentForms
  <2>2. native.state = "running" => native.request = 0
    BY <1>a DEF Engaged, Waiting
  <2>3. CASE doing # 0 /\ native' = Carried(doing)
    <3>1. doing \in Ops /\ op[doing].kind \in Kinds \ {"none"} /\ native.state \in OnTurn
      BY <1>a, <2>3 DEF NodeSession, OpRow, Engaged
    <3>2. op[doing].kind = "cancel" => native.request = 0 /\ ~native.working
      BY <1>a, <2>3, <3>1 DEF Engaged, CancelledWork
    <3>3. op[doing].kind \in {"create", "send"} => native.state = "running"
      BY <1>a, <2>3 DEF Engaged
    <3>4. CASE op[doing].kind = "cancel"
      BY <1>a, <2>1, <2>3, <3>2, <3>4 DEF Carried, NativeSession, Engaged
    <3>5. CASE op[doing].kind = "respond"
      BY <1>a, <2>1, <2>3, <3>5 DEF Carried, NativeSession, Engaged, OnTurn
    <3>6. CASE op[doing].kind = "queue"
      BY <1>a, <2>1, <2>3, <3>6 DEF Carried, Engaged
    <3>7. CASE op[doing].kind \in {"create", "send"}
      BY <1>a, <2>1, <2>2, <2>3, <3>3, <3>7 DEF Carried, NativeSession, Engaged, OnTurn
    <3> QED BY <3>1, <3>4, <3>5, <3>6, <3>7 DEF Kinds
  <2>4. CASE native.state = "running" /\ native' = Completed
    BY <1>a, <2>1, <2>2, <2>4 DEF Completed, NativeSession, Engaged
  <2>5. CASE native' = [native EXCEPT !.state = "closed", !.request = 0, !.working = FALSE]
    BY <1>a, <2>1, <2>5 DEF NativeSession, Engaged
  <2>6. CASE AskForm
    BY <1>a, <2>1, <2>6 DEF AskForm, NativeSession, Engaged, OnTurn, WaitingState, Waiting
  <2>7. CASE WithdrawForm
    BY <1>a, <2>1, <2>7 DEF WithdrawForm, NativeSession, Engaged, OnTurn
  <2>8. CASE NextForm
    BY <1>a, <2>1, <2>2, <2>8 DEF NextForm, NextOfQueue, NativeSession, Engaged, OnTurn
  <2> QED BY <2>1, <2>3, <2>4, <2>5, <2>6, <2>7, <2>8 DEF QuietForm
<1> QED BY <1>2, <1>3, <1>4, <1>5, Steps

-----------------------------------------------------------------------------
(* What a cancel leaves behind. *)

\* The commands on the wire: one is admitted, the others are there already.
LEMMA WireFacts ==
  ASSUME IInv, Next, NEW j \in Ops, Has(toNode', Command(j))
  PROVE  (Submission /\ j = admitted') \/ (InNode(Command(j)) /\ op'[j] = op[j])
<1>1. CommandWire(j)
  BY WireStep DEF IInv
<1>2. AdmittedNow(j) \/ (InNode(Command(j)) /\ op'[j] = op[j])
  BY <1>1 DEF CommandWire, InNode
<1>3. AdmittedNow(j) => Submission /\ j = admitted'
  <2>1. admitted \in Nat
    BY TypeParts DEF IInv, CountTypes
  <2> QED BY <2>1, KindsKept DEF AdmittedNow
<1> QED BY <1>2, <1>3

\* Only a command is executed.
LEMMA ExecutedNow ==
  ASSUME IInv, Next, NEW i \in Ops, ExecutedThen(i), ~Executed(i)
  PROVE  /\ ByCommand /\ toNode # <<>> /\ Head(toNode) = Command(i) /\ InNode(Command(i))
         /\ op' = op /\ op[i].kind \in Kinds \ {"none"} /\ op[i].state = "open" /\ journal[i] = "none"
         /\ Executable(i) /\ native' = Begun(i) /\ doing' \in {0, i} /\ doing = 0 /\ connected
         /\ \A j \in Ops : j # i => journal'[j] = journal[j]
         /\ Gone \/ toNode' = Tail(toNode)
<1>1. ByCommand
  BY Steps, JournalKept DEF Executed, ExecutedThen
<1>2. op' = op
  BY <1>1, RowsKept DEF dbVars
<1> QED BY <1>1, <1>2, CommandForms DEF Executed, ExecutedThen

LEMMA ExecutedStays ==
  ASSUME IInv, Next, NEW i \in Ops, Executed(i)
  PROVE  ExecutedThen(i) /\ op[i].kind # "none" /\ op[i].state \in {"open", "confirmed"} /\ op'[i].kind # "none"
<1>1. ExecutedThen(i)
  BY JournalStep DEF IInv, Executed, ExecutedThen
<1>2. CommandOf(i) /\ op[i] \in OpRow
  BY TypeParts DEF IInv, Commands, RowTypes
<1>3. op[i].kind # "none" /\ op[i].state \in {"open", "confirmed"}
  BY <1>2 DEF CommandOf, Executed, OpRow, IInv, Admissions
<1> QED BY <1>1, <1>3, KindsKept

\* A cancelled turn: the present state and the next one.
LeftAlone(t) ==
  /\ Executed(t) /\ ~Has(native.queue, t)
  /\ t = native.turn => ~native.working /\ native.request = 0
  /\ doing # 0 /\ op[doing].kind \in {"create", "send", "queue"} => t # native.turn
  /\ \A j \in Ops : InNode(Command(j)) /\ op[j].kind = "queue" => op[j].turn # t

LeftAloneThen(t) ==
  /\ ExecutedThen(t) /\ ~Has(native'.queue, t)
  /\ t = native'.turn => ~native'.working /\ native'.request = 0
  /\ doing' # 0 /\ op'[doing'].kind \in {"create", "send", "queue"} => t # native'.turn
  /\ \A j \in Ops : Has(toNode', Command(j)) /\ op'[j].kind = "queue" => op'[j].turn # t

LEMMA CancelledWorkStep ==
  ASSUME IInv, IInv', MInv, Next
  PROVE  CancelledWork'
<1>a. /\ Beginning /\ Engaged /\ CancelledWork /\ CancelledRows /\ Admitted /\ TypeOK /\ NodeSession
      /\ native \in NativeSession /\ op \in [Ops -> OpRow] /\ doing \in {0} \union Ops /\ NodeTypes /\ RowTypes
      /\ native.queue \in Seq(Ops) /\ toNode \in Seq(ToTheNode) /\ native.turn \in {0} \union Ops
  BY TypeParts DEF IInv, MInv, NodeTypes, RowTypes, NativeSession, FrameTypes
<1> SUFFICES ASSUME NEW c \in Ops, op'[c].kind = "cancel", ExecutedThen(c)
             PROVE  LeftAloneThen(op'[c].turn)
  BY DEF CancelledWork, LeftAloneThen, Executed, ExecutedThen, InNode
<1>1. CASE Executed(c)
  <2> DEFINE t == op[c].turn
  <2>1. /\ op[c].kind = "cancel" /\ op'[c].turn = t /\ op[c].state \in {"open", "confirmed"}
    BY <1>1, ExecutedStays, KindsKept
  <2>2. t \in Ops /\ LeftAlone(t)
    <3>1. t # 0 /\ t \in {0} \union Ops
      BY <1>a, <2>1 DEF Beginning, OpRow
    <3> QED BY <1>a, <1>1, <2>1, <3>1 DEF CancelledWork, LeftAlone
  <2> HIDE DEF t
  <2> SUFFICES LeftAloneThen(t)
    BY <2>1
  <2>3. ExecutedThen(t)
    BY <2>2, ExecutedStays DEF LeftAlone
  <2>4. \A j \in Ops : Has(toNode', Command(j)) /\ op'[j].kind = "queue" => op'[j].turn # t
    <3> SUFFICES ASSUME NEW j \in Ops, Has(toNode', Command(j)), op'[j].kind = "queue", op'[j].turn = t
                 PROVE  FALSE
      OBVIOUS
    <3>1. Submission /\ j = admitted'
      BY <2>2, WireFacts DEF LeftAlone
    <3>2. session.state \in OnTurn /\ session.turn = t /\ ~Busy
      BY <3>1, Admission
    <3>3. op[c].state = "confirmed"
      BY <2>1, <3>2 DEF Busy
    <3> QED BY <1>a, <2>1, <3>2, <3>3 DEF CancelledRows, OnTurn, Waiting, isActive, t
  <2>5. ASSUME native' = native, doing' = 0 \/ doing' = doing PROVE LeftAloneThen(t)
    <3>1. doing # 0 => op'[doing].kind = op[doing].kind
      BY <1>a, KindsKept DEF NodeSession
    <3> QED BY <2>2, <2>3, <2>4, <2>5, <3>1 DEF LeftAlone, LeftAloneThen
  <2>6. CASE ByCommand
    <3>1. PICK i \in Ops :
            /\ InNode(Command(i)) /\ journal[i] = "none" /\ op[i].kind \in Kinds \ {"none"}
            /\ \/ native' = native /\ doing' = 0
               \/ Executable(i) /\ native' = Begun(i) /\ doing' \in {0, i}
      BY <2>6, CommandForms
    <3>2. i # t /\ op' = op
      BY <2>2, <2>6, <3>1, RowsKept DEF LeftAlone, Executed, dbVars
    <3>3. CASE Executable(i) /\ native' = Begun(i) /\ doing' \in {0, i}
      <4>1. CASE op[i].kind \in {"create", "send"}
        BY <1>a, <2>2, <2>3, <2>4, <3>1, <3>2, <3>3, <4>1, BegunFacts DEF LeftAlone, LeftAloneThen
      <4>2. CASE op[i].kind = "queue"
        <5>1. /\ native'.queue = Append(native.queue, i) /\ native'.turn = native.turn /\ native.turn = op[i].turn
              /\ native'.working = native.working /\ native'.request = native.request
          BY <1>a, <3>1, <3>3, <4>2, BegunFacts
        <5>2. ~Has(native'.queue, t)
          BY <1>a, <2>2, <3>2, <5>1, AppendFacts DEF LeftAlone
        <5>3. op[i].turn # t
          BY <2>2, <3>1, <4>2 DEF LeftAlone
        <5> QED BY <2>2, <2>3, <2>4, <5>1, <5>2, <5>3 DEF LeftAloneThen
      <4>3. CASE op[i].kind \in {"cancel", "respond"}
        <5>1. /\ native'.queue = native.queue /\ native'.turn = native.turn
              /\ native'.working \in {native.working, FALSE} /\ native'.request \in {native.request, 0}
          BY <1>a, <3>1, <3>3, <4>3 DEF Begun, NativeSession
        <5> QED BY <2>2, <2>3, <2>4, <3>2, <3>3, <4>3, <5>1 DEF LeftAlone, LeftAloneThen
      <4> QED BY <3>1, <4>1, <4>2, <4>3 DEF Kinds
    <3> QED BY <2>5, <3>1, <3>3
  <2>7. CASE AgentStep
    <3>1. /\ doing' = 0 /\ (QuietForm \/ AskForm \/ WithdrawForm \/ NextForm) /\ native.state # "none"
      BY <1>a, <2>7, AgentForms
    <3>2. /\ \/ native'.turn = native.turn /\ native'.queue = native.queue
             \/ /\ native.queue # <<>> /\ native'.turn = Head(native.queue)
                /\ native'.queue = Tail(native.queue)
      BY <1>a, <2>7, AgentSteps
    <3>3. ~Has(native'.queue, t) /\ (native'.turn # native.turn => native'.turn # t)
      BY <1>a, <2>2, <3>2, TailFacts DEF LeftAlone
    <3>4. ASSUME t = native'.turn PROVE ~native'.working /\ native'.request = 0
      <4>1. t = native.turn /\ ~native.working /\ native.request = 0
        BY <2>2, <3>3, <3>4 DEF LeftAlone
      <4>2. QuietForm
        BY <3>1, <4>1 DEF AskForm, WithdrawForm, NextForm
      <4>3. CASE doing # 0 /\ native' = Carried(doing)
        <5>1. doing \in Ops /\ op[doing].kind \in {"cancel", "respond"}
          BY <1>a, <2>2, <4>1, <4>3 DEF LeftAlone, NodeSession, OpRow, Kinds
        <5> QED BY <1>a, <4>1, <4>3, <5>1 DEF Carried, NativeSession
      <4>4. CASE native' = [native EXCEPT !.state = "closed", !.request = 0, !.working = FALSE]
        BY <1>a, <4>4 DEF NativeSession
      <4> QED BY <4>1, <4>2, <4>3, <4>4 DEF QuietForm
    <3> QED BY <2>3, <2>4, <3>1, <3>3, <3>4 DEF LeftAloneThen
  <2>8. CASE ~ByCommand /\ ~AgentStep
    BY <2>5, <2>8, Steps, NativeKept
  <2> QED BY <2>6, <2>7, <2>8
<1>2. CASE ~Executed(c)
  <2>1. /\ toNode # <<>> /\ Head(toNode) = Command(c) /\ op' = op /\ op[c].kind = "cancel"
        /\ Executable(c) /\ native' = Begun(c) /\ doing' \in {0, c}
        /\ Gone \/ toNode' = Tail(toNode)
    BY <1>2, ExecutedNow
  <2>2. /\ op[c].turn = native.turn /\ native.state # "none" /\ native'.turn = native.turn
        /\ native'.queue = native.queue /\ ~native'.working /\ native'.request = 0
    <3>1. op[c].turn = native.turn /\ native.state # "none"
      BY <2>1 DEF Executable, OnItsTurn
    <3>2. native' = [native EXCEPT !.request = 0, !.working = FALSE]
      BY <2>1 DEF Begun
    <3> QED BY <1>a, <3>1, <3>2 DEF NativeSession
  <2>3. Executed(native.turn) /\ ~Has(native.queue, native.turn) /\ native.turn \in Ops
    BY <1>a, <2>2 DEF NodeSession, Has
  <2>4. ASSUME NEW j \in Ops, Has(toNode', Command(j)) PROVE FALSE
    <3>1. ~Gone
      BY <2>4 DEF Gone, Has
    <3>2. PICK n \in 1..Len(Tail(toNode)) : Tail(toNode)[n] = Command(j)
      BY <2>1, <2>4, <3>1 DEF Has
    <3>3. n + 1 \in 1..Len(toNode) /\ toNode[n + 1] = Command(j) /\ 1 < n + 1 /\ toNode[1] = Command(c) /\ 1 \in 1..Len(toNode)
      BY <1>a, <2>1, <3>2, TailFacts
    <3> QED BY <1>a, <2>1, <3>3 DEF Admitted
  <2>5. ExecutedThen(native.turn)
    BY <2>3, ExecutedStays
  <2> QED BY <2>1, <2>2, <2>3, <2>4, <2>5 DEF LeftAloneThen
<1> QED BY <1>1, <1>2

\* How an operation becomes confirmed.
LEMMA ConfirmedByReceipt ==
  ASSUME IInv, Next, NEW i \in Ops, op'[i].state = "confirmed", op[i].state # "confirmed"
  PROVE  /\ Answered /\ Confirm(i) /\ Confirmable(i) /\ op[i].state = "open" /\ journal[i] = "confirmed"
         /\ connected /\ toGw # <<>> /\ Head(toGw) = Receipt(i, "confirmed") /\ toGw' = Tail(toGw)
<1>a. RowTypes /\ TypeOK /\ Admissions /\ Commands
  BY TypeParts DEF IInv
<1>1. ~Submission
  <2>1. CASE Submission
    BY <2>1, Admission
  <2> QED BY <2>1
<1>2. op' # op
  OBVIOUS
<1>3. Answered
  BY <1>a, <1>1, <1>2, RequestsUnoccupied
<1>4. ASSUME NEW j \in Ops, Fail(j) PROVE FALSE
  BY <1>a, <1>4, Failing DEF RowTypes, OpRow
<1>5. ASSUME NEW j \in Ops, Confirm(j) PROVE j = i
  BY <1>a, <1>5, Confirming
<1> QED BY <1>2, <1>3, <1>4, <1>5, Answer DEF dbVars

LEMMA CancelledRowsStep ==
  ASSUME IInv, IInv', MInv, Next
  PROVE  CancelledRows'
<1>a. Beginning /\ Points /\ CancelledRows /\ RowTypes /\ Admissions /\ admitted \in Nat /\ op \in [Ops -> OpRow]
  BY TypeParts DEF IInv, MInv, RowTypes, CountTypes
<1>1. ASSUME NEW c \in Ops, op'[c].kind = "cancel", op'[c].state = "confirmed", op'[c].turn = session'.turn
      PROVE  ~isActive(session'.state) \/ session'.state = "cancelling"
  <2>0. op[c].kind = "cancel" /\ op[c].turn = op'[c].turn
    <3>1. op[c].kind # "none"
      <4>1. CASE op[c].kind = "none"
        <5>1. Submission /\ c = admitted'
          BY <1>1, <4>1, KindsKept, Admission
        <5> QED BY <1>1, <5>1, Admission
      <4> QED BY <4>1
    <3> QED BY <1>1, <3>1, KindsKept
  <2>1. CASE UNCHANGED <<session, turns>>
    <3>1. CASE op[c].state = "confirmed"
      BY <1>a, <1>1, <2>0, <2>1, <3>1 DEF CancelledRows
    <3>2. CASE op[c].state # "confirmed"
      <4>1. Confirm(c) /\ op[c].turn = session.turn
        BY <1>1, <2>0, <2>1, <3>2, ConfirmedByReceipt
      <4>2. CASE Cancels(c)
        <5>1. session' = [session EXCEPT !.state = "cancelling"]
          BY <4>1, <4>2 DEF Confirm
        <5> QED BY <1>a, <2>1, <5>1 DEF RowTypes, SessionRow
      <4> QED BY <2>0, <2>1, <4>1, <4>2 DEF Cancels
    <3> QED BY <3>1, <3>2
  <2>2. CASE Starts
    <3>1. admitted = 0
      BY <2>2, Admission DEF Starts
    <3> QED BY <1>a, <2>0, <3>1, Zero DEF Admissions, Ops
  <2>3. CASE Breaks
    BY <1>a, <2>3 DEF Breaks, RowTypes, SessionRow, isActive, Waiting
  <2>4. CASE \E d \in Ops : Marks(d)
    BY <1>a, <2>4 DEF Marks, RowTypes, SessionRow
  <2>5. CASE Takes
    <3>1. /\ session' = [state |-> spool[1].state, turn |-> spool[1].turn] /\ op' = op /\ Ahead(spool[1])
          /\ \/ spool[1].turn # session.turn /\ MayStart(spool[1].turn)
             \/ spool[1].turn = session.turn /\ validTransition(session.state, spool[1].state)
          /\ session.state # "none"
      BY <1>a, <2>5, TakesFacts DEF Beginning
    <3>2. turns[op[c].turn] # "none"
      BY <1>a, <2>0 DEF Beginning
    <3>3. spool[1].turn = session.turn /\ validTransition(session.state, spool[1].state)
      BY <1>1, <2>0, <3>1, <3>2 DEF MayStart
    <3>4. ~isActive(session.state) \/ session.state = "cancelling"
      BY <1>a, <1>1, <2>0, <3>1, <3>3 DEF CancelledRows
    <3>5. session.state \in SessionStates
      BY <1>a, <3>1 DEF RowTypes, SessionRow
    <3> QED BY <3>1, <3>3, <3>4, <3>5 DEF validTransition, isActive, SessionStates, Waiting, Ended
  <2> QED BY <1>a, <2>1, <2>2, <2>3, <2>4, <2>5, SessionChange
<1>2. ASSUME session'.state = "cancelling"
      PROVE  \E c \in Ops : op'[c].kind = "cancel" /\ ExecutedThen(c) /\ op'[c].turn = session'.turn
  <2>1. CASE UNCHANGED <<session, turns>>
    <3>1. PICK c \in Ops : op[c].kind = "cancel" /\ Executed(c) /\ op[c].turn = session.turn
      BY <1>a, <1>2, <2>1 DEF CancelledRows
    <3> QED BY <2>1, <3>1, ExecutedStays, KindsKept
  <2>2. CASE Starts \/ Breaks
    BY <1>a, <1>2, <2>2 DEF Starts, Breaks, RowTypes, SessionRow
  <2>3. ASSUME NEW c \in Ops, Marks(c)
        PROVE  op'[c].kind = "cancel" /\ ExecutedThen(c) /\ op'[c].turn = session'.turn
    <3>1. Executed(c) /\ op[c].kind = "cancel" /\ op[c].turn = session.turn /\ session'.turn = session.turn
      BY <1>a, <2>3 DEF Marks, Executed, RowTypes, SessionRow
    <3> QED BY <3>1, ExecutedStays, KindsKept
  <2>4. CASE Takes
    BY <1>a, <1>2, <2>4, TakesFacts DEF Ahead, OnTurn, Waiting
  <2> QED BY <1>a, <2>1, <2>2, <2>3, <2>4, SessionChange
<1> QED BY <1>1, <1>2 DEF CancelledRows, Executed, ExecutedThen

\* Nothing but queued messages has a command behind it on the wire s.
NothingBehind(s) ==
  \A m, n \in 1..Len(s) : \A i, j \in Ops :
    m < n /\ s[m] = Command(i) /\ s[n] = Command(j) => op[i].kind = "queue"

LEMMA AdmittedStep ==
  ASSUME IInv, IInv', MInv, Next
  PROVE  Admitted'
<1>a. /\ Admitted /\ Engaged /\ toNode \in Seq(ToTheNode) /\ FrameTypes /\ NothingBehind(toNode) /\ Len(toNode) \in Nat
  <2>1. FrameTypes /\ Admitted /\ Engaged
    BY TypeParts DEF IInv, MInv
  <2> QED BY <2>1 DEF FrameTypes, Admitted, NothingBehind
<1>b. /\ Error \in ToTheNode
      /\ \A i \in Ops : Command(i) \in ToTheNode /\ Command(i) # Error /\ \A j \in Ops : Command(i) # Query(j) /\ (Command(i) = Command(j) => i = j)
  <2>1. ASSUME NEW i \in Ops, NEW j \in Ops
        PROVE  Command(i) \in ToTheNode /\ Command(i) # Error /\ Command(i) # Query(j) /\ (Command(i) = Command(j) => i = j)
    BY FramesDiffer
  <2> QED BY <2>1 DEF ToTheNode
<1>1. ASSUME toNode' \in {toNode, <<>>} \/ toNode' = Append(toNode, Error)
      PROVE  NothingBehind(toNode')
  <2>1. CASE toNode' = <<>>
    BY <2>1 DEF NothingBehind
  <2>2. CASE toNode' = Append(toNode, Error)
    <3>1. /\ Len(toNode') = Len(toNode) + 1 /\ toNode'[Len(toNode) + 1] = Error
          /\ \A n \in 1..Len(toNode) : toNode'[n] = toNode[n]
          /\ \A n \in 1..Len(toNode') : n \in 1..Len(toNode) \/ n = Len(toNode) + 1
      BY <1>a, <1>b, <2>2, AppendFacts
    <3> QED BY <1>a, <1>b, <3>1 DEF NothingBehind
  <2> QED BY <1>1, <1>a, <2>1, <2>2
<1>2. ASSUME toNode # <<>>, toNode' = Tail(toNode)
      PROVE  NothingBehind(toNode')
  <2>1. \A n \in 1..Len(toNode') : n + 1 \in 1..Len(toNode) /\ toNode'[n] = toNode[n + 1] /\ n \in Nat
    BY <1>a, <1>2, TailFacts
  <2> SUFFICES ASSUME NEW m \in 1..Len(toNode'), NEW n \in 1..Len(toNode'), NEW i \in Ops, NEW j \in Ops,
                      m < n, toNode'[m] = Command(i), toNode'[n] = Command(j)
               PROVE  op[i].kind = "queue"
    BY DEF NothingBehind
  <2>2. m + 1 < n + 1
    BY <2>1
  <2> QED BY <1>a, <2>1, <2>2 DEF NothingBehind
<1>3. ASSUME Submission PROVE NothingBehind(toNode')
  <2>1. /\ toNode' = Append(toNode, Command(admitted')) /\ admitted' \in Ops /\ ~Busy
    BY <1>3, Admission
  <2>2. /\ Len(toNode') = Len(toNode) + 1 /\ toNode'[Len(toNode) + 1] = Command(admitted')
        /\ \A n \in 1..Len(toNode) : toNode'[n] = toNode[n]
        /\ \A n \in 1..Len(toNode') : n \in 1..Len(toNode) \/ n = Len(toNode) + 1
    BY <1>a, <1>b, <2>1, AppendFacts
  <2> SUFFICES ASSUME NEW m \in 1..Len(toNode'), NEW n \in 1..Len(toNode'), NEW i \in Ops, NEW j \in Ops,
                      m < n, toNode'[m] = Command(i), toNode'[n] = Command(j)
               PROVE  op[i].kind = "queue"
    BY DEF NothingBehind
  <2>3. m \in 1..Len(toNode)
    BY <1>a, <2>2
  <2>4. CommandOf(i) /\ InNode(Command(i))
    BY <2>2, <2>3 DEF IInv, Commands, InNode, Has
  <2> QED BY <2>1, <2>4 DEF CommandOf, Busy
<1>4. ASSUME Unsent PROVE NothingBehind(toNode')
  <2>1. PICK k \in 1..Len(toNode) : toNode' = RemoveAt(toNode, k)
    BY <1>4, <1>a, CommandDropped
  <2>2. /\ Len(toNode') = Len(toNode) - 1
        /\ \A m \in 1..Len(toNode') : toNode'[m] = IF m < k THEN toNode[m] ELSE toNode[m + 1]
    BY <1>a, <2>1, RemoveFacts
  <2>3. \A m \in 1..Len(toNode') : m \in 1..Len(toNode) /\ m + 1 \in 1..Len(toNode)
    BY <1>a, <2>2
  <2> SUFFICES ASSUME NEW m \in 1..Len(toNode'), NEW n \in 1..Len(toNode'), NEW i \in Ops, NEW j \in Ops,
                      m < n, toNode'[m] = Command(i), toNode'[n] = Command(j)
               PROVE  op[i].kind = "queue"
    BY DEF NothingBehind
  <2> DEFINE x == IF m < k THEN m ELSE m + 1
             y == IF n < k THEN n ELSE n + 1
  <2>4. x \in 1..Len(toNode) /\ y \in 1..Len(toNode) /\ x < y
    BY <2>3
  <2>5. toNode[x] = Command(i) /\ toNode[y] = Command(j)
    BY <2>2
  <2> QED BY <1>a, <2>4, <2>5 DEF NothingBehind
<1>5. ASSUME Connect PROVE NothingBehind(toNode') /\ \A i \in Ops : ~Has(toNode', Command(i))
  BY <1>5, <1>b, Queries DEF NothingBehind, Has, Open
<1>6. NothingBehind(toNode')
  <2>1. TakeReceipt \/ RequestEnds \/ Ingest => toNode' \in {toNode, <<>>} \/ toNode' = Append(toNode, Error)
    BY DEF TakeReceipt, RequestEnds, Expire, Ingest
  <2>2. ByCommand => toNode' = <<>> \/ (toNode # <<>> /\ toNode' = Tail(toNode))
    BY CommandForms DEF Gone
  <2>3. AgentStep => toNode' \in {toNode, <<>>}
    BY AgentSteps DEF IInv
  <2>4. Silent => \/ toNode' \in {toNode, <<>>} \/ toNode' = Append(toNode, Error)
                  \/ toNode # <<>> /\ toNode' = Tail(toNode)
                  \/ Connect
    BY DEF Silent, Disconnect, Refuse, AnswerQuery, ReadError, Replays, TakeReplay, TakeAck, Pass, Gone, NodeReads
  <2> QED BY <1>1, <1>2, <1>3, <1>4, <1>5, <2>1, <2>2, <2>3, <2>4, Steps DEF Answered
<1>7. \A m, n \in 1..Len(toNode') : \A i, j \in Ops :
        m < n /\ toNode'[m] = Command(i) /\ toNode'[n] = Command(j) => op'[i].kind = "queue"
  <2>1. \A i \in Ops : op[i].kind = "queue" => op'[i].kind = "queue"
    BY KindsKept
  <2> QED BY <1>6, <2>1 DEF NothingBehind
<1>8. ASSUME connected', ~ready' PROVE doing' = 0 /\ \A i \in Ops : ~Has(toNode', Command(i))
  <2>1. CASE Connect
    BY <1>5, <1>a, <2>1 DEF Connect, Engaged
  <2>2. CASE ~Connect
    <3>0. ~Submission
      BY <1>8, SubmissionKeeps DEF peerVars
    <3>1. AgentStep => connected /\ ~ready /\ doing' = 0
      BY <1>8, <1>a, AgentForms DEF Sends, Sent, MInv
    <3>2. Silent => connected /\ ~ready /\ doing' \in {doing, 0}
      BY <1>8, <2>2, SilentForms DEF Gone
    <3>3. ByCommand => connected /\ ~ready /\ \E i \in Ops : InNode(Command(i))
      BY <1>8, CommandForms DEF Gone, peerVars
    <3>4. Answered \/ RequestEnds \/ Ingest => connected /\ ~ready /\ doing' = doing
      <4>1. CASE Answered
        <5>1. UNCHANGED <<nodeVars, envVars, connected, blocked>> /\ ready' = (ready \/ op'[1].state = "failed")
          BY <4>1, Answer
        <5>2. connected' = connected /\ doing' = doing /\ (ready => ready')
          BY <5>1 DEF nodeVars
        <5> QED BY <1>8, <5>2
      <4>2. CASE RequestEnds
        BY <1>8, <4>2 DEF RequestEnds, Expire, nodeVars, peerVars
      <4>3. CASE Ingest
        BY <1>8, <4>3, Taken
      <4> QED BY <4>1, <4>2, <4>3
    <3>5. connected /\ ~ready /\ ~ByCommand /\ doing' \in {doing, 0}
      BY <1>a, <3>0, <3>1, <3>2, <3>3, <3>4, Steps DEF Admitted
    <3> QED BY <1>a, <3>0, <3>5, WireFacts DEF Admitted
  <2> QED BY <2>1, <2>2
<1> QED BY <1>7, <1>8 DEF Admitted, InNode

-----------------------------------------------------------------------------
(* The events that are not committed. *)

\* A sequence that has grown.
LEMMA Grown ==
  ASSUME NEW S, NEW q \in Seq(S), NEW es \in Seq(S)
  PROVE  /\ q \o es \in Seq(S) /\ Len(q \o es) = Len(q) + Len(es) /\ Len(q) \in Nat /\ Len(es) \in Nat
         /\ \A k \in 1..Len(q) : (q \o es)[k] = q[k] /\ k \in 1..Len(q \o es)
         /\ \A k \in 1..Len(es) : (q \o es)[Len(q) + k] = es[k] /\ Len(q) + k \in 1..Len(q \o es)
         /\ \A k \in 1..Len(q \o es) : k \in 1..Len(q) \/ (k - Len(q) \in 1..Len(es) /\ (q \o es)[k] = es[k - Len(q)])
  OBVIOUS

\* The snapshots of a step of the agent: the session it leads to, and before it
\* the completed one when the next turn starts.
LEMMA NewsFacts ==
  ASSUME IInv, Engaged, AgentStep, NEW es, Sends(es)
  PROVE  /\ es \in Seq(Event) /\ Len(es) \in {1, 2} /\ Own' \in Event /\ Own'.type = "session"
         /\ \A n \in 1..Len(es) : es[n].type = "session" =>
              \/ es[n] = Own' /\ (NextForm => n = 2)
              \/ es[n] = Snapshot(Completed) /\ n = 1 /\ NextForm
         /\ NextForm => Len(es) = 2 /\ es[1] = Snapshot(Completed)
<1>1. /\ es \in News /\ es \in Seq(Event) /\ spool' = spool \o es
      /\ es[1] = Snapshot(Completed) => NextForm \/ native' = Completed
      /\ Snapshot(native') \in Event /\ Snapshot(Completed) \in Event /\ spool \in Seq(Event)
  BY AgentForms, TrailFacts DEF Sends, Sent
<1>2. Own' = Snapshot(native') /\ Own'.type = "session"
  BY DEF Own, Snapshot
<1>3. Len(es) \in {1, 2} /\ \A n \in 1..Len(es) : n = 1 \/ n = 2
  <2>1. \A a, b : Len(<<a>>) = 1 /\ Len(<<a, b>>) = 2
    OBVIOUS
  <2>2. Len(es) \in {1, 2}
    BY <1>1, <2>1, Zenon DEF News
  <2>3. ASSUME NEW m \in {1, 2}, NEW n \in 1..m PROVE n = 1 \/ n = 2
    OBVIOUS
  <2> QED BY <2>2, <2>3
<1>4. ASSUME NextForm PROVE Len(es) = 2 /\ es[1] = Snapshot(Completed)
  <2>1. spool' = spool \o <<Snapshot(Completed), Snapshot(native')>>
    BY <1>1, <1>4, Glued DEF NextForm
  <2>2. \A a, b : /\ Len(<<a, b>>) = 2 /\ <<a, b>>[1] = a /\ 1 \in 1..Len(<<a, b>>)
    OBVIOUS
  <2>3. <<Snapshot(Completed), Snapshot(native')>> \in Seq(Event)
    BY <1>1, Listed
  <2> DEFINE fs == <<Snapshot(Completed), Snapshot(native')>>
  <2>4. Len(fs) = 2 /\ fs[1] = Snapshot(Completed) /\ 1 \in 1..Len(fs) /\ fs \in Seq(Event) /\ spool' = spool \o fs
    BY <2>1, <2>2, <2>3
  <2> HIDE DEF fs
  <2>g. ASSUME NEW gs \in Seq(Event), spool' = spool \o gs
        PROVE  /\ Len(spool') = Len(spool) + Len(gs) /\ Len(spool) \in Nat /\ Len(gs) \in Nat
               /\ \A k \in 1..Len(gs) : spool'[Len(spool) + k] = gs[k]
    <3>1. /\ Len(spool \o gs) = Len(spool) + Len(gs) /\ Len(spool) \in Nat /\ Len(gs) \in Nat
          /\ \A k \in 1..Len(gs) : (spool \o gs)[Len(spool) + k] = gs[k]
      BY <1>1, Grown
    <3> QED BY <2>g, <3>1, Zenon
  <2>5. /\ Len(spool') = Len(spool) + Len(es) /\ Len(spool) \in Nat /\ Len(es) \in Nat
        /\ \A k \in 1..Len(es) : spool'[Len(spool) + k] = es[k]
    BY <1>1, <2>g
  <2>6. /\ Len(spool') = Len(spool) + Len(fs)
        /\ \A k \in 1..Len(fs) : spool'[Len(spool) + k] = fs[k]
    BY <2>4, <2>g
  <2>7. Len(es) = 2 /\ 1 \in 1..Len(es)
    BY <2>4, <2>5, <2>6
  <2> QED BY <2>4, <2>5, <2>6, <2>7
<1>5. ASSUME NEW n \in 1..Len(es), es[n].type = "session"
      PROVE  \/ es[n] = Own' /\ (NextForm => n = 2)
             \/ es[n] = Snapshot(Completed) /\ n = 1 /\ NextForm
  <2>1. es[2] = Own' \/ Len(es) = 1
    BY <1>1, <1>2 DEF News
  <2>2. es[1] = Own' \/ es[1] = Snapshot(Completed) \/ es[1].type # "session"
    BY <1>1, <1>2 DEF News, Asking, Withdrawal
  <2>3. native' = Completed => Snapshot(Completed) = Own'
    BY <1>2
  <2>4. NextForm => es[1] = Snapshot(Completed)
    BY <1>4
  <2>5. Len(es) = 1 => n = 1
    BY <1>5
  <2> QED BY <1>1, <1>3, <1>4, <1>5, <2>1, <2>2, <2>3, <2>4, <2>5
<1> QED BY <1>1, <1>2, <1>3, <1>4, <1>5

\* How the spool changes.
LEMMA SpoolForms ==
  ASSUME IInv, MInv, Next
  PROVE  \/ AgentStep
         \/ Ingest
         \/ Connect /\ native.state # "none" /\ spool' = Append(spool, Own) /\ native' = native
         \/ spool' = spool /\ ~Ingest /\ ~AgentStep
<1>1. CASE Submission
  BY <1>1, SubmissionKeeps DEF nodeVars
<1>2. CASE Answered
  <2>1. UNCHANGED nodeVars
    BY <1>2, Answer
  <2> QED BY <2>1 DEF nodeVars
<1>3. CASE RequestEnds
  BY <1>3 DEF RequestEnds, Expire, nodeVars
<1>4. CASE ByCommand
  BY <1>4, CommandForms
<1>5. CASE Silent
  <2>1. native' = native
    BY <1>5, SilentForms
  <2>2. CASE Connect
    BY <2>1, <2>2 DEF Connect, Own
  <2>3. CASE ~Connect
    BY <1>5, <2>3, SilentForms
  <2> QED BY <2>2, <2>3
<1> QED BY <1>1, <1>2, <1>3, <1>4, <1>5, Steps

\* How the session's row changes once the Node has the session.
LEMMA SessionKept ==
  ASSUME IInv, MInv, Next, native.state # "none"
  PROVE  /\ session.state # "none" /\ session.turn \in Ops /\ turns[session.turn] # "none"
         /\ \/ UNCHANGED <<session, turns>>
            \/ /\ session'.turn = session.turn /\ session'.state = "cancelling" /\ session.state # "cancelling"
               /\ \A i \in Ops : i # session.turn => turns'[i] = turns[i]
               /\ isActive(session.state)
               /\ \E c \in Ops : Marks(c)
            \/ Takes
         /\ Ingest /\ ~Takes => UNCHANGED <<session, turns>>
<1>1. Beginning /\ session.state # "none" /\ session \in SessionRow /\ turns \in [Ops -> TurnStates] /\ RowTypes
  BY TypeParts DEF IInv, MInv, Beginning, RowTypes
<1>2. ASSUME NEW c \in Ops, Marks(c)
      PROVE  /\ session'.turn = session.turn /\ session'.state = "cancelling" /\ session.state # "cancelling"
             /\ \A i \in Ops : i # session.turn => turns'[i] = turns[i]
             /\ isActive(session.state)
  BY <1>1, <1>2 DEF Marks, SessionRow
<1>3. ~Starts /\ ~Breaks
  BY DEF Starts, Breaks
<1>4. Ingest /\ ~Takes => UNCHANGED <<session, turns>>
  BY Taken DEF Takes, requestCreate, requestCancel
<1> QED BY <1>1, <1>2, <1>3, <1>4, RowsBegun, SessionChange

RecordedThen(i) == Has(queue', i) \/ i \in consumed'

\* A message that is in the queue or consumed is not lost.
LEMMA RecordedStays ==
  ASSUME IInv, Next, NEW i \in Ops, Recorded(i)
  PROVE  RecordedThen(i)
<1>a. queue \in Seq(Ops) /\ RowTypes /\ Admissions
  BY TypeParts DEF IInv, RowTypes
<1>1. CASE UNCHANGED <<queue, consumed>>
  BY <1>1 DEF Recorded, RecordedThen
<1>2. CASE Submission
  BY <1>1, <1>2, SubmissionKeeps
<1>3. CASE ByCommand \/ AgentStep \/ Silent
  BY <1>1, <1>3, RowsKept DEF dbVars
<1>4. CASE RequestEnds
  BY <1>1, <1>4 DEF RequestEnds, Expire
<1>5. CASE Answered
  <2>1. ASSUME NEW j \in Ops, Confirm(j) PROVE RecordedThen(i)
    <3>1. consumed' = consumed /\ queue' \in {queue, Append(queue, j)}
      BY <1>a, <2>1, Confirming
    <3>2. \A y : Has(Append(queue, j), y) <=> Has(queue, y) \/ y = j
      BY <1>a, AppendFacts
    <3>3. Has(queue, i) => Has(queue', i)
      BY <3>1, <3>2
    <3> QED BY <3>1, <3>3 DEF Recorded, RecordedThen
  <2>2. ASSUME NEW j \in Ops, Fail(j) PROVE RecordedThen(i)
    BY <1>1, <2>2 DEF Fail
  <2> QED BY <1>1, <1>5, <2>1, <2>2, Answer DEF dbVars
<1>6. CASE Ingest
  <2>1. CASE Takes
    <3> DEFINE e == spool[1]
    <3>1. e \in Event /\ e.type = "session" /\ AcceptsSession(e) /\ sessionUpdate(e) /\ e.queue \in Seq(Ops)
      BY <2>1, Taken, Events DEF Takes
    <3>2. queue' = e.queue /\ consumed' = ConsumedBy(e.turn)
      BY <1>a, <3>1, SessionUpdates
    <3>3. IsPrefix(QueueWithout(e.turn), e.queue)
      BY <3>1 DEF AcceptsSession, Mirrorable
    <3>4. CASE i \in consumed \/ (Has(queue, i) /\ i = e.turn)
      BY <1>a, <3>2, <3>4, RangeHas DEF ConsumedBy, RecordedThen
    <3>5. CASE Has(queue, i) /\ i # e.turn
      <4>1. queue # <<>>
        BY <3>5 DEF Has
      <4>2. QueueWithout(e.turn) \in Seq(Ops) /\ Has(QueueWithout(e.turn), i)
        BY <1>a, <3>5, <4>1, TailFacts DEF QueueWithout
      <4>3. Has(e.queue, i)
        BY <3>1, <3>3, <4>2, PrefixHas
      <4> QED BY <3>2, <4>3 DEF RecordedThen
    <3> QED BY <3>4, <3>5 DEF Recorded
  <2>2. CASE ~Takes
    BY <1>1, <1>6, <2>2, Taken DEF Takes, requestCreate, requestCancel
  <2> QED BY <2>1, <2>2
<1> QED BY <1>2, <1>3, <1>4, <1>5, <1>6, Steps

\* Where the events of the spool come from.
LEMMA Places ==
  ASSUME IInv, MInv, Next, NEW k \in 1..Len(spool')
  PROVE  \/ ~Ingest /\ k \in 1..Len(spool) /\ spool'[k] = spool[k]
         \/ Ingest /\ k + 1 \in 1..Len(spool) /\ spool'[k] = spool[k + 1]
         \/ Connect /\ native.state # "none" /\ k = Len(spool) + 1 /\ spool'[k] = Own /\ Own' = Own
         \/ AgentStep /\ \E es : /\ Sends(es) /\ k > Len(spool) /\ k - Len(spool) \in 1..Len(es)
                                 /\ spool'[k] = es[k - Len(spool)]
<1>a. spool \in Seq(Event) /\ Engaged /\ Len(spool) \in Nat
  BY TrailFacts DEF MInv
<1>1. CASE AgentStep
  <2>1. PICK es : Sends(es)
    BY <1>1, <1>a, AgentForms
  <2>2. es \in Seq(Event) /\ spool' = spool \o es
    BY <2>1 DEF Sends, Sent
  <2>3. /\ \A n \in 1..Len(spool) : (spool \o es)[n] = spool[n]
        /\ \A n \in 1..Len(spool \o es) : n \in 1..Len(spool) \/ (n - Len(spool) \in 1..Len(es) /\ (spool \o es)[n] = es[n - Len(spool)])
    BY <1>a, <2>2, Grown
  <2>4. k \in 1..Len(spool) \/ (k - Len(spool) \in 1..Len(es) /\ spool'[k] = es[k - Len(spool)])
    BY <2>2, <2>3, Zenon
  <2>5. k \in 1..Len(spool) => spool'[k] = spool[k]
    BY <2>2, <2>3, Zenon
  <2>6. k \notin 1..Len(spool) => k > Len(spool)
    BY <1>a
  <2>7. ~Ingest
    <3> SUFFICES ASSUME Ingest PROVE FALSE
      OBVIOUS
    <3>1. spool # <<>> /\ spool' = Tail(spool)
      BY Taken
    <3>2. Len(spool \o es) = Len(spool) + Len(es) /\ Len(es) \in Nat
      BY <1>a, <2>2, Grown
    <3>3. Len(Tail(spool)) = Len(spool) - 1
      BY <1>a, <3>1, TailFacts
    <3>4. Len(spool \o es) = Len(Tail(spool))
      BY <2>2, <3>1, Zenon
    <3>5. ASSUME NEW a \in Nat, NEW b \in Nat PROVE a + b # a - 1
      OBVIOUS
    <3>6. Len(spool) + Len(es) = Len(spool) - 1
      BY <3>2, <3>3, <3>4, Zenon
    <3> QED BY <1>a, <3>2, <3>5, <3>6
  <2> QED BY <1>1, <2>1, <2>4, <2>5, <2>6, <2>7
<1>2. CASE Ingest
  <2>1. spool # <<>> /\ spool' = Tail(spool)
    BY <1>2, Taken
  <2> QED BY <1>2, <1>a, <2>1, TailFacts
<1>3. CASE Connect /\ native.state # "none" /\ spool' = Append(spool, Own) /\ native' = native
  <2>1. Own \in Event /\ Own' = Own
    BY <1>3, TrailFacts DEF Own
  <2>2. /\ \A n \in 1..Len(spool) : spool'[n] = spool[n]
        /\ spool'[Len(spool) + 1] = Own
        /\ \A n \in 1..Len(spool') : n \in 1..Len(spool) \/ n = Len(spool) + 1
    BY <1>3, <1>a, <2>1, AppendFacts
  <2>3. ~Ingest
    BY <1>3 DEF Connect, Ingest, ReadsEvent, Reads
  <2> QED BY <1>3, <2>1, <2>2, <2>3
<1> QED BY <1>1, <1>2, <1>3, SpoolForms

\* What a snapshot says of turns that the rows do not know after the step.
AheadThen(e) ==
  /\ e.turn = session'.turn \/ (turns'[e.turn] = "none" /\ op'[e.turn].kind \in {"send", "queue"})
  /\ \A n \in 1..Len(e.queue) : turns'[e.queue[n]] = "none" /\ op'[e.queue[n]].kind = "queue"
  /\ \A m, n \in 1..Len(e.queue) : e.queue[m] = e.queue[n] => m = n
  /\ ExecutedThen(e.turn)
  /\ e.state \in OnTurn \union {"completed", "cancelled", "closed"}

\* A snapshot behind the head stays ahead of the rows.
LEMMA AheadStays ==
  ASSUME IInv, IInv', MInv, Next, native.state # "none",
         NEW k \in 1..Len(Trail), Trail[k].type = "session", Takes => k > 1
  PROVE  AheadThen(Trail[k])
<1> DEFINE e == Trail[k]
<1>a. /\ Ahead(e) /\ e \in Event /\ Trail \in Seq(Event) /\ e.turn \in Ops /\ e.queue \in Seq(Ops)
      /\ Path(op, session.turn, Trail) /\ TypeOK
  BY TrailFacts, Events DEF MInv, Points, Paths, IInv
<1>b. \A n \in 1..Len(e.queue) : e.queue[n] \in Ops
  BY <1>a
<1>c. \A i \in Ops : op[i].kind # "none" => op'[i].kind = op[i].kind
  BY KindsKept
<1>d. /\ session.state # "none" /\ session.turn \in Ops /\ turns[session.turn] # "none"
      /\ \/ UNCHANGED <<session, turns>>
         \/ session'.turn = session.turn /\ \A i \in Ops : i # session.turn => turns'[i] = turns[i]
         \/ Takes
  BY SessionKept
<1> HIDE DEF e
<1>1. ASSUME NEW i \in Ops, turns[i] = "none", Takes => i # spool[1].turn
      PROVE  turns'[i] = "none"
  BY <1>d, <1>1, TakesFacts DEF MInv
<1>2. Takes => /\ spool[1].type = "session" /\ Trail[1] = spool[1] /\ 1 \in 1..Len(Trail) /\ 1 < k
               /\ session'.turn = spool[1].turn
  BY TakesFacts, TrailFacts DEF Takes, MInv
<1>3. e.turn = session'.turn \/ (turns'[e.turn] = "none" /\ op'[e.turn].kind \in {"send", "queue"})
  <2>1. CASE Takes
    <3>1. e.turn = session.turn => spool[1].turn = session.turn
      BY <1>2, <1>a, <2>1 DEF Path, NoReturn, e
    <3> QED BY <1>1, <1>2, <1>a, <1>c, <2>1, <3>1 DEF Ahead
  <2>2. CASE ~Takes
    BY <1>1, <1>a, <1>c, <1>d, <2>2 DEF Ahead
  <2> QED BY <2>1, <2>2
<1>4. ASSUME NEW n \in 1..Len(e.queue)
      PROVE  turns'[e.queue[n]] = "none" /\ op'[e.queue[n]].kind = "queue"
  <2>1. turns[e.queue[n]] = "none" /\ op[e.queue[n]].kind = "queue" /\ e.queue[n] \in Ops
    BY <1>a, <1>b, <1>4 DEF Ahead
  <2>2. Takes => e.queue[n] # spool[1].turn
    <3> SUFFICES ASSUME Takes PROVE ~Has(e.queue, spool[1].turn)
      BY <1>4 DEF Has
    <3>1. NoRequeue(Trail) /\ 1 <= k
      BY <1>2, <1>a DEF Path
    <3> QED BY <1>2, <3>1 DEF NoRequeue, e
  <2> QED BY <1>1, <1>c, <2>1, <2>2
<1>5. ExecutedThen(e.turn)
  BY <1>a, ExecutedStays DEF Ahead
<1> QED BY <1>3, <1>4, <1>5, <1>a DEF Ahead, AheadThen, e

\* The trail after the step.
LEMMA TrailThen ==
  ASSUME IInv'
  PROVE  /\ spool' \in Seq(Event) /\ Len(spool') \in Nat
         /\ Own'.type = "session" /\ Own'.state = native'.state /\ Own'.turn = native'.turn /\ Own'.queue = native'.queue
         /\ native'.state # "none" =>
              /\ Own' \in Event /\ Trail' = Append(spool', Own') /\ Trail' \in Seq(Event)
              /\ Len(Trail') = Len(spool') + 1 /\ Trail'[Len(spool') + 1] = Own'
              /\ \A k \in 1..Len(spool') : Trail'[k] = spool'[k] /\ k \in 1..Len(Trail')
              /\ \A k \in 1..Len(Trail') : k \in 1..Len(spool') \/ k = Len(spool') + 1
<1>1. spool' \in Seq(Event) /\ native' \in NativeSession /\ (native'.state # "none" => native'.turn # 0)
  BY DEF IInv, TypeOK, NativeSession, NodeSession
<1>2. Own'.type = "session" /\ Own'.state = native'.state /\ Own'.turn = native'.turn /\ Own'.queue = native'.queue
  BY DEF Own, Snapshot
<1>3. native'.state # "none" => Own' \in Event
  BY <1>1, SnapshotFacts DEF Own
<1>4. Trail' = Append(spool', Own')
  BY DEF Trail
<1> HIDE DEF Trail, Own
<1>5. ASSUME native'.state # "none"
      PROVE  /\ Append(spool', Own') \in Seq(Event)
             /\ Len(Append(spool', Own')) = Len(spool') + 1 /\ Append(spool', Own')[Len(spool') + 1] = Own'
             /\ \A k \in 1..Len(spool') : Append(spool', Own')[k] = spool'[k]
             /\ \A k \in 1..Len(Append(spool', Own')) : k \in 1..Len(spool') \/ k = Len(spool') + 1
  BY <1>1, <1>3, <1>5, AppendFacts
<1> QED BY <1>1, <1>2, <1>3, <1>4, <1>5

\* What a command makes of the session, and the trail behind it.
LEMMA BegunAhead ==
  ASSUME IInv, IInv', MInv, Next, NEW i \in Ops, Executable(i), native' = Begun(i), ExecutedThen(i),
         op[i].kind \in Kinds \ {"none"}, journal[i] = "none", op[i].state = "open", ByCommand
  PROVE  AheadThen(Own')
<1>a. /\ Beginning /\ Points /\ Engaged /\ Admissions /\ NodeTypes /\ NodeSession /\ native \in NativeSession
      /\ native.queue \in Seq(Ops) /\ UNCHANGED <<session, turns, op>> /\ i \in Ops
  BY TypeParts, RowsKept DEF IInv, MInv, NodeTypes, NativeSession, dbVars
<1>b. Own' = Snapshot(Begun(i)) /\ Own'.turn = Begun(i).turn /\ Own'.queue = Begun(i).queue /\ Own'.state = Begun(i).state
  BY DEF Own, Snapshot
<1>c. native.state # "none" => Ahead(Own) /\ Own.turn = native.turn /\ Own.queue = native.queue /\ Own.state = native.state
  BY <1>a, PointFacts, TrailFacts
<1>d. \A j \in Ops : Executed(j) => ExecutedThen(j)
  BY ExecutedStays
<1>e. ~Executed(i)
  BY DEF Executed
<1>f. op[i].kind # "create" => turns[i] = "none"
  <2>1. op[i].kind # "create" => i # 1
    <3>1. (i \in Nat /\ admitted \in Nat /\ op[i].kind # "none" /\ i <= admitted) \/ op[i].kind = "none"
      BY <1>a, TypeParts, Zero DEF IInv, CountTypes, Admissions
    <3>2. op[i].kind # "none"
      BY DEF Kinds
    <3>3. admitted # 0
      BY <3>1, <3>2, Zero DEF Ops
    <3> QED BY <1>a, <3>3 DEF Beginning
  <2> QED BY <1>a, <1>e, <2>1 DEF Beginning
<1> HIDE DEF Own
<1>1. CASE op[i].kind = "create"
  <2>1. native.state = "none" /\ Begun(i).state = "running" /\ Begun(i).turn = i /\ Begun(i).queue = native.queue
    BY <1>1, <1>a, BegunFacts
  <2>2. i = 1 /\ admitted # 0
    BY <1>1, <1>a DEF Beginning
  <2>3. session.state # "none" /\ session.turn = 1 /\ native.queue = <<>>
    BY <1>a, <2>1, <2>2 DEF Beginning, Admissions
  <2> QED BY <1>a, <1>b, <2>1, <2>2, <2>3 DEF AheadThen, OnTurn
<1>2. CASE op[i].kind = "send"
  <2>1. native.state # "none" /\ Begun(i).state = "running" /\ Begun(i).turn = i /\ Begun(i).queue = native.queue
    BY <1>2, <1>a, BegunFacts
  <2>2. turns[i] = "none"
    BY <1>2, <1>f
  <2> QED BY <1>2, <1>a, <1>b, <1>c, <2>1, <2>2 DEF AheadThen, Ahead, OnTurn
<1>3. CASE op[i].kind = "queue"
  <2>1. /\ native.state # "none" /\ Begun(i).state = native.state /\ Begun(i).turn = native.turn
        /\ Begun(i).queue = Append(native.queue, i)
    BY <1>3, <1>a, BegunFacts
  <2>2. turns[i] = "none"
    BY <1>3, <1>f
  <2>3. \A n \in 1..Len(native.queue) : native.queue[n] # i
    BY <1>a, <1>e DEF NodeSession
  <2> DEFINE q == Append(native.queue, i)
  <2>4. /\ q[Len(native.queue) + 1] = i /\ \A n \in 1..Len(native.queue) : q[n] = native.queue[n]
        /\ \A n \in 1..Len(q) : n \in 1..Len(native.queue) \/ n = Len(native.queue) + 1
    BY <1>a, AppendFacts
  <2>5. Own'.queue = q /\ Own'.turn = native.turn /\ Own'.state = native.state
    BY <1>b, <2>1
  <2> HIDE DEF q
  <2>6. /\ \A n \in 1..Len(native.queue) : turns[native.queue[n]] = "none" /\ op[native.queue[n]].kind = "queue"
        /\ \A m, n \in 1..Len(native.queue) : native.queue[m] = native.queue[n] => m = n
        /\ Executed(native.turn) /\ native.turn \in Ops
        /\ native.turn = session.turn \/ (turns[native.turn] = "none" /\ op[native.turn].kind \in {"send", "queue"})
        /\ native.state \in OnTurn \union {"completed", "cancelled", "closed"}
    <3>1. Ahead(Own) /\ Own.turn = native.turn /\ Own.queue = native.queue /\ Own.state = native.state
      BY <1>c, <2>1
    <3>2. native.turn \in Ops
      BY <2>1, TrailFacts
    <3> QED BY <3>1, <3>2 DEF Ahead
  <2>7. \A m, n \in 1..Len(q) : q[m] = q[n] => m = n
    BY <2>3, <2>4, <2>6
  <2>8. \A n \in 1..Len(q) : turns'[q[n]] = "none" /\ op'[q[n]].kind = "queue"
    BY <1>3, <1>a, <2>2, <2>4, <2>6
  <2> QED BY <1>a, <1>d, <2>5, <2>6, <2>7, <2>8 DEF AheadThen
<1>4. CASE op[i].kind \in {"cancel", "respond"}
  <2>1. /\ native.state # "none" /\ Begun(i).state = native.state /\ Begun(i).turn = native.turn
        /\ Begun(i).queue = native.queue /\ native.turn \in Ops
    BY <1>4, <1>a, BegunFacts, TrailFacts
  <2> QED BY <1>a, <1>b, <1>c, <1>d, <2>1 DEF AheadThen, Ahead
<1> QED BY <1>1, <1>2, <1>3, <1>4 DEF Kinds

\* What the agent makes of the session.
LEMMA AgentAhead ==
  ASSUME IInv, IInv', MInv, Next, AgentStep
  PROVE  AheadThen(Own') /\ (NextForm => AheadThen(Snapshot(Completed)))
<1>a. /\ Points /\ Beginning /\ Engaged /\ NodeTypes /\ NodeSession /\ native \in NativeSession /\ native.queue \in Seq(Ops)
      /\ UNCHANGED <<session, turns, op>> /\ op \in [Ops -> OpRow] /\ doing \in {0} \union Ops
      /\ \A i \in Ops : Executed(i) => ExecutedThen(i)
  BY TypeParts, RowsKept, ExecutedStays DEF IInv, MInv, NodeTypes, RowTypes, NativeSession, dbVars
<1>b. /\ native.state # "none" /\ (QuietForm \/ AskForm \/ WithdrawForm \/ NextForm) /\ native.turn \in Ops
      /\ Ahead(Own) /\ Own.turn = native.turn /\ Own.queue = native.queue /\ Own.state = native.state
      /\ asked' \in Nat
  BY <1>a, AgentForms, PointFacts, TrailFacts
<1>c. Own' = Snapshot(native') /\ Own'.turn = native'.turn /\ Own'.queue = native'.queue /\ Own'.state = native'.state
  BY DEF Own, Snapshot
<1> HIDE DEF Own
<1>1. ASSUME NEW e, e.turn = native.turn, e.queue = native.queue,
             e.state \in OnTurn \union {"completed", "cancelled", "closed"}
      PROVE  AheadThen(e)
  BY <1>a, <1>b, <1>1 DEF Ahead, AheadThen
<1>2. /\ Snapshot(Completed).turn = native.turn /\ Snapshot(Completed).queue = native.queue
      /\ Snapshot(Completed).state = "completed"
  BY <1>a DEF Completed, Snapshot, NativeSession
<1>3. CASE QuietForm
  <2>1. CASE doing # 0 /\ native' = Carried(doing)
    <3>1. doing \in Ops /\ native.state \in OnTurn
      BY <1>a, <2>1 DEF Engaged
    <3>2. /\ native'.turn = native.turn /\ native'.queue = native.queue
          /\ native'.state \in {"cancelled", "running", native.state}
      BY <1>a, <2>1, <3>1 DEF Carried, NativeSession
    <3>3. native'.state \in OnTurn \union {"completed", "cancelled", "closed"}
      BY <3>1, <3>2 DEF OnTurn
    <3> QED BY <1>1, <1>2, <1>c, <3>2, <3>3
  <2>2. CASE native' = Completed
    BY <1>1, <1>2, <1>c, <2>2
  <2>3. CASE native' = [native EXCEPT !.state = "closed", !.request = 0, !.working = FALSE]
    <3>1. native'.turn = native.turn /\ native'.queue = native.queue /\ native'.state = "closed"
      BY <1>a, <2>3 DEF NativeSession
    <3> QED BY <1>1, <1>2, <1>c, <3>1
  <2> QED BY <1>1, <1>2, <1>3, <2>1, <2>2, <2>3 DEF QuietForm, NextForm
<1>4. CASE AskForm
  <2>1. native'.turn = native.turn /\ native'.queue = native.queue /\ native'.state \in Waiting
    BY <1>4, <1>a DEF AskForm, NativeSession, WaitingState, Waiting
  <2> QED BY <1>1, <1>2, <1>c, <2>1 DEF OnTurn
<1>5. CASE WithdrawForm
  <2>1. native'.turn = native.turn /\ native'.queue = native.queue /\ native'.state = "running"
    BY <1>5, <1>a DEF WithdrawForm, NativeSession
  <2> QED BY <1>1, <1>2, <1>c, <2>1 DEF OnTurn
<1>6. CASE NextForm
  <2>1. /\ native'.turn = Head(native.queue) /\ native'.queue = Tail(native.queue) /\ native'.state = "running"
        /\ native.queue # <<>>
    BY <1>6, <1>a DEF NextForm, NextOfQueue, NativeSession
  <2> DEFINE q == native.queue
  <2>2. /\ Head(q) = q[1] /\ 1 \in 1..Len(q) /\ Head(q) \in Ops
        /\ \A n \in 1..Len(Tail(q)) : n + 1 \in 1..Len(q) /\ Tail(q)[n] = q[n + 1]
    BY <1>a, <2>1, TailFacts
  <2>3. /\ \A n \in 1..Len(q) : turns[q[n]] = "none" /\ op[q[n]].kind = "queue" /\ Executed(q[n])
        /\ \A m, n \in 1..Len(q) : q[m] = q[n] => m = n
    BY <1>a, <1>b DEF Ahead, NodeSession
  <2>4. \A m, n \in 1..Len(Tail(q)) : Tail(q)[m] = Tail(q)[n] => m = n
    BY <2>2, <2>3
  <2>5. AheadThen(Own')
    BY <1>a, <1>c, <2>1, <2>2, <2>3, <2>4 DEF AheadThen, OnTurn
  <2> QED BY <1>1, <1>2, <2>5
<1> QED BY <1>b, <1>3, <1>4, <1>5, <1>6

LEMMA PointsStep ==
  ASSUME IInv, IInv', MInv, Next
  PROVE  Points'
<1>1. ASSUME native'.state # "none" PROVE AheadThen(Own')
  <2>1. CASE native' = native
    <3>1. /\ Own' = Own /\ native.state # "none" /\ Own.type = "session" /\ Trail[Len(spool) + 1] = Own
          /\ Len(spool) + 1 \in 1..Len(Trail) /\ Len(spool) \in Nat /\ spool \in Seq(Event)
      BY <1>1, <2>1, TrailFacts DEF Own
    <3>2. Takes => spool # <<>>
      BY Taken DEF Takes
    <3>3. Takes => Len(spool) + 1 > 1
      BY <3>1, <3>2
    <3> QED BY <3>1, <3>3, AheadStays
  <2>2. CASE native' # native
    <3>1. ByCommand \/ AgentStep
      BY <2>2, Steps, NativeKept
    <3>2. CASE ByCommand
      BY <2>2, <3>2, CommandForms, BegunAhead
    <3> QED BY <3>1, <3>2, AgentAhead
  <2> QED BY <2>1, <2>2
<1>2. ASSUME NEW k \in 1..Len(spool'), spool'[k].type = "session", native'.state # "none" PROVE AheadThen(spool'[k])
  <2>1. ASSUME NEW j \in 1..Len(spool), spool'[k] = spool[j], Takes => j > 1 PROVE AheadThen(spool'[k])
    <3>1. native.state # "none"
      BY PointFacts DEF MInv
    <3>2. j \in 1..Len(Trail) /\ Trail[j] = spool[j]
      BY <3>1, TrailFacts
    <3> QED BY <1>2, <2>1, <3>1, <3>2, AheadStays
  <2>2. k \in Nat /\ k >= 1
    OBVIOUS
  <2>3. ASSUME AgentStep, NEW es, Sends(es), k - Len(spool) \in 1..Len(es), spool'[k] = es[k - Len(spool)]
        PROVE  AheadThen(spool'[k])
    <3>1. spool'[k] = Own' \/ (spool'[k] = Snapshot(Completed) /\ NextForm)
      BY <1>2, <2>3, NewsFacts DEF MInv
    <3> QED BY <2>3, <3>1, AgentAhead
  <2>4. Takes => Ingest
    BY DEF Takes
  <2>5. \/ ~Ingest /\ k \in 1..Len(spool) /\ spool'[k] = spool[k]
        \/ Ingest /\ k + 1 \in 1..Len(spool) /\ spool'[k] = spool[k + 1]
        \/ Own' = Own /\ spool'[k] = Own
        \/ AgentStep /\ \E es : /\ Sends(es) /\ k - Len(spool) \in 1..Len(es) /\ spool'[k] = es[k - Len(spool)]
    BY Places
  <2>6. CASE ~Ingest /\ k \in 1..Len(spool) /\ spool'[k] = spool[k]
    BY <2>1, <2>4, <2>6
  <2>7. CASE Ingest /\ k + 1 \in 1..Len(spool) /\ spool'[k] = spool[k + 1]
    <3>1. k + 1 > 1
      BY <2>2
    <3> QED BY <2>1, <2>7, <3>1
  <2>8. CASE Own' = Own /\ spool'[k] = Own
    BY <1>1, <1>2, <2>8
  <2> QED BY <2>3, <2>5, <2>6, <2>7, <2>8
<1>3. /\ spool' \in Seq(Event)
      /\ native'.state # "none" =>
           /\ Trail'[Len(spool') + 1] = Own'
           /\ \A k \in 1..Len(spool') : Trail'[k] = spool'[k]
           /\ \A k \in 1..Len(Trail') : k \in 1..Len(spool') \/ k = Len(spool') + 1
  BY TrailThen
<1>4. ASSUME native'.state # "none", NEW k \in 1..Len(Trail'), Trail'[k].type = "session" PROVE AheadThen(Trail'[k])
  BY <1>1, <1>2, <1>3, <1>4
<1> HIDE DEF Trail
<1>5. Points' <=> (native'.state # "none" => \A k \in 1..Len(Trail') : Trail'[k].type = "session" => AheadThen(Trail'[k]))
  BY DEF Points, Ahead, AheadThen, Executed, ExecutedThen
<1> QED BY <1>4, <1>5

-----------------------------------------------------------------------------
(* The trail of the Node's steps. *)

\* The first snapshot of the trail is in the spool unless that is empty.
LEMMA FirstPlace ==
  ASSUME IInv, Paths, native.state # "none", spool # <<>>
  PROVE  /\ \E k \in 1..Len(spool) :
              /\ k \in {1, 2} /\ First(Trail) = spool[k] /\ spool[k].type = "session"
              /\ k = 2 => spool[1].type # "session"
         /\ \A z : (\A k \in 1..Len(spool) : z[k] = spool[k]) => First(z) = First(Trail)
<1>1. /\ Shape(Trail) /\ 1 \in 1..Len(spool) /\ Len(spool) \in Nat /\ Len(Trail) = Len(spool) + 1
      /\ \A k \in 1..Len(spool) : Trail[k] = spool[k] /\ k \in 1..Len(Trail)
  BY TrailFacts DEF Paths, Path
<1> HIDE DEF Trail
<1>2. CASE spool[1].type = "session"
  BY <1>1, <1>2 DEF First
<1>3. CASE spool[1].type # "session"
  <2>1. 2 < Len(Trail) /\ Trail[2].type = "session"
    BY <1>1, <1>3 DEF Shape
  <2>2. 2 \in 1..Len(spool)
    BY <1>1, <2>1
  <2> QED BY <1>1, <1>3, <2>1, <2>2 DEF First
<1> QED BY <1>2, <1>3

\* The Node's session is a legal step after what it reported last.
LEMMA LatestFollowed ==
  ASSUME IInv, Paths, native.state # "none"
  PROVE  /\ Follows(op, Latest, Own)
         /\ spool # <<>> => Latest = spool[Len(spool)] /\ Len(spool) \in 1..Len(spool) /\ spool[Len(spool)].type = "session"
         /\ spool = <<>> => Latest = Shown
<1>1. /\ Path(op, session.turn, Trail) /\ (Stuck \/ Follows(op, Shown, First(Trail))) /\ Len(spool) \in Nat
      /\ Len(Trail) = Len(spool) + 1 /\ Trail[Len(spool) + 1] = Own /\ Own.type = "session"
      /\ Len(spool) + 1 \in 1..Len(Trail) /\ spool \in Seq(Event)
      /\ \A k \in 1..Len(spool) : Trail[k] = spool[k] /\ k \in 1..Len(Trail)
  BY TrailFacts DEF Paths
<1> HIDE DEF Trail, Own
<1>2. CASE spool = <<>>
  <2>1. ~Stuck /\ Latest = Shown /\ Len(spool) + 1 = 1
    BY <1>2 DEF Stuck, Latest
  <2>2. First(Trail) = Own
    BY <1>1, <2>1 DEF First
  <2> QED BY <1>1, <1>2, <2>1, <2>2
<1>3. CASE spool # <<>>
  <2>1. Len(spool) \in 1..Len(spool) /\ Latest = spool[Len(spool)]
    BY <1>1, <1>3 DEF Latest
  <2>2. Trail[Len(spool)].type = "session"
    BY <1>1, <2>1 DEF Path, Shape
  <2>3. Adjacent(Trail, Len(spool), Len(spool) + 1) /\ Len(spool) < Len(spool) + 1
    BY <1>1 DEF Adjacent
  <2>4. Follows(op, Trail[Len(spool)], Trail[Len(spool) + 1])
    BY <1>1, <2>1, <2>2, <2>3 DEF Path, StepByStep
  <2> QED BY <1>1, <1>3, <2>1, <2>2, <2>4
<1> QED BY <1>2, <1>3

\* The trail whose end is y instead of the Node's session.
Leads(o, t, s, y) == /\ Path(o, t, Append(s, y))
                     /\ Stuck \/ Follows(o, Shown, First(Append(s, y)))

\* The Node's session takes a legal step to y.
LEMMA TrailMoved ==
  ASSUME IInv, Paths, native.state # "none", NEW y \in Event, y.type = "session", Follows(op, Latest, y),
         \/ y.turn = native.turn /\ (native.state \in Over => y.state \in {native.state, "closed"})
         \/ y.turn # session.turn /\ \A k \in 1..Len(spool) : spool[k].type = "session" => spool[k].turn # y.turn,
         \A i : Has(y.queue, i) =>
           /\ i # y.turn
           /\ Has(native.queue, i) \/ \A k \in 1..Len(spool) : spool[k].type = "session" => spool[k].turn # i
  PROVE  Leads(op, session.turn, spool, y)
<1>1. /\ Path(op, session.turn, Append(spool, Own)) /\ (Stuck \/ Follows(op, Shown, First(Trail)))
      /\ spool \in Seq(Event) /\ Own \in Event /\ Own.type = "session" /\ Own.turn = native.turn
      /\ Own.state = native.state /\ Own.queue = native.queue
  BY TrailFacts DEF Paths, Trail
<1>2. spool # <<>> => spool[Len(spool)].type = "session" /\ Follows(op, spool[Len(spool)], y)
  BY LatestFollowed
<1> DEFINE t == session.turn
<1> HIDE DEF Own, t
<1>3. Path(op, t, Append(spool, y))
  <2>1. Path(op, t, Append(spool, Own))
    BY <1>1 DEF t
  <2>2. \/ y.turn = Own.turn /\ (Own.state \in Over => y.state \in {Own.state, "closed"})
        \/ y.turn # t /\ \A k \in 1..Len(spool) : spool[k].type = "session" => spool[k].turn # y.turn
    BY <1>1 DEF t
  <2>3. \A i : Has(y.queue, i) =>
           /\ i # y.turn
           /\ Has(Own.queue, i) \/ \A k \in 1..Len(spool) : spool[k].type = "session" => spool[k].turn # i
    BY <1>1
  <2> QED BY <1>1, <1>2, <2>1, <2>2, <2>3, Moved
<1>4. /\ \A k \in 1..Len(spool) : Append(spool, y)[k] = spool[k]
      /\ Append(spool, y)[Len(spool) + 1] = y
  BY <1>1, AppendFacts
<1>5. CASE spool # <<>>
  <2>1. First(Append(spool, y)) = First(Trail)
    BY <1>4, <1>5, FirstPlace
  <2> QED BY <1>1, <1>3, <2>1 DEF Leads, t
<1>6. CASE spool = <<>>
  <2>1. Len(spool) + 1 = 1 /\ Latest = Shown
    BY <1>6 DEF Latest
  <2>2. First(Append(spool, y)) = y
    BY <1>4, <2>1 DEF First
  <2> QED BY <1>3, <2>1, <2>2 DEF Leads, t
<1> QED BY <1>5, <1>6

\* No snapshot speaks of a turn that has not begun.
LEMMA NotYetTold ==
  ASSUME IInv, Beginning, Points, native.state # "none", NEW i \in Ops, ~Executed(i)
  PROVE  \A k \in 1..Len(spool) : spool[k].type = "session" => spool[k].turn # i
  BY PointFacts DEF Ahead

\* A command leads to a session that the trail may end with.
LEMMA CommandLeads ==
  ASSUME IInv, IInv', MInv, Next, ByCommand, native.state # "none"
  PROVE  Leads(op, session.turn, spool, Own')
<1>a. /\ Beginning /\ Points /\ Paths /\ Level /\ native \in NativeSession /\ native.queue \in Seq(Ops) /\ NodeSession
      /\ native.turn \in Ops /\ NodeTypes /\ doing = 0 /\ Engaged /\ Admissions
  BY TypeParts, CommandForms, TrailFacts DEF IInv, MInv, NodeTypes, NativeSession, Levels
<1>b. /\ Own' = Snapshot(native') /\ Own'.turn = native'.turn /\ Own'.queue = native'.queue /\ Own'.state = native'.state
      /\ Own'.type = "session"
  BY DEF Own, Snapshot
<1>c. native'.state # "none" => Own' \in Event
  BY TrailThen
<1>d. Own' = Own => Leads(op, session.turn, spool, Own')
  BY <1>a DEF Leads, Paths, Trail
<1>e. PICK i \in Ops :
        /\ op[i].state = "open" /\ journal[i] = "none" /\ op[i].kind \in Kinds \ {"none"}
        /\ \/ native' = native
           \/ Executable(i) /\ native' = Begun(i)
  BY CommandForms
<1>f. /\ ~Executed(i) /\ turns[session.turn] # "none" /\ (i # 1 => turns[i] = "none") /\ session.turn \in Ops
      /\ \A k \in 1..Len(spool) : spool[k].type = "session" => spool[k].turn # i
      /\ \A n \in 1..Len(native.queue) : native.queue[n] # i /\ native.queue[n] # native.turn
      /\ native.turn # i /\ i # 1
  <2>1. ~Executed(i)
    BY <1>e DEF Executed
  <2>2. \A k \in 1..Len(spool) : spool[k].type = "session" => spool[k].turn # i
    BY <1>a, <2>1, NotYetTold
  <2>3. i # 1
    BY <1>a, <2>1 DEF Beginning
  <2> QED BY <1>a, <2>1, <2>2, <2>3, SessionKept DEF Beginning, NodeSession
<1>g. /\ Latest.turn = native.turn /\ Latest.queue = native.queue
      /\ Latest.state = native.state \/ (Latest.state = "cancelling" /\ native.state \in OnTurn)
  BY <1>a DEF Level, LostCancel, Latest, Shown, OnTurn
<1> HIDE DEF Own
<1>1. CASE native' = native
  BY <1>1, <1>d DEF Own
<1>2. CASE Executable(i) /\ native' = Begun(i) /\ op[i].kind = "send"
  <2>1. /\ Own'.turn = i /\ Own'.queue = native.queue /\ Own'.state = "running"
        /\ Own' \in Event
    BY <1>2, <1>a, <1>b, <1>c, <1>e, BegunFacts
  <2>2. native.state \in Ended
    BY <1>2 DEF Executable
  <2>3. Latest.state = native.state
    BY <1>g, <2>2 DEF OnTurn, Waiting, Ended
  <2>4. Follows(op, Latest, Own')
    BY <1>2, <1>f, <1>g, <2>1, <2>2, <2>3 DEF Follows
  <2>5. Own'.turn # session.turn
    BY <1>f, <2>1
  <2>6. \A j : Has(Own'.queue, j) => j # Own'.turn /\ Has(native.queue, j)
    BY <1>f, <2>1 DEF Has
  <2> QED BY <1>a, <1>b, <1>f, <2>1, <2>4, <2>5, <2>6, TrailMoved
<1>3. CASE Executable(i) /\ native' = Begun(i) /\ op[i].kind = "queue"
  <2>1. /\ Own'.turn = native.turn /\ Own'.queue = Append(native.queue, i) /\ Own'.state = native.state
        /\ Own' \in Event
    BY <1>3, <1>a, <1>b, <1>c, <1>e, BegunFacts
  <2>2. Follows(op, Latest, Own')
    BY <1>g, <2>1 DEF Follows, Adds, validTransition
  <2>3. \A j : Has(Own'.queue, j) => j = i \/ Has(native.queue, j)
    BY <1>a, <2>1, AppendFacts
  <2>4. \A j : Has(Own'.queue, j) =>
           /\ j # Own'.turn
           /\ Has(native.queue, j) \/ \A k \in 1..Len(spool) : spool[k].type = "session" => spool[k].turn # j
    BY <1>f, <2>1, <2>3 DEF Has
  <2> QED BY <1>a, <1>b, <2>1, <2>2, <2>4, TrailMoved
<1>4. CASE Executable(i) /\ native' = Begun(i) /\ op[i].kind \in {"cancel", "respond"}
  <2>1. native'.turn = native.turn /\ native'.queue = native.queue /\ native'.state = native.state
    BY <1>4, <1>a, <1>e, BegunFacts
  <2>2. Own' = Own
    BY <2>1 DEF Own, Snapshot
  <2> QED BY <1>d, <2>2
<1>5. CASE Executable(i) /\ native' = Begun(i) /\ op[i].kind = "create"
  BY <1>5, <1>a, <1>e, BegunFacts
<1> QED BY <1>e, <1>1, <1>2, <1>3, <1>4, <1>5 DEF Kinds

\* The last report is of the same turn and state, or the rows cancelled it.
Current == /\ Latest.turn = native.turn
           /\ Latest.state = native.state \/ (Latest.state = "cancelling" /\ native.state \in OnTurn)

\* The agent's session keeps its turn and its queue.
LEMMA SameTurnLeads ==
  ASSUME IInv, MInv, native.state # "none", Current, NEW y \in Event, y.type = "session",
         y.turn = native.turn, y.queue = native.queue, validTransition(native.state, y.state),
         Latest.state = "cancelling" \/ Latest.state = native.state,
         native.state \in Over => y.state \in {native.state, "closed"}
  PROVE  Leads(op, session.turn, spool, y)
<1>a. Paths /\ NodeSession /\ Own.turn = native.turn /\ Own.queue = native.queue /\ Own.state = native.state
  BY TrailFacts DEF IInv, MInv
<1>1. Follows(op, Latest, Own)
  BY <1>a, LatestFollowed
<1> HIDE DEF Own
<1>2. Adds(Latest.queue, native.queue)
  BY <1>1, <1>a DEF Current, Follows
<1>3. Follows(op, Latest, y)
  BY <1>2 DEF Follows, Current
<1>4. \A j : Has(y.queue, j) => j # y.turn /\ Has(native.queue, j)
  BY <1>a DEF NodeSession, Has
<1> QED BY <1>a, <1>3, <1>4, TrailMoved

\* What the agent does leads to a session that the trail may end with; the next
\* turn starts behind the completed one.
LEMMA AgentLeads ==
  ASSUME IInv, IInv', MInv, Next, AgentStep
  PROVE  /\ ~NextForm => Leads(op, session.turn, spool, Own')
         /\ NextForm => Leads(op, session.turn, spool, Snapshot(Completed))
         /\ native.working => Current
<1>a. /\ Engaged /\ Levels /\ Paths /\ NodeTypes /\ NodeSession /\ native \in NativeSession /\ native.state # "none" /\ asked' \in Nat
      /\ (QuietForm \/ AskForm \/ WithdrawForm \/ NextForm) /\ native'.state # "none"
      /\ Snapshot(Completed) \in Event /\ op \in [Ops -> OpRow] /\ doing \in {0} \union Ops
  BY TypeParts, AgentForms DEF IInv, MInv, NodeTypes, RowTypes
<1>b. /\ Own' = Snapshot(native') /\ Own'.turn = native'.turn /\ Own'.queue = native'.queue /\ Own'.state = native'.state
      /\ Own'.type = "session" /\ Own' \in Event
  BY <1>a, TrailThen DEF Own, Snapshot
<1>c. native.working => Latest.turn = native.turn /\ Latest.state = native.state /\ native.state \in OnTurn
  BY <1>a DEF Levels, Engaged
<1>d. ASSUME Level PROVE Current /\ (Latest.state = "cancelling" \/ Latest.state = native.state)
  BY <1>d DEF Level, LostCancel, Latest, Shown, OnTurn, Current
<1> HIDE DEF Own
<1>1. native.working => Current
  BY <1>c DEF Current
<1>2. /\ Snapshot(Completed).turn = native.turn /\ Snapshot(Completed).queue = native.queue
      /\ Snapshot(Completed).state = "completed" /\ Snapshot(Completed).type = "session"
  BY <1>a DEF Completed, Snapshot, NativeSession
<1>3. CASE native.working /\ native.state = "running"
  <2>1. ASSUME NEW y \in Event, y.type = "session", y.turn = native.turn, y.queue = native.queue,
               y.state \in Waiting \union {"completed", "closed"}
        PROVE  Leads(op, session.turn, spool, y)
    <3>1. validTransition(native.state, y.state) /\ native.state \notin Over
      BY <1>3, <2>1 DEF validTransition, Ended, Over
    <3> QED BY <1>1, <1>3, <1>a, <1>c, <2>1, <3>1, SameTurnLeads
  <2>2. ~NextForm /\ doing = 0 => native'.turn = native.turn /\ native'.queue = native.queue /\ native'.state \in Waiting \union {"completed", "closed"}
    <3>1. QuietForm /\ doing = 0 => native'.turn = native.turn /\ native'.queue = native.queue /\ native'.state \in Waiting \union {"completed", "closed"}
      BY <1>a DEF QuietForm, Completed, NativeSession
    <3>2. AskForm => native'.turn = native.turn /\ native'.queue = native.queue /\ native'.state \in Waiting \union {"completed", "closed"}
      BY <1>a DEF AskForm, NativeSession, WaitingState, Waiting
    <3>3. ~WithdrawForm
      BY <1>3 DEF WithdrawForm, Waiting
    <3> QED BY <1>a, <3>1, <3>2, <3>3
  <2>3. Leads(op, session.turn, spool, Snapshot(Completed))
    BY <1>2, <1>a, <2>1
  <2>4. CASE doing = 0
    BY <1>1, <1>b, <2>1, <2>2, <2>3, <2>4
  <2>5. CASE doing # 0
    <3>1. /\ ~NextForm /\ native' = Carried(doing) /\ doing \in Ops
      BY <1>a, <2>5 DEF QuietForm, AskForm, WithdrawForm, NextForm
    <3>2. op[doing].kind = "queue" \/ op[doing].kind = "cancel"
      BY <1>3, <1>a, <2>5, <3>1 DEF Engaged, NodeSession, OpRow, Kinds, Waiting
    <3>3. CASE op[doing].kind = "queue"
      <4>1. native' = native
        BY <3>1, <3>3 DEF Carried
      <4> QED BY <1>1, <1>a, <3>1, <4>1 DEF Leads, Paths, Trail, Own
    <3>4. CASE op[doing].kind = "cancel"
      <4>1. native'.turn = native.turn /\ native'.queue = native.queue /\ native'.state = "cancelled"
        BY <1>a, <3>1, <3>4 DEF Carried, NativeSession
      <4>2. validTransition(native.state, Own'.state) /\ native.state \notin Over
        BY <1>3, <1>b, <4>1 DEF validTransition, Ended, Over
      <4> QED BY <1>1, <1>3, <1>a, <1>b, <1>c, <3>1, <4>1, <4>2, SameTurnLeads
    <3> QED BY <3>2, <3>3, <3>4
  <2> QED BY <2>4, <2>5
<1>4. CASE ~(native.working /\ native.state = "running") /\ doing # 0
  <2>1. /\ ~NextForm /\ native' = Carried(doing) /\ doing \in Ops /\ native.state \in OnTurn
    BY <1>a, <1>4 DEF QuietForm, AskForm, WithdrawForm, NextForm, Engaged
  <2>2. CASE op[doing].kind \notin {"cancel", "respond"}
    <3>1. native'.turn = native.turn /\ native'.queue = native.queue /\ native'.state = native.state
      BY <1>a, <2>1, <2>2 DEF Carried, NativeSession
    <3>2. Own' = Own
      BY <3>1 DEF Own, Snapshot
    <3> QED BY <1>1, <1>a, <2>1, <3>2 DEF Leads, Paths, Trail
  <2>3. CASE op[doing].kind \in {"cancel", "respond"}
    <3>1. native'.turn = native.turn /\ native'.queue = native.queue
      BY <1>a, <2>1, <2>3 DEF Carried, NativeSession
    <3>2. validTransition(native.state, native'.state) /\ native.state \notin Over
      <4>1. CASE op[doing].kind = "cancel"
        <5>1. native'.state = "cancelled"
          BY <1>a, <2>1, <4>1 DEF Carried, NativeSession
        <5> QED BY <2>1, <5>1 DEF validTransition, OnTurn, Over, Ended, Waiting
      <4>2. CASE op[doing].kind = "respond"
        <5>1. native'.state = "running" /\ native.state \in Waiting
          BY <1>a, <1>4, <2>1, <4>2 DEF Carried, NativeSession, Engaged
        <5> QED BY <2>1, <5>1 DEF validTransition, Over, Ended, Waiting
      <4> QED BY <2>3, <4>1, <4>2
    <3>3. Level
      BY <1>a, <1>4, <2>3 DEF Levels
    <3> QED BY <1>1, <1>a, <1>b, <1>d, <2>1, <3>1, <3>2, <3>3, SameTurnLeads
  <2> QED BY <2>2, <2>3
<1>5. CASE ~(native.working /\ native.state = "running") /\ doing = 0
  <2>2. ~NextForm
    BY <1>5 DEF NextForm
  <2>3. CASE WithdrawForm
    <3>1. /\ native'.turn = native.turn /\ native'.queue = native.queue /\ native'.state = "running" /\ native.working
          /\ native.state \in Waiting
      BY <1>a, <2>3 DEF WithdrawForm, NativeSession
    <3>2. validTransition(native.state, native'.state) /\ native.state \notin Over
      BY <3>1 DEF validTransition, Over, Ended, Waiting
    <3> QED BY <1>1, <1>a, <1>b, <1>c, <2>2, <3>1, <3>2, SameTurnLeads
  <2>4. CASE QuietForm
    <3>1. /\ native'.turn = native.turn /\ native'.queue = native.queue /\ native'.state = "closed"
          /\ native.working \/ native.state \in Ended
      BY <1>a, <1>5, <2>4 DEF QuietForm, NativeSession
    <3>2. native.state # "closed" /\ validTransition(native.state, native'.state)
      BY <1>c, <3>1 DEF validTransition, OnTurn, Ended, Waiting
    <3>3. ~native.working => Level
      BY <1>a, <3>1 DEF Levels, Over
    <3>4. Current /\ (Latest.state = "cancelling" \/ Latest.state = native.state)
      BY <1>1, <1>c, <1>d, <3>3
    <3> QED BY <1>1, <1>a, <1>b, <2>2, <3>1, <3>2, <3>4, SameTurnLeads
  <2> QED BY <1>5, <1>a, <2>2, <2>3, <2>4 DEF AskForm
<1> QED BY <1>3, <1>4, <1>5

\* The first snapshot of a longer trail.
LEMMA FirstOf ==
  ASSUME IInv, Paths, native.state # "none", NEW y \in Event, Leads(op, session.turn, spool, y), y.type = "session",
         NEW z, \A k \in 1..Len(spool) : z[k] = spool[k], spool = <<>> => First(z) = y
  PROVE  Stuck \/ Follows(op, Shown, First(z))
<1>1. /\ \A k \in 1..Len(spool) : Append(spool, y)[k] = spool[k]
      /\ Append(spool, y)[Len(spool) + 1] = y /\ Len(spool) \in Nat
  BY TrailFacts, AppendFacts
<1>2. CASE spool # <<>>
  <2>1. First(z) = First(Trail) /\ First(Append(spool, y)) = First(Trail)
    BY <1>1, <1>2, FirstPlace
  <2> QED BY <2>1 DEF Leads
<1>3. CASE spool = <<>>
  <2>1. Len(spool) + 1 = 1
    BY <1>3
  <2>2. First(Append(spool, y)) = y
    BY <1>1, <2>1 DEF First
  <2> QED BY <1>3, <2>2 DEF Leads
<1> QED BY <1>2, <1>3

\* What the agent does makes the trail longer by legal steps.
LEMMA AgentTrail ==
  ASSUME IInv, IInv', MInv, Next, AgentStep
  PROVE  Path(op, session.turn, Trail') /\ (Stuck \/ Follows(op, Shown, First(Trail')))
<1>a. /\ Paths /\ Points /\ Beginning /\ NodeSession /\ native \in NativeSession /\ native.state # "none" /\ native'.state # "none"
      /\ (QuietForm \/ AskForm \/ WithdrawForm \/ NextForm) /\ spool \in Seq(Event) /\ Len(spool) \in Nat
      /\ Snapshot(Completed) \in Event /\ native.queue \in Seq(Ops) /\ asked' \in 0..MaxRequests /\ asked \in Nat
      /\ session.turn \in Ops /\ turns[session.turn] # "none" /\ native.turn \in Ops
  BY TypeParts, AgentForms, TrailFacts, SessionKept DEF IInv, MInv, NodeTypes, NativeSession
<1>b. /\ Own' = Snapshot(native') /\ Own'.turn = native'.turn /\ Own'.queue = native'.queue /\ Own'.state = native'.state
      /\ Own'.type = "session" /\ Own' \in Event /\ Trail' = Append(spool', Own')
  BY <1>a, TrailThen DEF Own, Snapshot
<1>c. spool # <<>> => spool[Len(spool)].type = "session"
  BY <1>a, LatestFollowed
<1> DEFINE t == session.turn
           y == Own'
           C == Snapshot(Completed)
<1>d. y \in Event /\ y.type = "session" /\ y.state # "none" /\ C \in Event /\ C.type = "session"
  BY <1>a, <1>b DEF Snapshot
<1>e. ~NextForm => Leads(op, t, spool, y)
  BY AgentLeads
<1>f. NextForm => Leads(op, t, spool, C)
  BY AgentLeads
<1>g. Trail' = Append(spool', y)
  BY <1>b
<1>h. ASSUME NEW a \in Event
      PROVE  /\ Append(spool, a) \in Seq(Event) /\ Append(spool, a)[Len(spool) + 1] = a /\ Len(Append(spool, a)) = Len(spool) + 1
             /\ \A k \in 1..Len(spool) : Append(spool, a)[k] = spool[k]
             /\ \A k \in 1..(Len(spool) + 1) : k \in 1..Len(spool) \/ k = Len(spool) + 1
  BY <1>a, AppendFacts
<1> HIDE DEF Trail, Own, t, y, C
<1>1. CASE QuietForm /\ ~NextForm
  <2>1. spool' = Append(spool, y)
    BY <1>1, <1>b DEF QuietForm, y
  <2>2. Path(op, t, Append(Append(spool, y), y))
    BY <1>1, <1>a, <1>c, <1>d, <1>e, Reported1 DEF Leads
  <2>3. /\ \A k \in 1..Len(spool) : Append(Append(spool, y), y)[k] = spool[k]
        /\ Append(Append(spool, y), y)[Len(spool) + 1] = y
    <3>1. Append(spool, y) \in Seq(Event)
      BY <1>d, <1>h
    <3>2. \A k \in 1..Len(Append(spool, y)) : Append(Append(spool, y), y)[k] = Append(spool, y)[k]
      BY <1>d, <3>1, AppendFacts
    <3> QED BY <1>a, <1>d, <1>h, <3>2
  <2>4. spool = <<>> => First(Append(Append(spool, y), y)) = y
    <3>1. spool = <<>> => Len(spool) + 1 = 1
      OBVIOUS
    <3> QED BY <1>d, <2>3, <3>1 DEF First
  <2>5. Stuck \/ Follows(op, Shown, First(Append(Append(spool, y), y)))
    BY <1>1, <1>a, <1>d, <1>e, <2>3, <2>4, FirstOf DEF t
  <2> QED BY <1>g, <2>1, <2>2, <2>5 DEF t
<1>2. ASSUME NEW a \in Event, a.type # "session", a.type = "request" => GoingOn(y, a.turn), ~NextForm,
             spool' = Append(Append(spool, a), y)
      PROVE  Path(op, session.turn, Trail') /\ (Stuck \/ Follows(op, Shown, First(Trail')))
  <2>1. Path(op, t, Append(Append(spool, y), y))
    BY <1>2, <1>a, <1>c, <1>d, <1>e, Reported1 DEF Leads
  <2> DEFINE z == Append(Append(Append(spool, a), y), y)
  <2>2. Path(op, t, z)
    BY <1>2, <1>a, <1>c, <1>d, <2>1, Inserted
  <2>3. /\ \A k \in 1..Len(spool) : z[k] = spool[k]
        /\ z[Len(spool) + 1] = a /\ z[Len(spool) + 2] = y
    <3> DEFINE u == Append(spool, a)
               w == Append(u, y)
    <3>1. u \in Seq(Event) /\ Len(u) = Len(spool) + 1 /\ u[Len(spool) + 1] = a /\ \A k \in 1..Len(spool) : u[k] = spool[k]
      BY <1>2, <1>h
    <3> HIDE DEF u
    <3>2. w \in Seq(Event) /\ Len(w) = Len(spool) + 2 /\ w[Len(u) + 1] = y /\ \A k \in 1..Len(u) : w[k] = u[k]
      BY <1>a, <1>d, <3>1, AppendFacts
    <3> HIDE DEF w
    <3>3. \A k \in 1..Len(w) : Append(w, y)[k] = w[k]
      BY <1>d, <3>2, AppendFacts
    <3>4. z = Append(w, y)
      BY DEF w, u
    <3> HIDE DEF z
    <3> QED BY <1>a, <3>1, <3>2, <3>3, <3>4
  <2>4. spool = <<>> => First(z) = y
    <3>1. spool = <<>> => Len(spool) + 1 = 1 /\ Len(spool) + 2 = 2
      OBVIOUS
    <3> QED BY <1>2, <2>3, <3>1 DEF First
  <2>5. Trail' = z
    BY <1>g, <1>2
  <2> HIDE DEF z
  <2>6. Stuck \/ Follows(op, Shown, First(z))
    BY <1>2, <1>a, <1>d, <1>e, <2>3, <2>4, FirstOf DEF t
  <2> QED BY <2>2, <2>5, <2>6 DEF t
<1>3. CASE AskForm /\ ~NextForm
  <2> DEFINE a == Asking(asked', native.turn)
  <2>1. asked' \in Requests
    BY <1>3, <1>a, ConstantsAssumption DEF AskForm, Requests
  <2>2. a \in Event /\ a.type = "request" /\ a.turn = native.turn
    BY <1>a, <2>1 DEF Asking, Event
  <2>3. GoingOn(y, native.turn)
    BY <1>3, <1>a, <1>b DEF AskForm, GoingOn, OnTurn, WaitingState, Waiting, NativeSession, y
  <2>4. spool' = Append(Append(spool, a), y)
    BY <1>3, <1>b DEF AskForm, y
  <2> HIDE DEF a
  <2> QED BY <1>2, <1>3, <2>2, <2>3, <2>4
<1>4. CASE WithdrawForm /\ ~NextForm
  <2> DEFINE a == Withdrawal(native.request, native.turn)
  <2>1. native.request \in Requests
    BY <1>4, <1>a DEF WithdrawForm, NodeSession, NativeSession
  <2>2. a \in Event /\ a.type = "withdraw"
    BY <1>a, <2>1 DEF Withdrawal, Event
  <2>4. spool' = Append(Append(spool, a), y)
    BY <1>4, <1>b DEF WithdrawForm, y
  <2> HIDE DEF a
  <2> QED BY <1>2, <1>4, <2>2, <2>4
<1>5. CASE NextForm
  <2> DEFINE u == Append(spool, C)
             q == native.queue
  <2>1. /\ spool' = Append(u, y) /\ native'.turn = Head(q) /\ native'.queue = Tail(q) /\ native'.state = "running" /\ q # <<>>
    BY <1>5, <1>a, <1>b DEF NextForm, NextOfQueue, NativeSession, y, C
  <2>2. C.turn = native.turn /\ C.queue = native.queue /\ C.state = "completed"
    BY <1>a DEF Completed, Snapshot, NativeSession, C
  <2>3. u \in Seq(Event) /\ u[Len(spool) + 1] = C /\ Len(u) = Len(spool) + 1 /\ \A k \in 1..Len(spool) : u[k] = spool[k]
        /\ \A j \in 1..Len(u) : j \in 1..Len(spool) \/ j = Len(spool) + 1
    BY <1>d, <1>h
  <2>4. Path(op, t, Append(u, C))
    BY <1>5, <1>a, <1>c, <1>d, <1>f, <2>2, Reported1 DEF Leads
  <2> HIDE DEF u
  <2>5. /\ Head(q) = q[1] /\ 1 \in 1..Len(q) /\ Head(q) \in Ops
        /\ \A n \in 1..Len(Tail(q)) : n + 1 \in 1..Len(q) /\ Tail(q)[n] = q[n + 1] /\ n + 1 # 1
    BY <1>a, <2>1, TailFacts
  <2>6. /\ turns[Head(q)] = "none" /\ op[Head(q)].kind = "queue" /\ Head(q) # native.turn
        /\ \A m, n \in 1..Len(q) : q[m] = q[n] => m = n
        /\ \A n \in 1..Len(q) : q[n] # native.turn
    <3>1. Ahead(Own) /\ Own.queue = q
      BY <1>a, PointFacts, TrailFacts
    <3> QED BY <1>a, <2>5, <3>1 DEF Ahead, NodeSession
  <2>7. \A k \in 1..Len(spool) : spool[k].type = "session" => ~Has(q, spool[k].turn)
    <3>1. /\ NoRequeue(Trail) /\ Trail[Len(spool) + 1] = Own /\ Own.type = "session" /\ Own.queue = q
          /\ Len(spool) + 1 \in 1..Len(Trail)
          /\ \A k \in 1..Len(spool) : Trail[k] = spool[k] /\ k \in 1..Len(Trail)
      BY <1>a, TrailFacts DEF Paths, Path
    <3>2. \A k \in 1..Len(spool) : k <= Len(spool) + 1
      BY <1>a
    <3> QED BY <3>1, <3>2 DEF NoRequeue
  <2>8. \A k \in 1..Len(u) : u[k].type = "session" => u[k].turn # Head(q) /\ ~Has(q, u[k].turn)
    BY <2>2, <2>3, <2>5, <2>6, <2>7 DEF Has
  <2>9. Follows(op, C, y)
    BY <1>b, <2>1, <2>2, <2>6 DEF Follows, Ended, y
  <2>10. \A i : Has(y.queue, i) => i # y.turn /\ Has(C.queue, i)
    <3>1. y.queue = Tail(q) /\ y.turn = q[1]
      BY <1>b, <2>1, <2>5 DEF y
    <3> QED BY <2>2, <2>5, <2>6, <3>1 DEF Has
  <2>11. Path(op, t, Append(u, y))
    <3>1. u # <<>> => u[Len(u)].type = "session" /\ Follows(op, u[Len(u)], y)
      BY <1>d, <2>3, <2>9
    <3>2. y.turn # t /\ \A k \in 1..Len(u) : u[k].type = "session" => u[k].turn # y.turn
      BY <1>a, <1>b, <2>1, <2>6, <2>8 DEF y, t
    <3> QED BY <1>d, <2>3, <2>4, <2>10, <3>1, <3>2, Moved
  <2>12. Path(op, t, Append(Append(u, y), y))
    <3>1. u[Len(u)].type = "session"
      BY <1>d, <2>3
    <3> QED BY <1>d, <2>3, <2>11, <3>1, Reported1
  <2> DEFINE z == Append(Append(u, y), y)
  <2>13. \A k \in 1..Len(u) : z[k] = u[k]
    <3> DEFINE w == Append(u, y)
    <3>1. w \in Seq(Event) /\ Len(w) = Len(u) + 1 /\ \A k \in 1..Len(u) : w[k] = u[k]
      BY <1>d, <2>3, AppendFacts
    <3> HIDE DEF w
    <3>2. \A k \in 1..Len(w) : Append(w, y)[k] = w[k]
      BY <1>d, <3>1, AppendFacts
    <3>3. z = Append(w, y)
      BY DEF w
    <3> HIDE DEF z
    <3> QED BY <1>a, <2>3, <3>1, <3>2, <3>3
  <2> HIDE DEF z
  <2>14. (\A k \in 1..Len(spool) : z[k] = spool[k]) /\ z[Len(spool) + 1] = C
    BY <1>a, <2>3, <2>13
  <2>15. spool = <<>> => First(z) = C
    <3>1. spool = <<>> => Len(spool) + 1 = 1
      OBVIOUS
    <3> QED BY <1>d, <2>14, <3>1 DEF First
  <2>16. Trail' = z
    BY <1>g, <2>1 DEF z
  <2>17. Stuck \/ Follows(op, Shown, First(z))
    BY <1>5, <1>a, <1>d, <1>f, <2>14, <2>15, FirstOf DEF t
  <2> QED BY <2>12, <2>16, <2>17 DEF t, z
<1> QED BY <1>a, <1>1, <1>3, <1>4, <1>5

-----------------------------------------------------------------------------
(* The rows of the Gateway and the head of the trail. *)

\* While the connection is in order the wire has the spool behind its receipts.
LEMMA OnTheWire ==
  ASSUME IInv, connected, ~blocked, NEW k \in 1..Len(spool)
  PROVE  \E q \in 1..Len(toGw) :
           /\ toGw[q] = spool[k] /\ (toGw[1].type = "receipt" => q > 1)
           /\ \A i : Queued(toGw, q, i) => Queued(spool, k, i)
<1>1. PICK g \in [1..Len(spool) -> 1..Len(toGw)] :
        /\ \A l \in 1..Len(spool) : toGw[g[l]] = spool[l]
        /\ \A l, m \in 1..Len(spool) : l < m => g[l] < g[m]
        /\ \A n \in 1..Len(toGw) : toGw[n].type # "receipt" => \E l \in 1..Len(spool) : g[l] = n
  BY DEF IInv, Line, Carries
<1>2. g[k] \in 1..Len(toGw) /\ toGw[g[k]] = spool[k] /\ spool[k] \in Event /\ spool[k].type # "receipt"
  BY <1>1, TrailFacts, Events
<1>3. toGw[1].type = "receipt" => g[k] # 1
  BY <1>2
<1>4. ASSUME NEW i, Queued(toGw, g[k], i) PROVE Queued(spool, k, i)
  <2>1. PICK n \in 1..Len(toGw) : n <= g[k] /\ toGw[n].type = "session" /\ Has(toGw[n].queue, i)
    BY <1>4 DEF Queued
  <2>2. PICK l \in 1..Len(spool) : g[l] = n
    BY <1>1, <2>1
  <2>3. l <= k
    <3>1. k < l => g[k] < g[l]
      BY <1>1
    <3>2. g[l] \in Nat /\ g[k] \in Nat /\ l \in Nat /\ k \in Nat
      BY <1>1
    <3> QED BY <2>1, <2>2, <3>1, <3>2
  <2>4. spool[l] = toGw[n]
    BY <1>1, <2>2
  <2> QED BY <2>1, <2>3, <2>4 DEF Queued
<1> QED BY <1>2, <1>3, <1>4

\* A message that is confirmed before its snapshot was taken is in the next one.
LEMMA FirstHas ==
  ASSUME IInv, MInv, native.state # "none", NEW i \in Ops, op[i].kind = "queue", journal[i] = "confirmed",
         connected, toGw # <<>>, Head(toGw) = Receipt(i, "confirmed"), ~Recorded(i), ~Stuck
  PROVE  Has(First(Trail).queue, i)
<1>a. /\ Beginning /\ Points /\ Paths /\ KeptByNode /\ BehindReceipt /\ BeforeTurnEnds /\ RefusedHead /\ Executed(i)
      /\ toGw \in Seq(ToGateway) /\ toGw[1] = Receipt(i, "confirmed") /\ 1 \in 1..Len(toGw) /\ Len(toGw) \in Nat
  <2>1. toGw \in Seq(ToGateway)
    BY TypeParts DEF IInv, FrameTypes
  <2> QED BY <2>1, TailFacts DEF MInv, Executed
<1>1. CASE spool = <<>>
  <2>1. Len(spool) = 0 /\ First(Trail) = Own /\ Own.queue = native.queue
    BY <1>1, TrailFacts DEF First
  <2>2. ~Queued(spool, Len(spool), i)
    BY <2>1 DEF Queued
  <2> QED BY <1>a, <2>1, <2>2 DEF KeptByNode
<1>2. CASE spool # <<>>
  <2>1. PICK k \in 1..Len(spool) :
          /\ k \in {1, 2} /\ First(Trail) = spool[k] /\ spool[k].type = "session"
          /\ k = 2 => spool[1].type # "session"
    BY <1>2, <1>a, FirstPlace
  <2>2. Queued(spool, k, i) => Has(First(Trail).queue, i)
    <3> SUFFICES ASSUME NEW l \in 1..Len(spool), l <= k, spool[l].type = "session", Has(spool[l].queue, i)
                 PROVE  Has(First(Trail).queue, i)
      BY DEF Queued
    <3>1. l = k
      BY <2>1
    <3> QED BY <2>1, <3>1
  <2>3. CASE ~blocked
    <3>1. PICK q \in 1..Len(toGw) : /\ toGw[q] = spool[k] /\ (toGw[1].type = "receipt" => q > 1)
                                    /\ \A j : Queued(toGw, q, j) => Queued(spool, k, j)
      BY <1>a, <2>3, OnTheWire
    <3>2. toGw[1].type = "receipt"
      BY <1>a DEF Receipt
    <3>3. Queued(toGw, q, i)
      BY <1>a, <2>1, <2>3, <3>1, <3>2 DEF BehindReceipt
    <3> QED BY <2>2, <3>1, <3>3
  <2>4. CASE blocked
    <3>1. /\ spool[1].type # "withdraw" /\ spool[1].type # "request" /\ ~GoingOn(spool[1], session.turn)
          /\ 1 \in 1..Len(spool) /\ spool[1] \in Event
      BY <1>a, <1>2, <2>4, TrailFacts DEF RefusedHead
    <3>2. spool[1].type = "session"
      BY <3>1, Events
    <3>3. k = 1
      BY <2>1, <3>2
    <3>4. Ahead(spool[1]) /\ spool[1].turn \in Ops
      BY <1>a, <3>1, <3>2, PointFacts, Events
    <3>5. ~GoingOn(spool[1], op[i].turn)
      <4>1. turns[op[i].turn] # "none"
        BY <1>a DEF Beginning
      <4> QED BY <3>1, <3>4, <4>1 DEF Ahead, GoingOn
    <3>6. Queued(spool, 1, i)
      BY <1>a, <3>1, <3>2, <3>5 DEF BeforeTurnEnds
    <3> QED BY <2>2, <3>3, <3>6
  <2> QED BY <2>3, <2>4
<1> QED BY <1>1, <1>2

\* The kinds of the operations that a trail names are settled.
LEMMA PathOfKinds ==
  ASSUME NEW o, NEW p, NEW t, NEW z, Path(o, t, z),
         \A k \in 1..Len(z) : z[k].type = "session" => p[z[k].turn].kind = o[z[k].turn].kind
  PROVE  Path(p, t, z)
<1> SUFFICES StepByStep(p, z)
  BY DEF Path
<1> SUFFICES ASSUME NEW k \in 1..Len(z), NEW l \in 1..Len(z), k < l, z[k].type = "session", z[l].type = "session",
                    Adjacent(z, k, l)
             PROVE  Follows(p, z[k], z[l])
  BY DEF StepByStep
<1>1. Follows(o, z[k], z[l])
  BY DEF Path, StepByStep
<1> QED BY <1>1 DEF Follows

\* What is refused stays so until it is taken.
LEMMA StuckStays ==
  ASSUME IInv, MInv, Next, Stuck, ~Ingest, spool' # <<>>, spool'[1] = spool[1]
  PROVE  Stuck'
<1>1. native.state # "none"
  BY DEF MInv, Beginning, Stuck
<1>2. overdue \subseteq overdue'
  <2>1. Submission => overdue' = overdue
    BY SubmissionKeeps
  <2>2. Answered => overdue' = overdue
    <3>1. Answered => UNCHANGED envVars
      BY Answer
    <3> QED BY <3>1 DEF envVars
  <2>3. RequestEnds => overdue' = overdue
    BY DEF RequestEnds, Expire, envVars
  <2>4. ByCommand => overdue' = overdue
    BY CommandForms DEF envVars
  <2>5. AgentStep => overdue' = overdue
    BY AgentForms DEF MInv
  <2> QED BY <2>1, <2>2, <2>3, <2>4, <2>5, SilentForms, Steps
<1>3. session'.turn = session.turn /\ (session.state = "cancelling" => session'.state = "cancelling")
  BY <1>1, SessionKept DEF Takes
<1> QED BY <1>2, <1>3 DEF Stuck, GoingOn

\* A receipt does not lead past the head of the trail.
LEMMA AnswerTrail ==
  ASSUME IInv, IInv', MInv, Next, Answered, native.state # "none", ~Stuck
  PROVE  Follows(op, Shown', First(Trail))
<1>a. /\ Paths /\ Follows(op, Shown, First(Trail)) /\ queue \in Seq(Ops) /\ QueueRows /\ RowTypes
      /\ session \in SessionRow
  BY TypeParts DEF IInv, MInv, Paths, RowTypes
<1>b. /\ Shown'.state = session'.state /\ Shown'.turn = session'.turn /\ Shown'.queue = queue'
      /\ Shown.state = session.state /\ Shown.turn = session.turn /\ Shown.queue = queue
  BY DEF Shown
<1>c. ~Ingest
  BY DEF Answered, Unsent, TakeReceipt, Ingest, ReadsEvent, Reads, nodeVars
<1> HIDE DEF Trail
<1> DEFINE f == First(Trail)
<1> HIDE DEF f
<1>1. CASE UNCHANGED <<session, queue>>
  <2>1. Shown' = Shown
    BY <1>1 DEF Shown
  <2> QED BY <1>a, <2>1
<1>2. CASE queue' = queue
  <2>1. CASE UNCHANGED session
    BY <1>1, <1>2, <2>1
  <2>2. CASE session'.turn = session.turn /\ session'.state = "cancelling" /\ isActive(session.state)
    <3>1. f.turn = session.turn /\ Adds(queue, f.queue)
      BY <1>a, <1>b, <2>2 DEF Follows, isActive, Waiting, Ended, f
    <3> QED BY <1>2, <1>b, <2>2, <3>1 DEF Follows, f
  <2> QED BY <1>c, <2>1, <2>2, SessionKept DEF Takes
<1>3. CASE queue' # queue
  <2>1. PICK i \in Ops :
          /\ op[i].state = "open" /\ Confirm(i) /\ Confirmable(i) /\ journal[i] = "confirmed"
          /\ connected /\ toGw # <<>> /\ Head(toGw) = Receipt(i, "confirmed")
    BY <1>3, Answer DEF dbVars, Fail
  <2>2. op[i].kind = "queue" /\ queue' = Append(queue, i) /\ ~Has(queue, i) /\ i \notin consumed
    BY <1>3, <1>a, <2>1, RangeHas DEF Confirm, Confirmable, QueueWith
  <2>3. session' = session
    BY <2>1, <2>2 DEF Confirm, Cancels
  <2>4. Has(f.queue, i)
    BY <2>1, <2>2, FirstHas DEF Recorded, f
  <2>5. ~Has(Tail(queue), i) \/ queue = <<>>
    BY <1>a, <2>2, TailFacts
  <2>6. f.turn = session.turn /\ Adds(queue, f.queue) /\ (session.state = "cancelling" \/ validTransition(session.state, f.state))
    BY <1>a, <1>b, <2>2, <2>4, <2>5 DEF Follows, f
  <2>7. f.queue = Append(queue, i)
    <3>1. PICK j \in Ops : f.queue = Append(queue, j)
      BY <2>2, <2>4, <2>6 DEF Adds
    <3>2. j = i
      BY <1>a, <2>2, <2>4, <3>1, AppendFacts
    <3> QED BY <3>1, <3>2
  <2> QED BY <1>b, <2>2, <2>3, <2>6, <2>7 DEF Follows, Adds, f
<1> QED BY <1>2, <1>3

LEMMA PathsStep ==
  ASSUME IInv, IInv', MInv, Next
  PROVE  Paths'
<1>a. /\ Paths /\ Points /\ Beginning /\ spool \in Seq(Event) /\ Len(spool) \in Nat
      /\ RowTypes /\ NodeTypes /\ native.queue \in Seq(Ops)
  BY TypeParts, TrailFacts DEF MInv, IInv
<1> SUFFICES ASSUME native'.state # "none"
             PROVE  Path(op', session'.turn, Trail') /\ (Stuck' \/ Follows(op', Shown', First(Trail')))
  BY DEF Paths
<1>b. /\ Own'.type = "session" /\ Own' \in Event /\ Trail' = Append(spool', Own')
      /\ Own'.turn = native'.turn /\ Own'.queue = native'.queue /\ Own'.state = native'.state
  BY TrailThen
<1>c. spool # <<>> /\ spool' # <<>> /\ spool'[1] = spool[1] /\ ~Ingest /\ Stuck => Stuck'
  BY StuckStays
<1>1. CASE native.state = "none"
  <2>1. ByCommand
    <3>1. ~AgentStep
      <4>1. CASE AgentStep
        BY <1>1, <4>1, AgentForms DEF MInv
      <4> QED BY <4>1
    <3> QED BY <1>1, <3>1, Steps, NativeKept
  <2>2. PICK i \in Ops : /\ op[i].state = "open" /\ op[i].kind \in Kinds \ {"none"} /\ Executable(i) /\ native' = Begun(i)
    BY <1>1, <2>1, CommandForms
  <2>3. op[i].kind = "create" /\ native'.state = "running" /\ native'.turn = i /\ native'.queue = native.queue
    BY <1>1, <1>a, <2>2, BegunFacts
  <2>4. i = 1 /\ admitted # 0
    BY <1>a, <2>3 DEF Beginning
  <2>5. /\ session.state = "idle" /\ session.turn = 1 /\ native.queue = <<>> /\ spool = <<>>
        /\ \A j \in Ops : ~Executed(j)
    BY <1>1, <1>a, <2>2, <2>4 DEF Beginning, IInv, Admissions
  <2>6. queue = <<>>
    <3>1. queue \in Seq(Ops) /\ \A n \in 1..Len(queue) : Executed(queue[n])
      BY <1>a DEF IInv, QueueRows, RowTypes
    <3>2. queue # <<>> => 1 \in 1..Len(queue)
      BY <3>1
    <3>3. 1 \in 1..Len(queue) => queue[1] \in Ops
      BY <3>1
    <3> QED BY <2>5, <3>1, <3>2, <3>3
  <2>7. spool' = <<>> /\ UNCHANGED <<session, queue, op>>
    BY <2>1, <2>5, CommandForms DEF dbVars
  <2>8. /\ Len(Trail') = 1 /\ Trail'[1] = Own'
    BY <2>7, TrailThen
  <2> HIDE DEF Own, Trail
  <2>9. First(Trail') = Own'
    BY <1>b, <2>8 DEF First
  <2>10. Own'.state = "running" /\ Own'.turn = 1 /\ Own'.queue = <<>>
    BY <1>b, <2>3, <2>4, <2>5
  <2>11. Follows(op', Shown', Own')
    BY <2>5, <2>6, <2>7, <2>10 DEF Follows, Shown, Adds, validTransition
  <2>12. Path(op', session'.turn, Trail')
    BY <1>b, <2>8, <2>10 DEF Path, Shape, NoReturn, NoRevival, NoRequeue, StepByStep, Has
  <2> QED BY <2>9, <2>11, <2>12
<1>2. CASE native.state # "none"
  <2>a. /\ Path(op, session.turn, Trail) /\ (Stuck \/ Follows(op, Shown, First(Trail)))
        /\ Trail \in Seq(Event) /\ Len(Trail) = Len(spool) + 1
        /\ session.state # "none" /\ session.turn \in Ops
    BY <1>2, <1>a, TrailFacts, SessionKept DEF Paths
  <2>1. CASE AgentStep
    <3>1. UNCHANGED dbVars
      BY <2>1, RowsKept
    <3>2. Shown' = Shown /\ UNCHANGED <<op, session>>
      BY <3>1 DEF Shown, dbVars
    <3>3. PICK es : Sends(es)
      BY <2>1, AgentForms DEF MInv
    <3>4. es \in Seq(Event) /\ spool' = spool \o es /\ ~Ingest
      BY <2>1, <3>1, <3>3, NewsFacts, Taken DEF Sends, Sent, AgentStep, Finish, Ask, Withdraw, Complete, CompleteOnly, Close, Ingest, nodeVars, MInv
    <3>5. spool # <<>> => spool' # <<>> /\ spool'[1] = spool[1]
      <4>1. \A k \in 1..Len(spool) : (spool \o es)[k] = spool[k] /\ k \in 1..Len(spool \o es)
        BY <1>a, <3>4, Grown
      <4>2. spool # <<>> => 1 \in 1..Len(spool)
        BY <1>a
      <4>3. 1 \in 1..Len(spool \o es) => spool \o es # <<>>
        OBVIOUS
      <4> QED BY <3>4, <4>1, <4>2, <4>3, Zenon
    <3>6. Stuck => spool # <<>>
      BY DEF Stuck
    <3> QED BY <1>c, <2>1, <3>2, <3>4, <3>5, <3>6, AgentTrail
  <2>2. CASE ByCommand
    <3>1. UNCHANGED <<spool, op, session, queue>>
      BY <2>2, CommandForms DEF dbVars
    <3>2. Leads(op, session.turn, spool, Own')
      BY <1>2, <2>2, CommandLeads
    <3>3. Shown' = Shown /\ ~Ingest
      <4>1. ~Ingest
        <5>1. Ingest => spool # <<>> /\ spool' = Tail(spool)
          BY Taken
        <5>2. spool # <<>> => Len(Tail(spool)) = Len(spool) - 1
          BY <1>a, TailFacts
        <5>3. spool' = Tail(spool) => Len(spool') = Len(Tail(spool))
          OBVIOUS
        <5>4. Len(spool') = Len(spool)
          BY <3>1
        <5> QED BY <1>a, <5>1, <5>2, <5>3, <5>4
      <4> QED BY <3>1, <4>1 DEF Shown
    <3>4. Stuck => spool # <<>>
      BY DEF Stuck
    <3> QED BY <1>b, <1>c, <3>1, <3>2, <3>3, <3>4 DEF Leads
  <2>3. CASE Ingest
    <3>1. /\ native' = native /\ op' = op /\ spool # <<>> /\ spool' = Tail(spool) /\ spool[1] \in Event
          /\ \/ spool[1].type = "session" /\ AcceptsSession(spool[1]) /\ sessionUpdate(spool[1])
             \/ spool[1].type = "request" /\ AcceptsRequest(spool[1]) /\ requestCreate(spool[1])
             \/ spool[1].type = "withdraw" /\ AcceptsWithdrawal(spool[1]) /\ requestCancel(spool[1])
      BY <2>3, Taken
    <3>2. Trail' = Tail(Trail)
      <4>1. Own' = Own /\ Own \in Event
        BY <1>2, <3>1, TrailFacts DEF Own
      <4>2. ASSUME NEW s \in Seq(Event), s # <<>>, NEW x \in Event
            PROVE  Append(Tail(s), x) = Tail(Append(s, x))
        <5> DEFINE u == Append(Tail(s), x)
                   v == Append(s, x)
        <5>1. /\ Tail(s) \in Seq(Event) /\ Len(s) \in Nat /\ Len(Tail(s)) = Len(s) - 1
              /\ \A n \in 1..Len(Tail(s)) : n + 1 \in 1..Len(s) /\ Tail(s)[n] = s[n + 1]
          BY <4>2, TailFacts
        <5>2. /\ u \in Seq(Event) /\ Len(u) = Len(Tail(s)) + 1 /\ u[Len(Tail(s)) + 1] = x
              /\ \A n \in 1..Len(Tail(s)) : u[n] = Tail(s)[n]
          BY <4>2, <5>1, AppendFacts
        <5>3. /\ v \in Seq(Event) /\ Len(v) = Len(s) + 1 /\ v[Len(s) + 1] = x
              /\ \A n \in 1..Len(s) : v[n] = s[n]
          BY <4>2, AppendFacts
        <5> HIDE DEF u, v
        <5>4. v # <<>>
          BY <5>1, <5>3
        <5>5. /\ Tail(v) \in Seq(Event) /\ Len(Tail(v)) = Len(v) - 1
              /\ \A n \in 1..Len(Tail(v)) : Tail(v)[n] = v[n + 1]
          BY <5>3, <5>4, TailFacts
        <5>6. Len(u) = Len(Tail(v)) /\ Len(u) = Len(s)
          BY <5>1, <5>2, <5>3, <5>5
        <5>7. ASSUME NEW n \in 1..Len(u) PROVE u[n] = Tail(v)[n]
          <6>1. Tail(v)[n] = v[n + 1]
            BY <5>5, <5>6
          <6>2. CASE n \in 1..Len(Tail(s))
            BY <5>1, <5>2, <5>3, <6>1, <6>2
          <6>3. CASE n = Len(s)
            BY <5>1, <5>2, <5>3, <6>1, <6>3
          <6>4. n \in 1..Len(s)
            BY <5>6
          <6>5. ASSUME NEW m \in Nat, NEW l, l = m - 1, n \in 1..m PROVE n \in 1..l \/ n = m
            BY <6>5
          <6> QED BY <5>1, <6>2, <6>3, <6>4, <6>5
        <5> QED BY <5>2, <5>5, <5>6, <5>7, SeqEqual DEF u, v
      <4> QED BY <1>a, <1>b, <3>1, <4>1, <4>2 DEF Trail
    <3>3. Trail[1] = spool[1] /\ Len(Trail) >= 2
      <4>1. 1 \in 1..Len(spool)
        BY <1>a, <3>1
      <4> QED BY <1>2, <1>a, <2>a, <4>1, TrailFacts
    <3>4. /\ Path(op, IF spool[1].type = "session" THEN spool[1].turn ELSE session.turn, Tail(Trail))
          /\ spool[1].type # "session" => First(Trail) = First(Tail(Trail))
          /\ spool[1].type = "session" => Follows(op, spool[1], First(Tail(Trail)))
      BY <2>a, <3>3, Dropped
    <3> HIDE DEF Trail, Own
    <3>5. CASE spool[1].type = "session"
      <4>1. Takes
        BY <2>3, <3>1, <3>5 DEF Takes
      <4>2. session' = [state |-> spool[1].state, turn |-> spool[1].turn] /\ queue' = spool[1].queue
        BY <4>1, TakesFacts DEF MInv
      <4>3. Shown'.state = spool[1].state /\ Shown'.turn = spool[1].turn /\ Shown'.queue = spool[1].queue
        BY <4>2 DEF Shown
      <4> QED BY <3>1, <3>2, <3>4, <3>5, <4>2, <4>3 DEF Follows
    <3>6. CASE spool[1].type # "session"
      <4>1. UNCHANGED <<session, queue>>
        BY <3>1, <3>6 DEF requestCreate, requestCancel
      <4>2. ~Stuck
        BY <3>1, <3>6 DEF Stuck, GoingOn, AcceptsRequest
      <4>3. Shown' = Shown
        BY <4>1 DEF Shown
      <4> QED BY <2>a, <3>1, <3>2, <3>4, <3>6, <4>1, <4>2, <4>3
    <3> QED BY <3>5, <3>6
  <2>4. CASE Connect
    <3>1. /\ native' = native /\ UNCHANGED <<op, session, queue>> /\ spool' = Append(spool, Own) /\ Own' = Own /\ ~Ingest
      BY <1>2, <2>4 DEF Connect, dbVars, Own, Ingest, ReadsEvent, Reads
    <3>2. Own \in Event /\ Own.type = "session" /\ Own.state = native.state
      BY <1>2, TrailFacts
    <3>3. spool # <<>> => spool[Len(spool)].type = "session"
      BY <1>2, <1>a, LatestFollowed
    <3>4. Leads(op, session.turn, spool, Own)
      BY <2>a DEF Leads, Trail
    <3> HIDE DEF Own
    <3>5. Path(op, session.turn, Append(Append(spool, Own), Own))
      BY <1>2, <1>a, <3>2, <3>3, <3>4, Reported1 DEF Leads
    <3> DEFINE u == Append(spool, Own)
               z == Append(u, Own)
    <3>6. u \in Seq(Event) /\ Len(u) = Len(spool) + 1 /\ u[Len(spool) + 1] = Own /\ \A k \in 1..Len(spool) : u[k] = spool[k]
      BY <1>a, <3>2, AppendFacts
    <3>7. Trail' = z /\ spool' = u
      BY <1>b, <3>1
    <3> HIDE DEF u
    <3>8. \A k \in 1..Len(u) : z[k] = u[k]
      BY <3>2, <3>6, AppendFacts
    <3> HIDE DEF z
    <3>9. (\A k \in 1..Len(spool) : z[k] = spool[k]) /\ z[Len(spool) + 1] = Own
      BY <1>a, <3>6, <3>8
    <3>10. spool = <<>> => First(z) = Own
      <4>1. spool = <<>> => Len(spool) + 1 = 1
        OBVIOUS
      <4> QED BY <3>2, <3>9, <4>1 DEF First
    <3>11. Stuck \/ Follows(op, Shown, First(z))
      BY <1>2, <1>a, <3>2, <3>4, <3>9, <3>10, FirstOf
    <3>12. Stuck => Stuck'
      <4>1. Stuck => spool # <<>> /\ 1 \in 1..Len(spool)
        BY <1>a DEF Stuck
      <4>2. u # <<>>
        BY <1>a, <3>6
      <4> QED BY <1>a, <1>c, <3>1, <3>6, <3>7, <4>1, <4>2
    <3>13. Shown' = Shown
      BY <3>1 DEF Shown
    <3> QED BY <3>1, <3>5, <3>7, <3>11, <3>12, <3>13 DEF z, u
  <2>5. CASE ~AgentStep /\ ~ByCommand /\ ~Ingest /\ ~Connect
    <3>1. spool' = spool /\ native' = native
      BY <2>5, Steps, NativeKept, SpoolForms
    <3>2. Trail' = Trail
      BY <3>1 DEF Trail, Own
    <3>3. session'.turn = session.turn
      BY <1>2, <2>5, SessionKept DEF Takes
    <3>4. \A k \in 1..Len(Trail) : Trail[k].type = "session" => op'[Trail[k].turn].kind = op[Trail[k].turn].kind
      <4> SUFFICES ASSUME NEW k \in 1..Len(Trail), Trail[k].type = "session"
                   PROVE  op'[Trail[k].turn].kind = op[Trail[k].turn].kind
        OBVIOUS
      <4>1. Trail[k] \in Event /\ Ahead(Trail[k])
        BY <1>2, <1>a, <2>a DEF Points
      <4>2. Trail[k].turn \in Ops /\ Executed(Trail[k].turn)
        BY <4>1, Events DEF Ahead
      <4> QED BY <4>2, ExecutedStays, KindsKept
    <3>5. Path(op', session.turn, Trail)
      BY <2>a, <3>4, PathOfKinds
    <3>6. CASE Stuck
      <4>1. spool # <<>>
        BY <3>6 DEF Stuck
      <4> QED BY <1>c, <2>5, <3>1, <3>2, <3>3, <3>5, <3>6, <4>1
    <3>7. CASE ~Stuck
      <4>1. Follows(op, Shown', First(Trail))
        <5>1. CASE Answered
          BY <1>2, <3>7, <5>1, AnswerTrail
        <5>2. CASE ~Answered
          <6>1. UNCHANGED <<session, queue>>
            <7>1. CASE Submission
              <8>1. ~Starts /\ ~Breaks /\ ~Takes
                BY <1>2, <2>5 DEF Starts, Breaks, Takes
              <8>2. \A c \in Ops : ~Marks(c)
                BY <5>2 DEF Marks
              <8> QED BY <1>a, <7>1, <8>1, <8>2, SessionChange, SubmissionKeeps
            <7>2. CASE RequestEnds
              BY <7>2 DEF RequestEnds, Expire
            <7>3. CASE Silent
              BY <7>3, SilentForms DEF dbVars
            <7> QED BY <2>5, <5>2, <7>1, <7>2, <7>3, Steps
          <6>2. Shown' = Shown
            BY <6>1 DEF Shown
          <6> QED BY <2>a, <3>7, <6>2
        <5> QED BY <5>1, <5>2
      <4>2. op'[First(Trail).turn].kind = op[First(Trail).turn].kind
        <5>1. Shape(Trail) /\ 1 \in 1..Len(Trail)
          BY <1>a, <2>a DEF Path
        <5>2. Trail[1].type # "session" => 2 \in 1..Len(Trail) /\ Trail[2].type = "session"
          BY <1>a, <2>a, <5>1 DEF Shape
        <5> QED BY <3>4, <5>1, <5>2 DEF First
      <4>3. Follows(op', Shown', First(Trail))
        BY <4>1, <4>2 DEF Follows
      <4> QED BY <3>2, <3>3, <3>5, <4>3
    <3> QED BY <3>6, <3>7
  <2> QED BY <2>1, <2>2, <2>3, <2>4, <2>5
<1> QED BY <1>1, <1>2

-----------------------------------------------------------------------------
(* The last report. *)

\* A message that becomes known by its receipt.
LEMMA QueuedByReceipt ==
  ASSUME IInv, Answered, queue' # queue
  PROVE  \E i \in Ops :
           /\ op[i].kind = "queue" /\ journal[i] = "confirmed" /\ ~Recorded(i) /\ queue' = Append(queue, i)
           /\ UNCHANGED <<session, turns>>
           /\ connected /\ toGw # <<>> /\ Head(toGw) = Receipt(i, "confirmed")
<1>a. queue \in Seq(Ops)
  BY TypeParts DEF IInv, RowTypes
<1>1. PICK i \in Ops :
        /\ op[i].state = "open" /\ Confirm(i) /\ Confirmable(i) /\ journal[i] = "confirmed"
        /\ connected /\ toGw # <<>> /\ Head(toGw) = Receipt(i, "confirmed")
  BY Answer DEF dbVars, Fail
<1>2. op[i].kind = "queue" /\ queue' = Append(queue, i) /\ ~Has(queue, i) /\ i \notin consumed
  BY <1>a, <1>1, RangeHas DEF Confirm, Confirmable, QueueWith
<1>3. UNCHANGED <<session, turns>>
  BY <1>1, <1>2 DEF Confirm, Cancels
<1> QED BY <1>1, <1>2, <1>3 DEF Recorded

\* A receipt does not change that the rows show what the Node is.
LEMMA AnswerLevel ==
  ASSUME IInv, MInv, Next, Answered, native.state # "none"
  PROVE  /\ Level => Level'
         /\ native.working /\ Latest.turn = native.turn /\ Latest.state = native.state
            => Latest'.turn = native.turn /\ Latest'.state = native.state
         /\ native' = native /\ doing' = doing /\ connected' = connected /\ spool' = spool
<1>a. /\ native' = native /\ doing' = doing /\ connected' = connected /\ spool' = spool
  <2>1. UNCHANGED nodeVars /\ connected' = connected
    BY Answer
  <2> QED BY <2>1 DEF nodeVars
<1>b. /\ Shown'.state = session'.state /\ Shown'.turn = session'.turn /\ Shown'.queue = queue'
      /\ Shown.state = session.state /\ Shown.turn = session.turn /\ Shown.queue = queue
  BY DEF Shown
<1>1. CASE spool # <<>>
  <2>1. Latest' = Latest
    BY <1>1, <1>a DEF Latest
  <2> QED BY <1>1, <1>a, <2>1 DEF Level
<1>2. CASE spool = <<>>
  <2>1. Latest = Shown /\ Latest' = Shown'
    BY <1>2, <1>a DEF Latest
  <2>2. CASE UNCHANGED <<session, queue>>
    <3>1. Shown' = Shown /\ (LostCancel => LostCancel')
      BY <1>a, <2>2 DEF Shown, LostCancel
    <3> QED BY <1>a, <2>1, <3>1 DEF Level
  <2>3. CASE queue' # queue
    <3>1. PICK i \in Ops : /\ op[i].kind = "queue" /\ journal[i] = "confirmed" /\ ~Recorded(i)
                           /\ UNCHANGED <<session, turns>>
      BY <2>3, QueuedByReceipt
    <3>2. Has(native.queue, i)
      <4>1. ~Queued(spool, Len(spool), i)
        BY <1>2 DEF Queued
      <4> QED BY <3>1, <4>1 DEF MInv, KeptByNode, Executed
    <3>3. ~Level
      BY <1>b, <2>1, <3>1, <3>2 DEF Level, Recorded
    <3> QED BY <1>a, <1>b, <2>1, <3>1, <3>3
  <2>4. ASSUME queue' = queue, NEW c \in Ops, Marks(c)
        PROVE  /\ Level => Level'
               /\ ~(native.working /\ Latest.turn = native.turn /\ Latest.state = native.state)
    <3>1. /\ op[c].kind = "cancel" /\ Executed(c) /\ op[c].turn = session.turn
          /\ session.state # "cancelling" /\ isActive(session.state)
      BY <2>4 DEF Marks, Executed
    <3>2. session'.turn = session.turn /\ session'.state = "cancelling"
      BY <2>4, TypeParts DEF Marks, IInv, RowTypes, SessionRow
    <3>3. session.turn = native.turn => ~native.working
      BY <3>1 DEF MInv, CancelledWork
    <3>4. ASSUME Level PROVE Level'
      <4>1. session.turn = native.turn /\ queue = native.queue /\ session.state = native.state
        BY <1>b, <2>1, <3>1, <3>4 DEF Level, LostCancel
      <4>2. native.state \in OnTurn
        BY <3>1, <4>1 DEF MInv, Engaged, isActive, OnTurn, Waiting
      <4>3. LostCancel'
        BY <1>a, <3>2, <3>3, <4>1, <4>2 DEF LostCancel, OnTurn
      <4> QED BY <1>2, <1>a, <1>b, <2>1, <2>4, <3>2, <4>1, <4>3 DEF Level
    <3> QED BY <1>b, <2>1, <3>3, <3>4
  <2>5. ~Takes
    BY DEF Takes, Answered, Unsent, TakeReceipt, Ingest, ReadsEvent, Reads, nodeVars
  <2> QED BY <1>a, <2>2, <2>3, <2>4, <2>5, SessionKept
<1> QED BY <1>1, <1>2

LEMMA LevelsStep ==
  ASSUME IInv, IInv', MInv, Next
  PROVE  Levels'
<1>a. /\ Levels /\ Engaged /\ Beginning /\ spool \in Seq(Event) /\ Len(spool) \in Nat /\ NodeTypes /\ NodeSession
      /\ native \in NativeSession
  BY TypeParts, TrailFacts DEF MInv, IInv, NodeTypes
<1> SUFFICES ASSUME native'.state # "none"
             PROVE  /\ connected' /\ doing' = 0 => Level'
                    /\ native'.state \in Over => Level'
                    /\ doing' # 0 /\ op'[doing'].kind \in {"cancel", "respond"} => Level'
                    /\ native'.working => Latest'.turn = native'.turn /\ Latest'.state = native'.state
  BY DEF Levels
<1>b. ASSUME spool' # <<>>, spool'[Len(spool')] = Own'
      PROVE  Level' /\ Latest'.turn = native'.turn /\ Latest'.state = native'.state
  <2>1. Latest' = Own'
    BY <1>b DEF Latest
  <2> QED BY <2>1, TrailThen DEF Level
<1>c. \A x : Append(spool, x) # <<>>
  BY <1>a
<1>1. CASE AgentStep
  <2>1. QuietForm \/ AskForm \/ WithdrawForm \/ NextForm
    BY <1>1, AgentForms DEF MInv
  <2>2. Snapshot(native') = Own' /\ Own' \in Event
    BY TrailThen DEF Own
  <2>3. \E s \in Seq(Event) : spool' = Append(s, Own')
    <3>1. \A e \in Event : Append(spool, e) \in Seq(Event)
      BY <1>a
    <3>2. Snapshot(Completed) \in Event
      BY <1>1, AgentForms DEF MInv
    <3>3. AskForm => Asking(asked', native.turn) \in Event
      BY <1>1, <1>a, AgentForms, TrailFacts, ConstantsAssumption DEF AskForm, Asking, Event, Requests, MInv
    <3>4. WithdrawForm => Withdrawal(native.request, native.turn) \in Event
      <4> SUFFICES ASSUME WithdrawForm PROVE Withdrawal(native.request, native.turn) \in Event
        OBVIOUS
      <4>1. native.request \in Requests /\ native.turn \in Ops
        BY <1>a, TrailFacts DEF WithdrawForm, NodeSession, NativeSession
      <4> QED BY <4>1 DEF Withdrawal, Event
    <3> QED BY <1>a, <2>1, <2>2, <3>1, <3>2, <3>3, <3>4 DEF QuietForm, AskForm, WithdrawForm, NextForm
  <2>4. spool' # <<>> /\ spool'[Len(spool')] = Own'
    <3>1. PICK s \in Seq(Event) : spool' = Append(s, Own')
      BY <2>3
    <3> QED BY <2>2, <3>1, AppendFacts
  <2> QED BY <1>b, <2>4
<1>2. CASE Connect /\ native.state # "none"
  <2>1. spool' = Append(spool, Own) /\ Own' = Own /\ Own \in Event
    BY <1>2, TrailFacts DEF Connect, Own
  <2>2. spool' # <<>> /\ spool'[Len(spool')] = Own'
    BY <1>a, <1>c, <2>1, AppendFacts
  <2> QED BY <1>b, <2>2
<1>3. CASE Ingest
  <2>1. /\ native' = native /\ doing' = doing /\ connected' = connected /\ op' = op
        /\ spool # <<>> /\ spool' = Tail(spool)
    BY <1>3, Taken
  <2>2. native.state # "none"
    BY <2>1
  <2>3. Latest = spool[Len(spool)] /\ spool[Len(spool)].type = "session" /\ Len(spool) \in 1..Len(spool)
    BY <2>1, <2>2, LatestFollowed DEF MInv
  <2>4. /\ Latest'.turn = Latest.turn /\ Latest'.queue = Latest.queue /\ Latest'.state = Latest.state
    <3>1. CASE Tail(spool) # <<>>
      <4>1. /\ Len(Tail(spool)) = Len(spool) - 1 /\ Tail(spool) \in Seq(Event)
            /\ \A n \in 1..Len(Tail(spool)) : Tail(spool)[n] = spool[n + 1]
        BY <1>a, <2>1, TailFacts
      <4>2. Len(Tail(spool)) \in 1..Len(Tail(spool))
        BY <3>1, <4>1
      <4>3. Tail(spool)[Len(Tail(spool))] = spool[Len(spool)]
        <5>1. Tail(spool)[Len(Tail(spool))] = spool[Len(Tail(spool)) + 1] /\ Len(Tail(spool)) + 1 = Len(spool)
          BY <1>a, <4>1, <4>2
        <5> QED BY <5>1
      <4> QED BY <2>1, <2>3, <3>1, <4>3 DEF Latest
    <3>2. CASE Tail(spool) = <<>>
      <4>1. Len(spool) = 1
        <5>1. Len(Tail(spool)) = Len(spool) - 1 /\ Len(spool) \in Nat
          BY <1>a, <2>1, TailFacts
        <5>2. Len(<<>>) = 0
          OBVIOUS
        <5>3. Len(Tail(spool)) = 0
          BY <3>2, <5>2, Zenon
        <5> QED BY <5>1, <5>3
      <4>2. Takes
        BY <1>3, <2>3, <4>1, Taken DEF Takes
      <4>3. session' = [state |-> spool[1].state, turn |-> spool[1].turn] /\ queue' = spool[1].queue
        BY <4>2, TakesFacts DEF MInv
      <4>4. Latest' = Shown'
        BY <2>1, <3>2 DEF Latest
      <4> QED BY <2>3, <4>1, <4>3, <4>4 DEF Shown
    <3> QED BY <3>1, <3>2
  <2>5. Level => Level'
    BY <2>1, <2>4 DEF Level
  <2> QED BY <1>a, <2>1, <2>4, <2>5 DEF Levels
<1>4. CASE Answered
  <2>1. native' = native
    BY <1>4, Steps, NativeKept
  <2>2. /\ Level => Level'
        /\ native.working /\ Latest.turn = native.turn /\ Latest.state = native.state
           => Latest'.turn = native.turn /\ Latest'.state = native.state
        /\ doing' = doing /\ connected' = connected
    BY <1>4, <2>1, AnswerLevel
  <2>3. doing # 0 => op'[doing].kind = op[doing].kind
    BY <1>a, KindsKept DEF NodeSession, NodeTypes
  <2> QED BY <1>a, <2>1, <2>2, <2>3 DEF Levels
<1>5. ASSUME UNCHANGED <<spool, native, session, queue>>, connected' /\ doing' = 0 => connected /\ doing = 0,
             doing' # 0 => doing' = doing /\ (op'[doing].kind = op[doing].kind)
      PROVE  /\ connected' /\ doing' = 0 => Level'
             /\ native'.state \in Over => Level'
             /\ doing' # 0 /\ op'[doing'].kind \in {"cancel", "respond"} => Level'
             /\ native'.working => Latest'.turn = native'.turn /\ Latest'.state = native'.state
  <2>1. Latest' = Latest /\ (LostCancel => LostCancel')
    BY <1>5 DEF Latest, Shown, LostCancel
  <2>2. Level => Level'
    BY <1>5, <2>1 DEF Level
  <2> QED BY <1>5, <1>a, <2>1, <2>2 DEF Levels
<1>6. CASE ByCommand
  <2>1. /\ connected /\ doing = 0 /\ UNCHANGED <<spool, session, queue, op>>
    BY <1>6, CommandForms DEF dbVars
  <2>2. PICK i \in Ops :
          /\ op[i].kind \in Kinds \ {"none"}
          /\ \/ native' = native /\ doing' = 0
             \/ Executable(i) /\ native' = Begun(i) /\ doing' \in {0, i}
          /\ native' # native => doing' # 0 \/ Gone
    BY <1>6, CommandForms
  <2>3. CASE native' = native /\ doing' = 0
    BY <1>5, <2>1, <2>3
  <2>4. CASE Executable(i) /\ native' = Begun(i) /\ doing' \in {0, i} /\ op[i].kind \in {"create", "send"}
    <3>1. /\ native'.state = "running" /\ native'.working = native.working
          /\ op[i].kind = "create" => native.state = "none"
      BY <1>a, <2>2, <2>4, BegunFacts
    <3>2. native.state = "none" \/ native.state \in Ended
      BY <2>4, <3>1 DEF Executable
    <3>3. ~native.working
      BY <1>a, <3>2 DEF Engaged, Beginning, OnTurn, Waiting, Ended
    <3>4. native' # native
      BY <3>1, <3>2 DEF Ended
    <3>5. ~(connected' /\ doing' = 0)
      BY <2>2, <3>4 DEF Gone
    <3>6. native'.state \notin Over
      BY <3>1 DEF Over, Ended
    <3> QED BY <2>1, <2>4, <3>1, <3>3, <3>5, <3>6
  <2>5. CASE Executable(i) /\ native' = Begun(i) /\ doing' \in {0, i} /\ op[i].kind = "queue"
    <3>1. /\ native'.state = native.state /\ native'.turn = native.turn /\ native'.working = native.working
          /\ native'.queue = Append(native.queue, i) /\ native.state # "none"
      BY <1>a, <2>2, <2>5, BegunFacts
    <3>2. native.state \in OnTurn
      BY <2>5 DEF Executable, OnTurn
    <3>3. native' # native
      <4>1. Len(native'.queue) = Len(native.queue) + 1 /\ Len(native.queue) \in Nat
        BY <1>a, <3>1, TrailFacts, AppendFacts
      <4> QED BY <4>1
    <3>4. ~(connected' /\ doing' = 0)
      BY <2>2, <3>3 DEF Gone
    <3>5. native'.state \notin Over
      BY <3>1, <3>2 DEF Over, Ended, OnTurn, Waiting
    <3>6. Latest' = Latest
      BY <2>1 DEF Latest, Shown
    <3> QED BY <1>a, <2>1, <2>5, <3>1, <3>4, <3>5, <3>6 DEF Levels
  <2>6. CASE Executable(i) /\ native' = Begun(i) /\ doing' \in {0, i} /\ op[i].kind \in {"cancel", "respond"}
    <3>1. /\ native'.state = native.state /\ native'.turn = native.turn /\ native'.queue = native.queue
          /\ native'.working \in {native.working, FALSE} /\ native.state # "none"
      BY <1>a, <2>2, <2>6, BegunFacts
    <3>2. Latest' = Latest
      BY <2>1 DEF Latest, Shown
    <3>3. Level
      BY <1>a, <2>1, <3>1 DEF Levels
    <3>4. LostCancel => LostCancel'
      BY <2>1, <3>1 DEF LostCancel
    <3>5. Level'
      BY <2>1, <3>1, <3>2, <3>3, <3>4 DEF Level
    <3> QED BY <1>a, <3>1, <3>2, <3>5 DEF Levels
  <2> QED BY <2>2, <2>3, <2>4, <2>5, <2>6 DEF Kinds
<1>7. CASE Submission \/ RequestEnds \/ (Silent /\ ~Connect)
  <2>1. native' = native
    BY <1>7, NativeKept
  <2>2. UNCHANGED <<spool, session, queue>>
    <3>1. CASE Submission
      <4>1. ~Starts /\ ~Breaks /\ ~Takes /\ \A c \in Ops : ~Marks(c)
        <5>1. ~Answered /\ ~Ingest
          <6>1. UNCHANGED toGw /\ UNCHANGED nodeVars /\ admitted' = admitted + 1 /\ admitted \in Nat
            BY <3>1, SubmissionKeeps, Admission, TypeParts DEF IInv, CountTypes
          <6>2. ~Answered
            BY <6>1, Answer DEF envVars
          <6>3. ~Ingest
            BY <6>1, Taken DEF envVars
          <6> QED BY <6>2, <6>3
        <5> QED BY <2>1, <5>1 DEF Starts, Breaks, Takes, Marks
      <4> QED BY <1>a, <3>1, <4>1, SessionChange, SubmissionKeeps DEF nodeVars
    <3>2. CASE RequestEnds
      BY <3>2 DEF RequestEnds, Expire, nodeVars
    <3>3. CASE Silent /\ ~Connect
      <4>1. UNCHANGED dbVars /\ spool' = spool
        BY <3>3, SilentForms
      <4> QED BY <2>1, <4>1 DEF dbVars
    <3> QED BY <1>7, <3>1, <3>2, <3>3
  <2>3. connected' /\ doing' = 0 => connected /\ doing = 0
    <3>1. CASE Submission
      BY <3>1, SubmissionKeeps DEF nodeVars, peerVars
    <3>2. CASE RequestEnds
      BY <3>2 DEF RequestEnds, Expire, nodeVars, peerVars
    <3>3. CASE Silent /\ ~Connect
      <4>1. doing' = doing \/ ~connected'
        BY <3>3 DEF Silent, Disconnect, Refuse, AnswerQuery, ReadError, Replays, TakeReplay, TakeAck, Pass, Gone, nodeVars, peerVars
      <4>2. connected' => connected
        BY <3>3 DEF Silent, Disconnect, Refuse, AnswerQuery, ReadError, Replays, TakeReplay, TakeAck, Pass, Gone, nodeVars, peerVars
      <4> QED BY <4>1, <4>2
    <3> QED BY <1>7, <3>1, <3>2, <3>3
  <2>4. doing' # 0 => doing' = doing
    BY <1>7, NativeKept
  <2>5. doing # 0 => op'[doing].kind = op[doing].kind
    BY <1>a, KindsKept DEF NodeSession, NodeTypes
  <2> QED BY <1>5, <2>1, <2>2, <2>3, <2>4, <2>5
<1>8. Connect => native.state # "none"
  BY DEF Connect
<1> QED BY <1>1, <1>2, <1>3, <1>4, <1>6, <1>7, <1>8, Steps

-----------------------------------------------------------------------------
(* Where a queued message is. *)

\* An event of the spool stays in it, or was taken.
LEMMA SnapshotStays ==
  ASSUME IInv, MInv, Next, NEW k \in 1..Len(spool)
  PROVE  \/ Ingest /\ k = 1
         \/ Ingest /\ k - 1 \in 1..Len(spool') /\ spool'[k - 1] = spool[k]
         \/ ~Ingest /\ k \in 1..Len(spool') /\ spool'[k] = spool[k]
<1>a. spool \in Seq(Event) /\ Engaged /\ Len(spool) \in Nat
  BY TrailFacts DEF MInv
<1>1. CASE Ingest
  <2>1. spool # <<>> /\ spool' = Tail(spool)
    BY <1>1, Taken
  <2>2. /\ Len(Tail(spool)) = Len(spool) - 1
        /\ \A n \in 1..Len(Tail(spool)) : Tail(spool)[n] = spool[n + 1]
    BY <1>a, <2>1, TailFacts
  <2>3. k # 1 => k - 1 \in 1..Len(Tail(spool)) /\ (k - 1) + 1 = k
    BY <1>a, <2>2
  <2> QED BY <1>1, <2>1, <2>2, <2>3
<1>2. CASE AgentStep
  <2>1. PICK es : Sends(es)
    BY <1>2, <1>a, AgentForms
  <2>2. es \in Seq(Event) /\ spool' = spool \o es
    BY <2>1 DEF Sends, Sent
  <2>3. (spool \o es)[k] = spool[k] /\ k \in 1..Len(spool \o es)
    BY <1>a, <2>2, Grown
  <2>4. spool'[k] = spool[k] /\ k \in 1..Len(spool')
    BY <2>2, <2>3, Zenon
  <2> QED BY <1>1, <2>4
<1>3. CASE Connect /\ native.state # "none" /\ spool' = Append(spool, Own) /\ native' = native
  <2>1. Own \in Event
    BY <1>3, TrailFacts
  <2>2. spool'[k] = spool[k] /\ k \in 1..Len(spool')
    BY <1>3, <1>a, <2>1, AppendFacts
  <2> QED BY <1>1, <2>2
<1>4. CASE spool' = spool /\ ~Ingest /\ ~AgentStep
  BY <1>4
<1> QED BY <1>1, <1>2, <1>3, <1>4, SpoolForms

\* What showed a message goes on showing it, or the message is recorded.
LEMMA QueuedStays ==
  ASSUME IInv, MInv, Next, NEW m \in 1..Len(spool), NEW i \in Ops, Queued(spool, m, i)
  PROVE  \/ RecordedThen(i)
         \/ Ingest /\ Queued(spool', m - 1, i)
         \/ ~Ingest /\ Queued(spool', m, i)
<1>a. spool \in Seq(Event) /\ Len(spool) \in Nat
  BY TrailFacts
<1>1. PICK k \in 1..Len(spool) : k <= m /\ spool[k].type = "session" /\ Has(spool[k].queue, i)
  BY DEF Queued
<1>2. CASE Ingest /\ k = 1
  <2>1. Takes
    BY <1>1, <1>2, Taken DEF Takes
  <2>2. queue' = spool[1].queue
    BY <2>1, TakesFacts DEF MInv
  <2> QED BY <1>1, <1>2, <2>2 DEF RecordedThen
<1>3. CASE Ingest /\ k - 1 \in 1..Len(spool') /\ spool'[k - 1] = spool[k]
  <2>1. k - 1 <= m - 1
    BY <1>1, <1>a
  <2> QED BY <1>1, <1>3, <2>1 DEF Queued
<1>4. CASE ~Ingest /\ k \in 1..Len(spool') /\ spool'[k] = spool[k]
  BY <1>1, <1>4 DEF Queued
<1> QED BY <1>2, <1>3, <1>4, SnapshotStays

\* The agent starts the head of the queue and leaves the rest as it is.
LEMMA AgentQueue ==
  ASSUME IInv, MInv, AgentStep
  PROVE  /\ Own'.queue = native'.queue /\ Snapshot(Completed).queue = native.queue
         /\ ~NextForm => native'.queue = native.queue /\ native'.turn = native.turn
<1>a. NodeTypes /\ NodeSession /\ native \in NativeSession /\ Engaged
  BY TypeParts DEF IInv, MInv, NodeTypes
<1>1. native.state # "none" /\ (QuietForm \/ AskForm \/ WithdrawForm \/ NextForm)
  BY <1>a, AgentForms
<1>2. doing # 0 => Carried(doing).queue = native.queue /\ Carried(doing).turn = native.turn
  <2> SUFFICES ASSUME doing # 0 PROVE Carried(doing).queue = native.queue /\ Carried(doing).turn = native.turn
    OBVIOUS
  <2>1. doing \in Ops /\ op[doing].kind \in Kinds \ {"none"}
    BY <1>a, TypeParts DEF NodeTypes, NodeSession, IInv, RowTypes, OpRow, Kinds
  <2>2. op[doing].kind \in {"create", "send"} => native.state = "running"
    BY <1>a DEF NodeSession
  <2> QED BY <1>a, <1>1, <2>1, <2>2, CarriedFacts
<1>3. Completed.queue = native.queue /\ Completed.turn = native.turn
  BY <1>a DEF Completed, NativeSession
<1>4. Snapshot(Completed).queue = native.queue
  BY <1>3 DEF Snapshot
<1>5. Own'.queue = native'.queue
  BY DEF Own, Snapshot
<1>6. ~NextForm => native'.queue = native.queue /\ native'.turn = native.turn
  BY <1>a, <1>1, <1>2, <1>3 DEF QuietForm, AskForm, WithdrawForm, NativeSession
<1> QED BY <1>4, <1>5, <1>6

\* A snapshot that comes into the spool shows the executed messages that are not
\* recorded, or one before it does.
LEMMA NewSnapshotKeeps ==
  ASSUME IInv, IInv', MInv, Next, NEW m \in 1..Len(spool'), m > Len(spool), spool'[m].type = "session",
         NEW i \in Ops, op[i].kind = "queue", Executed(i)
  PROVE  RecordedThen(i) \/ Queued(spool', m, i)
<1>a. spool \in Seq(Event) /\ Len(spool) \in Nat /\ Engaged /\ Len(spool') \in Nat
  BY TrailFacts, TrailThen DEF MInv
<1>b. ~Ingest
  <2> SUFFICES ASSUME Ingest PROVE FALSE
    OBVIOUS
  <2>1. spool # <<>> /\ spool' = Tail(spool)
    BY Taken
  <2>2. Len(Tail(spool)) = Len(spool) - 1
    BY <1>a, <2>1, TailFacts
  <2> QED BY <1>a, <2>1, <2>2
<1>1. CASE Recorded(i)
  BY <1>1, RecordedStays
<1>2. CASE Queued(spool, Len(spool), i)
  <2>1. Len(spool) \in 1..Len(spool)
    BY <1>a, <1>2 DEF Queued
  <2>2. RecordedThen(i) \/ Queued(spool', Len(spool), i)
    BY <1>2, <1>b, <2>1, QueuedStays
  <2>3. Queued(spool', Len(spool), i) => Queued(spool', m, i)
    BY <1>a DEF Queued
  <2> QED BY <2>2, <2>3
<1>3. CASE Has(native.queue, i)
  <2>1. CASE Connect /\ spool'[m] = Own
    <3>1. Has(spool'[m].queue, i)
      BY <1>3, <2>1, TrailFacts
    <3> QED BY <1>a, <3>1 DEF Queued
  <2>2. CASE AgentStep /\ \E es : Sends(es) /\ m - Len(spool) \in 1..Len(es) /\ spool'[m] = es[m - Len(spool)]
    <3>1. PICK es : Sends(es) /\ m - Len(spool) \in 1..Len(es) /\ spool'[m] = es[m - Len(spool)]
      BY <2>2
    <3>2. es \in Seq(Event) /\ spool' = spool \o es
      BY <3>1 DEF Sends, Sent
    <3>3. Snapshot(Completed).queue = native.queue /\ Snapshot(Completed).type = "session"
      BY <2>2, AgentQueue DEF Snapshot
    <3>4. CASE ~NextForm \/ es[m - Len(spool)] = Snapshot(Completed)
      <4>1. spool'[m].queue = native.queue
        BY <1>a, <2>2, <3>1, <3>3, <3>4, NewsFacts, AgentQueue
      <4> QED BY <1>3, <1>a, <4>1 DEF Queued
    <3>5. CASE NextForm /\ es[m - Len(spool)] # Snapshot(Completed)
      <4>1. /\ Len(es) = 2 /\ es[1] = Snapshot(Completed)
        BY <1>a, <2>2, <3>1, <3>5, NewsFacts
      <4>2. (spool \o es)[Len(spool) + 1] = es[1] /\ Len(spool) + 1 \in 1..Len(spool \o es)
        BY <1>a, <3>2, <4>1, Grown
      <4>3. spool'[Len(spool) + 1] = Snapshot(Completed) /\ Len(spool) + 1 \in 1..Len(spool')
        BY <3>2, <4>1, <4>2, Zenon
      <4>4. Len(spool) + 1 <= m
        BY <1>a
      <4> QED BY <1>3, <3>3, <4>3, <4>4 DEF Queued
    <3> QED BY <3>4, <3>5
  <2>3. \/ Connect /\ spool'[m] = Own
        \/ AgentStep /\ \E es : Sends(es) /\ m - Len(spool) \in 1..Len(es) /\ spool'[m] = es[m - Len(spool)]
    <3>1. m \in 1..Len(spool') /\ ~(m \in 1..Len(spool))
      BY <1>a
    <3>2. \/ Connect /\ spool'[m] = Own
          \/ AgentStep /\ \E es : /\ Sends(es) /\ m > Len(spool) /\ m - Len(spool) \in 1..Len(es)
                                  /\ spool'[m] = es[m - Len(spool)]
      BY <1>b, <3>1, Places
    <3> QED BY <3>2
  <2> QED BY <2>1, <2>2, <2>3
<1> QED BY <1>1, <1>2, <1>3 DEF MInv, KeptByNode

LEMMA KeptByNodeStep ==
  ASSUME IInv, IInv', MInv, Next
  PROVE  KeptByNode'
<1>a. spool \in Seq(Event) /\ Len(spool) \in Nat /\ Engaged /\ Len(spool') \in Nat /\ NodeTypes /\ native.queue \in Seq(Ops)
  BY TrailFacts, TrailThen, TypeParts DEF MInv, IInv
<1> SUFFICES ASSUME NEW i \in Ops, op'[i].kind = "queue", ExecutedThen(i)
             PROVE  Has(native'.queue, i) \/ RecordedThen(i) \/ Queued(spool', Len(spool'), i)
  BY DEF KeptByNode, Executed, ExecutedThen, Recorded, RecordedThen, Queued, Has
<1>1. CASE ~Executed(i)
  <2>1. op' = op /\ Executable(i) /\ native' = Begun(i) /\ op[i].kind \in Kinds \ {"none"}
    BY <1>1, ExecutedNow
  <2>2. native'.queue = Append(native.queue, i)
    BY <1>a, <2>1, BegunFacts
  <2> QED BY <1>a, <2>2, AppendFacts
<1>2. CASE Executed(i)
  <2>1. op[i].kind = "queue"
    BY <1>2, ExecutedStays, KindsKept
  <2>2. CASE Recorded(i)
    BY <2>2, RecordedStays
  <2>3. CASE Queued(spool, Len(spool), i)
    <3>1. Len(spool) \in 1..Len(spool)
      BY <1>a, <2>3 DEF Queued
    <3>2. \A m : Queued(spool', m, i) /\ m <= Len(spool) => Queued(spool', Len(spool'), i)
      BY <1>a DEF Queued
    <3>3. Len(spool) - 1 <= Len(spool)
      BY <1>a
    <3> QED BY <1>a, <2>3, <3>1, <3>2, <3>3, QueuedStays
  <2>4. CASE Has(native.queue, i)
    <3>1. CASE AgentStep /\ NextForm
      <4>1. spool' = Append(Append(spool, Snapshot(Completed)), Snapshot(native'))
        BY <3>1 DEF NextForm
      <4>2. Snapshot(Completed) \in Event /\ Snapshot(native') \in Event
        BY <1>a, <3>1, AgentForms
      <4>3. /\ Append(spool, Snapshot(Completed)) \in Seq(Event)
            /\ Append(spool, Snapshot(Completed))[Len(spool) + 1] = Snapshot(Completed)
            /\ Len(Append(spool, Snapshot(Completed))) = Len(spool) + 1
        BY <1>a, <4>2, AppendFacts
      <4>4. Len(spool') = Len(spool) + 2 /\ spool'[Len(spool) + 1] = Snapshot(Completed)
        BY <1>a, <4>1, <4>2, <4>3, AppendFacts
      <4>5. Has(spool'[Len(spool) + 1].queue, i) /\ spool'[Len(spool) + 1].type = "session"
        BY <2>4, <3>1, <4>4, AgentQueue DEF Snapshot
      <4> QED BY <1>a, <4>4, <4>5 DEF Queued
    <3>2. CASE AgentStep /\ ~NextForm
      BY <2>4, <3>2, AgentQueue
    <3>3. CASE ByCommand
      <4>1. PICK j \in Ops : op[j].kind \in Kinds \ {"none"} /\ (native' = native \/ (Executable(j) /\ native' = Begun(j)))
        BY <3>3, CommandForms
      <4>2. CASE Executable(j) /\ native' = Begun(j)
        <5>1. native'.queue = native.queue \/ native'.queue = Append(native.queue, j)
          BY <1>a, <4>1, <4>2, BegunFacts DEF Kinds
        <5>2. Has(native.queue, i) => Has(Append(native.queue, j), i)
          BY <1>a, AppendFacts
        <5> QED BY <2>4, <5>1, <5>2
      <4> QED BY <2>4, <4>1, <4>2
    <3>4. CASE ~AgentStep /\ ~ByCommand
      BY <2>4, <3>4, Steps, NativeKept
    <3> QED BY <3>1, <3>2, <3>3, <3>4
  <2> QED BY <1>2, <2>1, <2>2, <2>3, <2>4 DEF MInv, KeptByNode
<1> QED BY <1>1, <1>2

-----------------------------------------------------------------------------
(* What comes behind a confirmation. *)

\* After an executed cancel the agent does not report that the turn goes on.
LEMMA QuietAfterCancel ==
  ASSUME IInv, MInv, AgentStep, NEW es, Sends(es), NEW n \in 1..Len(es), es[n].type = "session",
         NEW c \in Ops, op[c].kind = "cancel", Executed(c)
  PROVE  ~GoingOn(es[n], op[c].turn)
<1>a. /\ NodeTypes /\ NodeSession /\ native \in NativeSession /\ Engaged /\ op[c].turn \in {0} \union Ops
      /\ native.queue \in Seq(Ops)
  BY TypeParts, TrailFacts DEF IInv, MInv, NodeTypes, RowTypes, OpRow
<1>b. /\ ~Has(native.queue, op[c].turn)
      /\ op[c].turn = native.turn => ~native.working /\ native.request = 0
      /\ doing # 0 /\ op[doing].kind \in {"create", "send", "queue"} => op[c].turn # native.turn
  BY DEF MInv, CancelledWork
<1>1. native.state # "none" /\ (QuietForm \/ AskForm \/ WithdrawForm \/ NextForm)
  BY <1>a, AgentForms
<1>2. CASE es[n] = Snapshot(Completed)
  <2>1. Completed.state = "completed"
    BY <1>a DEF Completed, NativeSession
  <2> QED BY <1>2, <2>1 DEF Snapshot, GoingOn, OnTurn, Waiting
<1>3. CASE es[n] = Own'
  <2> SUFFICES ASSUME native'.turn = op[c].turn, native'.state \in OnTurn PROVE FALSE
    BY <1>3 DEF GoingOn, Own, Snapshot
  <2>1. CASE NextForm
    <3>1. native'.turn = Head(native.queue) /\ native.queue # <<>>
      BY <1>a, <2>1 DEF NextForm, NextOfQueue, NativeSession
    <3>2. Has(native.queue, Head(native.queue))
      BY <1>a, <3>1, TailFacts
    <3> QED BY <1>b, <3>1, <3>2
  <2>2. CASE ~NextForm
    <3>1. native.turn = op[c].turn
      BY <2>2, AgentQueue
    <3>2. QuietForm
      BY <1>1, <1>b, <2>2, <3>1 DEF AskForm, WithdrawForm
    <3>3. doing # 0 /\ native' = Carried(doing)
      BY <1>a, <3>2 DEF QuietForm, Completed, NativeSession, OnTurn, Waiting
    <3>4. doing \in Ops /\ op[doing].kind \in Kinds \ {"none"}
      BY <1>a, <3>3, TypeParts DEF NodeTypes, NodeSession, IInv, RowTypes, OpRow, Kinds
    <3>5. op[doing].kind = "cancel"
      BY <1>a, <1>b, <3>1, <3>3, <3>4 DEF Engaged, Kinds
    <3>6. native'.state = "cancelled"
      BY <1>a, <3>3, <3>5 DEF Carried, NativeSession
    <3> QED BY <3>6 DEF OnTurn, Waiting
  <2> QED BY <2>1, <2>2
<1> QED BY <1>a, <1>2, <1>3, NewsFacts

\* What the frames on the wire are after a step.
LEMMA WireForms ==
  ASSUME IInv, MInv, Next, connected', ~blocked'
  PROVE  \/ toGw' = toGw /\ connected /\ ~blocked
         \/ /\ toGw # <<>> /\ toGw' = Tail(toGw) /\ connected /\ ~blocked
            /\ Head(toGw).type = "receipt" \/ Ingest
         \/ connected /\ ~blocked /\ \E i \in Ops : \E s \in Words : toGw' = Append(toGw, Receipt(i, s))
         \/ connected /\ ~blocked /\ AgentStep /\ \E es : Sends(es) /\ toGw' = toGw \o es
         \/ Connect /\ toGw' = spool'
<1>a. /\ toNode \in Seq(ToTheNode) /\ journal \in [Ops -> JournalStates] /\ Engaged
  BY TypeParts DEF IInv, FrameTypes, MInv, NodeTypes
<1>b. ~Gone
  BY DEF Gone
<1>1. CASE Submission
  BY <1>1, SubmissionKeeps DEF peerVars
<1>2. CASE Answered
  BY <1>2, Answer
<1>3. CASE RequestEnds
  BY <1>3 DEF RequestEnds, Expire, peerVars
<1>4. CASE Ingest
  BY <1>4, Taken
<1>5. CASE ByCommand
  BY <1>5, <1>b, CommandForms DEF peerVars
<1>6. CASE AgentStep
  <2>1. PICK es : Sends(es)
    BY <1>6, <1>a, AgentForms
  <2>2. connected' = connected /\ blocked' = blocked /\ toGw' = IF blocked THEN toGw ELSE toGw \o es
    BY <2>1 DEF Sends, Sent
  <2>3. connected /\ ~blocked
    BY <2>2
  <2>4. toGw' = toGw \o es
    BY <2>2, <2>3, Zenon
  <2> QED BY <1>6, <2>1, <2>3, <2>4
<1>7. CASE Silent
  <2>1. CASE Connect
    BY <2>1 DEF Connect
  <2>2. CASE AnswerQuery
    <3>1. toNode # <<>> /\ Head(toNode).type = "query" /\ connected' = connected /\ blocked' = blocked
      BY <2>2 DEF AnswerQuery, NodeReads, peerVars
    <3>2. Head(toNode).op \in Ops
      BY <1>a, <3>1, TailFacts, NodeFrames
    <3>3. Reported(journal[Head(toNode).op]) \in Words
      BY <1>a, <3>2 DEF Reported, Words, JournalStates
    <3> QED BY <2>2, <3>1, <3>2, <3>3 DEF AnswerQuery
  <2>3. CASE Disconnect \/ Refuse \/ ReadError
    BY <1>b, <2>3 DEF Disconnect, Refuse, ReadError
  <2>4. CASE Replays \/ \E r \in Requests : Pass(r)
    BY <2>4 DEF Replays, TakeReplay, TakeAck, Pass, peerVars
  <2> QED BY <1>7, <2>1, <2>2, <2>3, <2>4 DEF Silent
<1> QED BY <1>1, <1>2, <1>3, <1>4, <1>5, <1>6, <1>7, Steps

LEMMA BehindReceiptStep ==
  ASSUME IInv, IInv', MInv, Next
  PROVE  BehindReceipt'
<1>a. /\ toGw \in Seq(ToGateway) /\ Len(toGw) \in Nat /\ spool \in Seq(Event) /\ Len(spool) \in Nat /\ Engaged
      /\ spool' \in Seq(Event) /\ Len(spool') \in Nat
  BY TrailFacts, TrailThen, TypeParts DEF IInv, FrameTypes, MInv
<1> SUFFICES ASSUME connected', ~blocked', NEW p \in 1..Len(toGw'), NEW q \in 1..Len(toGw'), NEW i \in Ops, p < q,
                    toGw'[p] = Receipt(i, "confirmed"), toGw'[q].type = "session"
             PROVE  /\ op'[i].kind = "queue" => RecordedThen(i) \/ Queued(toGw', q, i)
                    /\ op'[i].kind = "cancel" => ~GoingOn(toGw'[q], op'[i].turn)
  BY DEF BehindReceipt, Receipt, Recorded, RecordedThen, Has, Queued, GoingOn
<1>b. "confirmed" \in Words
  BY DEF Words
<1>c. ASSUME InGw(Receipt(i, "confirmed"))
      PROVE  op[i].kind # "none" /\ op'[i].kind = op[i].kind /\ op'[i].turn = op[i].turn /\ journal[i] = "confirmed"
  <2>1. op[i].kind # "none" /\ journal[i] = "confirmed"
    BY <1>b, <1>c DEF IInv, Commands, CommandOf
  <2> QED BY <2>1, KindsKept
<1>d. ASSUME connected, ~blocked, NEW r \in 1..Len(toGw), NEW t \in 1..Len(toGw), r < t,
             toGw[r] = toGw'[p], toGw[t] = toGw'[q],
             Queued(toGw, t, i) => RecordedThen(i) \/ Queued(toGw', q, i)
      PROVE  /\ op'[i].kind = "queue" => RecordedThen(i) \/ Queued(toGw', q, i)
             /\ op'[i].kind = "cancel" => ~GoingOn(toGw'[q], op'[i].turn)
  <2>1. toGw[r] = Receipt(i, "confirmed") /\ toGw[t].type = "session"
    BY <1>d
  <2>2. op'[i].kind = op[i].kind /\ op'[i].turn = op[i].turn
    BY <1>c, <1>d, <2>1 DEF InGw, Has
  <2>3. /\ op[i].kind = "queue" => Recorded(i) \/ Queued(toGw, t, i)
        /\ op[i].kind = "cancel" => ~GoingOn(toGw[t], op[i].turn)
    BY <1>d, <2>1 DEF MInv, BehindReceipt
  <2> QED BY <1>d, <2>2, <2>3, RecordedStays
<1>1. CASE toGw' = toGw /\ connected /\ ~blocked
  BY <1>1, <1>d
<1>2. CASE toGw # <<>> /\ toGw' = Tail(toGw) /\ connected /\ ~blocked /\ (Head(toGw).type = "receipt" \/ Ingest)
  <2>1. /\ \A n \in 1..Len(toGw') : n + 1 \in 1..Len(toGw) /\ toGw'[n] = toGw[n + 1]
        /\ Len(toGw') = Len(toGw) - 1 /\ Head(toGw) = toGw[1]
    BY <1>a, <1>2, TailFacts
  <2>2. p + 1 \in 1..Len(toGw) /\ q + 1 \in 1..Len(toGw) /\ p + 1 < q + 1 /\ toGw[p + 1] = toGw'[p] /\ toGw[q + 1] = toGw'[q]
    BY <2>1
  <2>3. ASSUME Queued(toGw, q + 1, i) PROVE RecordedThen(i) \/ Queued(toGw', q, i)
    <3>1. PICK k \in 1..Len(toGw) : k <= q + 1 /\ toGw[k].type = "session" /\ Has(toGw[k].queue, i)
      BY <2>3 DEF Queued
    <3>2. CASE k = 1
      <4>1. Ingest /\ Head(toGw) = spool[1] /\ spool[1].type = "session" /\ Has(spool[1].queue, i)
        BY <1>2, <2>1, <3>1, <3>2, Taken
      <4>2. Takes
        BY <4>1, Taken DEF Takes
      <4>3. queue' = spool[1].queue
        BY <4>2, TakesFacts DEF MInv
      <4> QED BY <4>1, <4>3 DEF RecordedThen
    <3>3. CASE k # 1
      <4>1. k - 1 \in 1..Len(toGw') /\ (k - 1) + 1 = k /\ k - 1 <= q
        BY <1>a, <2>1, <3>1, <3>3
      <4>2. toGw'[k - 1] = toGw[k]
        BY <2>1, <4>1
      <4> QED BY <3>1, <4>1, <4>2 DEF Queued
    <3> QED BY <3>2, <3>3
  <2> QED BY <1>2, <1>d, <2>2, <2>3
<1>3. CASE connected /\ ~blocked /\ \E j \in Ops : \E s \in Words : toGw' = Append(toGw, Receipt(j, s))
  <2>1. PICK j \in Ops, s \in Words : toGw' = Append(toGw, Receipt(j, s))
    BY <1>3
  <2>2. /\ Len(toGw') = Len(toGw) + 1 /\ \A n \in 1..Len(toGw) : toGw'[n] = toGw[n] /\ n \in 1..Len(toGw')
        /\ toGw'[Len(toGw) + 1] = Receipt(j, s)
    <3>1. Receipt(j, s) \in ToGateway
      BY FramesDiffer
    <3> QED BY <1>a, <2>1, <3>1, AppendFacts
  <2>3. q # Len(toGw) + 1
    BY <2>2 DEF Receipt
  <2>4. p \in 1..Len(toGw) /\ q \in 1..Len(toGw)
    BY <1>a, <2>2, <2>3
  <2>5. Queued(toGw, q, i) => Queued(toGw', q, i)
    BY <2>2 DEF Queued
  <2> QED BY <1>3, <1>d, <2>2, <2>4, <2>5
<1>4. CASE connected /\ ~blocked /\ AgentStep /\ \E es : Sends(es) /\ toGw' = toGw \o es
  <2>1. PICK es : Sends(es) /\ toGw' = toGw \o es
    BY <1>4
  <2>2. es \in Seq(Event) /\ es \in Seq(ToGateway) /\ spool' = spool \o es
    <3>1. es \in Seq(Event) /\ spool' = spool \o es /\ Event \subseteq ToGateway
      BY <2>1 DEF Sends, Sent, ToGateway
    <3> QED BY <3>1
  <2> DEFINE z == toGw \o es
             y == spool \o es
  <2>3. /\ Len(z) = Len(toGw) + Len(es) /\ Len(es) \in Nat
        /\ \A n \in 1..Len(toGw) : z[n] = toGw[n] /\ n \in 1..Len(z)
        /\ \A n \in 1..Len(es) : z[Len(toGw) + n] = es[n] /\ Len(toGw) + n \in 1..Len(z)
        /\ \A n \in 1..Len(z) : n \in 1..Len(toGw) \/ (n - Len(toGw) \in 1..Len(es) /\ z[n] = es[n - Len(toGw)])
    BY <1>a, <2>2, Grown
  <2>4. /\ Len(y) = Len(spool) + Len(es)
        /\ \A n \in 1..Len(spool) : y[n] = spool[n] /\ n \in 1..Len(y)
        /\ \A n \in 1..Len(es) : y[Len(spool) + n] = es[n] /\ Len(spool) + n \in 1..Len(y)
        /\ \A n \in 1..Len(y) : n \in 1..Len(spool) \/ (n - Len(spool) \in 1..Len(es) /\ y[n] = es[n - Len(spool)])
    BY <1>a, <2>2, Grown
  <2>5. toGw' = z /\ spool' = y
    BY <2>1, <2>2
  <2> HIDE DEF z, y
  <2>6. p \in 1..Len(toGw) /\ toGw[p] = toGw'[p]
    <3>1. p \in 1..Len(z) /\ z[p] = Receipt(i, "confirmed")
      BY <2>5
    <3>2. \A n \in 1..Len(es) : es[n].type # "receipt"
      BY <2>2, Events
    <3>3. p \in 1..Len(toGw)
      <4>1. z[p].type = "receipt"
        BY <3>1 DEF Receipt
      <4> QED BY <2>3, <3>1, <3>2, <4>1
    <3> QED BY <2>3, <2>5, <3>3
  <2>7. CASE q \in 1..Len(toGw)
    <3>1. toGw[q] = toGw'[q]
      BY <2>3, <2>5, <2>7
    <3>2. Queued(toGw, q, i) => Queued(z, q, i)
      BY <2>3 DEF Queued
    <3> QED BY <1>4, <1>d, <2>5, <2>6, <2>7, <3>1, <3>2
  <2>8. CASE q \notin 1..Len(toGw)
    <3> DEFINE n == q - Len(toGw)
               m == Len(spool) + n
    <3>1. n \in 1..Len(es) /\ z[q] = es[n] /\ es[n].type = "session" /\ q = Len(toGw) + n /\ q \in 1..Len(z)
      BY <1>a, <2>3, <2>5, <2>8
    <3>2. m \in 1..Len(y) /\ y[m] = es[n] /\ m > Len(spool)
      <4> HIDE DEF n
      <4>1. y[Len(spool) + n] = es[n] /\ Len(spool) + n \in 1..Len(y)
        BY <2>4, <3>1
      <4> QED BY <1>a, <3>1, <4>1
    <3> HIDE DEF n, m
    <3>3. op[i].kind # "none" /\ op'[i].kind = op[i].kind /\ op'[i].turn = op[i].turn /\ Executed(i)
      <4>1. toGw[p] = Receipt(i, "confirmed")
        BY <2>6
      <4>2. InGw(Receipt(i, "confirmed"))
        BY <2>6, <4>1 DEF InGw, Has
      <4> QED BY <1>c, <4>2 DEF Executed
    <3>4. op[i].kind = "cancel" => ~GoingOn(es[n], op[i].turn)
      BY <1>4, <2>1, <3>1, <3>3, QuietAfterCancel
    <3>5. ASSUME op[i].kind = "queue" PROVE RecordedThen(i) \/ Queued(z, q, i)
      <4>1. RecordedThen(i) \/ Queued(spool', m, i)
        <5>1. m \in 1..Len(spool') /\ spool'[m].type = "session"
          BY <2>5, <3>1, <3>2
        <5> QED BY <3>2, <3>3, <3>5, <5>1, NewSnapshotKeeps
      <4>2. ASSUME Queued(y, m, i) PROVE Queued(z, q, i)
        <5>1. PICK k \in 1..Len(y) : k <= m /\ y[k].type = "session" /\ Has(y[k].queue, i)
          BY <4>2 DEF Queued
        <5>2. CASE k \in 1..Len(spool)
          <6>1. PICK r \in 1..Len(toGw) : toGw[r] = spool[k]
            BY <1>4, <5>2, OnTheWire
          <6>2. r \in 1..Len(z) /\ z[r] = y[k] /\ r <= q
            BY <1>a, <2>3, <2>4, <2>8, <3>1, <5>2, <6>1
          <6> QED BY <5>1, <6>2 DEF Queued
        <5>3. CASE k \notin 1..Len(spool)
          <6>1. k - Len(spool) \in 1..Len(es) /\ y[k] = es[k - Len(spool)]
            BY <2>4, <5>1, <5>3
          <6>2. z[Len(toGw) + (k - Len(spool))] = y[k] /\ Len(toGw) + (k - Len(spool)) \in 1..Len(z)
            BY <2>3, <6>1
          <6>3. Len(toGw) + (k - Len(spool)) <= q
            BY <1>a, <3>1, <5>1 DEF m
          <6> QED BY <5>1, <6>2, <6>3 DEF Queued
        <5> QED BY <5>2, <5>3
      <4> QED BY <2>5, <4>1, <4>2
    <3> QED BY <2>5, <3>1, <3>3, <3>4, <3>5
  <2> QED BY <2>7, <2>8
<1>5. CASE Connect /\ toGw' = spool'
  <2>1. spool'[p] \in Event
    BY <1>5, <1>a
  <2>2. spool'[p] = Receipt(i, "confirmed")
    BY <1>5
  <2> QED BY <2>1, <2>2, Events DEF Receipt
<1> QED BY <1>1, <1>2, <1>3, <1>4, <1>5, WireForms

LEMMA BeforeTurnEndsStep ==
  ASSUME IInv, IInv', MInv, Next
  PROVE  BeforeTurnEnds'
<1>a. /\ spool \in Seq(Event) /\ Len(spool) \in Nat /\ spool' \in Seq(Event) /\ Len(spool') \in Nat
      /\ Points /\ Paths /\ Beginning
  BY TrailFacts, TrailThen DEF MInv
<1> SUFFICES ASSUME NEW m \in 1..Len(spool'), NEW i \in Ops, op'[i].kind = "queue", ExecutedThen(i),
                    spool'[m].type = "session", ~GoingOn(spool'[m], op'[i].turn)
             PROVE  RecordedThen(i) \/ Queued(spool', m, i)
  BY DEF BeforeTurnEnds, Executed, ExecutedThen, Recorded, RecordedThen, Queued, Has, GoingOn
<1>1. CASE ~Executed(i)
  <2>1. op' = op /\ Executable(i) /\ op[i].kind = "queue" /\ spool' = spool
    BY <1>1, ExecutedNow, CommandForms
  <2>2. native.state \in OnTurn /\ native.turn = op[i].turn /\ native.state # "none"
    BY <2>1 DEF Executable, OnItsTurn, OnTurn
  <2>3. op[i].turn # 0 /\ turns[op[i].turn] # "none"
    BY <1>a, <2>1 DEF Beginning
  <2>4. native.turn = session.turn
    BY <1>a, <2>2, <2>3, PointFacts, TrailFacts DEF Ahead
  <2>5. /\ m \in 1..Len(Trail) /\ Len(spool) + 1 \in 1..Len(Trail) /\ m < Len(spool) + 1
        /\ Trail[m] = spool[m] /\ Trail[Len(spool) + 1] = Own /\ Own.type = "session" /\ spool[m].type = "session"
        /\ Own.turn = session.turn /\ Own.state = native.state
    BY <1>a, <2>1, <2>2, <2>4, TrailFacts
  <2>6. NoReturn(session.turn, Trail) /\ NoRevival(Trail) /\ Ahead(spool[m])
    BY <1>a, <2>1, <2>2, PointFacts DEF Paths, Path
  <2>7. spool[m].turn = session.turn
    BY <2>5, <2>6 DEF NoReturn
  <2>8. spool[m].state \in Over => native.state \in {spool[m].state, "closed"}
    BY <2>5, <2>6, <2>7 DEF NoRevival
  <2>9. spool[m].state \in OnTurn
    BY <2>2, <2>6, <2>8 DEF Ahead, Over, Ended, OnTurn, Waiting
  <2> QED BY <2>1, <2>2, <2>4, <2>5, <2>7, <2>9 DEF GoingOn
<1>2. CASE Executed(i)
  <2>1. op[i].kind = "queue" /\ op[i].turn = op'[i].turn
    BY <1>2, ExecutedStays, KindsKept
  <2>2. ASSUME NEW k \in 1..Len(spool), spool'[m] = spool[k], k = IF Ingest THEN m + 1 ELSE m
        PROVE  RecordedThen(i) \/ Queued(spool', m, i)
    <3>1. Recorded(i) \/ Queued(spool, k, i)
      BY <1>2, <2>1, <2>2 DEF MInv, BeforeTurnEnds
    <3>2. Ingest => k - 1 = m
      BY <2>2
    <3> QED BY <2>2, <3>1, <3>2, RecordedStays, QueuedStays
  <2>3. CASE m > Len(spool)
    BY <1>2, <2>1, <2>3, NewSnapshotKeeps
  <2> QED BY <1>a, <2>2, <2>3, Places
<1> QED BY <1>1, <1>2

-----------------------------------------------------------------------------
(* The head of the spool. *)

LEMMA Distinct ==
  ASSUME NEW q \in Seq(Ops), \A m, n \in 1..Len(q) : q[m] = q[n] => m = n
  PROVE  Cardinality(Range(q)) = Len(q)
<1>1. Len(q) \in Nat /\ q \in [1..Len(q) -> Range(q)] /\ \A y \in Range(q) : \E n \in 1..Len(q) : q[n] = y
  BY DEF Range
<1>2. q \in Surjection(1..Len(q), Range(q)) /\ q \in Injection(1..Len(q), Range(q))
  BY <1>1 DEF Surjection, Injection, IsInjective
<1>3. IsFiniteSet(1..Len(q)) /\ Cardinality(1..Len(q)) = Len(q)
  <2>1. 1 \in Int /\ Len(q) \in Int
    BY <1>1
  <2>2. /\ IsFiniteSet(1..Len(q))
        /\ Cardinality(1..Len(q)) = IF 1 > Len(q) THEN 0 ELSE Len(q) - 1 + 1
    BY <2>1, FS_Interval
  <2>3. ASSUME NEW n \in Nat, NEW c, c = IF 1 > n THEN 0 ELSE n - 1 + 1
        PROVE  c = n
    BY <2>3
  <2> QED BY <1>1, <2>2, <2>3
<1> QED BY <1>2, <1>3, FS_Surjection

\* A snapshot at the head is accepted, but for a queued message whose confirmation
\* has not arrived, or a leftover request, or unless the head is stuck.
LEMMA HeadAccepted ==
  ASSUME IInv, MInv, spool # <<>>, spool[1].type = "session", ~Stuck
  PROVE  \/ AcceptsSession(spool[1])
         \/ StartedUnconfirmed(spool[1]) /\ spool[1].turn # session.turn
         \/ ClosesRequests(spool[1].state) /\ Leftover
<1> DEFINE e == spool[1]
<1>a. /\ spool \in Seq(Event) /\ Len(spool) \in Nat /\ 1 \in 1..Len(spool) /\ e \in Event
      /\ Points /\ Paths /\ Beginning /\ queue \in Seq(Ops) /\ RowTypes
  BY TrailFacts, TypeParts DEF MInv, IInv, RowTypes
<1>b. native.state # "none" /\ Ahead(e) /\ e.queue \in Seq(Ops) /\ e.turn \in Ops
  BY <1>a, PointFacts, Events
<1>c. session.state # "none" /\ session.turn \in Ops /\ turns[session.turn] # "none"
  BY <1>a, <1>b, RowsBegun DEF Beginning
<1>d. 1 \in 1..Len(Trail) /\ Trail[1] = e
  BY <1>a, <1>b, TrailFacts
<1>e. Follows(op, Shown, e) /\ NoRequeue(Trail)
  <2>1. First(Trail) = e
    BY <1>d DEF First
  <2> QED BY <1>a, <1>b, <2>1 DEF Paths, Path
<1>f. \A n \in 1..Len(queue) : op[queue[n]].kind = "queue" /\ turns[queue[n]] = "none" /\ queue[n] \in Ops
  BY <1>a DEF IInv, QueueRows
<1>g. queue # <<>> => 1 \in 1..Len(queue) /\ Head(queue) = queue[1] /\ Tail(queue) \in Seq(Ops)
  BY <1>a, TailFacts
<1>h. Shown.state = session.state /\ Shown.turn = session.turn /\ Shown.queue = queue
  BY DEF Shown
<1>i. Executed(e.turn) /\ op[e.turn].state \in {"open", "confirmed"}
  <2>1. Executed(e.turn)
    BY <1>b DEF Ahead
  <2>2. op[e.turn].state \in {"none", "open", "confirmed", "failed"}
    BY <1>a, <1>b DEF RowTypes, OpRow
  <2>3. op[e.turn].kind # "none" /\ op[e.turn].state # "failed"
    BY <1>b, <2>1 DEF IInv, Commands, CommandOf, Executed
  <2> QED BY <1>b, <2>1, <2>2, <2>3 DEF IInv, Admissions
<1>j. \A q \in Seq(Ops) : IsPrefix(q, q) /\ \A i \in Ops : IsPrefix(q, Append(q, i))
  <2>0. \A q \in Seq(Ops) : IsPrefix(q, q)
    BY DEF IsPrefix
  <2> SUFFICES ASSUME NEW q \in Seq(Ops), NEW i \in Ops PROVE IsPrefix(q, Append(q, i))
    BY <2>0
  <2>1. /\ Append(q, i) \in Seq(Ops) /\ Len(Append(q, i)) = Len(q) + 1 /\ Len(q) \in Nat
        /\ \A n \in 1..Len(q) : Append(q, i)[n] = q[n]
    BY AppendFacts
  <2>2. SubSeq(q, 1, Len(q)) = SubSeq(Append(q, i), 1, Len(q))
    BY <2>1
  <2> QED BY <2>1, <2>2 DEF IsPrefix
<1> HIDE DEF e
<1>1. ASSUME e.turn = session.turn
      PROVE  validTransition(session.state, e.state) /\ IsPrefix(QueueWithout(e.turn), e.queue)
  <2>1. Adds(queue, e.queue) /\ (session.state = "cancelling" \/ validTransition(session.state, e.state))
    BY <1>1, <1>e, <1>h DEF Follows
  <2>2. validTransition(session.state, e.state)
    <3>1. CASE session.state = "cancelling"
      <4>1. e.state \notin OnTurn
        BY <1>1, <3>1 DEF Stuck, GoingOn, e
      <4> QED BY <1>b, <3>1, <4>1 DEF Ahead, validTransition, Ended
    <3> QED BY <2>1, <3>1
  <2>3. QueueWithout(e.turn) = queue
    BY <1>1, <1>c, <1>f, <1>g DEF QueueWithout
  <2> QED BY <1>a, <1>j, <2>1, <2>2, <2>3 DEF Adds
<1>2. ASSUME e.turn # session.turn
      PROVE  /\ e.state = "running" /\ (MayStart(e.turn) \/ StartedUnconfirmed(e))
             /\ IsPrefix(QueueWithout(e.turn), e.queue)
  <2>1. /\ session.state \in Ended /\ e.state = "running"
        /\ \/ op[e.turn].kind = "send" /\ e.queue = queue
           \/ /\ op[e.turn].kind = "queue" /\ session.state = "completed"
              /\ queue # <<>> /\ e.turn = Head(queue) /\ e.queue = Tail(queue)
    BY <1>2, <1>e, <1>h DEF Follows
  <2>2. turns[e.turn] = "none"
    BY <1>2, <1>b DEF Ahead
  <2>3. ~isActive(session.state) /\ session.state # "closed"
    BY <2>1 DEF isActive, Ended, Waiting
  <2>4. MayStart(e.turn) \/ StartedUnconfirmed(e)
    BY <1>a, <1>i, <2>1, <2>2, <2>3, e \in Event DEF MayStart, StartedUnconfirmed, e
  <2>5. QueueWithout(e.turn) = e.queue
    BY <1>f, <1>g, <2>1 DEF QueueWithout
  <2> QED BY <1>b, <1>j, <2>1, <2>4, <2>5
<1>3. /\ Cardinality(Range(e.queue)) = Len(e.queue)
      /\ \A i \in Range(e.queue) : op[i].kind = "queue" /\ op[i].state # "failed" /\ i \notin ConsumedBy(e.turn)
  <2>1. Cardinality(Range(e.queue)) = Len(e.queue)
    BY <1>b, Distinct DEF Ahead
  <2>2. ASSUME NEW i \in Range(e.queue)
        PROVE  op[i].kind = "queue" /\ op[i].state # "failed" /\ i \notin ConsumedBy(e.turn)
    <3>1. PICK n \in 1..Len(e.queue) : e.queue[n] = i
      BY <1>b, <2>2, RangeHas DEF Has
    <3>2. op[i].kind = "queue" /\ turns[i] = "none" /\ i \in Ops
      BY <1>b, <3>1 DEF Ahead
    <3>3. Executed(i)
      <4>1. Has(spool, e)
        BY <1>a DEF Has, e
      <4>2. e \in Event /\ e.type = "session"
        BY <1>a DEF e
      <4>3. Truthful(e)
        BY <4>1, <4>2 DEF IInv, Snapshots
      <4> QED BY <3>1, <4>2, <4>3 DEF Truthful
    <3>4. op[i].state # "failed" /\ i \notin consumed
      BY <3>2, <3>3 DEF IInv, Commands, CommandOf, QueueRows, Executed
    <3>5. i # e.turn
      <4>1. ~Has(e.queue, e.turn)
        BY <1>a, <1>d, <1>e DEF NoRequeue, e
      <4> QED BY <3>1, <4>1 DEF Has
    <3> QED BY <3>2, <3>4, <3>5 DEF ConsumedBy
  <2> QED BY <2>1, <2>2
<1>4. /\ e.turn = session.turn \/ MayStart(e.turn)
      /\ ClosesRequests(e.state) => \A r \in Pending : request[r].turn = session.turn
      => AcceptsSession(e)
  BY <1>1, <1>2, <1>3 DEF AcceptsSession, Mirrorable
<1> QED BY <1>1, <1>2, <1>4 DEF Leftover, e

\* The connection on which events are refused.
LEMMA BlockedForms ==
  ASSUME IInv, MInv, Next, connected', blocked'
  PROVE  /\ connected /\ ~Ingest /\ (blocked \/ (Refuse /\ ~blocked))
<1>a. Engaged
  BY DEF MInv
<1>b. ~Gone
  BY DEF Gone
<1>1. CASE Submission
  <2>1. UNCHANGED peerVars
    BY <1>1, SubmissionKeeps
  <2> QED BY <2>1, Taken DEF peerVars
<1>2. CASE Answered
  BY <1>2, Answer, Taken
<1>3. CASE RequestEnds
  BY <1>3, Taken DEF RequestEnds, Expire, peerVars
<1>4. CASE Ingest
  BY <1>4, Taken
<1>5. CASE ByCommand
  BY <1>5, <1>b, CommandForms, Taken DEF peerVars
<1>6. CASE AgentStep
  <2>1. PICK es : Sends(es)
    BY <1>6, <1>a, AgentForms
  <2> QED BY <2>1, Taken DEF Sends, Sent
<1>7. CASE Silent
  BY <1>7, <1>b, Taken DEF Silent, Connect, Disconnect, Refuse, ReadError, AnswerQuery, Replays, TakeReplay, TakeAck, Pass,
                       peerVars, nodeVars
<1> QED BY <1>1, <1>2, <1>3, <1>4, <1>5, <1>6, <1>7, Steps

\* The frame that is read is the head of the spool, unless it is a receipt.
LEMMA HeadRead ==
  ASSUME IInv, ReadsEvent, ~blocked
  PROVE  spool # <<>> /\ Head(toGw) = spool[1] /\ spool[1] \in Event /\ connected /\ toGw # <<>>
<1>1. toGw \in Seq(ToGateway) /\ spool \in Seq(Event)
  BY TypeParts DEF IInv, FrameTypes
<1>2. connected /\ toGw # <<>> /\ Head(toGw).type # "receipt"
  BY DEF ReadsEvent, Reads
<1>3. Carries(toGw, spool)
  BY <1>2 DEF IInv, Line
<1>4. spool # <<>> /\ Head(spool) = Head(toGw)
  BY <1>1, <1>2, <1>3, CarriesAfterEvent
<1> QED BY <1>1, <1>2, <1>4, TailFacts

LEMMA RefusedHeadStep ==
  ASSUME IInv, IInv', MInv, Next
  PROVE  RefusedHead'
<1>a. /\ spool \in Seq(Event) /\ Len(spool) \in Nat /\ spool' \in Seq(Event) /\ Len(spool') \in Nat
      /\ Points /\ Beginning
  BY TrailFacts, TrailThen DEF MInv
<1> SUFFICES ASSUME connected', blocked'
             PROVE  /\ spool' # <<>> /\ spool'[1].type # "withdraw"
                    /\ spool'[1].type = "request" => Stuck'
                    /\ GoingOn(spool'[1], session'.turn) => Stuck'
  BY DEF RefusedHead, GoingOn
<1>b. connected /\ ~Ingest /\ (blocked \/ (Refuse /\ ~blocked))
  BY BlockedForms
<1>1. /\ spool # <<>> /\ spool[1].type # "withdraw"
      /\ spool[1].type = "request" => Stuck
      /\ GoingOn(spool[1], session.turn) => Stuck
  <2>1. CASE blocked
    BY <1>b, <2>1 DEF MInv, RefusedHead
  <2>2. CASE Refuse /\ ~blocked
    <3>1. spool # <<>> /\ Head(toGw) = spool[1] /\ spool[1] \in Event /\ ~Accepts(spool[1])
      BY <2>2, HeadRead DEF Refuse
    <3>2. 1 \in 1..Len(spool)
      BY <1>a, <3>1
    <3>3. spool[1].type # "withdraw"
      <4> SUFFICES ASSUME spool[1].type = "withdraw" PROVE FALSE
        OBVIOUS
      <4>1. Known(spool[1].request, spool[1].turn, 1 - 1)
        BY <3>2 DEF MInv, Withdrawals
      <4>2. request[spool[1].request].state # "none" /\ request[spool[1].request].turn = spool[1].turn
        BY <4>1 DEF Known
      <4> QED BY <3>1, <4>2 DEF Accepts, AcceptsWithdrawal
    <3>4. spool[1].type = "request" => Stuck
      <4> SUFFICES ASSUME spool[1].type = "request" PROVE Stuck
        OBVIOUS
      <4>1. spool[1].turn = session.turn /\ session.state \in {"running", "cancelling"}
        BY <3>2 DEF MInv, Requested
      <4>2. ~AcceptsRequest(spool[1])
        BY <3>1 DEF Accepts
      <4> QED BY <3>1, <4>1, <4>2 DEF AcceptsRequest, Stuck, isActive
    <3>5. GoingOn(spool[1], session.turn) => Stuck
      <4> SUFFICES ASSUME GoingOn(spool[1], session.turn), ~Stuck PROVE FALSE
        OBVIOUS
      <4>1. /\ spool[1].type = "session" /\ spool[1].turn = session.turn
            /\ ~ClosesRequests(spool[1].state)
        BY DEF GoingOn, OnTurn, Waiting, ClosesRequests, isActive
      <4>2. AcceptsSession(spool[1])
        BY <3>1, <4>1, HeadAccepted
      <4> QED BY <3>1, <4>1, <4>2 DEF Accepts
    <3> QED BY <3>1, <3>3, <3>4, <3>5
  <2> QED BY <1>b, <2>1, <2>2
<1>2. 1 \in 1..Len(spool') /\ spool'[1] = spool[1]
  <2>1. 1 \in 1..Len(spool)
    BY <1>a, <1>1
  <2> QED BY <1>b, <2>1, SnapshotStays
<1>3. Stuck => Stuck'
  <2>1. spool' # <<>>
    BY <1>2, <1>a
  <2> QED BY <1>b, <1>2, <2>1, StuckStays
<1>4. session'.turn = session.turn
  <2>1. native.state # "none"
    BY <1>a, <1>1 DEF Beginning
  <2> QED BY <1>b, <2>1, SessionKept DEF Takes
<1> QED BY <1>1, <1>2, <1>3, <1>4, <1>a

-----------------------------------------------------------------------------
(* A cancel that was cut off. *)

\* Cancels that were executed stay so.
LEMMA TwiceStays ==
  ASSUME IInv, Next, CancelledTwice, UNCHANGED session
  PROVE  CancelledTwice'
<1>1. \A c \in Ops : Executed(c) => ExecutedThen(c) /\ op'[c].kind = op[c].kind /\ op'[c].turn = op[c].turn
  BY ExecutedStays, KindsKept
<1> QED BY <1>1 DEF CancelledTwice, Executed, ExecutedThen

\* What was cut off stays so while the snapshots of the turn are in the spool, unless
\* the turn is cancelled again.
LEMMA LostStays ==
  ASSUME IInv, IInv', MInv, Next, native.state # "none", LostCancel, doing = 0, UNCHANGED session,
         Ingest => spool[1].type # "session"
  PROVE  CancelledTwice' \/ (LostCancel' /\ doing' = 0)
<1>a. Beginning /\ Engaged /\ CancelledWork /\ CancelledRows /\ NodeTypes
  BY TypeParts DEF MInv, IInv
<1>b. native' = native => LostCancel'
  BY DEF LostCancel
<1>1. CASE Submission \/ Answered \/ RequestEnds \/ Ingest \/ Silent
  BY <1>1, <1>b, NativeKept
<1>2. CASE ByCommand
  <2>1. PICK i \in Ops :
          /\ InNode(Command(i)) /\ op[i].state = "open" /\ journal[i] = "none" /\ op[i].kind \in Kinds \ {"none"}
          /\ \/ native' = native /\ doing' = 0
             \/ Executable(i) /\ ExecutedThen(i)
    BY <1>2, CommandForms
  <2>2. ASSUME Executable(i), ExecutedThen(i) PROVE CancelledTwice'
    <3>1. PICK c \in Ops : op[c].kind = "cancel" /\ Executed(c) /\ op[c].turn = session.turn
      BY <1>a DEF CancelledRows, LostCancel
    <3>2. /\ session.state = "cancelling" /\ session.turn = native.turn /\ native.state \notin Ended
          /\ native.request = 0 /\ (op[i].kind = "queue" => op[i].turn # native.turn)
      BY <1>a, <2>1, <3>1 DEF CancelledWork, LostCancel, Ended, Waiting
    <3>3. op[i].kind = "respond" => op[i].request # 0
      BY <2>1 DEF IInv, Admissions
    <3>4. op[i].kind = "cancel" /\ op[i].turn = session.turn
      BY <2>1, <2>2, <3>2, <3>3 DEF Executable, OnItsTurn, Kinds
    <3>5. i # c /\ op' = op
      BY <1>2, <2>1, <3>1, RowsKept DEF Executed, dbVars
    <3>6. ExecutedThen(c)
      BY <3>1, ExecutedStays
    <3> QED BY <2>2, <3>1, <3>2, <3>4, <3>5, <3>6 DEF CancelledTwice, Executed, ExecutedThen
  <2> QED BY <1>b, <2>1, <2>2
<1>3. CASE AgentStep
  <2>1. ~native.working /\ native.state \notin Ended
    BY DEF LostCancel, Ended, Waiting
  <2> QED BY <1>3, <1>a, <2>1, AgentForms DEF QuietForm, AskForm, WithdrawForm, NextForm
<1> QED BY <1>1, <1>2, <1>3, Steps

\* Time does not go back.
LEMMA OverdueGrows ==
  ASSUME IInv, MInv, Next
  PROVE  overdue \subseteq overdue'
<1>1. CASE Submission
  BY <1>1, SubmissionKeeps
<1>2. CASE Answered
  BY <1>2, Answer DEF envVars
<1>3. CASE RequestEnds
  BY <1>3 DEF RequestEnds, Expire, envVars
<1>4. CASE Ingest
  BY <1>4, Taken DEF envVars
<1>5. CASE ByCommand
  BY <1>5, CommandForms DEF envVars
<1>6. CASE AgentStep
  BY <1>6, AgentForms DEF MInv
<1>7. CASE Silent
  BY <1>7, SilentForms
<1> QED BY <1>1, <1>2, <1>3, <1>4, <1>5, <1>6, <1>7, Steps

LEMMA CutOffStep ==
  ASSUME IInv, IInv', MInv, Next
  PROVE  CutOff'
<1>a. /\ spool \in Seq(Event) /\ Len(spool) \in Nat /\ spool' \in Seq(Event) /\ Len(spool') \in Nat
      /\ Points /\ Paths /\ Beginning /\ Engaged
  BY TrailFacts, TrailThen DEF MInv
<1> SUFFICES ASSUME NEW m \in 1..Len(spool'), session'.state = "cancelling", GoingOn(spool'[m], session'.turn)
             PROVE  OverdueHead' \/ CancelledTwice' \/ (LostCancel' /\ doing' = 0)
  BY DEF CutOff, GoingOn
<1>b. native.state # "none"
  <2>1. spool' # <<>>
    BY <1>a
  <2>2. AgentStep => native.state # "none"
    BY <1>a, AgentForms
  <2>3. Ingest => native.state # "none"
    BY <1>a, Taken DEF Beginning
  <2>4. spool # <<>> => native.state # "none"
    BY <1>a DEF Beginning
  <2> QED BY <2>1, <2>2, <2>3, <2>4, SpoolForms
<1>c. ~Takes
  <2> SUFFICES ASSUME Takes PROVE FALSE
    OBVIOUS
  <2>1. Ahead(spool[1]) /\ session' = [state |-> spool[1].state, turn |-> spool[1].turn]
    BY <1>a, TakesFacts
  <2> QED BY <2>1 DEF Ahead, OnTurn, Waiting
<1>d. ASSUME OverdueHead, ~Ingest PROVE OverdueHead'
  <2>1. 1 \in 1..Len(spool)
    BY <1>a, <1>d DEF OverdueHead
  <2>2. 1 \in 1..Len(spool') /\ spool'[1] = spool[1]
    BY <1>d, <2>1, SnapshotStays
  <2> QED BY <1>d, <2>2, <1>a, OverdueGrows DEF OverdueHead
<1>1. ASSUME NEW c \in Ops, Marks(c), session'.turn = session.turn, session.state # "cancelling"
      PROVE  OverdueHead'
  <2>1. /\ UNCHANGED nodeVars /\ UNCHANGED envVars /\ connected /\ toGw # <<>> /\ Head(toGw) = Receipt(c, "confirmed")
        /\ op[c].turn = session.turn /\ op[c].kind = "cancel"
    BY <1>1, Answer DEF Marks
  <2>2. spool' = spool /\ overdue' = overdue
    BY <2>1 DEF nodeVars, envVars
  <2>3. m \in 1..Len(spool) /\ GoingOn(spool[m], session.turn)
    BY <1>1, <2>2
  <2>4. CASE ~blocked
    <3>1. toGw[1] = Receipt(c, "confirmed") /\ 1 \in 1..Len(toGw)
      BY <2>1, TailFacts, TypeParts DEF IInv, FrameTypes
    <3>2. PICK q \in 1..Len(toGw) : toGw[q] = spool[m] /\ q > 1
      BY <2>1, <2>3, <2>4, <3>1, OnTheWire DEF Receipt
    <3>3. toGw[q].type = "session"
      BY <2>3, <3>2 DEF GoingOn
    <3>4. ~GoingOn(toGw[q], op[c].turn)
      BY <2>1, <2>4, <3>1, <3>2, <3>3 DEF MInv, BehindReceipt
    <3> QED BY <2>1, <2>3, <3>2, <3>4
  <2>5. CASE blocked
    <3>1. /\ spool # <<>> /\ spool[1].type # "withdraw"
          /\ spool[1].type = "request" => Stuck
          /\ GoingOn(spool[1], session.turn) => Stuck
      BY <2>1, <2>5 DEF MInv, RefusedHead
    <3>2. CASE spool[1].type = "request"
      BY <1>1, <2>2, <3>1, <3>2 DEF Stuck, OverdueHead
    <3>3. CASE spool[1].type # "request"
      <4>1. 1 \in 1..Len(spool) /\ spool[1].type = "session"
        BY <1>a, <3>1, <3>3, Events
      <4>2. ~GoingOn(spool[1], session.turn) /\ m # 1
        BY <1>1, <2>3, <3>1, <4>1 DEF Stuck
      <4>3. /\ 1 \in 1..Len(Trail) /\ m \in 1..Len(Trail) /\ 1 < m /\ Trail[1] = spool[1] /\ Trail[m] = spool[m]
            /\ spool[m].type = "session" /\ spool[m].turn = session.turn /\ spool[m].state \in OnTurn
        BY <1>b, <2>3, <4>1, <4>2, TrailFacts DEF GoingOn
      <4>4. NoReturn(session.turn, Trail) /\ NoRevival(Trail) /\ Ahead(spool[1])
        BY <1>a, <1>b, <4>1, PointFacts DEF Paths, Path
      <4>5. spool[1].turn = session.turn
        BY <4>1, <4>3, <4>4 DEF NoReturn
      <4>6. spool[1].state \in Over
        BY <4>1, <4>2, <4>4, <4>5 DEF Ahead, GoingOn, Over, Ended
      <4>7. spool[m].state \in {spool[1].state, "closed"}
        BY <4>1, <4>3, <4>4, <4>5, <4>6 DEF NoRevival
      <4> QED BY <4>3, <4>6, <4>7 DEF Over, Ended, OnTurn, Waiting
    <3> QED BY <3>2, <3>3
  <2> QED BY <2>4, <2>5, TypeParts DEF IInv, FlagTypes
<1>2. ASSUME UNCHANGED session PROVE OverdueHead' \/ CancelledTwice' \/ (LostCancel' /\ doing' = 0)
  <2>0. session.state = "cancelling" /\ GoingOn(spool'[m], session.turn)
    BY <1>2
  <2>1. PICK c \in Ops : op[c].kind = "cancel" /\ Executed(c) /\ op[c].turn = session.turn
    BY <2>0 DEF MInv, CancelledRows
  <2>2. ASSUME NEW k \in 1..Len(spool), spool'[m] = spool[k]
        PROVE  OverdueHead' \/ CancelledTwice' \/ (LostCancel' /\ doing' = 0)
    <3>1. OverdueHead \/ CancelledTwice \/ (LostCancel /\ doing = 0)
      BY <2>0, <2>2 DEF MInv, CutOff
    <3>2. Ingest => spool[1].type # "session" /\ ~OverdueHead
      BY <1>c, Taken DEF Takes, AcceptsRequest, OverdueHead
    <3> QED BY <1>2, <1>b, <1>d, <3>1, <3>2, LostStays, TwiceStays
  <2>3. CASE Connect /\ spool'[m] = Own
    <3>1. native.turn = session.turn /\ native.state \in OnTurn
      BY <2>0, <2>3, TrailFacts DEF GoingOn
    <3>2. ~native.working
      BY <2>1, <3>1 DEF MInv, CancelledWork
    <3>3. native' = native
      BY <2>3 DEF Connect
    <3>4. LostCancel'
      BY <1>2, <2>0, <3>1, <3>2, <3>3 DEF LostCancel, OnTurn
    <3> QED BY <1>a, <2>3, <3>4 DEF Connect, Engaged
  <2>4. ASSUME AgentStep, NEW es, Sends(es), m - Len(spool) \in 1..Len(es), spool'[m] = es[m - Len(spool)]
        PROVE  FALSE
    <3>1. es[m - Len(spool)].type = "session"
      BY <2>0, <2>4 DEF GoingOn
    <3> QED BY <2>0, <2>1, <2>4, <3>1, QuietAfterCancel
  <2> QED BY <2>2, <2>3, <2>4, Places
<1> QED BY <1>b, <1>c, <1>1, <1>2, SessionKept

-----------------------------------------------------------------------------
(* Requests and what the Node withdrew. *)

Unopened(r) == \/ request'[r] = request[r]
               \/ /\ request[r].state # "none" /\ request'[r].state # "none"
                  /\ request'[r].turn = request[r].turn

\* The row of a request begins with its event and keeps its turn.
LEMMA RequestRows ==
  ASSUME IInv, MInv, Next, NEW r \in Requests
  PROVE  /\ request[r].state # "none" => request'[r].state # "none" /\ request'[r].turn = request[r].turn
         /\ request[r].state = "none" /\ request'[r].state # "none"
              => Ingest /\ spool[1].type = "request" /\ spool[1].request = r
         /\ Ingest /\ spool[1].type = "request" /\ spool[1].request = r /\ request[r].state = "none"
              => request'[r].state # "none" /\ request'[r].turn = spool[1].turn
<1>a. RowTypes /\ request \in [Requests -> RequestRow] /\ Admissions /\ TypeOK /\ Decisions
  BY TypeParts DEF IInv, RowTypes
<1>b. request[r] \in RequestRow
  BY <1>a
<1>1. CASE Ingest
  <2> DEFINE e == spool[1]
  <2>1. e \in Event
    BY <1>1, Taken
  <2>2. CASE e.type = "session" /\ AcceptsSession(e) /\ sessionUpdate(e)
    <3>1. request'[r] = CancelledBy(e.state)[r]
      BY <2>2 DEF sessionUpdate
    <3> QED BY <1>b, <2>2, <3>1 DEF CancelledBy, RequestRow
  <2>3. CASE e.type = "request" /\ AcceptsRequest(e) /\ requestCreate(e)
    <3>1. e.request \in Requests
      BY <2>1, <2>3, Events
    <3> QED BY <1>a, <1>b, <1>1, <2>3, <3>1 DEF requestCreate, RequestRow
  <2>4. CASE e.type = "withdraw" /\ AcceptsWithdrawal(e) /\ requestCancel(e)
    <3>1. e.request \in Requests
      BY <2>1, <2>4, Events
    <3> QED BY <1>a, <1>b, <2>4, <3>1 DEF requestCancel, RequestRow
  <2> QED BY <1>1, <2>2, <2>3, <2>4, Taken
<1>2. CASE ~Ingest
  <2> SUFFICES Unopened(r)
    BY <1>2 DEF Unopened
  <2>1. CASE Submission
    <3>1. ASSUME NEW s \in Requests, Respond(s) PROVE Unopened(r)
      <4>1. /\ request[s].state = "pending"
            /\ request' = [request EXCEPT ![s].state = "deciding", ![s].by = admitted']
        BY <3>1 DEF Respond
      <4> QED BY <1>a, <1>b, <4>1 DEF RequestRow, Unopened
    <3> QED BY <2>1, <1>a, <3>1, Submitted DEF Unopened
  <2>2. CASE Answered
    <3>1. ASSUME NEW i \in Ops, Fail(i) PROVE Unopened(r)
      <4>1. request'[r] = GivenBack(i)[r]
        BY <1>a, <3>1, Failing
      <4> QED BY <1>b, <4>1 DEF GivenBack, RequestRow, Unopened
    <3>2. ASSUME NEW i \in Ops, Confirm(i), op[i].state = "open" PROVE Unopened(r)
      <4>1. request'[r] = IF op[i].kind = "respond" /\ request[r].by = i
                            THEN [request[r] EXCEPT !.state = "resolved"] ELSE request[r]
        BY <1>a, <3>2, Confirming
      <4>2. op[i].kind = "respond" /\ request[r].by = i => request[r].state = "deciding"
        BY <1>a, <3>2, Zero DEF Decisions, Answers
      <4> QED BY <1>b, <4>1, <4>2 DEF RequestRow, Unopened
    <3> QED BY <2>2, <3>1, <3>2, Answer DEF dbVars, Unopened
  <2>3. CASE RequestEnds
    <3>1. PICK s \in Requests : Expire(s)
      BY <2>3 DEF RequestEnds
    <3>2. request[s].state = "pending" /\ request' = [request EXCEPT ![s].state = "expired"]
      BY <3>1 DEF Expire
    <3> QED BY <1>a, <1>b, <3>2 DEF RequestRow, Unopened
  <2>4. CASE ByCommand \/ AgentStep \/ Silent
    BY <2>4, RowsKept DEF dbVars, Unopened
  <2> QED BY <1>2, <2>1, <2>2, <2>3, <2>4, Steps
<1> QED BY <1>1, <1>2

\* The numbers of the requests grow when the agent asks.
LEMMA AskedForms ==
  ASSUME IInv, MInv, Next
  PROVE  asked \in Nat /\ (asked' = asked \/ (AgentStep /\ AskForm /\ asked' = asked + 1 /\ asked' \in Requests))
<1>a. asked \in 0..MaxRequests /\ Engaged
  BY TypeParts DEF IInv, CountTypes, MInv
<1>1. CASE Submission
  BY <1>a, <1>1, SubmissionKeeps
<1>2. CASE Answered
  BY <1>a, <1>2, Answer DEF envVars
<1>3. CASE RequestEnds
  BY <1>a, <1>3 DEF RequestEnds, Expire, envVars
<1>4. CASE Ingest
  BY <1>a, <1>4, Taken DEF envVars
<1>5. CASE ByCommand
  BY <1>a, <1>5, CommandForms DEF envVars
<1>6. CASE AgentStep
  <2>1. (QuietForm \/ AskForm \/ WithdrawForm \/ NextForm) /\ asked' \in 0..MaxRequests
    BY <1>6, <1>a, AgentForms
  <2> QED BY <1>6, <1>a, <2>1, ConstantsAssumption DEF QuietForm, AskForm, WithdrawForm, NextForm, Requests
<1>7. CASE Silent
  BY <1>a, <1>7, SilentForms
<1> QED BY <1>1, <1>2, <1>3, <1>4, <1>5, <1>6, <1>7, Steps

\* What the agent sends besides snapshots.
LEMMA AgentAsks ==
  ASSUME IInv, IInv', MInv, AgentStep
  PROVE  /\ \A k \in 1..Len(spool') : k > Len(spool) /\ spool'[k].type # "session" =>
              /\ k = Len(spool) + 1
              /\ \/ AskForm /\ spool'[k] = Asking(asked', native.turn)
                 \/ WithdrawForm /\ spool'[k] = Withdrawal(native.request, native.turn)
         /\ AskForm => Len(spool) + 1 \in 1..Len(spool') /\ spool'[Len(spool) + 1] = Asking(asked', native.turn)
<1>a. spool \in Seq(Event) /\ Len(spool) \in Nat /\ Engaged /\ NodeSession /\ native \in NativeSession
  BY TrailFacts, TypeParts DEF MInv, IInv, NodeTypes
<1>b. /\ native.state # "none" /\ (QuietForm \/ AskForm \/ WithdrawForm \/ NextForm)
      /\ Snapshot(native') \in Event /\ Snapshot(Completed) \in Event
      /\ Snapshot(native').type = "session" /\ Snapshot(Completed).type = "session"
      /\ asked' \in 0..MaxRequests /\ asked \in Nat
  BY <1>a, AgentForms DEF Snapshot
<1>c. native.turn \in Ops
  BY <1>b, TrailFacts
<1>1. ASSUME NEW x \in Event, NEW y \in Event, spool' = Append(Append(spool, x), y), y.type = "session"
      PROVE  /\ Len(spool) + 1 \in 1..Len(spool') /\ spool'[Len(spool) + 1] = x
             /\ \A k \in 1..Len(spool') : k > Len(spool) /\ spool'[k].type # "session" => k = Len(spool) + 1
  <2>1. /\ Append(spool, x) \in Seq(Event) /\ Len(Append(spool, x)) = Len(spool) + 1
        /\ Append(spool, x)[Len(spool) + 1] = x
    BY <1>a, AppendFacts
  <2>2. /\ Len(spool') = Len(spool) + 2 /\ spool'[Len(spool) + 2] = y
        /\ \A n \in 1..(Len(spool) + 1) : spool'[n] = Append(spool, x)[n]
    BY <1>1, <1>a, <2>1, AppendFacts
  <2> QED BY <1>1, <1>a, <2>1, <2>2
<1>2. CASE QuietForm
  <2>1. spool' = Append(spool, Snapshot(native'))
    BY <1>2 DEF QuietForm
  <2>2. Len(spool') = Len(spool) + 1 /\ spool'[Len(spool) + 1] = Snapshot(native')
    BY <1>a, <1>b, <2>1, AppendFacts
  <2>3. ~AskForm
    <3> SUFFICES ASSUME AskForm PROVE FALSE
      OBVIOUS
    <3>1. asked' = asked /\ asked' = asked + 1
      BY <1>2 DEF QuietForm, AskForm
    <3> QED BY <1>b, <3>1
  <2> QED BY <1>a, <1>b, <2>2, <2>3
<1>3. CASE AskForm
  <2>1. Asking(asked', native.turn) \in Event
    BY <1>3, <1>b, <1>c, ConstantsAssumption DEF AskForm, Asking, Event, Requests
  <2>2. spool' = Append(Append(spool, Asking(asked', native.turn)), Snapshot(native'))
    BY <1>3 DEF AskForm
  <2> QED BY <1>3, <1>b, <1>1, <2>1, <2>2
<1>4. CASE WithdrawForm
  <2>1. native.request \in Requests
    BY <1>4, <1>a DEF WithdrawForm, NodeSession, NativeSession
  <2>2. Withdrawal(native.request, native.turn) \in Event
    BY <2>1, <1>c DEF Withdrawal, Event
  <2>3. spool' = Append(Append(spool, Withdrawal(native.request, native.turn)), Snapshot(native'))
    BY <1>4 DEF WithdrawForm
  <2>4. ~AskForm
    BY <1>4, <1>b DEF WithdrawForm, AskForm
  <2> QED BY <1>4, <1>b, <1>1, <2>2, <2>3, <2>4
<1>5. CASE NextForm
  <2>1. spool' = Append(Append(spool, Snapshot(Completed)), Snapshot(native'))
    BY <1>5 DEF NextForm
  <2>2. ~AskForm
    BY <1>5, <1>b DEF NextForm, AskForm
  <2>3. spool'[Len(spool) + 1].type = "session"
    BY <1>b, <1>1, <2>1
  <2>4. \A k \in 1..Len(spool') : k > Len(spool) /\ spool'[k].type # "session" => k = Len(spool) + 1
    BY <1>b, <1>1, <2>1
  <2> QED BY <2>2, <2>3, <2>4
<1> QED BY <1>b, <1>2, <1>3, <1>4, <1>5

LEMMA RequestedStep ==
  ASSUME IInv, IInv', MInv, Next
  PROVE  Requested'
<1>a. /\ spool \in Seq(Event) /\ Len(spool) \in Nat /\ spool' \in Seq(Event) /\ Len(spool') \in Nat
      /\ Points /\ Paths /\ Beginning /\ Engaged /\ Requested /\ Levels /\ asked \in Nat /\ asked' \in Nat /\ asked <= asked'
      /\ NodeTypes /\ native \in NativeSession
  BY TrailFacts, TrailThen, AskedForms, TypeParts DEF MInv, IInv, NodeTypes
<1>b. \A k \in 1..Len(spool') : spool'[k].type = "request" => spool'[k].request \in Requests
  <2>1. \A k \in 1..Len(spool') : spool'[k] \in Event
    BY <1>a
  <2> QED BY <2>1, Events
<1>c. spool # <<>> => native.state # "none"
  BY <1>a DEF Beginning
\* An old request.
<1>1. ASSUME NEW k \in 1..Len(spool'), spool'[k].type = "request", NEW j \in 1..Len(spool), spool'[k] = spool[j],
             j = IF Ingest THEN k + 1 ELSE k
      PROVE  /\ k = 1 => spool'[k].turn = session'.turn /\ session'.state \in {"running", "cancelling"}
             /\ k > 1 => spool'[k].turn = spool'[k - 1].turn /\ spool'[k - 1].state = "running"
             /\ request'[spool'[k].request].state = "none" /\ spool'[k].request <= asked'
             /\ \A l \in 1..Len(spool') : spool'[l].type = "request" /\ spool'[l].request = spool'[k].request => l = k
  <2>1. /\ j = 1 => spool[j].turn = session.turn /\ session.state \in {"running", "cancelling"}
        /\ j > 1 => spool[j].turn = spool[j - 1].turn /\ spool[j - 1].state = "running"
        /\ request[spool[j].request].state = "none" /\ spool[j].request <= asked /\ spool[j].request \in Requests
        /\ \A l \in 1..Len(spool) : spool[l].type = "request" /\ spool[l].request = spool[j].request => l = j
    BY <1>a, <1>b, <1>1 DEF Requested
  <2>2. native.state # "none" /\ 1 \in 1..Len(spool) /\ spool # <<>>
    BY <1>a, <1>c
  <2>3. ASSUME k = 1 PROVE spool'[k].turn = session'.turn /\ session'.state \in {"running", "cancelling"}
    <3>1. CASE ~Ingest
      <4>1. spool[j].turn = session.turn /\ session.state \in {"running", "cancelling"}
        BY <1>1, <2>1, <2>3, <3>1
      <4>2. session' = session \/ (session'.turn = session.turn /\ session'.state = "cancelling")
        BY <2>2, <3>1, SessionKept DEF Takes
      <4> QED BY <1>1, <4>1, <4>2
    <3>2. CASE Ingest
      <4>1. j = 2 /\ spool[2].turn = spool[1].turn /\ spool[1].state = "running"
        BY <1>1, <2>1, <2>3, <3>2
      <4>2. 2 \in 1..Len(Trail) /\ Trail[2] = spool[2] /\ Trail[1] = spool[1] /\ 1 \in 1..Len(Trail)
        BY <1>a, <2>2, <4>1, TrailFacts
      <4>3. spool[1].type = "session"
        <5>1. Shape(Trail)
          BY <1>a, <2>2 DEF Paths, Path
        <5>2. Trail[2].type # "session"
          BY <1>1, <4>1, <4>2
        <5>3. Trail[2 - 1].type = "session"
          BY <4>2, <5>1, <5>2 DEF Shape
        <5> QED BY <4>2, <5>3
      <4>4. Takes
        BY <3>2, <4>3, Taken DEF Takes
      <4>5. session' = [state |-> spool[1].state, turn |-> spool[1].turn]
        BY <1>a, <4>4, TakesFacts
      <4> QED BY <1>1, <4>1, <4>5
    <3> QED BY <3>1, <3>2
  <2>4. ASSUME k > 1 PROVE spool'[k].turn = spool'[k - 1].turn /\ spool'[k - 1].state = "running"
    <3>1. j > 1 /\ j - 1 \in 1..Len(spool)
      BY <1>1, <1>a, <2>4
    <3>2. spool'[k - 1] = spool[j - 1]
      <4>1. CASE ~Ingest
        BY <1>1, <3>1, <4>1, SnapshotStays
      <4>2. CASE Ingest
        <5>1. j - 1 # 1 /\ (j - 1) - 1 = k - 1
          BY <1>1, <2>4, <4>2
        <5> QED BY <3>1, <4>2, <5>1, SnapshotStays
      <4> QED BY <4>1, <4>2
    <3> QED BY <1>1, <2>1, <3>1, <3>2
  <2>5. request'[spool'[k].request].state = "none"
    <3>1. Ingest => j # 1
      BY <1>1
    <3>2. ~(Ingest /\ spool[1].type = "request" /\ spool[1].request = spool[j].request)
      BY <2>1, <2>2, <3>1
    <3> QED BY <1>1, <2>1, <3>2, RequestRows
  <2>6. spool'[k].request <= asked'
    <3>1. spool[j].request \in Nat /\ spool[j].request <= asked
      BY <2>1, Zero
    <3>2. spool[j].request <= asked'
      BY <1>a, <3>1
    <3> QED BY <1>1, <3>2
  <2>7. ASSUME NEW l \in 1..Len(spool'), spool'[l].type = "request", spool'[l].request = spool'[k].request
        PROVE  l = k
    <3>1. ASSUME NEW n \in 1..Len(spool), spool'[l] = spool[n], n = IF Ingest THEN l + 1 ELSE l
          PROVE  l = k
      <4>1. n = j
        BY <1>1, <2>1, <2>7, <3>1
      <4> QED BY <1>1, <3>1, <4>1
    <3>2. spool'[l] # Own
      BY <2>7, TrailFacts
    <3>3. CASE AgentStep /\ l > Len(spool)
      <4>1. AskForm /\ spool'[l] = Asking(asked', native.turn)
        BY <2>7, <3>3, AgentAsks DEF Withdrawal
      <4>2. spool'[l].request = asked' /\ asked' = asked + 1
        BY <4>1 DEF Asking, AskForm
      <4> QED BY <1>1, <1>a, <2>1, <2>7, <4>2, Zero
    <3> QED BY <3>1, <3>2, <3>3, Places
  <2> QED BY <2>3, <2>4, <2>5, <2>6, <2>7
\* The new one.
<1>2. ASSUME AgentStep, NEW k \in 1..Len(spool'), spool'[k].type = "request", k > Len(spool)
      PROVE  /\ k = 1 => spool'[k].turn = session'.turn /\ session'.state \in {"running", "cancelling"}
             /\ k > 1 => spool'[k].turn = spool'[k - 1].turn /\ spool'[k - 1].state = "running"
             /\ request'[spool'[k].request].state = "none" /\ spool'[k].request <= asked'
             /\ \A l \in 1..Len(spool') : spool'[l].type = "request" /\ spool'[l].request = spool'[k].request => l = k
  <2>1. k = Len(spool) + 1 /\ AskForm /\ spool'[k] = Asking(asked', native.turn)
    BY <1>2, AgentAsks DEF Withdrawal
  <2>2. /\ native.working /\ native.state = "running" /\ asked' = asked + 1
        /\ spool'[k].request = asked' /\ spool'[k].turn = native.turn
    BY <2>1 DEF AskForm, Asking
  <2>3. Latest.turn = native.turn /\ Latest.state = "running" /\ native.state # "none"
    BY <1>a, <2>2 DEF Levels
  <2>4. UNCHANGED dbVars
    BY <1>2, <1>a, AgentForms
  <2>5. ~Ingest
    <3> SUFFICES ASSUME Ingest PROVE FALSE
      OBVIOUS
    <3>1. asked' = asked
      BY Taken DEF envVars
    <3> QED BY <1>a, <2>2, <3>1
  <2>6. k = 1 => spool'[k].turn = session'.turn /\ session'.state \in {"running", "cancelling"}
    <3> SUFFICES ASSUME k = 1 PROVE spool'[k].turn = session'.turn /\ session'.state = "running"
      OBVIOUS
    <3>1. spool = <<>>
      BY <1>a, <2>1
    <3>2. Latest.turn = session.turn /\ Latest.state = session.state
      BY <3>1 DEF Latest, Shown
    <3> QED BY <2>2, <2>3, <2>4, <3>2 DEF dbVars
  <2>7. k > 1 => spool'[k].turn = spool'[k - 1].turn /\ spool'[k - 1].state = "running"
    <3> SUFFICES ASSUME k > 1 PROVE spool'[k].turn = spool'[k - 1].turn /\ spool'[k - 1].state = "running"
      OBVIOUS
    <3>1. spool # <<>> /\ k - 1 = Len(spool) /\ Len(spool) \in 1..Len(spool)
      BY <1>a, <2>1
    <3>2. spool'[k - 1] = Latest
      BY <2>5, <3>1, SnapshotStays DEF Latest
    <3> QED BY <2>2, <2>3, <3>2
  <2>8. request'[spool'[k].request].state = "none"
    <3>1. asked' \in Requests
      BY <1>2, <1>b, <2>2
    <3>2. request[asked'].state = "none"
      BY <1>a, <2>2, <3>1 DEF Requested
    <3> QED BY <2>2, <2>4, <3>2 DEF dbVars
  <2>9. ASSUME NEW l \in 1..Len(spool'), spool'[l].type = "request", spool'[l].request = spool'[k].request
        PROVE  l = k
    <3>1. CASE l > Len(spool)
      BY <1>2, <2>1, <2>9, <3>1, AgentAsks
    <3>2. CASE ~(l > Len(spool))
      <4>1. l \in 1..Len(spool) /\ spool'[l] = spool[l]
        BY <1>a, <2>5, <3>2, SnapshotStays
      <4>2. spool[l].request <= asked
        BY <1>a, <2>9, <4>1 DEF Requested
      <4> QED BY <1>a, <2>2, <2>9, <4>1, <4>2
    <3> QED BY <3>1, <3>2
  <2> QED BY <1>a, <2>2, <2>6, <2>7, <2>8, <2>9
<1>3. \A k \in 1..Len(spool') : spool'[k].type = "request" =>
        /\ k = 1 => spool'[k].turn = session'.turn /\ session'.state \in {"running", "cancelling"}
        /\ k > 1 => spool'[k].turn = spool'[k - 1].turn /\ spool'[k - 1].state = "running"
        /\ request'[spool'[k].request].state = "none" /\ spool'[k].request <= asked'
        /\ \A l \in 1..Len(spool') : spool'[l].type = "request" /\ spool'[l].request = spool'[k].request => l = k
  <2> SUFFICES ASSUME NEW k \in 1..Len(spool'), spool'[k].type = "request"
               PROVE  /\ k = 1 => spool'[k].turn = session'.turn /\ session'.state \in {"running", "cancelling"}
                      /\ k > 1 => spool'[k].turn = spool'[k - 1].turn /\ spool'[k - 1].state = "running"
                      /\ request'[spool'[k].request].state = "none" /\ spool'[k].request <= asked'
                      /\ \A l \in 1..Len(spool') : spool'[l].type = "request" /\ spool'[l].request = spool'[k].request => l = k
    OBVIOUS
  <2>1. CASE \E j \in 1..Len(spool) : spool'[k] = spool[j] /\ j = IF Ingest THEN k + 1 ELSE k
    BY <1>1, <2>1
  <2>2. CASE AgentStep /\ k > Len(spool)
    BY <1>2, <2>2
  <2>3. spool'[k] # Own
    BY TrailFacts
  <2>4. (\E j \in 1..Len(spool) : spool'[k] = spool[j] /\ j = IF Ingest THEN k + 1 ELSE k) \/ (AgentStep /\ k > Len(spool))
    BY <2>3, Places
  <2> QED BY <2>1, <2>2, <2>4
<1>4. \A r \in Requests : request'[r].state # "none" => r <= asked'
  <2> SUFFICES ASSUME NEW r \in Requests, request'[r].state # "none" PROVE r <= asked
    BY <1>a, Zero
  <2>1. CASE request[r].state # "none"
    BY <1>a, <2>1 DEF Requested
  <2>2. CASE request[r].state = "none"
    <3>1. Ingest /\ spool[1].type = "request" /\ spool[1].request = r
      BY <2>2, RequestRows
    <3>2. 1 \in 1..Len(spool)
      BY <1>a, <3>1, Taken
    <3> QED BY <1>a, <3>1, <3>2 DEF Requested
  <2> QED BY <2>1, <2>2
<1>5. native'.request <= asked'
  <2>0. native.request <= asked /\ native.request \in Nat
    <3>1. native.request \in {0} \union Requests
      BY <1>a DEF NativeSession
    <3>2. native.request <= asked
      BY <1>a DEF Requested
    <3>3. ASSUME NEW r \in {0} \union Requests PROVE r \in Nat
      BY ConstantsAssumption DEF Requests
    <3>4. native.request \in Nat
      BY <3>1, <3>3
    <3> QED BY <3>2, <3>4
  <2>1. native'.request \in {native.request, 0} \/ (AskForm /\ native'.request = asked')
    <3>1. CASE AgentStep
      <4>1. QuietForm \/ AskForm \/ WithdrawForm \/ NextForm
        BY <1>a, <3>1, AgentForms
      <4>2. doing # 0 => Carried(doing).request \in {native.request, 0}
        BY <1>a DEF Carried, NativeSession
      <4> QED BY <1>a, <4>1, <4>2 DEF QuietForm, AskForm, WithdrawForm, NextForm, Completed, NextOfQueue, NativeSession
    <3>2. CASE ByCommand
      <4>1. PICK i \in Ops : native' = native \/ (Executable(i) /\ native' = Begun(i) /\ op[i].kind \in Kinds \ {"none"})
        BY <3>2, CommandForms
      <4>2. op[i].kind \in Kinds \ {"none"} => Begun(i).request \in {native.request, 0}
        BY <1>a DEF Begun, NativeSession, Kinds
      <4> QED BY <4>1, <4>2
    <3>3. CASE ~AgentStep /\ ~ByCommand
      BY <3>3, Steps, NativeKept
    <3> QED BY <3>1, <3>2, <3>3
  <2> QED BY <1>a, <2>0, <2>1
<1> QED BY <1>3, <1>4, <1>5 DEF Requested

KnownThen(r, t, m) ==
  \/ request'[r].state # "none" /\ request'[r].turn = t
  \/ \E k \in 1..Len(spool') : k <= m /\ spool'[k] = Asking(r, t)

\* What is known of a request stays known.
LEMMA KnownStays ==
  ASSUME IInv, MInv, Next, NEW r \in Requests, NEW t, NEW m \in Nat, Known(r, t, m)
  PROVE  KnownThen(r, t, IF Ingest THEN m - 1 ELSE m)
<1>a. spool \in Seq(Event) /\ Len(spool) \in Nat
  BY TrailFacts
<1>1. CASE request[r].state # "none" /\ request[r].turn = t
  BY <1>1, RequestRows DEF KnownThen
<1>2. ASSUME NEW k \in 1..Len(spool), k <= m, spool[k] = Asking(r, t)
      PROVE  KnownThen(r, t, IF Ingest THEN m - 1 ELSE m)
  <2>1. spool[k].type = "request" /\ spool[k].request = r /\ spool[k].turn = t
    BY <1>2 DEF Asking
  <2>2. CASE Ingest /\ k = 1
    <3>1. request[r].state = "none"
      BY <2>1 DEF MInv, Requested
    <3>2. request'[r].state # "none" /\ request'[r].turn = t
      BY <2>1, <2>2, <3>1, RequestRows
    <3> QED BY <3>2 DEF KnownThen
  <2>3. CASE Ingest /\ k - 1 \in 1..Len(spool') /\ spool'[k - 1] = spool[k]
    <3>1. k - 1 <= m - 1
      BY <1>a, <1>2
    <3> QED BY <1>2, <2>3, <3>1 DEF KnownThen
  <2>4. CASE ~Ingest /\ k \in 1..Len(spool') /\ spool'[k] = spool[k]
    BY <1>2, <2>4 DEF KnownThen
  <2> QED BY <2>2, <2>3, <2>4, SnapshotStays
<1> QED BY <1>1, <1>2 DEF Known

LEMMA WithdrawalsStep ==
  ASSUME IInv, IInv', MInv, Next
  PROVE  Withdrawals'
<1>a. /\ spool \in Seq(Event) /\ Len(spool) \in Nat /\ spool' \in Seq(Event) /\ Len(spool') \in Nat
      /\ Beginning /\ Engaged /\ Withdrawals /\ NodeSession /\ NodeTypes /\ native \in NativeSession
  BY TrailFacts, TrailThen, TypeParts DEF MInv, IInv, NodeTypes
<1>1. ASSUME NEW k \in 1..Len(spool'), spool'[k].type = "withdraw"
      PROVE  KnownThen(spool'[k].request, spool'[k].turn, k - 1)
  <2>0. spool'[k].request \in Requests
    BY <1>a, <1>1, Events
  <2>1. ASSUME NEW j \in 1..Len(spool), spool'[k] = spool[j], j = IF Ingest THEN k + 1 ELSE k
        PROVE  KnownThen(spool'[k].request, spool'[k].turn, k - 1)
    <3>1. Known(spool'[k].request, spool'[k].turn, j - 1) /\ j - 1 \in Nat
      BY <1>1, <1>a, <2>1 DEF Withdrawals
    <3>2. KnownThen(spool'[k].request, spool'[k].turn, IF Ingest THEN (j - 1) - 1 ELSE j - 1)
      BY <2>0, <3>1, KnownStays
    <3>3. (IF Ingest THEN (j - 1) - 1 ELSE j - 1) = k - 1
      BY <2>1
    <3> QED BY <3>2, <3>3
  <2>2. CASE AgentStep /\ k > Len(spool)
    <3>1. k = Len(spool) + 1 /\ WithdrawForm /\ spool'[k] = Withdrawal(native.request, native.turn)
      BY <1>1, <2>2, AgentAsks DEF Asking
    <3>2. native.request # 0 /\ native.request \in Requests
      BY <1>a, <3>1 DEF WithdrawForm, NodeSession, NativeSession
    <3>3. KnownThen(native.request, native.turn, IF Ingest THEN Len(spool) - 1 ELSE Len(spool))
      BY <1>a, <3>2, KnownStays DEF Withdrawals
    <3>4. \A x, y : KnownThen(x, y, Len(spool) - 1) => KnownThen(x, y, Len(spool))
      BY <1>a DEF KnownThen
    <3> QED BY <1>a, <3>1, <3>3, <3>4 DEF Withdrawal
  <2>3. spool'[k] # Own
    BY <1>1, TrailFacts
  <2>4. (\E j \in 1..Len(spool) : spool'[k] = spool[j] /\ j = IF Ingest THEN k + 1 ELSE k) \/ (AgentStep /\ k > Len(spool))
    BY <2>3, Places
  <2> QED BY <2>1, <2>2, <2>4
<1>2. ASSUME native'.request # 0
      PROVE  KnownThen(native'.request, native'.turn, Len(spool'))
  <2>1. ASSUME native'.request = native.request, native'.turn = native.turn
        PROVE  KnownThen(native'.request, native'.turn, Len(spool'))
    <3>1. native.request \in Requests /\ Known(native.request, native.turn, Len(spool))
      BY <1>a, <1>2, <2>1 DEF Withdrawals, NativeSession
    <3>2. KnownThen(native.request, native.turn, IF Ingest THEN Len(spool) - 1 ELSE Len(spool))
      BY <1>a, <3>1, KnownStays
    <3>3. \A x, y, m : KnownThen(x, y, m) => KnownThen(x, y, Len(spool'))
      BY <1>a DEF KnownThen
    <3> QED BY <2>1, <3>2, <3>3
  <2>2. CASE AgentStep
    <3>1. native.state # "none" /\ (QuietForm \/ AskForm \/ WithdrawForm \/ NextForm)
      BY <1>a, <2>2, AgentForms
    <3>2. CASE AskForm
      <4>1. native'.request = asked' /\ native'.turn = native.turn
        BY <1>a, <3>2 DEF AskForm, NativeSession
      <4>2. Len(spool) + 1 \in 1..Len(spool') /\ spool'[Len(spool) + 1] = Asking(asked', native.turn)
        BY <2>2, <3>2, AgentAsks
      <4> QED BY <1>a, <4>1, <4>2 DEF KnownThen
    <3>3. CASE WithdrawForm
      BY <1>a, <1>2, <3>3 DEF WithdrawForm, NativeSession
    <3>4. CASE NextForm
      <4>1. native.request = 0
        BY <1>a, <3>4 DEF NextForm, Engaged, Waiting
      <4> QED BY <1>a, <1>2, <3>4, <4>1 DEF NextForm, NextOfQueue, NativeSession
    <3>5. CASE QuietForm
      <4>1. native'.request \in {native.request, 0}
        <5>1. doing # 0 => Carried(doing).request \in {native.request, 0}
          BY <1>a DEF Carried, NativeSession
        <5> QED BY <1>a, <3>5, <5>1 DEF QuietForm, Completed, NativeSession
      <4>2. native'.turn = native.turn
        <5>1. doing # 0 => Carried(doing).turn = native.turn
          BY <1>a DEF Carried, NativeSession
        <5> QED BY <1>a, <3>5, <5>1 DEF QuietForm, Completed, NativeSession
      <4> QED BY <1>2, <2>1, <4>1, <4>2
    <3> QED BY <3>1, <3>2, <3>3, <3>4, <3>5
  <2>3. CASE ByCommand
    <3>1. PICK i \in Ops : native' = native \/ (Executable(i) /\ native' = Begun(i) /\ op[i].kind \in Kinds \ {"none"})
      BY <2>3, CommandForms
    <3>2. CASE Executable(i) /\ native' = Begun(i) /\ op[i].kind \in Kinds \ {"none"}
      <4>1. op[i].kind \in {"create", "send"} => native.request = 0 /\ native'.request = native.request
        <5>1. op[i].kind \in {"create", "send"} => native.state \notin Waiting
          BY <3>2 DEF Executable, Ended, Waiting
        <5> QED BY <1>a, <3>2, <5>1, BegunFacts DEF Engaged
      <4>2. op[i].kind = "cancel" => native'.request = 0
        BY <1>a, <3>2 DEF Begun, NativeSession
      <4>3. op[i].kind \in {"queue", "respond"} => native'.request = native.request /\ native'.turn = native.turn
        BY <1>a, <3>2, BegunFacts
      <4> QED BY <1>2, <2>1, <3>2, <4>1, <4>2, <4>3 DEF Kinds
    <3> QED BY <2>1, <3>1, <3>2
  <2>4. CASE ~AgentStep /\ ~ByCommand
    <3>1. native' = native
      BY <2>4, Steps, NativeKept
    <3> QED BY <2>1, <3>1
  <2> QED BY <2>2, <2>3, <2>4
<1>3. ASSUME \A k \in 1..Len(spool') : spool'[k].type = "withdraw" => KnownThen(spool'[k].request, spool'[k].turn, k - 1)
      PROVE  Withdrawals'
  BY <1>2, <1>3 DEF Withdrawals, Known, KnownThen, Asking
<1> QED BY <1>1, <1>3

-----------------------------------------------------------------------------
(* The invariant and what it gives. *)

LEMMA MirrorInitially == Init => MInv
<1> SUFFICES ASSUME Init PROVE MInv
  OBVIOUS
<1>1. /\ session = [state |-> "none", turn |-> 0]
      /\ turns = [i \in Ops |-> "none"]
      /\ op = [i \in Ops |-> [kind |-> "none", turn |-> 0, request |-> 0, state |-> "none"]]
      /\ request = [r \in Requests |-> [state |-> "none", turn |-> 0, by |-> 0]]
      /\ connected = FALSE /\ doing = 0 /\ spool = <<>> /\ toNode = <<>> /\ admitted = 0
      /\ native = [state |-> "none", turn |-> 0, request |-> 0, queue |-> <<>>, working |-> FALSE]
      /\ journal = [i \in Ops |-> "none"]
  BY DEF Init
<1>2. /\ \A i \in Ops : op[i].kind = "none" /\ op[i].state = "none" /\ ~Executed(i) /\ turns[i] = "none"
      /\ \A r \in Requests : request[r].state = "none"
      /\ session.state = "none" /\ native.state = "none" /\ native.request = 0 /\ native.queue = <<>> /\ ~native.working
      /\ Len(spool) = 0 /\ Len(toNode) = 0 /\ 1..0 = {} /\ asked = 0
  BY <1>1 DEF Executed, Init
<1>3. Beginning
  BY <1>1, <1>2, ConstantsAssumption DEF Beginning
<1>4. Engaged
  BY <1>1, <1>2 DEF Engaged
<1>5. CancelledWork /\ CancelledRows
  BY <1>1, <1>2 DEF CancelledWork, CancelledRows
<1>6. Admitted /\ Points /\ Paths /\ Levels
  BY <1>1, <1>2 DEF Admitted, Points, Paths, Levels
<1>7. KeptByNode /\ BehindReceipt /\ BeforeTurnEnds /\ RefusedHead /\ CutOff
  BY <1>1, <1>2 DEF KeptByNode, BehindReceipt, BeforeTurnEnds, RefusedHead, CutOff
<1>8. Requested /\ Withdrawals
  BY <1>1, <1>2 DEF Requested, Withdrawals
<1> QED BY <1>3, <1>4, <1>5, <1>6, <1>7, <1>8 DEF MInv

LEMMA MirrorStutters == MInv /\ UNCHANGED vars => MInv'
<1> SUFFICES ASSUME MInv, UNCHANGED vars PROVE MInv'
  OBVIOUS
<1>1. UNCHANGED dbVars /\ UNCHANGED peerVars /\ UNCHANGED nodeVars /\ UNCHANGED envVars /\ toGw' = toGw /\ toNode' = toNode
  BY DEF vars
<1>2. /\ session' = session /\ turns' = turns /\ op' = op /\ request' = request /\ queue' = queue /\ consumed' = consumed
      /\ connected' = connected /\ ready' = ready /\ blocked' = blocked
      /\ native' = native /\ journal' = journal /\ doing' = doing /\ spool' = spool
      /\ admitted' = admitted /\ asked' = asked /\ overdue' = overdue /\ connects' = connects
  BY <1>1 DEF dbVars, peerVars, nodeVars, envVars
<1>3. Trail' = Trail /\ Shown' = Shown /\ Own' = Own /\ Latest' = Latest /\ (LostCancel' <=> LostCancel)
      /\ (CancelledTwice' <=> CancelledTwice)
  BY <1>2 DEF Trail, Shown, Own, Latest, LostCancel, CancelledTwice, Executed
<1>4. Stuck' <=> Stuck
  BY <1>2 DEF Stuck, GoingOn
<1>5. Beginning' /\ Engaged' /\ CancelledWork' /\ CancelledRows'
  BY <1>1, <1>2 DEF MInv, Beginning, Engaged, CancelledWork, CancelledRows, Executed, InNode
<1>6. Admitted' /\ RefusedHead' /\ CutOff'
  BY <1>1, <1>2, <1>3, <1>4 DEF MInv, Admitted, InNode, RefusedHead, CutOff, GoingOn, OverdueHead
<1>7. Points'
  BY <1>2, <1>3 DEF MInv, Points, Ahead, Executed
<1>8. Paths' /\ Levels'
  BY <1>2, <1>3, <1>4 DEF MInv, Paths, Levels, Level
<1>9. KeptByNode' /\ BehindReceipt' /\ BeforeTurnEnds'
  BY <1>1, <1>2 DEF MInv, KeptByNode, BehindReceipt, BeforeTurnEnds, Executed, Recorded, Queued, GoingOn
<1>10. Requested' /\ Withdrawals'
  BY <1>2 DEF MInv, Requested, Withdrawals, Known
<1> QED BY <1>5, <1>6, <1>7, <1>8, <1>9, <1>10 DEF MInv

LEMMA MirrorStep == IInv /\ MInv /\ [Next]_vars => MInv'
<1> SUFFICES ASSUME IInv, MInv, Next PROVE MInv'
  BY MirrorStutters
<1>1. IInv'
  BY InvariantStep
<1>2. Beginning' /\ Engaged' /\ CancelledWork' /\ CancelledRows' /\ Admitted'
  BY <1>1, BeginningStep, EngagedStep, CancelledWorkStep, CancelledRowsStep, AdmittedStep
<1>3. Points' /\ Paths' /\ Levels' /\ KeptByNode' /\ BehindReceipt' /\ BeforeTurnEnds'
  BY <1>1, PointsStep, PathsStep, LevelsStep, KeptByNodeStep, BehindReceiptStep, BeforeTurnEndsStep
<1>4. RefusedHead' /\ CutOff' /\ Requested' /\ Withdrawals'
  BY <1>1, RefusedHeadStep, CutOffStep, RequestedStep, WithdrawalsStep
<1> QED BY <1>2, <1>3, <1>4 DEF MInv

\* Whatever receipts are lost, read late or overtaken by a snapshot, the events that
\* are not committed lead step by step from what the rows show to what the Node has.
THEOREM MirrorInvariant == Spec => []MInv
<1>1. Spec => []IInv
  BY Invariant
<1>2. Init => MInv
  BY MirrorInitially
<1>3. IInv /\ MInv /\ [Next]_vars => MInv'
  BY MirrorStep
<1> QED BY <1>1, <1>2, <1>3, PTL DEF Spec

\* When nothing is on its way the rows show the session, its turn and its queue as
\* the Node has them, but for a cancel that was cut off: what ingest, receipts and
\* the replay of the spool are for.
THEOREM MirrorConverges == Spec => []Converged
<1>1. ASSUME MInv PROVE Converged
  <2> SUFFICES ASSUME connected, spool = <<>>, doing = 0, native.state # "none"
               PROVE  /\ session.turn = native.turn /\ queue = native.queue
                      /\ session.state = native.state \/ LostCancel
    BY DEF Converged
  <2>1. Level
    BY <1>1 DEF MInv, Levels
  <2>2. Latest.turn = session.turn /\ Latest.state = session.state /\ Latest.queue = queue
    BY DEF Latest, Shown
  <2> QED BY <2>1, <2>2 DEF Level
<1> QED BY <1>1, MirrorInvariant, PTL

\* An event that arrives in order is refused, and the Node's connection ended, for
\* the listed causes only: a request past its expiry, what the spool continues of a
\* turn whose cancel was cut off, a queued message whose confirmation has not arrived,
\* a leftover request.
THEOREM RefusedForCause == Spec => []RefusedOnlyForCause
<1>1. ASSUME IInv, MInv PROVE RefusedOnlyForCause
  <2> SUFFICES ASSUME ReadsEvent, ~blocked, ~Accepts(Head(toGw))
               PROVE  \/ Head(toGw).type = "request" /\ Head(toGw).request \in overdue
                      \/ OfLostCancel(Head(toGw))
                      \/ StartedUnconfirmed(Head(toGw))
                      \/ Head(toGw).type = "session" /\ ClosesRequests(Head(toGw).state) /\ Leftover
    BY DEF RefusedOnlyForCause
  <2> DEFINE e == spool[1]
  <2>1. spool # <<>> /\ Head(toGw) = e /\ e \in Event /\ ~Accepts(e)
    BY <1>1, HeadRead
  <2>2. /\ spool \in Seq(Event) /\ Len(spool) \in Nat /\ 1 \in 1..Len(spool)
        /\ Beginning /\ Points /\ Paths /\ CutOff /\ Requested /\ Withdrawals
    BY <1>1, <2>1, TrailFacts DEF MInv
  <2>3. native.state # "none"
    BY <2>1, <2>2 DEF Beginning
  <2>4. CASE e.type = "session"
    <3>1. ~AcceptsSession(e)
      BY <2>1, <2>4 DEF Accepts
    <3>2. CASE ~Stuck
      BY <1>1, <2>1, <2>4, <3>1, <3>2, HeadAccepted
    <3>3. CASE Stuck
      <4>1. session.state = "cancelling" /\ GoingOn(spool[1], session.turn)
        BY <2>4, <3>3 DEF Stuck
      <4>2. OverdueHead \/ CancelledTwice \/ LostCancel
        BY <2>2, <4>1 DEF CutOff
      <4> QED BY <2>1, <2>4, <4>1, <4>2 DEF OverdueHead, OfLostCancel, GoingOn, OnTurn
    <3> QED BY <3>2, <3>3
  <2>5. CASE e.type = "request"
    <3>1. ~AcceptsRequest(e)
      BY <2>1, <2>5 DEF Accepts
    <3>2. e.turn = session.turn /\ session.state \in {"running", "cancelling"}
      BY <2>2, <2>5 DEF Requested
    <3>3. e.request \in overdue \/ session.state = "cancelling"
      BY <3>1, <3>2 DEF AcceptsRequest, isActive
    <3>4. ASSUME session.state = "cancelling", e.request \notin overdue PROVE OfLostCancel(e)
      <4>1. 1 \in 1..Len(Trail) /\ Trail[1] = e
        BY <1>1, <2>2, <2>3, TrailFacts
      <4>2. Shape(Trail)
        BY <2>2, <2>3 DEF Paths, Path
      <4>3. 1 + 1 < Len(Trail) /\ GoingOn(Trail[1 + 1], e.turn)
        BY <2>5, <4>1, <4>2 DEF Shape
      <4>4. 2 \in 1..Len(spool) /\ Trail[2] = spool[2]
        BY <1>1, <2>2, <2>3, <4>3, TrailFacts
      <4>5. GoingOn(spool[2], session.turn)
        BY <3>2, <4>3, <4>4
      <4>6. ~OverdueHead
        BY <3>4 DEF OverdueHead
      <4> QED BY <2>2, <2>5, <3>2, <3>4, <4>4, <4>5, <4>6 DEF CutOff, OfLostCancel
    <3> QED BY <2>1, <2>5, <3>3, <3>4
  <2>6. CASE e.type = "withdraw"
    <3>1. Known(e.request, e.turn, 1 - 1)
      BY <2>2, <2>6 DEF Withdrawals
    <3>2. AcceptsWithdrawal(e)
      BY <3>1 DEF Known, AcceptsWithdrawal
    <3> QED BY <2>1, <2>6, <3>2 DEF Accepts
  <2> QED BY <2>1, <2>4, <2>5, <2>6, Events
<1>2. Spec => []IInv
  BY Invariant
<1> QED BY <1>1, <1>2, MirrorInvariant, PTL

=============================================================================
