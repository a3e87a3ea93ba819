------------------------ MODULE CommandDeliveryProofs ------------------------
(***************************************************************************)
(* The inductive invariant of CommandDelivery and the theorems that follow *)
(* from it, for any number of operations, connections and faults.          *)
(***************************************************************************)
EXTENDS CommandDelivery, TLAPS

\* f is somewhere in the sequence s.
Has(s, f) == \E i \in 1..Len(s) : s[i] = f

\* s holds at most one copy of o's command.
Once(s, o) == \A i, j \in 1..Len(s) : s[i] = Command(o) /\ s[j] = Command(o) => i = j

\* In s no query about o comes before o's command.
Ordered(s, o) == \A i, j \in 1..Len(s) : i < j /\ s[i] = Query(o) => s[j] # Command(o)

\* The command of o may still reach the Node.
InFlight(o) == busyOp = o \/ Has(queue, Command(o)) \/ Has(toNode, Command(o))

\* The native call of o has not happened and cannot happen any more.
Dead(o) == opState[o] # "none" /\ ~InFlight(o) /\ execOp # o /\ calls[o] = 0

\* Registry, handler and connection agree with each other.
Control ==
  /\ step = "idle" <=> busyOp = NoOp
  /\ step # "idle" => up /\ reg # None
  /\ ~up => reg = None
  /\ reg = None => queue = <<>> /\ toGw = <<>> /\ ~live
  /\ nodeConn = None => toNode = <<>> /\ execOp = NoOp
  /\ reg # None /\ nodeConn # None => nodeConn = reg
  /\ revoked => reg = None

\* A command is in one place only, ahead of every query about it.
Pipeline ==
  \A o \in Ops :
    /\ Once(queue, o) /\ Once(toNode, o)
    /\ Ordered(queue, o) /\ Ordered(toNode, o)
    /\ ~(Has(queue, Command(o)) /\ Has(toNode, Command(o)))
    /\ busyOp = o => /\ ~Has(queue, Command(o)) /\ ~Has(toNode, Command(o))
                     /\ ~Has(queue, Query(o)) /\ ~Has(toNode, Query(o))
    /\ Has(toNode, Query(o)) => ~Has(queue, Command(o))
    /\ Has(queue, Query(o)) \/ Has(toNode, Query(o)) => opState[o] # "none"

\* A command in flight belongs to the connection it travels on, and the Node
\* has not begun on it.
Untouched ==
  \A o \in Ops :
    /\ InFlight(o) => /\ opState[o] \in Open
                      /\ journal[o] = "none" /\ disk[o] = "none"
                      /\ calls[o] = 0 /\ execOp # o
    /\ busyOp = o \/ Has(queue, Command(o)) => opEpoch[o] = reg
    /\ Has(toNode, Command(o)) => opEpoch[o] = nodeConn

\* What the journal says about the native call.
JournalTruth ==
  \A o \in Ops :
    /\ journal[o] = "none" \/ disk[o] = "none" => calls[o] = 0
    /\ journal[o] # "none" \/ disk[o] # "none" => opState[o] # "none"
    /\ journal[o] = "confirmed" \/ disk[o] = "confirmed" => calls[o] = 1
    /\ journal[o] = "rejected" => calls[o] = 0 /\ execOp # o
    /\ disk[o] = "rejected" => journal[o] = "rejected"
    /\ execOp = o => /\ disk[o] = journal[o]
                     /\ \/ journal[o] = "delivered" /\ calls[o] = 0
                        \/ journal[o] = "executing" /\ calls[o] = 1
    /\ calls[o] <= 1

\* What a report on its way to the Gateway proves.
ReportTruth ==
  \A m \in Report :
    Has(toGw, m) => /\ opState[m.op] # "none" /\ ~InFlight(m.op)
                    /\ m.state \in {"not_seen", "rejected"} => Dead(m.op)
                    /\ m.state = "confirmed" => calls[m.op] = 1

\* What the database says.
RecordTruth ==
  \A o \in Ops :
    /\ opState[o] = "failed" => Dead(o)
    /\ opState[o] = "confirmed" => calls[o] = 1
    /\ outbox[o] = "pending" => /\ ~Has(queue, Command(o)) /\ ~Has(toNode, Command(o))
                                /\ execOp # o /\ calls[o] = 0
                                /\ journal[o] = "none" /\ disk[o] = "none"
    /\ step = "enqueue" /\ busyOp = o => outbox[o] = "dispatching"

\* The inductive invariant.
Core == Control /\ Pipeline /\ Untouched /\ JournalTruth /\ ReportTruth /\ RecordTruth
IInv == TypeOK /\ Core

-----------------------------------------------------------------------------
(* Sequences: what appending and taking the tail do to Has, Once, Ordered. *)

\* Frames of different kinds, or about different operations, differ.
LEMMA FrameFacts ==
  ASSUME NEW o \in Ops, NEW p \in Ops
  PROVE  /\ Command(o) \in Frame /\ Query(o) \in Frame /\ Error(o) \in Frame
         /\ Command(o).type = "command" /\ Command(o).op = o
         /\ Query(o).type = "query" /\ Query(o).op = o
         /\ Error(o).type = "error" /\ Error(o).op = o
         /\ Command(o) # Query(p) /\ Command(o) # Error(p) /\ Query(o) # Error(p)
         /\ Command(o) = Command(p) => o = p
         /\ Query(o) = Query(p) => o = p
  BY DEF Command, Query, Error, Frame

\* A frame is the command, the query or the error of its operation.
LEMMA FrameShape ==
  ASSUME NEW f \in Frame
  PROVE  /\ f.op \in Ops
         /\ f.type = "command" => f = Command(f.op)
         /\ f.type = "query" => f = Query(f.op)
         /\ f.type = "error" => f = Error(f.op)
         /\ f.type \in {"command", "query", "error"}
  BY DEF Command, Query, Error, Frame

\* Nothing is in the empty sequence.
LEMMA EmptyFacts ==
  /\ \A f : ~Has(<<>>, f)
  /\ \A o : Once(<<>>, o) /\ Ordered(<<>>, o)
  BY DEF Has, Once, Ordered

\* Appending adds exactly one element, at the end.
LEMMA AppendFacts ==
  ASSUME NEW S, NEW s \in Seq(S), NEW f \in S
  PROVE  /\ Append(s, f) \in Seq(S)
         /\ \A g : Has(Append(s, f), g) <=> (Has(s, g) \/ g = f)
         /\ \A o \in Ops : Once(s, o) /\ (f = Command(o) => ~Has(s, Command(o)))
                             => Once(Append(s, f), o)
         /\ \A o \in Ops : Ordered(s, o) /\ (f = Command(o) => ~Has(s, Query(o)))
                             => Ordered(Append(s, f), o)
<1> DEFINE t == Append(s, f)
<1>1. /\ t \in Seq(S) /\ Len(t) = Len(s) + 1 /\ Len(s) \in Nat
      /\ t[Len(s) + 1] = f
      /\ \A i \in 1..Len(s) : t[i] = s[i]
  OBVIOUS
<1>2. \A i \in 1..Len(t) : i \in 1..Len(s) \/ i = Len(s) + 1
  BY <1>1
<1> HIDE DEF t
<1>3. \A g : Has(t, g) <=> (Has(s, g) \/ g = f)
  BY <1>1, <1>2 DEF Has
<1>4. ASSUME NEW o \in Ops, Once(s, o), f = Command(o) => ~Has(s, Command(o))
      PROVE  Once(t, o)
  BY <1>1, <1>2, <1>4 DEF Has, Once
<1>5. ASSUME NEW o \in Ops, Ordered(s, o), f = Command(o) => ~Has(s, Query(o))
      PROVE  Ordered(t, o)
  BY <1>1, <1>2, <1>5 DEF Has, Ordered
<1>6. QED
  BY <1>1, <1>3, <1>4, <1>5 DEF t

\* Taking the tail removes the head and keeps the order of the rest.
LEMMA TailFacts ==
  ASSUME NEW S, NEW s \in Seq(S), s # <<>>
  PROVE  /\ Tail(s) \in Seq(S) /\ Head(s) \in S /\ Has(s, Head(s))
         /\ \A g : Has(Tail(s), g) => Has(s, g)
         /\ \A o \in Ops : Once(s, o) =>
               Once(Tail(s), o) /\ (Head(s) = Command(o) => ~Has(Tail(s), Command(o)))
         /\ \A o \in Ops : Ordered(s, o) =>
               Ordered(Tail(s), o) /\ (Head(s) = Query(o) => ~Has(Tail(s), Command(o)))
<1> DEFINE t == Tail(s)
<1>1. /\ t \in Seq(S) /\ Len(t) = Len(s) - 1 /\ Len(s) \in Nat /\ Len(s) >= 1
      /\ Head(s) = s[1] /\ Head(s) \in S
      /\ \A i \in 1..Len(t) : t[i] = s[i + 1]
  OBVIOUS
<1>2. \A i \in 1..Len(t) : i + 1 \in 1..Len(s) /\ 1 < i + 1
  BY <1>1
<1>3. 1 \in 1..Len(s)
  BY <1>1
<1>h. Head(s) = s[1] /\ Head(s) \in S
  BY <1>1
<1> HIDE DEF t
<1>4. Has(s, Head(s)) /\ \A g : Has(t, g) => Has(s, g)
  BY <1>1, <1>2, <1>3, <1>h DEF Has
<1>5. ASSUME NEW o \in Ops, Once(s, o)
      PROVE  Once(t, o) /\ (Head(s) = Command(o) => ~Has(t, Command(o)))
  BY <1>1, <1>2, <1>3, <1>h, <1>5 DEF Has, Once
<1>6. ASSUME NEW o \in Ops, Ordered(s, o)
      PROVE  Ordered(t, o) /\ (Head(s) = Query(o) => ~Has(t, Command(o)))
  <2>1. ASSUME NEW i \in 1..Len(t), NEW j \in 1..Len(t), i < j, t[i] = Query(o)
        PROVE  t[j] # Command(o)
    BY <1>1, <1>2, <1>6, <2>1 DEF Ordered
  <2>2. QED
    BY <1>1, <1>2, <1>3, <1>h, <1>6, <2>1 DEF Has, Ordered
<1>7. QED
  BY <1>1, <1>4, <1>5, <1>6 DEF t

\* Neither NoOp nor the absent connection is an operation.
LEMMA OpsFacts == NoOp = 0 /\ None = 0 /\ \A o \in Ops : o \in Nat /\ o # 0
  BY ConstantsAssumption DEF Ops, NoOp, None

\* A receipt says what the journal says.
LEMMA ReportFacts ==
  ASSUME NEW o \in Ops, NEW kind \in {"ack", "status"},
         NEW j \in JournalStates
  PROVE  /\ Reported(kind, o, j) \in Report
         /\ Reported(kind, o, j).op = o
         /\ Reported(kind, o, j).state = "not_seen" <=> j = "none"
         /\ Reported(kind, o, j).state = "rejected" <=> j = "rejected"
         /\ Reported(kind, o, j).state = "confirmed" <=> j = "confirmed"
  BY DEF Reported, ReportOf, Report, JournalStates

\* What enqueue does to the write queue.
LEMMA EnqueueFacts ==
  ASSUME queue \in Seq(Frame), NEW f \in Frame, Enqueue(f)
  PROVE  /\ queue' \in Seq(Frame)
         /\ \A g : Has(queue', g) => Has(queue, g) \/ (HasRoom /\ g = f)
         /\ \A o \in Ops : Once(queue, o) /\ (f = Command(o) => ~Has(queue, Command(o)))
                             => Once(queue', o)
         /\ \A o \in Ops : Ordered(queue, o) /\ (f = Command(o) => ~Has(queue, Query(o)))
                             => Ordered(queue', o)
<1>1. CASE HasRoom
  BY <1>1, AppendFacts DEF Enqueue
<1>2. CASE ~HasRoom
  BY <1>2 DEF Enqueue
<1>3. QED
  BY <1>1, <1>2

\* What a write does to the frames on the wire.
LEMMA WrittenFacts ==
  ASSUME toNode \in Seq(Frame), NEW f \in Frame, toNode' \in {toNode, Written(f)}
  PROVE  /\ toNode' \in Seq(Frame)
         /\ \A g : Has(toNode', g) => Has(toNode, g) \/ (nodeConn = reg /\ g = f)
         /\ \A o \in Ops : Once(toNode, o) /\ (f = Command(o) => ~Has(toNode, Command(o)))
                             => Once(toNode', o)
         /\ \A o \in Ops : Ordered(toNode, o) /\ (f = Command(o) => ~Has(toNode, Query(o)))
                             => Ordered(toNode', o)
<1>1. CASE toNode' = toNode
  BY <1>1
<1>2. CASE toNode' # toNode
  <2>1. nodeConn = reg /\ toNode' = Append(toNode, f)
    BY <1>2 DEF Written
  <2>2. QED
    BY <2>1, AppendFacts
<1>3. QED
  BY <1>1, <1>2

\* What sending a receipt does to the reports on their way.
LEMMA SentFacts ==
  ASSUME toGw \in Seq(Report), NEW m \in Report, toGw' = Sent(m)
  PROVE  /\ toGw' \in Seq(Report)
         /\ \A g : Has(toGw', g) => Has(toGw, g) \/ (nodeConn = reg /\ g = m)
<1>1. CASE toGw' = toGw
  BY <1>1
<1>2. CASE toGw' # toGw
  <2>1. nodeConn = reg /\ toGw' = Append(toGw, m)
    BY <1>2 DEF Sent
  <2>2. QED
    BY <2>1, AppendFacts
<1>3. QED
  BY <1>1, <1>2

\* The write queue of a new connection holds queries about open operations.
LEMMA ConnectQueue ==
  ASSUME Connect
  PROVE  /\ queue' \in Seq(Frame)
         /\ \A o \in Ops : /\ ~Has(queue', Command(o)) /\ Once(queue', o) /\ Ordered(queue', o)
                           /\ Has(queue', Query(o)) => opState[o] \in Open
<1>1. PICK m \in 0..QueryLimit : \E ops \in [1..m -> OpenOps] : \E k \in 0..m : AskAbout(ops, m, k)
  BY DEF Connect
<1>2. PICK ops \in [1..m -> OpenOps] : \E k \in 0..m : AskAbout(ops, m, k)
  BY <1>1
<1>a. PICK n \in 0..m : queue' = [i \in 1..n |-> Query(ops[i])]
  BY <1>2 DEF AskAbout, InitialQueue
<1>3. n \in Nat /\ \A i \in 1..n : ops[i] \in Ops /\ opState[ops[i]] \in Open
  BY <1>2, ConstantsAssumption DEF OpenOps
<1>4. queue' \in Seq(Frame) /\ Len(queue') = n /\ \A i \in 1..n : queue'[i] = Query(ops[i])
  BY <1>a, <1>3, FrameFacts
<1>5. QED
  BY <1>3, <1>4, FrameFacts DEF Has, Once, Ordered

\* What saving the journal and sending the receipt do to the Node's state.
LEMMA SaveTypes ==
  ASSUME DataOK, NEW j \in [Ops -> JournalStates], NEW m \in Report,
         NEW o \in Ops \union {NoOp}, NEW rest \in Seq(Frame), SaveAndAck(j, m, o, rest)
  PROVE  /\ journal' \in [Ops -> JournalStates] /\ disk' \in [Ops -> JournalStates]
         /\ execOp' \in {o, NoOp} /\ nodeConn' \in Nat
         /\ toNode' \in Seq(Frame) /\ toGw' \in Seq(Report)
<1>1. journal' = j /\ disk' \in {disk, j} /\ toGw' \in {toGw, Sent(m)}
  BY DEF SaveAndAck
<1>2. \/ execOp' = o /\ toNode' = rest /\ nodeConn' = nodeConn
      \/ execOp' = NoOp /\ toNode' = <<>> /\ nodeConn' = None
  BY DEF SaveAndAck, HangUp
<1>3. toGw' \in Seq(Report)
  BY <1>1, SentFacts DEF DataOK
<1>4. toNode' \in Seq(Frame) /\ nodeConn' \in Nat
  <2>1. CASE toNode' = rest /\ nodeConn' = nodeConn
    BY <2>1 DEF DataOK
  <2>2. CASE toNode' = <<>> /\ nodeConn' = None
    BY <2>2, OpsFacts
  <2>3. QED
    BY <1>2, <2>1, <2>2
<1>5. QED
  BY <1>1, <1>2, <1>3, <1>4 DEF DataOK

-----------------------------------------------------------------------------
(* Type correctness. *)

\* Every step keeps the flags Boolean.
LEMMA FlagsStep == FlagsOK /\ [Next]_vars => FlagsOK'
<1> SUFFICES ASSUME FlagsOK, [Next]_vars PROVE FlagsOK'
  OBVIOUS
<1> USE DEF FlagsOK, dbVars, gwVars, peerVars, nodeVars, vars
<1>1. CASE \E o \in Ops : Submit(o) \/ DeadlinePasses(o) \/ Expire(o)
  BY <1>1, Zenon DEF Submit, DeadlinePasses, Expire, ExpiryQuery, Enqueue, HasRoom, FailUnsent
<1>2. CASE Dispatch \/ Writer
  BY <1>2, Zenon DEF Dispatch, DispatchIntent, DispatchTooLate, DispatchEnqueue, Writer, WriterDrop,
     WriterSend, WriterError, OrDbError, FailUnsent, Enqueue, HasRoom
<1>3. CASE Connect \/ BecomeReady \/ PeerStop \/ Silence \/ TickStopsSilentPeer \/ Unregister
  BY <1>3, Zenon DEF Connect, AskAbout, BecomeReady, PeerStop, Silence, TickStopsSilentPeer, Unregister, DropPeer
<1>4. CASE Acknowledge
  BY <1>4, Zenon DEF Acknowledge, AckRefused, AckOnFinal, AckFails, AckUnknown, AckSucceeds, Handled,
     FailUnsent, Enqueue, HasRoom
<1>5. CASE Crash \/ Start \/ Revoke
  BY <1>5, Zenon DEF Crash, Start, Recovered, Revoke, Invalidated, DropPeer
<1>6. CASE NodeCommand
  BY <1>6, Zenon DEF NodeCommand, NodeReceive, NodeReject, NodeExecute, NodeConfirm
<1>7. CASE NodeAnswersQuery \/ NodeReadsError \/ NodeHangsUp \/ NodeLosesConnection \/ NodeRestart
  BY <1>7, Zenon DEF NodeAnswersQuery, NodeReadsError, NodeHangsUp, NodeLosesConnection, NodeRestart
<1>8. CASE UNCHANGED vars
  BY <1>8, Zenon
<1>9. QED
  BY <1>1, <1>2, <1>3, <1>4, <1>5, <1>6, <1>7, <1>8
  DEF Next, Dispatch, Writer, Acknowledge, NodeCommand

\* Counting a fault keeps the counter a number.
LEMMA FaultCounts == faults \in Nat /\ Fault => faults' \in Nat
  BY DEF Fault

\* Every step leaves the fault counter alone or counts one fault.
LEMMA FaultsStep == faults \in Nat /\ [Next]_vars => faults' \in Nat
<1> SUFFICES ASSUME faults \in Nat, [Next]_vars PROVE UNCHANGED faults \/ Fault
  BY FaultCounts
<1>1. CASE \E o \in Ops : Submit(o) \/ DeadlinePasses(o) \/ Expire(o)
  BY <1>1, Zenon DEF Submit, DeadlinePasses, Expire
<1>2. CASE Dispatch \/ Writer
  BY <1>2, Zenon DEF Dispatch, DispatchIntent, DispatchTooLate, DispatchEnqueue, Writer, WriterDrop,
     WriterSend, WriterError, OrDbError
<1>3. CASE Connect \/ BecomeReady \/ PeerStop \/ Silence \/ TickStopsSilentPeer \/ Unregister
  BY <1>3, Zenon DEF Connect, AskAbout, BecomeReady, PeerStop, Silence, TickStopsSilentPeer, Unregister
<1>4. CASE Acknowledge
  BY <1>4, Zenon DEF Acknowledge, AckRefused, AckOnFinal, AckFails, AckUnknown, AckSucceeds, Handled
<1>5. CASE Crash \/ Start \/ Revoke
  BY <1>5, Zenon DEF Crash, Start, Revoke
<1>6. CASE NodeReceive \/ NodeReject \/ NodeConfirm
  BY <1>6, Zenon DEF NodeReceive, NodeReject, NodeConfirm, SaveAndAck, SendFails
<1>7. CASE NodeExecute \/ NodeAnswersQuery \/ NodeReadsError \/ NodeHangsUp
           \/ NodeLosesConnection \/ NodeRestart
  BY <1>7, Zenon
  DEF NodeExecute, NodeAnswersQuery, NodeReadsError, NodeHangsUp, NodeLosesConnection, NodeRestart
<1>8. CASE UNCHANGED vars
  BY <1>8, Zenon DEF vars
<1>9. QED
  BY <1>1, <1>2, <1>3, <1>4, <1>5, <1>6, <1>7, <1>8 DEF Next, Dispatch, Writer, Acknowledge

\* Every step keeps the types of the other variables.
LEMMA DataStep == DataOK /\ [Next]_vars => DataOK'
<1> SUFFICES ASSUME DataOK, [Next]_vars PROVE DataOK'
  OBVIOUS
<1>f. faults' \in Nat
  BY FaultsStep DEF DataOK
<1> USE OpsFacts, ConstantsAssumption
    DEF DataOK, JournalStates, dbVars, gwVars, peerVars, nodeVars, Open, Final
<1>1. ASSUME NEW o \in Ops, Submit(o) PROVE DataOK'
  BY <1>1 DEF Submit
<1>2. ASSUME NEW o \in Ops, DeadlinePasses(o) PROVE DataOK'
  BY <1>2 DEF DeadlinePasses
<1>3. ASSUME NEW o \in Ops, Expire(o) PROVE DataOK'
  <2>1. queue' \in Seq(Frame)
    <3>1. CASE UNCHANGED <<queue, live>>
      BY <3>1
    <3>2. CASE Enqueue(Query(o))
      BY <3>2, FrameFacts, EnqueueFacts
    <3>3. QED
      BY <1>3, <3>1, <3>2 DEF Expire, ExpiryQuery
  <2>2. unasked' \subseteq Ops
    BY <1>3 DEF Expire, ExpiryQuery
  <2>3. QED
    BY <1>3, <2>1, <2>2 DEF Expire, FailUnsent, FinishOp
<1>4. CASE DispatchIntent
  BY <1>f, <1>4 DEF DispatchIntent, HandlerEnds
<1>5. CASE DispatchTooLate
  BY <1>f, <1>5 DEF DispatchTooLate, OrDbError, FailUnsent, HandlerEnds
<1>6. CASE DispatchEnqueue
  <2>1. queue' \in Seq(Frame)
    BY <1>6, FrameFacts, EnqueueFacts DEF DispatchEnqueue
  <2>2. QED
    BY <1>f, <1>6, <2>1 DEF DispatchEnqueue, OrDbError, FailUnsent, HandlerEnds
<1>7. CASE WriterDrop
  <2>1. queue' \in Seq(Frame)
    BY <1>7, TailFacts DEF WriterDrop, WriterReady
  <2>2. QED
    BY <1>f, <1>7, <2>1 DEF WriterDrop, OrDbError, FailUnsent
<1>8. CASE WriterSend
  <2>1. queue # <<>> /\ Head(queue) \in Frame /\ queue' \in Seq(Frame)
    BY <1>8, TailFacts DEF WriterSend, WriterReady
  <2>2. toNode' \in Seq(Frame)
    BY <1>8, <2>1, WrittenFacts DEF WriterSend
  <2>3. QED
    BY <1>8, <2>1, <2>2 DEF WriterSend
<1>9. CASE WriterError
  <2>1. queue # <<>> /\ Head(queue) \in Frame /\ queue' \in Seq(Frame)
    BY <1>9, TailFacts DEF WriterError, WriterReady
  <2>2. toNode' \in Seq(Frame)
    BY <1>9, <2>1, WrittenFacts DEF WriterError
  <2>3. QED
    BY <1>f, <1>9, <2>1, <2>2 DEF WriterError
<1>10. CASE Connect
  <2>1. queue' \in Seq(Frame)
    BY <1>10, ConnectQueue
  <2>2. unasked' \subseteq Ops
    BY <1>10 DEF Connect, AskAbout, OpenOps
  <2>3. QED
    BY <1>f, <1>10, <2>1, <2>2 DEF Connect
<1>11. CASE BecomeReady \/ PeerStop \/ Silence \/ TickStopsSilentPeer
  BY <1>f, <1>11 DEF BecomeReady, PeerStop, Silence, TickStopsSilentPeer
<1>12. CASE Unregister
  BY <1>12 DEF Unregister, DropPeer
<1>13. CASE AckRefused
  <2>1. toGw' \in Seq(Report) /\ TheReport \in Report /\ TheReport.op \in Ops
    <3>1. toGw # <<>> /\ toGw' = Tail(toGw)
      BY <1>13 DEF AckRefused, HasReport
    <3>2. toGw' \in Seq(Report) /\ TheReport \in Report
      BY <3>1, TailFacts DEF TheReport
    <3>3. QED
      BY <3>2 DEF Report
  <2>2. queue' \in Seq(Frame)
    <3>1. CASE live' = FALSE /\ UNCHANGED queue
      BY <3>1
    <3>2. CASE Enqueue(Error(TheReport.op))
      BY <3>2, <2>1, FrameFacts, EnqueueFacts
    <3>3. QED
      BY <1>13, <3>1, <3>2 DEF AckRefused
  <2>3. QED
    BY <1>13, <2>1, <2>2 DEF AckRefused, FinishOp
<1>14. CASE AckOnFinal \/ AckFails \/ AckUnknown \/ AckSucceeds
  <2>1. Handled /\ toGw # <<>>
    BY <1>14 DEF AckOnFinal, AckFails, AckUnknown, AckSucceeds, Handled, HasReport
  <2>2. toGw' \in Seq(Report) /\ TheReport \in Report
    BY <2>1, TailFacts DEF Handled, TheReport
  <2>3. TheReport.op \in Ops
    BY <2>2 DEF Report
  <2>4. CASE AckOnFinal
    BY <2>4, <2>1, <2>2 DEF AckOnFinal, Handled
  <2>5. CASE AckFails
    BY <2>5, <2>1, <2>2, <2>3 DEF AckFails, Handled, FailUnsent
  <2>6. CASE AckUnknown
    BY <2>6, <2>1, <2>2, <2>3 DEF AckUnknown, Handled, FinishOp
  <2>7. CASE AckSucceeds
    BY <2>7, <2>1, <2>2, <2>3 DEF AckSucceeds, Handled, FinishOp
  <2>8. QED
    BY <1>14, <2>4, <2>5, <2>6, <2>7
<1>15. CASE Crash
  BY <1>f, <1>15 DEF Crash, HandlerEnds, DropPeer
<1>16. CASE Start
  <2>1. opState' \in [Ops -> Open \union Final \union {"none"}]
    BY <1>16 DEF Start, Recovered, Abandoned
  <2>2. outbox' \in [Ops -> {"none", "pending", "dispatching", "delivered", "uncertain", "not_sent"}]
    BY <1>16 DEF Start, Recovered
  <2>3. QED
    BY <1>f, <1>16, <2>1, <2>2 DEF Start
<1>17. CASE Revoke
  <2>1. opState' \in [Ops -> Open \union Final \union {"none"}]
    BY <1>17 DEF Revoke, Invalidated, Abandoned
  <2>2. outbox' \in [Ops -> {"none", "pending", "dispatching", "delivered", "uncertain", "not_sent"}]
    BY <1>17 DEF Revoke, Invalidated
  <2>3. QED
    BY <1>f, <1>17, <2>1, <2>2 DEF Revoke, DropPeer
<1>18. CASE NodeReceive
  <2> DEFINE o == Head(toNode).op
  <2>1. toNode # <<>> /\ Tail(toNode) \in Seq(Frame) /\ o \in Ops
    BY <1>18, TailFacts, FrameShape DEF NodeReceive, NodeReads
  <2>2. CASE journal[o] # "none"
    <3>1. Reported("ack", o, journal[o]) \in Report
      <4>1. journal[o] \in JournalStates
        BY <2>1
      <4>2. QED
        BY <2>1, <4>1, ReportFacts
    <3>2. toGw' = Sent(Reported("ack", o, journal[o]))
      BY <1>18, <2>2 DEF NodeReceive
    <3>3. toGw' \in Seq(Report)
      BY <3>1, <3>2, SentFacts
    <3>4. QED
      BY <1>18, <2>1, <2>2, <3>3 DEF NodeReceive
  <2>3. CASE journal[o] = "none"
    <3>1. /\ Reported("ack", o, "delivered") \in Report
          /\ [journal EXCEPT ![o] = "delivered"] \in [Ops -> JournalStates]
      BY <2>1, ReportFacts
    <3>2. SaveAndAck([journal EXCEPT ![o] = "delivered"], Reported("ack", o, "delivered"),
                     o, Tail(toNode))
      BY <1>18, <2>3 DEF NodeReceive
    <3>3. /\ journal' \in [Ops -> JournalStates] /\ disk' \in [Ops -> JournalStates]
          /\ execOp' \in Ops \union {NoOp} /\ nodeConn' \in Nat
          /\ toNode' \in Seq(Frame) /\ toGw' \in Seq(Report)
      <4> HIDE DEF DataOK, o
      <4>1. o \in Ops \union {NoOp}
        BY <2>1
      <4>2. QED
        BY <2>1, <3>1, <3>2, <4>1, SaveTypes
    <3>4. QED
      BY <1>f, <1>18, <3>3 DEF NodeReceive
  <2>4. QED
    BY <2>2, <2>3
<1>19. CASE NodeReject \/ NodeConfirm
  <2>1. execOp \in Ops
    BY <1>19 DEF NodeReject, NodeConfirm
  <2>2. PICK v \in {"rejected", "confirmed"} :
           SaveAndAck([journal EXCEPT ![execOp] = v], Reported("ack", execOp, v), NoOp, toNode)
    BY <1>19 DEF NodeReject, NodeConfirm
  <2>3. /\ Reported("ack", execOp, v) \in Report
        /\ [journal EXCEPT ![execOp] = v] \in [Ops -> JournalStates]
    BY <2>1, ReportFacts
  <2>4. /\ journal' \in [Ops -> JournalStates] /\ disk' \in [Ops -> JournalStates]
        /\ execOp' = NoOp /\ nodeConn' \in Nat /\ toNode' \in Seq(Frame) /\ toGw' \in Seq(Report)
    BY <2>2, <2>3, SaveTypes
  <2>5. UNCHANGED <<dbVars, gwVars, calls, late>>
    BY <1>19 DEF NodeReject, NodeConfirm
  <2>6. QED
    BY <1>f, <2>4, <2>5
<1>20. CASE NodeExecute
  <2>1. /\ execOp \in Ops /\ journal' = [journal EXCEPT ![execOp] = "executing"]
        /\ calls' = [calls EXCEPT ![execOp] = @ + 1] /\ disk' \in {disk, journal'}
        /\ UNCHANGED <<dbVars, gwVars, toGw, late>>
    BY <1>20 DEF NodeExecute
  <2>2. UNCHANGED <<nodeConn, toNode, execOp>> \/ HangUp
    BY <1>20 DEF NodeExecute
  <2>3. journal' \in [Ops -> JournalStates] /\ calls' \in [Ops -> Nat]
    BY <2>1
  <2>4. nodeConn' \in Nat /\ toNode' \in Seq(Frame) /\ execOp' \in Ops \union {NoOp}
    <3>1. CASE UNCHANGED <<nodeConn, toNode, execOp>>
      BY <3>1
    <3>2. CASE HangUp
      BY <3>2 DEF HangUp
    <3>3. QED
      BY <2>2, <3>1, <3>2
  <2>5. QED
    BY <1>f, <2>1, <2>3, <2>4
<1>22. CASE NodeAnswersQuery
  <2> DEFINE o == Head(toNode).op
  <2>1. toNode # <<>> /\ Tail(toNode) \in Seq(Frame) /\ o \in Ops
    BY <1>22, TailFacts, FrameShape DEF NodeAnswersQuery, NodeReads
  <2>2. Reported("status", o, journal[o]) \in Report
    <3>1. journal[o] \in JournalStates
      BY <2>1
    <3>2. QED
      BY <2>1, <3>1, ReportFacts
  <2>3. toGw' = Sent(Reported("status", o, journal[o]))
    BY <1>22 DEF NodeAnswersQuery
  <2>4. toGw' \in Seq(Report)
    BY <2>2, <2>3, SentFacts
  <2>5. QED
    BY <1>22, <2>1, <2>4 DEF NodeAnswersQuery
<1>23. CASE NodeReadsError \/ NodeHangsUp \/ NodeLosesConnection
  <2>1. HangUp /\ UNCHANGED <<dbVars, gwVars, toGw, journal, disk, calls, late>>
    BY <1>23, Zenon DEF NodeReadsError, NodeHangsUp, NodeLosesConnection
  <2>2. QED
    BY <1>f, <2>1 DEF HangUp
<1>24. CASE NodeRestart
  BY <1>f, <1>24 DEF NodeRestart, HangUp, Reloaded
<1>25. CASE UNCHANGED vars
  BY <1>25 DEF vars
<1>26. QED
  BY <1>1, <1>2, <1>3, <1>4, <1>5, <1>6, <1>7, <1>8, <1>9, <1>10, <1>11, <1>12, <1>13, <1>14,
     <1>15, <1>16, <1>17, <1>18, <1>19, <1>20, <1>22, <1>23, <1>24, <1>25 DEF Next

\* The initial state has the right types.
LEMMA InitTypes == Init => TypeOK
<1>1. Init => FlagsOK
  BY Zenon DEF Init, FlagsOK
<1>2. Init => DataOK
  BY OpsFacts DEF Init, DataOK, JournalStates
<1>3. QED
  BY <1>1, <1>2 DEF TypeOK

\* Every step keeps the types.
LEMMA TypeStep == TypeOK /\ [Next]_vars => TypeOK'
  BY FlagsStep, DataStep DEF TypeOK

\* The type invariant holds in every reachable state.
THEOREM TypeCorrect == Spec => []TypeOK
  BY InitTypes, TypeStep, PTL DEF Spec

-----------------------------------------------------------------------------
(* Every action preserves Core. *)

\* The types the steps below rest on.
FnTypes ==
  /\ opState \in [Ops -> Open \union Final \union {"none"}]
  /\ outbox \in [Ops -> {"none", "pending", "dispatching", "delivered", "uncertain", "not_sent"}]
  /\ opEpoch \in [Ops -> Nat]
  /\ journal \in [Ops -> JournalStates] /\ disk \in [Ops -> JournalStates]
  /\ calls \in [Ops -> Nat]
  /\ busyOp \in Ops \union {NoOp} /\ execOp \in Ops \union {NoOp}
  /\ \A m \in Report : m.op \in Ops

\* The parts of the inductive invariant, without the Boolean variables.
LEMMA UnfoldIInv == IInv => FnTypes /\ Core
  BY DEF IInv, TypeOK, DataOK, FnTypes, Report

\* The sequences of the inductive invariant.
LEMMA SeqTypes == IInv => queue \in Seq(Frame) /\ toNode \in Seq(Frame) /\ toGw \in Seq(Report)
  BY DEF IInv, TypeOK, DataOK

\* The two outcomes of saving the journal and sending a receipt.
LEMMA SaveOutcomes ==
  ASSUME NEW j, NEW m, NEW o, NEW rest, SaveAndAck(j, m, o, rest)
  PROVE  /\ journal' = j
         /\ \/ /\ disk' = j /\ toGw' = Sent(m) /\ execOp' = o
               /\ toNode' = rest /\ nodeConn' = nodeConn
            \/ /\ disk' \in {disk, j} /\ toGw' = toGw /\ execOp' = NoOp
               /\ toNode' = <<>> /\ nodeConn' = None
  BY DEF SaveAndAck, HangUp

\* Losing frames, reports or the handler, and nothing else, is harmless.
LEMMA LossCore == ASSUME IInv, Control',
  UNCHANGED <<opState, outbox, opEpoch, journal, disk, calls>>,
  (busyOp' = busyOp /\ step' = step) \/ busyOp' = NoOp, execOp' \in {execOp, NoOp},
  toGw' \in {toGw, <<>>},
  (reg' = reg /\ queue' = queue) \/ (queue' = <<>> /\ busyOp' = NoOp),
  (nodeConn' = nodeConn /\ toNode' = toNode) \/ (toNode' = <<>> /\ execOp' = NoOp)
  PROVE Core'
<1>1. FnTypes /\ Core
  BY UnfoldIInv
<1> USE <1>1, OpsFacts DEF Core, FnTypes, Control, Pipeline, Untouched, JournalTruth, ReportTruth,
    RecordTruth, InFlight, Dead, Open, Final, dbVars, gwVars, peerVars, nodeVars
<1>10. Control'
  BY EmptyFacts
<1>11. Pipeline'
  BY EmptyFacts
<1>12. Untouched'
  BY EmptyFacts
<1>13. JournalTruth'
  BY EmptyFacts
<1>14. ReportTruth'
  BY EmptyFacts
<1>15. RecordTruth'
  BY EmptyFacts
<1>20. QED
  BY <1>10, <1>11, <1>12, <1>13, <1>14, <1>15

\* Admission creates an operation nothing refers to yet.
LEMMA SubmitCore == ASSUME IInv, NEW op \in Ops, Submit(op) PROVE Core'
<1>1. FnTypes /\ Core
  BY UnfoldIInv
<1> USE <1>1, OpsFacts DEF Core, FnTypes, Control, Pipeline, Untouched, JournalTruth, ReportTruth,
    RecordTruth, InFlight, Dead, Open, Final, dbVars, gwVars, peerVars, nodeVars
<1>10. Control'
  BY DEF Submit, Mutex, Online
<1>11. Pipeline'
  BY DEF Submit, Mutex, Online
<1>12. Untouched'
  BY DEF Submit, Mutex, Online
<1>13. JournalTruth'
  BY DEF Submit, Mutex, Online
<1>14. ReportTruth'
  BY DEF Submit, Mutex, Online
<1>15. RecordTruth'
  BY DEF Submit, Mutex, Online
<1>20. QED
  BY <1>10, <1>11, <1>12, <1>13, <1>14, <1>15

\* The write intent precedes the frame.
LEMMA DispatchIntentCore == ASSUME IInv, DispatchIntent PROVE Core'
<1>1. FnTypes /\ Core
  BY UnfoldIInv
<1> USE <1>1, OpsFacts DEF Core, FnTypes, Control, Pipeline, Untouched, JournalTruth, ReportTruth,
    RecordTruth, InFlight, Dead, Open, Final, dbVars, gwVars, peerVars, nodeVars
<1>10. Control'
  BY DEF DispatchIntent, HandlerEnds
<1>11. Pipeline'
  BY DEF DispatchIntent, HandlerEnds
<1>12. Untouched'
  BY DEF DispatchIntent, HandlerEnds
<1>13. JournalTruth'
  BY DEF DispatchIntent, HandlerEnds
<1>14. ReportTruth'
  BY DEF DispatchIntent, HandlerEnds
<1>15. RecordTruth'
  BY DEF DispatchIntent, HandlerEnds
<1>20. QED
  BY <1>10, <1>11, <1>12, <1>13, <1>14, <1>15

\* A command that was not enqueued is dead.
LEMMA DispatchTooLateCore == ASSUME IInv, DispatchTooLate PROVE Core'
<1>1. FnTypes /\ Core
  BY UnfoldIInv
<1> USE <1>1, OpsFacts DEF Core, FnTypes, Control, Pipeline, Untouched, JournalTruth, ReportTruth,
    RecordTruth, InFlight, Dead, Open, Final, dbVars, gwVars, peerVars, nodeVars
<1>10. Control'
  BY DEF DispatchTooLate, OrDbError, FailUnsent, HandlerEnds
<1>11. Pipeline'
  BY DEF DispatchTooLate, OrDbError, FailUnsent, HandlerEnds
<1>12. Untouched'
  BY DEF DispatchTooLate, OrDbError, FailUnsent, HandlerEnds
<1>13. JournalTruth'
  BY DEF DispatchTooLate, OrDbError, FailUnsent, HandlerEnds
<1>14. ReportTruth'
  BY DEF DispatchTooLate, OrDbError, FailUnsent, HandlerEnds
<1>15. RecordTruth'
  BY DEF DispatchTooLate, OrDbError, FailUnsent, HandlerEnds
<1>20. QED
  BY <1>10, <1>11, <1>12, <1>13, <1>14, <1>15

\* A command enters the queue once, or is dead.
LEMMA DispatchEnqueueCore == ASSUME IInv, DispatchEnqueue PROVE Core'
<1>1. FnTypes /\ Core
  BY UnfoldIInv
<1> USE <1>1, OpsFacts DEF Core, FnTypes, Control, Pipeline, Untouched, JournalTruth, ReportTruth,
    RecordTruth, InFlight, Dead, Open, Final, dbVars, gwVars, peerVars, nodeVars
<1>2. queue \in Seq(Frame) /\ toNode \in Seq(Frame) /\ toGw \in Seq(Report)
  BY SeqTypes
<1>3. busyOp \in Ops /\ Command(busyOp) \in Frame
  BY FrameFacts DEF DispatchEnqueue
<1>4. /\ \A g : Has(queue', g) => Has(queue, g) \/ (HasRoom /\ g = Command(busyOp))
      /\ \A o \in Ops : Once(queue', o) /\ Ordered(queue', o)
  BY <1>2, <1>3, EnqueueFacts, FrameFacts DEF DispatchEnqueue
<1>10. Control'
  BY <1>3, <1>4, FrameFacts DEF DispatchEnqueue, OrDbError, FailUnsent, HandlerEnds
<1>11. Pipeline'
  BY <1>3, <1>4, FrameFacts DEF DispatchEnqueue, OrDbError, FailUnsent, HandlerEnds
<1>12. Untouched'
  BY <1>3, <1>4, FrameFacts DEF DispatchEnqueue, OrDbError, FailUnsent, HandlerEnds
<1>13. JournalTruth'
  BY <1>3, <1>4, FrameFacts DEF DispatchEnqueue, OrDbError, FailUnsent, HandlerEnds
<1>14. ReportTruth'
  BY <1>3, <1>4, FrameFacts DEF DispatchEnqueue, OrDbError, FailUnsent, HandlerEnds
<1>15. RecordTruth'
  BY <1>3, <1>4, FrameFacts DEF DispatchEnqueue, OrDbError, FailUnsent, HandlerEnds
<1>20. QED
  BY <1>10, <1>11, <1>12, <1>13, <1>14, <1>15

\* A command taken from the queue and not written is dead.
LEMMA WriterDropCore == ASSUME IInv, WriterDrop PROVE Core'
<1>1. FnTypes /\ Core
  BY UnfoldIInv
<1> USE <1>1, OpsFacts DEF Core, FnTypes, Control, Pipeline, Untouched, JournalTruth, ReportTruth,
    RecordTruth, InFlight, Dead, Open, Final, dbVars, gwVars, peerVars, nodeVars
<1>2. queue \in Seq(Frame) /\ toNode \in Seq(Frame) /\ toGw \in Seq(Report)
  BY SeqTypes
<1>3. queue # <<>> /\ Head(queue) \in Frame
  BY <1>2, TailFacts DEF WriterDrop, WriterReady
<1>4. /\ Head(queue).op \in Ops /\ Head(queue) = Command(Head(queue).op)
      /\ Has(queue, Head(queue)) /\ ~Has(queue', Head(queue))
      /\ \A g : Has(queue', g) => Has(queue, g)
      /\ \A o \in Ops : Once(queue', o) /\ Ordered(queue', o)
  BY <1>2, <1>3, TailFacts, FrameShape DEF WriterDrop, Unsendable
<1>10. Control'
  BY <1>3, <1>4, FrameFacts DEF WriterDrop, OrDbError, FailUnsent, Unsendable
<1>11. Pipeline'
  BY <1>3, <1>4, FrameFacts DEF WriterDrop, OrDbError, FailUnsent, Unsendable
<1>12. Untouched'
  BY <1>3, <1>4, FrameFacts DEF WriterDrop, OrDbError, FailUnsent, Unsendable
<1>13. JournalTruth'
  BY <1>3, <1>4, FrameFacts DEF WriterDrop, OrDbError, FailUnsent, Unsendable
<1>14. ReportTruth'
  BY <1>3, <1>4, FrameFacts DEF WriterDrop, OrDbError, FailUnsent, Unsendable
<1>15. RecordTruth'
  BY <1>3, <1>4, FrameFacts DEF WriterDrop, OrDbError, FailUnsent, Unsendable
<1>20. QED
  BY <1>10, <1>11, <1>12, <1>13, <1>14, <1>15

\* A written frame moves from the queue to the wire.
LEMMA WriterSendCore == ASSUME IInv, WriterSend PROVE Core'
<1>1. FnTypes /\ Core
  BY UnfoldIInv
<1> USE <1>1, OpsFacts DEF Core, FnTypes, Control, Pipeline, Untouched, JournalTruth, ReportTruth,
    RecordTruth, InFlight, Dead, Open, Final, dbVars, gwVars, peerVars, nodeVars
<1>2. queue \in Seq(Frame) /\ toNode \in Seq(Frame) /\ toGw \in Seq(Report)
  BY SeqTypes
<1>3. queue # <<>> /\ Head(queue) \in Frame
  BY <1>2, TailFacts DEF WriterSend, WriterReady
<1>4. /\ Head(queue).op \in Ops /\ Has(queue, Head(queue))
      /\ \A g : Has(queue', g) => Has(queue, g)
      /\ \A o \in Ops : /\ Once(queue', o) /\ Ordered(queue', o)
                        /\ Head(queue) \in {Command(o), Query(o)} => ~Has(queue', Command(o))
  BY <1>2, <1>3, TailFacts, FrameShape DEF WriterSend
<1>5. toNode' \in {toNode, Written(Head(queue))}
  BY DEF WriterSend
<1>6. /\ \A g : Has(toNode', g) => Has(toNode, g) \/ (nodeConn = reg /\ g = Head(queue))
      /\ \A o \in Ops : Once(toNode', o) /\ Ordered(toNode', o)
  BY <1>2, <1>3, <1>4, <1>5, WrittenFacts
<1>7. /\ UNCHANGED <<dbVars, up, reg, busyOp, step, nodeConn, journal, disk, execOp, calls, toGw>>
      /\ step = "idle" /\ reg # None
  BY DEF WriterSend, WriterReady, Mutex
<1>8. \A o \in Ops : Has(toNode', Command(o)) \/ Has(toNode', Query(o)) => ~Has(queue', Command(o))
  BY <1>4, <1>6
<1>10. Control'
  BY <1>3, <1>5, <1>7 DEF Written
<1>11. Pipeline'
  BY <1>4, <1>6, <1>7, <1>8, FrameFacts
<1>12. Untouched'
  BY <1>4, <1>6, <1>7, FrameFacts
<1>13. JournalTruth'
  BY <1>4, <1>6, <1>7, FrameFacts
<1>14. ReportTruth'
  BY <1>4, <1>6, <1>7, FrameFacts
<1>15. RecordTruth'
  BY <1>4, <1>6, <1>7, FrameFacts
<1>20. QED
  BY <1>10, <1>11, <1>12, <1>13, <1>14, <1>15

\* A frame whose write failed moves to the wire or is lost.
LEMMA WriterErrorCore == ASSUME IInv, WriterError PROVE Core'
<1>1. FnTypes /\ Core
  BY UnfoldIInv
<1> USE <1>1, OpsFacts DEF Core, FnTypes, Control, Pipeline, Untouched, JournalTruth, ReportTruth,
    RecordTruth, InFlight, Dead, Open, Final, dbVars, gwVars, peerVars, nodeVars
<1>2. queue \in Seq(Frame) /\ toNode \in Seq(Frame) /\ toGw \in Seq(Report)
  BY SeqTypes
<1>3. queue # <<>> /\ Head(queue) \in Frame
  BY <1>2, TailFacts DEF WriterError, WriterReady
<1>4. /\ Head(queue).op \in Ops /\ Has(queue, Head(queue))
      /\ \A g : Has(queue', g) => Has(queue, g)
      /\ \A o \in Ops : /\ Once(queue', o) /\ Ordered(queue', o)
                        /\ Head(queue) \in {Command(o), Query(o)} => ~Has(queue', Command(o))
  BY <1>2, <1>3, TailFacts, FrameShape DEF WriterError
<1>5. toNode' \in {toNode, Written(Head(queue))}
  BY DEF WriterError
<1>6. /\ \A g : Has(toNode', g) => Has(toNode, g) \/ (nodeConn = reg /\ g = Head(queue))
      /\ \A o \in Ops : Once(toNode', o) /\ Ordered(toNode', o)
  BY <1>2, <1>3, <1>4, <1>5, WrittenFacts
<1>7. /\ UNCHANGED <<dbVars, up, reg, busyOp, step, nodeConn, journal, disk, execOp, calls, toGw>>
      /\ step = "idle" /\ reg # None
  BY DEF WriterError, WriterReady, Mutex
<1>8. \A o \in Ops : Has(toNode', Command(o)) \/ Has(toNode', Query(o)) => ~Has(queue', Command(o))
  BY <1>4, <1>6
<1>10. Control'
  BY <1>3, <1>5, <1>7 DEF Written
<1>11. Pipeline'
  BY <1>4, <1>6, <1>7, <1>8, FrameFacts
<1>12. Untouched'
  BY <1>4, <1>6, <1>7, FrameFacts
<1>13. JournalTruth'
  BY <1>4, <1>6, <1>7, FrameFacts
<1>14. ReportTruth'
  BY <1>4, <1>6, <1>7, FrameFacts
<1>15. RecordTruth'
  BY <1>4, <1>6, <1>7, FrameFacts
<1>20. QED
  BY <1>10, <1>11, <1>12, <1>13, <1>14, <1>15

\* A new connection starts with queries about open operations only.
LEMMA ConnectCore == ASSUME IInv, Connect PROVE Core'
<1>a. \A o \in Ops : /\ ~Has(queue', Command(o)) /\ Once(queue', o) /\ Ordered(queue', o)
                     /\ Has(queue', Query(o)) => opState[o] \in Open
  BY ConnectQueue
<1>b. reg' = nodeConn' /\ reg' # None /\ nodeConn' # None
  BY OpsFacts DEF Connect, IInv, TypeOK, DataOK
<1>1. FnTypes /\ Core
  BY UnfoldIInv
<1> USE <1>1, OpsFacts DEF Core, FnTypes, Control, Pipeline, Untouched, JournalTruth, ReportTruth,
    RecordTruth, InFlight, Dead, Open, Final, dbVars, gwVars, peerVars, nodeVars
<1>10. Control'
  BY <1>a, <1>b, EmptyFacts DEF Connect, Mutex
<1>11. Pipeline'
  BY <1>a, <1>b, EmptyFacts DEF Connect, Mutex
<1>12. Untouched'
  BY <1>a, <1>b, EmptyFacts DEF Connect, Mutex
<1>13. JournalTruth'
  BY <1>a, <1>b, EmptyFacts DEF Connect, Mutex
<1>14. ReportTruth'
  BY <1>a, <1>b, EmptyFacts DEF Connect, Mutex
<1>15. RecordTruth'
  BY <1>a, <1>b, EmptyFacts DEF Connect, Mutex
<1>20. QED
  BY <1>10, <1>11, <1>12, <1>13, <1>14, <1>15

\* A refused report at most marks the operation reconciling.
LEMMA AckRefusedCore == ASSUME IInv, AckRefused PROVE Core'
<1>1. FnTypes /\ Core
  BY UnfoldIInv
<1> USE <1>1, OpsFacts DEF Core, FnTypes, Control, Pipeline, Untouched, JournalTruth, ReportTruth,
    RecordTruth, InFlight, Dead, Open, Final, dbVars, gwVars, peerVars, nodeVars
<1>2. queue \in Seq(Frame) /\ toNode \in Seq(Frame) /\ toGw \in Seq(Report)
  BY SeqTypes
<1>3. /\ toGw # <<>> /\ toGw' = Tail(toGw) /\ reg # None
  BY DEF AckRefused, HasReport
<1>4. /\ TheReport \in Report /\ Has(toGw, TheReport) /\ TheReport.op \in Ops
      /\ \A g : Has(toGw', g) => Has(toGw, g)
  BY <1>2, <1>3, TailFacts DEF TheReport
<1>5. Error(TheReport.op) \in Frame
  BY <1>4, FrameFacts
<1>6. \A o \in Ops : /\ Has(queue', Command(o)) => Has(queue, Command(o))
                     /\ Has(queue', Query(o)) => Has(queue, Query(o))
                     /\ Once(queue', o) /\ Ordered(queue', o)
  <2>1. CASE UNCHANGED queue
    BY <2>1
  <2>2. CASE Enqueue(Error(TheReport.op))
    BY <1>2, <1>4, <1>5, <2>2, EnqueueFacts, FrameFacts
  <2>3. QED
    BY <2>1, <2>2 DEF AckRefused
<1>7. /\ UNCHANGED <<outbox, opEpoch, revoked, up, reg, busyOp, step, nodeVars>>
      /\ \/ UNCHANGED opState
         \/ /\ opState[TheReport.op] \in Open
            /\ opState' = [opState EXCEPT ![TheReport.op] = "reconciling"]
  BY DEF AckRefused, FinishOp
<1>10. Control'
  BY <1>3, <1>7 DEF AckRefused
<1>11. Pipeline'
  BY <1>3, <1>4, <1>6, <1>7, FrameFacts
<1>12. Untouched'
  BY <1>3, <1>4, <1>6, <1>7, FrameFacts
<1>13. JournalTruth'
  BY <1>3, <1>4, <1>6, <1>7, FrameFacts
<1>14. ReportTruth'
  BY <1>3, <1>4, <1>6, <1>7, FrameFacts
<1>15. RecordTruth'
  BY <1>3, <1>4, <1>6, <1>7, FrameFacts
<1>20. QED
  BY <1>10, <1>11, <1>12, <1>13, <1>14, <1>15

\* A report about a finished operation changes nothing.
LEMMA AckOnFinalCore == ASSUME IInv, AckOnFinal PROVE Core'
<1>1. FnTypes /\ Core
  BY UnfoldIInv
<1> USE <1>1, OpsFacts DEF Core, FnTypes, Control, Pipeline, Untouched, JournalTruth, ReportTruth,
    RecordTruth, InFlight, Dead, Open, Final, dbVars, gwVars, peerVars, nodeVars
<1>2. queue \in Seq(Frame) /\ toNode \in Seq(Frame) /\ toGw \in Seq(Report)
  BY SeqTypes
<1>3. /\ toGw # <<>> /\ toGw' = Tail(toGw) /\ reg # None
  BY DEF AckOnFinal, Handled, HasReport
<1>4. /\ TheReport \in Report /\ Has(toGw, TheReport) /\ TheReport.op \in Ops
      /\ \A g : Has(toGw', g) => Has(toGw, g)
  BY <1>2, <1>3, TailFacts DEF TheReport
<1>10. Control'
  BY <1>3, <1>4 DEF AckOnFinal, Handled
<1>11. Pipeline'
  BY <1>3, <1>4 DEF AckOnFinal, Handled
<1>12. Untouched'
  BY <1>3, <1>4 DEF AckOnFinal, Handled
<1>13. JournalTruth'
  BY <1>3, <1>4 DEF AckOnFinal, Handled
<1>14. ReportTruth'
  BY <1>3, <1>4 DEF AckOnFinal, Handled
<1>15. RecordTruth'
  BY <1>3, <1>4 DEF AckOnFinal, Handled
<1>20. QED
  BY <1>10, <1>11, <1>12, <1>13, <1>14, <1>15

\* Only a command that is dead is recorded as failed.
LEMMA AckFailsCore == ASSUME IInv, AckFails PROVE Core'
<1>1. FnTypes /\ Core
  BY UnfoldIInv
<1> USE <1>1, OpsFacts DEF Core, FnTypes, Control, Pipeline, Untouched, JournalTruth, ReportTruth,
    RecordTruth, InFlight, Dead, Open, Final, dbVars, gwVars, peerVars, nodeVars
<1>2. queue \in Seq(Frame) /\ toNode \in Seq(Frame) /\ toGw \in Seq(Report)
  BY SeqTypes
<1>3. /\ toGw # <<>> /\ toGw' = Tail(toGw) /\ reg # None
  BY DEF AckFails, Handled, HasReport
<1>4. /\ TheReport \in Report /\ Has(toGw, TheReport) /\ TheReport.op \in Ops
      /\ \A g : Has(toGw', g) => Has(toGw, g)
  BY <1>2, <1>3, TailFacts DEF TheReport
<1>10. Control'
  BY <1>3, <1>4 DEF AckFails, Handled, FailUnsent
<1>11. Pipeline'
  BY <1>3, <1>4 DEF AckFails, Handled, FailUnsent
<1>12. Untouched'
  BY <1>3, <1>4 DEF AckFails, Handled, FailUnsent
<1>13. JournalTruth'
  BY <1>3, <1>4 DEF AckFails, Handled, FailUnsent
<1>14. ReportTruth'
  BY <1>3, <1>4 DEF AckFails, Handled, FailUnsent
<1>15. RecordTruth'
  BY <1>3, <1>4 DEF AckFails, Handled, FailUnsent
<1>20. QED
  BY <1>10, <1>11, <1>12, <1>13, <1>14, <1>15

\* An unknown outcome marks the operation reconciling.
LEMMA AckUnknownCore == ASSUME IInv, AckUnknown PROVE Core'
<1>1. FnTypes /\ Core
  BY UnfoldIInv
<1> USE <1>1, OpsFacts DEF Core, FnTypes, Control, Pipeline, Untouched, JournalTruth, ReportTruth,
    RecordTruth, InFlight, Dead, Open, Final, dbVars, gwVars, peerVars, nodeVars
<1>2. queue \in Seq(Frame) /\ toNode \in Seq(Frame) /\ toGw \in Seq(Report)
  BY SeqTypes
<1>3. /\ toGw # <<>> /\ toGw' = Tail(toGw) /\ reg # None
  BY DEF AckUnknown, Handled, HasReport
<1>4. /\ TheReport \in Report /\ Has(toGw, TheReport) /\ TheReport.op \in Ops
      /\ \A g : Has(toGw', g) => Has(toGw, g)
  BY <1>2, <1>3, TailFacts DEF TheReport
<1>10. Control'
  BY <1>3, <1>4 DEF AckUnknown, Handled, FinishOp
<1>11. Pipeline'
  BY <1>3, <1>4 DEF AckUnknown, Handled, FinishOp
<1>12. Untouched'
  BY <1>3, <1>4 DEF AckUnknown, Handled, FinishOp
<1>13. JournalTruth'
  BY <1>3, <1>4 DEF AckUnknown, Handled, FinishOp
<1>14. ReportTruth'
  BY <1>3, <1>4 DEF AckUnknown, Handled, FinishOp
<1>15. RecordTruth'
  BY <1>3, <1>4 DEF AckUnknown, Handled, FinishOp
<1>20. QED
  BY <1>10, <1>11, <1>12, <1>13, <1>14, <1>15

\* Only an executed command is recorded as confirmed.
LEMMA AckSucceedsCore == ASSUME IInv, AckSucceeds PROVE Core'
<1>1. FnTypes /\ Core
  BY UnfoldIInv
<1> USE <1>1, OpsFacts DEF Core, FnTypes, Control, Pipeline, Untouched, JournalTruth, ReportTruth,
    RecordTruth, InFlight, Dead, Open, Final, dbVars, gwVars, peerVars, nodeVars
<1>2. queue \in Seq(Frame) /\ toNode \in Seq(Frame) /\ toGw \in Seq(Report)
  BY SeqTypes
<1>3. /\ toGw # <<>> /\ toGw' = Tail(toGw) /\ reg # None
  BY DEF AckSucceeds, Handled, HasReport
<1>4. /\ TheReport \in Report /\ Has(toGw, TheReport) /\ TheReport.op \in Ops
      /\ \A g : Has(toGw', g) => Has(toGw, g)
  BY <1>2, <1>3, TailFacts DEF TheReport
<1>10. Control'
  BY <1>3, <1>4 DEF AckSucceeds, Handled, FinishOp
<1>11. Pipeline'
  BY <1>3, <1>4 DEF AckSucceeds, Handled, FinishOp
<1>12. Untouched'
  BY <1>3, <1>4 DEF AckSucceeds, Handled, FinishOp
<1>13. JournalTruth'
  BY <1>3, <1>4 DEF AckSucceeds, Handled, FinishOp
<1>14. ReportTruth'
  BY <1>3, <1>4 DEF AckSucceeds, Handled, FinishOp
<1>15. RecordTruth'
  BY <1>3, <1>4 DEF AckSucceeds, Handled, FinishOp
<1>20. QED
  BY <1>10, <1>11, <1>12, <1>13, <1>14, <1>15

\* An expired operation is queried behind its command, if that is queued.
LEMMA ExpireCore == ASSUME IInv, NEW op \in Ops, Expire(op) PROVE Core'
<1>1. FnTypes /\ Core
  BY UnfoldIInv
<1> USE <1>1, OpsFacts DEF Core, FnTypes, Control, Pipeline, Untouched, JournalTruth, ReportTruth,
    RecordTruth, InFlight, Dead, Open, Final, dbVars, gwVars, peerVars, nodeVars
<1>2. queue \in Seq(Frame) /\ toNode \in Seq(Frame) /\ toGw \in Seq(Report)
  BY SeqTypes
<1>3. /\ \A g : Has(queue', g) => Has(queue, g) \/ (reg # None /\ g = Query(op))
      /\ \A o \in Ops : Once(queue', o) /\ Ordered(queue', o)
  <2>1. CASE UNCHANGED queue
    BY <2>1
  <2>2. CASE reg # None /\ Enqueue(Query(op))
    BY <1>2, <2>2, EnqueueFacts, FrameFacts
  <2>3. QED
    BY <2>1, <2>2 DEF Expire, ExpiryQuery
<1>4. /\ UNCHANGED <<opEpoch, revoked, up, reg, busyOp, step, nodeVars, toGw>>
      /\ step = "idle" /\ opState[op] \in Open
      /\ \/ /\ outbox[op] = "pending"
            /\ opState' = [opState EXCEPT ![op] = "failed"]
            /\ outbox' = [outbox EXCEPT ![op] = "not_sent"]
         \/ /\ opState' = [opState EXCEPT ![op] = "reconciling"]
            /\ outbox' \in {[outbox EXCEPT ![op] = "delivered"], [outbox EXCEPT ![op] = "uncertain"]}
  BY DEF Expire, Expirable, FailUnsent, FinishOp, Mutex
<1>5. reg = None => UNCHANGED <<queue, live>>
  BY DEF Expire, ExpiryQuery
<1>10. Control'
  BY <1>4, <1>5
<1>11. Pipeline'
  BY <1>3, <1>4, FrameFacts
<1>12. Untouched'
  BY <1>3, <1>4, FrameFacts
<1>13. JournalTruth'
  BY <1>3, <1>4, FrameFacts
<1>14. ReportTruth'
  BY <1>3, <1>4, FrameFacts
<1>15. RecordTruth'
  BY <1>3, <1>4, FrameFacts
<1>20. QED
  BY <1>10, <1>11, <1>12, <1>13, <1>14, <1>15

\* Recovery fails only what was never handed to a writer.
LEMMA StartCore == ASSUME IInv, Start PROVE Core'
<1>1. FnTypes /\ Core
  BY UnfoldIInv
<1> USE <1>1, OpsFacts DEF Core, FnTypes, Control, Pipeline, Untouched, JournalTruth, ReportTruth,
    RecordTruth, InFlight, Dead, Open, Final, dbVars, gwVars, peerVars, nodeVars
<1>2. UNCHANGED <<opEpoch, dbEpoch, revoked, peerVars, busyOp, step, nodeVars, toGw>>
  BY DEF Start
<1>3. \A o \in Ops :
        \/ opState'[o] = opState[o] /\ outbox'[o] = outbox[o]
        \/ /\ opState[o] \in Open /\ opState'[o] = "failed"
           /\ outbox[o] = "pending" /\ outbox'[o] = "not_sent"
        \/ /\ opState[o] \in Open /\ opState'[o] = "reconciling"
           /\ outbox[o] # "pending" /\ outbox'[o] \in {outbox[o], "uncertain"}
  BY DEF Start, Recovered, Abandoned
<1>10. Control'
  BY DEF Start, Recovered, Abandoned
<1>11. Pipeline'
  BY <1>2, <1>3
<1>12. Untouched'
  BY DEF Start, Recovered, Abandoned
<1>13. JournalTruth'
  BY DEF Start, Recovered, Abandoned
<1>14. ReportTruth'
  BY DEF Start, Recovered, Abandoned
<1>15. RecordTruth'
  BY DEF Start, Recovered, Abandoned
<1>20. QED
  BY <1>10, <1>11, <1>12, <1>13, <1>14, <1>15

\* Revocation fails only what was never handed to a writer.
LEMMA RevokeCore == ASSUME IInv, Revoke PROVE Core'
<1>1. FnTypes /\ Core
  BY UnfoldIInv
<1> USE <1>1, OpsFacts DEF Core, FnTypes, Control, Pipeline, Untouched, JournalTruth, ReportTruth,
    RecordTruth, InFlight, Dead, Open, Final, dbVars, gwVars, peerVars, nodeVars
<1>2. /\ DropPeer /\ revoked' = TRUE
      /\ UNCHANGED <<opEpoch, busyOp, step, nodeVars>> /\ step = "idle"
  BY DEF Revoke, Mutex
<1>3. \A o \in Ops :
        \/ opState'[o] = opState[o] /\ outbox'[o] = outbox[o]
        \/ /\ opState[o] \in Open /\ opState'[o] = "failed"
           /\ outbox[o] = "pending" /\ outbox'[o] = "not_sent"
        \/ /\ opState[o] \in Open /\ opState'[o] = "reconciling"
           /\ outbox[o] # "pending" /\ outbox'[o] = outbox[o]
  BY DEF Revoke, Invalidated, Abandoned
<1>10. Control'
  BY EmptyFacts DEF Revoke, Invalidated, Abandoned, DropPeer, Mutex
<1>11. Pipeline'
  BY <1>2, <1>3, EmptyFacts DEF DropPeer
<1>12. Untouched'
  BY <1>2, <1>3, EmptyFacts DEF DropPeer
<1>13. JournalTruth'
  BY <1>2, <1>3, EmptyFacts DEF DropPeer
<1>14. ReportTruth'
  BY EmptyFacts DEF Revoke, Invalidated, Abandoned, DropPeer, Mutex
<1>15. RecordTruth'
  BY <1>2, <1>3, EmptyFacts DEF DropPeer
<1>20. QED
  BY <1>10, <1>11, <1>12, <1>13, <1>14, <1>15

\* A reloaded journal claims no more than the one on disk.
LEMMA NodeRestartCore == ASSUME IInv, NodeRestart PROVE Core'
<1>1. FnTypes /\ Core
  BY UnfoldIInv
<1> USE <1>1, OpsFacts DEF Core, FnTypes, Control, Pipeline, Untouched, JournalTruth, ReportTruth,
    RecordTruth, InFlight, Dead, Open, Final, dbVars, gwVars, peerVars, nodeVars
<1>10. Control'
  BY EmptyFacts DEF NodeRestart, HangUp, Reloaded
<1>11. Pipeline'
  BY EmptyFacts DEF NodeRestart, HangUp, Reloaded
<1>12. Untouched'
  BY EmptyFacts DEF NodeRestart, HangUp, Reloaded
<1>13. JournalTruth'
  BY EmptyFacts DEF NodeRestart, HangUp, Reloaded
<1>14. ReportTruth'
  BY EmptyFacts DEF NodeRestart, HangUp, Reloaded
<1>15. RecordTruth'
  BY EmptyFacts DEF NodeRestart, HangUp, Reloaded
<1>20. QED
  BY <1>10, <1>11, <1>12, <1>13, <1>14, <1>15

\* The native call happens once, from a delivered entry.
LEMMA NodeExecuteCore == ASSUME IInv, NodeExecute PROVE Core'
<1>1. FnTypes /\ Core
  BY UnfoldIInv
<1> USE <1>1, OpsFacts DEF Core, FnTypes, Control, Pipeline, Untouched, JournalTruth, ReportTruth,
    RecordTruth, InFlight, Dead, Open, Final, dbVars, gwVars, peerVars, nodeVars
<1>10. Control'
  BY EmptyFacts DEF NodeExecute, HangUp
<1>11. Pipeline'
  BY EmptyFacts DEF NodeExecute, HangUp
<1>12. Untouched'
  BY EmptyFacts DEF NodeExecute, HangUp
<1>13. JournalTruth'
  BY EmptyFacts DEF NodeExecute, HangUp
<1>14. ReportTruth'
  BY EmptyFacts DEF NodeExecute, HangUp
<1>15. RecordTruth'
  BY EmptyFacts DEF NodeExecute, HangUp
<1>20. QED
  BY <1>10, <1>11, <1>12, <1>13, <1>14, <1>15

\* A command is taken from the wire once and enters the journal before its receipt.
LEMMA NodeReceiveCore == ASSUME IInv, NodeReceive PROVE Core'
<1>1. FnTypes /\ Core
  BY UnfoldIInv
<1> USE <1>1, OpsFacts DEF Core, FnTypes, Control, Pipeline, Untouched, JournalTruth, ReportTruth,
    RecordTruth, InFlight, Dead, Open, Final, dbVars, gwVars, peerVars, nodeVars
<1>2. queue \in Seq(Frame) /\ toNode \in Seq(Frame) /\ toGw \in Seq(Report)
  BY SeqTypes
<1> DEFINE o == Head(toNode).op
           m == Reported("ack", o, "delivered")
<1>3. toNode # <<>> /\ Head(toNode) \in Frame /\ Head(toNode).type = "command"
      /\ nodeConn # None /\ execOp = NoOp
  BY <1>2, TailFacts DEF NodeReceive, NodeReads
<1>4. o \in Ops /\ Head(toNode) = Command(o)
  BY <1>3, FrameShape
<1>5. /\ Has(toNode, Command(o)) /\ ~Has(Tail(toNode), Command(o))
      /\ \A f : Has(Tail(toNode), f) => Has(toNode, f)
      /\ \A p \in Ops : Once(Tail(toNode), p) /\ Ordered(Tail(toNode), p)
  BY <1>2, <1>3, <1>4, TailFacts
<1>6. o \in Ops /\ journal[o] = "none" /\ opState[o] \in Open /\ calls[o] = 0
  BY <1>4, <1>5
<1>7. /\ m \in Report /\ m.op = o /\ m.state \notin {"not_seen", "rejected", "confirmed"}
  BY <1>4, ReportFacts DEF JournalStates
<1> HIDE DEF m
<1> DEFINE j == [journal EXCEPT ![o] = "delivered"]
<1>d. SaveAndAck(j, m, o, Tail(toNode)) /\ UNCHANGED <<dbVars, gwVars, calls>>
  BY <1>6 DEF NodeReceive, m
<1> HIDE DEF j
<1>8. /\ UNCHANGED <<dbVars, gwVars, calls>> /\ journal' = j
      /\ \/ /\ disk' = journal' /\ execOp' = o
            /\ toNode' = Tail(toNode) /\ nodeConn' = nodeConn
         \/ /\ disk' \in {disk, journal'} /\ execOp' = NoOp
            /\ toNode' = <<>> /\ nodeConn' = None
  BY <1>d, SaveOutcomes
<1>n. /\ journal'[o] = "delivered" /\ disk'[o] \in {disk[o], "delivered"}
      /\ execOp' = o => disk'[o] = "delivered"
      /\ \A p \in Ops : p # o => /\ journal'[p] = journal[p] /\ disk'[p] \in {disk[p], journal[p]}
                                /\ execOp' # p
  BY <1>6, <1>8 DEF j
<1>9. /\ \A f : Has(toNode', f) => Has(Tail(toNode), f) /\ nodeConn' = nodeConn
      /\ \A p \in Ops : Once(toNode', p) /\ Ordered(toNode', p)
  <2>1. CASE toNode' = Tail(toNode) /\ nodeConn' = nodeConn
    BY <1>5, <2>1
  <2>2. CASE toNode' = <<>>
    BY <2>2, EmptyFacts
  <2>3. QED
    BY <1>8, <2>1, <2>2
<1>s. toGw' \in {toGw, Sent(m)}
  BY <1>d, SaveOutcomes
<1>t. /\ \A g : Has(toGw', g) => Has(toGw, g) \/ (nodeConn = reg /\ g = m)
      /\ reg = None => toGw' = toGw
  BY <1>2, <1>3, <1>7, <1>s, SentFacts DEF Sent
<1>10. Control'
  BY <1>3, <1>8, <1>t
<1>11. Pipeline'
  BY <1>5, <1>6, <1>8, <1>9, <1>n
<1>12. Untouched'
  BY <1>5, <1>6, <1>8, <1>9, <1>n
<1>13. JournalTruth'
  BY <1>5, <1>6, <1>8, <1>9, <1>n
<1>14. ReportTruth'
  BY <1>5, <1>6, <1>7, <1>8, <1>9, <1>t
<1>15. RecordTruth'
  BY <1>5, <1>6, <1>8, <1>9, <1>n
<1>20. QED
  BY <1>10, <1>11, <1>12, <1>13, <1>14, <1>15

\* A rejected command was not executed and never will be.
LEMMA NodeRejectCore == ASSUME IInv, NodeReject PROVE Core'
<1>1. FnTypes /\ Core
  BY UnfoldIInv
<1> USE <1>1, OpsFacts DEF Core, FnTypes, Control, Pipeline, Untouched, JournalTruth, ReportTruth,
    RecordTruth, InFlight, Dead, Open, Final, dbVars, gwVars, peerVars, nodeVars
<1>2. queue \in Seq(Frame) /\ toNode \in Seq(Frame) /\ toGw \in Seq(Report)
  BY SeqTypes
<1> DEFINE m == Reported("ack", execOp, "rejected")
           j == [journal EXCEPT ![execOp] = "rejected"]
<1>3. execOp \in Ops /\ journal[execOp] = "delivered" /\ nodeConn # None
  BY DEF NodeReject
<1>4. m \in Report /\ m.op = execOp /\ m.state = "rejected"
  BY <1>3, ReportFacts DEF JournalStates
<1>5. SaveAndAck(j, m, NoOp, toNode) /\ UNCHANGED <<dbVars, gwVars, calls>>
  BY DEF NodeReject
<1> HIDE DEF m, j
<1>6. /\ execOp' = NoOp /\ journal' = j /\ disk' \in {disk, j} /\ toGw' \in {toGw, Sent(m)}
      /\ \/ toNode' = toNode /\ nodeConn' = nodeConn
         \/ toNode' = <<>> /\ nodeConn' = None
  BY <1>5, SaveOutcomes
<1>7. /\ UNCHANGED <<dbVars, gwVars, calls>> /\ execOp' = NoOp
      /\ journal'[execOp] = "rejected" /\ disk'[execOp] \in {disk[execOp], "rejected"}
      /\ \A p \in Ops : p # execOp => journal'[p] = journal[p] /\ disk'[p] \in {disk[p], journal[p]}
  BY <1>3, <1>5, <1>6 DEF j
<1>8. /\ \A f : Has(toNode', f) => Has(toNode, f) /\ nodeConn' = nodeConn
      /\ \A p \in Ops : Once(toNode', p) /\ Ordered(toNode', p)
  BY <1>6, EmptyFacts
<1>9. /\ \A g : Has(toGw', g) => Has(toGw, g) \/ g = m
      /\ reg = None => toGw' = toGw
  BY <1>2, <1>3, <1>4, <1>6, SentFacts DEF Sent
<1>10. Control'
  BY <1>3, <1>5, <1>6, <1>9
<1>11. Pipeline'
  BY <1>3, <1>7, <1>8, <1>9
<1>12. Untouched'
  BY <1>3, <1>7, <1>8, <1>9
<1>13. JournalTruth'
  BY <1>3, <1>7, <1>8, <1>9
<1>14. ReportTruth'
  BY <1>3, <1>4, <1>7, <1>8, <1>9
<1>15. RecordTruth'
  BY <1>3, <1>7, <1>8, <1>9
<1>20. QED
  BY <1>10, <1>11, <1>12, <1>13, <1>14, <1>15

\* A confirmed command was executed once.
LEMMA NodeConfirmCore == ASSUME IInv, NodeConfirm PROVE Core'
<1>1. FnTypes /\ Core
  BY UnfoldIInv
<1> USE <1>1, OpsFacts DEF Core, FnTypes, Control, Pipeline, Untouched, JournalTruth, ReportTruth,
    RecordTruth, InFlight, Dead, Open, Final, dbVars, gwVars, peerVars, nodeVars
<1>2. queue \in Seq(Frame) /\ toNode \in Seq(Frame) /\ toGw \in Seq(Report)
  BY SeqTypes
<1> DEFINE m == Reported("ack", execOp, "confirmed")
           j == [journal EXCEPT ![execOp] = "confirmed"]
<1>3. execOp \in Ops /\ journal[execOp] = "executing" /\ nodeConn # None
  BY DEF NodeConfirm
<1>4. m \in Report /\ m.op = execOp /\ m.state = "confirmed"
  BY <1>3, ReportFacts DEF JournalStates
<1>5. SaveAndAck(j, m, NoOp, toNode) /\ UNCHANGED <<dbVars, gwVars, calls>>
  BY DEF NodeConfirm
<1> HIDE DEF m, j
<1>6. /\ execOp' = NoOp /\ journal' = j /\ disk' \in {disk, j} /\ toGw' \in {toGw, Sent(m)}
      /\ \/ toNode' = toNode /\ nodeConn' = nodeConn
         \/ toNode' = <<>> /\ nodeConn' = None
  BY <1>5, SaveOutcomes
<1>7. /\ UNCHANGED <<dbVars, gwVars, calls>> /\ execOp' = NoOp
      /\ journal'[execOp] = "confirmed" /\ disk'[execOp] \in {disk[execOp], "confirmed"}
      /\ \A p \in Ops : p # execOp => journal'[p] = journal[p] /\ disk'[p] \in {disk[p], journal[p]}
  BY <1>3, <1>5, <1>6 DEF j
<1>8. /\ \A f : Has(toNode', f) => Has(toNode, f) /\ nodeConn' = nodeConn
      /\ \A p \in Ops : Once(toNode', p) /\ Ordered(toNode', p)
  BY <1>6, EmptyFacts
<1>9. /\ \A g : Has(toGw', g) => Has(toGw, g) \/ g = m
      /\ reg = None => toGw' = toGw
  BY <1>2, <1>3, <1>4, <1>6, SentFacts DEF Sent
<1>10. Control'
  BY <1>3, <1>5, <1>6, <1>9
<1>11. Pipeline'
  BY <1>3, <1>7, <1>8, <1>9
<1>12. Untouched'
  BY <1>3, <1>7, <1>8, <1>9
<1>13. JournalTruth'
  BY <1>3, <1>7, <1>8, <1>9
<1>14. ReportTruth'
  BY <1>3, <1>4, <1>7, <1>8, <1>9
<1>15. RecordTruth'
  BY <1>3, <1>7, <1>8, <1>9
<1>20. QED
  BY <1>10, <1>11, <1>12, <1>13, <1>14, <1>15

\* An answer to a query comes after the command it asks about.
LEMMA NodeAnswersQueryCore == ASSUME IInv, NodeAnswersQuery PROVE Core'
<1>1. FnTypes /\ Core
  BY UnfoldIInv
<1> USE <1>1, OpsFacts DEF Core, FnTypes, Control, Pipeline, Untouched, JournalTruth, ReportTruth,
    RecordTruth, InFlight, Dead, Open, Final, dbVars, gwVars, peerVars, nodeVars
<1>2. queue \in Seq(Frame) /\ toNode \in Seq(Frame) /\ toGw \in Seq(Report)
  BY SeqTypes
<1>3. /\ toNode # <<>> /\ Head(toNode) \in Frame /\ Head(toNode).type = "query"
      /\ nodeConn # None /\ execOp = NoOp
  BY <1>2, TailFacts DEF NodeAnswersQuery, NodeReads
<1>4. PICK o \in Ops : Head(toNode) = Query(o) /\ Head(toNode).op = o /\ journal[o] \in JournalStates
  BY <1>3, FrameShape
<1> DEFINE m == Reported("status", o, journal[o])
<1>5. /\ Has(toNode, Query(o)) /\ ~Has(toNode', Command(o))
      /\ \A f : Has(toNode', f) => Has(toNode, f)
      /\ \A p \in Ops : Once(toNode', p) /\ Ordered(toNode', p)
  BY <1>2, <1>3, <1>4, TailFacts DEF NodeAnswersQuery
<1>6. /\ UNCHANGED <<dbVars, gwVars, nodeConn, journal, disk, execOp, calls>>
      /\ toGw' = Sent(m)
  BY <1>4 DEF NodeAnswersQuery
<1>7. /\ m \in Report /\ m.op = o
      /\ m.state = "not_seen" <=> journal[o] = "none"
      /\ m.state = "rejected" <=> journal[o] = "rejected"
      /\ m.state = "confirmed" <=> journal[o] = "confirmed"
  BY <1>4, ReportFacts
<1> HIDE DEF m
<1>8. /\ \A g : Has(toGw', g) => Has(toGw, g) \/ g = m
      /\ reg = None => toGw' = toGw
  BY <1>2, <1>3, <1>6, <1>7, SentFacts DEF Sent
<1>a. /\ m.state \in {"not_seen", "rejected"} => calls'[o] = 0
      /\ m.state = "confirmed" => calls'[o] = 1
  BY <1>4, <1>6, <1>7
<1>b. opState'[o] # "none" /\ ~InFlight(o)' /\ execOp' # o
  BY <1>3, <1>4, <1>5, <1>6
<1>c. \A p \in Ops : InFlight(p)' => InFlight(p)
  BY <1>5, <1>6
<1>10. Control'
  BY <1>3, <1>6, <1>8
<1>11. Pipeline'
  BY <1>3, <1>4, <1>5, <1>6
<1>12. Untouched'
  BY <1>3, <1>4, <1>5, <1>6
<1>13. JournalTruth'
  BY <1>3, <1>4, <1>5, <1>6
<1>14. ReportTruth'
  BY <1>4, <1>6, <1>7, <1>8, <1>a, <1>b, <1>c
<1>15. RecordTruth'
  BY <1>3, <1>4, <1>5, <1>6
<1>20. QED
  BY <1>10, <1>11, <1>12, <1>13, <1>14, <1>15

\* A step that changes nothing but timers and flags keeps Core.
LEMMA QuietCore ==
  ASSUME IInv, UNCHANGED <<opState, outbox, opEpoch, revoked, up, reg, queue, busyOp, step,
                           nodeConn, toNode, toGw, journal, disk, execOp, calls>>,
         reg # None \/ UNCHANGED live
  PROVE  Core'
<1>1. Control
  BY DEF IInv, Core
<1>2. Control'
  BY <1>1 DEF Control
<1>3. QED
  BY <1>2, LossCore

\* The Node leaving its connection keeps Core.
LEMMA HangUpCore ==
  ASSUME IInv, HangUp, UNCHANGED <<dbVars, gwVars, toGw, journal, disk, calls>>
  PROVE  Core'
<1>1. Control
  BY DEF IInv, Core
<1>2. /\ UNCHANGED <<opState, outbox, opEpoch, revoked, up, reg, live, queue, busyOp, step, toGw,
                     journal, disk, calls>>
      /\ nodeConn' = None /\ toNode' = <<>> /\ execOp' = NoOp
  BY DEF HangUp, dbVars, gwVars, peerVars
<1>3. Control'
  BY <1>1, <1>2 DEF Control
<1>4. QED
  BY <1>2, <1>3, LossCore

\* The Gateway dropping the peer, when no handler is left at work, keeps Core.
LEMMA DropPeerCore ==
  ASSUME IInv, DropPeer, busyOp' = NoOp, step' = "idle", UNCHANGED <<dbVars, nodeVars>>
  PROVE  Core'
<1>1. Control
  BY DEF IInv, Core
<1>2. /\ UNCHANGED <<opState, outbox, opEpoch, revoked, nodeConn, toNode, execOp, journal, disk, calls>>
      /\ reg' = None /\ live' = FALSE /\ queue' = <<>> /\ toGw' = <<>>
  BY DEF DropPeer, dbVars, nodeVars
<1>3. Control'
  BY <1>1, <1>2 DEF Control
<1>4. QED
  BY <1>2, <1>3, LossCore

\* Every step keeps Core.
LEMMA CoreStep == IInv /\ [Next]_vars => Core'
<1> SUFFICES ASSUME IInv, [Next]_vars PROVE Core'
  OBVIOUS
<1>1. CASE \E o \in Ops : Submit(o) \/ Expire(o)
  BY <1>1, SubmitCore, ExpireCore
<1>2. CASE (\E o \in Ops : DeadlinePasses(o)) \/ UNCHANGED vars
  BY <1>2, QuietCore DEF DeadlinePasses, vars, dbVars, gwVars, peerVars, nodeVars
<1>3. CASE BecomeReady \/ PeerStop \/ Silence \/ TickStopsSilentPeer
  <2>1. /\ UNCHANGED <<opState, outbox, opEpoch, revoked, up, reg, queue, busyOp, step,
                       nodeConn, toNode, toGw, journal, disk, execOp, calls>>
        /\ reg # None
    BY <1>3, Zenon DEF BecomeReady, PeerStop, Silence, TickStopsSilentPeer, dbVars, nodeVars
  <2>2. QED
    BY <2>1, QuietCore
<1>4. CASE Unregister
  <2>1. busyOp = NoOp
    BY <1>4 DEF Unregister, Mutex, IInv, Core, Control
  <2>2. DropPeer /\ busyOp' = NoOp /\ step' = "idle" /\ UNCHANGED <<dbVars, nodeVars>>
    BY <1>4, <2>1 DEF Unregister, Mutex
  <2>3. QED
    BY <2>2, DropPeerCore
<1>5. CASE Crash
  BY <1>5, DropPeerCore DEF Crash, HandlerEnds
<1>6. CASE NodeReadsError \/ NodeHangsUp \/ NodeLosesConnection
  BY <1>6, HangUpCore DEF NodeReadsError, NodeHangsUp, NodeLosesConnection
<1>7. CASE DispatchIntent \/ DispatchTooLate \/ DispatchEnqueue
  BY <1>7, DispatchIntentCore, DispatchTooLateCore, DispatchEnqueueCore
<1>8. CASE WriterDrop \/ WriterSend \/ WriterError
  BY <1>8, WriterDropCore, WriterSendCore, WriterErrorCore
<1>9. CASE Connect \/ Start \/ Revoke
  BY <1>9, ConnectCore, StartCore, RevokeCore
<1>10. CASE AckRefused \/ AckOnFinal \/ AckFails \/ AckUnknown \/ AckSucceeds
  BY <1>10, AckRefusedCore, AckOnFinalCore, AckFailsCore, AckUnknownCore, AckSucceedsCore
<1>11. CASE NodeReceive \/ NodeReject \/ NodeExecute \/ NodeConfirm
  BY <1>11, NodeReceiveCore, NodeRejectCore, NodeExecuteCore, NodeConfirmCore
<1>12. CASE NodeAnswersQuery \/ NodeRestart
  BY <1>12, NodeAnswersQueryCore, NodeRestartCore
<1>13. QED
  BY <1>1, <1>2, <1>3, <1>4, <1>5, <1>6, <1>7, <1>8, <1>9, <1>10, <1>11, <1>12 DEF Next

\* The inductive invariant holds in every reachable state.
THEOREM Invariant == Spec => []IInv
<1>1. Init => Core
  BY EmptyFacts, OpsFacts
  DEF Init, Core, Control, Pipeline, Untouched, JournalTruth, ReportTruth, RecordTruth, InFlight, Dead
<1>2. IInv /\ [Next]_vars => IInv'
  BY TypeStep, CoreStep DEF IInv
<1>3. Init => IInv
  BY <1>1, InitTypes DEF IInv
<1>4. QED
  BY <1>2, <1>3, PTL DEF Spec

-----------------------------------------------------------------------------
(* What follows. *)

\* The recorded outcome of every operation is true, for any number of
\* operations, connections and faults.
THEOREM OutcomesAreTrue == Spec => []OutcomeTruth
<1>1. IInv => OutcomeTruth
  BY UnfoldIInv DEF Core, JournalTruth, RecordTruth, Dead, OutcomeTruth
<1>2. QED
  BY <1>1, Invariant, PTL

\* A command is only on the wire of the connection it was accepted on.
THEOREM WireIsCurrent == Spec => []NoStaleCommandOnWire
<1>1. ASSUME IInv PROVE NoStaleCommandOnWire
  <2> SUFFICES ASSUME NEW i \in DOMAIN toNode, toNode[i].type = "command"
               PROVE  opEpoch[toNode[i].op] = nodeConn
    BY DEF NoStaleCommandOnWire
  <2>1. i \in 1..Len(toNode) /\ toNode[i] \in Frame
    BY <1>1, SeqTypes
  <2>2. toNode[i].op \in Ops /\ Has(toNode, Command(toNode[i].op))
    BY <2>1, FrameShape DEF Has
  <2>3. QED
    BY <1>1, <2>2, UnfoldIInv DEF Core, Untouched
<1>2. QED
  BY <1>1, Invariant, PTL

\* What one step may do to one operation.
Move(o) ==
  \/ opState'[o] = opState[o] /\ calls'[o] = calls[o]
  \/ opState[o] = "none" /\ opState'[o] = "accepted" /\ calls'[o] = calls[o]
  \/ opState[o] \in Open /\ opState'[o] \in Open \union Final /\ calls'[o] = calls[o]
  \/ opState[o] \in Open /\ opState'[o] = opState[o] /\ calls[o] = 0 /\ calls'[o] = 1

\* Settling one open operation is a Move of every operation.
LEMMA SettleMoves ==
  ASSUME FnTypes, NEW p \in Ops, opState[p] \in Open, NEW v \in Open \union Final,
         opState' = opState \/ opState' = [opState EXCEPT ![p] = v], UNCHANGED calls
  PROVE  \A o \in Ops : Move(o)
  BY DEF Move, FnTypes

\* Every step is a Move of every operation.
LEMMA Moves == ASSUME IInv, [Next]_vars PROVE \A o \in Ops : Move(o)
<1>1. FnTypes /\ Core
  BY UnfoldIInv
<1> USE DEF Open, Final
<1>2. ASSUME NEW p \in Ops, Submit(p) PROVE \A o \in Ops : Move(o)
  BY <1>1, <1>2 DEF Submit, Move, FnTypes, nodeVars
<1>3. ASSUME NEW p \in Ops, Expire(p) PROVE \A o \in Ops : Move(o)
  <2>1. /\ opState[p] \in Open /\ UNCHANGED calls
        /\ \E v \in {"failed", "reconciling"} : opState' = [opState EXCEPT ![p] = v]
    BY <1>3 DEF Expire, Expirable, FailUnsent, FinishOp, nodeVars
  <2>2. QED
    BY <1>1, <2>1, SettleMoves
<1>4. CASE DispatchTooLate \/ DispatchEnqueue
  <2>1. /\ busyOp \in Ops /\ opState[busyOp] \in Open
    BY <1>1, <1>4, OpsFacts DEF DispatchTooLate, DispatchEnqueue, Core, Control, Untouched, InFlight, FnTypes
  <2>2. opState' = opState \/ opState' = [opState EXCEPT ![busyOp] = "failed"]
    BY <1>4, Zenon DEF DispatchTooLate, DispatchEnqueue, OrDbError, FailUnsent, dbVars
  <2>3. UNCHANGED calls
    BY <1>4, Zenon DEF DispatchTooLate, DispatchEnqueue, nodeVars
  <2>4. QED
    BY <1>1, <2>1, <2>2, <2>3, SettleMoves
<1>5. CASE WriterDrop
  <2>1. queue # <<>> /\ Head(queue) \in Frame /\ Has(queue, Head(queue))
    BY <1>5, SeqTypes, TailFacts DEF WriterDrop, WriterReady
  <2>2. Head(queue).op \in Ops /\ Head(queue) = Command(Head(queue).op)
    BY <1>5, <2>1, FrameShape DEF WriterDrop, Unsendable
  <2>3. opState[Head(queue).op] \in Open
    BY <1>1, <2>1, <2>2 DEF Core, Untouched, InFlight
  <2>4. opState' = opState \/ opState' = [opState EXCEPT ![Head(queue).op] = "failed"]
    BY <1>5, Zenon DEF WriterDrop, OrDbError, FailUnsent, dbVars
  <2>5. UNCHANGED calls
    BY <1>5, Zenon DEF WriterDrop, nodeVars
  <2>6. QED
    BY <1>1, <2>2, <2>3, <2>4, <2>5, SettleMoves
<1>6. CASE AckRefused \/ AckFails \/ AckUnknown \/ AckSucceeds
  <2>1. toGw # <<>> /\ UNCHANGED calls
    BY <1>6, Zenon DEF AckRefused, AckFails, AckUnknown, AckSucceeds, Handled, HasReport, nodeVars
  <2>2. TheReport \in Report
    BY <2>1, SeqTypes, TailFacts DEF TheReport
  <2>3. TheReport.op \in Ops
    BY <1>1, <2>2 DEF FnTypes
  <2>4. \/ opState' = opState
        \/ /\ opState[TheReport.op] \in Open
           /\ \E v \in {"failed", "reconciling", "delivered", "confirmed"} :
                opState' = [opState EXCEPT ![TheReport.op] = v]
    BY <1>6 DEF AckRefused, AckFails, AckUnknown, AckSucceeds, FailUnsent, FinishOp
  <2>5. QED
    BY <1>1, <2>1, <2>3, <2>4, SettleMoves DEF Move
<1>7. CASE Start \/ Revoke
  BY <1>1, <1>7 DEF Start, Recovered, Revoke, Invalidated, Abandoned, Move, FnTypes, nodeVars
<1>8. CASE NodeExecute
  <2>1. /\ execOp \in Ops /\ journal[execOp] = "delivered" /\ UNCHANGED opState
        /\ calls' = [calls EXCEPT ![execOp] = @ + 1]
    BY <1>1, <1>8 DEF NodeExecute, FnTypes, dbVars
  <2>2. calls[execOp] = 0 /\ opState[execOp] \in Open
    BY <1>1, <2>1 DEF Core, JournalTruth, RecordTruth, Dead, FnTypes
  <2>3. QED
    BY <1>1, <2>1, <2>2 DEF Move, FnTypes
<1>9. CASE DispatchIntent \/ WriterSend \/ WriterError \/ Connect \/ BecomeReady \/ PeerStop \/ Silence
           \/ TickStopsSilentPeer \/ Unregister \/ AckOnFinal \/ Crash \/ UNCHANGED vars
           \/ (\E o \in Ops : DeadlinePasses(o))
  <2>1. UNCHANGED <<opState, calls>>
    BY <1>9, Zenon DEF DispatchIntent, WriterSend, WriterError, Connect, BecomeReady, PeerStop, Silence,
       TickStopsSilentPeer, Unregister, AckOnFinal, Handled, Crash, DeadlinePasses, vars, dbVars, nodeVars
  <2>2. QED
    BY <2>1 DEF Move
<1>10. CASE NodeReceive \/ NodeReject \/ NodeConfirm \/ NodeAnswersQuery \/ NodeReadsError
            \/ NodeHangsUp \/ NodeLosesConnection \/ NodeRestart
  <2>1. UNCHANGED <<opState, calls>>
    BY <1>10, Zenon DEF NodeReceive, NodeReject, NodeConfirm, NodeAnswersQuery, NodeReadsError,
       NodeHangsUp, NodeLosesConnection, NodeRestart, dbVars
  <2>2. QED
    BY <2>1 DEF Move
<1>11. QED
  BY <1>2, <1>3, <1>4, <1>5, <1>6, <1>7, <1>8, <1>9, <1>10 DEF Next

\* No step revises a final state.
THEOREM FinalStatesStay == Spec => FinalImmutable
<1>1. ASSUME IInv, [Next]_vars
      PROVE  \A o \in Ops : opState[o] \in Final => opState'[o] = opState[o]
  BY <1>1, Moves DEF Move, Open, Final
<1>2. QED
  BY <1>1, Invariant, PTL DEF FinalImmutable, Spec

\* Once the Node is revoked no step puts a frame on its wire.
THEOREM RevokedIsSilent == Spec => NothingWrittenAfterRevoke
<1>1. ASSUME IInv, [Next]_vars PROVE revoked => Len(toNode') <= Len(toNode)
  <2> SUFFICES ASSUME revoked PROVE Len(toNode') <= Len(toNode)
    OBVIOUS
  <2>1. reg = None /\ toNode \in Seq(Frame)
    BY <1>1, SeqTypes, UnfoldIInv DEF Core, Control
  <2>2. CASE \E o \in Ops : Submit(o) \/ DeadlinePasses(o) \/ Expire(o)
    <3>1. UNCHANGED toNode
      BY <2>2, Zenon DEF Submit, DeadlinePasses, Expire, nodeVars
    <3>2. QED
      BY <2>1, <3>1
  <2>3. CASE Dispatch \/ Acknowledge \/ UNCHANGED vars
    <3>1. UNCHANGED toNode
      BY <2>3, Zenon DEF Dispatch, DispatchIntent, DispatchTooLate, DispatchEnqueue, Acknowledge,
         AckRefused, AckOnFinal, AckFails, AckUnknown, AckSucceeds, Handled, vars, nodeVars
    <3>2. QED
      BY <2>1, <3>1
  <2>4. CASE Writer
    BY <2>1, <2>4, Zenon DEF Writer, WriterDrop, WriterSend, WriterError, WriterReady
  <2>5. CASE BecomeReady \/ PeerStop \/ Silence \/ TickStopsSilentPeer \/ Unregister
             \/ Crash \/ Start \/ Revoke
    <3>1. UNCHANGED toNode
      BY <2>5, Zenon DEF BecomeReady, PeerStop, Silence, TickStopsSilentPeer, Unregister, Crash,
         Start, Revoke, nodeVars
    <3>2. QED
      BY <2>1, <3>1
  <2>6. CASE NodeReceive \/ NodeAnswersQuery
    <3>1. toNode # <<>> /\ (toNode' = Tail(toNode) \/ toNode' = <<>>)
      BY <2>6 DEF NodeReceive, NodeAnswersQuery, NodeReads, SaveAndAck, HangUp
    <3>2. QED
      BY <2>1, <3>1
  <2>7. CASE NodeReject \/ NodeExecute \/ NodeConfirm
    <3>1. toNode' = toNode \/ toNode' = <<>>
      BY <2>7 DEF NodeReject, NodeExecute, NodeConfirm, SaveAndAck, HangUp
    <3>2. QED
      BY <2>1, <3>1
  <2>8. CASE Connect \/ NodeReadsError \/ NodeHangsUp \/ NodeLosesConnection \/ NodeRestart
    <3>1. toNode' = <<>>
      BY <2>8, Zenon DEF Connect, NodeReadsError, NodeHangsUp, NodeLosesConnection, NodeRestart, HangUp
    <3>2. QED
      BY <2>1, <3>1
  <2>9. QED
    BY <1>1, <2>2, <2>3, <2>4, <2>5, <2>6, <2>7, <2>8 DEF Next, Dispatch, Writer, Acknowledge
<1>2. QED
  BY <1>1, Invariant, PTL DEF NothingWrittenAfterRevoke, Spec

\* The delivery protocol implements OperationOutcome: every step of it is a
\* step of every operation of the promise, or a stutter.
THEOREM DeliveryImplementsPromise == Spec => ImplementsPromise
<1>1. Init => Promise!Init
  <2>1. Init => \A o \in Ops : OutcomeOf(opState[o]) = "none" /\ ~(calls[o] > 0)
    BY DEF Init, OutcomeOf, Open
  <2>2. Init => \A o \in Ops : (calls[o] > 0) = FALSE
    BY <2>1, SMT
  <2>3. Init => [o \in Ops |-> OutcomeOf(opState[o])] = [o \in Ops |-> "none"]
    BY <2>1, Zenon
  <2>4. Init => [o \in Ops |-> calls[o] > 0] = [o \in Ops |-> FALSE]
    BY <2>2, Zenon
  <2>5. QED
    BY <2>3, <2>4, Zenon DEF Promise!Init
<1>2. ASSUME IInv, IInv', [Next]_vars PROVE Promise!Next
  <2>1. /\ opState \in [Ops -> Open \union Final \union {"none"}] /\ calls \in [Ops -> Nat]
        /\ opState' \in [Ops -> Open \union Final \union {"none"}] /\ calls' \in [Ops -> Nat]
    BY <1>2 DEF IInv, TypeOK, DataOK
  <2>2. \A o \in Ops : /\ opState'[o] = "failed" => calls'[o] = 0
                       /\ opState'[o] = "confirmed" => calls'[o] = 1
    BY <1>2 DEF IInv, Core, RecordTruth, Dead
  <2>3. \A o \in Ops : Move(o)
    BY <1>2, Moves
  <2>4. \A o \in Ops : Promise!OpStep(OutcomeOf(opState[o]), calls[o] > 0,
                                      OutcomeOf(opState'[o]), calls'[o] > 0)
    BY <2>1, <2>2, <2>3 DEF Move, OutcomeOf, Open, Final, Promise!OpStep, Promise!Submit,
       Promise!Execute, Promise!Confirm, Promise!Fail, Promise!Stay
  <2>5. \A o \in Ops : OutcomeOf(opState'[o]) \in {"none", "open", "confirmed", "failed"}
    BY <2>1 DEF OutcomeOf, Open, Final
  <2>6. QED
    BY <2>4, <2>5 DEF Promise!Next
<1>3. QED
  BY <1>1, <1>2, Invariant, PTL DEF Spec, ImplementsPromise, Promise!Spec
=============================================================================
