------------------------- MODULE SourceIngestProofs --------------------------
(***************************************************************************)
(* The inductive invariant of SourceIngest and what follows from it, for   *)
(* any number of sessions, connections, events and faults.                 *)
(***************************************************************************)
EXTENDS SourceIngest, SequenceTheorems, FiniteSetTheorems, TLAPS

\* Frame f is on its way to the Gateway, to the Node.
InGw(f)   == \E i \in 1..Len(toGw) : toGw[i] = f
InNode(f) == \E i \in 1..Len(toNode) : toNode[i] = f

Sources == {e \in Event : InGw(Source(e))}

\* The two ends and what they hold agree.
Control ==
  /\ ~registered => toGw = <<>> /\ ~ready
  /\ ~connected => toNode = <<>> /\ busy = {} /\ unsent = {} /\ ~syncing
  /\ syncing => unsent = {}
  /\ connected /\ todo # {} => syncing
  /\ busy # {} => syncing
  /\ unsent \subseteq mem.spool
  /\ \A s \in todo : connected => Has(s)
  /\ mark <= nextId

Events == mem.spool \cup disk.spool \cup Sources \cup receipts

\* The events of the present connection, and those that will go out on it.
OnLine == mem.spool \cup (IF connected THEN Sources ELSE {})

\* Within a session the order of emission is the order of the numbers.
InOrder(S) == \A x, y \in S : x.session = y.session => (x.id < y.id <=> x.seq < y.seq)

\* No identity is given to two events; numbers are below the counters and in order.
Numbered ==
  /\ \A x, y \in Events : x.id = y.id => x = y
  /\ \A x \in Events : x.id < nextId
  /\ \A x \in OnLine : x.seq <= mem.seq[x.session]
  /\ \A x \in disk.spool : x.seq <= disk.seq[x.session]
  /\ InOrder(OnLine) /\ InOrder(disk.spool)

\* The log, its receipts and the session's counter say the same.
Ledger ==
  /\ \A s \in Sessions : Len(log[s]) = lastSource[s]
  /\ \A r \in receipts : Logged(r) /\ r.seq <= lastSource[r.session]
  /\ \A s \in Sessions : \A i \in 1..Len(log[s]) :
       \E r \in receipts : r.session = s /\ r.id = log[s][i]

\* What the disk has more than the memory was committed.
DiskInMem == \A e \in disk.spool \ mem.spool : Logged(e)

\* The Node has or had work of s.
Begun(s) ==
  \/ \E e \in mem.spool \cup disk.spool \cup Sources : e.session = s
  \/ log[s] # <<>> \/ Has(s) \/ disk.journal[s] \in {"executing", "unknown", "confirmed"}

Saved == {"delivered", "executing", "unknown", "confirmed"}

\* The create of s was not refused, and will not be.
Accepted(s) ==
  /\ op[s] \notin {"none", "failed"}
  /\ mem.journal[s] \in Saved /\ disk.journal[s] \in Saved
  /\ ~InGw(Status(s, "not_seen")) /\ ~InGw(Status(s, "rejected")) /\ ~InNode(Create(s))

\* What a report may say.
Words == {"not_seen", "delivered", "unknown", "rejected", "confirmed"}

\* Where the create of a session is: not made, on its way, in work, or begun.
CreateOf(s) ==
  /\ op[s] = "none" => /\ mem.journal[s] = "none" /\ disk.journal[s] = "none"
                       /\ ~InNode(Create(s)) /\ ~InNode(Query(s)) /\ s \notin unasked
                       /\ \A r \in Words :
                            ~InGw(Status(s, r))
  /\ InNode(Create(s)) => /\ op[s] = "open" /\ ~InNode(Query(s)) /\ s \notin unasked
                          /\ mem.journal[s] = "none" /\ disk.journal[s] = "none"
                          /\ \A r \in Words :
                               ~InGw(Status(s, r))
                          /\ \A i, j \in 1..Len(toNode) :
                               toNode[i] = Create(s) /\ toNode[j] = Create(s) => i = j
  /\ s \in busy => /\ mem.journal[s] \in {"delivered", "executing"} /\ Accepted(s)
                   /\ mem.journal[s] = "delivered" => ~Begun(s)
  /\ Begun(s) => Accepted(s)

Creates == \A s \in Sessions : CreateOf(s)

\* The fence covers what the spool held when the connection began, but for what the
\* reading of it missed.
Fence ==
  /\ registered => \A e \in mem.spool :
       e.id < mark /\ log[e.session] = <<>> => e.session \in needsSync \cup missed
  /\ ready => needsSync = {}

\* What the Node sent on this connection and the Gateway has not committed is still to
\* be read, unless the Gateway found an error.
Underway(e) == Logged(e) \/ InNode(Error) \/ InGw(Source(e))

SentBefore(i, e) == Logged(e) \/ InNode(Error) \/ \E j \in 1..i - 1 : toGw[j] = Source(e)

Arriving ==
  connected /\ registered =>
    /\ \A e \in mem.spool \ unsent : Underway(e)
    /\ \A i \in 1..Len(toGw) : \A e \in Event : toGw[i] = Source(e) =>
         \A x \in mem.spool : x.session = e.session /\ x.seq < e.seq => SentBefore(i, x)

\* An acknowledgement the Node will read covers only what was committed.
Acks ==
  \A i \in 1..Len(toNode) : \A s \in Sessions, n \in Nat : toNode[i] = Ack(s, n) =>
    /\ n <= mem.seq[s] /\ n <= lastSource[s]
    /\ \/ \E j \in 1..i - 1 : toNode[j] = Error
       \/ \A e \in mem.spool : e.session = s /\ e.seq <= n => Logged(e)

IInv == TypeOK /\ Control /\ Numbered /\ Ledger /\ DiskInMem /\ Creates /\ Fence /\ Arriving /\ Acks

-----------------------------------------------------------------------------
(* Facts about the frames on their way. *)

\* The type of a frame says what it holds.
LEMMA FrameKinds ==
  /\ \A f \in ToGwFrame : f.type = "source" => f.event \in Event /\ f = Source(f.event)
  /\ \A f \in ToGwFrame : f.type = "report" =>
       /\ f.session \in Sessions /\ f = Status(f.session, f.state)
       /\ f.state \in Words
  /\ \A f \in ToNodeFrame : f.type = "create" => f.session \in Sessions /\ f = Create(f.session)
  /\ \A f \in ToNodeFrame : f.type = "query" => f.session \in Sessions /\ f = Query(f.session)
  /\ \A f \in ToNodeFrame : f.type = "ack" => f.session \in Sessions /\ f.seq \in Nat /\ f = Ack(f.session, f.seq)
  /\ \A f \in ToNodeFrame : f.type = "error" => f = Error
  BY DEF ToGwFrame, ToNodeFrame, Inventory, Source, Status, Create, Query, Ack, Error, Words

\* The first frame to the Gateway is read.
LEMMA GwRead ==
  ASSUME TypeOK, toGw # <<>>
  PROVE  /\ Len(toGw) \in Nat \ {0} /\ Head(toGw) = toGw[1] /\ toGw[1] \in ToGwFrame /\ InGw(toGw[1])
         /\ toGw' = Tail(toGw) =>
              /\ toGw' \in Seq(ToGwFrame) /\ Len(toGw') = Len(toGw) - 1
              /\ \A k \in 1..Len(toGw') : toGw'[k] = toGw[k + 1]
              /\ \A f : InGw(f)' => InGw(f)
              /\ Sources' \subseteq Sources
  <1>1. toGw \in Seq(ToGwFrame) /\ Len(toGw) \in Nat
    BY LenProperties DEF TypeOK
  <1>2. Len(toGw) \in Nat \ {0} /\ Head(toGw) = toGw[1] /\ toGw[1] \in ToGwFrame
    BY <1>1
  <1>3. ASSUME toGw' = Tail(toGw)
        PROVE  /\ toGw' \in Seq(ToGwFrame) /\ Len(toGw') = Len(toGw) - 1
               /\ \A k \in 1..Len(toGw') : toGw'[k] = toGw[k + 1]
    BY <1>1, <1>3, HeadTailProperties
  <1>4. ASSUME toGw' = Tail(toGw), NEW f, InGw(f)' PROVE InGw(f)
    <2>1. PICK k \in 1..Len(toGw') : toGw'[k] = f
      BY <1>4 DEF InGw
    <2>2. k + 1 \in 1..Len(toGw) /\ toGw[k + 1] = f
      BY <1>1, <1>3, <1>4, <2>1
    <2> QED BY <2>2 DEF InGw
  <1>5. InGw(toGw[1])
    BY <1>2 DEF InGw
  <1> QED BY <1>2, <1>3, <1>4, <1>5 DEF Sources

\* A frame is sent to the Gateway.
LEMMA GwSend ==
  ASSUME TypeOK, NEW f \in ToGwFrame, toGw' = Append(toGw, f)
  PROVE  /\ toGw' \in Seq(ToGwFrame) /\ Len(toGw) \in Nat /\ Len(toGw') = Len(toGw) + 1
         /\ \A k \in 1..Len(toGw) : toGw'[k] = toGw[k]
         /\ toGw'[Len(toGw')] = f
         /\ \A g : InGw(g)' <=> InGw(g) \/ g = f
  <1>1. toGw \in Seq(ToGwFrame) /\ Len(toGw) \in Nat
    BY LenProperties DEF TypeOK
  <1>2. /\ toGw' \in Seq(ToGwFrame) /\ Len(toGw') = Len(toGw) + 1
        /\ \A k \in 1..Len(toGw) : toGw'[k] = toGw[k]
        /\ toGw'[Len(toGw')] = f
    BY <1>1
  <1>3. ASSUME NEW g PROVE InGw(g)' <=> InGw(g) \/ g = f
    <2>1. Len(toGw) + 1 \in 1..Len(toGw') /\ 1..Len(toGw') = 1..Len(toGw) \cup {Len(toGw) + 1}
      BY <1>1, <1>2
    <2> QED BY <1>2, <2>1 DEF InGw
  <1> QED BY <1>1, <1>2, <1>3

\* The first frame to the Node is read.
LEMMA NodeRead ==
  ASSUME TypeOK, toNode # <<>>
  PROVE  /\ Len(toNode) \in Nat \ {0} /\ Head(toNode) = toNode[1] /\ toNode[1] \in ToNodeFrame /\ InNode(toNode[1])
         /\ toNode' = Tail(toNode) =>
              /\ toNode' \in Seq(ToNodeFrame) /\ Len(toNode') = Len(toNode) - 1
              /\ \A k \in 1..Len(toNode') : toNode'[k] = toNode[k + 1]
              /\ \A f : InNode(f)' => InNode(f)
              /\ \A f : InNode(f) /\ f # toNode[1] => InNode(f)'
  <1>1. toNode \in Seq(ToNodeFrame) /\ Len(toNode) \in Nat
    BY LenProperties DEF TypeOK
  <1>2. Len(toNode) \in Nat \ {0} /\ Head(toNode) = toNode[1] /\ toNode[1] \in ToNodeFrame
    BY <1>1
  <1>3. ASSUME toNode' = Tail(toNode)
        PROVE  /\ toNode' \in Seq(ToNodeFrame) /\ Len(toNode') = Len(toNode) - 1
               /\ \A k \in 1..Len(toNode') : toNode'[k] = toNode[k + 1]
    BY <1>1, <1>3, HeadTailProperties
  <1>4. ASSUME toNode' = Tail(toNode), NEW f, InNode(f)' PROVE InNode(f)
    <2>1. PICK k \in 1..Len(toNode') : toNode'[k] = f
      BY <1>4 DEF InNode
    <2>2. k + 1 \in 1..Len(toNode) /\ toNode[k + 1] = f
      BY <1>1, <1>3, <1>4, <2>1
    <2> QED BY <2>2 DEF InNode
  <1>5. InNode(toNode[1])
    BY <1>2 DEF InNode
  <1>6. ASSUME toNode' = Tail(toNode), NEW f, InNode(f), f # toNode[1] PROVE InNode(f)'
    <2>1. PICK k \in 1..Len(toNode) : toNode[k] = f
      BY <1>6 DEF InNode
    <2>2. k - 1 \in 1..Len(toNode') /\ toNode'[k - 1] = f
      BY <1>1, <1>2, <1>3, <1>6, <2>1
    <2> QED BY <2>2 DEF InNode
  <1> QED BY <1>2, <1>3, <1>4, <1>5, <1>6

\* Replies are put on the connection.
LEMMA NodePut ==
  ASSUME TypeOK, NEW r \in Seq(ToNodeFrame), toNode' = toNode \o r
  PROVE  /\ toNode' \in Seq(ToNodeFrame) /\ Len(toNode) \in Nat /\ Len(r) \in Nat
         /\ Len(toNode') = Len(toNode) + Len(r)
         /\ \A k \in 1..Len(toNode) : toNode'[k] = toNode[k]
         /\ \A k \in 1..Len(toNode') : k > Len(toNode) => k - Len(toNode) \in 1..Len(r) /\ toNode'[k] = r[k - Len(toNode)]
         /\ \A f : InNode(f) => InNode(f)'
         /\ \A f : InNode(f)' => InNode(f) \/ \E k \in 1..Len(r) : r[k] = f
  <1>1. toNode \in Seq(ToNodeFrame) /\ Len(toNode) \in Nat /\ Len(r) \in Nat
    BY LenProperties DEF TypeOK
  <1>2. /\ toNode' \in Seq(ToNodeFrame) /\ Len(toNode') = Len(toNode) + Len(r)
        /\ \A k \in 1..Len(toNode') : toNode'[k] = IF k <= Len(toNode) THEN toNode[k] ELSE r[k - Len(toNode)]
    BY <1>1, ConcatProperties
  <1>3. /\ \A k \in 1..Len(toNode) : k \in 1..Len(toNode') /\ toNode'[k] = toNode[k]
        /\ \A k \in 1..Len(toNode') : k > Len(toNode) => k - Len(toNode) \in 1..Len(r) /\ toNode'[k] = r[k - Len(toNode)]
        /\ \A k \in 1..Len(toNode') : k <= Len(toNode) => k \in 1..Len(toNode)
    BY <1>1, <1>2
  <1>4. \A f : InNode(f) => InNode(f)'
    BY <1>3 DEF InNode
  <1>5. ASSUME NEW f, InNode(f)' PROVE InNode(f) \/ \E k \in 1..Len(r) : r[k] = f
    <2>1. PICK k \in 1..Len(toNode') : toNode'[k] = f
      BY <1>5 DEF InNode
    <2>2. CASE k <= Len(toNode)
      BY <1>3, <2>1, <2>2 DEF InNode
    <2>3. CASE k > Len(toNode)
      BY <1>3, <2>1, <2>3
    <2> QED BY <1>1, <1>2, <2>2, <2>3
  <1> QED BY <1>1, <1>2, <1>3, <1>4, <1>5

\* r goes out on the connection, if there is one.
Replied(r) == r \in Seq(ToNodeFrame) /\ toNode' = IF connected THEN toNode \o r ELSE toNode

LEMMA PutIsReply ==
  ASSUME TypeOK, NEW f \in ToNodeFrame, Put(f)
  PROVE  Replied(<<f>>)
  <1>1. Append(toNode, f) = toNode \o <<f>>
    BY DEF TypeOK
  <1>2. <<f>> \in Seq(ToNodeFrame)
    OBVIOUS
  <1> QED BY <1>1, <1>2 DEF Put, Replied

\* nodeReady adds nothing to the replies but an error.
LEMMA ReadyReplies ==
  ASSUME TypeOK, NEW r \in Seq(ToNodeFrame), NodeReady(r)
  PROVE  \E q : Replied(q) /\ (q = r \/ q = Append(r, Error))
  <1>1. Error \in ToNodeFrame
    BY DEF ToNodeFrame
  <1>2. Append(r, Error) \in Seq(ToNodeFrame)
    BY <1>1
  <1> QED BY <1>2 DEF NodeReady, Replied

\* What was on its way to the Node still is, before the replies.
LEMMA RepliedFacts ==
  ASSUME TypeOK, NEW r, Replied(r)
  PROVE  /\ toNode' \in Seq(ToNodeFrame) /\ Len(toNode) \in Nat /\ Len(r) \in Nat
         /\ \A k \in 1..Len(toNode) : k \in 1..Len(toNode') /\ toNode'[k] = toNode[k]
         /\ \A k \in 1..Len(toNode') : k > Len(toNode) =>
              /\ connected /\ k - Len(toNode) \in 1..Len(r) /\ toNode'[k] = r[k - Len(toNode)]
         /\ \A f : InNode(f) => InNode(f)'
         /\ \A f : InNode(f)' => InNode(f) \/ \E k \in 1..Len(r) : r[k] = f
         /\ connected => \A k \in 1..Len(r) : InNode(r[k])'
  <1>0. toNode \in Seq(ToNodeFrame) /\ Len(toNode) \in Nat /\ r \in Seq(ToNodeFrame) /\ Len(r) \in Nat
    BY LenProperties DEF TypeOK, Replied
  <1>1. CASE connected
    <2>1. toNode' = toNode \o r
      BY <1>1 DEF Replied
    <2>2. ASSUME NEW k \in 1..Len(r) PROVE InNode(r[k])'
      <3>1. Len(toNode) + k \in 1..Len(toNode') /\ toNode'[Len(toNode) + k] = r[k]
        BY <1>0, <2>1, ConcatProperties
      <3> QED BY <3>1 DEF InNode
    <2>3. \A k \in 1..Len(toNode) : k \in 1..Len(toNode')
      BY <1>0, <2>1, ConcatProperties
    <2> QED BY <1>0, <1>1, <2>1, <2>2, <2>3, NodePut
  <1>2. CASE ~connected
    <2>1. toNode' = toNode
      BY <1>2 DEF Replied
    <2> QED BY <1>0, <1>2, <2>1 DEF InNode
  <1> QED BY <1>1, <1>2

-----------------------------------------------------------------------------
(* Steps that leave parts of the invariant alone. *)

LEMMA Subsets ==
  ASSUME NEW S, NEW T \in SUBSET S, InOrder(S)
  PROVE  InOrder(T)
  BY DEF InOrder

\* No event is new, and no number is taken back.
LEMMA QuietNumbers ==
  ASSUME Numbered, mem'.spool \subseteq mem.spool, mem'.seq = mem.seq, disk' \in {disk, mem'},
         Sources' \subseteq Sources \cup mem.spool, receipts' \subseteq receipts \cup Sources,
         OnLine' \subseteq OnLine, nextId' = nextId
  PROVE  Numbered'
  <1>1. Events' \subseteq Events
    BY DEF Events
  <1>2. \A x, y \in Events' : x.id = y.id => x = y
    BY <1>1 DEF Numbered
  <1>3. \A x \in Events' : x.id < nextId'
    BY <1>1 DEF Numbered
  <1>4. InOrder(OnLine') /\ \A x \in OnLine' : x.seq <= mem'.seq[x.session]
    BY Subsets DEF Numbered
  <1>5. InOrder(disk'.spool) /\ \A x \in disk'.spool : x.seq <= disk'.seq[x.session]
    <2>1. CASE disk' = disk
      BY <2>1 DEF Numbered
    <2>2. CASE disk' = mem'
      <3>1. disk'.spool \subseteq OnLine
        BY <2>2 DEF OnLine
      <3> QED BY <2>2, <3>1, Subsets DEF Numbered
    <2> QED BY <2>1, <2>2
  <1>6. InOrder(OnLine)' /\ InOrder(disk.spool)'
    BY <1>4, <1>5 DEF InOrder
  <1> QED BY <1>2, <1>3, <1>4, <1>5, <1>6 DEF Numbered

\* The operation of s moves on, though not to a failure of what was accepted.
Settles(s) ==
  /\ op[s] # "none" /\ op'[s] # "none" /\ ~InNode(Create(s))
  /\ op'[s] # "failed" \/ ~Accepted(s)

\* Nothing new is said or done about the create of s; its operation may move on.
Quiet(s) ==
  /\ op'[s] = op[s] \/ Settles(s)
  /\ mem'.journal[s] = mem.journal[s] /\ disk'.journal[s] \in {disk.journal[s], mem.journal[s]}
  /\ s \in busy' => s \in busy
  /\ \A r : InGw(Status(s, r))' => InGw(Status(s, r))
  /\ InNode(Create(s))' => InNode(Create(s))
  /\ InNode(Query(s))' => InNode(Query(s)) \/ (op'[s] # "none" /\ ~InNode(Create(s))')
  /\ s \in unasked' => s \in unasked \/ (op'[s] # "none" /\ ~InNode(Create(s))')
  /\ InNode(Create(s)) /\ InNode(Create(s))' =>
       \A i, j \in 1..Len(toNode') : toNode'[i] = Create(s) /\ toNode'[j] = Create(s) => i = j
  /\ Begun(s)' => Begun(s)

LEMMA QuietCreateOf ==
  ASSUME Creates, NEW s \in Sessions, Quiet(s)
  PROVE  CreateOf(s)'
  <1>1. Accepted(s) => Accepted(s)'
    BY DEF Accepted, Settles, Quiet
  <1>2. Begun(s)' => Accepted(s)'
    BY <1>1 DEF Creates, CreateOf, Quiet
  <1>3. s \in busy' => /\ mem'.journal[s] \in {"delivered", "executing"} /\ Accepted(s)'
                       /\ mem'.journal[s] = "delivered" => ~Begun(s)'
    BY <1>1 DEF Creates, CreateOf, Quiet
  <1>4. op'[s] = op[s] \/ (op'[s] # "none" /\ ~InNode(Create(s)))
    BY DEF Settles, Quiet
  <1> QED BY <1>2, <1>3, <1>4 DEF Creates, CreateOf, Quiet

LEMMA QuietCreates ==
  ASSUME Creates, \A s \in Sessions : Quiet(s)
  PROVE  Creates'
  BY QuietCreateOf DEF Creates

\* The log only grows.
LogGrows == \A e \in Event : Logged(e) => Logged(e)'

\* The Gateway reads a frame and replies r; the Node does nothing meanwhile.
GatewayReads(r) ==
  /\ registered /\ toGw # <<>> /\ toGw' = Tail(toGw) /\ registered' /\ Replied(r)
  /\ UNCHANGED <<missed, unasked, nodeVars, mark, nextId>>

LEMMA ReadNumbers ==
  ASSUME IInv, NEW r, GatewayReads(r), receipts' \subseteq receipts \cup Sources
  PROVE  Control' /\ Numbered'
  <1>1. Control'
    BY DEF IInv, Control, GatewayReads, Replied, nodeVars, Has
  <1>2. Sources' \subseteq Sources
    BY GwRead DEF IInv, GatewayReads
  <1>3. Numbered'
    BY <1>2, QuietNumbers DEF IInv, GatewayReads, nodeVars, OnLine
  <1> QED BY <1>1, <1>3

\* The frame was an event that is logged now, or none, or an error is replied.
LEMMA ReadArriving ==
  ASSUME IInv, NEW r, GatewayReads(r), LogGrows,
         \/ \E k \in 1..Len(r) : r[k] = Error
         \/ \A e \in Event : toGw[1] = Source(e) => Logged(e)'
  PROVE  Arriving'
  <1> SUFFICES ASSUME connected
               PROVE  /\ \A e \in mem.spool \ unsent : Underway(e)'
                      /\ \A i \in 1..Len(toGw') : \A e \in Event : toGw'[i] = Source(e) =>
                           \A x \in mem.spool : x.session = e.session /\ x.seq < e.seq => SentBefore(i, x)'
    BY DEF Arriving, GatewayReads, nodeVars
  <1>0. /\ TypeOK /\ Arriving /\ mem.spool \subseteq Event /\ Len(toGw) \in Nat \ {0}
        /\ Len(toGw') = Len(toGw) - 1 /\ \A k \in 1..Len(toGw') : toGw'[k] = toGw[k + 1]
        /\ \A f : InNode(f) => InNode(f)'
    BY GwRead, RepliedFacts DEF IInv, GatewayReads, TypeOK, NodeState
  <1>1. CASE InNode(Error)'
    BY <1>1 DEF Underway, SentBefore
  <1>2. CASE ~InNode(Error)'
    <2>1. \A e \in Event : toGw[1] = Source(e) => Logged(e)'
      BY <1>2, RepliedFacts DEF IInv, GatewayReads
    <2>2. ASSUME NEW e \in mem.spool \ unsent PROVE Underway(e)'
      <3>1. Logged(e) \/ \E j \in 1..Len(toGw) : toGw[j] = Source(e)
        BY <1>0, <1>2 DEF Arriving, Underway, InGw, GatewayReads
      <3>2. CASE Logged(e)
        BY <1>0, <3>2 DEF LogGrows, Underway
      <3>3. ASSUME NEW j \in 1..Len(toGw), toGw[j] = Source(e) PROVE Underway(e)'
        <4>1. CASE j = 1
          BY <1>0, <2>1, <3>3, <4>1 DEF Underway
        <4>2. CASE j # 1
          <5>1. j - 1 \in 1..Len(toGw') /\ toGw'[j - 1] = Source(e)
            BY <1>0, <3>3, <4>2
          <5> QED BY <5>1 DEF Underway, InGw
        <4> QED BY <4>1, <4>2
      <3> QED BY <3>1, <3>2, <3>3
    <2>3. ASSUME NEW i \in 1..Len(toGw'), NEW e \in Event, toGw'[i] = Source(e),
                 NEW x \in mem.spool, x.session = e.session, x.seq < e.seq
          PROVE  SentBefore(i, x)'
      <3>1. i + 1 \in 1..Len(toGw) /\ toGw[i + 1] = Source(e)
        BY <1>0, <2>3
      <3>2. Logged(x) \/ \E j \in 1..(i + 1) - 1 : toGw[j] = Source(x)
        BY <1>0, <1>2, <2>3, <3>1 DEF Arriving, SentBefore, GatewayReads
      <3>3. CASE Logged(x)
        BY <1>0, <3>3 DEF LogGrows, SentBefore
      <3>4. ASSUME NEW j \in 1..i, toGw[j] = Source(x) PROVE SentBefore(i, x)'
        <4>1. CASE j = 1
          BY <1>0, <2>1, <3>4, <4>1 DEF SentBefore
        <4>2. CASE j # 1
          <5>1. j - 1 \in 1..i - 1 /\ toGw'[j - 1] = Source(x)
            BY <1>0, <3>1, <3>4, <4>2
          <5> QED BY <5>1 DEF SentBefore
        <4> QED BY <4>1, <4>2
      <3> QED BY <3>1, <3>2, <3>3, <3>4
    <2> QED BY <2>2, <2>3
  <1> QED BY <1>1, <1>2

\* The replies acknowledge only what is committed by now.
LEMMA ReplyAcks ==
  ASSUME IInv, NEW r, Replied(r), UNCHANGED nodeVars, LogGrows, \A s \in Sessions : lastSource[s] <= lastSource'[s],
         \A s \in Sessions : lastSource'[s] \in Nat,
         \A k \in 1..Len(r), s \in Sessions, n \in Nat : r[k] = Ack(s, n) =>
           /\ connected => n <= mem.seq[s]
           /\ n <= lastSource'[s]
           /\ connected => \/ InNode(Error)
                           \/ \A e \in mem.spool : e.session = s /\ e.seq <= n => Logged(e)'
  PROVE  Acks'
  <1>0. mem.spool \subseteq Event /\ \A s \in Sessions : lastSource[s] \in Nat
    BY DEF IInv, TypeOK, NodeState
  <1> SUFFICES ASSUME NEW i \in 1..Len(toNode'), NEW s \in Sessions, NEW n \in Nat, toNode'[i] = Ack(s, n)
               PROVE  /\ n <= mem.seq[s] /\ n <= lastSource'[s]
                      /\ \/ \E j \in 1..i - 1 : toNode'[j] = Error
                         \/ \A e \in mem.spool : e.session = s /\ e.seq <= n => Logged(e)'
    BY DEF Acks, nodeVars
  <1>1. CASE i <= Len(toNode)
    <2>0. Len(toNode) \in Nat /\ \A j \in 1..Len(toNode) : toNode'[j] = toNode[j]
      BY RepliedFacts DEF IInv
    <2>1. i \in 1..Len(toNode) /\ toNode[i] = Ack(s, n) /\ \A j \in 1..i - 1 : toNode'[j] = toNode[j]
      BY <1>1, <2>0
    <2>2. /\ n <= mem.seq[s] /\ n <= lastSource[s]
          /\ \/ \E j \in 1..i - 1 : toNode[j] = Error
             \/ \A e \in mem.spool : e.session = s /\ e.seq <= n => Logged(e)
      BY <2>1 DEF IInv, Acks
    <2>3. n <= lastSource'[s]
      BY <1>0, <2>2
    <2> QED BY <1>0, <2>1, <2>2, <2>3 DEF LogGrows
  <1>2. CASE i > Len(toNode)
    <2>1. connected /\ i - Len(toNode) \in 1..Len(r) /\ r[i - Len(toNode)] = Ack(s, n)
      BY <1>2, RepliedFacts DEF IInv
    <2>2. CASE InNode(Error)
      <3>1. PICK j \in 1..Len(toNode) : toNode[j] = Error
        BY <2>2 DEF InNode
      <3>2. j \in 1..i - 1 /\ toNode'[j] = Error
        BY <1>2, <3>1, RepliedFacts DEF IInv
      <3> QED BY <2>1, <3>2
    <2> QED BY <2>1, <2>2
  <1>3. i \in Nat /\ Len(toNode) \in Nat
    BY RepliedFacts DEF IInv
  <1> QED BY <1>1, <1>2, <1>3

\* Replies are acknowledgements and errors.
OnlyAnswers(r) == \A k \in 1..Len(r) : r[k] = Error \/ \E s \in Sessions, n \in Nat : r[k] = Ack(s, n)

LEMMA ReadCreates ==
  ASSUME IInv, NEW r, GatewayReads(r), OnlyAnswers(r),
         \A s \in Sessions : op'[s] = op[s] \/ Settles(s),
         \A s \in Sessions : log'[s] # <<>> => Begun(s)
  PROVE  Creates'
  <1>0. /\ \A s, t, n : Create(s) # Ack(t, n) /\ Query(s) # Ack(t, n)
        /\ \A s : Create(s) # Error /\ Query(s) # Error
    <2>1. \A s, t, n : Create(s).type = "create" /\ Query(s).type = "query"
                       /\ Ack(t, n).type = "ack" /\ Error.type = "error"
      BY DEF Ack, Error, Create, Query
    <2> QED BY <2>1
  <1>1. \A s \in Sessions : \A k \in 1..Len(r) : r[k] # Create(s) /\ r[k] # Query(s)
    BY <1>0 DEF OnlyAnswers
  <1>2. ASSUME NEW s \in Sessions
        PROVE  (InNode(Create(s))' => InNode(Create(s))) /\ (InNode(Query(s))' => InNode(Query(s)))
    <2>1. \A f : InNode(f)' => InNode(f) \/ \E k \in 1..Len(r) : r[k] = f
      BY RepliedFacts DEF IInv, GatewayReads
    <2> QED BY <1>1, <2>1
  <1>3. \A f : InGw(f)' => InGw(f)
    BY GwRead DEF IInv, GatewayReads
  <1>4. \A s \in Sessions : Begun(s)' => Begun(s)
    <2>1. Sources' \subseteq Sources
      BY GwRead DEF IInv, GatewayReads
    <2> QED BY <2>1 DEF Begun, GatewayReads, nodeVars, Has
  <1>5. ASSUME NEW s \in Sessions, InNode(Create(s))
        PROVE  \A i, j \in 1..Len(toNode') : toNode'[i] = Create(s) /\ toNode'[j] = Create(s) => i = j
    <2>1. /\ Len(toNode) \in Nat /\ \A k \in 1..Len(toNode) : toNode'[k] = toNode[k]
          /\ \A k \in 1..Len(toNode') : k > Len(toNode) => k - Len(toNode) \in 1..Len(r) /\ toNode'[k] = r[k - Len(toNode)]
      BY RepliedFacts DEF IInv, GatewayReads
    <2>2. \A k \in 1..Len(toNode') : toNode'[k] = Create(s) => k \in 1..Len(toNode) /\ toNode[k] = Create(s)
      BY <1>1, <2>1
    <2> QED BY <1>5, <2>2 DEF IInv, Creates, CreateOf
  <1> QED BY <1>2, <1>3, <1>4, <1>5, QuietCreates DEF Quiet, IInv, GatewayReads, nodeVars

LEMMA ReadTypes ==
  ASSUME IInv, NEW r, GatewayReads(r), UNCHANGED <<epoch, emits>>,
         op' \in [Sessions -> {"none", "open", "delivered", "confirmed", "failed"}],
         lastSource' \in [Sessions -> Nat], log' \in [Sessions -> Seq(Nat)], receipts' \subseteq Event,
         needsSync' \subseteq Sessions, inventoried' \in BOOLEAN, ready' \in BOOLEAN, faults' \in Nat
  PROVE  TypeOK'
  <1>1. toGw' \in Seq(ToGwFrame) /\ toNode' \in Seq(ToNodeFrame)
    BY GwRead, RepliedFacts DEF IInv, GatewayReads
  <1> QED BY <1>1 DEF IInv, TypeOK, GatewayReads, nodeVars

-----------------------------------------------------------------------------
(* The Gateway's steps preserve the invariant. *)

\* A fault costs one.
LEMMA Faulty ==
  ASSUME TypeOK, Fault \/ UNCHANGED faults
  PROVE  faults' \in Nat
  BY DEF TypeOK, Fault

\* The frame is dropped and an error is replied.
LEMMA AnswerErrorKeeps ==
  ASSUME IInv, registered, toGw # <<>>, AnswerError, Fault \/ UNCHANGED faults
  PROVE  IInv'
  <1> DEFINE r == <<Error>>
  <1>1. GatewayReads(r) /\ OnlyAnswers(r) /\ Len(r) = 1 /\ r[1] = Error
    <2>1. Error \in ToNodeFrame
      BY DEF ToNodeFrame
    <2> QED BY <2>1, PutIsReply DEF IInv, AnswerError, GatewayReads, peerVars, OnlyAnswers
  <1> HIDE DEF r
  <1>2. LogGrows
    BY DEF LogGrows, Logged, AnswerError, dbVars
  <1>3. TypeOK'
    BY <1>1, ReadTypes, Faulty DEF AnswerError, IInv, TypeOK, dbVars, peerVars
  <1>4. Control' /\ Numbered'
    BY <1>1, ReadNumbers DEF AnswerError, dbVars
  <1>5. Ledger' /\ DiskInMem' /\ Fence'
    BY DEF AnswerError, dbVars, peerVars, nodeVars, IInv, Ledger, Logged, DiskInMem, Fence
  <1>6. Creates'
    <2>1. \A s \in Sessions : log'[s] # <<>> => Begun(s)
      BY DEF AnswerError, dbVars, Begun
    <2> QED BY <1>1, <2>1, ReadCreates DEF AnswerError, dbVars
  <1>7. Arriving'
    BY <1>1, <1>2, ReadArriving
  <1>8. Acks'
    <2>1. \A k \in 1..Len(r), s \in Sessions, n \in Nat : r[k] # Ack(s, n)
      BY <1>1 DEF Ack, Error
    <2>2. \A s \in Sessions : lastSource'[s] = lastSource[s] /\ lastSource[s] \in Nat
      BY DEF AnswerError, dbVars, IInv, TypeOK
    <2> QED BY <1>1, <1>2, <2>1, <2>2, ReplyAcks DEF GatewayReads
  <1> QED BY <1>3, <1>4, <1>5, <1>6, <1>7, <1>8 DEF IInv

LEMMA DatabaseErrorKeeps ==
  ASSUME IInv, DatabaseError
  PROVE  IInv'
  BY AnswerErrorKeeps DEF DatabaseError

LEMMA ConflictKeeps ==
  ASSUME IInv, Conflict
  PROVE  IInv'
  BY AnswerErrorKeeps DEF Conflict, Reads

LEMMA RefuseReportKeeps ==
  ASSUME IInv, RefuseReport
  PROVE  IInv'
  BY AnswerErrorKeeps DEF RefuseReport, Reads

\* The inventory is read; nothing but an error can be the reply.
LEMMA TakeInventoryKeeps ==
  ASSUME IInv, TakeInventory
  PROVE  IInv'
  <1>1. PICK r : Replied(r) /\ (r = <<>> \/ r = Append(<<>>, Error))
    <2>1. <<>> \in Seq(ToNodeFrame) /\ NodeReady(<<>>)
      BY DEF TakeInventory
    <2> QED BY <2>1, ReadyReplies DEF IInv
  <1>2. GatewayReads(r) /\ OnlyAnswers(r) /\ \A k \in 1..Len(r) : r[k] = Error
    BY <1>1 DEF TakeInventory, Reads, GatewayReads, OnlyAnswers
  <1>3. LogGrows
    BY DEF LogGrows, Logged, TakeInventory, dbVars
  <1>4. TypeOK'
    <2>1. Fault \/ UNCHANGED faults
      BY DEF TakeInventory, NodeReady
    <2> QED BY <1>2, <2>1, ReadTypes, Faulty DEF TakeInventory, NodeReady, IInv, TypeOK, dbVars
  <1>5. Control' /\ Numbered'
    BY <1>2, ReadNumbers DEF TakeInventory, dbVars
  <1>6. Ledger' /\ DiskInMem' /\ Fence'
    BY DEF TakeInventory, NodeReady, Reads, dbVars, nodeVars, IInv, Ledger, Logged, DiskInMem, Fence
  <1>7. Creates'
    <2>1. \A s \in Sessions : log'[s] # <<>> => Begun(s)
      BY DEF TakeInventory, dbVars, Begun
    <2> QED BY <1>2, <2>1, ReadCreates DEF TakeInventory, dbVars
  <1>8. Arriving'
    <2>1. \A e \in Event : toGw[1] # Source(e)
      BY GwRead DEF TakeInventory, Reads, Source, IInv
    <2> QED BY <1>2, <1>3, <2>1, ReadArriving
  <1>9. Acks'
    <2>1. \A k \in 1..Len(r), s \in Sessions, n \in Nat : r[k] # Ack(s, n)
      BY <1>2 DEF Ack, Error
    <2>2. \A s \in Sessions : lastSource'[s] = lastSource[s] /\ lastSource[s] \in Nat
      BY DEF TakeInventory, dbVars, IInv, TypeOK
    <2> QED BY <1>2, <1>3, <2>1, <2>2, ReplyAcks DEF GatewayReads
  <1> QED BY <1>4, <1>5, <1>6, <1>7, <1>8, <1>9 DEF IInv

\* An event is read that was committed or is now; the replies acknowledge it.
Acknowledged(e, r) ==
  /\ e \in Event /\ toGw[1] = Source(e) /\ e \in Sources /\ GatewayReads(r)
  /\ \A k \in 1..Len(r) : r[k] = Error \/ r[k] = Ack(e.session, e.seq)
  /\ needsSync' \subseteq needsSync /\ needsSync \subseteq needsSync' \cup {e.session}
  /\ inventoried' \in BOOLEAN /\ ready' \in BOOLEAN /\ (ready' => needsSync' = {})
  /\ faults' \in Nat

LEMMA AcknowledgeReplies ==
  ASSUME IInv, Reads("source"), toGw' = Tail(toGw), Acknowledge(Head(toGw).event),
         UNCHANGED <<nodeVars, mark, nextId>>
  PROVE  \E r : Acknowledged(Head(toGw).event, r)
  <1> DEFINE e == Head(toGw).event
  <1>1. e \in Event /\ toGw[1] = Source(e) /\ e \in Sources
    <2>1. Head(toGw) = toGw[1] /\ toGw[1] \in ToGwFrame /\ toGw[1].type = "source" /\ InGw(toGw[1])
      BY GwRead DEF IInv, Reads
    <2> QED BY <2>1, FrameKinds DEF Sources
  <1> DEFINE a == Ack(e.session, e.seq)
  <1>2. a \in ToNodeFrame /\ <<a>> \in Seq(ToNodeFrame)
    BY <1>1 DEF Event, Ack, ToNodeFrame
  <1>3. Acknowledge(e)
    OBVIOUS
  <1> HIDE DEF e, a
  <1>4. PICK r : Replied(r) /\ (r = <<a>> \/ r = Append(<<a>>, Error))
    <2>1. CASE e.kind = "state"
      BY <1>2, <1>3, <2>1, ReadyReplies DEF Acknowledge, IInv, a
    <2>2. CASE e.kind # "state"
      BY <1>2, <1>3, <2>2, PutIsReply DEF Acknowledge, IInv, a
    <2> QED BY <2>1, <2>2
  <1>5. \A k \in 1..Len(r) : r[k] = Error \/ r[k] = a
    BY <1>2, <1>4
  <1>6. /\ needsSync' \subseteq needsSync /\ needsSync \subseteq needsSync' \cup {e.session}
        /\ inventoried' \in BOOLEAN /\ ready' \in BOOLEAN /\ (ready' => needsSync' = {}) /\ registered'
        /\ UNCHANGED <<missed, unasked>>
    <2>1. CASE e.kind = "state"
      <3>1. ready' = (inventoried' /\ needsSync' = {})
        BY <1>3, <2>1 DEF Acknowledge, NodeReady
      <3>2. ready' \in BOOLEAN /\ (ready' => needsSync' = {})
        BY <3>1
      <3>3. needsSync' = needsSync \ {e.session} /\ UNCHANGED <<registered, inventoried, missed, unasked>>
        BY <1>3, <2>1 DEF Acknowledge
      <3> QED BY <3>2, <3>3 DEF IInv, TypeOK, Reads
    <2>2. CASE e.kind # "state"
      BY <1>3, <2>2 DEF Acknowledge, IInv, TypeOK, Fence, Reads
    <2> QED BY <2>1, <2>2
  <1>7. faults' \in Nat
    BY <1>3, Faulty DEF Acknowledge, NodeReady, IInv
  <1> QED BY <1>1, <1>4, <1>5, <1>6, <1>7 DEF Acknowledged, GatewayReads, Reads, a, e

LEMMA AcknowledgedKeeps ==
  ASSUME IInv, NEW e, NEW r, Acknowledged(e, r), UNCHANGED <<op, epoch, emits>>,
         LogGrows, Logged(e)', log' \in [Sessions -> Seq(Nat)], lastSource' \in [Sessions -> Nat],
         \A s \in Sessions : lastSource[s] <= lastSource'[s],
         \A s \in Sessions : log'[s] = log[s] \/ (s = e.session /\ log'[s] # <<>>),
         receipts' \subseteq receipts \cup {e}, e.seq <= lastSource'[e.session]
  PROVE  /\ TypeOK' /\ Control' /\ Numbered' /\ DiskInMem' /\ Creates' /\ Fence' /\ Arriving' /\ Acks'
  <1>0. /\ e \in Event /\ toGw[1] = Source(e) /\ e \in Sources /\ GatewayReads(r)
        /\ e.session \in Sessions /\ e.seq \in Nat /\ e.id \in Nat
    BY DEF Acknowledged, Event
  <1>1. TypeOK'
    BY <1>0, ReadTypes DEF Acknowledged, IInv, TypeOK
  <1>2. Control' /\ Numbered'
    BY <1>0, ReadNumbers
  <1>3. DiskInMem'
    BY <1>0 DEF IInv, TypeOK, NodeState, DiskInMem, LogGrows, GatewayReads, nodeVars
  <1>4. Creates'
    <2>1. \A s \in Sessions : log'[s] # <<>> => Begun(s)
      BY <1>0 DEF Begun
    <2>2. OnlyAnswers(r)
      BY <1>0 DEF OnlyAnswers, Acknowledged
    <2> QED BY <1>0, <2>1, <2>2, ReadCreates
  <1>5. Fence'
    <2>1. \A x \in mem.spool : x.session \in Sessions
      BY DEF IInv, TypeOK, NodeState, Event
    <2>2. log'[e.session] # <<>>
      BY DEF Logged, Range
    <2> QED BY <1>0, <2>1, <2>2 DEF IInv, Fence, Acknowledged, GatewayReads, nodeVars
  <1>6. Arriving'
    <2>1. \A f \in Event : toGw[1] = Source(f) => Logged(f)'
      BY <1>0 DEF Source
    <2> QED BY <1>0, <2>1, ReadArriving
  <1>7. Acks'
    <2>1. ASSUME NEW k \in 1..Len(r), NEW s \in Sessions, NEW n \in Nat, r[k] = Ack(s, n)
          PROVE  /\ connected => n <= mem.seq[s]
                 /\ n <= lastSource'[s]
                 /\ connected => \/ InNode(Error)
                                 \/ \A x \in mem.spool : x.session = s /\ x.seq <= n => Logged(x)'
      <3>1. s = e.session /\ n = e.seq
        <4>1. Error.type = "error" /\ Ack(s, n).type = "ack"
          BY DEF Error, Ack
        <4>2. Ack(s, n) = Ack(e.session, e.seq)
          BY <2>1, <4>1 DEF Acknowledged
        <4> QED BY <4>2 DEF Ack
      <3>2. ASSUME connected PROVE n <= mem.seq[s]
        BY <1>0, <3>1, <3>2 DEF IInv, Numbered, OnLine
      <3>3. ASSUME connected, ~InNode(Error), NEW x \in mem.spool, x.session = s, x.seq <= n
            PROVE  Logged(x)'
        <4>0. x \in Event /\ x.seq \in Nat /\ x.id \in Nat
          BY DEF IInv, TypeOK, NodeState, Event
        <4>1. CASE x.seq < e.seq
          <5>1. 1 \in 1..Len(toGw)
            BY <1>0, GwRead DEF IInv, GatewayReads
          <5>2. SentBefore(1, x)
            BY <1>0, <3>1, <3>3, <4>1, <5>1 DEF IInv, Arriving, GatewayReads
          <5> QED BY <3>3, <4>0, <5>2 DEF SentBefore, LogGrows
        <4>2. CASE x.seq = e.seq
          <5>1. x \in OnLine /\ e \in OnLine /\ x \in Events /\ e \in Events
            BY <1>0, <3>3 DEF OnLine, Events
          <5>2. ~(x.id < e.id) /\ ~(e.id < x.id)
            BY <1>0, <3>1, <3>3, <4>0, <4>2, <5>1 DEF IInv, Numbered, InOrder
          <5>3. x = e
            BY <1>0, <4>0, <5>1, <5>2 DEF IInv, Numbered
          <5> QED BY <5>3
        <4> QED BY <1>0, <3>1, <3>3, <4>0, <4>1, <4>2
      <3> QED BY <3>1, <3>2, <3>3
    <2> QED BY <1>0, <2>1, ReplyAcks DEF GatewayReads
  <1> QED BY <1>1, <1>2, <1>3, <1>4, <1>5, <1>6, <1>7

LEMMA RepeatKeeps ==
  ASSUME IInv, Repeat
  PROVE  IInv'
  <1>1. PICK e, r : e = Head(toGw).event /\ Acknowledged(e, r)
    BY AcknowledgeReplies DEF Repeat
  <1>2. e \in receipts /\ UNCHANGED <<op, lastSource, log, receipts, nodeVars, epoch, nextId, mark, emits>>
    BY <1>1 DEF Repeat, dbVars
  <1>3. Logged(e) /\ e.seq <= lastSource[e.session] /\ e.session \in Sessions
    BY <1>1, <1>2 DEF IInv, Ledger, Acknowledged, Event
  <1>4. LogGrows /\ Logged(e)'
    BY <1>2, <1>3 DEF LogGrows, Logged
  <1>5. TypeOK' /\ Control' /\ Numbered' /\ DiskInMem' /\ Creates' /\ Fence' /\ Arriving' /\ Acks'
    <2>1. /\ log' \in [Sessions -> Seq(Nat)] /\ lastSource' \in [Sessions -> Nat]
          /\ \A s \in Sessions : lastSource[s] <= lastSource'[s]
      BY <1>2 DEF IInv, TypeOK
    <2>2. /\ UNCHANGED <<op, epoch, emits>> /\ receipts' \subseteq receipts \cup {e}
          /\ \A s \in Sessions : log'[s] = log[s] \/ (s = e.session /\ log'[s] # <<>>)
          /\ e.seq <= lastSource'[e.session]
      BY <1>2, <1>3
    <2> QED BY <1>1, <1>4, <2>1, <2>2, AcknowledgedKeeps
  <1>6. Ledger'
    BY <1>2 DEF IInv, Ledger, Logged
  <1> QED BY <1>5, <1>6 DEF IInv

LEMMA CommitKeeps ==
  ASSUME IInv, Commit
  PROVE  IInv'
  <1>1. PICK e, r : e = Head(toGw).event /\ Acknowledged(e, r)
    BY AcknowledgeReplies DEF Commit
  <1>2. /\ e.seq = lastSource[e.session] + 1
        /\ log' = [log EXCEPT ![e.session] = Append(@, e.id)]
        /\ receipts' = receipts \cup {e}
        /\ lastSource' = [lastSource EXCEPT ![e.session] = e.seq]
        /\ UNCHANGED <<op, epoch, emits>>
    BY <1>1 DEF Commit, IsNext
  <1>3. /\ e \in Event /\ e.session \in Sessions /\ e.seq \in Nat /\ e.id \in Nat
        /\ log \in [Sessions -> Seq(Nat)] /\ lastSource \in [Sessions -> Nat] /\ receipts \subseteq Event
    BY <1>1 DEF Acknowledged, Event, IInv, TypeOK
  <1> DEFINE l == log[e.session]
  <1>4. /\ l \in Seq(Nat) /\ Len(l) \in Nat /\ Append(l, e.id) \in Seq(Nat) /\ Len(Append(l, e.id)) = Len(l) + 1
        /\ \A i \in 1..Len(l) : Append(l, e.id)[i] = l[i]
        /\ Append(l, e.id)[Len(l) + 1] = e.id
        /\ DOMAIN l = 1..Len(l) /\ DOMAIN Append(l, e.id) = 1..Len(Append(l, e.id))
    BY <1>3
  <1>5. /\ log' \in [Sessions -> Seq(Nat)] /\ log'[e.session] = Append(l, e.id)
        /\ \A s \in Sessions : s # e.session => log'[s] = log[s]
    BY <1>2, <1>3, <1>4
  <1> HIDE DEF l
  <1>6. ASSUME NEW x \in Event, Logged(x) PROVE Logged(x)'
    <2>1. CASE x.session # e.session
      BY <1>5, <1>6, <2>1 DEF Logged, Event
    <2>2. CASE x.session = e.session
      <3>1. PICK i \in 1..Len(l) : l[i] = x.id
        BY <1>4, <1>6, <2>2 DEF Logged, Range, l
      <3>2. i \in 1..Len(Append(l, e.id)) /\ Append(l, e.id)[i] = x.id
        BY <1>4, <3>1
      <3> QED BY <1>4, <1>5, <2>2, <3>2 DEF Logged, Range
    <2> QED BY <2>1, <2>2
  <1>7. Logged(e)'
    <2>1. Len(l) + 1 \in 1..Len(Append(l, e.id))
      BY <1>4
    <2> QED BY <1>4, <1>5, <2>1 DEF Logged, Range
  <1>8. TypeOK' /\ Control' /\ Numbered' /\ DiskInMem' /\ Creates' /\ Fence' /\ Arriving' /\ Acks'
    <2>1. lastSource' \in [Sessions -> Nat] /\ \A s \in Sessions : lastSource[s] <= lastSource'[s]
      BY <1>2, <1>3
    <2>2. \A s \in Sessions : log'[s] = log[s] \/ (s = e.session /\ log'[s] # <<>>)
      <3>1. Append(l, e.id) # <<>>
        BY <1>4
      <3> QED BY <1>5, <3>1
    <2>3. LogGrows
      BY <1>6 DEF LogGrows
    <2>4. e.seq <= lastSource'[e.session]
      BY <1>2, <1>3
    <2> QED BY <1>1, <1>2, <1>5, <1>7, <2>1, <2>2, <2>3, <2>4, AcknowledgedKeeps
  <1>9. Ledger'
    <2>1. ASSUME NEW s \in Sessions PROVE Len(log'[s]) = lastSource'[s]
      <3>1. Len(l) = lastSource[e.session] /\ Len(log[s]) = lastSource[s]
        BY <1>3 DEF IInv, Ledger, l
      <3> QED BY <1>2, <1>3, <1>4, <1>5, <3>1
    <2>2. ASSUME NEW x \in receipts' PROVE Logged(x)' /\ x.seq <= lastSource'[x.session]
      <3>1. CASE x = e
        BY <1>2, <1>3, <1>7, <3>1
      <3>2. CASE x \in receipts
        <4>1. Logged(x) /\ x.seq <= lastSource[x.session] /\ x \in Event /\ x.session \in Sessions /\ x.seq \in Nat
          BY <1>3, <3>2 DEF IInv, Ledger, Event
        <4>2. x.seq <= lastSource'[x.session]
          BY <1>2, <1>3, <4>1
        <4> QED BY <1>6, <4>1, <4>2
      <3> QED BY <1>2, <3>1, <3>2
    <2>3. ASSUME NEW s \in Sessions, NEW i \in 1..Len(log'[s])
          PROVE  \E x \in receipts' : x.session = s /\ x.id = log'[s][i]
      <3>1. CASE s = e.session /\ i = Len(l) + 1
        BY <1>2, <1>4, <1>5, <3>1
      <3>2. CASE ~(s = e.session /\ i = Len(l) + 1)
        <4>1. i \in 1..Len(log[s]) /\ log'[s][i] = log[s][i]
          <5>1. CASE s = e.session
            BY <1>4, <1>5, <2>3, <3>2, <5>1 DEF l
          <5>2. CASE s # e.session
            BY <1>5, <2>3, <5>2
          <5> QED BY <5>1, <5>2
        <4>2. PICK x \in receipts : x.session = s /\ x.id = log[s][i]
          BY <4>1 DEF IInv, Ledger
        <4> QED BY <1>2, <4>1, <4>2
      <3> QED BY <3>1, <3>2
    <2> QED BY <2>1, <2>2, <2>3 DEF Ledger
  <1> QED BY <1>8, <1>9 DEF IInv

\* A report fails no create the Node has accepted.
LEMMA ReportSettles ==
  ASSUME IInv, TakeReport, NEW s \in Sessions
  PROVE  op'[s] = op[s] \/ Settles(s)
  <1>1. PICK t \in Sessions, w \in Words :
          /\ toGw[1] = Status(t, w) /\ InGw(Status(t, w))
          /\ op' = [op EXCEPT ![t] = Outcome(t, w)]
    <2>1. Head(toGw) = toGw[1] /\ toGw[1] \in ToGwFrame /\ toGw[1].type = "report" /\ InGw(toGw[1])
      BY GwRead DEF IInv, TakeReport, Reads
    <2>2. /\ toGw[1].session \in Sessions /\ toGw[1].state \in Words
          /\ toGw[1] = Status(toGw[1].session, toGw[1].state)
      BY <2>1, FrameKinds
    <2> QED BY <2>1, <2>2 DEF TakeReport
  <1>2. CASE s # t
    BY <1>1, <1>2 DEF IInv, TypeOK
  <1>3. CASE s = t
    <2>1. op'[s] = Outcome(s, w) /\ op[s] # "none" /\ ~InNode(Create(s))
      BY <1>1, <1>3 DEF IInv, TypeOK, Creates, CreateOf
    <2>2. CASE w \in {"not_seen", "rejected"}
      <3>1. ~Accepted(s)
        BY <1>1, <1>3, <2>2 DEF Accepted
      <3> QED BY <2>1, <2>2, <3>1 DEF Outcome, Settles
    <2>3. CASE w \notin {"not_seen", "rejected"}
      BY <1>1, <2>1, <2>3 DEF Outcome, Settles, Words
    <2> QED BY <2>2, <2>3
  <1> QED BY <1>2, <1>3

LEMMA TakeReportKeeps ==
  ASSUME IInv, TakeReport
  PROVE  IInv'
  <1>1. PICK r : Replied(r) /\ (r = <<>> \/ r = Append(<<>>, Error))
    <2>1. <<>> \in Seq(ToNodeFrame) /\ NodeReady(<<>>)
      BY DEF TakeReport
    <2> QED BY <2>1, ReadyReplies DEF IInv
  <1>2. GatewayReads(r) /\ OnlyAnswers(r) /\ \A k \in 1..Len(r) : r[k] = Error
    BY <1>1 DEF TakeReport, Reads, GatewayReads, OnlyAnswers
  <1>3. UNCHANGED <<lastSource, log, receipts, nodeVars, epoch, nextId, mark, emits>> /\ LogGrows
    BY DEF LogGrows, Logged, TakeReport
  <1>4. PICK s \in Sessions, w \in Words :
          /\ op' = [op EXCEPT ![s] = Outcome(s, w)]
          /\ needsSync' = IF op'[s] = "failed" /\ lastSource[s] = 0
                            THEN needsSync \ {s} ELSE needsSync
    <2>1. Head(toGw).session \in Sessions /\ Head(toGw).state \in Words
      BY GwRead, FrameKinds DEF IInv, TakeReport, Reads
    <2> QED BY <2>1 DEF TakeReport
  <1>5. needsSync' \subseteq needsSync /\ (ready' => needsSync' = {}) /\ ready' \in BOOLEAN /\ inventoried' = inventoried
    <2>1. ready' = (inventoried' /\ needsSync' = {})
      BY DEF TakeReport, NodeReady
    <2>2. ready' \in BOOLEAN /\ (ready' => needsSync' = {})
      BY <2>1
    <2> QED BY <1>4, <2>2 DEF TakeReport
  <1>6. TypeOK'
    <2>1. Fault \/ UNCHANGED faults
      BY DEF TakeReport, NodeReady
    <2>2. faults' \in Nat
      BY <2>1, Faulty DEF IInv
    <2>3. op' \in [Sessions -> {"none", "open", "delivered", "confirmed", "failed"}]
      <3>1. Outcome(s, w) \in {"none", "open", "delivered", "confirmed", "failed"}
        BY DEF Outcome, Words, IInv, TypeOK
      <3> QED BY <1>4, <3>1 DEF IInv, TypeOK
    <2> QED BY <1>2, <1>3, <1>5, <2>2, <2>3, ReadTypes DEF IInv, TypeOK
  <1>7. Control' /\ Numbered'
    BY <1>2, <1>3, ReadNumbers
  <1>8. Ledger' /\ DiskInMem'
    BY <1>3 DEF nodeVars, IInv, Ledger, Logged, DiskInMem
  <1>9. Creates'
    <2>1. \A t \in Sessions : log'[t] # <<>> => Begun(t)
      BY <1>3 DEF Begun
    <2>2. \A t \in Sessions : op'[t] = op[t] \/ Settles(t)
      BY ReportSettles
    <2> QED BY <1>2, <2>1, <2>2, ReadCreates
  <1>10. Fence'
    <2>1. ASSUME NEW e \in mem.spool PROVE op'[e.session] # "failed"
      <3>1. e.session \in Sessions /\ mem' = mem
        BY <1>3 DEF IInv, TypeOK, NodeState, Event, nodeVars
      <3>2. Begun(e.session)'
        BY <3>1 DEF Begun
      <3> QED BY <1>9, <3>1, <3>2 DEF Creates, CreateOf, Accepted
    <2>2. registered' = registered /\ mem' = mem /\ mark' = mark /\ log' = log /\ missed' = missed
      BY <1>3 DEF TakeReport, nodeVars
    <2>3. \A e \in mem.spool : e.session \in needsSync => e.session \in needsSync'
      BY <1>4, <2>1
    <2> QED BY <1>5, <2>2, <2>3 DEF IInv, Fence
  <1>11. Arriving'
    <2>1. \A e \in Event : toGw[1] # Source(e)
      BY GwRead DEF TakeReport, Reads, Source, IInv
    <2> QED BY <1>2, <1>3, <2>1, ReadArriving
  <1>12. Acks'
    <2>1. \A k \in 1..Len(r), t \in Sessions, n \in Nat : r[k] # Ack(t, n)
      BY <1>2 DEF Ack, Error
    <2>2. \A t \in Sessions : lastSource'[t] = lastSource[t] /\ lastSource[t] \in Nat
      BY <1>3 DEF IInv, TypeOK
    <2> QED BY <1>2, <1>3, <2>1, <2>2, ReplyAcks DEF GatewayReads
  <1> QED BY <1>6, <1>7, <1>8, <1>9, <1>10, <1>11, <1>12 DEF IInv

\* The peer leaves with what it had not read.
LEMMA UnregisterKeeps ==
  ASSUME IInv, Unregister, UNCHANGED <<dbVars, nodeVars, toNode, epoch, nextId, mark, emits>>, faults' \in Nat
  PROVE  IInv'
  <1> USE DEF Unregister, dbVars, nodeVars
  <1>1. TypeOK' /\ Control'
    <2>1. <<>> \in Seq(ToGwFrame)
      OBVIOUS
    <2>2. TypeOK'
      BY <2>1 DEF IInv, TypeOK
    <2>3. Control'
      BY DEF IInv, Control, Has
    <2> QED BY <2>2, <2>3
  <1>2. \A f : ~InGw(f)' /\ (InNode(f)' <=> InNode(f))
    BY DEF InGw, InNode
  <1>3. Numbered'
    <2>1. Sources' = {}
      BY <1>2 DEF Sources
    <2> QED BY <2>1, QuietNumbers DEF IInv, OnLine
  <1>4. Ledger' /\ DiskInMem' /\ Fence' /\ Arriving' /\ Acks'
    BY DEF IInv, Ledger, Logged, DiskInMem, Fence, Arriving, Acks
  <1>5. Creates'
    <2>1. \A s \in Sessions : Begun(s)' => Begun(s)
      BY <1>2 DEF Begun, Sources, Has
    <2> QED BY <1>2, <2>1, QuietCreates DEF Quiet, peerVars, IInv, Creates, CreateOf
  <1> QED BY <1>1, <1>3, <1>4, <1>5 DEF IInv

LEMMA PeerGoneKeeps ==
  ASSUME IInv, PeerGone
  PROVE  IInv'
  BY UnregisterKeeps DEF PeerGone, IInv, TypeOK, envVars

LEMMA PeerLostKeeps ==
  ASSUME IInv, PeerLost
  PROVE  IInv'
  BY UnregisterKeeps, Faulty DEF PeerLost, IInv

\* The queries of a new connection, in whatever order.
LEMMA Queries ==
  ASSUME NEW S \in SUBSET Sessions
  PROVE  LET q == SetToSeq({Query(s) : s \in S})
         IN  /\ q \in Seq(ToNodeFrame)
             /\ \A k \in 1..Len(q) : \E s \in S : q[k] = Query(s)
  <1> DEFINE Q == {Query(s) : s \in S}
             f == [s \in S |-> Query(s)]
  <1>1. IsFiniteSet(S)
    BY ConstantsAssumption, FS_Subset
  <1>2. f \in Surjection(S, Q)
    BY DEF Surjection
  <1>3. IsFiniteSet(Q)
    BY <1>1, <1>2, FS_Surjection
  <1> HIDE DEF f
  <1>4. Q \subseteq ToNodeFrame
    BY DEF Query, ToNodeFrame
  <1>5. \A x \in Q : \E s \in S : x = Query(s)
    OBVIOUS
  <1> HIDE DEF Q
  <1>6. Cardinality(Q) \in Nat /\ \E g \in [1..Cardinality(Q) -> Q] : IsInjective(g)
    BY <1>3, FS_CardinalityType DEF ExistsBijection, Bijection, Injection
  <1> DEFINE q == SetToSeq(Q)
  <1>7. q \in [1..Cardinality(Q) -> Q]
    BY <1>6 DEF SetToSeq
  <1> HIDE DEF q
  <1>8. q \in Seq(ToNodeFrame) /\ Len(q) = Cardinality(Q)
    BY <1>4, <1>6, <1>7
  <1>9. \A k \in 1..Len(q) : \E s \in S : q[k] = Query(s)
    BY <1>5, <1>7, <1>8
  <1> QED BY <1>8, <1>9 DEF q, Q

LEMMA ConnectKeeps ==
  ASSUME IInv, Connect
  PROVE  IInv'
  <1>0. PICK fence \in SUBSET ToSynchronise, S \in SUBSET OpenCreates : ReadOnConnect(fence, S)
    BY DEF Connect
  <1>1. /\ toNode' \in Seq(ToNodeFrame)
        /\ \A k \in 1..Len(toNode') : \E s \in S : toNode'[k] = Query(s)
    <2>1. S \in SUBSET Sessions
      BY DEF OpenCreates
    <2> QED BY <1>0, <2>1, Queries DEF ReadOnConnect
  <1>2. toGw' \in Seq(ToGwFrame) /\ \A i \in 1..Len(toGw') : toGw'[i] = Inventory
    BY DEF Connect, ToGwFrame
  <1>3. /\ \A f : InGw(f)' => f = Inventory
        /\ \A f : InNode(f)' => \E s \in S : f = Query(s)
    BY <1>1, <1>2 DEF InGw, InNode
  <1>4. Sources' = {}
    BY <1>3 DEF Sources, Source, Inventory
  <1>5. /\ UNCHANGED <<op, lastSource, log, receipts, busy, mem, disk, nextId, emits>>
        /\ needsSync' = fence /\ missed' = ToSynchronise \ fence /\ unasked' = OpenCreates \ S
        /\ Fault \/ UNCHANGED faults
    BY <1>0 DEF Connect, ReadOnConnect, dbVars
  <1>6. TypeOK' /\ Control'
    <2>1. ToSynchronise \subseteq Sessions /\ OpenCreates \subseteq Sessions
      BY DEF ToSynchronise, OpenCreates
    <2>2. epoch' \in Nat /\ mark' \in Nat /\ unsent' \subseteq Event /\ faults' \in Nat
      BY <1>5, Faulty DEF Connect, IInv, TypeOK, NodeState
    <2>3. TypeOK'
      BY <1>1, <1>2, <1>5, <2>1, <2>2 DEF Connect, IInv, TypeOK
    <2>4. mark' <= nextId'
      BY <1>5 DEF Connect, IInv, TypeOK
    <2>5. Control'
      BY <1>5, <2>4 DEF Connect, IInv, Control
    <2> QED BY <2>3, <2>5
  <1>7. Numbered'
    <2>1. OnLine' \subseteq OnLine
      BY <1>4, <1>5 DEF OnLine
    <2> QED BY <1>4, <1>5, <2>1, QuietNumbers DEF IInv
  <1>8. Ledger' /\ DiskInMem'
    BY <1>5 DEF IInv, Ledger, Logged, DiskInMem
  <1>9. Creates'
    <2>1. ASSUME NEW s \in Sessions
          PROVE  /\ \A r : ~InGw(Status(s, r))'
                 /\ ~InNode(Create(s))'
                 /\ InNode(Query(s))' \/ s \in unasked' => op'[s] # "none"
                 /\ Begun(s)' => Begun(s)
      <3>1. \A r : ~InGw(Status(s, r))'
        BY <1>3 DEF Status, Inventory
      <3>2. \A t : Create(s) # Query(t)
        BY DEF Create, Query
      <3>3. \A t : Query(s) = Query(t) => s = t
        BY DEF Query
      <3>4. InNode(Query(s))' \/ s \in unasked' => op'[s] # "none"
        BY <1>3, <1>5, <3>3 DEF OpenCreates
      <3>5. Begun(s)' => Begun(s)
        BY <1>4, <1>5 DEF Begun, Has
      <3> QED BY <1>3, <3>1, <3>2, <3>4, <3>5
    <2> QED BY <1>5, <2>1, QuietCreates DEF Quiet, peerVars, IInv
  <1>10. Fence'
    <2>1. ASSUME NEW e \in mem.spool PROVE e.session \in ToSynchronise
      <3>1. e.session \in Sessions /\ Begun(e.session)
        BY DEF IInv, TypeOK, NodeState, Event, Begun
      <3> QED BY <3>1 DEF IInv, Creates, CreateOf, Accepted, ToSynchronise, NeverStarted
    <2>2. ~ready' /\ needsSync' \cup missed' = ToSynchronise
      BY <1>5 DEF Connect
    <2> QED BY <1>5, <2>1, <2>2 DEF Fence
  <1>11. Arriving'
    <2>1. \A i \in 1..Len(toGw') : \A e : toGw'[i] # Source(e)
      BY <1>2 DEF Source, Inventory
    <2>2. mem'.spool \ unsent' = {}
      BY DEF Connect
    <2> QED BY <2>1, <2>2 DEF Arriving
  <1>12. Acks'
    <2>1. \A i \in 1..Len(toNode') : \A s, n : toNode'[i] # Ack(s, n)
      <3>1. \A t, s, n : Query(t) # Ack(s, n)
        BY DEF Query, Ack
      <3> QED BY <1>1, <3>1
    <2> QED BY <2>1 DEF Acks
  <1> QED BY <1>6, <1>7, <1>8, <1>9, <1>10, <1>11, <1>12 DEF IInv

\* A create is admitted: it is on its way, or a fault kept it from the connection.
LEMMA AdmitKeeps ==
  ASSUME IInv, NEW s \in Sessions, Admit(s)
  PROVE  IInv'
  <1>1. PICK r, o : /\ Replied(r) /\ op' = [op EXCEPT ![s] = o]
                    /\ \/ r = <<>> /\ o \in {"open", "failed"}
                       \/ r = <<Create(s)>> /\ o = "open"
    <2>1. CASE op' = [op EXCEPT ![s] = "open"] /\ Put(Create(s))
      <3>1. Create(s) \in ToNodeFrame
        BY DEF Create, ToNodeFrame
      <3> QED BY <2>1, <3>1, PutIsReply DEF IInv
    <2>2. ASSUME NEW o \in {"open", "failed"}, op' = [op EXCEPT ![s] = o], UNCHANGED toNode
          PROVE  \E r : /\ Replied(r) /\ op' = [op EXCEPT ![s] = o]
                        /\ r = <<>> /\ o \in {"open", "failed"}
      <3>1. <<>> \in Seq(ToNodeFrame) /\ toNode \o <<>> = toNode
        BY DEF IInv, TypeOK
      <3> QED BY <2>2, <3>1 DEF Replied
    <2> QED BY <2>1, <2>2 DEF Admit
  <1>2. /\ UNCHANGED <<lastSource, log, receipts, peerVars, nodeVars, toGw, epoch, nextId, mark, emits>>
        /\ op[s] = "none"
    BY DEF Admit
  <1>3. /\ o \in {"open", "failed"} /\ \A t \in Sessions : op'[t] = IF t = s THEN o ELSE op[t]
    BY <1>1 DEF IInv, TypeOK
  <1>4. \A k \in 1..Len(r) : r[k] = Create(s) /\ o = "open" /\ Len(r) = 1
    BY <1>1
  <1>5. /\ toNode' \in Seq(ToNodeFrame) /\ Len(toNode) \in Nat
        /\ \A k \in 1..Len(toNode) : k \in 1..Len(toNode') /\ toNode'[k] = toNode[k]
        /\ \A k \in 1..Len(toNode') : k > Len(toNode) =>
             k - Len(toNode) \in 1..Len(r) /\ toNode'[k] = r[k - Len(toNode)]
        /\ \A f : InNode(f) => InNode(f)'
        /\ \A f : InNode(f)' => InNode(f) \/ f = Create(s)
    BY <1>1, <1>4, RepliedFacts DEF IInv
  <1>6. \A f : InGw(f)' <=> InGw(f)
    BY <1>2 DEF InGw
  <1>7. TypeOK'
    <2>1. faults' \in Nat
      BY Faulty DEF Admit, IInv
    <2>2. op' \in [Sessions -> {"none", "open", "delivered", "confirmed", "failed"}]
      BY <1>1, <1>3 DEF IInv, TypeOK
    <2> QED BY <1>2, <1>5, <2>1, <2>2 DEF peerVars, nodeVars, IInv, TypeOK
  <1>8. Control'
    <2>1. ~connected => toNode' = toNode
      BY <1>1 DEF Replied
    <2> QED BY <1>2, <2>1 DEF peerVars, nodeVars, IInv, Control, Has
  <1>9. Numbered'
    <2>1. Sources' = Sources
      BY <1>6 DEF Sources
    <2> QED BY <1>2, <2>1, QuietNumbers DEF peerVars, nodeVars, IInv, OnLine
  <1>10. Ledger' /\ DiskInMem' /\ Fence'
    BY <1>2 DEF peerVars, nodeVars, IInv, Ledger, Logged, DiskInMem, Fence
  <1>11. Creates'
    <2>1. ASSUME NEW t \in Sessions PROVE Begun(t)' <=> Begun(t)
      BY <1>2, <1>6 DEF Begun, Sources, Has, nodeVars
    <2>2. \A t \in Sessions : Query(t) # Create(s) /\ (t # s => Create(t) # Create(s))
      BY DEF Query, Create
    <2>3. ASSUME NEW t \in Sessions, t # s PROVE CreateOf(t)'
      <3>1. \A k \in 1..Len(toNode') : toNode'[k] = Create(t) => k \in 1..Len(toNode) /\ toNode[k] = Create(t)
        BY <1>4, <1>5, <2>2, <2>3
      <3>2. \A i, j \in 1..Len(toNode') : InNode(Create(t)) /\ toNode'[i] = Create(t) /\ toNode'[j] = Create(t) => i = j
        BY <3>1 DEF IInv, Creates, CreateOf
      <3> QED BY <1>2, <1>3, <1>5, <1>6, <2>1, <2>2, <2>3, <3>2, QuietCreateOf DEF Quiet, peerVars, IInv, nodeVars
    <2>4. CreateOf(s)'
      <3>1. /\ mem.journal[s] = "none" /\ disk.journal[s] = "none" /\ ~InNode(Create(s)) /\ ~InNode(Query(s))
            /\ ~Begun(s) /\ s \notin busy /\ \A w \in Words : ~InGw(Status(s, w))
            /\ s \notin unasked'
        BY <1>2 DEF IInv, Creates, CreateOf, Accepted, peerVars
      <3>2. \A k \in 1..Len(toNode') : toNode'[k] = Create(s) => k = Len(toNode) + 1
        <4>1. \A k \in 1..Len(toNode) : toNode[k] # Create(s)
          BY <3>1 DEF InNode
        <4> QED BY <1>4, <1>5, <4>1
      <3>3. InNode(Create(s))' => op'[s] = "open"
        BY <1>3, <1>4, <1>5, <3>1, <1>1, RepliedFacts DEF IInv
      <3> QED BY <1>2, <1>3, <1>5, <1>6, <2>1, <2>2, <3>1, <3>2, <3>3 DEF CreateOf, nodeVars
    <2> QED BY <2>3, <2>4 DEF Creates
  <1>12. Arriving'
    <2>1. mem' = mem /\ unsent' = unsent /\ toGw' = toGw /\ UNCHANGED <<log, connected, registered>>
      BY <1>2 DEF nodeVars, peerVars
    <2>2. \A e : Underway(e) => Underway(e)'
      BY <1>5, <1>6, <2>1 DEF Underway, Logged
    <2>3. \A i, e : SentBefore(i, e) => SentBefore(i, e)'
      BY <1>5, <2>1 DEF SentBefore, Logged
    <2> QED BY <2>1, <2>2, <2>3 DEF IInv, Arriving
  <1>13. Acks'
    <2>1. \A k \in 1..Len(r), t \in Sessions, n \in Nat : r[k] # Ack(t, n)
      <3>1. \A t, n : Create(s) # Ack(t, n)
        BY DEF Create, Ack
      <3> QED BY <1>4, <3>1
    <2>2. \A t \in Sessions : lastSource'[t] = lastSource[t] /\ lastSource[t] \in Nat
      BY <1>2 DEF IInv, TypeOK
    <2>3. LogGrows
      BY <1>2 DEF LogGrows, Logged
    <2> QED BY <1>1, <1>2, <2>1, <2>2, <2>3, ReplyAcks
  <1> QED BY <1>7, <1>8, <1>9, <1>10, <1>11, <1>12, <1>13 DEF IInv

\* The tick asks about a create the connection was not asked about: it was made before.
LEMMA TickAsksKeeps ==
  ASSUME IInv, NEW s \in Sessions, TickAsks(s)
  PROVE  IInv'
  <1> DEFINE r == <<Query(s)>>
  <1>1. Replied(r)
    <2>1. Query(s) \in ToNodeFrame
      BY DEF Query, ToNodeFrame
    <2> QED BY <2>1, PutIsReply DEF TickAsks, IInv
  <1>2. /\ UNCHANGED <<dbVars, registered, needsSync, inventoried, ready, missed, nodeVars, toGw, envVars>>
        /\ s \in unasked /\ op[s] # "none" /\ ~InNode(Create(s)) /\ unasked' = unasked \ {s}
    BY DEF TickAsks, IInv, Creates, CreateOf
  <1>3. \A k \in 1..Len(r) : r[k] = Query(s)
    OBVIOUS
  <1> HIDE DEF r
  <1>4. /\ toNode' \in Seq(ToNodeFrame) /\ Len(toNode) \in Nat
        /\ \A k \in 1..Len(toNode) : k \in 1..Len(toNode') /\ toNode'[k] = toNode[k]
        /\ \A k \in 1..Len(toNode') : k > Len(toNode) =>
             k - Len(toNode) \in 1..Len(r) /\ toNode'[k] = r[k - Len(toNode)]
        /\ \A f : InNode(f) => InNode(f)'
        /\ \A f : InNode(f)' => InNode(f) \/ f = Query(s)
    BY <1>1, <1>3, RepliedFacts DEF IInv
  <1>5. \A f : InGw(f)' <=> InGw(f)
    BY <1>2 DEF InGw
  <1>6. TypeOK' /\ Control'
    <2>1. ~connected => toNode' = toNode
      BY <1>1 DEF Replied
    <2> QED BY <1>2, <1>4, <2>1 DEF dbVars, nodeVars, envVars, IInv, TypeOK, Control, Has
  <1>7. Numbered'
    <2>1. Sources' = Sources
      BY <1>5 DEF Sources
    <2> QED BY <1>2, <2>1, QuietNumbers DEF dbVars, nodeVars, envVars, IInv, OnLine
  <1>8. Ledger' /\ DiskInMem' /\ Fence'
    BY <1>2 DEF dbVars, nodeVars, envVars, IInv, Ledger, Logged, DiskInMem, Fence
  <1>9. Creates'
    <2>1. \A t \in Sessions : Query(s) # Create(t) /\ (Query(t) = Query(s) => t = s)
      BY DEF Query, Create
    <2>2. ASSUME NEW t \in Sessions PROVE Quiet(t)
      <3>1. Begun(t)' <=> Begun(t)
        BY <1>2, <1>5 DEF Begun, Sources, Has, dbVars, nodeVars
      <3>2. \A k \in 1..Len(toNode') : toNode'[k] = Create(t) => k \in 1..Len(toNode) /\ toNode[k] = Create(t)
        BY <1>3, <1>4, <2>1
      <3>3. InNode(Create(t)) =>
              \A i, j \in 1..Len(toNode') : toNode'[i] = Create(t) /\ toNode'[j] = Create(t) => i = j
        BY <3>2 DEF IInv, Creates, CreateOf
      <3>4. InNode(Create(t))' => InNode(Create(t))
        BY <1>4, <2>1
      <3>5. InNode(Query(t))' => InNode(Query(t)) \/ (op'[t] # "none" /\ ~InNode(Create(t))')
        <4>1. CASE t = s
          BY <1>2, <3>4, <4>1 DEF dbVars
        <4>2. CASE t # s
          BY <1>4, <2>1, <4>2
        <4> QED BY <4>1, <4>2
      <3> QED BY <1>2, <1>5, <3>1, <3>3, <3>4, <3>5 DEF Quiet, peerVars, dbVars, nodeVars
    <2> QED BY <2>2, QuietCreates DEF IInv
  <1>10. Arriving'
    <2>1. mem' = mem /\ unsent' = unsent /\ toGw' = toGw /\ UNCHANGED <<log, connected, registered>>
      BY <1>2 DEF nodeVars, dbVars
    <2>2. \A e : Underway(e) => Underway(e)'
      BY <1>4, <1>5, <2>1 DEF Underway, Logged
    <2>3. \A i, e : SentBefore(i, e) => SentBefore(i, e)'
      BY <1>4, <2>1 DEF SentBefore, Logged
    <2> QED BY <2>1, <2>2, <2>3 DEF IInv, Arriving
  <1>11. Acks'
    <2>1. \A k \in 1..Len(r), t \in Sessions, n \in Nat : r[k] # Ack(t, n)
      BY <1>3 DEF Query, Ack
    <2>2. \A t \in Sessions : lastSource'[t] = lastSource[t] /\ lastSource[t] \in Nat
      BY <1>2 DEF IInv, TypeOK, dbVars
    <2>3. LogGrows
      BY <1>2 DEF LogGrows, Logged, dbVars
    <2> QED BY <1>1, <1>2, <2>1, <2>2, <2>3, ReplyAcks
  <1> QED BY <1>6, <1>7, <1>8, <1>9, <1>10, <1>11 DEF IInv

-----------------------------------------------------------------------------
(* The Node's steps preserve the invariant. *)

\* The Gateway does nothing meanwhile.
AtNode == UNCHANGED <<dbVars, peerVars, mark>>

\* A frame is sent, if the Gateway serves the connection.
LEMMA SentFacts ==
  ASSUME TypeOK, NEW f \in ToGwFrame, toGw' = Sent(f)
  PROVE  /\ toGw' \in Seq(ToGwFrame)
         /\ toGw' = IF registered THEN Append(toGw, f) ELSE toGw
         /\ \A g : InGw(g) => InGw(g)'
         /\ \A g : InGw(g)' => InGw(g) \/ g = f
  <1>1. CASE registered
    BY <1>1, GwSend DEF Sent
  <1>2. CASE ~registered
    BY <1>2 DEF Sent, TypeOK, InGw
  <1> QED BY <1>1, <1>2 DEF Sent

\* The database keeps what it has.
LEMMA NodeLedger ==
  ASSUME IInv, AtNode
  PROVE  Ledger' /\ \A e : Logged(e)' <=> Logged(e)
  BY DEF IInv, Ledger, Logged, AtNode, dbVars

\* No old event is new to the spool.
LEMMA NodeFence ==
  ASSUME IInv, AtNode,
         \A e \in mem'.spool : e \in mem.spool \/ e \in disk.spool \/ ~(e.id < mark)
  PROVE  Fence'
  <1>1. ASSUME NEW e \in mem'.spool, e.id < mark, log[e.session] = <<>>, registered
        PROVE  e.session \in needsSync \cup missed
    <2>1. CASE e \in mem.spool
      BY <1>1, <2>1 DEF IInv, Fence
    <2>2. CASE e \notin mem.spool
      <3>1. e \in disk.spool \ mem.spool
        BY <1>1, <2>2
      <3>2. Logged(e)
        BY <3>1 DEF IInv, DiskInMem
      <3> QED BY <1>1, <3>2 DEF Logged, Range
    <2> QED BY <2>1, <2>2
  <1> QED BY <1>1 DEF IInv, Fence, AtNode, peerVars, dbVars

\* serve() has ended.
LEMMA HungUp ==
  ASSUME IInv, AtNode, HangUp, toGw' = toGw, nextId' \in Nat, nextId <= nextId'
  PROVE  Ledger' /\ Control' /\ Arriving' /\ Acks'
  <1>1. Ledger'
    BY NodeLedger
  <1>2. mark' <= nextId'
    BY DEF IInv, Control, TypeOK, AtNode
  <1>3. Control'
    BY <1>2 DEF IInv, Control, AtNode, HangUp, peerVars
  <1>4. Arriving' /\ Acks'
    BY DEF Arriving, Acks, HangUp
  <1> QED BY <1>1, <1>3, <1>4

\* A report may be sent, and events may be forgotten.
LEMMA QuietArriving ==
  ASSUME IInv, AtNode, connected' = connected, mem'.spool \subseteq mem.spool,
         mem'.spool \ unsent' \subseteq mem.spool \ unsent,
         InNode(Error) => InNode(Error)',
         \/ toGw' = toGw
         \/ \E f \in ToGwFrame : toGw' = Sent(f) /\ \A e : f # Source(e)
  PROVE  Arriving'
  <1> SUFFICES ASSUME connected, registered
               PROVE  /\ \A e \in mem'.spool \ unsent' : Underway(e)'
                      /\ \A i \in 1..Len(toGw') : \A e \in Event : toGw'[i] = Source(e) =>
                           \A x \in mem'.spool : x.session = e.session /\ x.seq < e.seq => SentBefore(i, x)'
    BY DEF Arriving, AtNode, peerVars
  <1>1. /\ \A g : InGw(g) => InGw(g)'
        /\ \A i \in 1..Len(toGw) : toGw'[i] = toGw[i]
        /\ \A i \in 1..Len(toGw'), e \in Event : toGw'[i] = Source(e) => i \in 1..Len(toGw)
        /\ Len(toGw) \in Nat
    <2>1. CASE toGw' = toGw
      BY <2>1, LenProperties DEF InGw, IInv, TypeOK
    <2>2. ASSUME NEW f \in ToGwFrame, toGw' = Sent(f), \A e : f # Source(e)
          PROVE <1>1!1 /\ <1>1!2 /\ <1>1!3 /\ <1>1!4
      <3>1. /\ toGw' \in Seq(ToGwFrame) /\ Len(toGw) \in Nat /\ Len(toGw') = Len(toGw) + 1
            /\ \A k \in 1..Len(toGw) : toGw'[k] = toGw[k]
            /\ toGw'[Len(toGw')] = f
            /\ \A g : InGw(g)' <=> InGw(g) \/ g = f
        BY <2>2, GwSend DEF IInv, Sent
      <3> QED BY <2>2, <3>1
    <2> QED BY <2>1, <2>2
  <1>2. \A e : Underway(e) => Underway(e)'
    BY <1>1, NodeLedger DEF Underway
  <1>3. \A i \in 1..Len(toGw), e \in Event : SentBefore(i, e) => SentBefore(i, e)'
    BY <1>1, NodeLedger DEF SentBefore
  <1> QED BY <1>1, <1>2, <1>3 DEF IInv, Arriving, TypeOK, NodeState

\* A frame that is no error may be read, and events may be forgotten.
LEMMA QuietAcks ==
  ASSUME IInv, AtNode, mem'.seq = mem.seq, mem'.spool \subseteq mem.spool,
         \/ toNode' = toNode
         \/ toNode # <<>> /\ toNode[1] # Error /\ toNode' = Tail(toNode)
  PROVE  Acks' /\ (InNode(Error) => InNode(Error)')
  <1>1. CASE toNode' = toNode
    BY <1>1, NodeLedger DEF IInv, Acks, InNode, AtNode, dbVars
  <1>2. CASE toNode # <<>> /\ toNode[1] # Error /\ toNode' = Tail(toNode)
    <2>1. /\ Len(toNode) \in Nat \ {0} /\ Len(toNode') = Len(toNode) - 1
          /\ \A k \in 1..Len(toNode') : toNode'[k] = toNode[k + 1]
          /\ InNode(Error) => InNode(Error)'
      BY <1>2, NodeRead DEF IInv
    <2>2. ASSUME NEW i \in 1..Len(toNode'), NEW s \in Sessions, NEW n \in Nat, toNode'[i] = Ack(s, n)
          PROVE  /\ n <= mem.seq[s] /\ n <= lastSource[s]
                 /\ \/ \E j \in 1..i - 1 : toNode'[j] = Error
                    \/ \A e \in mem.spool : e.session = s /\ e.seq <= n => Logged(e)
      <3>1. i + 1 \in 1..Len(toNode) /\ toNode[i + 1] = Ack(s, n)
        BY <2>1, <2>2
      <3>2. /\ n <= mem.seq[s] /\ n <= lastSource[s]
            /\ \/ \E j \in 1..(i + 1) - 1 : toNode[j] = Error
               \/ \A e \in mem.spool : e.session = s /\ e.seq <= n => Logged(e)
        BY <3>1 DEF IInv, Acks
      <3>3. ASSUME NEW j \in 1..(i + 1) - 1, toNode[j] = Error PROVE \E k \in 1..i - 1 : toNode'[k] = Error
        <4>1. j - 1 \in 1..i - 1 /\ j - 1 \in 1..Len(toNode') /\ toNode'[j - 1] = Error
          <5>1. j # 1
            BY <1>2, <3>3
          <5>2. j - 1 \in 1..i - 1 /\ j - 1 \in 1..Len(toNode') /\ (j - 1) + 1 = j
            BY <2>1, <2>2, <5>1
          <5> QED BY <2>1, <3>3, <5>2
        <4> QED BY <4>1
      <3> QED BY <3>2, <3>3
    <2> QED BY <2>1, <2>2, NodeLedger DEF Acks, AtNode, dbVars
  <1> QED BY <1>1, <1>2

\* The connection's frames to the Node are gone.
LEMMA NoFrames ==
  ASSUME HangUp
  PROVE  /\ toNode' \in Seq(ToNodeFrame) /\ connected' \in BOOLEAN /\ syncing' \in BOOLEAN
         /\ unsent' \subseteq Event /\ busy' \subseteq Sessions
         /\ \A f : ~InNode(f)'
  <1>1. <<>> \in Seq(ToNodeFrame)
    OBVIOUS
  <1>2. \A f : ~InNode(f)'
    BY DEF HangUp, InNode
  <1>3. connected' = FALSE /\ unsent' = {} /\ syncing' = FALSE /\ busy' = {} /\ toNode' = <<>>
    BY DEF HangUp
  <1> QED BY <1>1, <1>2, <1>3

LEMMA LeftKeeps ==
  ASSUME IInv, AtNode, HangUp, UNCHANGED <<mem, disk, toGw, nextId, epoch, emits>>,
         todo' \subseteq Sessions, faults' \in Nat
  PROVE  IInv'
  <1>1. TypeOK'
    BY NoFrames DEF IInv, TypeOK, AtNode, dbVars, peerVars
  <1>2. Ledger' /\ Control' /\ Arriving' /\ Acks'
    BY HungUp DEF IInv, TypeOK
  <1>3. Sources' = Sources /\ \A f : InGw(f)' <=> InGw(f)
    BY DEF Sources, InGw
  <1>4. Numbered'
    BY <1>3, QuietNumbers DEF IInv, OnLine, AtNode, dbVars, HangUp
  <1>5. DiskInMem'
    BY NodeLedger DEF IInv, DiskInMem
  <1>6. Creates'
    <2>1. \A s \in Sessions : Begun(s)' => Begun(s)
      BY <1>3 DEF Begun, AtNode, dbVars, Has
    <2> QED BY <1>3, <2>1, NoFrames, QuietCreates DEF Quiet, peerVars, IInv, AtNode, dbVars, HangUp
  <1>7. Fence'
    BY NodeFence
  <1> QED BY <1>1, <1>2, <1>4, <1>5, <1>6, <1>7 DEF IInv

LEMMA ReadErrorKeeps ==
  ASSUME IInv, ReadError
  PROVE  IInv'
  BY LeftKeeps DEF ReadError, AtNode, envVars, IInv, TypeOK

LEMMA NodeHangsUpKeeps ==
  ASSUME IInv, NodeHangsUp
  PROVE  IInv'
  <1>1. faults' \in Nat
    BY Faulty DEF NodeHangsUp, IInv
  <1> QED BY <1>1, LeftKeeps DEF NodeHangsUp, AtNode

\* The process dies and reads its state again.
LEMMA NodeRestartKeeps ==
  ASSUME IInv, NodeRestart
  PROVE  IInv'
  <1>1. /\ AtNode /\ HangUp /\ todo' = {} /\ toGw' = toGw /\ UNCHANGED <<epoch, nextId, emits>>
        /\ mem' = Reloaded /\ disk' = Reloaded
    BY DEF NodeRestart, AtNode
  <1>2. /\ Reloaded \in NodeState /\ Reloaded.spool = disk.spool /\ Reloaded.seq = disk.seq
        /\ \A s \in Sessions : Reloaded.journal[s] =
             IF disk.journal[s] = "executing" THEN "unknown" ELSE disk.journal[s]
    BY DEF Reloaded, IInv, TypeOK, NodeState, JournalStates
  <1>3. TypeOK'
    <2>1. faults' \in Nat
      BY Faulty DEF NodeRestart, IInv
    <2> QED BY <1>1, <1>2, <2>1, NoFrames DEF IInv, TypeOK, AtNode, dbVars, peerVars
  <1>4. Ledger' /\ Control' /\ Arriving' /\ Acks'
    BY <1>1, HungUp DEF IInv, TypeOK
  <1>5. Sources' = Sources /\ \A f : InGw(f)' <=> InGw(f)
    BY <1>1 DEF Sources, InGw
  <1>6. Numbered'
    <2>1. Events' \subseteq Events
      BY <1>1, <1>2, <1>5 DEF Events, AtNode, dbVars
    <2>2. OnLine' = disk.spool
      BY <1>1, <1>2 DEF OnLine, HangUp
    <2>3. InOrder(OnLine') /\ InOrder(disk'.spool)
      BY <1>1, <1>2, <2>2 DEF IInv, Numbered
    <2>4. InOrder(OnLine)' /\ InOrder(disk.spool)'
      BY <2>3 DEF InOrder
    <2>5. \A x \in Events' : x.id < nextId'
      BY <1>1, <2>1 DEF IInv, Numbered
    <2>6. \A x, y \in Events' : x.id = y.id => x = y
      BY <2>1 DEF IInv, Numbered
    <2> QED BY <1>1, <1>2, <2>2, <2>4, <2>5, <2>6 DEF IInv, Numbered
  <1>7. DiskInMem'
    BY <1>1 DEF DiskInMem
  <1>8. Creates'
    <2>1. ASSUME NEW s \in Sessions PROVE CreateOf(s)'
      <3>1. Begun(s)' => Begun(s)
        BY <1>1, <1>2, <1>5 DEF Begun, AtNode, dbVars, Has
      <3>2. Accepted(s) => Accepted(s)'
        BY <1>1, <1>2, <1>5, NoFrames DEF Accepted, Saved, AtNode, dbVars
      <3>3. CreateOf(s)
        BY DEF IInv, Creates
      <3>4. op'[s] = "none" => /\ mem'.journal[s] = "none" /\ disk'.journal[s] = "none"
                               /\ s \notin unasked' /\ \A w \in Words : ~InGw(Status(s, w))'
        BY <1>1, <1>2, <1>5, <3>3 DEF CreateOf, AtNode, dbVars, peerVars
      <3>5. (\A f : ~InNode(f)') /\ s \notin busy'
        BY <1>1, NoFrames DEF HangUp
      <3>6. Begun(s)' => Accepted(s)'
        BY <3>1, <3>2, <3>3 DEF CreateOf
      <3> QED BY <3>4, <3>5, <3>6 DEF CreateOf
    <2> QED BY <2>1 DEF Creates
  <1>9. Fence'
    BY <1>1, <1>2, NodeFence
  <1> QED BY <1>3, <1>4, <1>6, <1>7, <1>8, <1>9 DEF IInv

\* An event of the spool is sent again, or serve() ends.
LEMMA ReplayKeeps ==
  ASSUME IInv, Replay
  PROVE  IInv'
  <1>0. AtNode /\ UNCHANGED <<todo, mem, disk, epoch, nextId, emits>> /\ connected /\ ~syncing
    BY DEF Replay, AtNode
  <1>1. CASE SendFails /\ HangUp /\ UNCHANGED toGw
    <2>1. faults' \in Nat
      BY <1>1, Faulty DEF SendFails, IInv
    <2> QED BY <1>0, <1>1, <2>1, LeftKeeps DEF IInv, TypeOK
  <1>2. ASSUME NEW e \in unsent, \A x \in unsent : e.id <= x.id,
               toGw' = Sent(Source(e)), unsent' = unsent \ {e},
               UNCHANGED <<connected, syncing, busy, toNode, faults>>
        PROVE  IInv'
    <2>1. /\ e \in Event /\ e \in mem.spool /\ Source(e) \in ToGwFrame
          /\ e.session \in Sessions /\ e.seq \in Nat /\ e.id \in Nat
      BY DEF IInv, TypeOK, Control, Source, ToGwFrame, Event
    <2>2. /\ toGw' \in Seq(ToGwFrame)
          /\ toGw' = IF registered THEN Append(toGw, Source(e)) ELSE toGw
          /\ \A g : InGw(g) => InGw(g)'
          /\ \A g : InGw(g)' => InGw(g) \/ g = Source(e)
      BY <1>2, <2>1, SentFacts DEF IInv
    <2>3. Sources' \subseteq Sources \cup mem.spool
      BY <2>1, <2>2 DEF Sources, Source
    <2>4. TypeOK' /\ Control'
      <3>1. TypeOK'
        BY <1>0, <1>2, <2>2 DEF AtNode, IInv, TypeOK, dbVars, peerVars
      <3>2. Control'
        BY <1>0, <1>2, <2>2 DEF AtNode, IInv, Control, peerVars, Has
      <3> QED BY <3>1, <3>2
    <2>5. Numbered'
      BY <1>0, <1>2, <2>3, QuietNumbers DEF IInv, OnLine, AtNode, dbVars
    <2>6. Ledger' /\ DiskInMem' /\ Fence'
      BY <1>0, NodeLedger, NodeFence DEF IInv, DiskInMem
    <2>7. Creates'
      <3>1. ASSUME NEW s \in Sessions PROVE Begun(s)' => Begun(s)
        BY <1>0, <2>3 DEF Begun, AtNode, dbVars, Has
      <3>2. \A s, w : Status(s, w) # Source(e)
        BY DEF Status, Source
      <3>3. \A f : InNode(f)' <=> InNode(f)
        BY <1>2 DEF InNode
      <3> QED BY <1>0, <1>2, <2>2, <3>1, <3>2, <3>3, QuietCreates DEF Quiet, peerVars, IInv, AtNode, dbVars, Creates, CreateOf
    <2>8. Arriving'
      <3> SUFFICES ASSUME registered
                   PROVE  /\ \A x \in mem.spool \ unsent' : Underway(x)'
                          /\ \A i \in 1..Len(toGw') : \A f \in Event : toGw'[i] = Source(f) =>
                               \A x \in mem.spool : x.session = f.session /\ x.seq < f.seq => SentBefore(i, x)'
        BY <1>0 DEF Arriving, AtNode, peerVars
      <3>1. /\ Len(toGw) \in Nat /\ Len(toGw') = Len(toGw) + 1
            /\ \A k \in 1..Len(toGw) : toGw'[k] = toGw[k]
            /\ toGw'[Len(toGw')] = Source(e)
            /\ InGw(Source(e))'
        BY <1>2, <2>1, GwSend DEF IInv, Sent
      <3>2. \A x : (Logged(x)' <=> Logged(x)) /\ (InNode(x)' <=> InNode(x))
        BY <1>0, <1>2, NodeLedger DEF InNode
      <3>3. \A x : Underway(x) => Underway(x)'
        BY <2>2, <3>2 DEF Underway
      <3>4. \A x \in mem.spool \ unsent : Underway(x)
        BY <1>0 DEF IInv, Arriving
      <3>5. \A x \in mem.spool \ unsent' : Underway(x)'
        BY <1>2, <3>1, <3>3, <3>4 DEF Underway
      <3>6. ASSUME NEW i \in 1..Len(toGw'), NEW f \in Event, toGw'[i] = Source(f),
                   NEW x \in mem.spool, x.session = f.session, x.seq < f.seq
            PROVE  SentBefore(i, x)'
        <4>1. CASE i \in 1..Len(toGw)
          <5>1. toGw[i] = Source(f)
            BY <3>1, <3>6, <4>1
          <5>2. SentBefore(i, x)
            BY <1>0, <3>6, <4>1, <5>1 DEF IInv, Arriving
          <5> QED BY <3>1, <3>2, <4>1, <5>2 DEF SentBefore
        <4>2. CASE i = Len(toGw')
          <5>1. f = e
            BY <3>1, <3>6, <4>2 DEF Source
          <5>2. x \in OnLine /\ e \in OnLine /\ x.id \in Nat
            BY <2>1 DEF OnLine, IInv, TypeOK, NodeState, Event
          <5>3. x.id < e.id
            BY <3>6, <5>1, <5>2 DEF IInv, Numbered, InOrder
          <5>4. x \notin unsent
            BY <1>2, <2>1, <5>2, <5>3
          <5>5. Underway(x)
            BY <3>4, <3>6, <5>4
          <5> QED BY <3>1, <3>2, <4>2, <5>5 DEF Underway, SentBefore, InGw
        <4> QED BY <3>1, <4>1, <4>2
      <3> QED BY <3>5, <3>6
    <2>9. Acks'
      BY <1>0, <1>2, QuietAcks
    <2> QED BY <2>4, <2>5, <2>6, <2>7, <2>8, <2>9 DEF IInv
  <1> QED BY <1>1, <1>2 DEF Replay

\* The replay is through, the snapshots begin.
LEMMA BeginSyncKeeps ==
  ASSUME IInv, BeginSync
  PROVE  IInv'
  <1>1. /\ AtNode /\ UNCHANGED <<connected, unsent, busy, mem, disk, toGw, toNode, envVars>>
        /\ connected /\ unsent = {} /\ syncing' = TRUE /\ todo' = {s \in Sessions : Has(s)}
    BY DEF BeginSync, AtNode, envVars
  <1>2. Sources' = Sources /\ \A f : (InGw(f)' <=> InGw(f)) /\ (InNode(f)' <=> InNode(f))
    BY <1>1 DEF Sources, InGw, InNode
  <1>3. TypeOK' /\ Control'
    <2>1. TypeOK'
      BY <1>1 DEF IInv, TypeOK, AtNode, dbVars, peerVars, envVars
    <2>2. Control'
      BY <1>1 DEF IInv, Control, AtNode, peerVars, envVars, Has
    <2> QED BY <2>1, <2>2
  <1>4. Numbered'
    BY <1>1, <1>2, QuietNumbers DEF IInv, OnLine, AtNode, dbVars, envVars
  <1>5. Ledger' /\ DiskInMem' /\ Fence'
    BY <1>1, NodeLedger, NodeFence DEF IInv, DiskInMem
  <1>6. Creates'
    <2>1. \A s \in Sessions : Begun(s)' => Begun(s)
      BY <1>1, <1>2 DEF Begun, AtNode, dbVars, Has
    <2> QED BY <1>1, <1>2, <2>1, QuietCreates DEF Quiet, peerVars, IInv, AtNode, dbVars, Creates, CreateOf
  <1>7. Arriving' /\ Acks'
    BY <1>1, <1>2, QuietArriving, QuietAcks
  <1> QED BY <1>3, <1>4, <1>5, <1>6, <1>7 DEF IInv

\* serve() works at the create of s, or answers for it; it goes on or ends.
GoesOn(s) ==
  /\ UNCHANGED <<connected, unsent, syncing>> /\ busy' \subseteq busy \cup {s}
  /\ toGw' = toGw \/ \E w \in Words : toGw' = Sent(Status(s, w))
  /\ toNode' = toNode \/ (toNode # <<>> /\ toNode[1] # Error /\ toNode' = Tail(toNode))

Serves(s) ==
  /\ AtNode /\ connected /\ syncing
  /\ mem' \in NodeState /\ mem'.seq = mem.seq /\ mem'.spool \subseteq mem.spool
  /\ \A t \in Sessions \ {s} : mem'.journal[t] = mem.journal[t]
  /\ Has(s) => Has(s)'
  /\ disk' \in {mem', disk}
  /\ UNCHANGED <<todo, epoch, nextId, emits>> /\ faults' \in Nat
  /\ GoesOn(s) \/ (HangUp /\ toGw' = toGw)

LEMMA ServesFrames ==
  ASSUME IInv, NEW s \in Sessions, Serves(s)
  PROVE  /\ toGw' \in Seq(ToGwFrame) /\ toNode' \in Seq(ToNodeFrame)
         /\ Sources' = Sources
         /\ \A t \in Sessions \ {s} : \A w : InGw(Status(t, w))' => InGw(Status(t, w))
         /\ \A f : InNode(f)' => InNode(f)
         /\ \A f : (\A i, j \in 1..Len(toNode) : toNode[i] = f /\ toNode[j] = f => i = j) =>
              \A i, j \in 1..Len(toNode') : toNode'[i] = f /\ toNode'[j] = f => i = j
         /\ registered' = registered /\ (~registered => toGw' = toGw)
  <1>0. toGw \in Seq(ToGwFrame) /\ toNode \in Seq(ToNodeFrame) /\ registered' = registered
    BY DEF IInv, TypeOK, Serves, AtNode, peerVars
  <1>1. /\ toGw' \in Seq(ToGwFrame) /\ Sources' = Sources
        /\ \A t \in Sessions \ {s} : \A w : InGw(Status(t, w))' => InGw(Status(t, w))
        /\ ~registered => toGw' = toGw
    <2>1. CASE toGw' = toGw
      BY <1>0, <2>1 DEF Sources, InGw
    <2>2. ASSUME NEW w \in Words, toGw' = Sent(Status(s, w)) PROVE <1>1!1 /\ <1>1!2 /\ <1>1!3
      <3>1. Status(s, w) \in ToGwFrame
        BY DEF Status, Words, ToGwFrame
      <3>2. \A e : Source(e) # Status(s, w)
        BY DEF Source, Status
      <3>3. \A t \in Sessions \ {s} : \A v : Status(t, v) # Status(s, w)
        BY DEF Status
      <3>4. /\ toGw' \in Seq(ToGwFrame)
            /\ toGw' = IF registered THEN Append(toGw, Status(s, w)) ELSE toGw
            /\ \A g : InGw(g) => InGw(g)'
            /\ \A g : InGw(g)' => InGw(g) \/ g = Status(s, w)
        BY <2>2, <3>1, SentFacts DEF IInv
      <3>5. Sources' = Sources
        BY <3>2, <3>4 DEF Sources
      <3> QED BY <3>3, <3>4, <3>5
    <2> QED BY <2>1, <2>2 DEF Serves, GoesOn
  <1>2. /\ toNode' \in Seq(ToNodeFrame)
        /\ \A f : InNode(f)' => InNode(f)
        /\ \A f : (\A i, j \in 1..Len(toNode) : toNode[i] = f /\ toNode[j] = f => i = j) =>
             \A i, j \in 1..Len(toNode') : toNode'[i] = f /\ toNode'[j] = f => i = j
    <2>1. CASE toNode' = toNode
      BY <1>0, <2>1 DEF InNode
    <2>2. CASE toNode # <<>> /\ toNode' = Tail(toNode)
      <3>1. /\ Len(toNode) \in Nat \ {0} /\ toNode' \in Seq(ToNodeFrame) /\ Len(toNode') = Len(toNode) - 1
            /\ \A k \in 1..Len(toNode') : toNode'[k] = toNode[k + 1]
            /\ \A f : InNode(f)' => InNode(f)
        BY <2>2, NodeRead DEF IInv
      <3>2. \A k \in 1..Len(toNode') : k + 1 \in 1..Len(toNode)
        BY <3>1
      <3>3. ASSUME NEW f, \A i, j \in 1..Len(toNode) : toNode[i] = f /\ toNode[j] = f => i = j,
                   NEW i \in 1..Len(toNode'), NEW j \in 1..Len(toNode'), toNode'[i] = f, toNode'[j] = f
            PROVE  i = j
        <4>1. i + 1 = j + 1
          BY <3>1, <3>2, <3>3
        <4> QED BY <4>1
      <3> QED BY <3>1, <3>3
    <2>3. CASE HangUp
      <3>1. toNode' \in Seq(ToNodeFrame) /\ \A f : ~InNode(f)'
        BY <2>3, NoFrames
      <3>2. Len(toNode') = 0
        BY <2>3 DEF HangUp
      <3>3. 1..Len(toNode') = {}
        BY <3>2
      <3> QED BY <3>1, <3>3
    <2> QED BY <2>1, <2>2, <2>3 DEF Serves, GoesOn
  <1> QED BY <1>0, <1>1, <1>2

LEMMA ServesKeeps ==
  ASSUME IInv, NEW s \in Sessions, Serves(s), CreateOf(s)', DiskInMem'
  PROVE  IInv'
  <1>1. TypeOK'
    <2>1. /\ connected' \in BOOLEAN /\ syncing' \in BOOLEAN
          /\ unsent' \subseteq Event /\ busy' \subseteq Sessions
      BY NoFrames DEF Serves, GoesOn, IInv, TypeOK
    <2>2. disk' \in NodeState
      BY DEF Serves, IInv, TypeOK
    <2> QED BY <2>1, <2>2, ServesFrames DEF IInv, TypeOK, Serves, AtNode, dbVars, peerVars
  <1>2. Ledger'
    BY NodeLedger DEF Serves
  <1>3. Numbered'
    <2>1. OnLine' \subseteq OnLine
      <3>1. connected' => connected
        BY DEF Serves
      <3> QED BY <3>1, ServesFrames DEF OnLine, Serves
    <2>2. mem'.spool \subseteq mem.spool /\ mem'.seq = mem.seq /\ disk' \in {disk, mem'} /\ nextId' = nextId
      BY DEF Serves
    <2>3. receipts' = receipts /\ Sources' = Sources
      BY ServesFrames DEF Serves, AtNode, dbVars
    <2> QED BY <2>1, <2>2, <2>3, QuietNumbers DEF IInv
  <1>4. Fence'
    BY NodeFence DEF Serves
  <1>5. Creates'
    <2>1. ASSUME NEW t \in Sessions, t # s PROVE CreateOf(t)'
      <3>1. /\ mem'.journal[t] = mem.journal[t] /\ disk'.journal[t] \in {disk.journal[t], mem.journal[t]}
            /\ op'[t] = op[t] /\ log' = log /\ unasked' = unasked
        BY <2>1 DEF Serves, AtNode, dbVars, peerVars
      <3>2. t \in busy' => t \in busy
        BY <2>1 DEF Serves, GoesOn, HangUp
      <3>3. Begun(t)' => Begun(t)
        <4>1. Has(t)' => Has(t)
          BY <3>1 DEF Has
        <4>2. mem'.spool \cup disk'.spool \cup Sources' \subseteq mem.spool \cup disk.spool \cup Sources
          BY ServesFrames DEF Serves
        <4>3. disk'.journal[t] \in {"executing", "unknown", "confirmed"} =>
                Has(t) \/ disk.journal[t] \in {"executing", "unknown", "confirmed"}
          BY <3>1 DEF Has
        <4> QED BY <3>1, <4>1, <4>2, <4>3 DEF Begun
      <3>4. Quiet(t)
        BY <2>1, <3>1, <3>2, <3>3, ServesFrames DEF Quiet, peerVars, IInv, Creates, CreateOf
      <3> QED BY <3>4, QuietCreateOf DEF IInv
    <2> QED BY <2>1 DEF Creates
  <1>6. CASE GoesOn(s)
    <2>1. Acks' /\ (InNode(Error) => InNode(Error)')
      BY <1>6, QuietAcks DEF Serves, GoesOn
    <2>2. unsent = {} /\ unsent' = {} /\ connected' = connected
      BY <1>6 DEF Serves, GoesOn, IInv, Control
    <2>3. toGw' = toGw \/ \E f \in ToGwFrame : toGw' = Sent(f) /\ \A e : f # Source(e)
      <3>1. ASSUME NEW w \in Words PROVE Status(s, w) \in ToGwFrame /\ \A e : Status(s, w) # Source(e)
        BY DEF Status, Source, Words, ToGwFrame
      <3> QED BY <1>6, <3>1 DEF GoesOn
    <2>4. Arriving'
      BY <2>1, <2>2, <2>3, QuietArriving DEF Serves
    <2>5. Control'
      <3>1. \A t \in todo : Has(t) => Has(t)'
        <4>1. \A t \in todo : t \in Sessions
          BY DEF IInv, TypeOK
        <4> QED BY <4>1 DEF Serves, Has
      <3>2. (~registered' => toGw' = <<>> /\ ~ready') /\ mark' <= nextId'
        BY ServesFrames DEF IInv, Control, Serves, AtNode, peerVars
      <3> QED BY <1>6, <2>2, <3>1, <3>2 DEF IInv, Control, Serves, GoesOn
    <2> QED BY <1>1, <1>2, <1>3, <1>4, <1>5, <2>1, <2>4, <2>5 DEF IInv
  <1>7. CASE HangUp /\ toGw' = toGw
    <2>1. Control' /\ Arriving' /\ Acks'
      BY <1>7, HungUp DEF Serves, IInv, TypeOK
    <2> QED BY <1>1, <1>2, <1>3, <1>4, <1>5, <2>1 DEF IInv
  <1> QED BY <1>6, <1>7 DEF Serves

\* A state of the create of s is recorded and reported.
LEMMA JournalServes ==
  ASSUME IInv, NEW s \in Sessions, NEW r \in {"delivered", "rejected", "confirmed"},
         NEW work \in SUBSET (busy \cup {s}), NEW rest, Journal(s, r, work, rest),
         AtNode, connected, syncing, UNCHANGED <<todo, epoch, nextId, emits>>,
         rest = toNode \/ (toNode # <<>> /\ toNode[1] # Error /\ rest = Tail(toNode)),
         Has(s) => r = "confirmed"
  PROVE  /\ Serves(s) /\ mem'.journal[s] = r /\ mem'.spool = mem.spool /\ DiskInMem'
         /\ \/ disk'.journal[s] = r /\ busy' = work /\ toNode' = rest /\ toGw' = Sent(Status(s, r))
            \/ disk'.journal[s] \in {r, disk.journal[s]} /\ HangUp /\ toGw' = toGw
  <1> DEFINE m == [mem EXCEPT !.journal[s] = r]
  <1>1. /\ m \in NodeState /\ m.seq = mem.seq /\ m.spool = mem.spool /\ m.journal[s] = r
        /\ \A t \in Sessions \ {s} : m.journal[t] = mem.journal[t]
    BY DEF IInv, TypeOK, NodeState, JournalStates
  <1>2. SaveAndSend(m, Status(s, r), work, rest)
    BY DEF Journal
  <1> HIDE DEF m
  <1>3. /\ mem' = m
        /\ \/ /\ disk' = m /\ toGw' = Sent(Status(s, r)) /\ busy' = work /\ toNode' = rest
              /\ UNCHANGED <<connected, unsent, syncing>>
           \/ disk' \in {m, disk} /\ HangUp /\ toGw' = toGw
    BY <1>2 DEF SaveAndSend
  <1>4. faults' \in Nat
    BY <1>2, Faulty DEF SaveAndSend, SendFails, IInv
  <1>5. Has(s) => Has(s)'
    BY <1>1, <1>3 DEF Has
  <1>6. Serves(s)
    <2>1. (GoesOn(s) \/ (HangUp /\ toGw' = toGw)) /\ disk' \in {mem', disk}
      <3>1. r \in Words
        BY DEF Words
      <3> QED BY <1>3, <3>1 DEF GoesOn
    <2> QED BY <1>1, <1>3, <1>4, <1>5, <2>1 DEF Serves
  <1>7. DiskInMem'
    BY <1>1, <1>3, NodeLedger DEF IInv, DiskInMem
  <1> QED BY <1>1, <1>3, <1>6, <1>7

LEMMA TakeCreateKeeps ==
  ASSUME IInv, TakeCreate
  PROVE  IInv'
  <1>1. PICK s \in Sessions : /\ toNode # <<>> /\ toNode[1] = Create(s) /\ InNode(Create(s))
                              /\ Journal(s, "delivered", {s}, Tail(toNode))
    <2>1. Head(toNode) = toNode[1] /\ toNode[1] \in ToNodeFrame /\ InNode(toNode[1])
      BY NodeRead DEF TakeCreate, NodeReads, IInv
    <2>2. Head(toNode).session \in Sessions /\ toNode[1] = Create(Head(toNode).session)
      BY <2>1, FrameKinds DEF TakeCreate, NodeReads
    <2> QED BY <2>1, <2>2 DEF TakeCreate, NodeReads
  <1>2. /\ AtNode /\ connected /\ syncing /\ UNCHANGED <<todo, epoch, nextId, emits>>
        /\ busy = {} /\ toNode[1] # Error
    BY <1>1 DEF TakeCreate, NodeReads, Looping, AtNode, Create, Error
  <1>3. /\ op[s] = "open" /\ mem.journal[s] = "none" /\ disk.journal[s] = "none" /\ ~InNode(Query(s))
        /\ \A w \in Words : ~InGw(Status(s, w))
        /\ \A i, j \in 1..Len(toNode) : toNode[i] = Create(s) /\ toNode[j] = Create(s) => i = j
        /\ ~Begun(s) /\ ~Has(s)
    BY <1>1 DEF IInv, Creates, CreateOf, Accepted, Saved, Has
  <1>4. /\ Serves(s) /\ mem'.journal[s] = "delivered" /\ mem'.spool = mem.spool /\ DiskInMem'
        /\ \/ /\ disk'.journal[s] = "delivered" /\ busy' = {s} /\ toNode' = Tail(toNode)
              /\ toGw' = Sent(Status(s, "delivered"))
           \/ disk'.journal[s] \in {"delivered", "none"} /\ HangUp /\ toGw' = toGw
    BY <1>1, <1>2, <1>3, JournalServes
  <1>5. ~InNode(Create(s))' /\ ~InNode(Query(s))'
    <2>1. CASE toNode' = Tail(toNode)
      <3>1. /\ Len(toNode) \in Nat \ {0} /\ Len(toNode') = Len(toNode) - 1
            /\ \A k \in 1..Len(toNode') : toNode'[k] = toNode[k + 1]
        BY <1>1, <2>1, NodeRead DEF IInv
      <3>2. \A k \in 1..Len(toNode') : k + 1 \in 1..Len(toNode) /\ k + 1 # 1 /\ 1 \in 1..Len(toNode)
        BY <3>1
      <3>3. ~InNode(Create(s))'
        BY <1>1, <1>3, <3>1, <3>2 DEF InNode
      <3> QED BY <1>3, <1>4, <3>3, ServesFrames
    <2>2. CASE HangUp
      BY <2>2, NoFrames
    <2> QED BY <1>4, <2>1, <2>2
  <1>6. ~Begun(s)'
    <2>1. Sources' = Sources /\ log' = log /\ ~Has(s)'
      BY <1>4, ServesFrames DEF Serves, AtNode, dbVars, Has
    <2>2. disk'.spool \subseteq mem.spool \cup disk.spool
      BY <1>4 DEF Serves
    <2> QED BY <1>3, <1>4, <2>1, <2>2 DEF Begun
  <1>7. CreateOf(s)'
    <2>1. op'[s] = "open"
      BY <1>2, <1>3 DEF AtNode, dbVars
    <2>2. ~InGw(Status(s, "not_seen"))' /\ ~InGw(Status(s, "rejected"))'
      <3>1. CASE toGw' = toGw
        BY <1>3, <3>1 DEF InGw, Words
      <3>2. CASE toGw' = Sent(Status(s, "delivered"))
        <4>1. Status(s, "delivered") \in ToGwFrame
          BY DEF Status, ToGwFrame
        <4>2. \A g : InGw(g)' => InGw(g) \/ g = Status(s, "delivered")
          BY <3>2, <4>1, SentFacts DEF IInv
        <4>3. Status(s, "not_seen") # Status(s, "delivered") /\ Status(s, "rejected") # Status(s, "delivered")
          BY DEF Status
        <4> QED BY <1>3, <4>2, <4>3 DEF Words
      <3> QED BY <1>4, <3>1, <3>2
    <2>3. s \in busy' => Accepted(s)'
      BY <1>4, <1>5, <2>1, <2>2 DEF Accepted, Saved, HangUp
    <2> QED BY <1>4, <1>5, <1>6, <2>1, <2>3 DEF CreateOf
  <1> QED BY <1>4, <1>7, ServesKeeps

\* What was accepted is not refused by what the Node says next.
LEMMA StaysAccepted ==
  ASSUME IInv, NEW s \in Sessions, Serves(s), Accepted(s), mem'.journal[s] \in Saved,
         \/ toGw' = toGw
         \/ \E w \in Words \ {"not_seen", "rejected"} : toGw' = Sent(Status(s, w))
  PROVE  Accepted(s)'
  <1>1. op'[s] = op[s] /\ disk'.journal[s] \in Saved
    BY DEF Serves, AtNode, dbVars, Accepted
  <1>2. ~InGw(Status(s, "not_seen"))' /\ ~InGw(Status(s, "rejected"))'
    <2>1. CASE toGw' = toGw
      BY <2>1 DEF InGw, Accepted
    <2>2. ASSUME NEW w \in Words \ {"not_seen", "rejected"}, toGw' = Sent(Status(s, w))
          PROVE  ~InGw(Status(s, "not_seen"))' /\ ~InGw(Status(s, "rejected"))'
      <3>1. Status(s, w) \in ToGwFrame
        BY DEF Status, Words, ToGwFrame
      <3>2. \A g : InGw(g)' => InGw(g) \/ g = Status(s, w)
        BY <2>2, <3>1, SentFacts DEF IInv
      <3>3. Status(s, "not_seen") # Status(s, w) /\ Status(s, "rejected") # Status(s, w)
        BY <2>2 DEF Status
      <3> QED BY <3>2, <3>3 DEF Accepted
    <2> QED BY <2>1, <2>2
  <1>3. ~InNode(Create(s))'
    BY ServesFrames DEF Accepted
  <1> QED BY <1>1, <1>2, <1>3 DEF Accepted

\* A session in work was accepted, and nothing of it is on its way to the Node.
LEMMA InWork ==
  ASSUME IInv, NEW s \in busy
  PROVE  /\ s \in Sessions /\ Accepted(s) /\ connected /\ syncing /\ op[s] # "none" /\ ~InNode(Create(s))
         /\ mem.journal[s] = "delivered" => ~Begun(s) /\ ~Has(s)
  BY DEF IInv, TypeOK, Control, Creates, CreateOf, Accepted, Has

LEMMA RejectCreateKeeps ==
  ASSUME IInv, NEW s \in Sessions, RejectCreate(s)
  PROVE  IInv'
  <1>1. /\ s \in busy /\ mem.journal[s] = "delivered" /\ Journal(s, "rejected", {}, toNode)
        /\ AtNode /\ UNCHANGED <<todo, epoch, nextId, emits>>
    BY DEF RejectCreate, AtNode
  <1>2. /\ connected /\ syncing /\ op[s] # "none" /\ ~InNode(Create(s)) /\ ~Begun(s) /\ ~Has(s)
    BY <1>1, InWork
  <1>3. /\ Serves(s) /\ mem'.journal[s] = "rejected" /\ mem'.spool = mem.spool /\ DiskInMem'
        /\ disk'.journal[s] \in {"rejected", disk.journal[s]} /\ busy' = {}
    <2>1. {} \in SUBSET (busy \cup {s})
      OBVIOUS
    <2> QED BY <1>1, <1>2, <2>1, JournalServes DEF HangUp
  <1>4. ~Begun(s)'
    <2>1. Sources' = Sources /\ log' = log /\ ~Has(s)'
      BY <1>3, ServesFrames DEF Serves, AtNode, dbVars, Has
    <2>2. disk'.spool \subseteq mem.spool \cup disk.spool
      BY <1>3 DEF Serves
    <2> QED BY <1>2, <1>3, <2>1, <2>2 DEF Begun
  <1>5. op'[s] # "none" /\ ~InNode(Create(s))'
    BY <1>1, <1>2, <1>3, ServesFrames DEF AtNode, dbVars
  <1>6. CreateOf(s)'
    BY <1>3, <1>4, <1>5 DEF CreateOf
  <1> QED BY <1>3, <1>6, ServesKeeps

LEMMA ConfirmCreateKeeps ==
  ASSUME IInv, NEW s \in Sessions, ConfirmCreate(s)
  PROVE  IInv'
  <1>1. /\ s \in busy /\ mem.journal[s] = "executing" /\ Journal(s, "confirmed", {}, toNode)
        /\ AtNode /\ UNCHANGED <<todo, epoch, nextId, emits>>
    BY DEF ConfirmCreate, AtNode
  <1>2. /\ connected /\ syncing /\ op[s] # "none" /\ ~InNode(Create(s)) /\ Accepted(s)
    BY <1>1, InWork
  <1>3. /\ Serves(s) /\ mem'.journal[s] = "confirmed" /\ DiskInMem' /\ busy' = {}
        /\ toGw' = toGw \/ toGw' = Sent(Status(s, "confirmed"))
    <2>1. {} \in SUBSET (busy \cup {s})
      OBVIOUS
    <2> QED BY <1>1, <1>2, <2>1, JournalServes DEF HangUp
  <1>4. Accepted(s)'
    BY <1>2, <1>3, StaysAccepted DEF Saved, Words
  <1>5. CreateOf(s)'
    BY <1>3, <1>4 DEF CreateOf, Accepted
  <1> QED BY <1>3, <1>5, ServesKeeps

LEMMA StartSessionKeeps ==
  ASSUME IInv, NEW s \in Sessions, StartSession(s)
  PROVE  IInv'
  <1>1. /\ s \in busy /\ mem.journal[s] = "delivered" /\ mem' = [mem EXCEPT !.journal[s] = "executing"]
        /\ AtNode /\ UNCHANGED <<todo, toGw, epoch, nextId, emits>>
        /\ disk' \in {mem', disk}
        /\ HangUp \/ UNCHANGED <<connected, unsent, syncing, busy, toNode>>
    BY DEF StartSession, AtNode
  <1>2. /\ connected /\ syncing /\ op[s] # "none" /\ ~InNode(Create(s)) /\ Accepted(s) /\ ~Has(s)
    BY <1>1, InWork
  <1>3. /\ mem' \in NodeState /\ mem'.seq = mem.seq /\ mem'.spool = mem.spool /\ mem'.journal[s] = "executing"
        /\ \A t \in Sessions \ {s} : mem'.journal[t] = mem.journal[t]
    BY <1>1 DEF IInv, TypeOK, NodeState, JournalStates
  <1>4. Serves(s)
    <2>1. faults' \in Nat
      BY Faulty DEF StartSession, IInv
    <2>2. GoesOn(s) \/ (HangUp /\ toGw' = toGw)
      BY <1>1 DEF GoesOn
    <2> QED BY <1>1, <1>2, <1>3, <2>1, <2>2 DEF Serves
  <1>5. DiskInMem'
    BY <1>1, <1>3, NodeLedger DEF IInv, DiskInMem
  <1>6. Accepted(s)'
    BY <1>1, <1>2, <1>3, <1>4, StaysAccepted DEF Saved
  <1>7. CreateOf(s)'
    BY <1>3, <1>6 DEF CreateOf, Accepted
  <1> QED BY <1>4, <1>5, <1>7, ServesKeeps

LEMMA AnswerQueryKeeps ==
  ASSUME IInv, AnswerQuery
  PROVE  IInv'
  <1>1. PICK s \in Sessions : /\ toNode # <<>> /\ toNode[1] = Query(s) /\ InNode(Query(s))
                              /\ toGw' = Sent(Status(s, Reported(mem.journal[s])))
    <2>1. Head(toNode) = toNode[1] /\ toNode[1] \in ToNodeFrame /\ InNode(toNode[1])
      BY NodeRead DEF AnswerQuery, NodeReads, IInv
    <2>2. Head(toNode).session \in Sessions /\ toNode[1] = Query(Head(toNode).session)
      BY <2>1, FrameKinds DEF AnswerQuery, NodeReads
    <2> QED BY <2>1, <2>2 DEF AnswerQuery, NodeReads
  <1>2. /\ AtNode /\ connected /\ syncing /\ busy = {} /\ UNCHANGED <<nodeVars, envVars>>
        /\ toNode[1] # Error /\ toNode' = Tail(toNode)
    BY <1>1 DEF AnswerQuery, NodeReads, Looping, AtNode, Query, Error, envVars
  <1> DEFINE w == Reported(mem.journal[s])
  <1>3. w \in Words /\ (w \in {"not_seen", "rejected"} => mem.journal[s] \notin Saved)
    BY DEF Reported, Words, Saved, IInv, TypeOK, NodeState, JournalStates
  <1> HIDE DEF w
  <1>4. Serves(s)
    <2>1. GoesOn(s)
      BY <1>1, <1>2, <1>3 DEF GoesOn, nodeVars, w
    <2> QED BY <1>2, <2>1 DEF Serves, IInv, TypeOK, Has, nodeVars, envVars
  <1>5. DiskInMem'
    BY <1>2, NodeLedger DEF IInv, DiskInMem, nodeVars
  <1>6. op'[s] # "none" /\ ~InNode(Create(s))'
    BY <1>1, <1>2, <1>4, ServesFrames DEF IInv, Creates, CreateOf, AtNode, dbVars
  <1>7. ASSUME Accepted(s) PROVE Accepted(s)'
    <2>1. mem.journal[s] \in Saved /\ mem' = mem
      BY <1>2, <1>7 DEF Accepted, nodeVars
    <2> QED BY <1>1, <1>3, <1>4, <1>7, <2>1, StaysAccepted DEF w
  <1>8. Begun(s)' => Begun(s)
    BY <1>2, <1>4, ServesFrames DEF Begun, Has, AtNode, dbVars, nodeVars
  <1>9. CreateOf(s)'
    BY <1>2, <1>6, <1>7, <1>8 DEF IInv, Creates, CreateOf, nodeVars
  <1> QED BY <1>4, <1>5, <1>9, ServesKeeps

\* What an acknowledgement covers was committed.
LEMMA PrunedIsLogged ==
  ASSUME IInv, NEW s \in Sessions, NEW n \in Nat, toNode # <<>>, toNode[1] = Ack(s, n),
         NEW e \in mem.spool \ Pruned(s, n)
  PROVE  Logged(e)
  <1>1. e.session = s /\ e.seq <= n
    BY DEF Pruned, IInv, TypeOK, NodeState, Event
  <1>2. 1 \in 1..Len(toNode)
    BY NodeRead DEF IInv
  <1>3. ~ \E j \in 1..1 - 1 : toNode[j] = Error
    OBVIOUS
  <1> QED BY <1>1, <1>2, <1>3 DEF IInv, Acks

LEMMA TakeAckKeeps ==
  ASSUME IInv, TakeAck
  PROVE  IInv'
  <1>1. PICK s \in Sessions, n \in Nat : /\ toNode # <<>> /\ toNode[1] = Ack(s, n)
                                         /\ mem' = [mem EXCEPT !.spool = Pruned(s, n)]
    <2>1. Head(toNode) = toNode[1] /\ toNode[1] \in ToNodeFrame
      BY NodeRead DEF TakeAck, NodeReads, IInv
    <2>2. /\ Head(toNode).session \in Sessions /\ Head(toNode).seq \in Nat
          /\ toNode[1] = Ack(Head(toNode).session, Head(toNode).seq)
      BY <2>1, FrameKinds DEF TakeAck, NodeReads
    <2> QED BY <2>1, <2>2 DEF TakeAck, NodeReads
  <1>2. /\ AtNode /\ connected /\ syncing /\ busy = {} /\ UNCHANGED <<todo, toGw, epoch, nextId, emits>>
        /\ toNode[1] # Error
        /\ \/ disk' = mem' /\ toNode' = Tail(toNode) /\ UNCHANGED <<connected, unsent, syncing, busy>>
           \/ HangUp /\ disk' = disk
    <2>1. toNode[1] # Error
      BY <1>1 DEF Ack, Error
    <2> QED BY <2>1 DEF TakeAck, NodeReads, Looping, AtNode
  <1>3. mem' \in NodeState /\ mem'.seq = mem.seq /\ mem'.journal = mem.journal /\ mem'.spool = Pruned(s, n)
    BY <1>1 DEF IInv, TypeOK, NodeState, Pruned
  <1>4. Pruned(s, n) \subseteq mem.spool
    BY DEF Pruned
  <1>5. Serves(s)
    <2>1. faults' \in Nat
      BY Faulty DEF TakeAck, IInv
    <2>2. GoesOn(s) \/ (HangUp /\ toGw' = toGw)
      BY <1>1, <1>2 DEF GoesOn
    <2>3. Has(s) => Has(s)'
      BY <1>3 DEF Has
    <2> QED BY <1>2, <1>3, <1>4, <2>1, <2>2, <2>3 DEF Serves
  <1>6. DiskInMem'
    <2>1. \A e \in mem.spool \ mem'.spool : Logged(e)
      BY <1>1, <1>3, PrunedIsLogged
    <2>2. \A e \in disk'.spool \ mem'.spool : Logged(e)
      BY <1>2, <2>1 DEF IInv, DiskInMem
    <2> QED BY <1>2, <2>2, NodeLedger DEF DiskInMem
  <1>7. CreateOf(s)'
    <2>1. Begun(s)' => Begun(s)
      BY <1>2, <1>3, <1>4, <1>5, ServesFrames DEF Begun, Has, AtNode, dbVars
    <2>2. \A f : InGw(f)' <=> InGw(f)
      BY <1>2 DEF InGw
    <2>3. Quiet(s)
      BY <1>2, <1>3, <1>5, <2>1, <2>2, ServesFrames
         DEF Quiet, peerVars, IInv, Creates, CreateOf, AtNode, dbVars, HangUp
    <2> QED BY <2>3, QuietCreateOf DEF IInv
  <1> QED BY <1>5, <1>6, <1>7, ServesKeeps

-----------------------------------------------------------------------------
(* A new event. *)

NewEvent(s, kind) == [session |-> s, kind |-> kind, seq |-> mem.seq[s] + 1, id |-> nextId]

\* Event e is numbered and saved, or lost with the connection.
Emits(s, e) ==
  /\ AtNode /\ connected /\ syncing /\ Has(s)
  /\ mem' \in NodeState /\ mem'.journal = mem.journal
  /\ mem'.seq = [mem.seq EXCEPT ![s] = @ + 1] /\ mem'.spool = mem.spool \cup {e}
  /\ nextId' = nextId + 1 /\ disk' \in {mem', disk}
  /\ epoch' = epoch /\ emits' \in Nat /\ faults' \in Nat /\ todo' \subseteq todo
  /\ \/ toGw' = Sent(Source(e)) /\ UNCHANGED <<connected, unsent, syncing, busy, toNode>>
     \/ HangUp /\ toGw' = toGw

\* The Node's state with a new event.
LEMMA SpoolAdd ==
  ASSUME mem \in NodeState, NEW s \in Sessions, NEW e \in Event
  PROVE  LET m == [mem EXCEPT !.seq[s] = @ + 1, !.spool = @ \cup {e}]
         IN  /\ m \in NodeState /\ m.journal = mem.journal
             /\ m.seq = [mem.seq EXCEPT ![s] = @ + 1] /\ m.spool = mem.spool \cup {e}
  <1> DEFINE m == [mem EXCEPT !.seq[s] = @ + 1, !.spool = @ \cup {e}]
             n == [mem EXCEPT !.seq[s] = @ + 1]
             q == [mem.seq EXCEPT ![s] = @ + 1]
  <1>1. q \in [Sessions -> Nat] /\ mem.journal \in [Sessions -> JournalStates] /\ mem.spool \cup {e} \in SUBSET Event
    BY DEF NodeState
  <1>2. mem = [journal |-> mem.journal, seq |-> mem.seq, spool |-> mem.spool]
    BY DEF NodeState
  <1>3. n = [mem EXCEPT !.seq = q] /\ m = [n EXCEPT !.spool = mem.spool \cup {e}]
    BY <1>2
  <1>4. n = [journal |-> mem.journal, seq |-> q, spool |-> mem.spool]
    BY <1>2, <1>3
  <1> HIDE DEF m, n, q
  <1>5. m = [journal |-> mem.journal, seq |-> q, spool |-> mem.spool \cup {e}]
    BY <1>3, <1>4
  <1>6. m \in NodeState
    BY <1>1, <1>5 DEF NodeState
  <1> QED BY <1>5, <1>6 DEF m, q

LEMMA EmitEmits ==
  ASSUME IInv, NEW s \in Sessions, NEW kind \in {"state", "content"}, Emit(s, kind),
         AtNode, connected, syncing, Has(s), epoch' = epoch, emits' \in Nat, todo' \subseteq todo
  PROVE  \E e \in Event : e = NewEvent(s, kind) /\ Emits(s, e)
  <1> DEFINE e == NewEvent(s, kind)
             m == [mem EXCEPT !.seq[s] = @ + 1, !.spool = @ \cup {e}]
  <1>1. e \in Event
    BY DEF NewEvent, Event, IInv, TypeOK, NodeState
  <1>2. SaveAndSend(m, Source(e), busy, toNode) /\ nextId' = nextId + 1
    BY DEF Emit, NewEvent
  <1> HIDE DEF e
  <1>3. /\ m \in NodeState /\ m.journal = mem.journal
        /\ m.seq = [mem.seq EXCEPT ![s] = @ + 1] /\ m.spool = mem.spool \cup {e}
    BY <1>1, SpoolAdd DEF IInv, TypeOK
  <1> HIDE DEF m
  <1>4. /\ mem' = m /\ disk' \in {m, disk}
        /\ \/ toGw' = Sent(Source(e)) /\ UNCHANGED <<connected, unsent, syncing, busy, toNode>>
           \/ HangUp /\ toGw' = toGw
    BY <1>2 DEF SaveAndSend
  <1>5. faults' \in Nat
    BY <1>2, Faulty DEF SaveAndSend, SendFails, IInv
  <1>6. Emits(s, e)
    BY <1>2, <1>3, <1>4, <1>5 DEF Emits
  <1> QED BY <1>1, <1>6 DEF e

\* A greater identity with a greater number keeps the order.
LEMMA InOrderAdd ==
  ASSUME NEW S \in SUBSET Event, NEW e \in Event, InOrder(S),
         \A x \in S : x.id < e.id /\ (x.session = e.session => x.seq < e.seq)
  PROVE  InOrder(S \cup {e})
  <1>1. \A x \in S \cup {e} : x.id \in Nat /\ x.seq \in Nat
    BY DEF Event
  <1> SUFFICES ASSUME NEW x \in S \cup {e}, NEW y \in S \cup {e}, x.session = y.session
               PROVE  x.id < y.id <=> x.seq < y.seq
    BY DEF InOrder
  <1>2. CASE x \in S /\ y \in S
    BY <1>2 DEF InOrder
  <1>3. CASE x \in S /\ y = e
    BY <1>3
  <1>4. CASE x = e /\ y \in S
    <2>1. y.id < e.id /\ y.seq < e.seq
      BY <1>4
    <2>2. ~(e.id < y.id) /\ ~(e.seq < y.seq)
      BY <1>1, <2>1
    <2> QED BY <1>4, <2>2
  <1>5. CASE x = e /\ y = e
    BY <1>1, <1>5
  <1> QED BY <1>2, <1>3, <1>4, <1>5

\* The frames and the places of a new event.
LEMMA EmitsFrames ==
  ASSUME IInv, NEW s \in Sessions, NEW e \in Event, e.session = s, Emits(s, e)
  PROVE  /\ toGw' \in Seq(ToGwFrame) /\ Sources' \subseteq Sources \cup {e}
         /\ \A t, w : InGw(Status(t, w))' => InGw(Status(t, w))
         /\ \A f : InNode(f)' => InNode(f)
         /\ toNode' = toNode \/ HangUp
         /\ ~registered => toGw' = toGw
  <1>1. toNode' = toNode \/ HangUp
    BY DEF Emits
  <1>2. \A f : InNode(f)' => InNode(f)
    BY <1>1, NoFrames DEF InNode
  <1>3. CASE toGw' = toGw
    BY <1>1, <1>2, <1>3 DEF Sources, InGw, IInv, TypeOK
  <1>4. CASE toGw' = Sent(Source(e))
    <2>1. Source(e) \in ToGwFrame /\ (\A t, w : Status(t, w) # Source(e)) /\ (\A x : Source(x) = Source(e) => x = e)
      BY DEF Source, Status, ToGwFrame
    <2>2. /\ toGw' \in Seq(ToGwFrame)
          /\ toGw' = IF registered THEN Append(toGw, Source(e)) ELSE toGw
          /\ \A g : InGw(g)' => InGw(g) \/ g = Source(e)
      BY <1>4, <2>1, SentFacts DEF IInv
    <2>3. Sources' \subseteq Sources \cup {e}
      BY <2>1, <2>2 DEF Sources
    <2> QED BY <1>1, <1>2, <2>1, <2>2, <2>3
  <1> QED BY <1>3, <1>4 DEF Emits

LEMMA EmitsNumbers ==
  ASSUME IInv, NEW s \in Sessions, NEW e \in Event, e.session = s, e.seq = mem.seq[s] + 1, e.id = nextId,
         Emits(s, e)
  PROVE  Numbered'
  <1>1. /\ mem.seq \in [Sessions -> Nat] /\ nextId \in Nat /\ nextId' = nextId + 1
        /\ mem'.seq = [mem.seq EXCEPT ![s] = @ + 1] /\ mem'.spool = mem.spool \cup {e}
        /\ disk' \in {mem', disk} /\ connected /\ receipts' = receipts
    BY DEF Emits, IInv, TypeOK, NodeState, AtNode, dbVars
  <1>2. OnLine \subseteq Events /\ Events \subseteq Event
    BY DEF OnLine, Events, Sources, IInv, TypeOK, NodeState
  <1>3. Events' \subseteq Events \cup {e} /\ OnLine' \subseteq OnLine \cup {e} /\ mem'.spool \subseteq OnLine \cup {e}
    <2>1. Sources' \subseteq Sources \cup {e}
      BY EmitsFrames
    <2> QED BY <1>1, <2>1 DEF Events, OnLine
  <1>4. \A x \in Events : x.id < nextId /\ x.id \in Nat
    BY <1>2 DEF IInv, Numbered, Event
  <1>5. \A x \in OnLine : x.seq <= mem.seq[x.session] /\ x.seq \in Nat /\ x.session \in Sessions
    BY <1>2 DEF IInv, Numbered, Event
  <1>6. \A x, y \in Events' : x.id = y.id => x = y
    <2>1. \A x \in Events : x.id # e.id
      BY <1>1, <1>4
    <2> QED BY <1>3, <2>1 DEF IInv, Numbered
  <1>7. \A x \in Events' : x.id < nextId'
    BY <1>1, <1>3, <1>4
  <1>8. \A x \in OnLine \cup {e} : x.seq <= mem'.seq[x.session]
    BY <1>1, <1>5
  <1>9. InOrder(OnLine \cup {e})
    <2>1. \A x \in OnLine : x.id < e.id /\ (x.session = e.session => x.seq < e.seq)
      BY <1>1, <1>2, <1>4, <1>5
    <2>2. OnLine \in SUBSET Event /\ InOrder(OnLine)
      BY <1>2 DEF IInv, Numbered
    <2> QED BY <2>1, <2>2, InOrderAdd
  <1>10. InOrder(OnLine') /\ InOrder(mem'.spool)
    BY <1>3, <1>9, Subsets
  <1>11. InOrder(disk'.spool) /\ \A x \in disk'.spool : x.seq <= disk'.seq[x.session]
    <2>1. CASE disk' = mem'
      BY <1>3, <1>8, <1>10, <2>1
    <2>2. CASE disk' = disk
      BY <2>2 DEF IInv, Numbered
    <2> QED BY <1>1, <2>1, <2>2
  <1>12. InOrder(OnLine)' /\ InOrder(disk.spool)'
    BY <1>10, <1>11 DEF InOrder
  <1> QED BY <1>3, <1>6, <1>7, <1>8, <1>11, <1>12 DEF Numbered

LEMMA EmitsArriving ==
  ASSUME IInv, NEW s \in Sessions, NEW e \in Event, e.session = s, e.seq = mem.seq[s] + 1,
         Emits(s, e), toGw' = Sent(Source(e)), UNCHANGED <<connected, unsent, toNode>>
  PROVE  Arriving'
  <1> SUFFICES ASSUME registered
               PROVE  /\ \A x \in mem'.spool \ unsent' : Underway(x)'
                      /\ \A i \in 1..Len(toGw') : \A f \in Event : toGw'[i] = Source(f) =>
                           \A x \in mem'.spool : x.session = f.session /\ x.seq < f.seq => SentBefore(i, x)'
    BY DEF Arriving, Emits, AtNode, peerVars
  <1>1. /\ Len(toGw) \in Nat /\ Len(toGw') = Len(toGw) + 1
        /\ \A k \in 1..Len(toGw) : toGw'[k] = toGw[k]
        /\ toGw'[Len(toGw')] = Source(e)
        /\ \A g : InGw(g)' <=> InGw(g) \/ g = Source(e)
    <2>1. Source(e) \in ToGwFrame
      BY DEF Source, ToGwFrame
    <2> QED BY <2>1, GwSend DEF IInv, Sent
  <1>2. AtNode /\ connected /\ unsent = {} /\ mem'.spool = mem.spool \cup {e}
    BY DEF Emits, IInv, Control
  <1>3. \A x : (Logged(x)' <=> Logged(x)) /\ (InNode(x)' <=> InNode(x))
    BY <1>2, NodeLedger DEF InNode
  <1>4. \A x \in mem.spool : Underway(x)
    BY <1>2 DEF IInv, Arriving
  <1>5. \A x \in mem'.spool \ unsent' : Underway(x)'
    BY <1>1, <1>2, <1>3, <1>4 DEF Underway
  <1>6. ASSUME NEW i \in 1..Len(toGw'), NEW f \in Event, toGw'[i] = Source(f),
               NEW x \in mem'.spool, x.session = f.session, x.seq < f.seq
        PROVE  SentBefore(i, x)'
    <2>1. CASE i \in 1..Len(toGw)
      <3>1. toGw[i] = Source(f)
        BY <1>1, <1>6, <2>1
      <3>2. f \in OnLine
        BY <1>2, <2>1, <3>1 DEF OnLine, Sources, InGw
      <3>3. x # e
        BY <1>6, <3>2 DEF IInv, Numbered, TypeOK, NodeState, Event
      <3>4. SentBefore(i, x)
        BY <1>2, <1>6, <2>1, <3>1, <3>3 DEF IInv, Arriving
      <3> QED BY <1>1, <1>3, <2>1, <3>4 DEF SentBefore
    <2>2. CASE i = Len(toGw')
      <3>1. f = e
        BY <1>1, <1>6, <2>2 DEF Source
      <3>2. x \in mem.spool
        BY <1>2, <1>6, <3>1 DEF Event
      <3>3. Underway(x)
        BY <1>4, <3>2
      <3> QED BY <1>1, <1>3, <2>2, <3>3 DEF Underway, SentBefore, InGw
    <2> QED BY <1>1, <2>1, <2>2
  <1> QED BY <1>5, <1>6

LEMMA EmitsAcks ==
  ASSUME IInv, NEW s \in Sessions, NEW e \in Event, e.session = s, e.seq = mem.seq[s] + 1,
         Emits(s, e), toNode' = toNode
  PROVE  Acks'
  <1> SUFFICES ASSUME NEW i \in 1..Len(toNode), NEW t \in Sessions, NEW n \in Nat, toNode[i] = Ack(t, n)
               PROVE  /\ n <= mem'.seq[t] /\ n <= lastSource'[t]
                      /\ \/ \E j \in 1..i - 1 : toNode'[j] = Error
                         \/ \A x \in mem'.spool : x.session = t /\ x.seq <= n => Logged(x)'
    BY DEF Acks
  <1>1. /\ mem.seq \in [Sessions -> Nat] /\ mem'.seq = [mem.seq EXCEPT ![s] = @ + 1]
        /\ mem'.spool = mem.spool \cup {e} /\ lastSource' = lastSource /\ AtNode
    BY DEF Emits, IInv, TypeOK, NodeState, AtNode, dbVars
  <1>2. /\ n <= mem.seq[t] /\ n <= lastSource[t]
        /\ \/ \E j \in 1..i - 1 : toNode[j] = Error
           \/ \A x \in mem.spool : x.session = t /\ x.seq <= n => Logged(x)
    BY DEF IInv, Acks
  <1>3. n <= mem'.seq[t] /\ ~(e.session = t /\ e.seq <= n)
    BY <1>1, <1>2
  <1> QED BY <1>1, <1>2, <1>3, NodeLedger

LEMMA EmitsKeeps ==
  ASSUME IInv, NEW s \in Sessions, NEW e \in Event, e.session = s, e.seq = mem.seq[s] + 1, e.id = nextId,
         Emits(s, e)
  PROVE  IInv'
  <1>1. TypeOK'
    <2>1. /\ connected' \in BOOLEAN /\ syncing' \in BOOLEAN
          /\ unsent' \subseteq Event /\ busy' \subseteq Sessions /\ toNode' \in Seq(ToNodeFrame)
      BY NoFrames DEF Emits, IInv, TypeOK
    <2>2. disk' \in NodeState /\ nextId' \in Nat
      BY DEF Emits, IInv, TypeOK
    <2> QED BY <2>1, <2>2, EmitsFrames DEF IInv, TypeOK, Emits, AtNode, dbVars, peerVars
  <1>2. Ledger' /\ \A x : Logged(x)' <=> Logged(x)
    BY NodeLedger DEF Emits
  <1>3. Numbered'
    BY EmitsNumbers
  <1>4. DiskInMem'
    BY <1>2 DEF Emits, IInv, DiskInMem
  <1>5. Fence'
    <2>1. ~(e.id < mark)
      BY DEF IInv, Control, TypeOK
    <2> QED BY <2>1, NodeFence DEF Emits
  <1>6. Creates'
    <2>1. ASSUME NEW t \in Sessions PROVE Quiet(t)
      <3>1. /\ mem'.journal = mem.journal /\ disk'.journal \in {disk.journal, mem.journal}
            /\ op' = op /\ log' = log /\ busy' \subseteq busy /\ unasked' = unasked
        BY DEF Emits, AtNode, dbVars, peerVars, HangUp
      <3>2. Begun(t)' => Begun(t)
        <4>1. mem'.spool \cup disk'.spool \cup Sources' \subseteq mem.spool \cup disk.spool \cup Sources \cup {e}
          BY EmitsFrames DEF Emits
        <4>2. e.session = t => Has(t)
          BY DEF Emits
        <4> QED BY <3>1, <4>1, <4>2 DEF Begun, Has
      <3>3. CASE toNode' = toNode
        BY <3>1, <3>2, <3>3, EmitsFrames DEF Quiet, peerVars, IInv, Creates, CreateOf
      <3>4. CASE HangUp
        BY <3>1, <3>2, <3>4, NoFrames, EmitsFrames DEF Quiet, peerVars
      <3> QED BY <3>3, <3>4, EmitsFrames
    <2> QED BY <2>1, QuietCreates DEF IInv
  <1>7. CASE toGw' = Sent(Source(e)) /\ UNCHANGED <<connected, unsent, syncing, busy, toNode>>
    <2>1. Arriving' /\ Acks'
      BY <1>7, EmitsArriving, EmitsAcks
    <2>2. Control'
      <3>1. \A t : Has(t)' <=> Has(t)
        BY DEF Emits, Has
      <3>2. (~registered' => toGw' = <<>> /\ ~ready') /\ mark' <= nextId'
        <4>1. mark \in Nat /\ nextId \in Nat /\ mark <= nextId /\ mark' = mark /\ nextId' = nextId + 1
          BY DEF IInv, Control, TypeOK, Emits, AtNode
        <4>2. ~registered' => toGw' = <<>> /\ ~ready'
          BY EmitsFrames DEF IInv, Control, Emits, AtNode, peerVars
        <4> QED BY <4>1, <4>2
      <3>3. todo' \subseteq todo /\ connected /\ syncing /\ mem'.spool = mem.spool \cup {e}
        BY DEF Emits
      <3> QED BY <1>7, <3>1, <3>2, <3>3 DEF IInv, Control
    <2> QED BY <1>1, <1>2, <1>3, <1>4, <1>5, <1>6, <2>1, <2>2 DEF IInv
  <1>8. CASE HangUp /\ toGw' = toGw
    <2>1. nextId' \in Nat /\ nextId <= nextId'
      BY DEF Emits, IInv, TypeOK
    <2>2. Control' /\ Arriving' /\ Acks'
      BY <1>8, <2>1, HungUp DEF Emits
    <2> QED BY <1>1, <1>2, <1>3, <1>4, <1>5, <1>6, <2>2 DEF IInv
  <1> QED BY <1>7, <1>8 DEF Emits

LEMMA SyncKeeps ==
  ASSUME IInv, NEW s \in Sessions, Sync(s)
  PROVE  IInv'
  <1>1. /\ AtNode /\ connected /\ s \in todo /\ Emit(s, "state") /\ todo' \subseteq todo
        /\ UNCHANGED <<epoch, emits>>
    BY DEF Sync, AtNode
  <1>2. syncing /\ Has(s)
    BY <1>1 DEF IInv, Control
  <1>3. PICK e \in Event : e = NewEvent(s, "state") /\ Emits(s, e)
    BY <1>1, <1>2, EmitEmits DEF IInv, TypeOK
  <1> QED BY <1>3, EmitsKeeps DEF NewEvent

LEMMA WorkKeeps ==
  ASSUME IInv, NEW s \in Sessions, Work(s)
  PROVE  IInv'
  <1>1. PICK kind \in {"state", "content"} : Emit(s, kind)
    BY DEF Work
  <1>2. AtNode /\ connected /\ syncing /\ Has(s) /\ epoch' = epoch /\ emits' \in Nat /\ todo' \subseteq todo
    BY DEF Work, AtNode, Looping, IInv, TypeOK
  <1>3. PICK e \in Event : e = NewEvent(s, kind) /\ Emits(s, e)
    BY <1>1, <1>2, EmitEmits
  <1> QED BY <1>3, EmitsKeeps DEF NewEvent

-----------------------------------------------------------------------------
(* Theorems. *)

LEMMA InitInv ==
  ASSUME Init
  PROVE  IInv
  <1> USE DEF Init, EmptyState
  <1>1. TypeOK
    <2>1. mem \in NodeState /\ disk \in NodeState
      BY DEF NodeState, JournalStates
    <2>2. <<>> \in Seq(Nat) /\ <<>> \in Seq(ToGwFrame) /\ <<>> \in Seq(ToNodeFrame)
      OBVIOUS
    <2> QED BY <2>1, <2>2 DEF TypeOK
  <1>2. \A f : ~InGw(f) /\ ~InNode(f)
    BY DEF InGw, InNode
  <1>3. Sources = {} /\ Events = {} /\ OnLine = {}
    BY <1>2 DEF Sources, Events, OnLine
  <1>4. Control /\ Numbered /\ Ledger /\ DiskInMem /\ Fence /\ Arriving /\ Acks
    BY <1>3 DEF Control, Numbered, InOrder, Ledger, DiskInMem, Fence, Arriving, Acks
  <1>5. Creates
    BY <1>2, <1>3 DEF Creates, CreateOf, Begun, Has
  <1> QED BY <1>1, <1>4, <1>5 DEF IInv

LEMMA NextKeeps ==
  ASSUME IInv, [Next]_vars
  PROVE  IInv'
  <1>1. CASE UNCHANGED vars
    BY <1>1 DEF vars, dbVars, peerVars, nodeVars, envVars, IInv, TypeOK, Control, Numbered, InOrder, Events,
       OnLine, Sources, Ledger, Logged, DiskInMem, Creates, CreateOf, Accepted, Begun, Has, Fence, Arriving,
       Underway, SentBefore, Acks, InGw, InNode
  <1>2. CASE Connect \/ PeerGone \/ PeerLost
    BY <1>2, ConnectKeeps, PeerGoneKeeps, PeerLostKeeps
  <1>3. CASE DatabaseError \/ TakeInventory \/ Commit \/ Repeat \/ Conflict \/ TakeReport \/ RefuseReport
    BY <1>3, DatabaseErrorKeeps, TakeInventoryKeeps, CommitKeeps, RepeatKeeps, ConflictKeeps,
       TakeReportKeeps, RefuseReportKeeps
  <1>4. CASE Replay \/ BeginSync \/ TakeCreate \/ AnswerQuery \/ TakeAck \/ ReadError
    BY <1>4, ReplayKeeps, BeginSyncKeeps, TakeCreateKeeps, AnswerQueryKeeps, TakeAckKeeps, ReadErrorKeeps
  <1>5. CASE NodeHangsUp \/ NodeRestart
    BY <1>5, NodeHangsUpKeeps, NodeRestartKeeps
  <1>6. ASSUME NEW s \in Sessions,
               Admit(s) \/ TickAsks(s) \/ Sync(s) \/ Work(s) \/ RejectCreate(s) \/ StartSession(s) \/ ConfirmCreate(s)
        PROVE  IInv'
    BY <1>6, AdmitKeeps, TickAsksKeeps, SyncKeeps, WorkKeeps, RejectCreateKeeps, StartSessionKeeps, ConfirmCreateKeeps
  <1> QED BY <1>1, <1>2, <1>3, <1>4, <1>5, <1>6 DEF Next

\* The invariant holds throughout, with any number of sessions, connections and faults,
\* whether or not saves fail; the types are part of it.
THEOREM Invariant == Spec => []IInv
  <1>1. Init => IInv
    BY InitInv
  <1>2. IInv /\ [Next]_vars => IInv'
    BY NextKeeps
  <1> QED BY <1>1, <1>2, PTL DEF Spec

\* Every variable keeps its type.
THEOREM TypesKept == Spec => []TypeOK
  <1>1. IInv => TypeOK
    BY DEF IInv
  <1> QED BY <1>1, Invariant, PTL

\* A create the Gateway records as failed never became a session and sent nothing: the
\* journal's refusals and the release of the fence (acknowledge, releaseUnstartedSync).
THEOREM FailedIsBlank == Spec => []FailedNeverStarted
  <1>1. IInv => FailedNeverStarted
    BY DEF IInv, Creates, CreateOf, Accepted, Begun, FailedNeverStarted
  <1> QED BY <1>1, Invariant, PTL

\* When nodeReady opens remote control, every session the Node had events of has reported,
\* but for those socket() lost when it read the fence.
THEOREM FenceHolds == Spec => []ReadyMeansReported
  <1>1. IInv => ReadyMeansReported
    BY DEF IInv, Fence, ReadyMeansReported
  <1> QED BY <1>1, Invariant, PTL

\* What a step of the Node does to the spool on disk.
LEMMA DropsOnlyCommitted ==
  ASSUME IInv, [Next]_vars, NEW e \in disk.spool \ disk'.spool
  PROVE  Logged(e)
  <1>1. CASE disk' = disk
    BY <1>1
  <1>2. CASE disk' # disk /\ mem.spool \subseteq disk'.spool
    BY <1>2 DEF IInv, DiskInMem
  <1>3. CASE TakeAck
    <2>1. PICK s \in Sessions, n \in Nat : /\ toNode # <<>> /\ toNode[1] = Ack(s, n)
                                           /\ mem' = [mem EXCEPT !.spool = Pruned(s, n)]
      <3>1. Head(toNode) = toNode[1] /\ toNode[1] \in ToNodeFrame
        BY <1>3, NodeRead DEF TakeAck, NodeReads, IInv
      <3>2. /\ Head(toNode).session \in Sessions /\ Head(toNode).seq \in Nat
            /\ toNode[1] = Ack(Head(toNode).session, Head(toNode).seq)
        BY <1>3, <3>1, FrameKinds DEF TakeAck, NodeReads
      <3> QED BY <1>3, <3>1, <3>2 DEF TakeAck, NodeReads
    <2>2. disk' = mem' /\ mem'.spool = Pruned(s, n)
      BY <1>3, <2>1 DEF TakeAck, IInv, TypeOK, NodeState
    <2>3. CASE e \in mem.spool
      BY <2>1, <2>2, <2>3, PrunedIsLogged
    <2>4. CASE e \notin mem.spool
      BY <2>4 DEF IInv, DiskInMem
    <2> QED BY <2>3, <2>4
  <1>4. CASE NodeRestart
    BY <1>4 DEF NodeRestart, Reloaded, IInv, TypeOK, NodeState
  <1>0. mem \in NodeState /\ mem = [journal |-> mem.journal, seq |-> mem.seq, spool |-> mem.spool]
    BY DEF IInv, TypeOK, NodeState
  <1>5. ASSUME NEW s \in Sessions, NEW kind \in {"state", "content"}, Emit(s, kind)
        PROVE  disk' = disk \/ mem.spool \subseteq disk'.spool
    <2> DEFINE new == NewEvent(s, kind)
               m == [mem EXCEPT !.seq[s] = @ + 1, !.spool = @ \cup {new}]
    <2>1. new \in Event
      BY <1>0 DEF NewEvent, Event, IInv, TypeOK, NodeState
    <2>2. m.spool = mem.spool \cup {new}
      BY <1>0, <2>1, SpoolAdd
    <2>3. disk' = disk \/ disk' = m
      BY <1>5 DEF Emit, SaveAndSend, NewEvent
    <2> HIDE DEF m
    <2> QED BY <2>2, <2>3
  <1>6. ASSUME NEW s, NEW r, NEW work, NEW rest, Journal(s, r, work, rest)
        PROVE  disk' = disk \/ mem.spool \subseteq disk'.spool
    <2> DEFINE m == [mem EXCEPT !.journal[s] = r]
    <2>1. m.spool = mem.spool
      BY <1>0
    <2>2. disk' = disk \/ disk' = m
      BY <1>6 DEF Journal, SaveAndSend
    <2> HIDE DEF m
    <2> QED BY <2>1, <2>2
  <1>7. ASSUME NEW s \in Sessions, Sync(s) \/ Work(s) \/ RejectCreate(s) \/ StartSession(s) \/ ConfirmCreate(s)
        PROVE  disk' = disk \/ mem.spool \subseteq disk'.spool
    <2>1. CASE Sync(s) \/ Work(s)
      BY <1>5, <2>1 DEF Sync, Work
    <2>2. CASE RejectCreate(s)
      BY <1>6, <2>2 DEF RejectCreate
    <2>3. CASE ConfirmCreate(s)
      BY <1>6, <2>3 DEF ConfirmCreate
    <2>4. CASE StartSession(s)
      <3>1. mem'.spool = mem.spool
        BY <1>0, <2>4 DEF StartSession
      <3>2. disk' = disk \/ disk' = mem'
        BY <2>4 DEF StartSession
      <3> QED BY <3>1, <3>2
    <2> QED BY <1>7, <2>1, <2>2, <2>3, <2>4
  <1>8. ASSUME TakeCreate
        PROVE  disk' = disk \/ mem.spool \subseteq disk'.spool
    BY <1>6, <1>8 DEF TakeCreate
  <1>9. CASE \/ UNCHANGED vars \/ Connect \/ PeerGone \/ PeerLost
             \/ DatabaseError \/ TakeInventory \/ Commit \/ Repeat \/ Conflict \/ TakeReport \/ RefuseReport
             \/ Replay \/ BeginSync \/ AnswerQuery \/ ReadError \/ NodeHangsUp
             \/ \E s \in Sessions : Admit(s) \/ TickAsks(s)
    <2>1. disk' = disk
      BY <1>9 DEF vars, Connect, PeerGone, PeerLost, DatabaseError, AnswerError, TakeInventory, Commit, Repeat,
         Conflict, TakeReport, RefuseReport, Replay, BeginSync, AnswerQuery, ReadError, NodeHangsUp, Admit, TickAsks, nodeVars
    <2> QED BY <2>1
  <1> QED BY <1>1, <1>2, <1>3, <1>4, <1>7, <1>8, <1>9 DEF Next

\* The Node deletes from its disk only what the Gateway has committed, also when saves
\* fail and numbers are used twice (acknowledge of the fake node, section 9 of the design).
THEOREM DiskKeepsUncommitted == Spec => OnlyCommittedIsDropped
  <1>1. IInv /\ [Next]_vars => [\A e \in disk.spool \ disk'.spool : Logged(e)]_vars
    BY DropsOnlyCommitted
  <1> QED BY <1>1, Invariant, PTL DEF Spec, OnlyCommittedIsDropped

-----------------------------------------------------------------------------
(* While saves succeed, ingestion implements EventLog. *)

\* Between the log and the last number the spool has every event, and only one.
Gapless ==
  /\ disk = mem
  /\ \A s \in Sessions : lastSource[s] <= mem.seq[s]
  /\ \A s \in Sessions : \A k \in lastSource[s] + 1..mem.seq[s] :
       \E e \in mem.spool : e.session = s /\ e.seq = k
  /\ \A x, y \in mem.spool : x.session = y.session /\ x.seq = y.seq => x = y
  /\ \A e \in Sources : e \in mem.spool \/ e.seq <= lastSource[e.session]

\* Nothing is emitted or committed; what is dropped was committed.
Calm ==
  /\ log' = log /\ lastSource' = lastSource
  /\ mem'.seq = mem.seq /\ mem'.spool \subseteq mem.spool
  /\ \A e \in mem.spool \ mem'.spool : e.seq <= lastSource[e.session]
  /\ disk' = mem' /\ Sources' \subseteq Sources \cup mem.spool

\* Event e is committed.
Commits(e) ==
  /\ e \in Sources /\ e.seq = lastSource[e.session] + 1
  /\ log' = [log EXCEPT ![e.session] = Append(@, e.id)]
  /\ lastSource' = [lastSource EXCEPT ![e.session] = e.seq]
  /\ UNCHANGED <<mem, disk>> /\ Sources' \subseteq Sources

\* Event e of s is emitted and saved.
Adds(s, e) ==
  /\ e.session = s /\ e.seq = mem.seq[s] + 1 /\ e.id = nextId
  /\ mem'.seq = [mem.seq EXCEPT ![s] = @ + 1] /\ mem'.spool = mem.spool \cup {e}
  /\ log' = log /\ lastSource' = lastSource /\ disk' = mem'
  /\ Sources' \subseteq Sources \cup {e}

\* Only events of the spool get on their way to the Gateway.
LEMMA SourcesKept ==
  ASSUME IInv,
         \/ toGw' = toGw \/ toGw' = <<>> \/ toGw' = <<Inventory>>
         \/ toGw # <<>> /\ toGw' = Tail(toGw)
         \/ \E s \in Sessions, w \in Words : toGw' = Sent(Status(s, w))
         \/ \E e \in mem.spool : toGw' = Sent(Source(e))
  PROVE  Sources' \subseteq Sources \cup mem.spool
  <1>1. CASE toGw' = toGw
    BY <1>1 DEF Sources, InGw
  <1>2. CASE toGw' = <<>> \/ toGw' = <<Inventory>>
    <2>1. \A i \in 1..Len(toGw') : toGw'[i] = Inventory
      BY <1>2
    <2>2. \A e : Source(e) # Inventory
      BY DEF Source, Inventory
    <2> QED BY <2>1, <2>2 DEF Sources, InGw
  <1>3. CASE toGw # <<>> /\ toGw' = Tail(toGw)
    BY <1>3, GwRead DEF IInv
  <1>4. ASSUME NEW s \in Sessions, NEW w \in Words, toGw' = Sent(Status(s, w))
        PROVE  Sources' \subseteq Sources \cup mem.spool
    <2>1. Status(s, w) \in ToGwFrame /\ \A e : Source(e) # Status(s, w)
      BY DEF Source, Status, Words, ToGwFrame
    <2>2. \A g : InGw(g)' => InGw(g) \/ g = Status(s, w)
      BY <1>4, <2>1, SentFacts DEF IInv
    <2> QED BY <2>1, <2>2 DEF Sources
  <1>5. ASSUME NEW e \in mem.spool, toGw' = Sent(Source(e))
        PROVE  Sources' \subseteq Sources \cup mem.spool
    <2>1. Source(e) \in ToGwFrame /\ \A x : Source(x) = Source(e) => x = e
      BY DEF Source, ToGwFrame, IInv, TypeOK, NodeState
    <2>2. \A g : InGw(g)' => InGw(g) \/ g = Source(e)
      BY <1>5, <2>1, SentFacts DEF IInv
    <2> QED BY <2>1, <2>2 DEF Sources
  <1> QED BY <1>1, <1>2, <1>3, <1>4, <1>5

LEMMA CommitCommits ==
  ASSUME IInv, Commit
  PROVE  \E e \in Event : Commits(e)
  <1>1. PICK e, r : e = Head(toGw).event /\ Acknowledged(e, r)
    BY AcknowledgeReplies DEF Commit
  <1>2. /\ e.seq = lastSource[e.session] + 1
        /\ log' = [log EXCEPT ![e.session] = Append(@, e.id)]
        /\ lastSource' = [lastSource EXCEPT ![e.session] = e.seq]
        /\ UNCHANGED <<mem, disk>>
    BY <1>1 DEF Commit, IsNext, nodeVars
  <1>3. Sources' \subseteq Sources
    BY <1>1, GwRead DEF Acknowledged, GatewayReads, IInv
  <1> QED BY <1>1, <1>2, <1>3 DEF Acknowledged, Commits

LEMMA EmitAdds ==
  ASSUME IInv, DiskFaults = FALSE, NEW s \in Sessions, Sync(s) \/ Work(s)
  PROVE  \E e \in Event : Adds(s, e)
  <1>1. PICK kind \in {"state", "content"} : Emit(s, kind)
    BY DEF Sync, Work
  <1>2. /\ AtNode /\ connected /\ syncing /\ Has(s) /\ epoch' = epoch /\ emits' \in Nat /\ todo' \subseteq todo
    <2>1. CASE Sync(s)
      BY <2>1 DEF Sync, AtNode, IInv, Control, TypeOK
    <2>2. CASE Work(s)
      BY <2>2 DEF Work, AtNode, Looping, IInv, TypeOK
    <2> QED BY <2>1, <2>2
  <1>3. PICK e \in Event : e = NewEvent(s, kind) /\ Emits(s, e)
    BY <1>1, <1>2, EmitEmits
  <1>4. e.session = s /\ e.seq = mem.seq[s] + 1 /\ e.id = nextId
    BY <1>3 DEF NewEvent
  <1>5. disk' = mem'
    BY <1>1 DEF Emit, SaveAndSend
  <1>6. Sources' \subseteq Sources \cup {e}
    BY <1>3, <1>4, EmitsFrames
  <1> QED BY <1>3, <1>4, <1>5, <1>6 DEF Adds, Emits, AtNode, dbVars

LEMMA StepKinds ==
  ASSUME IInv, Gapless, DiskFaults = FALSE, [Next]_vars
  PROVE  \/ Calm
         \/ \E e \in Event : Commits(e)
         \/ \E s \in Sessions, e \in Event : Adds(s, e)
  <1>0. mem \in NodeState /\ disk = mem
    BY DEF IInv, TypeOK, Gapless
  <1>1. ASSUME NEW s, NEW r, mem' = [mem EXCEPT !.journal[s] = r]
        PROVE  mem'.seq = mem.seq /\ mem'.spool = mem.spool
    BY <1>0, <1>1 DEF NodeState
  <1>2. CASE UNCHANGED <<log, lastSource, mem, disk, toGw>>
    BY <1>0, <1>2, SourcesKept DEF Calm
  <1>3. CASE UNCHANGED vars \/ BeginSync \/ ReadError \/ NodeHangsUp \/ \E s \in Sessions : Admit(s) \/ TickAsks(s)
    BY <1>2, <1>3 DEF vars, dbVars, nodeVars, BeginSync, ReadError, NodeHangsUp, Admit, TickAsks
  <1>4. CASE Connect \/ PeerGone \/ PeerLost
    <2>1. UNCHANGED <<log, lastSource, mem, disk>> /\ (toGw' = <<>> \/ toGw' = <<Inventory>>)
      BY <1>4 DEF Connect, PeerGone, PeerLost, Unregister, dbVars, nodeVars
    <2> QED BY <1>0, <2>1, SourcesKept DEF Calm
  <1>5. CASE DatabaseError \/ TakeInventory \/ Repeat \/ Conflict \/ TakeReport \/ RefuseReport
    <2>1. UNCHANGED <<log, lastSource, mem, disk>> /\ toGw # <<>> /\ toGw' = Tail(toGw)
      BY <1>5 DEF DatabaseError, TakeInventory, Repeat, Conflict, TakeReport, RefuseReport, AnswerError,
         Reads, dbVars, nodeVars
    <2> QED BY <1>0, <2>1, SourcesKept DEF Calm
  <1>6. CASE Replay
    <2>1. UNCHANGED <<log, lastSource, mem, disk>> /\ (toGw' = toGw \/ \E e \in mem.spool : toGw' = Sent(Source(e)))
      BY <1>6 DEF Replay, dbVars, IInv, Control
    <2> QED BY <1>0, <2>1, SourcesKept DEF Calm
  <1>7. CASE AnswerQuery
    <2>1. /\ UNCHANGED <<log, lastSource, mem, disk>>
          /\ \E s \in Sessions, w \in Words : toGw' = Sent(Status(s, w))
      <3>1. Head(toNode) = toNode[1] /\ toNode[1] \in ToNodeFrame
        BY <1>7, NodeRead DEF AnswerQuery, NodeReads, IInv
      <3>2. Head(toNode).session \in Sessions
        BY <1>7, <3>1, FrameKinds DEF AnswerQuery, NodeReads
      <3>3. \A s \in Sessions : Reported(mem.journal[s]) \in Words
        BY <1>0 DEF Reported, Words, NodeState, JournalStates
      <3> QED BY <1>7, <3>2, <3>3 DEF AnswerQuery, dbVars, nodeVars
    <2> QED BY <1>0, <2>1, SourcesKept DEF Calm
  <1>8. ASSUME NEW s \in Sessions, NEW r \in {"delivered", "rejected", "confirmed"}, NEW work, NEW rest,
               Journal(s, r, work, rest), UNCHANGED <<log, lastSource>>
        PROVE  Calm
    <2>1. /\ mem' = [mem EXCEPT !.journal[s] = r] /\ disk' = mem'
          /\ toGw' = toGw \/ toGw' = Sent(Status(s, r))
      BY <1>8 DEF Journal, SaveAndSend
    <2>2. r \in Words
      BY DEF Words
    <2> QED BY <1>1, <1>8, <2>1, <2>2, SourcesKept DEF Calm
  <1>9. CASE TakeCreate
    <2>1. Head(toNode) = toNode[1] /\ toNode[1] \in ToNodeFrame
      BY <1>9, NodeRead DEF TakeCreate, NodeReads, IInv
    <2>2. Head(toNode).session \in Sessions
      BY <1>9, <2>1, FrameKinds DEF TakeCreate, NodeReads
    <2> QED BY <1>8, <1>9, <2>2 DEF TakeCreate, dbVars
  <1>10. CASE \E s \in Sessions : RejectCreate(s) \/ ConfirmCreate(s)
    BY <1>8, <1>10 DEF RejectCreate, ConfirmCreate, dbVars
  <1>11. ASSUME NEW s \in Sessions, StartSession(s) PROVE Calm
    <2>1. /\ mem' = [mem EXCEPT !.journal[s] = "executing"] /\ disk' = mem'
          /\ UNCHANGED <<log, lastSource, toGw>>
      BY <1>11 DEF StartSession, dbVars
    <2> QED BY <1>1, <2>1, SourcesKept DEF Calm
  <1>12. CASE TakeAck
    <2>1. PICK s \in Sessions, n \in Nat : /\ toNode # <<>> /\ toNode[1] = Ack(s, n)
                                           /\ mem' = [mem EXCEPT !.spool = Pruned(s, n)]
      <3>1. Head(toNode) = toNode[1] /\ toNode[1] \in ToNodeFrame
        BY <1>12, NodeRead DEF TakeAck, NodeReads, IInv
      <3>2. /\ Head(toNode).session \in Sessions /\ Head(toNode).seq \in Nat
            /\ toNode[1] = Ack(Head(toNode).session, Head(toNode).seq)
        BY <1>12, <3>1, FrameKinds DEF TakeAck, NodeReads
      <3> QED BY <1>12, <3>1, <3>2 DEF TakeAck, NodeReads
    <2>2. mem'.seq = mem.seq /\ mem'.spool = Pruned(s, n)
      BY <1>0, <2>1 DEF NodeState
    <2>3. disk' = mem' /\ UNCHANGED <<log, lastSource, toGw>>
      BY <1>12 DEF TakeAck, dbVars
    <2>4. n <= lastSource[s] /\ lastSource[s] \in Nat
      <3>1. 1 \in 1..Len(toNode)
        BY <2>1, NodeRead DEF IInv
      <3> QED BY <2>1, <3>1 DEF IInv, Acks, TypeOK
    <2>5. \A e \in mem.spool : e.seq \in Nat
      BY <1>0 DEF NodeState, Event
    <2>6. \A e \in mem.spool \ Pruned(s, n) : e.seq <= lastSource[e.session]
      BY <2>4, <2>5 DEF Pruned
    <2>7. Pruned(s, n) \subseteq mem.spool
      BY DEF Pruned
    <2> QED BY <2>2, <2>3, <2>6, <2>7, SourcesKept DEF Calm
  <1>13. CASE NodeRestart
    <2>1. mem' = Reloaded /\ disk' = Reloaded /\ UNCHANGED <<log, lastSource, toGw>>
      BY <1>13 DEF NodeRestart, dbVars
    <2>2. Reloaded.seq = mem.seq /\ Reloaded.spool = mem.spool
      BY <1>0 DEF Reloaded, NodeState
    <2> QED BY <2>1, <2>2, SourcesKept DEF Calm
  <1>14. CASE Commit
    BY <1>14, CommitCommits
  <1>15. CASE \E s \in Sessions : Sync(s) \/ Work(s)
    BY <1>15, EmitAdds
  <1> QED BY <1>3, <1>4, <1>5, <1>6, <1>7, <1>9, <1>10, <1>11, <1>12, <1>13, <1>14, <1>15 DEF Next

LEMMA GaplessKept ==
  ASSUME IInv, Gapless, DiskFaults = FALSE, [Next]_vars
  PROVE  Gapless'
  <1>0. /\ mem.spool \subseteq Event /\ mem.seq \in [Sessions -> Nat] /\ lastSource \in [Sessions -> Nat]
        /\ Sources \subseteq Event
    BY DEF IInv, TypeOK, NodeState, Sources
  <1>1. CASE Calm
    <2>1. \A s \in Sessions : \A k \in lastSource[s] + 1..mem.seq[s] :
            \E e \in mem'.spool : e.session = s /\ e.seq = k
      <3> TAKE s \in Sessions
      <3> TAKE k \in lastSource[s] + 1..mem.seq[s]
      <3>1. PICK e \in mem.spool : e.session = s /\ e.seq = k
        BY DEF Gapless
      <3>2. ~(e.seq <= lastSource[e.session])
        BY <1>0, <3>1
      <3> QED BY <1>1, <3>1, <3>2 DEF Calm
    <2>2. \A e \in Sources' : e \in mem'.spool \/ e.seq <= lastSource[e.session]
      BY <1>1 DEF Calm, Gapless
    <2> QED BY <1>1, <2>1, <2>2 DEF Calm, Gapless
  <1>2. ASSUME NEW e \in Event, Commits(e) PROVE Gapless'
    <2>1. /\ e.session \in Sessions /\ e.seq \in Nat
          /\ lastSource' = [lastSource EXCEPT ![e.session] = e.seq] /\ e.seq = lastSource[e.session] + 1
          /\ mem' = mem /\ disk' = disk /\ Sources' \subseteq Sources /\ e \in Sources
      BY <1>2 DEF Commits, Event
    <2>2. \A s \in Sessions : lastSource[s] <= lastSource'[s] /\ lastSource'[s] \in Nat
      BY <1>0, <2>1
    <2>3. e \in mem.spool
      BY <1>0, <2>1 DEF Gapless
    <2>4. e.seq <= mem.seq[e.session]
      BY <2>3 DEF IInv, Numbered, OnLine
    <2>5. \A s \in Sessions : lastSource'[s] <= mem.seq[s]
      BY <1>0, <2>1, <2>4 DEF Gapless
    <2>6. \A s \in Sessions : \A k \in lastSource'[s] + 1..mem.seq[s] : k \in lastSource[s] + 1..mem.seq[s]
      BY <1>0, <2>2
    <2>7. \A x \in Sources' : x \in mem.spool \/ x.seq <= lastSource'[x.session]
      <3> TAKE x \in Sources'
      <3>1. x \in Sources /\ x.session \in Sessions /\ x.seq \in Nat
        BY <1>0, <2>1 DEF Event
      <3>2. CASE x.seq <= lastSource[x.session]
        <4>1. lastSource[x.session] \in Nat /\ lastSource'[x.session] \in Nat
              /\ lastSource[x.session] <= lastSource'[x.session]
          BY <1>0, <2>2, <3>1
        <4> QED BY <3>1, <3>2, <4>1
      <3> QED BY <3>1, <3>2 DEF Gapless
    <2> QED BY <2>1, <2>5, <2>6, <2>7 DEF Gapless
  <1>3. ASSUME NEW s \in Sessions, NEW e \in Event, Adds(s, e) PROVE Gapless'
    <2>1. /\ e.session = s /\ e.seq = mem.seq[s] + 1
          /\ mem'.seq = [mem.seq EXCEPT ![s] = @ + 1] /\ mem'.spool = mem.spool \cup {e}
          /\ lastSource' = lastSource /\ disk' = mem' /\ Sources' \subseteq Sources \cup {e}
      BY <1>3 DEF Adds
    <2>2. \A t \in Sessions : lastSource[t] <= mem'.seq[t]
      BY <1>0, <2>1 DEF Gapless
    <2>3. \A t \in Sessions : \A k \in lastSource[t] + 1..mem'.seq[t] :
            \E x \in mem'.spool : x.session = t /\ x.seq = k
      <3> TAKE t \in Sessions
      <3> TAKE k \in lastSource[t] + 1..mem'.seq[t]
      <3>1. CASE t = s /\ k = mem.seq[s] + 1
        BY <2>1, <3>1
      <3>2. CASE ~(t = s /\ k = mem.seq[s] + 1)
        <4>1. k \in lastSource[t] + 1..mem.seq[t]
          BY <1>0, <2>1, <3>2
        <4> QED BY <2>1, <4>1 DEF Gapless
      <3> QED BY <3>1, <3>2
    <2>4. \A x \in mem.spool : x.session = s => x.seq # e.seq
      <3> TAKE x \in mem.spool
      <3>1. x.seq <= mem.seq[x.session] /\ x.seq \in Nat
        BY <1>0 DEF IInv, Numbered, OnLine, Event
      <3> QED BY <1>0, <2>1, <3>1
    <2>5. \A x, y \in mem'.spool : x.session = y.session /\ x.seq = y.seq => x = y
      BY <2>1, <2>4 DEF Gapless
    <2>6. \A x \in Sources' : x \in mem'.spool \/ x.seq <= lastSource[x.session]
      BY <2>1 DEF Gapless
    <2> QED BY <2>1, <2>2, <2>3, <2>5, <2>6 DEF Gapless
  <1> QED BY <1>1, <1>2, <1>3, StepKinds

\* The events emitted, read off a log l and a spool P that has the numbers up to n.
EmittedOn(s, l, n, P) ==
  l \o [i \in 1..(n - Len(l)) |-> (CHOOSE e \in P : e.session = s /\ e.seq = Len(l) + i).id]

\* E goes on from l up to the number n with the events of P.
Completes(E, s, l, n, P) ==
  /\ E \in Seq(Nat) /\ Len(E) = n
  /\ \A k \in 1..Len(l) : E[k] = l[k]
  /\ \A e \in P : e.session = s /\ e.seq \in Len(l) + 1..n => E[e.seq] = e.id

LEMMA EmittedValue ==
  ASSUME NEW s, NEW l \in Seq(Nat), NEW n \in Nat, NEW P \in SUBSET Event, Len(l) <= n,
         \A k \in Len(l) + 1..n : \E e \in P : e.session = s /\ e.seq = k,
         \A x, y \in P : x.session = y.session /\ x.seq = y.seq => x = y
  PROVE  Completes(EmittedOn(s, l, n, P), s, l, n, P)
  <1> DEFINE At(i) == CHOOSE e \in P : e.session = s /\ e.seq = Len(l) + i
             t == [i \in 1..(n - Len(l)) |-> At(i).id]
  <1>1. Len(l) \in Nat /\ n - Len(l) \in Nat
    BY LenProperties
  <1>2. ASSUME NEW i \in 1..(n - Len(l))
        PROVE  At(i) \in P /\ At(i).session = s /\ At(i).seq = Len(l) + i
    <2>1. Len(l) + i \in Len(l) + 1..n
      BY <1>1
    <2> QED BY <2>1
  <1> HIDE DEF At
  <1>3. \A i \in 1..(n - Len(l)) : At(i).id \in Nat
    BY <1>2 DEF Event
  <1>4. t \in Seq(Nat) /\ Len(t) = n - Len(l)
    BY <1>1, <1>3
  <1>5. \A i \in 1..(n - Len(l)) : t[i] = At(i).id
    OBVIOUS
  <1> HIDE DEF t
  <1>6. /\ l \o t \in Seq(Nat) /\ Len(l \o t) = n
        /\ \A k \in 1..n : (l \o t)[k] = IF k <= Len(l) THEN l[k] ELSE t[k - Len(l)]
    BY <1>1, <1>4, ConcatProperties
  <1>7. ASSUME NEW e \in P, e.session = s, e.seq \in Len(l) + 1..n PROVE (l \o t)[e.seq] = e.id
    <2> DEFINE i == e.seq - Len(l)
    <2>1. i \in 1..(n - Len(l)) /\ Len(l) + i = e.seq /\ e.seq \in 1..n /\ ~(e.seq <= Len(l))
      BY <1>1, <1>7
    <2>2. At(i) = e
      BY <1>2, <1>7, <2>1
    <2> QED BY <1>5, <1>6, <2>1, <2>2
  <1>8. \A k \in 1..Len(l) : (l \o t)[k] = l[k]
    BY <1>1, <1>6
  <1>9. EmittedOn(s, l, n, P) = l \o t
    BY DEF EmittedOn, t, At
  <1> QED BY <1>6, <1>7, <1>8, <1>9 DEF Completes

\* Emitted has a place for every number; E1 and E2 stand for it before and after a step.
LEMMA EmittedOf ==
  ASSUME IInv, Gapless, NEW s \in Sessions
  PROVE  /\ Emitted(s) \in Seq(Nat) /\ Len(Emitted(s)) = mem.seq[s] /\ mem.seq[s] \in Nat
         /\ Len(log[s]) = lastSource[s] /\ lastSource[s] \in Nat /\ lastSource[s] <= mem.seq[s]
         /\ \A k \in 1..lastSource[s] : Emitted(s)[k] = log[s][k]
         /\ \A e \in mem.spool : e.session = s /\ e.seq \in lastSource[s] + 1..mem.seq[s] => Emitted(s)[e.seq] = e.id
         /\ \A k \in lastSource[s] + 1..mem.seq[s] : \E e \in mem.spool : e.session = s /\ e.seq = k
         /\ \A k \in 1..mem.seq[s] : Emitted(s)[k] < nextId
  <1>1. /\ log[s] \in Seq(Nat) /\ mem.seq[s] \in Nat /\ mem.spool \in SUBSET Event /\ lastSource[s] \in Nat
        /\ Len(log[s]) = lastSource[s] /\ lastSource[s] <= mem.seq[s]
    BY DEF IInv, TypeOK, NodeState, Ledger, Gapless
  <1>2. /\ \A k \in lastSource[s] + 1..mem.seq[s] : \E e \in mem.spool : e.session = s /\ e.seq = k
        /\ \A x, y \in mem.spool : x.session = y.session /\ x.seq = y.seq => x = y
    BY DEF Gapless
  <1>3. /\ Emitted(s) \in Seq(Nat) /\ Len(Emitted(s)) = mem.seq[s]
        /\ \A k \in 1..Len(log[s]) : Emitted(s)[k] = log[s][k]
        /\ \A e \in mem.spool : e.session = s /\ e.seq \in Len(log[s]) + 1..mem.seq[s] => Emitted(s)[e.seq] = e.id
    <2>1. Emitted(s) = EmittedOn(s, log[s], mem.seq[s], mem.spool)
      BY DEF Emitted, EmittedOn
    <2>2. Len(log[s]) <= mem.seq[s] /\ \A k \in Len(log[s]) + 1..mem.seq[s] : \E e \in mem.spool : e.session = s /\ e.seq = k
      BY <1>1, <1>2
    <2>3. ASSUME NEW l \in Seq(Nat), NEW n \in Nat, NEW P \in SUBSET Event,
                 l = log[s], n = mem.seq[s], P = mem.spool
          PROVE  Completes(EmittedOn(s, l, n, P), s, l, n, P)
      <3>1. /\ Len(l) <= n
            /\ \A k \in Len(l) + 1..n : \E e \in P : e.session = s /\ e.seq = k
            /\ \A x, y \in P : x.session = y.session /\ x.seq = y.seq => x = y
        BY <1>2, <2>2, <2>3
      <3> QED BY <3>1, EmittedValue
    <2>4. Completes(Emitted(s), s, log[s], mem.seq[s], mem.spool)
      BY <1>1, <2>1, <2>3
    <2> QED BY <2>4 DEF Completes
  <1>4. ASSUME NEW k \in 1..mem.seq[s] PROVE Emitted(s)[k] < nextId
    <2>1. CASE k <= lastSource[s]
      <3>1. k \in 1..Len(log[s])
        BY <1>1, <2>1
      <3>2. PICK r \in receipts : r.id = log[s][k]
        BY <3>1 DEF IInv, Ledger
      <3> QED BY <1>3, <3>1, <3>2 DEF IInv, Numbered, Events
    <2>2. CASE ~(k <= lastSource[s])
      <3>1. PICK e \in mem.spool : e.session = s /\ e.seq = k
        BY <1>1, <1>2, <2>2
      <3>2. e.id < nextId
        BY DEF IInv, Numbered, Events
      <3> QED BY <1>1, <1>3, <2>2, <3>1, <3>2
    <2> QED BY <2>1, <2>2
  <1> QED BY <1>1, <1>2, <1>3, <1>4

LEMMA EmittedAfter ==
  ASSUME IInv', Gapless', NEW s \in Sessions
  PROVE  /\ Emitted(s)' \in Seq(Nat) /\ Len(Emitted(s)') = mem'.seq[s]
         /\ \A k \in 1..lastSource'[s] : Emitted(s)'[k] = log'[s][k]
         /\ \A e \in mem'.spool : e.session = s /\ e.seq \in lastSource'[s] + 1..mem'.seq[s] => Emitted(s)'[e.seq] = e.id
         /\ \A k \in lastSource'[s] + 1..mem'.seq[s] : \E e \in mem'.spool : e.session = s /\ e.seq = k
  <1>1. /\ log'[s] \in Seq(Nat) /\ mem'.seq[s] \in Nat /\ mem'.spool \in SUBSET Event /\ lastSource'[s] \in Nat
        /\ Len(log'[s]) = lastSource'[s] /\ lastSource'[s] <= mem'.seq[s]
    BY DEF IInv, TypeOK, NodeState, Ledger, Gapless
  <1>2. /\ \A k \in lastSource'[s] + 1..mem'.seq[s] : \E e \in mem'.spool : e.session = s /\ e.seq = k
        /\ \A x, y \in mem'.spool : x.session = y.session /\ x.seq = y.seq => x = y
    BY DEF Gapless
  <1>3. /\ Emitted(s)' \in Seq(Nat) /\ Len(Emitted(s)') = mem'.seq[s]
        /\ \A k \in 1..Len(log'[s]) : Emitted(s)'[k] = log'[s][k]
        /\ \A e \in mem'.spool : e.session = s /\ e.seq \in Len(log'[s]) + 1..mem'.seq[s] => Emitted(s)'[e.seq] = e.id
    <2>1. Emitted(s)' = EmittedOn(s, log'[s], mem'.seq[s], mem'.spool)
      BY DEF Emitted, EmittedOn
    <2>2. Len(log'[s]) <= mem'.seq[s] /\ \A k \in Len(log'[s]) + 1..mem'.seq[s] : \E e \in mem'.spool : e.session = s /\ e.seq = k
      BY <1>1, <1>2
    <2>3. ASSUME NEW l \in Seq(Nat), NEW n \in Nat, NEW P \in SUBSET Event,
                 l = log'[s], n = mem'.seq[s], P = mem'.spool
          PROVE  Completes(EmittedOn(s, l, n, P), s, l, n, P)
      <3>1. /\ Len(l) <= n
            /\ \A k \in Len(l) + 1..n : \E e \in P : e.session = s /\ e.seq = k
            /\ \A x, y \in P : x.session = y.session /\ x.seq = y.seq => x = y
        BY <1>2, <2>2, <2>3
      <3> QED BY <3>1, EmittedValue
    <2>4. Completes(Emitted(s)', s, log'[s], mem'.seq[s], mem'.spool)
      BY <1>1, <2>1, <2>3
    <2> QED BY <2>4 DEF Completes
  <1> QED BY <1>1, <1>2, <1>3

\* A step that emits nothing leaves what was emitted as it is.
LEMMA EmittedSame ==
  ASSUME IInv, Gapless, IInv', Gapless', Calm \/ \E e \in Event : Commits(e), NEW s \in Sessions
  PROVE  Emitted(s)' = Emitted(s)
  <1> DEFINE E == Emitted(s)
             F == Emitted(s)'
  <1>1. /\ E \in Seq(Nat) /\ Len(E) = mem.seq[s] /\ mem.seq[s] \in Nat
        /\ lastSource[s] \in Nat /\ Len(log[s]) = lastSource[s] /\ log[s] \in Seq(Nat)
        /\ \A k \in 1..lastSource[s] : E[k] = log[s][k]
        /\ \A e \in mem.spool : e.session = s /\ e.seq \in lastSource[s] + 1..mem.seq[s] => E[e.seq] = e.id
    BY EmittedOf DEF IInv, TypeOK
  <1>2. /\ F \in Seq(Nat) /\ Len(F) = mem'.seq[s]
        /\ \A k \in 1..lastSource'[s] : F[k] = log'[s][k]
        /\ \A e \in mem'.spool : e.session = s /\ e.seq \in lastSource'[s] + 1..mem'.seq[s] => F[e.seq] = e.id
        /\ \A k \in lastSource'[s] + 1..mem'.seq[s] : \E e \in mem'.spool : e.session = s /\ e.seq = k
    BY EmittedAfter
  <1>3. mem'.seq = mem.seq /\ mem'.spool \subseteq mem.spool
    BY DEF Calm, Commits
  <1> HIDE DEF E, F
  <1>4. ASSUME log'[s] = log[s], lastSource'[s] = lastSource[s], NEW k \in 1..mem.seq[s]
        PROVE  F[k] = E[k]
    <2>1. CASE k <= lastSource[s]
      BY <1>1, <1>2, <1>4, <2>1
    <2>2. CASE ~(k <= lastSource[s])
      <3>1. k \in lastSource[s] + 1..mem.seq[s]
        BY <1>1, <2>2
      <3>2. PICK e \in mem'.spool : e.session = s /\ e.seq = k
        BY <1>2, <1>3, <1>4, <3>1
      <3> QED BY <1>1, <1>2, <1>3, <1>4, <3>1, <3>2
    <2> QED BY <2>1, <2>2
  <1>5. ASSUME NEW e \in Event, Commits(e), s = e.session, NEW k \in 1..mem.seq[s]
        PROVE  F[k] = E[k]
    <2>1. /\ e.seq = lastSource[s] + 1 /\ lastSource'[s] = lastSource[s] + 1 /\ log'[s] = Append(log[s], e.id)
          /\ mem'.spool = mem.spool
      BY <1>5 DEF Commits, IInv, TypeOK
    <2>2. e \in mem.spool /\ e.seq <= mem.seq[s]
      <3>1. e \in mem.spool
        BY <1>1, <1>5, <2>1 DEF Commits, Gapless
      <3> QED BY <1>5, <3>1 DEF IInv, Numbered, OnLine
    <2>3. CASE k <= lastSource[s]
      <3>1. k \in 1..lastSource[s] /\ k \in 1..lastSource'[s]
        BY <1>1, <2>1, <2>3
      <3>2. Append(log[s], e.id)[k] = log[s][k]
        BY <1>1, <3>1
      <3> QED BY <1>1, <1>2, <2>1, <3>1, <3>2
    <2>4. CASE k = lastSource[s] + 1
      <3>1. k \in 1..lastSource'[s] /\ e.seq \in lastSource[s] + 1..mem.seq[s]
        BY <1>1, <2>1, <2>2, <2>4
      <3>2. Append(log[s], e.id)[k] = e.id /\ e.id \in Nat
        BY <1>1, <2>4 DEF Event
      <3>3. F[k] = e.id
        BY <1>2, <2>1, <3>1, <3>2
      <3> QED BY <1>1, <1>5, <2>1, <2>2, <2>4, <3>1, <3>3
    <2>5. CASE k > lastSource[s] + 1
      <3>1. k \in lastSource'[s] + 1..mem.seq[s] /\ k \in lastSource[s] + 1..mem.seq[s]
        BY <1>1, <2>1, <2>5
      <3>2. PICK x \in mem'.spool : x.session = s /\ x.seq = k
        BY <1>2, <1>3, <3>1
      <3> QED BY <1>1, <1>2, <1>3, <3>1, <3>2
    <2> QED BY <1>1, <2>3, <2>4, <2>5
  <1>6. \A k \in 1..Len(F) : F[k] = E[k]
    <2>1. CASE Calm
      BY <1>2, <1>3, <1>4, <2>1 DEF Calm
    <2>2. ASSUME NEW e \in Event, Commits(e) PROVE \A k \in 1..Len(F) : F[k] = E[k]
      <3>1. CASE s = e.session
        BY <1>2, <1>3, <1>5, <2>2, <3>1
      <3>2. CASE s # e.session
        <4>1. log'[s] = log[s] /\ lastSource'[s] = lastSource[s]
          BY <2>2, <3>2 DEF Commits, IInv, TypeOK
        <4> QED BY <1>2, <1>3, <1>4, <4>1
      <3> QED BY <3>1, <3>2
    <2> QED BY <2>1, <2>2
  <1>7. F = E
    BY <1>1, <1>2, <1>3, <1>6, SeqEqual
  <1> QED BY <1>7 DEF E, F

\* An emission appends its event.
LEMMA EmittedGrows ==
  ASSUME IInv, Gapless, IInv', Gapless', NEW t \in Sessions, NEW e \in Event, Adds(t, e), NEW s \in Sessions
  PROVE  Emitted(s)' = IF s = t THEN Append(Emitted(s), e.id) ELSE Emitted(s)
  <1> DEFINE E == Emitted(s)
             F == Emitted(s)'
             G == IF s = t THEN Append(E, e.id) ELSE E
  <1>1. /\ E \in Seq(Nat) /\ Len(E) = mem.seq[s] /\ mem.seq[s] \in Nat
        /\ lastSource[s] \in Nat /\ lastSource[s] <= mem.seq[s]
        /\ \A k \in 1..lastSource[s] : E[k] = log[s][k]
        /\ \A x \in mem.spool : x.session = s /\ x.seq \in lastSource[s] + 1..mem.seq[s] => E[x.seq] = x.id
        /\ \A k \in lastSource[s] + 1..mem.seq[s] : \E x \in mem.spool : x.session = s /\ x.seq = k
    BY EmittedOf
  <1>2. /\ F \in Seq(Nat) /\ Len(F) = mem'.seq[s]
        /\ \A k \in 1..lastSource'[s] : F[k] = log'[s][k]
        /\ \A x \in mem'.spool : x.session = s /\ x.seq \in lastSource'[s] + 1..mem'.seq[s] => F[x.seq] = x.id
    BY EmittedAfter
  <1>3. /\ log' = log /\ lastSource' = lastSource /\ mem'.spool = mem.spool \cup {e}
        /\ mem'.seq[s] = IF s = t THEN mem.seq[s] + 1 ELSE mem.seq[s]
        /\ e.session = t /\ e.seq = mem.seq[t] + 1 /\ e.id \in Nat
    BY DEF Adds, IInv, TypeOK, NodeState, Event
  <1> HIDE DEF E, F
  <1>4. /\ G \in Seq(Nat) /\ Len(G) = mem'.seq[s]
        /\ \A k \in 1..mem.seq[s] : G[k] = E[k]
        /\ s = t => G[mem.seq[s] + 1] = e.id
    BY <1>1, <1>3
  <1> HIDE DEF G
  <1>5. ASSUME NEW k \in 1..mem'.seq[s] PROVE F[k] = G[k]
    <2>1. CASE k <= lastSource[s]
      BY <1>1, <1>2, <1>3, <1>4, <2>1
    <2>2. CASE k \in lastSource[s] + 1..mem.seq[s]
      <3>1. PICK x \in mem.spool : x.session = s /\ x.seq = k
        BY <1>1, <2>2
      <3>2. k \in lastSource'[s] + 1..mem'.seq[s] /\ k \in 1..mem.seq[s]
        BY <1>1, <1>3, <2>2
      <3>3. E[k] = x.id
        BY <1>1, <2>2, <3>1
      <3>4. F[k] = x.id
        BY <1>2, <1>3, <3>1, <3>2
      <3> QED BY <1>4, <3>2, <3>3, <3>4
    <2>3. CASE s = t /\ k = mem.seq[s] + 1
      <3>1. e.seq \in lastSource'[s] + 1..mem'.seq[s] /\ e.seq = k
        BY <1>1, <1>3, <2>3
      <3> QED BY <1>2, <1>3, <1>4, <2>3, <3>1
    <2> QED BY <1>1, <1>3, <2>1, <2>2, <2>3
  <1>6. F = G
    BY <1>2, <1>4, <1>5, SeqEqual
  <1> QED BY <1>6 DEF E, F, G

\* While saves succeed, a step of ingestion emits the next event of a session, commits the
\* next one, or leaves both sequences alone: the log is the Node's events, each once, in order.
THEOREM IngestionImplementsLog ==
  ASSUME DiskFaults = FALSE
  PROVE  Spec => ImplementsLog
  <1> DEFINE emitted == [s \in Sessions |-> Emitted(s)]
  <1>1. Init => Gapless
    <2>1. ASSUME Init PROVE Sources = {}
      BY <2>1 DEF Init, Sources, InGw
    <2>2. ASSUME Init PROVE \A s \in Sessions : lastSource[s] = 0 /\ mem.seq[s] = 0 /\ mem.spool = {} /\ disk = mem
      BY <2>2 DEF Init, EmptyState
    <2> SUFFICES ASSUME Init PROVE Gapless
      OBVIOUS
    <2>3. \A s \in Sessions : lastSource[s] + 1..mem.seq[s] = {}
      BY <2>2
    <2>4. \A s \in Sessions : \A k \in lastSource[s] + 1..mem.seq[s] :
            \E e \in mem.spool : e.session = s /\ e.seq = k
      BY <2>3
    <2>5. disk = mem /\ mem.spool = {}
      BY DEF Init, EmptyState
    <2>6. \A s \in Sessions : lastSource[s] <= mem.seq[s]
      BY <2>2
    <2>7. \A x, y \in mem.spool : x.session = y.session /\ x.seq = y.seq => x = y
      BY <2>5
    <2>8. \A e \in Sources : e \in mem.spool \/ e.seq <= lastSource[e.session]
      BY <2>1
    <2> QED BY <2>4, <2>5, <2>6, <2>7, <2>8 DEF Gapless
  <1>2. Init => Promise!Init
    <2> SUFFICES ASSUME Init PROVE Promise!Init
      OBVIOUS
    <2>1. \A s \in Sessions : Emitted(s) = <<>>
      <3> TAKE s \in Sessions
      <3>1. Emitted(s) \in Seq(Nat) /\ Len(Emitted(s)) = mem.seq[s]
        BY <1>1, InitInv, EmittedOf
      <3>2. mem.seq[s] = 0
        BY DEF Init, EmptyState
      <3> QED BY <3>1, <3>2
    <2> QED BY <2>1 DEF Promise!Init, Init
  <1>3. ASSUME IInv, Gapless, IInv', Gapless', [Next]_vars
        PROVE  [Promise!Next]_(Promise!vars)
    <2>0. /\ log \in [Sessions -> Seq(Nat)] /\ emitted \in [Sessions -> Seq(Nat)]
          /\ \A s \in Sessions : Len(emitted[s]) = mem.seq[s] /\ Len(log[s]) = lastSource[s]
          /\ \A s \in Sessions : emitted[s] = Emitted(s) /\ emitted'[s] = Emitted(s)'
          /\ emitted' = [s \in Sessions |-> Emitted(s)']
      BY <1>3, EmittedOf DEF IInv, TypeOK
    <2>1. ASSUME Calm PROVE UNCHANGED <<emitted, log>>
      BY <1>3, <2>1, EmittedSame DEF Calm
    <2>2. ASSUME NEW e \in Event, Commits(e) PROVE Promise!Commit(e.session)
      <3>1. emitted' = emitted
        BY <1>3, <2>2, EmittedSame
      <3>2. /\ e.session \in Sessions /\ lastSource[e.session] \in Nat /\ e \in Sources
            /\ e.seq = lastSource[e.session] + 1
            /\ log' = [log EXCEPT ![e.session] = Append(@, e.id)]
        BY <1>3, <2>2 DEF Commits, Event, IInv, TypeOK
      <3>3. e \in mem.spool
        BY <1>3, <3>2 DEF Gapless
      <3>4. e.seq <= mem.seq[e.session] /\ mem.seq[e.session] \in Nat
        BY <1>3, <3>2, <3>3 DEF IInv, Numbered, OnLine, TypeOK, NodeState
      <3>5. e.seq \in lastSource[e.session] + 1..mem.seq[e.session]
        BY <3>2, <3>4
      <3>6. Emitted(e.session)[e.seq] = e.id
        BY <1>3, <3>2, <3>3, <3>5, EmittedOf
      <3> DEFINE t == e.session
      <3> HIDE DEF emitted, t
      <3>7. t \in Sessions /\ Len(log[t]) = lastSource[t] /\ Len(emitted[t]) = mem.seq[t]
        BY <2>0, <3>2 DEF t
      <3>8. emitted[t][Len(log[t]) + 1] = e.id
        BY <2>0, <3>2, <3>6, <3>7 DEF t
      <3>9. Len(log[t]) < Len(emitted[t])
        BY <3>2, <3>4, <3>7 DEF t
      <3>10. log' = [log EXCEPT ![t] = Append(@, emitted[t][Len(@) + 1])]
        BY <3>2, <3>7, <3>8 DEF t
      <3> QED BY <3>1, <3>7, <3>9, <3>10 DEF Promise!Commit, t, emitted
    <2>3. ASSUME NEW t \in Sessions, NEW e \in Event, Adds(t, e) PROVE Promise!Emit(t)
      <3>1. \A s \in Sessions : emitted'[s] = IF s = t THEN Append(emitted[s], e.id) ELSE emitted[s]
        BY <1>3, <2>0, <2>3, EmittedGrows
      <3>2. emitted[t] \in Seq(Nat) /\ e.id \in Nat /\ Len(emitted[t]) \in Nat
        BY <2>0 DEF Event
      <3>3. /\ Len(emitted'[t]) = Len(emitted[t]) + 1
            /\ emitted'[t][Len(emitted[t]) + 1] = e.id
        BY <3>1, <3>2
      <3>4. emitted' \in [Sessions -> Seq(Nat)] /\ emitted' = [emitted EXCEPT ![t] = Append(@, e.id)]
        <4> DEFINE E == emitted
                   F == emitted'
        <4>1. F = [s \in Sessions |-> F[s]] /\ E \in [Sessions -> Seq(Nat)]
          BY <2>0
        <4>2. \A s \in Sessions : F[s] = IF s = t THEN Append(E[s], e.id) ELSE E[s]
          BY <3>1
        <4>3. E[t] \in Seq(Nat) /\ Append(E[t], e.id) \in Seq(Nat)
          BY <3>2
        <4> HIDE DEF E, F
        <4>4. F \in [Sessions -> Seq(Nat)] /\ F = [E EXCEPT ![t] = Append(@, e.id)]
          BY <4>1, <4>2, <4>3
        <4> QED BY <4>4 DEF E, F
      <3>5. \A s \in Sessions : \A i \in DOMAIN emitted[s] : emitted[s][i] # e.id
        <4> TAKE s \in Sessions
        <4> TAKE i \in DOMAIN emitted[s]
        <4>0. emitted[s] \in Seq(Nat) /\ Len(emitted[s]) = mem.seq[s] /\ e.id = nextId /\ nextId \in Nat
          BY <1>3, <2>0, <2>3 DEF Adds, IInv, TypeOK
        <4>1. i \in 1..mem.seq[s] /\ e.id = nextId /\ nextId \in Nat /\ emitted[s][i] \in Nat
          BY <4>0
        <4>2. emitted[s][i] < nextId
          BY <1>3, <4>1, EmittedOf
        <4> QED BY <4>1, <4>2
      <3>6. log' = log
        BY <2>3 DEF Adds
      <3> HIDE DEF emitted
      <3>7. emitted' = [emitted EXCEPT ![t] = Append(@, emitted'[t][Len(@) + 1])]
        BY <3>3, <3>4
      <3>8. \A s \in Sessions : \A i \in DOMAIN emitted[s] : emitted[s][i] # emitted'[t][Len(emitted[t]) + 1]
        BY <3>3, <3>5
      <3> QED BY <3>3, <3>4, <3>6, <3>7, <3>8 DEF Promise!Emit, emitted
    <2>4. \A e \in Event : e.session \in Sessions
      BY DEF Event
    <2> QED BY <1>3, <2>1, <2>2, <2>3, <2>4, StepKinds DEF Promise!Next, Promise!vars
  <1>4. IInv /\ Gapless /\ [Next]_vars => Gapless'
    BY GaplessKept
  <1>5. Spec => []Gapless
    BY <1>1, <1>4, Invariant, PTL DEF Spec
  <1> QED BY <1>2, <1>3, <1>5, Invariant, PTL DEF Spec, ImplementsLog, Promise!Spec

=============================================================================
