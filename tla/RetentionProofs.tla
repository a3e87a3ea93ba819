-------------------------- MODULE RetentionProofs --------------------------
(***************************************************************************)
(* The inductive invariant of Retention and what follows from it, for any  *)
(* number of sessions and operations and any retention periods.            *)
(***************************************************************************)
EXTENDS Retention, TLAPS

\* What a command is about.
Kinds ==
  \A o \in Ops :
    /\ op[o].kind = "none" <=> op[o].state = "none"
    /\ op[o].kind \in {"none", "history", "local"} => op[o].session = None
    /\ op[o].kind \notin {"none", "history", "local"} =>
         op[o].session \in Sessions /\ sess[op[o].session].state # "none"
    /\ op[o].kind \in {"local", "delete", "import"} => op[o].state # "open"

\* The rows of a session; what is purged has no content.
SessionRows ==
  \A s \in Sessions :
    /\ Exists(s) => sess[s].state # "none"
    /\ Exists(s) <=> TurnRow(s) \in rows
    /\ ContentRow(s) \in rows => Exists(s) /\ sess[s].history = "available"
    /\ ReceiptRow(s) \in rows \/ NoticeRow(s) \in rows => Exists(s)
    /\ sess[s].state = "none" => sess[s].history = "available"

\* The rows of an operation.
OpRows ==
  \A o \in Ops :
    /\ OpRow(o) \in rows => /\ op[o].kind # "none"
                            /\ op[o].session # None => Exists(op[o].session)
    /\ OutboxRow(o) \in rows => OpRow(o) \in rows /\ op[o].kind # "local"
    /\ SharedRow(o) \in rows => OpRow(o) \in rows /\ op[o].session # None
    /\ QueueRow(o) \in rows => /\ OpRow(o) \in rows /\ op[o].kind = "queue"
                               /\ sess[op[o].session].history = "available"
    /\ RequestRow(o) \in rows => /\ OpRow(o) \in rows /\ op[o].kind = "respond"
                                 /\ sess[op[o].session].history = "available"

\* A confirmed message whose turn has not begun has what will hand it over.
Reserved ==
  \A o \in Ops :
    op[o].kind \in {"send", "queue"} /\ Unstarted(o) /\ sess[op[o].session].state # "closed" =>
      /\ OpRow(o) \in rows => op[o].payload
      /\ op[o].kind = "queue" => QueueRow(o) \in rows

IInv == TypeOK /\ Kinds /\ SessionRows /\ OpRows /\ UnresolvedKept /\ Reserved

LEMMA NumbersAreNatural == None \notin Sessions /\ Oldest \in Nat /\ 0 \in Ages
  BY ConstantsAssumption DEF None, Sessions, Oldest, Ages

LEMMA FreshTyped ==
  ASSUME NEW kind \in {"create", "send", "queue", "respond", "history", "local", "delete", "import"},
         NEW s \in Sessions \cup {None}, NEW state \in {"open", "confirmed"}
  PROVE  Fresh(kind, s, state) \in Operation
  BY NumbersAreNatural DEF Operation, Fresh

LEMMA CreateKeeps ==
  ASSUME IInv, NEW s \in Sessions, NEW o \in Ops, NEW p \in Sessions \cup {None}, Create(s, o, p)
  PROVE  IInv'
  <1> DEFINE q == Fresh("create", s, "open")
  <1>0. /\ q \in Operation /\ q.kind = "create" /\ q.state = "open" /\ q.session = s /\ q.payload = TRUE
        /\ s # None /\ None \notin Sessions
    <2>1. q \in Operation /\ s # None /\ None \notin Sessions
      BY FreshTyped, NumbersAreNatural
    <2> QED BY <2>1 DEF Fresh
  <1> HIDE DEF q
  <1>1. /\ TypeOK /\ op[o].kind = "none" /\ sess[s].state = "none"
        /\ op' = [op EXCEPT ![o] = q]
        /\ sess' = [sess EXCEPT ![s].state = "idle", ![s].parent = p]
        /\ rows' = rows \cup {SessionRow(s), TurnRow(s), OpRow(o), OutboxRow(o)}
        /\ phase' = phase
    BY DEF IInv, Create, Idle, NewOp, NewSession, q
  <1>2. /\ \A x \in Ops : op'[x] = IF x = o THEN q ELSE op[x]
        /\ \A t \in Sessions : t # s => sess'[t] = sess[t]
        /\ sess'[s].state = "idle" /\ sess'[s].history = sess[s].history
        /\ sess'[s] \in Session
        /\ sess' \in [Sessions -> Session]
    BY <1>1 DEF TypeOK, Session
  <1>3. /\ \A t \in Sessions : /\ SessionRow(t) \in rows' <=> SessionRow(t) \in rows \/ t = s
                               /\ TurnRow(t) \in rows' <=> TurnRow(t) \in rows \/ t = s
                               /\ ContentRow(t) \in rows' <=> ContentRow(t) \in rows
                               /\ ReceiptRow(t) \in rows' <=> ReceiptRow(t) \in rows
                               /\ NoticeRow(t) \in rows' <=> NoticeRow(t) \in rows
        /\ \A x \in Ops : /\ OpRow(x) \in rows' <=> OpRow(x) \in rows \/ x = o
                          /\ OutboxRow(x) \in rows' <=> OutboxRow(x) \in rows \/ x = o
                          /\ QueueRow(x) \in rows' <=> QueueRow(x) \in rows
                          /\ RequestRow(x) \in rows' <=> RequestRow(x) \in rows
                          /\ SharedRow(x) \in rows' <=> SharedRow(x) \in rows
    BY <1>1 DEF SessionRow, TurnRow, ContentRow, ReceiptRow, NoticeRow, OpRow, OutboxRow,
       QueueRow, RequestRow, SharedRow
  <1>4. TypeOK'
    BY <1>0, <1>1, <1>2 DEF TypeOK, Keys, SessionTables, OpTables, SessionRow, TurnRow, OpRow, OutboxRow
  <1>5. Kinds'
    BY <1>0, <1>1, <1>2 DEF IInv, Kinds
  <1>6. SessionRows'
    BY <1>0, <1>1, <1>2, <1>3 DEF IInv, SessionRows, Exists
  <1>7. OpRows'
    BY <1>0, <1>1, <1>2, <1>3 DEF IInv, OpRows, Exists, Kinds
  <1>8. UnresolvedKept'
    BY <1>0, <1>1, <1>2, <1>3 DEF IInv, UnresolvedKept, Exists, SessionRows, Kinds
  <1>9. Reserved'
    BY <1>0, <1>1, <1>2, <1>3 DEF IInv, Reserved, Unstarted, Kinds
  <1> QED BY <1>4, <1>5, <1>6, <1>7, <1>8, <1>9 DEF IInv

LEMMA CommandKeeps ==
  ASSUME IInv, NEW o \in Ops, NEW s \in Sessions, NEW kind \in {"send", "queue", "respond"}, Command(s, o, kind)
  PROVE  IInv'
  <1> DEFINE q == Fresh(kind, s, "open")
  <1>0. /\ q \in Operation /\ q.kind = kind /\ q.state = "open" /\ q.session = s
        /\ q.payload = TRUE /\ q.started = FALSE /\ None \notin Sessions
    <2>1. q \in Operation /\ None \notin Sessions
      BY FreshTyped, NumbersAreNatural
    <2> QED BY <2>1 DEF Fresh
  <1> HIDE DEF q
  <1>1. /\ TypeOK /\ op[o].kind = "none" /\ op' = [op EXCEPT ![o] = q]
        /\ sess' = sess /\ phase' = phase
        /\ rows' = rows \cup ({OpRow(o), OutboxRow(o)} \cup (IF kind = "respond" THEN {RequestRow(o)} ELSE {}))
        /\ Exists(s) /\ sess[s].history = "available" /\ sess[s].state # "none"
    BY DEF IInv, Command, Idle, NewOp, q, SessionRows
  <1>2. \A x \in Ops : op'[x] = IF x = o THEN q ELSE op[x]
    BY <1>1 DEF TypeOK
  <1>3. /\ \A t \in Sessions : /\ SessionRow(t) \in rows' <=> SessionRow(t) \in rows
                               /\ TurnRow(t) \in rows' <=> TurnRow(t) \in rows
                               /\ ContentRow(t) \in rows' <=> ContentRow(t) \in rows
                               /\ ReceiptRow(t) \in rows' <=> ReceiptRow(t) \in rows
                               /\ NoticeRow(t) \in rows' <=> NoticeRow(t) \in rows
        /\ \A x \in Ops : /\ OpRow(x) \in rows' <=> OpRow(x) \in rows \/ x = o
                          /\ OutboxRow(x) \in rows' <=> OutboxRow(x) \in rows \/ x = o
                          /\ QueueRow(x) \in rows' <=> QueueRow(x) \in rows
                          /\ RequestRow(x) \in rows' <=> RequestRow(x) \in rows \/ (x = o /\ kind = "respond")
                          /\ SharedRow(x) \in rows' <=> SharedRow(x) \in rows
    BY <1>1 DEF SessionRow, TurnRow, ContentRow, ReceiptRow, NoticeRow, OpRow,
       OutboxRow, QueueRow, RequestRow, SharedRow
  <1>4. TypeOK'
    BY <1>0, <1>1 DEF TypeOK, Keys, SessionTables, OpTables, OpRow, OutboxRow, RequestRow, ShareRow, SharedRow
  <1>5. Kinds'
    BY <1>0, <1>1, <1>2 DEF IInv, Kinds
  <1>6. SessionRows'
    BY <1>0, <1>1, <1>3 DEF IInv, SessionRows, Exists
  <1>7. OpRows'
    BY <1>0, <1>1, <1>2, <1>3 DEF IInv, OpRows, Exists, Kinds
  <1>8. UnresolvedKept'
    BY <1>0, <1>1, <1>2, <1>3 DEF IInv, UnresolvedKept, Exists
  <1>9. Reserved'
    BY <1>0, <1>1, <1>2, <1>3 DEF IInv, Reserved, Unstarted, Kinds
  <1> QED BY <1>4, <1>5, <1>6, <1>7, <1>8, <1>9 DEF IInv

LEMMA SharedSendKeeps ==
  ASSUME IInv, NEW o \in Ops, NEW s \in Sessions, SharedSend(s, o)
  PROVE  IInv'
  <1> DEFINE q == Fresh("send", s, "open")
  <1>0. /\ q \in Operation /\ q.kind = "send" /\ q.state = "open" /\ q.session = s
        /\ q.payload = TRUE /\ q.started = FALSE /\ None \notin Sessions
    <2>1. q \in Operation /\ None \notin Sessions
      BY FreshTyped, NumbersAreNatural
    <2> QED BY <2>1 DEF Fresh
  <1> HIDE DEF q
  <1>1. /\ TypeOK /\ op[o].kind = "none" /\ op' = [op EXCEPT ![o] = q]
        /\ sess' = sess /\ phase' = phase
        /\ rows' = rows \cup {OpRow(o), OutboxRow(o), ShareRow(s), SharedRow(o)}
        /\ Exists(s) /\ sess[s].history = "available" /\ sess[s].state # "none"
    BY DEF IInv, SharedSend, Idle, NewOp, q, SessionRows
  <1>2. \A x \in Ops : op'[x] = IF x = o THEN q ELSE op[x]
    BY <1>1 DEF TypeOK
  <1>3. /\ \A t \in Sessions : /\ SessionRow(t) \in rows' <=> SessionRow(t) \in rows
                               /\ TurnRow(t) \in rows' <=> TurnRow(t) \in rows
                               /\ ContentRow(t) \in rows' <=> ContentRow(t) \in rows
                               /\ ReceiptRow(t) \in rows' <=> ReceiptRow(t) \in rows
                               /\ NoticeRow(t) \in rows' <=> NoticeRow(t) \in rows
        /\ \A x \in Ops : /\ OpRow(x) \in rows' <=> OpRow(x) \in rows \/ x = o
                          /\ OutboxRow(x) \in rows' <=> OutboxRow(x) \in rows \/ x = o
                          /\ QueueRow(x) \in rows' <=> QueueRow(x) \in rows
                          /\ RequestRow(x) \in rows' <=> RequestRow(x) \in rows
                          /\ SharedRow(x) \in rows' <=> SharedRow(x) \in rows \/ x = o
    BY <1>1 DEF SessionRow, TurnRow, ContentRow, ReceiptRow, NoticeRow, OpRow,
       OutboxRow, QueueRow, RequestRow, SharedRow, ShareRow
  <1>4. TypeOK'
    BY <1>0, <1>1 DEF TypeOK, Keys, SessionTables, OpTables, OpRow, OutboxRow, RequestRow, ShareRow, SharedRow
  <1>5. Kinds'
    BY <1>0, <1>1, <1>2 DEF IInv, Kinds
  <1>6. SessionRows'
    BY <1>0, <1>1, <1>3 DEF IInv, SessionRows, Exists
  <1>7. OpRows'
    BY <1>0, <1>1, <1>2, <1>3 DEF IInv, OpRows, Exists, Kinds
  <1>8. UnresolvedKept'
    BY <1>0, <1>1, <1>2, <1>3 DEF IInv, UnresolvedKept, Exists
  <1>9. Reserved'
    BY <1>0, <1>1, <1>2, <1>3 DEF IInv, Reserved, Unstarted, Kinds
  <1> QED BY <1>4, <1>5, <1>6, <1>7, <1>8, <1>9 DEF IInv

LEMMA ProjectHistoryKeeps ==
  ASSUME IInv, NEW o \in Ops, ProjectHistory(o)
  PROVE  IInv'
  <1> DEFINE q == Fresh("history", None, "open")
  <1>0. /\ q \in Operation /\ q.kind = "history" /\ q.state = "open" /\ q.session = None
        /\ q.payload = TRUE /\ q.started = FALSE /\ None \notin Sessions
    <2>1. q \in Operation /\ None \notin Sessions
      BY FreshTyped, NumbersAreNatural
    <2> QED BY <2>1 DEF Fresh
  <1> HIDE DEF q
  <1>1. /\ TypeOK /\ op[o].kind = "none" /\ op' = [op EXCEPT ![o] = q]
        /\ sess' = sess /\ phase' = phase
        /\ rows' = rows \cup {OpRow(o), OutboxRow(o)}
    BY DEF IInv, ProjectHistory, Idle, NewOp, q
  <1>2. \A x \in Ops : op'[x] = IF x = o THEN q ELSE op[x]
    BY <1>1 DEF TypeOK
  <1>3. /\ \A t \in Sessions : /\ SessionRow(t) \in rows' <=> SessionRow(t) \in rows
                               /\ TurnRow(t) \in rows' <=> TurnRow(t) \in rows
                               /\ ContentRow(t) \in rows' <=> ContentRow(t) \in rows
                               /\ ReceiptRow(t) \in rows' <=> ReceiptRow(t) \in rows
                               /\ NoticeRow(t) \in rows' <=> NoticeRow(t) \in rows
        /\ \A x \in Ops : /\ OpRow(x) \in rows' <=> OpRow(x) \in rows \/ x = o
                          /\ OutboxRow(x) \in rows' <=> OutboxRow(x) \in rows \/ x = o
                          /\ QueueRow(x) \in rows' <=> QueueRow(x) \in rows
                          /\ RequestRow(x) \in rows' <=> RequestRow(x) \in rows
                          /\ SharedRow(x) \in rows' <=> SharedRow(x) \in rows
    BY <1>1 DEF SessionRow, TurnRow, ContentRow, ReceiptRow, NoticeRow, OpRow,
       OutboxRow, QueueRow, RequestRow, SharedRow
  <1>4. TypeOK'
    BY <1>0, <1>1 DEF TypeOK, Keys, SessionTables, OpTables, OpRow, OutboxRow, RequestRow, ShareRow, SharedRow
  <1>5. Kinds'
    BY <1>0, <1>1, <1>2 DEF IInv, Kinds
  <1>6. SessionRows'
    BY <1>0, <1>1, <1>3 DEF IInv, SessionRows, Exists
  <1>7. OpRows'
    BY <1>0, <1>1, <1>2, <1>3 DEF IInv, OpRows, Exists, Kinds
  <1>8. UnresolvedKept'
    BY <1>0, <1>1, <1>2, <1>3 DEF IInv, UnresolvedKept, Exists
  <1>9. Reserved'
    BY <1>0, <1>1, <1>2, <1>3 DEF IInv, Reserved, Unstarted, Kinds
  <1> QED BY <1>4, <1>5, <1>6, <1>7, <1>8, <1>9 DEF IInv

LEMMA LocalCommandKeeps ==
  ASSUME IInv, NEW o \in Ops, LocalCommand(o)
  PROVE  IInv'
  <1> DEFINE q == Fresh("local", None, "confirmed")
  <1>0. /\ q \in Operation /\ q.kind = "local" /\ q.state = "confirmed" /\ q.session = None
        /\ q.payload = FALSE /\ q.started = FALSE /\ None \notin Sessions
    <2>1. q \in Operation /\ None \notin Sessions
      BY FreshTyped, NumbersAreNatural
    <2> QED BY <2>1 DEF Fresh
  <1> HIDE DEF q
  <1>1. /\ TypeOK /\ op[o].kind = "none" /\ op' = [op EXCEPT ![o] = q]
        /\ sess' = sess /\ phase' = phase
        /\ rows' = rows \cup {OpRow(o)}
    BY DEF IInv, LocalCommand, Idle, NewOp, q
  <1>2. \A x \in Ops : op'[x] = IF x = o THEN q ELSE op[x]
    BY <1>1 DEF TypeOK
  <1>3. /\ \A t \in Sessions : /\ SessionRow(t) \in rows' <=> SessionRow(t) \in rows
                               /\ TurnRow(t) \in rows' <=> TurnRow(t) \in rows
                               /\ ContentRow(t) \in rows' <=> ContentRow(t) \in rows
                               /\ ReceiptRow(t) \in rows' <=> ReceiptRow(t) \in rows
                               /\ NoticeRow(t) \in rows' <=> NoticeRow(t) \in rows
        /\ \A x \in Ops : /\ OpRow(x) \in rows' <=> OpRow(x) \in rows \/ x = o
                          /\ OutboxRow(x) \in rows' <=> OutboxRow(x) \in rows
                          /\ QueueRow(x) \in rows' <=> QueueRow(x) \in rows
                          /\ RequestRow(x) \in rows' <=> RequestRow(x) \in rows
                          /\ SharedRow(x) \in rows' <=> SharedRow(x) \in rows
    BY <1>1 DEF SessionRow, TurnRow, ContentRow, ReceiptRow, NoticeRow, OpRow,
       OutboxRow, QueueRow, RequestRow, SharedRow
  <1>4. TypeOK'
    BY <1>0, <1>1 DEF TypeOK, Keys, SessionTables, OpTables, OpRow, OutboxRow, RequestRow, ShareRow, SharedRow
  <1>5. Kinds'
    BY <1>0, <1>1, <1>2 DEF IInv, Kinds
  <1>6. SessionRows'
    BY <1>0, <1>1, <1>3 DEF IInv, SessionRows, Exists
  <1>7. OpRows'
    BY <1>0, <1>1, <1>2, <1>3 DEF IInv, OpRows, Exists, Kinds
  <1>8. UnresolvedKept'
    BY <1>0, <1>1, <1>2, <1>3 DEF IInv, UnresolvedKept, Exists
  <1>9. Reserved'
    BY <1>0, <1>1, <1>2, <1>3 DEF IInv, Reserved, Unstarted, Kinds
  <1> QED BY <1>4, <1>5, <1>6, <1>7, <1>8, <1>9 DEF IInv

LEMMA ImportHistoryKeeps ==
  ASSUME IInv, NEW s \in Sessions, NEW o \in Ops, ImportHistory(s, o)
  PROVE  IInv'
  <1> DEFINE q == Fresh("import", s, "confirmed")
  <1>0. /\ q \in Operation /\ q.kind = "import" /\ q.state = "confirmed" /\ q.session = s
        /\ s # None /\ None \notin Sessions
    <2>1. q \in Operation /\ s # None /\ None \notin Sessions
      BY FreshTyped, NumbersAreNatural
    <2> QED BY <2>1 DEF Fresh
  <1> HIDE DEF q
  <1>1. /\ TypeOK /\ op[o].kind = "none" /\ sess[s].state = "none"
        /\ op' = [op EXCEPT ![o] = q]
        /\ sess' = [sess EXCEPT ![s].state = "closed"]
        /\ rows' = rows \cup {SessionRow(s), TurnRow(s), ContentRow(s), OpRow(o)}
        /\ phase' = phase
    BY DEF IInv, ImportHistory, Idle, NewOp, NewSession, q
  <1>2. /\ \A x \in Ops : op'[x] = IF x = o THEN q ELSE op[x]
        /\ \A t \in Sessions : t # s => sess'[t] = sess[t]
        /\ sess'[s].state = "closed" /\ sess'[s].history = sess[s].history
        /\ sess' \in [Sessions -> Session]
    BY <1>1 DEF TypeOK, Session
  <1>3. /\ \A t \in Sessions : /\ SessionRow(t) \in rows' <=> SessionRow(t) \in rows \/ t = s
                               /\ TurnRow(t) \in rows' <=> TurnRow(t) \in rows \/ t = s
                               /\ ContentRow(t) \in rows' <=> ContentRow(t) \in rows \/ t = s
                               /\ ReceiptRow(t) \in rows' <=> ReceiptRow(t) \in rows
                               /\ NoticeRow(t) \in rows' <=> NoticeRow(t) \in rows
        /\ \A x \in Ops : /\ OpRow(x) \in rows' <=> OpRow(x) \in rows \/ x = o
                          /\ OutboxRow(x) \in rows' <=> OutboxRow(x) \in rows
                          /\ QueueRow(x) \in rows' <=> QueueRow(x) \in rows
                          /\ RequestRow(x) \in rows' <=> RequestRow(x) \in rows
                          /\ SharedRow(x) \in rows' <=> SharedRow(x) \in rows
    BY <1>1 DEF SessionRow, TurnRow, ContentRow, ReceiptRow, NoticeRow, OpRow, OutboxRow,
       QueueRow, RequestRow, SharedRow
  <1>4. TypeOK'
    BY <1>0, <1>1, <1>2 DEF TypeOK, Keys, SessionTables, OpTables, SessionRow, TurnRow,
       ContentRow, OpRow
  <1>5. Kinds'
    BY <1>0, <1>1, <1>2 DEF IInv, Kinds
  <1>6. SessionRows'
    BY <1>0, <1>1, <1>2, <1>3 DEF IInv, SessionRows, Exists
  <1>7. OpRows'
    BY <1>0, <1>1, <1>2, <1>3 DEF IInv, OpRows, Exists, Kinds
  <1>8. UnresolvedKept'
    BY <1>0, <1>1, <1>2, <1>3 DEF IInv, UnresolvedKept, Exists, SessionRows, Kinds
  <1>9. Reserved'
    BY <1>0, <1>1, <1>2, <1>3 DEF IInv, Reserved, Unstarted, Kinds
  <1> QED BY <1>4, <1>5, <1>6, <1>7, <1>8, <1>9 DEF IInv

LEMMA SettleKeeps ==
  ASSUME IInv, NEW o \in Ops, NEW outcome \in {"confirmed", "failed"}, Settle(o, outcome)
  PROVE  IInv'
  <1> DEFINE s == op[o].session
             queued == op[o].kind = "queue" /\ outcome = "confirmed"
             ended == op[o].kind = "create" /\ outcome = "failed" /\ sess[s].state = "idle"
  <1>1. /\ TypeOK /\ OpRow(o) \in rows /\ op[o].state = "open" /\ phase' = phase
        /\ op' = [op EXCEPT ![o].state = outcome, ![o].age = 0,
                            ![o].started = @ \/ op[o].kind \notin {"send", "queue"}]
        /\ rows' = rows \cup (IF queued THEN {QueueRow(o)} ELSE {})
        /\ sess' = IF ended THEN [sess EXCEPT ![s].state = "ended", ![s].ended = 0] ELSE sess
    BY DEF IInv, Settle, Idle
  <1>2. /\ op' \in [Ops -> Operation]
        /\ \A x \in Ops : x # o => op'[x] = op[x]
        /\ op'[o].state = outcome /\ op'[o].kind = op[o].kind /\ op'[o].session = op[o].session
        /\ op'[o].payload = op[o].payload
        /\ op'[o].started = (op[o].started \/ op[o].kind \notin {"send", "queue"})
    <2> DEFINE started == op[o].started \/ op[o].kind \notin {"send", "queue"}
    <2>1. op[o] \in Operation /\ started \in BOOLEAN /\ outcome \in {"confirmed", "failed"} /\ 0 \in Ages
      BY <1>1, NumbersAreNatural DEF TypeOK, Operation
    <2> DEFINE v == [op[o] EXCEPT !.state = outcome, !.age = 0, !.started = started]
    <2>2. op' = [op EXCEPT ![o] = v]
      BY <1>1 DEF TypeOK
    <2> HIDE DEF started
    <2>3. /\ v \in Operation /\ v.state = outcome /\ v.kind = op[o].kind /\ v.session = op[o].session
          /\ v.payload = op[o].payload /\ v.started = started
      BY <2>1 DEF Operation
    <2> HIDE DEF v
    <2>4. /\ op' \in [Ops -> Operation] /\ \A x \in Ops : x # o => op'[x] = op[x]
          /\ op'[o] = v
      BY <2>2, <2>3 DEF IInv, TypeOK
    <2> QED BY <2>3, <2>4 DEF started
  <1>3. /\ sess' \in [Sessions -> Session]
        /\ \A t \in Sessions : /\ sess'[t].history = sess[t].history
                               /\ sess'[t].state = "closed" <=> sess[t].state = "closed"
                               /\ sess'[t].state = "none" <=> sess[t].state = "none"
    <2>1. CASE ended
      BY <1>1, <2>1, NumbersAreNatural DEF TypeOK, Session, IInv, Kinds
    <2>2. CASE ~ended
      BY <1>1, <2>2 DEF TypeOK
    <2> QED BY <2>1, <2>2
  <1>4. /\ \A t \in Sessions : /\ SessionRow(t) \in rows' <=> SessionRow(t) \in rows
                               /\ TurnRow(t) \in rows' <=> TurnRow(t) \in rows
                               /\ ContentRow(t) \in rows' <=> ContentRow(t) \in rows
                               /\ ReceiptRow(t) \in rows' <=> ReceiptRow(t) \in rows
                               /\ NoticeRow(t) \in rows' <=> NoticeRow(t) \in rows
        /\ \A x \in Ops : /\ OpRow(x) \in rows' <=> OpRow(x) \in rows
                          /\ OutboxRow(x) \in rows' <=> OutboxRow(x) \in rows
                          /\ QueueRow(x) \in rows' <=> QueueRow(x) \in rows \/ (x = o /\ queued)
                          /\ RequestRow(x) \in rows' <=> RequestRow(x) \in rows
                          /\ SharedRow(x) \in rows' <=> SharedRow(x) \in rows
    BY <1>1 DEF SessionRow, TurnRow, ContentRow, ReceiptRow, NoticeRow, OpRow, OutboxRow,
       QueueRow, RequestRow, SharedRow
  <1>5. TypeOK'
    BY <1>1, <1>2, <1>3 DEF TypeOK, Keys, OpTables, QueueRow
  <1> HIDE DEF ended
  <1>6. Kinds'
    BY <1>1, <1>2, <1>3 DEF IInv, Kinds
  <1>7. SessionRows'
    BY <1>1, <1>3, <1>4 DEF IInv, SessionRows, Exists
  <1>8. OpRows'
    BY <1>1, <1>2, <1>3, <1>4, NumbersAreNatural DEF IInv, OpRows, Exists, Kinds, UnresolvedKept
  <1>9. UnresolvedKept'
    BY <1>1, <1>2, <1>3, <1>4, NumbersAreNatural DEF IInv, UnresolvedKept, Exists, Kinds
  <1>10. Reserved'
    BY <1>1, <1>2, <1>3, <1>4, NumbersAreNatural DEF IInv, Reserved, Unstarted, Kinds, UnresolvedKept
  <1> QED BY <1>5, <1>6, <1>7, <1>8, <1>9, <1>10 DEF IInv

LEMMA ReportKeeps ==
  ASSUME IInv, NEW s \in Sessions, NEW state \in {"active", "ended", "closed"}, Report(s, state)
  PROVE  IInv'
  <1> DEFINE ended == IF sess[s].state \in {"idle", "active"} THEN 0 ELSE sess[s].ended
  <1>1. /\ TypeOK /\ Exists(s) /\ sess[s].history = "available" /\ op' = op /\ phase' = phase
        /\ sess' = [sess EXCEPT ![s].state = state, ![s].ended = ended]
        /\ rows' = rows \cup ({ContentRow(s), ReceiptRow(s)}
                              \cup (IF state = "ended" THEN {NoticeRow(s), PushRow(s)} ELSE {}))
        /\ sess[s].state # "closed"
    BY DEF IInv, Report, Idle, TypeOK, Session
  <1>2. /\ sess' \in [Sessions -> Session]
        /\ \A t \in Sessions : t # s => sess'[t] = sess[t]
        /\ sess'[s].state = state /\ sess'[s].history = "available"
    <2>1. ended \in Ages
      BY <1>1, NumbersAreNatural DEF TypeOK, Session
    <2> HIDE DEF ended
    <2> QED BY <1>1, <2>1 DEF TypeOK, Session
  <1>3. /\ \A t \in Sessions : /\ SessionRow(t) \in rows' <=> SessionRow(t) \in rows
                               /\ TurnRow(t) \in rows' <=> TurnRow(t) \in rows
                               /\ ContentRow(t) \in rows' <=> ContentRow(t) \in rows \/ t = s
                               /\ ReceiptRow(t) \in rows' <=> ReceiptRow(t) \in rows \/ t = s
                               /\ NoticeRow(t) \in rows' => NoticeRow(t) \in rows \/ t = s
        /\ \A x \in Ops : /\ OpRow(x) \in rows' <=> OpRow(x) \in rows
                          /\ OutboxRow(x) \in rows' <=> OutboxRow(x) \in rows
                          /\ QueueRow(x) \in rows' <=> QueueRow(x) \in rows
                          /\ RequestRow(x) \in rows' <=> RequestRow(x) \in rows
                          /\ SharedRow(x) \in rows' <=> SharedRow(x) \in rows
    BY <1>1 DEF SessionRow, TurnRow, ContentRow, ReceiptRow, NoticeRow, PushRow, OpRow,
       OutboxRow, QueueRow, RequestRow, SharedRow
  <1>4. TypeOK'
    BY <1>1, <1>2 DEF TypeOK, Keys, SessionTables, ContentRow, ReceiptRow, NoticeRow, PushRow
  <1> HIDE DEF ended
  <1>5. Kinds'
    BY <1>1, <1>2 DEF IInv, Kinds
  <1>6. SessionRows'
    BY <1>1, <1>2, <1>3 DEF IInv, SessionRows, Exists
  <1>7. OpRows'
    BY <1>1, <1>2, <1>3 DEF IInv, OpRows, Exists, Kinds
  <1>8. UnresolvedKept'
    BY <1>1, <1>2, <1>3 DEF IInv, UnresolvedKept, Exists, Kinds
  <1>9. Reserved'
    BY <1>1, <1>2, <1>3 DEF IInv, Reserved, Unstarted, Kinds
  <1> QED BY <1>4, <1>5, <1>6, <1>7, <1>8, <1>9 DEF IInv

LEMMA StartKeeps ==
  ASSUME IInv, NEW o \in Ops, Start(o)
  PROVE  IInv'
  <1> DEFINE s == op[o].session
  <1>1. /\ TypeOK /\ OpRow(o) \in rows /\ op[o].kind \in {"send", "queue"}
        /\ sess[s].history = "available" /\ sess[s].state = "ended" /\ phase' = phase
        /\ sess' = [sess EXCEPT ![s].state = "active", ![s].ended = 0]
        /\ op' = [op EXCEPT ![o].started = TRUE]
        /\ rows' = rows \cup {ContentRow(s), ReceiptRow(s)}
    BY DEF IInv, Start, Idle
  <1>2. s \in Sessions /\ Exists(s) /\ s # None
    BY <1>1, NumbersAreNatural DEF IInv, Kinds, OpRows
  <1> HIDE DEF s
  <1>3. /\ sess' \in [Sessions -> Session]
        /\ \A t \in Sessions : t # s => sess'[t] = sess[t]
        /\ sess'[s].state = "active" /\ sess'[s].history = "available"
        /\ op' \in [Ops -> Operation]
        /\ \A x \in Ops : /\ op'[x].state = op[x].state /\ op'[x].kind = op[x].kind
                          /\ op'[x].session = op[x].session /\ op'[x].payload = op[x].payload
                          /\ ~op'[x].started => ~op[x].started
    <2>1. /\ sess' \in [Sessions -> Session]
          /\ \A t \in Sessions : t # s => sess'[t] = sess[t]
          /\ sess'[s].state = "active" /\ sess'[s].history = "available"
      BY <1>1, <1>2, NumbersAreNatural DEF TypeOK, Session
    <2>2. \A x \in Ops : op'[x] = IF x = o THEN [op[x] EXCEPT !.started = TRUE] ELSE op[x]
      BY <1>1 DEF TypeOK
    <2>3. \A q \in Operation :
            LET v == [q EXCEPT !.started = TRUE]
            IN  /\ v \in Operation /\ v.state = q.state /\ v.kind = q.kind
                /\ v.session = q.session /\ v.payload = q.payload /\ v.started
      BY DEF Operation
    <2>4. op' \in [Ops -> Operation]
      BY <1>1, <2>3 DEF TypeOK
    <2>5. ASSUME NEW x \in Ops
          PROVE  /\ op'[x].state = op[x].state /\ op'[x].kind = op[x].kind
                 /\ op'[x].session = op[x].session /\ op'[x].payload = op[x].payload
                 /\ ~op'[x].started => ~op[x].started
      BY <1>1, <2>2, <2>3 DEF TypeOK
    <2> QED BY <2>1, <2>4, <2>5
  <1>4. /\ \A t \in Sessions : /\ SessionRow(t) \in rows' <=> SessionRow(t) \in rows
                               /\ TurnRow(t) \in rows' <=> TurnRow(t) \in rows
                               /\ ContentRow(t) \in rows' <=> ContentRow(t) \in rows \/ t = s
                               /\ ReceiptRow(t) \in rows' <=> ReceiptRow(t) \in rows \/ t = s
                               /\ NoticeRow(t) \in rows' <=> NoticeRow(t) \in rows
        /\ \A x \in Ops : /\ OpRow(x) \in rows' <=> OpRow(x) \in rows
                          /\ OutboxRow(x) \in rows' <=> OutboxRow(x) \in rows
                          /\ QueueRow(x) \in rows' <=> QueueRow(x) \in rows
                          /\ RequestRow(x) \in rows' <=> RequestRow(x) \in rows
                          /\ SharedRow(x) \in rows' <=> SharedRow(x) \in rows
    BY <1>1 DEF SessionRow, TurnRow, ContentRow, ReceiptRow, NoticeRow, OpRow, OutboxRow,
       QueueRow, RequestRow, SharedRow
  <1>5. TypeOK'
    BY <1>1, <1>2, <1>3 DEF TypeOK, Keys, SessionTables, ContentRow, ReceiptRow
  <1>6. Kinds'
    BY <1>1, <1>3 DEF IInv, Kinds
  <1>7. SessionRows'
    BY <1>1, <1>2, <1>3, <1>4 DEF IInv, SessionRows, Exists
  <1>8. OpRows'
    BY <1>1, <1>2, <1>3, <1>4 DEF IInv, OpRows, Exists, Kinds
  <1>9. UnresolvedKept'
    BY <1>1, <1>2, <1>3, <1>4 DEF IInv, UnresolvedKept, Exists, Kinds
  <1>10. Reserved'
    BY <1>1, <1>2, <1>3, <1>4 DEF IInv, Reserved, Unstarted, Kinds
  <1> QED BY <1>5, <1>6, <1>7, <1>8, <1>9, <1>10 DEF IInv

LEMMA DayKeeps ==
  ASSUME IInv, Day
  PROVE  IInv'
  <1>1. TypeOK /\ phase' = phase /\ rows' = rows
    BY DEF IInv, Day, Idle
  <1>2. /\ sess' \in [Sessions -> Session]
        /\ \A t \in Sessions : /\ sess'[t].state = sess[t].state
                               /\ sess'[t].history = sess[t].history
    <2>1. \A a \in Ages : (IF a <= Oldest - 1 THEN a + 1 ELSE a) \in Ages
      BY NumbersAreNatural DEF Ages
    <2> QED BY <1>1, <2>1 DEF Day, TypeOK, Session
  <1>3. /\ op' \in [Ops -> Operation]
        /\ \A x \in Ops : /\ op'[x].state = op[x].state /\ op'[x].kind = op[x].kind
                          /\ op'[x].session = op[x].session /\ op'[x].payload = op[x].payload
                          /\ op'[x].started = op[x].started
    <2>1. \A a \in Ages, l \in {Oldest - 1, Grace} : (IF a <= l THEN a + 1 ELSE a) \in Ages
      BY ConstantsAssumption DEF Ages, Oldest
    <2> QED BY <1>1, <2>1 DEF Day, TypeOK, Operation
  <1>4. Kinds' /\ SessionRows'
    BY <1>1, <1>2, <1>3 DEF IInv, Kinds, SessionRows, Exists
  <1>5. OpRows' /\ UnresolvedKept' /\ Reserved'
    BY <1>1, <1>2, <1>3 DEF IInv, Kinds, OpRows, UnresolvedKept, Reserved, Unstarted, Exists
  <1> QED BY <1>1, <1>2, <1>3, <1>4, <1>5 DEF IInv, TypeOK

-----------------------------------------------------------------------------
(* What the DELETE statements leave. *)

LEMMA PlainDelete ==
  ASSUME NEW left, NEW gone, \A k \in gone : k[1] \notin {"notifications", "sessions"}
  PROVE  Delete(left, gone) = left \ gone
  <1>1. \A k \in gone : Cascade(k) = {}
    BY DEF Cascade
  <1> QED BY <1>1 DEF Delete

LEMMA NoticeDelete ==
  ASSUME NEW left, NEW s
  PROVE  Delete(left, {NoticeRow(s)}) = left \ {NoticeRow(s), PushRow(s)}
  <1>1. Cascade(NoticeRow(s)) = {PushRow(s)}
    BY DEF Cascade, NoticeRow
  <1> QED BY <1>1 DEF Delete

LEMMA SessionDelete ==
  ASSUME NEW left, NEW s
  PROVE  Delete(left, {SessionRow(s)}) =
           left \ ({SessionRow(s), ShareRow(s)} \cup {SharedRow(o) : o \in {p \in Ops : op[p].session = s}})
  <1>1. Cascade(SessionRow(s)) = {ShareRow(s)} \cup {SharedRow(o) : o \in {p \in Ops : op[p].session = s}}
    BY DEF Cascade, SessionRow
  <1> QED BY <1>1 DEF Delete

\* The content of the sessions a purge is done with, and nothing else.
LEMMA ContentDelete ==
  ASSUME NEW left, NEW done \in SUBSET Sessions
  PROVE  LET after == Delete(left, UNION {ContentRows(s) : s \in done})
         IN  /\ \A t \in Sessions : /\ SessionRow(t) \in after <=> SessionRow(t) \in left
                                    /\ TurnRow(t) \in after <=> TurnRow(t) \in left
                                    /\ ContentRow(t) \in after <=> ContentRow(t) \in left /\ t \notin done
                                    /\ ReceiptRow(t) \in after <=> ReceiptRow(t) \in left
                                    /\ NoticeRow(t) \in after <=> NoticeRow(t) \in left
             /\ \A x \in Ops : /\ OpRow(x) \in after <=> OpRow(x) \in left
                               /\ OutboxRow(x) \in after <=> OutboxRow(x) \in left
                               /\ QueueRow(x) \in after <=>
                                    QueueRow(x) \in left /\ \A s \in done : x \notin OpsOf(s)
                               /\ RequestRow(x) \in after <=>
                                    RequestRow(x) \in left /\ \A s \in done : x \notin OpsOf(s)
                               /\ SharedRow(x) \in after <=> SharedRow(x) \in left
             /\ after \subseteq left
  <1> DEFINE gone == UNION {ContentRows(s) : s \in done}
  <1>1. \A k : k \in gone <=> \/ \E s \in done : k = ContentRow(s)
                             \/ \E s \in done : \E o \in OpsOf(s) : k = RequestRow(o) \/ k = QueueRow(o)
    BY DEF ContentRows
  <1> HIDE DEF gone
  <1>2. Delete(left, gone) = left \ gone
    <2>1. \A k \in gone : k[1] \notin {"notifications", "sessions"}
      BY <1>1 DEF ContentRow, RequestRow, QueueRow
    <2> QED BY <2>1, PlainDelete
  <1>3. /\ \A t \in Sessions : /\ SessionRow(t) \notin gone /\ TurnRow(t) \notin gone
                               /\ ContentRow(t) \in gone <=> t \in done
                               /\ ReceiptRow(t) \notin gone /\ NoticeRow(t) \notin gone
        /\ \A x \in Ops : /\ OpRow(x) \notin gone /\ OutboxRow(x) \notin gone
                          /\ QueueRow(x) \in gone <=> \E s \in done : x \in OpsOf(s)
                          /\ RequestRow(x) \in gone <=> \E s \in done : x \in OpsOf(s)
                          /\ SharedRow(x) \notin gone
    BY <1>1 DEF SessionRow, TurnRow, ContentRow, ReceiptRow, NoticeRow, OpRow, OutboxRow,
       QueueRow, RequestRow, SharedRow
  <1>4. /\ \A t \in Sessions :
             /\ SessionRow(t) \in left \ gone <=> SessionRow(t) \in left
             /\ TurnRow(t) \in left \ gone <=> TurnRow(t) \in left
             /\ ContentRow(t) \in left \ gone <=> ContentRow(t) \in left /\ t \notin done
             /\ ReceiptRow(t) \in left \ gone <=> ReceiptRow(t) \in left
             /\ NoticeRow(t) \in left \ gone <=> NoticeRow(t) \in left
        /\ \A x \in Ops :
             /\ OpRow(x) \in left \ gone <=> OpRow(x) \in left
             /\ OutboxRow(x) \in left \ gone <=> OutboxRow(x) \in left
             /\ QueueRow(x) \in left \ gone <=> QueueRow(x) \in left /\ \A s \in done : x \notin OpsOf(s)
             /\ RequestRow(x) \in left \ gone <=> RequestRow(x) \in left /\ \A s \in done : x \notin OpsOf(s)
             /\ SharedRow(x) \in left \ gone <=> SharedRow(x) \in left
        /\ left \ gone \subseteq left
    BY <1>3
  <1> QED BY <1>2, <1>4 DEF gone

LEMMA PurgeKeeps ==
  ASSUME IInv, NEW done \in SUBSET Sessions, Purge(done)
  PROVE  IInv'
  <1>1. /\ TypeOK /\ op' = op /\ phase' \in {"idle", "retire"}
        /\ rows' = Delete(rows, UNION {ContentRows(s) : s \in done})
        /\ sess' = [s \in Sessions |-> IF s \in done THEN [sess[s] EXCEPT !.history = "purged"]
                                                    ELSE sess[s]]
        /\ \A s \in done : Purgeable(s)
    BY DEF IInv, Purge
  <1>2. /\ sess' \in [Sessions -> Session]
        /\ \A t \in Sessions : /\ sess'[t].state = sess[t].state
                               /\ t \notin done => sess'[t].history = sess[t].history
                               /\ t \in done => sess'[t].history = "purged"
    BY <1>1 DEF TypeOK, Session
  <1>3. /\ \A t \in Sessions : /\ SessionRow(t) \in rows' <=> SessionRow(t) \in rows
                               /\ TurnRow(t) \in rows' <=> TurnRow(t) \in rows
                               /\ ContentRow(t) \in rows' <=> ContentRow(t) \in rows /\ t \notin done
                               /\ ReceiptRow(t) \in rows' <=> ReceiptRow(t) \in rows
                               /\ NoticeRow(t) \in rows' <=> NoticeRow(t) \in rows
        /\ \A x \in Ops : /\ OpRow(x) \in rows' <=> OpRow(x) \in rows
                          /\ OutboxRow(x) \in rows' <=> OutboxRow(x) \in rows
                          /\ QueueRow(x) \in rows' <=>
                               QueueRow(x) \in rows /\ \A s \in done : x \notin OpsOf(s)
                          /\ RequestRow(x) \in rows' <=>
                               RequestRow(x) \in rows /\ \A s \in done : x \notin OpsOf(s)
                          /\ SharedRow(x) \in rows' <=> SharedRow(x) \in rows
        /\ rows' \subseteq rows
    BY <1>1, ContentDelete
  <1>4. \A s \in done : /\ sess[s].state # "none" /\ sess[s].history = "available"
                        /\ \A o \in Ops : OpRow(o) \in rows /\ op[o].session = s =>
                             /\ op[o].state # "open"
                             /\ ~(QueueRow(o) \in rows /\ ~op[o].started)
    BY <1>1 DEF Purgeable, Open, OpsOf, Queued
  <1>5. TypeOK'
    BY <1>1, <1>2, <1>3 DEF TypeOK
  <1>6. Kinds'
    BY <1>1, <1>2 DEF IInv, Kinds
  <1>7. SessionRows'
    BY <1>1, <1>2, <1>3, <1>4 DEF IInv, SessionRows, Exists
  <1>8. OpRows'
    BY <1>1, <1>2, <1>3, NumbersAreNatural DEF IInv, OpRows, Exists, Kinds, OpsOf
  <1>9. UnresolvedKept'
    BY <1>1, <1>2, <1>3, <1>4 DEF IInv, UnresolvedKept, Exists, Kinds
  <1>10. Reserved'
    BY <1>1, <1>2, <1>3, <1>4 DEF IInv, Reserved, Unstarted, Kinds, OpRows, OpsOf
  <1> QED BY <1>5, <1>6, <1>7, <1>8, <1>9, <1>10 DEF IInv

LEMMA DeleteHistoryKeeps ==
  ASSUME IInv, NEW s \in Sessions, NEW o \in Ops, DeleteHistory(s, o)
  PROVE  IInv'
  <1> DEFINE q == Fresh("delete", s, "confirmed")
             left == Delete(rows, {NoticeRow(s)})
  <1>0. /\ q \in Operation /\ q.kind = "delete" /\ q.state = "confirmed" /\ q.session = s
        /\ s # None /\ None \notin Sessions
    <2>1. q \in Operation /\ s # None /\ None \notin Sessions
      BY FreshTyped, NumbersAreNatural
    <2> QED BY <2>1 DEF Fresh
  <1> HIDE DEF q
  <1>1. /\ TypeOK /\ Exists(s) /\ op[o].kind = "none" /\ sess[s].state = "closed" /\ Open(s) = {}
        /\ phase' = phase
        /\ sess' = [sess EXCEPT ![s].history = "purged"]
        /\ op' = [p \in Ops |-> IF p = o THEN q ELSE IF p \in OpsOf(s)
                                THEN [op[p] EXCEPT !.payload = FALSE] ELSE op[p]]
        /\ rows' = Delete(left, ContentRows(s)) \cup {OpRow(o)}
    BY DEF IInv, DeleteHistory, Idle, NewOp, q
  <1>2. /\ sess' \in [Sessions -> Session]
        /\ \A t \in Sessions : /\ sess'[t].state = sess[t].state
                               /\ t # s => sess'[t].history = sess[t].history
                               /\ t = s => sess'[t].history = "purged"
    BY <1>1 DEF TypeOK, Session
  <1>3. /\ op' \in [Ops -> Operation] /\ op'[o] = q
        /\ \A x \in Ops : x # o => /\ op'[x].state = op[x].state /\ op'[x].kind = op[x].kind
                                   /\ op'[x].session = op[x].session
                                   /\ op'[x].started = op[x].started
                                   /\ x \notin OpsOf(s) => op'[x].payload = op[x].payload
    BY <1>0, <1>1 DEF TypeOK, Operation
  <1>4. left = rows \ {NoticeRow(s), PushRow(s)}
    BY NoticeDelete
  <1> HIDE DEF left
  <1>5. /\ \A t \in Sessions : /\ SessionRow(t) \in rows' <=> SessionRow(t) \in rows
                               /\ TurnRow(t) \in rows' <=> TurnRow(t) \in rows
                               /\ ContentRow(t) \in rows' <=> ContentRow(t) \in rows /\ t # s
                               /\ ReceiptRow(t) \in rows' <=> ReceiptRow(t) \in rows
                               /\ NoticeRow(t) \in rows' => NoticeRow(t) \in rows
        /\ \A x \in Ops : /\ OpRow(x) \in rows' <=> OpRow(x) \in rows \/ x = o
                          /\ OutboxRow(x) \in rows' <=> OutboxRow(x) \in rows
                          /\ QueueRow(x) \in rows' <=> QueueRow(x) \in rows /\ x \notin OpsOf(s)
                          /\ RequestRow(x) \in rows' <=> RequestRow(x) \in rows /\ x \notin OpsOf(s)
                          /\ SharedRow(x) \in rows' <=> SharedRow(x) \in rows
        /\ rows' \subseteq rows \cup {OpRow(o)}
    <2> DEFINE done == {s}
               after == Delete(left, UNION {ContentRows(t) : t \in done})
    <2>0. done \in SUBSET Sessions /\ \A t : t \in done <=> t = s
      OBVIOUS
    <2>1. after = Delete(left, ContentRows(s))
      <3>1. UNION {ContentRows(t) : t \in done} = ContentRows(s)
        OBVIOUS
      <3> QED BY <3>1
    <2> HIDE DEF done
    <2>2. /\ \A t \in Sessions : /\ SessionRow(t) \in after <=> SessionRow(t) \in left
                                 /\ TurnRow(t) \in after <=> TurnRow(t) \in left
                                 /\ ContentRow(t) \in after <=> ContentRow(t) \in left /\ t \notin done
                                 /\ ReceiptRow(t) \in after <=> ReceiptRow(t) \in left
                                 /\ NoticeRow(t) \in after <=> NoticeRow(t) \in left
          /\ \A x \in Ops : /\ OpRow(x) \in after <=> OpRow(x) \in left
                            /\ OutboxRow(x) \in after <=> OutboxRow(x) \in left
                            /\ QueueRow(x) \in after <=>
                                 QueueRow(x) \in left /\ \A t \in done : x \notin OpsOf(t)
                            /\ RequestRow(x) \in after <=>
                                 RequestRow(x) \in left /\ \A t \in done : x \notin OpsOf(t)
                            /\ SharedRow(x) \in after <=> SharedRow(x) \in left
          /\ after \subseteq left
      BY <2>0, ContentDelete
    <2> HIDE DEF after
    <2> QED BY <1>1, <1>4, <2>0, <2>1, <2>2 DEF SessionRow, TurnRow, ContentRow, ReceiptRow, NoticeRow,
         PushRow, OpRow, OutboxRow, QueueRow, RequestRow, SharedRow
  <1>6. \A x \in Ops : x \in OpsOf(s) => op[x].state # "open" /\ op[x].session = s
    BY <1>1 DEF Open, OpsOf
  <1>7. TypeOK'
    BY <1>1, <1>2, <1>3, <1>5 DEF TypeOK, Keys, OpTables, OpRow
  <1>8. Kinds'
    BY <1>0, <1>1, <1>2, <1>3 DEF IInv, Kinds
  <1>9. SessionRows'
    BY <1>1, <1>2, <1>5 DEF IInv, SessionRows, Exists
  <1>10. OpRows'
    BY <1>0, <1>1, <1>2, <1>3, <1>5, NumbersAreNatural DEF IInv, OpRows, Exists, Kinds, OpsOf
  <1>11. UnresolvedKept'
    BY <1>0, <1>1, <1>2, <1>3, <1>5, <1>6 DEF IInv, UnresolvedKept, Exists, Kinds, Open, OpsOf
  <1>12. Reserved'
    BY <1>0, <1>1, <1>2, <1>3, <1>5, <1>6 DEF IInv, Reserved, Unstarted, Kinds, OpRows, OpsOf
  <1> QED BY <1>7, <1>8, <1>9, <1>10, <1>11, <1>12 DEF IInv

\* What the statements that retire a session leave, one after the other.
LEMMA AfterSteps ==
  ASSUME NEW s
  PROVE  /\ After(s)[1] = rows
         /\ \A i \in 1..6 : After(s)[i + 1] = Delete(After(s)[i], RetireStatements(s)[i])
  <1> DEFINE q == RetireStatements(s)
             A2 == Delete(rows, q[1])
             A3 == Delete(A2, q[2])
             A4 == Delete(A3, q[3])
             A5 == Delete(A4, q[4])
             A6 == Delete(A5, q[5])
             A7 == Delete(A6, q[6])
             f == <<rows, A2, A3, A4, A5, A6, A7>>
             step(g, i) == IF i = 1 THEN rows ELSE Delete(g[i - 1], q[i - 1])
  <1> HIDE DEF q
  <1>1. f = [i \in 1..7 |-> step(f, i)]
    <2>1. \A i \in 1..7 : f[i] = step(f, i)
      <3> TAKE i \in 1..7
      <3>1. i = 1 \/ i = 2 \/ i = 3 \/ i = 4 \/ i = 5 \/ i = 6 \/ i = 7
        OBVIOUS
      <3> QED BY <3>1
    <2> HIDE DEF A2, A3, A4, A5, A6, A7, step
    <2>2. f = [i \in 1..7 |-> f[i]]
      OBVIOUS
    <2> QED BY <2>1, <2>2
  <1>2. PICK g : g = After(s)
    OBVIOUS
  <1>3. g = [i \in 1..7 |-> step(g, i)]
    <2> HIDE DEF f, step
    <2>1. g = CHOOSE h : h = [i \in 1..7 |-> IF i = 1 THEN rows ELSE Delete(h[i - 1], q[i - 1])]
      BY <1>2 DEF After, q
    <2>2. f = [i \in 1..7 |-> IF i = 1 THEN rows ELSE Delete(f[i - 1], q[i - 1])]
      BY <1>1 DEF step
    <2>3. g = [i \in 1..7 |-> IF i = 1 THEN rows ELSE Delete(g[i - 1], q[i - 1])]
      BY <2>1, <2>2
    <2> QED BY <2>3 DEF step
  <1>4. g[1] = rows /\ \A i \in 1..6 : g[i + 1] = Delete(g[i], q[i])
    <2> HIDE DEF f
    <2>1. \A j \in 1..7 : g[j] = step(g, j)
      <3> HIDE DEF step
      <3> QED BY <1>3
    <2>2. ASSUME NEW i \in 1..6 PROVE g[i + 1] = Delete(g[i], q[i])
      <3>1. i + 1 \in 1..7 /\ i + 1 # 1 /\ (i + 1) - 1 = i
        OBVIOUS
      <3>2. g[i + 1] = step(g, i + 1)
        BY <2>1, <3>1
      <3> QED BY <3>1, <3>2
    <2> QED BY <2>1, <2>2
  <1> QED BY <1>2, <1>4 DEF q

\* The rows a session takes with it.
Lost(s) ==
  {NoticeRow(s), PushRow(s), ReceiptRow(s), TurnRow(s), SessionRow(s), ShareRow(s)}
    \cup {OutboxRow(o) : o \in OpsOf(s)} \cup {OpRow(o) : o \in OpsOf(s)}
    \cup {SharedRow(o) : o \in {p \in Ops : op[p].session = s}}

LEMMA AfterIs ==
  ASSUME NEW s
  PROVE  /\ After(s)[2] = rows \ {NoticeRow(s), PushRow(s)}
         /\ After(s)[3] = After(s)[2] \ {ReceiptRow(s)}
         /\ After(s)[4] = After(s)[3] \ {OutboxRow(o) : o \in OpsOf(s)}
         /\ After(s)[5] = After(s)[4] \ {OpRow(o) : o \in OpsOf(s)}
         /\ After(s)[6] = After(s)[5] \ {TurnRow(s)}
         /\ After(s)[7] = After(s)[6] \ ({SessionRow(s), ShareRow(s)}
                            \cup {SharedRow(o) : o \in {p \in Ops : op[p].session = s}})
         /\ After(s)[7] = rows \ Lost(s)
  <1> DEFINE q == RetireStatements(s)
             g == After(s)
  <1>1. /\ q[1] = {NoticeRow(s)} /\ q[2] = {ReceiptRow(s)} /\ q[3] = {OutboxRow(o) : o \in OpsOf(s)}
        /\ q[4] = {OpRow(o) : o \in OpsOf(s)} /\ q[5] = {TurnRow(s)} /\ q[6] = {SessionRow(s)}
    BY DEF RetireStatements
  <1>2. /\ g[1] = rows /\ g[2] = Delete(g[1], q[1]) /\ g[3] = Delete(g[2], q[2])
        /\ g[4] = Delete(g[3], q[3]) /\ g[5] = Delete(g[4], q[4])
        /\ g[6] = Delete(g[5], q[5]) /\ g[7] = Delete(g[6], q[6])
    <2> HIDE DEF q, g
    <2>1. g[1] = rows /\ \A i \in 1..6 : g[i + 1] = Delete(g[i], q[i])
      BY AfterSteps DEF q, g
    <2> QED BY <2>1
  <1> HIDE DEF q, g
  <1>3. g[2] = rows \ {NoticeRow(s), PushRow(s)}
    BY <1>1, <1>2, NoticeDelete
  <1>4. g[3] = g[2] \ {ReceiptRow(s)}
    BY <1>1, <1>2, PlainDelete DEF ReceiptRow
  <1>5. g[4] = g[3] \ {OutboxRow(o) : o \in OpsOf(s)}
    BY <1>1, <1>2, PlainDelete DEF OutboxRow
  <1>6. g[5] = g[4] \ {OpRow(o) : o \in OpsOf(s)}
    BY <1>1, <1>2, PlainDelete DEF OpRow
  <1>7. g[6] = g[5] \ {TurnRow(s)}
    BY <1>1, <1>2, PlainDelete DEF TurnRow
  <1>8. g[7] = g[6] \ ({SessionRow(s), ShareRow(s)}
                         \cup {SharedRow(o) : o \in {p \in Ops : op[p].session = s}})
    BY <1>1, <1>2, SessionDelete
  <1>9. g[7] = rows \ Lost(s)
    BY <1>3, <1>4, <1>5, <1>6, <1>7, <1>8 DEF Lost
  <1> QED BY <1>3, <1>4, <1>5, <1>6, <1>7, <1>8, <1>9 DEF g

LEMMA RetireKeeps ==
  ASSUME IInv, NEW done \in SUBSET Sessions, Retire(done)
  PROVE  IInv'
  <1>1. /\ TypeOK /\ op' = op /\ sess' = sess /\ phase' \in {"idle", "clear"}
        /\ rows' = {k \in rows : \A s \in done : k \in After(s)[7]}
        /\ \A s \in done : Retirable(s)
    BY DEF IInv, Retire
  <1>2. rows' = {k \in rows : \A s \in done : k \notin Lost(s)}
    <2>1. \A s : After(s)[7] = rows \ Lost(s)
      BY AfterIs
    <2> QED BY <1>1, <2>1
  <1>3. /\ \A t \in Sessions :
             /\ SessionRow(t) \in rows' <=> SessionRow(t) \in rows /\ t \notin done
             /\ TurnRow(t) \in rows' <=> TurnRow(t) \in rows /\ t \notin done
             /\ ContentRow(t) \in rows' <=> ContentRow(t) \in rows
             /\ ReceiptRow(t) \in rows' <=> ReceiptRow(t) \in rows /\ t \notin done
             /\ NoticeRow(t) \in rows' <=> NoticeRow(t) \in rows /\ t \notin done
        /\ \A x \in Ops :
             /\ OpRow(x) \in rows' <=> OpRow(x) \in rows /\ \A s \in done : x \notin OpsOf(s)
             /\ OutboxRow(x) \in rows' <=> OutboxRow(x) \in rows /\ \A s \in done : x \notin OpsOf(s)
             /\ QueueRow(x) \in rows' <=> QueueRow(x) \in rows
             /\ RequestRow(x) \in rows' <=> RequestRow(x) \in rows
             /\ SharedRow(x) \in rows' <=> SharedRow(x) \in rows /\ op[x].session \notin done
        /\ rows' \subseteq rows
    BY <1>2 DEF Lost, SessionRow, TurnRow, ContentRow, ReceiptRow, NoticeRow, PushRow, ShareRow,
       OpRow, OutboxRow, QueueRow, RequestRow, SharedRow
  <1>4. \A s \in done : /\ sess[s].history = "purged"
                        /\ \A o \in Ops : OpRow(o) \in rows /\ op[o].session = s => op[o].state # "open"
    BY <1>1 DEF Retirable, Open, OpsOf
  <1>5. TypeOK'
    BY <1>1, <1>3 DEF TypeOK
  <1>6. Kinds'
    BY <1>1 DEF IInv, Kinds
  <1>7. SessionRows'
    BY <1>1, <1>3, <1>4 DEF IInv, SessionRows, Exists
  <1>8. OpRows'
    BY <1>1, <1>3, <1>4, NumbersAreNatural DEF IInv, OpRows, Exists, Kinds, OpsOf
  <1>9. UnresolvedKept'
    BY <1>1, <1>3, <1>4 DEF IInv, UnresolvedKept, Exists, Kinds, OpsOf
  <1>10. Reserved'
    BY <1>1, <1>3, <1>4 DEF IInv, Reserved, Unstarted
  <1> QED BY <1>5, <1>6, <1>7, <1>8, <1>9, <1>10 DEF IInv

LEMMA ClearKeeps ==
  ASSUME IInv, NEW complete \in BOOLEAN, Clear(complete)
  PROVE  IInv'
  <1> DEFINE gone == {OpRow(o) : o \in Detached}
             cleared == complete /\ ~DetachedRefused
  <1>1. /\ TypeOK /\ sess' = sess /\ phase' = "idle"
        /\ op' = [o \in Ops |-> IF OpRow(o) \in rows /\ Expendable(o)
                                THEN [op[o] EXCEPT !.payload = FALSE] ELSE op[o]]
        /\ rows' = IF cleared THEN Delete(Delete(rows, gone), OldReceipts) ELSE rows
    BY DEF IInv, Clear
  <1>2. /\ op' \in [Ops -> Operation]
        /\ \A x \in Ops : /\ op'[x].state = op[x].state /\ op'[x].kind = op[x].kind
                          /\ op'[x].session = op[x].session /\ op'[x].started = op[x].started
                          /\ op[x].payload /\ ~Expendable(x) => op'[x].payload
    BY <1>1 DEF TypeOK, Operation
  <1>3. Delete(Delete(rows, gone), OldReceipts) = (rows \ gone) \ OldReceipts
    <2>1. Delete(rows, gone) = rows \ gone
      BY PlainDelete DEF OpRow
    <2>2. Delete(rows \ gone, OldReceipts) = (rows \ gone) \ OldReceipts
      BY PlainDelete DEF OldReceipts, ReceiptRow
    <2> QED BY <2>1, <2>2
  <1>4. /\ \A t \in Sessions : /\ SessionRow(t) \in rows' <=> SessionRow(t) \in rows
                               /\ TurnRow(t) \in rows' <=> TurnRow(t) \in rows
                               /\ ContentRow(t) \in rows' <=> ContentRow(t) \in rows
                               /\ ReceiptRow(t) \in rows' => ReceiptRow(t) \in rows
                               /\ NoticeRow(t) \in rows' <=> NoticeRow(t) \in rows
        /\ \A x \in Ops : /\ OpRow(x) \in rows' <=> OpRow(x) \in rows /\ ~(cleared /\ x \in Detached)
                          /\ OutboxRow(x) \in rows' <=> OutboxRow(x) \in rows
                          /\ QueueRow(x) \in rows' <=> QueueRow(x) \in rows
                          /\ RequestRow(x) \in rows' <=> RequestRow(x) \in rows
                          /\ SharedRow(x) \in rows' <=> SharedRow(x) \in rows
        /\ rows' \subseteq rows
    <2>1. rows' = IF cleared THEN (rows \ gone) \ OldReceipts ELSE rows
      BY <1>1, <1>3
    <2> HIDE DEF cleared
    <2> QED BY <2>1 DEF OldReceipts, SessionRow, TurnRow, ContentRow, ReceiptRow, NoticeRow,
         OpRow, OutboxRow, QueueRow, RequestRow, SharedRow
  <1>5. ASSUME NEW x \in Ops, cleared, x \in Detached
        PROVE  /\ OutboxRow(x) \notin rows /\ SharedRow(x) \notin rows
               /\ QueueRow(x) \notin rows /\ RequestRow(x) \notin rows
               /\ op[x].session = None /\ op[x].state \in {"confirmed", "failed"}
    <2>1. op[x].session = None /\ op[x].state \in {"confirmed", "failed"} /\ OpRow(x) \in rows
      BY <1>5 DEF Detached
    <2>2. OutboxRow(x) \notin rows
      <3> SUFFICES ASSUME OutboxRow(x) \in rows PROVE FALSE
        OBVIOUS
      <3>1. References(OutboxRow(x)) = {OpRow(x)}
        BY DEF References, OutboxRow
      <3>2. Delete(rows, gone) = rows \ gone
        BY PlainDelete DEF OpRow
      <3>3. OutboxRow(x) \in Delete(rows, gone)
        BY <3>2 DEF OutboxRow, OpRow
      <3>4. OpRow(x) \in References(OutboxRow(x)) \cap (gone \cap rows)
        BY <1>5, <2>1, <3>1
      <3>5. Refused(rows, gone)
        BY <3>3, <3>4 DEF Refused
      <3> QED BY <1>5, <3>5 DEF DetachedRefused
    <2> QED BY <2>1, <2>2, NumbersAreNatural DEF IInv, OpRows, Kinds
  <1> HIDE DEF cleared, gone
  <1>6. TypeOK'
    BY <1>1, <1>2, <1>4 DEF TypeOK
  <1>7. Kinds'
    BY <1>1, <1>2 DEF IInv, Kinds
  <1>8. SessionRows'
    BY <1>1, <1>4 DEF IInv, SessionRows, Exists
  <1>9. OpRows'
    BY <1>1, <1>2, <1>4, <1>5, NumbersAreNatural DEF IInv, OpRows, Exists, Kinds
  <1>10. UnresolvedKept'
    <2> SUFFICES ASSUME NEW x \in Ops, op[x].state = "open"
                 PROVE  /\ OpRow(x) \in rows' /\ OutboxRow(x) \in rows' /\ op'[x].payload
                        /\ op'[x].session # None => /\ SessionRow(op'[x].session) \in rows'
                                                    /\ sess'[op'[x].session].history = "available"
      BY <1>2 DEF UnresolvedKept, Exists
    <2>1. /\ OpRow(x) \in rows /\ OutboxRow(x) \in rows /\ op[x].payload
          /\ op[x].session # None => /\ SessionRow(op[x].session) \in rows /\ op[x].session \in Sessions
                                     /\ sess[op[x].session].history = "available"
      BY DEF IInv, UnresolvedKept, Exists, Kinds
    <2>2. op'[x].payload
      BY <1>2, <2>1 DEF Expendable
    <2>3. OpRow(x) \in rows' /\ OutboxRow(x) \in rows'
      BY <1>4, <1>5, <2>1
    <2> QED BY <1>1, <1>2, <1>4, <2>1, <2>2, <2>3
  <1>11. Reserved'
    BY <1>1, <1>2, <1>4, <1>5 DEF IInv, Reserved, Unstarted, Expendable
  <1> QED BY <1>6, <1>7, <1>8, <1>9, <1>10, <1>11 DEF IInv

\* The invariant holds initially and is kept by every step.
THEOREM Invariant == Spec => []IInv
  <1>1. Init => IInv
    <2> SUFFICES ASSUME Init PROVE IInv
      OBVIOUS
    <2>1. NoOperation \in Operation /\ NoSession \in Session
      BY NumbersAreNatural DEF NoOperation, NoSession, Operation, Session
    <2>2. TypeOK
      BY <2>1 DEF Init, TypeOK
    <2> QED BY <2>2, NumbersAreNatural DEF Init, IInv, Kinds, SessionRows, OpRows, UnresolvedKept,
         Reserved, Unstarted, Exists, NoOperation, NoSession
  <1>2. IInv /\ [Next]_vars => IInv'
    <2> SUFFICES ASSUME IInv, [Next]_vars PROVE IInv'
      OBVIOUS
    <2>1. CASE UserNext
      BY <2>1, CreateKeeps, CommandKeeps, SharedSendKeeps, DeleteHistoryKeeps, ImportHistoryKeeps,
         ProjectHistoryKeeps, LocalCommandKeeps, StartKeeps, SettleKeeps, ReportKeeps DEF UserNext
    <2>2. CASE Day
      BY <2>2, DayKeeps
    <2>3. CASE MaintenanceNext
      BY <2>3, PurgeKeeps, RetireKeeps, ClearKeeps DEF MaintenanceNext
    <2>4. CASE Interrupted \/ UNCHANGED vars
      BY <2>4 DEF Interrupted, vars, dbVars, IInv, TypeOK, Kinds, SessionRows, OpRows,
         UnresolvedKept, Reserved, Unstarted, Exists
    <2> QED BY <2>1, <2>2, <2>3, <2>4 DEF Next
  <1> QED BY <1>1, <1>2, PTL DEF Spec

\* The type invariant: no handler and no statement of maintenance() writes a state the
\* others do not know.
THEOREM TypesKept == Spec => []TypeOK
  BY Invariant, PTL DEF IInv

\* purge(), retire and the clearing of payloads leave alone what is not resolved.
THEOREM UnresolvedIsKept == Spec => []UnresolvedKept
  BY Invariant, PTL DEF IInv

\* A confirmed message keeps what hands its turn over, through every clearing of payloads,
\* purge and deletion.
THEOREM HandoverIsKept == Spec => []HandoverKept
  <1>1. IInv => HandoverKept
    BY DEF IInv, Reserved, OpRows, HandoverKept
  <1> QED BY <1>1, Invariant, PTL

\* A statement of the retirement of a session is refused only because of a shared command.
LEMMA RetireRefusal ==
  ASSUME IInv, NEW s \in Sessions, Retirable(s), RetireRefused(s)
  PROVE  \E o \in OpsOf(s) : SharedRow(o) \in rows
  <1> SUFFICES ASSUME \A o \in OpsOf(s) : SharedRow(o) \notin rows PROVE FALSE
    OBVIOUS
  <1> DEFINE g == After(s)
             q == RetireStatements(s)
  <1>1. PICK i \in 1..6 : Refused(g[i], q[i])
    BY DEF RetireRefused
  <1>2. PICK k \in g[i + 1] : References(k) \cap (q[i] \cap g[i]) # {}
    BY <1>1, AfterSteps DEF Refused
  <1>3. /\ q[1] = {NoticeRow(s)} /\ q[2] = {ReceiptRow(s)} /\ q[3] = {OutboxRow(o) : o \in OpsOf(s)}
        /\ q[4] = {OpRow(o) : o \in OpsOf(s)} /\ q[5] = {TurnRow(s)} /\ q[6] = {SessionRow(s)}
    BY DEF RetireStatements
  <1>4. /\ g[2] = rows \ {NoticeRow(s), PushRow(s)} /\ g[3] = g[2] \ {ReceiptRow(s)}
        /\ g[4] = g[3] \ {OutboxRow(o) : o \in OpsOf(s)}
        /\ g[5] = g[4] \ {OpRow(o) : o \in OpsOf(s)} /\ g[6] = g[5] \ {TurnRow(s)}
        /\ g[7] = g[6] \ ({SessionRow(s), ShareRow(s)}
                             \cup {SharedRow(o) : o \in {p \in Ops : op[p].session = s}})
    BY AfterIs
  <1>5. sess[s].history = "purged"
    BY DEF Retirable
  <1> HIDE DEF g, q
  <1>6. k \in rows /\ k \in Keys
    <2>1. g[2] \subseteq rows /\ g[3] \subseteq rows /\ g[4] \subseteq rows
          /\ g[5] \subseteq rows /\ g[6] \subseteq rows /\ g[7] \subseteq rows
      BY <1>4
    <2>2. i = 1 \/ i = 2 \/ i = 3 \/ i = 4 \/ i = 5 \/ i = 6
      OBVIOUS
    <2> QED BY <1>2, <2>1, <2>2 DEF IInv, TypeOK
  \* Which rows refer to a notification, a receipt or an outbox row: none.
  <1>7. PICK r \in References(k) : r \in q[i]
    BY <1>2
  <1>8. \/ \E o \in Ops : k \in {OpRow(o), OutboxRow(o), QueueRow(o), RequestRow(o), SharedRow(o)}
        \/ \E t \in Sessions : k \in {SessionRow(t), TurnRow(t), ContentRow(t), ReceiptRow(t),
                                      NoticeRow(t), PushRow(t), ShareRow(t)}
    BY <1>6 DEF Keys, SessionTables, OpTables, OpRow, OutboxRow, QueueRow, RequestRow, SharedRow,
       SessionRow, TurnRow, ContentRow, ReceiptRow, NoticeRow, PushRow, ShareRow
  <1>9. ASSUME NEW o \in Ops, k \in {OpRow(o), OutboxRow(o), QueueRow(o), RequestRow(o), SharedRow(o)}
        PROVE  FALSE
    <2>1. \/ k = OpRow(o) /\ r \in {SessionRow(op[o].session), TurnRow(op[o].session)}
          \/ k = OutboxRow(o) /\ r = OpRow(o)
          \/ k = QueueRow(o) /\ r \in {OpRow(o), SessionRow(op[o].session)}
          \/ k = RequestRow(o) /\ r \in {OpRow(o), SessionRow(op[o].session), TurnRow(op[o].session)}
          \/ k = SharedRow(o) /\ r = OpRow(o)
      BY <1>7, <1>9 DEF References, OpRow, OutboxRow, QueueRow, RequestRow, SharedRow
    <2>2. OpRow(o) \in rows
      BY <1>6, <1>9 DEF IInv, OpRows
    <2>3. r = OpRow(o) \/ r = SessionRow(op[o].session) \/ r = TurnRow(op[o].session)
      BY <2>1
    <2>4. i \in {4, 5, 6} /\ op[o].session = s /\ o \in OpsOf(s)
      <3>1. i = 1 \/ i = 2 \/ i = 3 \/ i = 4 \/ i = 5 \/ i = 6
        OBVIOUS
      <3>2. i \notin {1, 2, 3}
        BY <1>3, <1>7, <2>3 DEF NoticeRow, ReceiptRow, OutboxRow, OpRow, SessionRow, TurnRow
      <3>3. i = 4 => o \in OpsOf(s)
        BY <1>3, <1>7, <2>3 DEF OpRow, SessionRow, TurnRow
      <3>4. i \in {5, 6} => op[o].session = s
        BY <1>3, <1>7, <2>3 DEF OpRow, SessionRow, TurnRow
      <3> QED BY <2>2, <3>1, <3>2, <3>3, <3>4 DEF OpsOf
    <2>5. k = OpRow(o) \/ k = OutboxRow(o)
      <3>1. QueueRow(o) \notin rows /\ RequestRow(o) \notin rows
        BY <1>5, <2>4 DEF IInv, OpRows
      <3> QED BY <1>6, <1>9, <2>4, <3>1
    <2>6. OutboxRow(o) \notin g[4] /\ OutboxRow(o) \notin g[5] /\ OutboxRow(o) \notin g[6] /\ OutboxRow(o) \notin g[7]
      BY <1>4, <2>4
    <2>7. k = OpRow(o) /\ i = 4
      <3>1. OpRow(o) \notin g[5] /\ OpRow(o) \notin g[6] /\ OpRow(o) \notin g[7]
        BY <1>4, <2>4
      <3>2. k \in g[5] \/ k \in g[6] \/ k \in g[7]
        BY <1>2, <2>4
      <3> QED BY <1>2, <2>4, <2>5, <2>6, <3>1, <3>2
    <2>8. OpRow(o) \notin g[5] /\ k \in g[5]
      BY <1>2, <1>4, <2>4, <2>7
    <2> QED BY <2>7, <2>8
  <1>10. ASSUME NEW t \in Sessions, k \in {SessionRow(t), TurnRow(t), ContentRow(t), ReceiptRow(t),
                                          NoticeRow(t), PushRow(t), ShareRow(t)}
         PROVE  FALSE
    <2>1. \/ k = TurnRow(t) /\ r = SessionRow(t)
          \/ k = ContentRow(t) /\ r \in {SessionRow(t), TurnRow(t)}
          \/ k = ReceiptRow(t) /\ r = SessionRow(t)
          \/ k = NoticeRow(t) /\ r = SessionRow(t)
      BY <1>7, <1>10 DEF References, SessionRow, TurnRow, ContentRow, ReceiptRow, NoticeRow,
         PushRow, ShareRow
    <2>2. i \in {5, 6} /\ t = s
      <3>1. i = 1 \/ i = 2 \/ i = 3 \/ i = 4 \/ i = 5 \/ i = 6
        OBVIOUS
      <3>2. i \notin {1, 2, 3, 4}
        BY <1>3, <1>7, <2>1 DEF NoticeRow, ReceiptRow, OutboxRow, OpRow, SessionRow, TurnRow
      <3>3. i \in {5, 6} => t = s
        BY <1>3, <1>7, <2>1 DEF SessionRow, TurnRow
      <3> QED BY <3>1, <3>2, <3>3
    <2>3. ContentRow(s) \notin rows
      BY <1>5 DEF IInv, SessionRows
    <2>4. i = 6 \/ (i = 5 /\ r = TurnRow(s))
      BY <1>3, <1>7, <2>2
    <2>5. i = 6
      BY <1>6, <2>1, <2>2, <2>3, <2>4 DEF SessionRow, TurnRow
    <2>6. NoticeRow(s) \notin g[7] /\ ReceiptRow(s) \notin g[7] /\ TurnRow(s) \notin g[7]
      BY <1>4
    <2> QED BY <1>2, <1>6, <2>1, <2>2, <2>3, <2>5, <2>6
  <1> QED BY <1>8, <1>9, <1>10

\* The database refuses what maintenance() deletes for the two known causes only.
THEOREM RefusalsHaveACause == Spec => []RefusedOnlyForCause
  <1>1. IInv => RefusedOnlyForCause
    <2> SUFFICES ASSUME IInv PROVE RefusedOnlyForCause
      OBVIOUS
    <2>1. \A s \in Sessions : Retirable(s) /\ RetireRefused(s) => \E o \in OpsOf(s) : SharedRow(o) \in rows
      BY RetireRefusal
    <2>2. ASSUME DetachedRefused PROVE \E o \in Detached : op[o].kind = "history"
      <3> DEFINE gone == {OpRow(o) : o \in Detached}
      <3>1. Delete(rows, gone) = rows \ gone
        BY PlainDelete DEF OpRow
      <3>2. PICK k \in rows \ gone : References(k) \cap (gone \cap rows) # {}
        BY <2>2, <3>1 DEF DetachedRefused, Refused
      <3>3. PICK o \in Detached : OpRow(o) \in References(k)
        BY <3>2
      <3>4. o \in Ops /\ op[o].session = None /\ OpRow(o) \in rows
        BY <3>3 DEF Detached
      <3>5. k \in {OutboxRow(o), QueueRow(o), RequestRow(o), SharedRow(o)}
        <4>1. k[1] \in {"command_outbox", "queue_items", "interaction_requests", "session_share_commands"}
              /\ k[2] = o
          BY <3>3 DEF References, OpRow, SessionRow, TurnRow
        <4>2. k = <<k[1], k[2]>>
          BY <3>2 DEF IInv, TypeOK, Keys
        <4> QED BY <4>1, <4>2 DEF OutboxRow, QueueRow, RequestRow, SharedRow
      <3>6. k = OutboxRow(o)
        BY <3>2, <3>4, <3>5, NumbersAreNatural DEF IInv, OpRows, Kinds
      <3>7. op[o].kind = "history"
        BY <3>2, <3>4, <3>6, NumbersAreNatural DEF IInv, OpRows, Kinds
      <3> QED BY <3>3, <3>7
    <2> QED BY <2>1, <2>2 DEF RefusedOnlyForCause
  <1> QED BY <1>1, Invariant, PTL

=============================================================================
