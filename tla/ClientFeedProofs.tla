-------------------------- MODULE ClientFeedProofs --------------------------
(***************************************************************************)
(* Why a client has no gap and shows what its cursor says: the frames      *)
(* behind the last ready are what pump() has sent since, and every copy of *)
(* the timeline (the Gateway's, a checkpoint's, the client's) is what the  *)
(* log says up to its number.                                              *)
(***************************************************************************)
EXTENDS ClientFeed, WellFoundedInduction, TLAPS

Codes == {"CURSOR_EXPIRED", "HISTORY_PURGED"}
Modes == {"off", "idle", "asked", "recovering", "live", "expired"}

Frame == [type : {"change", "event"}, number : Nat]
           \cup [type : {"ready"}, revision : Nat, highWater : Nat]
           \cup [type : {"error"}, code : Codes]

PeerType  == [open : BOOLEAN, watching : BOOLEAN, revision : Nat, cursor : Nat, queue : Seq(Frame)]
PhoneType == [mode : Modes, revision : Nat, cursor : Nat, items : [Items -> ItemType],
              wants : BOOLEAN, untilRevision : Nat, untilEvent : Nat, inbox : Seq(Frame)]

LogEvent == [item : Items, kind : Kinds]

Stored ==
  /\ log \in Seq(LogEvent) /\ Len(log) <= MaxEvents
  /\ timeline \in [Items -> ItemType]
  /\ revision \in 0..MaxRevision /\ floor \in 0..revision /\ purged \in BOOLEAN
  /\ checkpoint \in [sequence : 0..Len(log), items : [Items -> ItemType]]

Types == Stored /\ peer \in PeerType /\ phone \in PhoneType

\* A frame tells what is committed, of r changes and n events; as long as the client
\* wants the events, every barrier has a high water.
FrameHolds(f, r, n, wants) ==
  /\ f.type = "change" => f.number \in 1..r
  /\ f.type = "event" => f.number \in 1..n
  /\ f.type = "ready" => /\ f.revision \in 0..r /\ f.highWater \in 0..n \cup {Unwatched}
                         /\ wants => f.highWater # Unwatched

\* No number is ahead of what is committed.
PeerHolds(p, r, n, wants) ==
  /\ Len(p.queue) <= QueueFrames
  /\ p.revision <= r /\ p.cursor \in 0..n \cup {Unwatched}
  /\ \A f \in Range(p.queue) : FrameHolds(f, r, n, wants)

PhoneHolds(ph, r, n) ==
  /\ ph.revision <= r /\ ph.untilRevision <= r
  /\ ph.cursor <= n /\ ph.untilEvent \in 0..n \cup {Unwatched}
  /\ ph.wants => ph.untilEvent # Unwatched
  /\ \A f \in Range(ph.inbox) : FrameHolds(f, r, n, ph.wants)

\* Every copy of the timeline is what the events up to its number say.
Copies ==
  /\ ~purged => \A i \in Items : Says(log, timeline[i], i, Len(log))
  /\ \A i \in Items : Says(log, checkpoint.items[i], i, checkpoint.sequence)
  /\ BodyMatchesCursor

IInv ==
  /\ Types /\ Copies /\ NoGapAtBarrier
  /\ PeerHolds(peer, revision, Len(log), phone.wants) /\ PhoneHolds(phone, revision, Len(log))

-----------------------------------------------------------------------------
(* Sequences and the least number. *)

\* A bounded sequence.
LEMMA ShortSeq ==
  ASSUME NEW S, NEW n \in Nat, NEW s
  PROVE  /\ s \in SeqOf(S, n) => s \in Seq(S) /\ Len(s) <= n
         /\ s \in Seq(S) /\ Len(s) <= n => s \in SeqOf(S, n)
<1>1. ASSUME s \in SeqOf(S, n) PROVE s \in Seq(S) /\ Len(s) <= n
  <2>1. PICK m \in 0..n : s \in [1..m -> S]
    BY <1>1 DEF SeqOf
  <2>2. m \in Nat /\ s \in Seq(S) /\ Len(s) = m
    BY <2>1
  <2> QED BY <2>1, <2>2
<1>2. ASSUME s \in Seq(S), Len(s) <= n PROVE s \in SeqOf(S, n)
  <2>1. s \in [1..Len(s) -> S] /\ Len(s) \in 0..n
    BY <1>2
  <2> QED BY <2>1 DEF SeqOf
<1> QED BY <1>1, <1>2

\* Induction, from the least number that is not in S.
LEMMA Induct ==
  ASSUME NEW S, 0 \in S, \A n \in Nat : n \in S => n + 1 \in S
  PROVE  Nat \subseteq S
<1> DEFINE T == Nat \ S
<1> SUFFICES ASSUME T # {} PROVE FALSE
  OBVIOUS
<1>1. PICK x \in T : \A y \in T : ~(<<y, x>> \in OpToRel(<, Nat))
  BY WFMin, NatLessThanWellFounded
<1>2. x \in Nat /\ x # 0 /\ x - 1 \in Nat /\ (x - 1) + 1 = x /\ x - 1 < x
  OBVIOUS
<1>3. x - 1 \notin S
  BY <1>2
<1>4. <<x - 1, x>> \in OpToRel(<, Nat)
  BY <1>2 DEF OpToRel
<1> QED BY <1>1, <1>2, <1>3, <1>4

\* What a concatenation consists of.
LEMMA Joined ==
  ASSUME NEW S, NEW s \in Seq(S), NEW t \in Seq(S)
  PROVE  /\ s \o t \in Seq(S) /\ Len(s \o t) = Len(s) + Len(t) /\ Len(s) \in Nat /\ Len(t) \in Nat
         /\ \A k \in 1..Len(s) : (s \o t)[k] = s[k] /\ k \in 1..Len(s \o t)
         /\ \A k \in 1..Len(t) : (s \o t)[Len(s) + k] = t[k] /\ Len(s) + k \in 1..Len(s \o t)
         /\ \A k \in 1..Len(s \o t) :
              \/ k \in 1..Len(s)
              \/ k > Len(s) /\ k - Len(s) \in 1..Len(t) /\ (s \o t)[k] = t[k - Len(s)]
  OBVIOUS

\* Three sequences after each other.
LEMMA Associates ==
  ASSUME NEW a \in Seq(Frame), NEW b \in Seq(Frame), NEW c \in Seq(Frame)
  PROVE  (a \o b) \o c = a \o (b \o c) /\ b \o c \in Seq(Frame)
<1> DEFINE x == (a \o b) \o c
           y == a \o (b \o c)
<1>1. a \o b \in Seq(Frame) /\ b \o c \in Seq(Frame) /\ x \in Seq(Frame) /\ y \in Seq(Frame)
  OBVIOUS
<1>2. /\ Len(x) = Len(a) + Len(b) + Len(c) /\ Len(y) = Len(a) + Len(b) + Len(c)
      /\ Len(a) \in Nat /\ Len(b) \in Nat /\ Len(c) \in Nat
  OBVIOUS
<1>3. ASSUME NEW k \in 1..Len(x) PROVE x[k] = y[k]
  BY <1>2, <1>3
<1> HIDE DEF x, y
<1>4. x = [k \in 1..Len(x) |-> x[k]] /\ y = [k \in 1..Len(y) |-> y[k]] /\ Len(x) = Len(y)
  BY <1>1, <1>2
<1>5. x = y
  BY <1>3, <1>4
<1> QED BY <1>1, <1>5 DEF x, y

\* The smaller of two numbers.
LEMMA Least ==
  ASSUME NEW a \in Nat, NEW b \in Nat
  PROVE  /\ Min({a, b}) \in {a, b} /\ Min({a, b}) <= a /\ Min({a, b}) <= b
         /\ Min({a, b}) \in Nat
<1>1. \E x \in {a, b} : \A y \in {a, b} : x <= y
  BY a <= b \/ b <= a
<1> QED BY <1>1 DEF Min

-----------------------------------------------------------------------------
(* The projection. *)

\* A cut text.
LEMMA Truncated ==
  ASSUME NEW S, NEW text \in Seq(S)
  PROVE  /\ Truncate(text) \in Seq(S) /\ Len(Truncate(text)) <= MaxText
         /\ Len(text) <= MaxText => Truncate(text) = text
         /\ Len(text) > MaxText => Len(Truncate(text)) = MaxText
         /\ \A k \in 1..Len(Truncate(text)) : k \in 1..Len(text) /\ Truncate(text)[k] = text[k]
  BY ConstantsAssumption DEF Truncate

\* The fields of an item.
LEMMA ItemFields ==
  ASSUME NEW x
  PROVE  x \in ItemType => /\ x.text \in Seq(1..MaxEvents) /\ Len(x.text) \in Nat /\ Len(x.text) <= MaxText
                           /\ x.complete \in BOOLEAN /\ x.cut \in BOOLEAN
<1> SUFFICES ASSUME x \in ItemType
             PROVE  /\ x.text \in Seq(1..MaxEvents) /\ Len(x.text) \in Nat /\ Len(x.text) <= MaxText
                    /\ x.complete \in BOOLEAN /\ x.cut \in BOOLEAN
  OBVIOUS
<1>1. x.text \in SeqOf(1..MaxEvents, MaxText) /\ x.complete \in BOOLEAN /\ x.cut \in BOOLEAN
  BY DEF ItemType
<1>2. x.text \in Seq(1..MaxEvents) /\ Len(x.text) <= MaxText
  BY <1>1, ShortSeq, ConstantsAssumption
<1> QED BY <1>1, <1>2

\* What Project makes of one item.
Projected(prev, e, n) ==
  LET text == IF e.kind = "delta" THEN Append(prev.text, n) ELSE <<n>> IN
  IF e.kind = "delta" /\ prev.complete THEN prev
  ELSE [text |-> Truncate(text), complete |-> e.kind = "completed",
        cut |-> Len(text) > MaxText \/ (e.kind = "delta" /\ prev.cut)]

\* Project changes the item of the event.
LEMMA ProjectOne ==
  ASSUME NEW items \in [Items -> ItemType], NEW e \in LogEvent, NEW n \in 1..MaxEvents
  PROVE  /\ Project(items, e, n) \in [Items -> ItemType]
         /\ \A i \in Items : Project(items, e, n)[i] = IF i = e.item THEN Projected(items[i], e, n) ELSE items[i]
<1> DEFINE prev == items[e.item]
           text == IF e.kind = "delta" THEN Append(prev.text, n) ELSE <<n>>
           x == [text |-> Truncate(text), complete |-> e.kind = "completed",
                 cut |-> Len(text) > MaxText \/ (e.kind = "delta" /\ prev.cut)]
<1>1. e.item \in Items /\ prev \in ItemType
  BY DEF LogEvent
<1>2. prev.text \in Seq(1..MaxEvents)
  BY <1>1, ItemFields
<1>3. text \in Seq(1..MaxEvents)
  <2>1. Append(prev.text, n) \in Seq(1..MaxEvents) /\ <<n>> \in Seq(1..MaxEvents)
    BY <1>2
  <2> QED BY <2>1, Zenon
<1>4. Truncate(text) \in SeqOf(1..MaxEvents, MaxText)
  BY <1>3, Truncated, ShortSeq, ConstantsAssumption
<1>5. x.cut \in BOOLEAN /\ x.complete \in BOOLEAN
  OBVIOUS
<1>6. x \in ItemType
  BY <1>4, <1>5 DEF ItemType
<1>7. Project(items, e, n) = IF e.kind = "delta" /\ prev.complete THEN items ELSE [items EXCEPT ![e.item] = x]
  BY DEF Project
<1>8. Projected(prev, e, n) = IF e.kind = "delta" /\ prev.complete THEN prev ELSE x
  BY DEF Projected
<1> HIDE DEF x, prev
<1>9. items[e.item] = prev
  BY DEF prev
<1>10. CASE e.kind = "delta" /\ prev.complete
  BY <1>7, <1>8, <1>9, <1>10
<1>11. CASE ~(e.kind = "delta" /\ prev.complete)
  <2>1. Project(items, e, n) = [items EXCEPT ![e.item] = x] /\ Projected(prev, e, n) = x
    BY <1>7, <1>8, <1>11
  <2> QED BY <1>1, <1>6, <1>9, <2>1
<1> QED BY <1>10, <1>11

\* The last completion.
LEMMA MaxNext ==
  ASSUME NEW n \in Nat, NEW S \in SUBSET (1..n)
  PROVE  Max(S \cup {n + 1}) = n + 1
<1>1. n + 1 \in S \cup {n + 1} /\ \A y \in S \cup {n + 1} : n + 1 >= y
  OBVIOUS
<1>2. \A x \in S \cup {n + 1} : (\A y \in S \cup {n + 1} : x >= y) => x = n + 1
  OBVIOUS
<1> QED BY <1>1, <1>2 DEF Max

\* A delta behind a list of deltas.
LEMMA ListsNext ==
  ASSUME NEW n \in Nat, NEW deltas \in SUBSET (1..n), NEW text \in Seq(1..MaxEvents), Lists(text, deltas)
  PROVE  /\ Lists(Truncate(Append(text, n + 1)), deltas \cup {n + 1})
         /\ (deltas \cup {n + 1} # Range(Truncate(Append(text, n + 1)))) <=>
              (Len(Append(text, n + 1)) > MaxText \/ deltas # Range(text))
<1> DEFINE long == Append(text, n + 1)
           all  == deltas \cup {n + 1}
<1>1. /\ Len(text) \in Nat /\ Len(text) <= MaxText /\ DOMAIN text = 1..Len(text)
      /\ \A k \in 1..Len(text) : /\ text[k] \in deltas /\ text[k] \in 1..n
                                 /\ \A l \in 1..Len(text) : k < l => text[k] < text[l]
      /\ \A m \in deltas \ Range(text) : Len(text) = MaxText /\ \A k \in 1..Len(text) : text[k] < m
  <2>1. DOMAIN text = 1..Len(text) /\ Len(text) \in Nat
    OBVIOUS
  <2>2. /\ Len(text) <= MaxText
        /\ \A k \in 1..Len(text) : text[k] \in deltas /\ \A l \in 1..Len(text) : k < l => text[k] < text[l]
        /\ \A m \in deltas \ Range(text) : Len(text) = MaxText /\ \A k \in 1..Len(text) : text[k] < m
    BY <2>1, Zenon DEF Lists
  <2> QED BY <2>1, <2>2
<1>2. /\ long \in Seq(Nat) /\ Len(long) = Len(text) + 1 /\ long[Len(text) + 1] = n + 1
      /\ \A k \in 1..Len(text) : long[k] = text[k] /\ k \in 1..Len(long)
      /\ \A k \in 1..Len(long) : k \in 1..Len(text) \/ k = Len(text) + 1
      /\ DOMAIN long = 1..Len(long)
  BY <1>1
<1>3. text \in Seq(Nat) /\ MaxText \in Nat
  BY ConstantsAssumption
<1>0. Len(text) \in Nat /\ Len(text) <= MaxText /\ MaxText \in Nat /\ Len(long) = Len(text) + 1
  BY <1>1, <1>2, <1>3, Zenon
<1> HIDE DEF long
<1>4. CASE Len(text) < MaxText
  <2>0. Len(long) <= MaxText
    BY <1>0, <1>4
  <2>1. Truncate(long) = long
    BY <1>2, <2>0, Truncated
  <2>2. deltas = Range(text)
    <3>1. \A x \in deltas : x \in Range(text)
      <4>1. Len(text) # MaxText
        BY <1>0, <1>4
      <4> QED BY <1>1, <4>1, Zenon
    <3>2. \A x \in Range(text) : x \in deltas
      BY <1>1 DEF Range
    <3> QED BY <3>1, <3>2
  <2>3. Range(long) = all
    <3>1. \A x \in Range(long) : x \in all
      BY <1>1, <1>2 DEF Range
    <3>2. \A x \in Range(text) : x \in Range(long)
      BY <1>1, <1>2 DEF Range
    <3>3. n + 1 \in Range(long)
      BY <1>1, <1>2 DEF Range
    <3> QED BY <2>2, <3>1, <3>2, <3>3
  <2>4. Lists(long, all)
    <3>1. \A k \in 1..Len(long) : long[k] \in all /\ \A l \in 1..Len(long) : k < l => long[k] < long[l]
      <4> SUFFICES ASSUME NEW k \in 1..Len(long)
                   PROVE  long[k] \in all /\ \A l \in 1..Len(long) : k < l => long[k] < long[l]
        OBVIOUS
      <4>1. CASE k \in 1..Len(text)
        BY <1>1, <1>2, <4>1
      <4>2. CASE k = Len(text) + 1
        BY <1>1, <1>2, <4>2
      <4> QED BY <1>2, <4>1, <4>2
    <3> QED BY <1>2, <2>0, <2>3, <3>1 DEF Lists
  <2>5. ~(Len(long) > MaxText)
    BY <1>2, <1>3, <2>0
  <2> QED BY <2>1, <2>2, <2>3, <2>4, <2>5 DEF long
<1>5. CASE Len(text) = MaxText
  <2>1. Truncate(long) = text
    <3>1. Len(long) > MaxText
      BY <1>1, <1>2, <1>3, <1>5
    <3>2. /\ Truncate(long) \in Seq(Nat) /\ Len(Truncate(long)) = Len(text)
          /\ \A k \in 1..Len(Truncate(long)) : Truncate(long)[k] = long[k]
      BY <1>2, <1>5, <3>1, Truncated
    <3>3. \A k \in 1..Len(text) : Truncate(long)[k] = text[k]
      BY <1>2, <3>2
    <3>4. text \in Seq(Nat)
      BY <1>3
    <3> HIDE DEF Truncate
    <3>5. /\ Truncate(long) = [k \in 1..Len(text) |-> Truncate(long)[k]]
          /\ text = [k \in 1..Len(text) |-> text[k]]
      BY <3>2, <3>4
    <3> QED BY <3>3, <3>5
  <2>2. n + 1 \notin Range(text)
    BY <1>1 DEF Range
  <2>3. Lists(text, all)
    <3>1. \A m \in all \ Range(text) : Len(text) = MaxText /\ \A k \in 1..Len(text) : text[k] < m
      BY <1>1, <1>5
    <3> QED BY <1>1, <3>1 DEF Lists
  <2>4. Len(long) > MaxText
    BY <1>1, <1>2, <1>3, <1>5
  <2> QED BY <2>1, <2>2, <2>3, <2>4 DEF long
<1>6. Len(text) < MaxText \/ Len(text) = MaxText
  BY <1>0
<1> QED BY <1>4, <1>5, <1>6

\* What the log says of the items stays when Project adds its next event.
LEMMA ProjectSays ==
  ASSUME NEW lg \in Seq(LogEvent), Len(lg) <= MaxEvents,
         NEW items \in [Items -> ItemType], NEW n \in Nat, n < Len(lg),
         \A i \in Items : Says(lg, items[i], i, n)
  PROVE  /\ Project(items, lg[n + 1], n + 1) \in [Items -> ItemType]
         /\ \A i \in Items : Says(lg, Project(items, lg[n + 1], n + 1)[i], i, n + 1)
<1> DEFINE e == lg[n + 1]
           m == n + 1
<1>1. e \in LogEvent /\ m \in 1..MaxEvents
  <2>1. m \in 1..Len(lg)
    OBVIOUS
  <2> QED BY <2>1, ConstantsAssumption
<1>2. e.kind \in {"delta", "completed"}
  BY <1>1 DEF LogEvent, Kinds
<1>3. /\ Project(items, e, m) \in [Items -> ItemType]
      /\ \A i \in Items : Project(items, e, m)[i] = IF i = e.item THEN Projected(items[i], e, m) ELSE items[i]
  BY <1>1, ProjectOne
<1>4. ASSUME NEW i \in Items PROVE Says(lg, Project(items, e, m)[i], i, m)
  <2> DEFINE prev == items[i]
             done == Of(lg, i, "completed", n)
             deltas == Of(lg, i, "delta", n)
             x == Project(items, e, m)[i]
  <2>1. prev \in ItemType /\ Says(lg, prev, i, n) /\ done \subseteq 1..n /\ deltas \subseteq 1..n
    BY DEF Of
  <2>2. /\ Of(lg, i, "completed", m) = IF e.item = i /\ e.kind = "completed" THEN done \cup {m} ELSE done
        /\ Of(lg, i, "delta", m) = IF e.item = i /\ e.kind = "delta" THEN deltas \cup {m} ELSE deltas
    <3>1. n \in Nat /\ m = n + 1
      OBVIOUS
    <3> HIDE DEF m
    <3>2. ASSUME NEW kind
          PROVE  Of(lg, i, kind, n + 1) = IF lg[n + 1].item = i /\ lg[n + 1].kind = kind
                                          THEN Of(lg, i, kind, n) \cup {n + 1} ELSE Of(lg, i, kind, n)
      <4>1. 1..(n + 1) = (1..n) \cup {n + 1}
        OBVIOUS
      <4> QED BY <4>1 DEF Of
    <3> QED BY <3>1, <3>2
  <2>3. CASE e.item # i
    <3>1. x = prev /\ Of(lg, i, "completed", m) = done /\ Of(lg, i, "delta", m) = deltas
      BY <1>3, <2>2, <2>3
    <3> QED BY <2>1, <3>1 DEF Says
  <2>4. CASE e.item = i /\ e.kind = "completed"
    <3>1. x = Projected(prev, e, m)
      BY <1>3, <2>4
    <3>2. x = [text |-> Truncate(<<m>>), complete |-> TRUE, cut |-> Len(<<m>>) > MaxText]
      <4>1. e.kind # "delta" /\ e.kind = "completed"
        BY <2>4
      <4> HIDE DEF x, prev, e, m
      <4>2. Projected(prev, e, m) = [text |-> Truncate(<<m>>), complete |-> TRUE, cut |-> Len(<<m>>) > MaxText]
        <5>1. Projected(prev, e, m) = [text |-> Truncate(<<m>>), complete |-> e.kind = "completed",
                                       cut |-> Len(<<m>>) > MaxText \/ (e.kind = "delta" /\ prev.cut)]
          BY <4>1 DEF Projected
        <5>2. /\ (Len(<<m>>) > MaxText \/ (e.kind = "delta" /\ prev.cut)) = (Len(<<m>>) > MaxText)
              /\ (e.kind = "completed") = TRUE
          BY <4>1
        <5> QED BY <5>1, <5>2, Zenon
      <4> QED BY <3>1, <4>2
    <3>3. (Len(<<m>>) > MaxText) = (MaxText = 0)
      BY ConstantsAssumption
    <3>4. Of(lg, i, "completed", m) = done \cup {m} /\ Max(done \cup {m}) = m
      BY <2>1, <2>2, <2>4, MaxNext
    <3> QED BY <3>2, <3>3, <3>4 DEF Says
  <2>5. CASE e.item = i /\ e.kind = "delta" /\ done # {}
    <3>1. prev.complete
      BY <2>1, <2>5 DEF Says
    <3>2. x = prev
      BY <1>3, <2>5, <3>1 DEF Projected
    <3>3. Of(lg, i, "completed", m) = done
      BY <2>2, <2>5
    <3> QED BY <2>1, <2>5, <3>2, <3>3 DEF Says
  <2>6. CASE e.item = i /\ e.kind = "delta" /\ done = {}
    <3>1. ~prev.complete /\ Lists(prev.text, deltas) /\ prev.cut = (deltas # Range(prev.text))
      BY <2>1, <2>6 DEF Says
    <3>2. x = [text |-> Truncate(Append(prev.text, m)), complete |-> FALSE,
               cut |-> Len(Append(prev.text, m)) > MaxText \/ prev.cut]
      BY <1>3, <2>6, <3>1 DEF Projected
    <3>3. prev.text \in Seq(1..MaxEvents)
      BY <2>1, ItemFields
    <3>4. /\ Lists(Truncate(Append(prev.text, m)), deltas \cup {m})
          /\ (deltas \cup {m} # Range(Truncate(Append(prev.text, m)))) <=>
               (Len(Append(prev.text, m)) > MaxText \/ deltas # Range(prev.text))
      BY <2>1, <3>1, <3>3, ListsNext
    <3>5. Of(lg, i, "completed", m) = {} /\ Of(lg, i, "delta", m) = deltas \cup {m}
      BY <2>2, <2>6
    <3>6. x.cut = (deltas \cup {m} # Range(x.text)) /\ x.text = Truncate(Append(prev.text, m)) /\ ~x.complete
      <4> DEFINE long == Append(prev.text, m)
      <4> HIDE DEF long
      <4>1. x.text = Truncate(long) /\ x.complete = FALSE /\ x.cut = (Len(long) > MaxText \/ prev.cut)
        BY <3>2 DEF long
      <4>2. (deltas \cup {m} # Range(Truncate(long))) <=> (Len(long) > MaxText \/ deltas # Range(prev.text))
        BY <3>4 DEF long
      <4> QED BY <3>1, <4>1, <4>2, Zenon DEF long
    <3> QED BY <3>4, <3>5, <3>6 DEF Says
  <2> QED BY <1>2, <2>3, <2>4, <2>5, <2>6
<1> QED BY <1>3, <1>4

-----------------------------------------------------------------------------
(* A page of events. *)

\* f is the client's copy after each event of the page.
Walk(f, from, to) ==
  f = [n \in from..to |-> IF n = from THEN phone.items ELSE Project(f[n - 1], log[n], n)]

\* The recursive definition of Applied has a value.
LEMMA Walks ==
  ASSUME NEW from \in Nat
  PROVE  \A j \in Nat : \E f : Walk(f, from, from + j)
<1> DEFINE S == {j \in Nat : \E f : Walk(f, from, from + j)}
<1>1. 0 \in S
  <2> DEFINE f == [n \in from..(from + 0) |-> phone.items]
  <2>1. \A n \in from..(from + 0) : n = from
    OBVIOUS
  <2>2. f = [n \in from..(from + 0) |-> IF n = from THEN phone.items ELSE Project(f[n - 1], log[n], n)]
    BY <2>1
  <2>3. Walk(f, from, from + 0)
    BY <2>2, Zenon DEF Walk
  <2> QED BY <2>3
<1>2. ASSUME NEW j \in Nat, j \in S PROVE j + 1 \in S
  <2>1. PICK f : Walk(f, from, from + j)
    BY <1>2
  <2> DEFINE last == from + j + 1
             g == [n \in from..last |-> IF n = last THEN Project(f[n - 1], log[n], n) ELSE f[n]]
             h == [n \in from..last |-> IF n = from THEN phone.items ELSE Project(g[n - 1], log[n], n)]
  <2>2. \A n \in from..(from + j) : f[n] = IF n = from THEN phone.items ELSE Project(f[n - 1], log[n], n)
    BY <2>1, Zenon DEF Walk
  <2>3. ASSUME NEW n \in from..last PROVE g[n] = h[n]
    <3>1. CASE n = from
      <4>1. n # last /\ n \in from..(from + j)
        BY <3>1
      <4>2. g[n] = f[n] /\ h[n] = phone.items
        BY <3>1, <4>1
      <4> QED BY <2>2, <3>1, <4>1, <4>2
    <3>2. CASE n # from
      <4>1. n - 1 \in from..last /\ n - 1 # last
        BY <3>2
      <4>2. g[n - 1] = f[n - 1]
        BY <4>1
      <4>3. h[n] = Project(f[n - 1], log[n], n)
        BY <3>2, <4>2
      <4>4. CASE n = last
        BY <4>3, <4>4
      <4>5. CASE n # last
        <5>1. n \in from..(from + j)
          BY <4>5
        <5>2. f[n] = Project(f[n - 1], log[n], n) /\ g[n] = f[n]
          BY <2>2, <3>2, <4>5, <5>1
        <5> QED BY <4>3, <5>2
      <4> QED BY <4>4, <4>5
    <3> QED BY <3>1, <3>2
  <2>4. g = h
    <3> HIDE DEF g, h
    <3>1. g = [n \in from..last |-> g[n]] /\ h = [n \in from..last |-> h[n]]
      BY DEF g, h
    <3> QED BY <2>3, <3>1
  <2>5. last = from + (j + 1)
    OBVIOUS
  <2>6. Walk(g, from, from + (j + 1))
    <3> HIDE DEF g
    <3>1. g = [n \in from..last |-> IF n = from THEN phone.items ELSE Project(g[n - 1], log[n], n)]
      BY <2>4
    <3> QED BY <2>5, <3>1, Zenon DEF Walk
  <2> QED BY <2>6
<1>3. Nat \subseteq S
  <2> HIDE DEF S
  <2> QED BY <1>1, <1>2, Induct
<1> QED BY <1>3

\* What the client shows after a page is what the events up to its end say.
LEMMA AppliedSays ==
  ASSUME Types, BodyMatchesCursor, NEW to \in Nat, phone.cursor <= to, to <= Len(log)
  PROVE  /\ Applied(phone.cursor, to) \in [Items -> ItemType]
         /\ \A i \in Items : Says(log, Applied(phone.cursor, to)[i], i, to)
<1> DEFINE from == phone.cursor
           f == CHOOSE g : Walk(g, from, to)
           Right(items, n) == items \in [Items -> ItemType] /\ \A i \in Items : Says(log, items[i], i, n)
           S == {j \in Nat : from + j <= to => Right(f[from + j], from + j)}
<1>1. from \in Nat /\ Len(log) \in Nat /\ Right(phone.items, from) /\ log \in Seq(LogEvent) /\ Len(log) <= MaxEvents
  BY DEF Types, Stored, PhoneType, BodyMatchesCursor
<1>2. \E g : Walk(g, from, to)
  <2>1. to - from \in Nat /\ from + (to - from) = to
    BY <1>1
  <2> HIDE DEF from
  <2> QED BY <1>1, <2>1, Walks
<1>3. Walk(f, from, to)
  BY <1>2, Zenon
<1>4. Applied(from, to) = f[to]
  BY Zenon DEF Applied, Walk
<1> HIDE DEF f, from, Right
<1>5. \A n \in from..to : f[n] = IF n = from THEN phone.items ELSE Project(f[n - 1], log[n], n)
  BY <1>3, Zenon DEF Walk
<1>6. 0 \in S
  <2>1. from \in from..to /\ from + 0 = from
    BY <1>1 DEF from
  <2>2. f[from] = phone.items
    BY <1>5, <2>1
  <2> QED BY <1>1, <2>1, <2>2
<1>7. ASSUME NEW j \in Nat, j \in S PROVE j + 1 \in S
  <2> SUFFICES ASSUME from + (j + 1) <= to PROVE Right(f[from + (j + 1)], from + (j + 1))
    OBVIOUS
  <2> DEFINE n == from + j
  <2>1. n \in Nat /\ n < Len(log) /\ n + 1 \in from..to /\ n + 1 # from /\ (n + 1) - 1 = n /\ n <= to
        /\ from + (j + 1) = n + 1
    BY <1>1
  <2>2. Right(f[n], n)
    BY <1>7, <2>1
  <2> HIDE DEF n
  <2>3. f[n + 1] = Project(f[n], log[n + 1], n + 1)
    BY <1>5, <2>1
  <2>4. Right(f[n + 1], n + 1)
    <3>1. f[n] \in [Items -> ItemType] /\ \A i \in Items : Says(log, f[n][i], i, n)
      BY <2>2 DEF Right
    <3>2. /\ Project(f[n], log[n + 1], n + 1) \in [Items -> ItemType]
          /\ \A i \in Items : Says(log, Project(f[n], log[n + 1], n + 1)[i], i, n + 1)
      BY <1>1, <2>1, <3>1, ProjectSays
    <3> QED BY <2>3, <3>2 DEF Right
  <2> QED BY <2>1, <2>4
<1>8. Nat \subseteq S
  <2> HIDE DEF S
  <2> QED BY <1>6, <1>7, Induct
<1>9. Right(f[to], to)
  <2>1. to - from \in Nat /\ from + (to - from) = to /\ to <= to
    BY <1>1 DEF from
  <2>2. to - from \in S
    BY <1>8, <2>1
  <2> QED BY <2>1, <2>2
<1> QED BY <1>4, <1>9 DEF Right, from

-----------------------------------------------------------------------------
(* The write queue. *)

\* The fields of a peer, and of a frame.
LEMMA PeerFields ==
  ASSUME NEW p \in PeerType
  PROVE  /\ p.open \in BOOLEAN /\ p.watching \in BOOLEAN /\ p.revision \in Nat /\ p.cursor \in Nat
         /\ p.queue \in Seq(Frame) /\ Len(p.queue) \in Nat
  BY DEF PeerType

LEMMA FrameForms ==
  /\ \A n \in Nat : Change(n) \in Frame /\ Change(n).type = "change" /\ Change(n).number = n
  /\ \A n \in Nat : Event(n) \in Frame /\ Event(n).type = "event" /\ Event(n).number = n
  /\ \A r \in Nat, h \in Nat : /\ Ready(r, h) \in Frame /\ Ready(r, h).type = "ready"
                               /\ Ready(r, h).revision = r /\ Ready(r, h).highWater = h
  /\ \A c \in Codes : Error(c) \in Frame /\ Error(c).type = "error"
  /\ \A f \in Frame : /\ f.type \in {"change", "event", "ready", "error"}
                      /\ f.type \in {"change", "event"} => f.number \in Nat
                      /\ f.type = "ready" => f.revision \in Nat /\ f.highWater \in Nat
                      /\ f.type = "error" => f.code \in Codes
  BY DEF Change, Event, Ready, Error, Frame

\* The elements of a concatenation.
LEMMA RangeJoined ==
  ASSUME NEW S, NEW s \in Seq(S), NEW t \in Seq(S)
  PROVE  Range(s \o t) = Range(s) \cup Range(t)
<1>1. ASSUME NEW x \in Range(s \o t) PROVE x \in Range(s) \cup Range(t)
  <2>1. PICK k \in 1..Len(s \o t) : x = (s \o t)[k]
    BY Joined DEF Range
  <2>2. \/ k \in 1..Len(s) /\ x = s[k]
        \/ k - Len(s) \in 1..Len(t) /\ x = t[k - Len(s)]
    BY <2>1, Joined
  <2> QED BY <2>2 DEF Range
<1>2. ASSUME NEW x \in Range(s) PROVE x \in Range(s \o t)
  <2>1. PICK k \in 1..Len(s) : x = s[k]
    BY DEF Range
  <2>2. k \in 1..Len(s \o t) /\ x = (s \o t)[k]
    BY <2>1, Joined
  <2>3. DOMAIN (s \o t) = 1..Len(s \o t)
    BY Joined
  <2> QED BY <2>2, <2>3 DEF Range
<1>3. ASSUME NEW x \in Range(t) PROVE x \in Range(s \o t)
  <2>1. PICK k \in 1..Len(t) : x = t[k]
    BY DEF Range
  <2>2. Len(s) + k \in 1..Len(s \o t) /\ x = (s \o t)[Len(s) + k]
    BY <2>1, Joined
  <2>3. DOMAIN (s \o t) = 1..Len(s \o t)
    BY Joined
  <2> QED BY <2>2, <2>3 DEF Range
<1> QED BY <1>1, <1>2, <1>3

\* What enqueue() of some frames leaves.
Offered(p, q, es) ==
  /\ q \in PeerType /\ Len(q.queue) <= QueueFrames
  /\ q.watching = p.watching /\ q.revision = p.revision /\ q.cursor = p.cursor
  /\ q.open => p.open /\ q.queue = p.queue \o es /\ Len(es) <= Room(p)
  /\ Range(q.queue) \subseteq Range(p.queue) \cup Range(es)

LEMMA Offers ==
  ASSUME NEW p \in PeerType, Len(p.queue) <= QueueFrames, NEW es \in Seq(Frame),
         NEW q, q = Offer(p, es)
  PROVE  Offered(p, q, es)
<1>1. /\ p.queue \in Seq(Frame) /\ Len(p.queue) \in Nat /\ Len(es) \in Nat /\ QueueFrames \in Nat
      /\ Room(p) = QueueFrames - Len(p.queue) /\ Room(p) \in Nat
  BY PeerFields, ConstantsAssumption DEF Room
<1>2. CASE Len(es) <= Room(p)
  <2>1. q = [p EXCEPT !.queue = p.queue \o es]
    BY <1>2 DEF Offer
  <2>2. p.queue \o es \in Seq(Frame) /\ Len(p.queue \o es) = Len(p.queue) + Len(es)
    BY <1>1, Joined
  <2>3. Range(p.queue \o es) = Range(p.queue) \cup Range(es)
    BY <1>1, RangeJoined
  <2>4. /\ q \in PeerType /\ q.queue = p.queue \o es /\ q.open = p.open /\ q.watching = p.watching
        /\ q.revision = p.revision /\ q.cursor = p.cursor
    BY <2>1, <2>2 DEF PeerType
  <2>5. Len(p.queue \o es) <= QueueFrames
    BY <1>1, <1>2, <2>2
  <2> QED BY <1>2, <2>3, <2>4, <2>5 DEF Offered
<1>3. CASE ~(Len(es) <= Room(p))
  <2> DEFINE fs == SubSeq(es, 1, Room(p))
  <2>1. fs \in Seq(Frame) /\ Len(fs) = Room(p) /\ \A l \in 1..Len(fs) : l \in 1..Len(es) /\ fs[l] = es[l]
    <3>1. Room(p) \in Nat /\ Room(p) <= Len(es)
      BY <1>1, <1>3
    <3> HIDE DEF Room
    <3> QED BY <3>1
  <2>2. q = [p EXCEPT !.queue = p.queue \o fs, !.open = FALSE]
    BY <1>3 DEF Offer
  <2> HIDE DEF fs
  <2>3. p.queue \o fs \in Seq(Frame) /\ Len(p.queue \o fs) = Len(p.queue) + Len(fs)
    BY <1>1, <2>1, Joined
  <2>4. Range(p.queue \o fs) = Range(p.queue) \cup Range(fs) /\ Range(fs) \subseteq Range(es)
    <3>1. Range(fs) \subseteq Range(es)
      BY <2>1 DEF Range
    <3> QED BY <1>1, <2>1, <3>1, RangeJoined
  <2>5. /\ q \in PeerType /\ q.queue = p.queue \o fs /\ q.open = FALSE /\ q.watching = p.watching
        /\ q.revision = p.revision /\ q.cursor = p.cursor
    BY <2>2, <2>3 DEF PeerType
  <2>6. Len(p.queue \o fs) <= QueueFrames
    BY <1>1, <2>1, <2>3
  <2> QED BY <2>4, <2>5, <2>6 DEF Offered
<1> QED BY <1>2, <1>3

\* es holds the frames of a type from one number to another, in order.
Run(es, type, from, to) ==
  /\ \A k \in 1..Len(es) : es[k].type = type =>
       /\ es[k].number \in (from + 1)..to
       /\ \A l \in 1..Len(es) : k < l /\ es[l].type = type => es[k].number < es[l].number
  /\ \A n \in (from + 1)..to : \E k \in 1..Len(es) : es[k].type = type /\ es[k].number = n

\* No frame of a type.
Lacks(es, type) == \A k \in 1..Len(es) : es[k].type # type

\* The cursor and the frames of one round of pump(), of changes or of events.
RoundSent(p, q, es, type, at, r, last) ==
  /\ q \in PeerType /\ Len(q.queue) <= QueueFrames
  /\ q.watching = p.watching /\ q.revision = p.revision /\ q.cursor = p.cursor
  /\ r \in Nat /\ at <= r /\ r <= last
  /\ \A f \in Range(q.queue) \ Range(p.queue) : f.type = type /\ f.number \in 1..last
  /\ q.open => /\ p.open /\ es \in Seq(Frame) /\ q.queue = p.queue \o es /\ Run(es, type, at, r)
               /\ \A k \in 1..Len(es) : es[k].type = type

LEMMA Rounds ==
  ASSUME NEW p \in PeerType, Len(p.queue) <= QueueFrames, NEW at \in Nat, NEW last \in Nat, at <= last,
         NEW type, NEW to, to = Upto(at, last, Batch),
         NEW es, to - at \in Nat => es \in Seq(Frame) /\ Len(es) = to - at,
         \A i \in 1..(to - at) : es[i].type = type /\ es[i].number = at + i,
         NEW r, r = Min({to, at + Room(p)}), NEW q, q = Offer(p, es)
  PROVE  RoundSent(p, q, es, type, at, r, last)
<1>1. Batch \in Nat /\ at + Batch \in Nat /\ at <= at + Batch
  BY ConstantsAssumption
<1>2. to \in Nat /\ at <= to /\ to <= last /\ to - at \in Nat
  <2>1. to = Min({last, at + Batch})
    BY DEF Upto
  <2>2. to \in {last, at + Batch} /\ to <= last
    BY <1>1, <2>1, Least
  <2> QED BY <1>1, <2>2
<1>3. /\ es \in Seq(Frame) /\ Len(es) = to - at
      /\ \A i \in 1..Len(es) : es[i].type = type /\ es[i].number = at + i
  BY <1>2
<1>4. /\ q \in PeerType /\ Len(q.queue) <= QueueFrames /\ q.watching = p.watching
      /\ q.revision = p.revision /\ q.cursor = p.cursor
      /\ q.open => p.open /\ q.queue = p.queue \o es /\ Len(es) <= Room(p)
      /\ Range(q.queue) \subseteq Range(p.queue) \cup Range(es)
  <2>1. Offered(p, q, es)
    BY <1>3, Offers
  <2> QED BY <2>1 DEF Offered
<1>5. Room(p) \in Nat /\ at + Room(p) \in Nat
  BY PeerFields, ConstantsAssumption DEF Room
<1>6. r \in Nat /\ at <= r /\ r <= last /\ r <= to /\ (Len(es) <= Room(p) => r = to)
  <2>1. r \in {to, at + Room(p)} /\ r <= to /\ r <= at + Room(p)
    BY <1>2, <1>5, Least
  <2> QED BY <1>2, <1>3, <1>5, <2>1
<1>7. \A f \in Range(es) : f.type = type /\ f.number \in 1..last
  <2>1. \A i \in 1..Len(es) : es[i].type = type /\ es[i].number \in 1..last
    BY <1>2, <1>3
  <2>2. \A f \in Range(es) : \E i \in 1..Len(es) : f = es[i]
    BY <1>3 DEF Range
  <2> QED BY <2>1, <2>2
<1>8. ASSUME Len(es) <= Room(p) PROVE Run(es, type, at, r)
  <2>1. r = to
    BY <1>6, <1>8
  <2>2. \A k \in 1..Len(es) : /\ es[k].number \in (at + 1)..r
                              /\ \A l \in 1..Len(es) : k < l => es[k].number < es[l].number
    BY <1>2, <1>3, <2>1
  <2>3. ASSUME NEW n \in (at + 1)..r PROVE \E k \in 1..Len(es) : es[k].type = type /\ es[k].number = n
    <3>1. n - at \in 1..Len(es) /\ at + (n - at) = n
      BY <1>2, <1>3, <2>1
    <3> QED BY <1>3, <3>1
  <2> QED BY <2>2, <2>3 DEF Run
<1> QED BY <1>3, <1>4, <1>6, <1>7, <1>8 DEF RoundSent

\* pump() of the changes.
ChangesSent(p, q, last) ==
  /\ q \in PeerType /\ Len(q.queue) <= QueueFrames
  /\ q.cursor = p.cursor /\ p.revision <= q.revision /\ q.revision <= last
  /\ \A f \in Range(q.queue) \ Range(p.queue) :
       f.type = "error" \/ (f.type = "change" /\ f.number \in 1..last)
  /\ q.open /\ q.watching =>
       /\ p.open /\ p.watching
       /\ \E es \in Seq(Frame) : /\ q.queue = p.queue \o es /\ Run(es, "change", p.revision, q.revision)
                                 /\ Lacks(es, "event") /\ Lacks(es, "ready")

LEMMA ChangesPumped ==
  ASSUME NEW p \in PeerType, Len(p.queue) <= QueueFrames, NEW last \in Nat, NEW fails \in BOOLEAN,
         p.revision <= last, NEW q, q = PumpChanges(p, last, fails)
  PROVE  ChangesSent(p, q, last)
<1>1. CASE fails
  <2> DEFINE x == <<Error("CURSOR_EXPIRED")>>
             u == Offer(p, x)
  <2>1. x \in Seq(Frame) /\ Len(x) = 1 /\ x[1].type = "error"
    BY FrameForms DEF Codes
  <2>2. q = [u EXCEPT !.watching = FALSE]
    BY <1>1 DEF PumpChanges
  <2> HIDE DEF x
  <2>3. /\ u \in PeerType /\ Len(u.queue) <= QueueFrames /\ u.revision = p.revision /\ u.cursor = p.cursor
        /\ Range(u.queue) \subseteq Range(p.queue) \cup Range(x)
    <3>1. Offered(p, u, x)
      BY <2>1, Offers
    <3> HIDE DEF u
    <3> QED BY <3>1 DEF Offered
  <2>4. \A f \in Range(x) : f.type = "error"
    BY <2>1 DEF Range
  <2> HIDE DEF u
  <2>5. /\ q \in PeerType /\ q.queue = u.queue /\ q.watching = FALSE /\ q.revision = p.revision
        /\ q.cursor = p.cursor
    BY <2>2, <2>3 DEF PeerType
  <2>6. p.revision \in Nat
    BY PeerFields
  <2> QED BY <2>3, <2>4, <2>5, <2>6 DEF ChangesSent
<1>2. CASE ~fails
  <2> DEFINE to == Upto(p.revision, last, Batch)
             es == [i \in 1..(to - p.revision) |-> Change(p.revision + i)]
             u  == Offer(p, es)
             r  == Min({to, p.revision + Room(p)})
  <2>1. q = [u EXCEPT !.revision = r]
    BY <1>2 DEF PumpChanges
  <2>2. p.revision \in Nat
    BY PeerFields
  <2>3. /\ to - p.revision \in Nat => es \in Seq(Frame) /\ Len(es) = to - p.revision
        /\ \A i \in 1..(to - p.revision) : es[i].type = "change" /\ es[i].number = p.revision + i
    <3> HIDE DEF to
    <3>1. \A i \in 1..(to - p.revision) : p.revision + i \in Nat
      BY <2>2
    <3>2. \A i \in 1..(to - p.revision) : es[i] = Change(p.revision + i)
      OBVIOUS
    <3>3. \A i \in 1..(to - p.revision) : Change(p.revision + i) \in Frame
      BY <3>1, FrameForms
    <3>4. \A i \in 1..(to - p.revision) : es[i].type = "change" /\ es[i].number = p.revision + i
      BY <3>1, <3>2, FrameForms
    <3>5. to - p.revision \in Nat => es \in Seq(Frame) /\ Len(es) = to - p.revision
      BY <3>2, <3>3
    <3> QED BY <3>4, <3>5
  <2>0. to = Upto(p.revision, last, Batch) /\ u = Offer(p, es) /\ r = Min({to, p.revision + Room(p)})
    OBVIOUS
  <2> HIDE DEF es, u, r, to
  <2>4. /\ u \in PeerType /\ Len(u.queue) <= QueueFrames
        /\ u.watching = p.watching /\ u.revision = p.revision /\ u.cursor = p.cursor
        /\ r \in Nat /\ p.revision <= r /\ r <= last
        /\ \A f \in Range(u.queue) \ Range(p.queue) : f.type = "change" /\ f.number \in 1..last
        /\ u.open => /\ p.open /\ es \in Seq(Frame) /\ u.queue = p.queue \o es /\ Run(es, "change", p.revision, r)
                     /\ \A k \in 1..Len(es) : es[k].type = "change"
    <3>1. RoundSent(p, u, es, "change", p.revision, r, last)
      BY <2>2, <2>3, <2>0, Rounds
    <3> QED BY <3>1 DEF RoundSent
  <2>5. /\ q \in PeerType /\ q.queue = u.queue /\ q.open = u.open /\ q.watching = u.watching
        /\ q.revision = r /\ q.cursor = u.cursor
    BY <2>1, <2>4 DEF PeerType
  <2>6. (\A k \in 1..Len(es) : es[k].type = "change") => Lacks(es, "event") /\ Lacks(es, "ready")
    BY DEF Lacks
  <2> QED BY <2>4, <2>5, <2>6 DEF ChangesSent
<1> QED BY <1>1, <1>2

\* pump() of the events.
EventsSent(p, q, last) ==
  /\ q \in PeerType /\ Len(q.queue) <= QueueFrames
  /\ q.revision = p.revision /\ q.cursor \in 0..last \cup {Unwatched}
  /\ \A f \in Range(q.queue) \ Range(p.queue) :
       f.type = "error" \/ (f.type = "event" /\ f.number \in 1..last)
  /\ q.open /\ q.watching =>
       /\ p.open /\ p.watching
       /\ \E es \in Seq(Frame) :
            /\ q.queue = p.queue \o es /\ Lacks(es, "change") /\ Lacks(es, "ready")
            /\ q.cursor # Unwatched =>
                 p.cursor # Unwatched /\ p.cursor <= q.cursor /\ Run(es, "event", p.cursor, q.cursor)

LEMMA EventsPumped ==
  ASSUME NEW p \in PeerType, Len(p.queue) <= QueueFrames, NEW last \in Nat, NEW fails \in BOOLEAN,
         p.cursor \in 0..last \cup {Unwatched}, last <= MaxEvents, NEW q, q = PumpEvents(p, last, fails)
  PROVE  EventsSent(p, q, last)
<1>1. p.queue \in Seq(Frame) /\ p.cursor \in Nat
  BY PeerFields
<1>2. CASE ~p.open \/ ~p.watching \/ p.cursor = Unwatched
  <2>1. q = p
    BY <1>2 DEF PumpEvents
  <2>2. ASSUME q.open, q.watching
        PROVE  \E es \in Seq(Frame) : /\ q.queue = p.queue \o es /\ Lacks(es, "change") /\ Lacks(es, "ready")
                                      /\ q.cursor = Unwatched
    <3>1. << >> \in Seq(Frame) /\ p.queue = p.queue \o << >> /\ Lacks(<< >>, "change") /\ Lacks(<< >>, "ready")
      BY <1>1 DEF Lacks
    <3> QED BY <1>2, <2>1, <2>2, <3>1
  <2> QED BY <2>1, <2>2 DEF EventsSent
<1>3. CASE ~(~p.open \/ ~p.watching \/ p.cursor = Unwatched) /\ fails
  <2> DEFINE x == <<Error("CURSOR_EXPIRED")>>
             u == Offer(p, x)
  <2>1. x \in Seq(Frame) /\ Len(x) = 1 /\ x[1].type = "error"
    BY FrameForms DEF Codes
  <2>2. q = [u EXCEPT !.cursor = Unwatched]
    BY <1>3 DEF PumpEvents
  <2> HIDE DEF x
  <2>3. /\ u \in PeerType /\ Len(u.queue) <= QueueFrames /\ u.revision = p.revision
        /\ u.open => u.queue = p.queue \o x
        /\ Range(u.queue) \subseteq Range(p.queue) \cup Range(x)
    <3>1. Offered(p, u, x)
      BY <2>1, Offers
    <3> HIDE DEF u
    <3> QED BY <3>1 DEF Offered
  <2>4. (\A f \in Range(x) : f.type = "error") /\ Lacks(x, "change") /\ Lacks(x, "ready")
    BY <2>1 DEF Range, Lacks
  <2> HIDE DEF u
  <2>5. Unwatched \in Nat
    BY ConstantsAssumption DEF Unwatched
  <2>6. /\ q \in PeerType /\ q.queue = u.queue /\ q.open = u.open /\ q.revision = p.revision
        /\ q.cursor = Unwatched
    BY <2>2, <2>3, <2>5 DEF PeerType
  <2> QED BY <1>3, <2>1, <2>3, <2>4, <2>6 DEF EventsSent
<1>4. CASE ~(~p.open \/ ~p.watching \/ p.cursor = Unwatched) /\ ~fails
  <2> DEFINE to == Upto(p.cursor, last, Batch)
             es == [i \in 1..(to - p.cursor) |-> Event(p.cursor + i)]
             u  == Offer(p, es)
             r  == Min({to, p.cursor + Room(p)})
  <2>1. q = [u EXCEPT !.cursor = r]
    BY <1>4 DEF PumpEvents
  <2>2. p.cursor <= last
    BY <1>4
  <2>3. /\ to - p.cursor \in Nat => es \in Seq(Frame) /\ Len(es) = to - p.cursor
        /\ \A i \in 1..(to - p.cursor) : es[i].type = "event" /\ es[i].number = p.cursor + i
    <3> HIDE DEF to
    <3>1. \A i \in 1..(to - p.cursor) : p.cursor + i \in Nat
      BY <1>1
    <3>2. \A i \in 1..(to - p.cursor) : es[i] = Event(p.cursor + i)
      OBVIOUS
    <3>3. \A i \in 1..(to - p.cursor) : Event(p.cursor + i) \in Frame
      BY <3>1, FrameForms
    <3>4. \A i \in 1..(to - p.cursor) : es[i].type = "event" /\ es[i].number = p.cursor + i
      BY <3>1, <3>2, FrameForms
    <3>5. to - p.cursor \in Nat => es \in Seq(Frame) /\ Len(es) = to - p.cursor
      BY <3>2, <3>3
    <3> QED BY <3>4, <3>5
  <2>0. to = Upto(p.cursor, last, Batch) /\ u = Offer(p, es) /\ r = Min({to, p.cursor + Room(p)})
    OBVIOUS
  <2> HIDE DEF es, u, r, to
  <2>4. /\ u \in PeerType /\ Len(u.queue) <= QueueFrames
        /\ u.watching = p.watching /\ u.revision = p.revision
        /\ r \in Nat /\ p.cursor <= r /\ r <= last
        /\ \A f \in Range(u.queue) \ Range(p.queue) : f.type = "event" /\ f.number \in 1..last
        /\ u.open => /\ p.open /\ es \in Seq(Frame) /\ u.queue = p.queue \o es /\ Run(es, "event", p.cursor, r)
                     /\ \A k \in 1..Len(es) : es[k].type = "event"
    <3>1. RoundSent(p, u, es, "event", p.cursor, r, last)
      BY <1>1, <2>2, <2>3, <2>0, Rounds
    <3> QED BY <3>1 DEF RoundSent
  <2>5. /\ q \in PeerType /\ q.queue = u.queue /\ q.open = u.open /\ q.watching = u.watching
        /\ q.revision = u.revision /\ q.cursor = r
    BY <2>1, <2>4 DEF PeerType
  <2>6. (\A k \in 1..Len(es) : es[k].type = "event") => Lacks(es, "change") /\ Lacks(es, "ready")
    BY DEF Lacks
  <2>7. r \in 0..last
    BY <2>4
  <2> QED BY <1>4, <2>4, <2>5, <2>6, <2>7 DEF EventsSent
<1> QED BY <1>2, <1>3, <1>4

\* Runs of frames one after the other.
LEMMA RunsJoined ==
  ASSUME NEW s \in Seq(Frame), NEW t \in Seq(Frame)
  PROVE  /\ \A type : \A a \in Nat, b \in Nat :
              /\ Run(s, type, a, b) /\ Lacks(t, type) => Run(s \o t, type, a, b)
              /\ Lacks(s, type) /\ Run(t, type, a, b) => Run(s \o t, type, a, b)
         /\ \A type : Lacks(s, type) /\ Lacks(t, type) => Lacks(s \o t, type)
<1> DEFINE z == s \o t
<1>1. /\ Len(z) \in Nat /\ Len(s) \in Nat /\ Len(t) \in Nat
      /\ \A k \in 1..Len(s) : z[k] = s[k] /\ k \in 1..Len(z)
      /\ \A k \in 1..Len(t) : z[Len(s) + k] = t[k] /\ Len(s) + k \in 1..Len(z)
      /\ \A k \in 1..Len(z) :
           k \in 1..Len(s) \/ (k > Len(s) /\ k - Len(s) \in 1..Len(t) /\ z[k] = t[k - Len(s)])
  BY Joined
<1> HIDE DEF z
<1>2. ASSUME NEW type, Lacks(s, type), Lacks(t, type) PROVE Lacks(z, type)
  <2> SUFFICES ASSUME NEW k \in 1..Len(z) PROVE z[k].type # type
    BY DEF Lacks
  <2>1. CASE k \in 1..Len(s)
    BY <1>1, <1>2, <2>1 DEF Lacks
  <2>2. CASE k - Len(s) \in 1..Len(t) /\ z[k] = t[k - Len(s)]
    BY <1>2, <2>2 DEF Lacks
  <2> QED BY <1>1, <2>1, <2>2
<1>3. ASSUME NEW type, NEW a \in Nat, NEW b \in Nat, Run(s, type, a, b), Lacks(t, type)
      PROVE  Run(z, type, a, b)
  <2>1. ASSUME NEW k \in 1..Len(z), z[k].type = type PROVE k \in 1..Len(s) /\ s[k].type = type /\ z[k] = s[k]
    <3>1. CASE k \in 1..Len(s)
      BY <1>1, <2>1, <3>1
    <3>2. CASE k - Len(s) \in 1..Len(t) /\ z[k] = t[k - Len(s)]
      BY <1>3, <2>1, <3>2 DEF Lacks
    <3> QED BY <1>1, <3>1, <3>2
  <2>2. ASSUME NEW k \in 1..Len(z), z[k].type = type
        PROVE  /\ z[k].number \in (a + 1)..b
               /\ \A l \in 1..Len(z) : k < l /\ z[l].type = type => z[k].number < z[l].number
    <3>1. k \in 1..Len(s) /\ s[k].type = type /\ z[k] = s[k]
      BY <2>1, <2>2
    <3>2. z[k].number \in (a + 1)..b
      BY <1>3, <3>1 DEF Run
    <3>3. ASSUME NEW l \in 1..Len(z), k < l, z[l].type = type PROVE z[k].number < z[l].number
      <4>1. l \in 1..Len(s) /\ s[l].type = type /\ z[l] = s[l]
        BY <2>1, <3>3
      <4> QED BY <1>3, <3>1, <3>3, <4>1 DEF Run
    <3> QED BY <3>2, <3>3
  <2>3. ASSUME NEW n \in (a + 1)..b PROVE \E k \in 1..Len(z) : z[k].type = type /\ z[k].number = n
    <3>1. PICK k \in 1..Len(s) : s[k].type = type /\ s[k].number = n
      BY <1>3 DEF Run
    <3> QED BY <1>1, <3>1
  <2> QED BY <2>2, <2>3 DEF Run
<1>4. ASSUME NEW type, NEW a \in Nat, NEW b \in Nat, Lacks(s, type), Run(t, type, a, b)
      PROVE  Run(z, type, a, b)
  <2>1. ASSUME NEW k \in 1..Len(z), z[k].type = type
        PROVE  k - Len(s) \in 1..Len(t) /\ t[k - Len(s)].type = type /\ z[k] = t[k - Len(s)]
    <3>1. CASE k \in 1..Len(s)
      BY <1>1, <1>4, <2>1, <3>1 DEF Lacks
    <3>2. CASE k - Len(s) \in 1..Len(t) /\ z[k] = t[k - Len(s)]
      BY <2>1, <3>2
    <3> QED BY <1>1, <3>1, <3>2
  <2>2. ASSUME NEW k \in 1..Len(z), z[k].type = type
        PROVE  /\ z[k].number \in (a + 1)..b
               /\ \A l \in 1..Len(z) : k < l /\ z[l].type = type => z[k].number < z[l].number
    <3>1. k - Len(s) \in 1..Len(t) /\ t[k - Len(s)].type = type /\ z[k] = t[k - Len(s)]
      BY <2>1, <2>2
    <3>2. z[k].number \in (a + 1)..b
      BY <1>4, <3>1 DEF Run
    <3>3. ASSUME NEW l \in 1..Len(z), k < l, z[l].type = type PROVE z[k].number < z[l].number
      <4>1. l - Len(s) \in 1..Len(t) /\ t[l - Len(s)].type = type /\ z[l] = t[l - Len(s)]
        BY <2>1, <3>3
      <4>2. k - Len(s) < l - Len(s)
        BY <1>1, <3>3
      <4> QED BY <1>4, <3>1, <4>1, <4>2 DEF Run
    <3> QED BY <3>2, <3>3
  <2>3. ASSUME NEW n \in (a + 1)..b PROVE \E k \in 1..Len(z) : z[k].type = type /\ z[k].number = n
    <3>1. PICK k \in 1..Len(t) : t[k].type = type /\ t[k].number = n
      BY <1>4 DEF Run
    <3> QED BY <1>1, <3>1
  <2> QED BY <2>2, <2>3 DEF Run
<1> QED BY <1>2, <1>3, <1>4 DEF z

\* pump() on a state: the changes up to r and the events up to n, unless their reads fail.
PumpTo(p, r, gone, n, cut) ==
  IF p.open /\ p.watching THEN PumpEvents(PumpChanges(p, r, gone), n, cut) ELSE p

LEMMA PumpsTo ==
  ASSUME NEW p, Pumps(p)
  PROVE  \E gone, cut \in BOOLEAN : peer' = PumpTo(p, revision', gone, Len(log'), cut)
<1>1. PICK errors \in SUBSET {"changes", "events"} : peer' = Pump(p, errors)
  BY DEF Pumps
<1> DEFINE gone == p.revision < floor' \/ "changes" \in errors
           cut  == (purged' /\ p.cursor < Len(log')) \/ "events" \in errors
<1>2. peer' = PumpTo(p, revision', gone, Len(log'), cut)
  BY <1>1 DEF Pump, PumpTo
<1>3. gone \in BOOLEAN /\ cut \in BOOLEAN
  OBVIOUS
<1> HIDE DEF gone, cut
<1> QED BY <1>2, <1>3

\* The changes and the events of one call.
Sent(p, q, r, n) ==
  /\ q \in PeerType /\ Len(q.queue) <= QueueFrames
  /\ p.revision <= q.revision /\ q.revision <= r /\ q.cursor \in 0..n \cup {Unwatched}
  /\ \A f \in Range(q.queue) \ Range(p.queue) :
       \/ f.type = "error"
       \/ f.type = "change" /\ f.number \in 1..r
       \/ f.type = "event" /\ f.number \in 1..n
  /\ q.open /\ q.watching =>
       /\ p.open /\ p.watching
       /\ \E es \in Seq(Frame) :
            /\ q.queue = p.queue \o es /\ Lacks(es, "ready")
            /\ Run(es, "change", p.revision, q.revision)
            /\ q.cursor # Unwatched =>
                 p.cursor # Unwatched /\ p.cursor <= q.cursor /\ Run(es, "event", p.cursor, q.cursor)

LEMMA Pumped ==
  ASSUME NEW p \in PeerType, Len(p.queue) <= QueueFrames, NEW r \in Nat, NEW gone \in BOOLEAN, NEW n \in Nat, NEW cut \in BOOLEAN,
         p.revision <= r, p.cursor \in 0..n \cup {Unwatched}, n <= MaxEvents,
         NEW q, q = PumpTo(p, r, gone, n, cut)
  PROVE  Sent(p, q, r, n)
<1>1. CASE ~(p.open /\ p.watching)
  <2>1. q = p /\ p.revision \in Nat /\ p.revision <= p.revision
    BY <1>1, PeerFields DEF PumpTo
  <2> QED BY <1>1, <2>1 DEF Sent
<1>2. CASE p.open /\ p.watching
  <2> DEFINE u == PumpChanges(p, r, gone)
  <2>0. u = PumpChanges(p, r, gone) /\ q = PumpEvents(u, n, cut)
    BY <1>2 DEF PumpTo
  <2> HIDE DEF u
  <2>1. /\ u \in PeerType /\ Len(u.queue) <= QueueFrames
        /\ u.cursor = p.cursor /\ p.revision <= u.revision /\ u.revision <= r
        /\ \A f \in Range(u.queue) \ Range(p.queue) :
             f.type = "error" \/ (f.type = "change" /\ f.number \in 1..r)
        /\ u.open /\ u.watching =>
             /\ p.open /\ p.watching
             /\ \E es \in Seq(Frame) : /\ u.queue = p.queue \o es /\ Run(es, "change", p.revision, u.revision)
                                       /\ Lacks(es, "event") /\ Lacks(es, "ready")
    <3>1. ChangesSent(p, u, r)
      BY <2>0, ChangesPumped
    <3> QED BY <3>1 DEF ChangesSent
  <2>3. /\ q \in PeerType /\ Len(q.queue) <= QueueFrames
        /\ q.revision = u.revision /\ q.cursor \in 0..n \cup {Unwatched}
        /\ \A f \in Range(q.queue) \ Range(u.queue) :
             f.type = "error" \/ (f.type = "event" /\ f.number \in 1..n)
        /\ q.open /\ q.watching =>
             /\ u.open /\ u.watching
             /\ \E es \in Seq(Frame) :
                  /\ q.queue = u.queue \o es /\ Lacks(es, "change") /\ Lacks(es, "ready")
                  /\ q.cursor # Unwatched =>
                       u.cursor # Unwatched /\ u.cursor <= q.cursor /\ Run(es, "event", u.cursor, q.cursor)
    <3>1. EventsSent(u, q, n)
      BY <2>0, <2>1, EventsPumped
    <3> QED BY <3>1 DEF EventsSent
  <2>4. ASSUME q.open, q.watching
        PROVE  \E es \in Seq(Frame) :
                 /\ q.queue = p.queue \o es /\ Lacks(es, "ready")
                 /\ Run(es, "change", p.revision, q.revision)
                 /\ q.cursor # Unwatched =>
                      p.cursor # Unwatched /\ p.cursor <= q.cursor /\ Run(es, "event", p.cursor, q.cursor)
    <3>1. PICK t \in Seq(Frame) :
            /\ q.queue = u.queue \o t /\ Lacks(t, "change") /\ Lacks(t, "ready")
            /\ q.cursor # Unwatched =>
                 u.cursor # Unwatched /\ u.cursor <= q.cursor /\ Run(t, "event", u.cursor, q.cursor)
      BY <2>3, <2>4
    <3>2. PICK s \in Seq(Frame) : /\ u.queue = p.queue \o s /\ Run(s, "change", p.revision, u.revision)
                                  /\ Lacks(s, "event") /\ Lacks(s, "ready")
      BY <2>1, <2>3, <2>4
    <3>3. p.queue \in Seq(Frame) /\ p.revision \in Nat /\ q.revision \in Nat /\ p.cursor \in Nat /\ q.cursor \in Nat
      BY <2>3, PeerFields
    <3>4. q.queue = p.queue \o (s \o t) /\ s \o t \in Seq(Frame)
      <4>1. (p.queue \o s) \o t = p.queue \o (s \o t) /\ s \o t \in Seq(Frame)
        <5> DEFINE a == p.queue
        <5>1. a \in Seq(Frame) /\ s \in Seq(Frame) /\ t \in Seq(Frame)
          BY <3>3
        <5> HIDE DEF a
        <5>2. (a \o s) \o t = a \o (s \o t) /\ s \o t \in Seq(Frame)
          BY <5>1, Associates
        <5> QED BY <5>2 DEF a
      <4> QED BY <3>1, <3>2, <4>1, Zenon
    <3>5. Lacks(s \o t, "ready")
      BY <3>1, <3>2, RunsJoined
    <3>6. Run(s \o t, "change", p.revision, q.revision)
      <4>1. Run(s, "change", p.revision, q.revision) /\ Lacks(t, "change")
        BY <2>3, <3>1, <3>2
      <4> QED BY <3>3, <4>1, RunsJoined, Zenon
    <3>7. q.cursor # Unwatched =>
            p.cursor # Unwatched /\ p.cursor <= q.cursor /\ Run(s \o t, "event", p.cursor, q.cursor)
      <4>1. u.cursor = p.cursor /\ Lacks(s, "event")
        BY <2>1, <3>2
      <4>2. ASSUME q.cursor # Unwatched
            PROVE  p.cursor # Unwatched /\ p.cursor <= q.cursor /\ Run(s \o t, "event", p.cursor, q.cursor)
        <5>1. p.cursor # Unwatched /\ p.cursor <= q.cursor /\ Run(t, "event", p.cursor, q.cursor)
          BY <3>1, <4>1, <4>2, Zenon
        <5> QED BY <3>3, <4>1, <5>1, RunsJoined, Zenon
      <4> QED BY <4>2
    <3> QED BY <3>4, <3>5, <3>6, <3>7
  <2>5. \A f \in Range(q.queue) \ Range(p.queue) :
          \/ f.type = "error"
          \/ f.type = "change" /\ f.number \in 1..r
          \/ f.type = "event" /\ f.number \in 1..n
    BY <2>1, <2>3
  <2> QED BY <1>2, <2>1, <2>3, <2>4, <2>5 DEF Sent
<1> QED BY <1>1, <1>2

-----------------------------------------------------------------------------
(* The frames on their way. *)

\* Continues, LastBarrier and Reached of any frames z, client ph and peer p.
Goes(z, type, b, seen, sent) ==
  /\ \A k \in (b + 1)..Len(z) : z[k].type = type =>
       /\ z[k].number <= sent
       /\ \A l \in (b + 1)..Len(z) : z[l].type = type /\ k < l => z[k].number < z[l].number
  /\ \A n \in (seen + 1)..sent : \E k \in (b + 1)..Len(z) : z[k].type = type /\ z[k].number = n

IsLast(z, b, ph) ==
  /\ IF b = 0 THEN ph.mode \in {"recovering", "live"} ELSE z[b].type = "ready"
  /\ \A k \in (b + 1)..Len(z) : z[k].type # "ready"

Has(ph, has, bound) == IF ph.mode = "recovering" /\ has < bound THEN bound ELSE has

HasChange(z, b, ph) == IF b = 0 THEN Has(ph, ph.revision, ph.untilRevision) ELSE z[b].revision
HasEvent(z, b, ph)  == IF b = 0 THEN Has(ph, ph.cursor, ph.untilEvent) ELSE z[b].highWater

GapFree(z, ph, p) ==
  \A b \in 0..Len(z) : IsLast(z, b, ph) /\ p.open /\ p.watching =>
    /\ Goes(z, "change", b, HasChange(z, b, ph), p.revision)
    /\ ph.wants /\ p.cursor # Unwatched => Goes(z, "event", b, HasEvent(z, b, ph), p.cursor)

\* The invariant in these words.
LEMMA Gap ==
  /\ NoGapAtBarrier <=> GapFree(phone.inbox \o peer.queue, phone, peer)
  /\ NoGapAtBarrier' <=> GapFree(phone'.inbox \o peer'.queue, phone', peer')
<1>1. NoGapAtBarrier <=> GapFree(phone.inbox \o peer.queue, phone, peer)
  <2>1. ASSUME NEW type, NEW b, NEW seen, NEW sent
        PROVE  Continues(type, b, seen, sent) <=> Goes(phone.inbox \o peer.queue, type, b, seen, sent)
    BY DEF Continues, Goes, Underway
  <2> QED BY <2>1 DEF NoGapAtBarrier, GapFree, IsLast, LastBarrier, HasChange, HasEvent, Has, Reached, Underway
<1>2. NoGapAtBarrier' <=> GapFree(phone'.inbox \o peer'.queue, phone', peer')
  <2>1. ASSUME NEW type, NEW b, NEW seen, NEW sent
        PROVE  Continues(type, b, seen, sent)' <=> Goes(phone'.inbox \o peer'.queue, type, b, seen, sent)
    BY DEF Continues, Goes, Underway
  <2> QED BY <2>1 DEF NoGapAtBarrier, GapFree, IsLast, LastBarrier, HasChange, HasEvent, Has, Reached, Underway
<1> QED BY <1>1, <1>2

\* What is sent next continues what was sent.
LEMMA GoesOn ==
  ASSUME NEW z \in Seq(Frame), NEW es \in Seq(Frame), NEW type \in {"change", "event"},
         NEW b \in 0..Len(z), NEW seen \in Nat, NEW s \in Nat, NEW t \in Nat, s <= t,
         Goes(z, type, b, seen, s), Run(es, type, s, t)
  PROVE  Goes(z \o es, type, b, seen, t)
<1> DEFINE y == z \o es
<1>1. /\ Len(y) \in Nat /\ Len(z) \in Nat /\ Len(es) \in Nat /\ Len(y) = Len(z) + Len(es)
      /\ \A k \in 1..Len(z) : y[k] = z[k] /\ k \in 1..Len(y)
      /\ \A k \in 1..Len(es) : y[Len(z) + k] = es[k] /\ Len(z) + k \in 1..Len(y)
      /\ \A k \in 1..Len(y) :
           k \in 1..Len(z) \/ (k > Len(z) /\ k - Len(z) \in 1..Len(es) /\ y[k] = es[k - Len(z)])
  BY Joined
<1>2. \A f \in Frame : f.type = type => f.number \in Nat
  BY FrameForms
<1> HIDE DEF y
<1>3. ASSUME NEW k \in (b + 1)..Len(y), y[k].type = type
      PROVE  \/ k \in (b + 1)..Len(z) /\ z[k].type = type /\ y[k] = z[k]
             \/ /\ k > Len(z) /\ k - Len(z) \in 1..Len(es) /\ es[k - Len(z)].type = type
                /\ y[k] = es[k - Len(z)]
  <2>1. k \in 1..Len(y) /\ k >= b + 1
    OBVIOUS
  <2>2. CASE k \in 1..Len(z)
    BY <1>1, <1>3, <2>1, <2>2
  <2>3. CASE k > Len(z) /\ k - Len(z) \in 1..Len(es) /\ y[k] = es[k - Len(z)]
    BY <1>3, <2>3
  <2> QED BY <1>1, <2>1, <2>2, <2>3
<1>4. ASSUME NEW k \in (b + 1)..Len(z), z[k].type = type
      PROVE  /\ z[k].number \in Nat /\ z[k].number <= s
             /\ \A l \in (b + 1)..Len(z) : z[l].type = type /\ k < l => z[k].number < z[l].number
  <2>1. z[k] \in Frame
    BY <1>1
  <2> QED BY <1>2, <1>4, <2>1 DEF Goes
<1>5. ASSUME NEW k \in 1..Len(es), es[k].type = type
      PROVE  /\ es[k].number \in (s + 1)..t
             /\ \A l \in 1..Len(es) : k < l /\ es[l].type = type => es[k].number < es[l].number
  BY <1>5 DEF Run
<1>6. ASSUME NEW k \in (b + 1)..Len(y), y[k].type = type PROVE y[k].number <= t
  <2>1. CASE k \in (b + 1)..Len(z) /\ z[k].type = type /\ y[k] = z[k]
    BY <1>4, <2>1
  <2>2. CASE k - Len(z) \in 1..Len(es) /\ es[k - Len(z)].type = type /\ y[k] = es[k - Len(z)]
    BY <1>5, <2>2
  <2> QED BY <1>3, <1>6, <2>1, <2>2
<1>7. ASSUME NEW k \in (b + 1)..Len(y), y[k].type = type, NEW l \in (b + 1)..Len(y), y[l].type = type, k < l
      PROVE  y[k].number < y[l].number
  <2>1. CASE k \in (b + 1)..Len(z) /\ z[k].type = type /\ y[k] = z[k]
    <3>1. CASE l \in (b + 1)..Len(z) /\ z[l].type = type /\ y[l] = z[l]
      BY <1>4, <1>7, <2>1, <3>1
    <3>2. CASE l - Len(z) \in 1..Len(es) /\ es[l - Len(z)].type = type /\ y[l] = es[l - Len(z)]
      <4>1. z[k].number \in Nat /\ z[k].number <= s
        BY <1>4, <2>1
      <4>2. es[l - Len(z)].number \in (s + 1)..t
        BY <1>5, <3>2
      <4>3. \A u \in Nat, v \in (s + 1)..t : u <= s => u < v
        OBVIOUS
      <4>4. z[k].number < es[l - Len(z)].number
        BY <4>1, <4>2, <4>3, Zenon
      <4> QED BY <2>1, <3>2, <4>4, Zenon
    <3> QED BY <1>3, <1>7, <3>1, <3>2
  <2>2. CASE k > Len(z) /\ k - Len(z) \in 1..Len(es) /\ es[k - Len(z)].type = type /\ y[k] = es[k - Len(z)]
    <3>1. l - Len(z) \in 1..Len(es) /\ es[l - Len(z)].type = type /\ y[l] = es[l - Len(z)]
      <4>1. ~(l \in (b + 1)..Len(z))
        BY <1>1, <1>7, <2>2
      <4> QED BY <1>3, <1>7, <4>1
    <3>2. k - Len(z) < l - Len(z)
      BY <1>1, <1>7
    <3> QED BY <1>5, <2>2, <3>1, <3>2
  <2> QED BY <1>3, <1>7, <2>1, <2>2
<1>8. ASSUME NEW n \in (seen + 1)..t PROVE \E k \in (b + 1)..Len(y) : y[k].type = type /\ y[k].number = n
  <2>1. CASE n <= s
    <3>1. PICK k \in (b + 1)..Len(z) : z[k].type = type /\ z[k].number = n
      BY <2>1 DEF Goes
    <3> QED BY <1>1, <3>1
  <2>2. CASE ~(n <= s)
    <3>1. PICK k \in 1..Len(es) : es[k].type = type /\ es[k].number = n
      BY <2>2 DEF Run
    <3>2. Len(z) + k \in (b + 1)..Len(y) /\ y[Len(z) + k] = es[k]
      BY <1>1
    <3> QED BY <3>1, <3>2
  <2> QED BY <2>1, <2>2
<1>9. Goes(y, type, b, seen, t)
  BY <1>6, <1>7, <1>8 DEF Goes
<1> QED BY <1>9 DEF y

\* More seen is less to come.
LEMMA SeenMore ==
  ASSUME NEW z, NEW type, NEW b, NEW seen \in Nat, NEW more \in Nat, seen <= more, NEW sent \in Nat,
         Goes(z, type, b, seen, sent)
  PROVE  Goes(z, type, b, more, sent)
<1>1. \A n \in (more + 1)..sent : n \in (seen + 1)..sent
  OBVIOUS
<1> QED BY <1>1 DEF Goes

\* The first frame is taken: behind a later barrier nothing changes.
LEMMA TakenBefore ==
  ASSUME NEW z \in Seq(Frame), z # << >>, NEW type, NEW b \in 0..Len(Tail(z)), NEW seen, NEW sent,
         Goes(z, type, b + 1, seen, sent)
  PROVE  Goes(Tail(z), type, b, seen, sent)
<1> DEFINE y == Tail(z)
<1>1. /\ Len(z) \in Nat /\ Len(y) \in Nat /\ Len(z) = Len(y) + 1
      /\ \A k \in 1..Len(y) : y[k] = z[k + 1]
  OBVIOUS
<1> HIDE DEF y
<1>2. ASSUME NEW k \in (b + 1)..Len(y) PROVE k + 1 \in (b + 1 + 1)..Len(z) /\ y[k] = z[k + 1] /\ k \in Nat
  BY <1>1
<1>3. ASSUME NEW k \in (b + 1)..Len(y), y[k].type = type
      PROVE  /\ y[k].number <= sent
             /\ \A l \in (b + 1)..Len(y) : y[l].type = type /\ k < l => y[k].number < y[l].number
  <2>1. k + 1 \in (b + 1 + 1)..Len(z) /\ z[k + 1].type = type /\ y[k] = z[k + 1] /\ k \in Nat
    BY <1>2, <1>3
  <2>2. y[k].number <= sent
    BY <2>1 DEF Goes
  <2>3. ASSUME NEW l \in (b + 1)..Len(y), y[l].type = type, k < l PROVE y[k].number < y[l].number
    <3>1. l + 1 \in (b + 1 + 1)..Len(z) /\ z[l + 1].type = type /\ y[l] = z[l + 1] /\ k + 1 < l + 1
      BY <1>2, <2>1, <2>3
    <3> QED BY <2>1, <3>1 DEF Goes
  <2> QED BY <2>2, <2>3
<1>4. ASSUME NEW n \in (seen + 1)..sent PROVE \E k \in (b + 1)..Len(y) : y[k].type = type /\ y[k].number = n
  <2>1. PICK k \in (b + 1 + 1)..Len(z) : z[k].type = type /\ z[k].number = n
    BY DEF Goes
  <2>2. k - 1 \in (b + 1)..Len(y) /\ (k - 1) + 1 = k
    BY <1>1
  <2>3. y[k - 1] = z[k]
    BY <1>2, <2>2
  <2> QED BY <2>1, <2>2, <2>3
<1>5. Goes(y, type, b, seen, sent)
  BY <1>3, <1>4 DEF Goes
<1> QED BY <1>5 DEF y

\* The first frame is taken behind the last barrier: it is the next one or an old one.
LEMMA TakenBehind ==
  ASSUME NEW z \in Seq(Frame), z # << >>, NEW type \in {"change", "event"}, NEW seen \in Nat, NEW sent \in Nat,
         Goes(z, type, 0, seen, sent)
  PROVE  Goes(Tail(z), type, 0, IF Head(z).type = type /\ Head(z).number = seen + 1 THEN seen + 1 ELSE seen, sent)
<1> DEFINE more == IF Head(z).type = type /\ Head(z).number = seen + 1 THEN seen + 1 ELSE seen
<1>1. Len(z) \in Nat /\ 1 \in 1..Len(z) /\ Head(z) = z[1] /\ z[1] \in Frame
  OBVIOUS
<1>2. \A f \in Frame : f.type = type => f.number \in Nat
  BY FrameForms
<1>3. more \in Nat /\ seen <= more
  OBVIOUS
<1>4. ASSUME z[1].type = type, z[1].number > seen PROVE z[1].number = seen + 1
  <2>1. z[1].number \in Nat /\ z[1].number <= sent /\ 0 + 1 = 1
    BY <1>1, <1>2, <1>4 DEF Goes
  <2>2. PICK k \in 1..Len(z) : z[k].type = type /\ z[k].number = seen + 1
    <3>1. seen + 1 \in (seen + 1)..sent
      BY <1>4, <2>1
    <3> QED BY <2>1, <3>1 DEF Goes
  <2>3. CASE k = 1
    BY <2>2, <2>3
  <2>4. CASE k # 1
    <3>1. z[1].number < z[k].number
      BY <1>1, <1>4, <2>1, <2>2, <2>4 DEF Goes
    <3> QED BY <1>4, <2>1, <2>2, <3>1
  <2> QED BY <2>3, <2>4
<1>5. z[1].type = type => z[1].number \in Nat /\ z[1].number <= more
  <2> SUFFICES ASSUME z[1].type = type PROVE z[1].number \in Nat /\ z[1].number <= more
    OBVIOUS
  <2>1. z[1].number \in Nat
    BY <1>1, <1>2
  <2>2. CASE z[1].number > seen
    BY <1>1, <1>4, <2>1, <2>2
  <2>3. CASE ~(z[1].number > seen)
    BY <1>3, <2>1, <2>3
  <2> QED BY <2>1, <2>2, <2>3
<1> HIDE DEF more
<1>6. Goes(z, type, 1, more, sent)
  <2>1. 0 + 1 = 1 /\ 1 + 1 = 2 /\ \A k \in 2..Len(z) : k \in 1..Len(z)
    BY <1>1
  <2>2. \A k \in 2..Len(z) : z[k].type = type =>
          /\ z[k].number <= sent
          /\ \A l \in 2..Len(z) : z[l].type = type /\ k < l => z[k].number < z[l].number
    BY <2>1 DEF Goes
  <2>3. ASSUME NEW n \in (more + 1)..sent PROVE \E k \in 2..Len(z) : z[k].type = type /\ z[k].number = n
    <3>1. PICK k \in 1..Len(z) : z[k].type = type /\ z[k].number = n
      <4>1. n \in (seen + 1)..sent
        BY <1>3
      <4> QED BY <2>1, <4>1 DEF Goes
    <3>2. k # 1
      BY <1>3, <1>5, <3>1
    <3> QED BY <1>1, <3>1, <3>2
  <2> QED BY <2>1, <2>2, <2>3 DEF Goes
<1>7. 0 \in 0..Len(Tail(z)) /\ 0 + 1 = 1
  OBVIOUS
<1> QED BY <1>6, <1>7, TakenBefore DEF more

\* pump() leaves no gap.
LEMMA GapPumped ==
  ASSUME NEW inbox \in Seq(Frame), NEW ph \in PhoneType, NEW p \in PeerType, NEW q, NEW r, NEW n,
         Sent(p, q, r, n), GapFree(inbox \o p.queue, ph, p)
  PROVE  GapFree(inbox \o q.queue, ph, q)
<1> DEFINE z == inbox \o p.queue
           y == inbox \o q.queue
<1>1. z \in Seq(Frame) /\ p.queue \in Seq(Frame)
  BY PeerFields
<1>2. q \in PeerType /\ p.revision \in Nat /\ q.revision \in Nat /\ p.cursor \in Nat /\ q.cursor \in Nat
  BY PeerFields DEF Sent
<1> SUFFICES ASSUME NEW b \in 0..Len(y), IsLast(y, b, ph), q.open, q.watching
             PROVE  /\ Goes(y, "change", b, HasChange(y, b, ph), q.revision)
                    /\ ph.wants /\ q.cursor # Unwatched => Goes(y, "event", b, HasEvent(y, b, ph), q.cursor)
  BY DEF GapFree
<1>3. PICK es \in Seq(Frame) :
        /\ q.queue = p.queue \o es /\ Lacks(es, "ready")
        /\ Run(es, "change", p.revision, q.revision)
        /\ q.cursor # Unwatched =>
             p.cursor # Unwatched /\ p.cursor <= q.cursor /\ Run(es, "event", p.cursor, q.cursor)
  BY DEF Sent
<1>4. p.open /\ p.watching /\ p.revision <= q.revision
  BY DEF Sent
<1>5. y = z \o es
  <2> DEFINE a == p.queue
  <2>1. a \in Seq(Frame)
    BY <1>1
  <2> HIDE DEF a
  <2>2. (inbox \o a) \o es = inbox \o (a \o es)
    BY <2>1, Associates
  <2> QED BY <1>3, <2>2, Zenon DEF a
<1> HIDE DEF y, z
<1>6. /\ Len(y) \in Nat /\ Len(z) \in Nat /\ Len(es) \in Nat /\ Len(y) = Len(z) + Len(es)
      /\ \A k \in 1..Len(z) : y[k] = z[k] /\ k \in 1..Len(y)
      /\ \A k \in 1..Len(y) :
           k \in 1..Len(z) \/ (k > Len(z) /\ k - Len(z) \in 1..Len(es) /\ y[k] = es[k - Len(z)])
  BY <1>1, <1>5, Joined
<1>7. b \in 0..Len(z) /\ (b # 0 => b \in 1..Len(z) /\ y[b] = z[b])
  <2>1. CASE b = 0
    BY <1>6, <2>1
  <2>2. CASE b # 0 /\ ~(b \in 1..Len(z))
    <3>1. b \in 1..Len(y) /\ y[b].type = "ready"
      BY <1>6, <2>2 DEF IsLast
    <3>2. b - Len(z) \in 1..Len(es) /\ y[b] = es[b - Len(z)]
      BY <1>6, <2>2, <3>1
    <3> QED BY <1>3, <3>1, <3>2 DEF Lacks
  <2>3. CASE b \in 1..Len(z)
    BY <1>6, <2>3
  <2> QED BY <2>1, <2>2, <2>3
<1>8. IsLast(z, b, ph)
  <2>1. \A k \in (b + 1)..Len(z) : k \in (b + 1)..Len(y) /\ z[k] = y[k]
    BY <1>6, <1>7
  <2>2. \A k \in (b + 1)..Len(z) : z[k].type # "ready"
    BY <2>1 DEF IsLast
  <2> QED BY <1>7, <2>2 DEF IsLast
<1>9. HasChange(y, b, ph) = HasChange(z, b, ph) /\ HasEvent(y, b, ph) = HasEvent(z, b, ph)
  BY <1>7 DEF HasChange, HasEvent
<1>10. HasChange(z, b, ph) \in Nat /\ HasEvent(z, b, ph) \in Nat
  <2>1. ph.revision \in Nat /\ ph.untilRevision \in Nat /\ ph.cursor \in Nat /\ ph.untilEvent \in Nat
    BY DEF PhoneType
  <2>2. CASE b = 0
    BY <2>1, <2>2 DEF HasChange, HasEvent, Has
  <2>3. CASE b # 0
    <3>1. z[b] \in Frame /\ z[b].type = "ready"
      BY <1>1, <1>7, <1>8, <2>3 DEF IsLast, z
    <3>2. z[b].revision \in Nat /\ z[b].highWater \in Nat
      BY <3>1, FrameForms
    <3> QED BY <2>3, <3>2 DEF HasChange, HasEvent
  <2> QED BY <2>2, <2>3
<1>11. /\ Goes(z, "change", b, HasChange(z, b, ph), p.revision)
       /\ ph.wants /\ p.cursor # Unwatched => Goes(z, "event", b, HasEvent(z, b, ph), p.cursor)
  BY <1>4, <1>7, <1>8 DEF GapFree, z
<1>12. z \in Seq(Frame)
  BY <1>1 DEF z
<1>13. Goes(y, "change", b, HasChange(y, b, ph), q.revision)
  <2>1. Goes(z \o es, "change", b, HasChange(z, b, ph), q.revision)
    BY <1>2, <1>3, <1>4, <1>7, <1>10, <1>11, <1>12, GoesOn
  <2> QED BY <1>5, <1>9, <2>1, Zenon
<1>14. ASSUME ph.wants, q.cursor # Unwatched PROVE Goes(y, "event", b, HasEvent(y, b, ph), q.cursor)
  <2>1. p.cursor # Unwatched /\ p.cursor <= q.cursor /\ Run(es, "event", p.cursor, q.cursor)
    BY <1>3, <1>14
  <2>2. Goes(z, "event", b, HasEvent(z, b, ph), p.cursor)
    BY <1>11, <1>14, <2>1
  <2>3. Goes(z \o es, "event", b, HasEvent(z, b, ph), q.cursor)
    BY <1>2, <1>7, <1>10, <1>12, <2>1, <2>2, GoesOn
  <2> QED BY <1>5, <1>9, <2>3, Zenon
<1> QED BY <1>13, <1>14

\* The first frame of the write queue is delivered.
LEMMA Delivered ==
  ASSUME NEW s \in Seq(Frame), NEW t \in Seq(Frame), t # << >>
  PROVE  Append(s, Head(t)) \o Tail(t) = s \o t
<1> DEFINE x == Append(s, Head(t)) \o Tail(t)
           y == s \o t
<1>1. Head(t) \in Frame /\ Tail(t) \in Seq(Frame) /\ Append(s, Head(t)) \in Seq(Frame) /\ x \in Seq(Frame) /\ y \in Seq(Frame)
  OBVIOUS
<1>2. /\ Len(s) \in Nat /\ Len(t) \in Nat /\ Len(x) = Len(s) + Len(t) /\ Len(y) = Len(s) + Len(t)
      /\ Len(Append(s, Head(t))) = Len(s) + 1 /\ Len(Tail(t)) = Len(t) - 1 /\ Len(t) >= 1
  BY <1>1
<1>3. ASSUME NEW k \in 1..Len(x) PROVE x[k] = y[k]
  <2>1. CASE k \in 1..Len(s)
    BY <1>1, <1>2, <2>1
  <2>2. CASE k = Len(s) + 1
    BY <1>1, <1>2, <2>2
  <2>3. CASE k > Len(s) + 1
    BY <1>1, <1>2, <2>3
  <2> QED BY <1>2, <2>1, <2>2, <2>3
<1> HIDE DEF x, y
<1>4. x = [k \in 1..Len(x) |-> x[k]] /\ y = [k \in 1..Len(y) |-> y[k]] /\ Len(x) = Len(y)
  BY <1>1, <1>2
<1>5. x = y
  BY <1>3, <1>4
<1> QED BY <1>5 DEF x, y

\* The first frame of the inbox is taken.
LEMMA Taken ==
  ASSUME NEW s \in Seq(Frame), s # << >>, NEW t \in Seq(Frame)
  PROVE  Tail(s) \o t = Tail(s \o t) /\ Head(s \o t) = Head(s) /\ s \o t # << >> /\ Tail(s) \in Seq(Frame)
<1> DEFINE x == Tail(s) \o t
           y == Tail(s \o t)
<1>0. Len(s) \in Nat /\ Len(s) >= 1 /\ Tail(s) \in Seq(Frame) /\ Len(Tail(s)) = Len(s) - 1 /\ Len(t) \in Nat
  OBVIOUS
<1>1. s \o t \in Seq(Frame) /\ Len(s \o t) = Len(s) + Len(t) /\ Head(s \o t) = Head(s) /\ s \o t # << >>
  BY <1>0
<1>2. x \in Seq(Frame) /\ y \in Seq(Frame) /\ Len(x) = Len(s) - 1 + Len(t) /\ Len(y) = Len(s) - 1 + Len(t)
  BY <1>0, <1>1
<1>3. ASSUME NEW k \in 1..Len(x) PROVE x[k] = y[k]
  <2>1. y[k] = (s \o t)[k + 1]
    BY <1>0, <1>1, <1>2
  <2>2. CASE k <= Len(s) - 1
    BY <1>0, <1>2, <2>1, <2>2
  <2>3. CASE k > Len(s) - 1
    BY <1>0, <1>2, <2>1, <2>3
  <2> QED BY <1>0, <2>2, <2>3
<1> HIDE DEF x, y
<1>4. x = [k \in 1..Len(x) |-> x[k]] /\ y = [k \in 1..Len(y) |-> y[k]] /\ Len(x) = Len(y)
  BY <1>2
<1>5. x = y
  BY <1>3, <1>4
<1> QED BY <1>0, <1>1, <1>5 DEF x, y

-----------------------------------------------------------------------------
(* What the client's and the peer's part of the invariant says of a client ph and *)
(* a peer p, when r changes and n events are committed.                    *)

Fed(ph, p, r, n) ==
  /\ ph \in PhoneType /\ p \in PeerType
  /\ PeerHolds(p, r, n, ph.wants) /\ PhoneHolds(ph, r, n)
  /\ GapFree(ph.inbox \o p.queue, ph, p)

LEMMA Feed ==
  /\ IInv => Fed(phone, peer, revision, Len(log)) /\ Stored /\ Copies
  /\ Fed(phone', peer', revision', Len(log')) /\ Stored' /\ Copies' => IInv'
<1>1. IInv => Fed(phone, peer, revision, Len(log)) /\ Stored /\ Copies
  BY Gap DEF IInv, Fed, Types
<1>2. ASSUME Fed(phone', peer', revision', Len(log')), Stored', Copies' PROVE IInv'
  <2>1. NoGapAtBarrier'
    BY <1>2, Gap DEF Fed
  <2>2. Types'
    BY <1>2 DEF Fed, Types, PhoneType, PeerType, Frame, Modes, Codes, ItemType
  <2>3. /\ PeerHolds(peer, revision, Len(log), phone.wants)'
        /\ PhoneHolds(phone, revision, Len(log))'
    BY <1>2 DEF Fed, PeerHolds, PhoneHolds, FrameHolds, Unwatched
  <2> QED BY <1>2, <2>1, <2>2, <2>3 DEF IInv
<1> QED BY <1>1, <1>2

\* The fields of a client.
LEMMA PhoneFields ==
  ASSUME NEW ph \in PhoneType
  PROVE  /\ ph.mode \in Modes /\ ph.revision \in Nat /\ ph.cursor \in Nat /\ ph.items \in [Items -> ItemType]
         /\ ph.wants \in BOOLEAN /\ ph.untilRevision \in Nat /\ ph.untilEvent \in Nat /\ ph.inbox \in Seq(Frame)
  BY DEF PhoneType

\* Frames stay true when more is committed and when the client stops wanting events.
LEMMA FramesKept ==
  ASSUME NEW f, NEW r \in Nat, NEW n \in Nat, NEW s \in Nat, NEW m \in Nat, r <= s, n <= m,
         NEW wants, NEW later, later => wants, FrameHolds(f, r, n, wants)
  PROVE  FrameHolds(f, s, m, later)
<1>1. f.type = "change" => f.number \in 1..s
  BY DEF FrameHolds
<1>2. f.type = "event" => f.number \in 1..m
  BY DEF FrameHolds
<1>3. f.type = "ready" => f.revision \in 0..s
  BY DEF FrameHolds
<1> QED BY <1>1, <1>2, <1>3 DEF FrameHolds

\* More is committed.
LEMMA FedMore ==
  ASSUME NEW ph, NEW p, NEW r \in Nat, NEW n \in Nat, NEW s \in Nat, NEW m \in Nat, r <= s, n <= m,
         Fed(ph, p, r, n)
  PROVE  Fed(ph, p, s, m)
<1>1. \A f : FrameHolds(f, r, n, ph.wants) => FrameHolds(f, s, m, ph.wants)
  BY FramesKept
<1>2. p.revision \in Nat /\ p.cursor \in Nat
  BY PeerFields DEF Fed
<1>3. ph.revision \in Nat /\ ph.untilRevision \in Nat /\ ph.cursor \in Nat
  BY PhoneFields DEF Fed
<1>4. PeerHolds(p, s, m, ph.wants)
  BY <1>1, <1>2 DEF Fed, PeerHolds
<1>5. PhoneHolds(ph, s, m)
  BY <1>1, <1>3 DEF Fed, PhoneHolds
<1> QED BY <1>4, <1>5 DEF Fed

\* What is sent on what is committed.
LEMMA FedSent ==
  ASSUME NEW ph, NEW p, NEW q, NEW r \in Nat, NEW n \in Nat, Fed(ph, p, r, n), Sent(p, q, r, n)
  PROVE  Fed(ph, q, r, n)
<1>1. p \in PeerType /\ \A f \in Range(p.queue) : FrameHolds(f, r, n, ph.wants)
  BY DEF Fed, PeerHolds
<1>2. /\ q \in PeerType /\ Len(q.queue) <= QueueFrames
      /\ q.revision <= r /\ q.cursor \in 0..n \cup {Unwatched}
      /\ \A f \in Range(q.queue) \ Range(p.queue) :
           \/ f.type = "error"
           \/ f.type = "change" /\ f.number \in 1..r
           \/ f.type = "event" /\ f.number \in 1..n
  BY DEF Sent
<1>3. \A f \in Range(q.queue) : FrameHolds(f, r, n, ph.wants)
  BY <1>1, <1>2 DEF FrameHolds
<1>4. PeerHolds(q, r, n, ph.wants)
  BY <1>2, <1>3 DEF PeerHolds
<1>5. ph \in PhoneType /\ ph.inbox \in Seq(Frame) /\ GapFree(ph.inbox \o p.queue, ph, p)
  BY PhoneFields DEF Fed
<1>6. GapFree(ph.inbox \o q.queue, ph, q)
  BY <1>1, <1>5, GapPumped
<1> QED BY <1>2, <1>4, <1>5, <1>6 DEF Fed

\* pump() on what is committed.
LEMMA FedPumped ==
  ASSUME NEW ph, NEW p, NEW r \in Nat, NEW n \in Nat, n <= MaxEvents,
         NEW gone \in BOOLEAN, NEW cut \in BOOLEAN, Fed(ph, p, r, n)
  PROVE  Fed(ph, PumpTo(p, r, gone, n, cut), r, n)
<1> DEFINE q == PumpTo(p, r, gone, n, cut)
<1>1. p \in PeerType /\ Len(p.queue) <= QueueFrames /\ p.revision <= r /\ p.cursor \in 0..n \cup {Unwatched}
  BY DEF Fed, PeerHolds
<1>2. q = PumpTo(p, r, gone, n, cut)
  OBVIOUS
<1> HIDE DEF q
<1>3. Sent(p, q, r, n)
  BY <1>1, <1>2, Pumped
<1>4. Fed(ph, q, r, n)
  BY <1>3, FedSent
<1> QED BY <1>2, <1>4

\* A commit that grows the log and the changes, with the pump() behind it.
LEMMA CommitFeeds ==
  ASSUME IInv, revision' \in Nat, revision <= revision', Len(log') \in Nat, Len(log) <= Len(log'),
         Len(log') <= MaxEvents, UNCHANGED phone, Pumps(peer)
  PROVE  Fed(phone', peer', revision', Len(log'))
<1>1. Fed(phone, peer, revision, Len(log)) /\ revision \in Nat /\ Len(log) \in Nat
  BY Feed DEF Stored
<1>2. Fed(phone, peer, revision', Len(log'))
  BY <1>1, FedMore
<1>3. PICK gone, cut \in BOOLEAN : peer' = PumpTo(peer, revision', gone, Len(log'), cut)
  BY PumpsTo
<1>4. Fed(phone, peer', revision', Len(log'))
  BY <1>2, <1>3, FedPumped
<1> QED BY <1>4

-----------------------------------------------------------------------------
(* The copies. *)

\* Nothing is said before the first event.
LEMMA NothingSaid ==
  ASSUME NEW lg, NEW i
  PROVE  Says(lg, NoItem, i, 0) /\ NoItem \in ItemType /\ Empty \in [Items -> ItemType]
<1>1. Of(lg, i, "completed", 0) = {} /\ Of(lg, i, "delta", 0) = {}
  BY DEF Of
<1>2. Range(<< >>) = {} /\ Lists(<< >>, {})
  BY ConstantsAssumption DEF Range, Lists
<1>3. NoItem.text = << >> /\ NoItem.complete = FALSE /\ NoItem.cut = FALSE
  BY DEF NoItem
<1>4. Says(lg, NoItem, i, 0)
  BY <1>1, <1>2, <1>3 DEF Says
<1>5. << >> \in SeqOf(1..MaxEvents, MaxText)
  <2>1. << >> \in Seq(1..MaxEvents) /\ Len(<< >>) <= MaxText /\ MaxText \in Nat
    BY ConstantsAssumption
  <2> QED BY <2>1, ShortSeq
<1>6. NoItem \in ItemType
  BY <1>5 DEF NoItem, ItemType
<1> QED BY <1>4, <1>6 DEF Empty

\* A longer log says the same of its first events.
LEMMA PrefixSays ==
  ASSUME NEW lg, NEW longer, NEW x, NEW i, NEW n \in Nat, \A m \in 1..n : longer[m] = lg[m]
  PROVE  Says(longer, x, i, n) <=> Says(lg, x, i, n)
<1>1. \A kind : Of(longer, i, kind, n) = Of(lg, i, kind, n)
  BY DEF Of
<1> QED BY <1>1, Zenon DEF Says

\* Nothing is copied.
LEMMA CopiesKept ==
  ASSUME Copies, UNCHANGED <<log, timeline, purged, checkpoint>>,
         phone'.items = phone.items /\ phone'.cursor = phone.cursor
  PROVE  Copies'
  BY DEF Copies, BodyMatchesCursor

-----------------------------------------------------------------------------
(* The initial state. *)

LEMMA InitFeed == Init => IInv
<1> SUFFICES ASSUME Init PROVE IInv
  OBVIOUS
<1>1. /\ log = << >> /\ timeline = Empty /\ revision = 0 /\ floor = 0 /\ purged = FALSE
      /\ checkpoint = NoCheckpoint /\ peer = NoPeer /\ phone = NewPhone
  BY DEF Init
<1>2. Empty \in [Items -> ItemType] /\ \A i \in Items : Empty[i] = NoItem /\ Says(log, NoItem, i, 0)
  BY NothingSaid DEF Empty
<1>3. MaxEvents \in Nat /\ MaxRevision \in Nat /\ Unwatched \in Nat /\ QueueFrames \in Nat
  BY ConstantsAssumption DEF Unwatched
<1>4. Stored
  <2>1. log \in Seq(LogEvent) /\ Len(log) = 0
    BY <1>1
  <2>2. checkpoint \in [sequence : 0..0, items : [Items -> ItemType]]
    BY <1>1, <1>2 DEF NoCheckpoint
  <2>3. revision \in 0..MaxRevision /\ floor \in 0..revision /\ purged \in BOOLEAN
    <3>1. revision = 0 /\ floor = 0 /\ purged = FALSE
      BY <1>1
    <3>2. 0 \in 0..MaxRevision /\ 0 \in 0..0 /\ FALSE \in BOOLEAN
      BY <1>3
    <3> QED BY <3>1, <3>2, Zenon
  <2>4. timeline \in [Items -> ItemType]
    BY <1>1, <1>2
  <2> QED BY <1>3, <2>1, <2>2, <2>3, <2>4 DEF Stored
<1>5. peer \in PeerType
  BY <1>1, <1>3 DEF NoPeer, PeerType
<1>6. phone \in PhoneType
  BY <1>1, <1>2 DEF NewPhone, PhoneType, Modes
<1>7. PeerHolds(peer, revision, Len(log), phone.wants)
  BY <1>1, <1>3 DEF NoPeer, PeerHolds, Range
<1>8. PhoneHolds(phone, revision, Len(log))
  BY <1>1, <1>3 DEF NewPhone, PhoneHolds, Range, Unwatched
<1>9. Copies
  <2>1. checkpoint.items = Empty /\ checkpoint.sequence = 0 /\ phone.items = Empty /\ phone.cursor = 0 /\ Len(log) = 0
    BY <1>1 DEF NoCheckpoint, NewPhone
  <2> QED BY <1>1, <1>2, <2>1 DEF Copies, BodyMatchesCursor
<1>10. NoGapAtBarrier
  BY <1>1 DEF NoGapAtBarrier, NoPeer
<1> QED BY <1>4, <1>5, <1>6, <1>7, <1>8, <1>9, <1>10 DEF IInv, Types

-----------------------------------------------------------------------------
(* The commits. *)

\* Nothing but the number of changes, the deleted ones and the peer change.
LEMMA ChangesKeep ==
  ASSUME IInv, revision' \in revision..MaxRevision, floor' \in 0..revision',
         UNCHANGED <<log, timeline, purged, checkpoint, phone>>, Pumps(peer)
  PROVE  IInv'
<1>1. Stored /\ Copies
  BY Feed
<1>2. Stored'
  BY <1>1 DEF Stored
<1>3. Copies'
  BY <1>1, CopiesKept
<1>4. Fed(phone', peer', revision', Len(log'))
  BY <1>1, CommitFeeds DEF Stored
<1> QED BY <1>2, <1>3, <1>4, Feed

LEMMA AppendEventKeeps ==
  ASSUME IInv, NEW e \in LogEvent, AppendEvent(e)
  PROVE  IInv'
<1>1. /\ ~purged /\ Len(log) < MaxEvents /\ revision < MaxRevision
      /\ log' = Append(log, e) /\ timeline' = Project(timeline, e, Len(log')) /\ revision' = revision + 1
      /\ floor' = floor /\ purged' = purged /\ checkpoint' = checkpoint /\ phone' = phone
      /\ Pumps(peer)
  BY DEF AppendEvent
<1>2. Stored /\ Copies /\ phone \in PhoneType /\ phone.cursor \in 0..Len(log)
  BY Feed, PhoneFields DEF IInv, Types, PhoneHolds
<1> DEFINE n == Len(log)
<1>3. /\ log' \in Seq(LogEvent) /\ Len(log') = n + 1 /\ n \in Nat /\ n < Len(log') /\ Len(log') <= MaxEvents
      /\ log'[n + 1] = e /\ \A m \in 1..n : log'[m] = log[m]
  <2>1. log \in Seq(LogEvent) /\ n \in Nat /\ MaxEvents \in Nat
    BY <1>2, ConstantsAssumption DEF Stored
  <2>2. n < MaxEvents
    BY <1>1
  <2>3. /\ Append(log, e) \in Seq(LogEvent) /\ Len(Append(log, e)) = Len(log) + 1
        /\ Append(log, e)[Len(log) + 1] = e /\ \A m \in 1..Len(log) : Append(log, e)[m] = log[m]
    BY <2>1
  <2> QED BY <1>1, <2>1, <2>2, <2>3
<1>4. timeline' \in [Items -> ItemType] /\ \A i \in Items : Says(log', timeline'[i], i, n + 1)
  <2>1. timeline \in [Items -> ItemType] /\ \A i \in Items : Says(log', timeline[i], i, n)
    BY <1>1, <1>2, <1>3, PrefixSays DEF Stored, Copies
  <2> HIDE DEF n
  <2>2. /\ Project(timeline, log'[n + 1], n + 1) \in [Items -> ItemType]
        /\ \A i \in Items : Says(log', Project(timeline, log'[n + 1], n + 1)[i], i, n + 1)
    BY <1>3, <2>1, ProjectSays
  <2> QED BY <1>1, <1>3, <2>2
<1>5. Stored'
  <2>1. revision \in Nat /\ MaxRevision \in Nat /\ floor \in 0..revision /\ purged \in BOOLEAN /\ revision <= MaxRevision
    BY <1>2, ConstantsAssumption DEF Stored
  <2>2. revision' \in 0..MaxRevision /\ floor' \in 0..revision' /\ purged' \in BOOLEAN
    BY <1>1, <2>1
  <2>3. checkpoint' \in [sequence : 0..Len(log'), items : [Items -> ItemType]]
    <3>1. checkpoint \in [sequence : 0..Len(log), items : [Items -> ItemType]]
      BY <1>2 DEF Stored
    <3>2. 0..Len(log) \subseteq 0..Len(log')
      BY <1>3
    <3> QED BY <1>1, <3>1, <3>2
  <2>4. ItemType' = ItemType /\ LogEvent' = LogEvent
    BY DEF ItemType, LogEvent
  <2> QED BY <1>3, <1>4, <2>2, <2>3, <2>4 DEF Stored
<1>6. Copies'
  <2>1. \A i \in Items : Says(log', checkpoint'.items[i], i, checkpoint'.sequence)
    <3>1. checkpoint.sequence \in Nat /\ checkpoint.sequence <= n
      BY <1>2 DEF Stored
    <3>2. \A m \in 1..checkpoint.sequence : log'[m] = log[m]
      BY <1>3, <3>1
    <3>3. \A i \in Items : Says(log, checkpoint.items[i], i, checkpoint.sequence)
      BY <1>2 DEF Copies
    <3> QED BY <1>1, <3>1, <3>2, <3>3, PrefixSays
  <2>2. \A i \in Items : Says(log', phone'.items[i], i, phone'.cursor)
    <3>1. phone.cursor \in Nat /\ \A m \in 1..phone.cursor : log'[m] = log[m]
      BY <1>2, <1>3
    <3>2. \A i \in Items : Says(log, phone.items[i], i, phone.cursor)
      BY <1>2 DEF Copies, BodyMatchesCursor
    <3> QED BY <1>1, <3>1, <3>2, PrefixSays
  <2>3. \A i \in Items : Says(log', timeline'[i], i, Len(log'))
    BY <1>3, <1>4
  <2> QED BY <2>1, <2>2, <2>3 DEF Copies, BodyMatchesCursor
<1>7. Fed(phone', peer', revision', Len(log'))
  <2>1. revision \in Nat
    BY <1>2 DEF Stored
  <2>2. revision' \in Nat /\ revision <= revision' /\ Len(log') \in Nat /\ Len(log) <= Len(log')
    BY <1>1, <1>3, <2>1
  <2> QED BY <1>1, <1>3, <2>2, CommitFeeds
<1> QED BY <1>5, <1>6, <1>7, Feed

LEMMA CommitsKeep ==
  ASSUME IInv, CommitChanges \/ DeleteChanges \/ Tick
  PROVE  IInv'
<1>1. revision \in 0..MaxRevision /\ floor \in 0..revision /\ MaxRevision \in Nat
  BY ConstantsAssumption DEF IInv, Types, Stored
<1>2. CASE CommitChanges
  <2>1. PICK k \in 1..(Batch + 1) : revision + k <= MaxRevision /\ revision' = revision + k
    BY <1>2 DEF CommitChanges
  <2>2. UNCHANGED <<log, timeline, floor, purged, checkpoint, phone>> /\ Pumps(peer)
    BY <1>2 DEF CommitChanges
  <2>3. revision' \in revision..MaxRevision /\ floor' \in 0..revision'
    BY <1>1, <2>1, <2>2
  <2> QED BY <2>2, <2>3, ChangesKeep
<1>3. CASE DeleteChanges
  <2>1. /\ \E to \in (floor + 1)..revision : floor' = to
        /\ UNCHANGED <<log, timeline, revision, purged, checkpoint, phone>> /\ Pumps(peer)
    BY <1>3 DEF DeleteChanges
  <2>2. revision' \in revision..MaxRevision /\ floor' \in 0..revision'
    BY <1>1, <2>1
  <2> QED BY <2>1, <2>2, ChangesKeep
<1>4. CASE Tick
  <2>1. UNCHANGED <<log, timeline, revision, floor, purged, checkpoint, phone>> /\ Pumps(peer)
    BY <1>4 DEF Tick, db
  <2>2. revision' \in revision..MaxRevision /\ floor' \in 0..revision'
    BY <1>1, <2>1
  <2> QED BY <2>1, <2>2, ChangesKeep
<1> QED BY <1>2, <1>3, <1>4

LEMMA PurgeHistoryKeeps ==
  ASSUME IInv, PurgeHistory
  PROVE  IInv'
<1>1. /\ revision < MaxRevision /\ purged' = TRUE /\ timeline' = Empty /\ revision' = revision + 1
      /\ checkpoint' = NoCheckpoint /\ log' = log /\ floor' = floor /\ phone' = phone /\ Pumps(peer)
  BY DEF PurgeHistory
<1>2. Stored /\ Copies
  BY Feed
<1>3. Empty \in [Items -> ItemType] /\ \A i \in Items : Empty[i] = NoItem /\ Says(log, NoItem, i, 0)
  BY NothingSaid DEF Empty
<1>4. revision \in Nat /\ revision' \in 0..MaxRevision /\ floor' \in 0..revision' /\ revision <= revision'
  BY <1>1, <1>2, ConstantsAssumption DEF Stored
<1>5. checkpoint'.items = Empty /\ checkpoint'.sequence = 0
  BY <1>1 DEF NoCheckpoint
<1>6. Stored'
  <2>1. log \in Seq(LogEvent) /\ Len(log) <= MaxEvents /\ Len(log) \in Nat
    BY <1>2 DEF Stored
  <2>2. checkpoint' \in [sequence : 0..Len(log), items : [Items -> ItemType]]
    BY <1>1, <1>3, <2>1 DEF NoCheckpoint
  <2> QED BY <1>1, <1>3, <1>4, <2>1, <2>2 DEF Stored, ItemType, LogEvent
<1>7. Copies'
  BY <1>1, <1>2, <1>3, <1>5 DEF Copies, BodyMatchesCursor
<1>8. Fed(phone', peer', revision', Len(log'))
  BY <1>1, <1>2, <1>4, CommitFeeds DEF Stored
<1> QED BY <1>6, <1>7, <1>8, Feed

LEMMA TakeCheckpointKeeps ==
  ASSUME IInv, TakeCheckpoint
  PROVE  IInv'
<1>1. /\ ~purged /\ checkpoint' = Copy /\ UNCHANGED <<log, timeline, revision, floor, purged, phone>>
      /\ Pumps(peer)
  BY DEF TakeCheckpoint, db
<1>2. Stored /\ Copies
  BY Feed
<1>3. /\ checkpoint' \in [sequence : 0..Len(log), items : [Items -> ItemType]]
      /\ checkpoint'.sequence = Len(log) /\ checkpoint'.items = timeline
  BY <1>1, <1>2 DEF Copy, Stored
<1>4. Stored'
  BY <1>1, <1>2, <1>3 DEF Stored, ItemType, LogEvent
<1>5. Copies'
  BY <1>1, <1>2, <1>3 DEF Copies, BodyMatchesCursor
<1>6. Fed(phone', peer', revision', Len(log'))
  BY <1>1, <1>2, CommitFeeds DEF Stored
<1> QED BY <1>4, <1>5, <1>6, Feed

-----------------------------------------------------------------------------
(* The socket. *)

\* A step of the client and its peer alone.
LEMMA FeedKeeps ==
  ASSUME IInv, UNCHANGED <<db, checkpoint>>, phone'.items = phone.items, phone'.cursor = phone.cursor,
         Fed(phone', peer', revision, Len(log))
  PROVE  IInv'
<1>1. Stored /\ Copies /\ UNCHANGED <<log, timeline, revision, floor, purged, checkpoint>>
  BY Feed DEF db
<1>2. Stored'
  BY <1>1 DEF Stored, ItemType, LogEvent
<1>3. Copies'
  BY <1>1, CopiesKept
<1> QED BY <1>1, <1>2, <1>3, Feed

\* A peer that is closed or does not watch promises nothing.
LEMMA NoPromise ==
  ASSUME NEW z, NEW ph, NEW p, ~p.open \/ ~p.watching
  PROVE  GapFree(z, ph, p)
  BY DEF GapFree

\* An empty queue.
LEMMA Nothing ==
  Range(<< >>) = {} /\ << >> \in Seq(Frame) /\ Len(<< >>) = 0
  BY DEF Range

LEMMA ConnectKeeps ==
  ASSUME IInv, Connect \/ Disconnected
  PROVE  IInv'
<1>1. /\ peer' = NoPeer \/ peer' = [NoPeer EXCEPT !.open = TRUE]
      /\ \E mode \in Modes : phone' = [phone EXCEPT !.mode = mode, !.inbox = <<>>]
      /\ UNCHANGED <<db, checkpoint>>
  BY DEF Connect, Disconnected, Modes
<1>2. PICK mode \in Modes : phone' = [phone EXCEPT !.mode = mode, !.inbox = <<>>]
  BY <1>1
<1>3. /\ Fed(phone, peer, revision, Len(log)) /\ phone \in PhoneType /\ revision \in Nat /\ Len(log) \in Nat
      /\ Unwatched \in Nat /\ QueueFrames \in Nat
  BY Feed, ConstantsAssumption DEF Stored, Fed, Unwatched
<1>4. peer' \in PeerType /\ peer'.watching = FALSE /\ peer'.queue = << >> /\ peer'.revision = 0 /\ peer'.cursor = Unwatched
  <2>1. NoPeer \in PeerType /\ NoPeer.watching = FALSE /\ NoPeer.queue = << >> /\ NoPeer.revision = 0 /\ NoPeer.cursor = Unwatched
    <3>1. << >> \in Seq(Frame)
      BY Nothing
    <3> QED BY <1>3, <3>1 DEF NoPeer, PeerType
  <2>2. peer' = NoPeer \/ peer' = [NoPeer EXCEPT !.open = TRUE]
    BY <1>1
  <2> QED BY <2>1, <2>2 DEF PeerType
<1>5. /\ phone' \in PhoneType /\ phone'.inbox = << >> /\ phone'.wants = phone.wants
      /\ phone'.revision = phone.revision /\ phone'.cursor = phone.cursor /\ phone'.items = phone.items
      /\ phone'.untilRevision = phone.untilRevision /\ phone'.untilEvent = phone.untilEvent
  BY <1>2, <1>3, Nothing DEF PhoneType
<1>6. PeerHolds(peer', revision, Len(log), phone'.wants)
  BY <1>3, <1>4, Nothing DEF PeerHolds
<1>7. PhoneHolds(phone', revision, Len(log))
  BY <1>3, <1>5, Nothing DEF Fed, PhoneHolds
<1>8. Fed(phone', peer', revision, Len(log))
  BY <1>4, <1>5, <1>6, <1>7, NoPromise DEF Fed
<1> QED BY <1>1, <1>5, <1>8, FeedKeeps

LEMMA LoseConnectionKeeps ==
  ASSUME IInv, LoseConnection
  PROVE  IInv'
<1>1. peer' = [peer EXCEPT !.open = FALSE] /\ UNCHANGED <<db, checkpoint, phone>>
  BY DEF LoseConnection
<1>2. Fed(phone, peer, revision, Len(log))
  BY Feed
<1>3. /\ peer' \in PeerType /\ peer'.open = FALSE /\ peer'.queue = peer.queue /\ peer'.revision = peer.revision
      /\ peer'.cursor = peer.cursor
  BY <1>1, <1>2 DEF Fed, PeerType
<1>4. Fed(phone, peer', revision, Len(log))
  BY <1>2, <1>3, NoPromise DEF Fed, PeerHolds
<1> QED BY <1>1, <1>4, FeedKeeps

LEMMA UnwatchKeeps ==
  ASSUME IInv, Unwatch
  PROVE  IInv'
<1> DEFINE p == [peer EXCEPT !.cursor = Unwatched]
<1>1. Pumps(p) /\ phone' = [phone EXCEPT !.wants = FALSE] /\ UNCHANGED <<db, checkpoint>>
  BY DEF Unwatch
<1>2. /\ Fed(phone, peer, revision, Len(log)) /\ revision \in Nat /\ Len(log) \in Nat /\ Len(log) <= MaxEvents
      /\ Unwatched \in Nat
  BY Feed, ConstantsAssumption DEF Stored, Unwatched
<1>3. /\ p \in PeerType /\ p.open = peer.open /\ p.watching = peer.watching /\ p.queue = peer.queue
      /\ p.revision = peer.revision /\ p.cursor = Unwatched
  BY <1>2 DEF Fed, PeerType
<1>4. /\ phone' \in PhoneType /\ phone'.wants = FALSE /\ phone'.inbox = phone.inbox /\ phone'.mode = phone.mode
      /\ phone'.revision = phone.revision /\ phone'.cursor = phone.cursor /\ phone'.items = phone.items
      /\ phone'.untilRevision = phone.untilRevision /\ phone'.untilEvent = phone.untilEvent
  BY <1>1, <1>2 DEF Fed, PhoneType
<1>5. PICK gone, cut \in BOOLEAN : peer' = PumpTo(p, revision, gone, Len(log), cut)
  BY <1>1, PumpsTo DEF db
<1> HIDE DEF p
<1>6. \A f : FrameHolds(f, revision, Len(log), phone.wants) => FrameHolds(f, revision, Len(log), FALSE)
  BY DEF FrameHolds
<1>7. PeerHolds(p, revision, Len(log), FALSE)
  BY <1>2, <1>3, <1>6 DEF Fed, PeerHolds
<1>8. PhoneHolds(phone', revision, Len(log))
  BY <1>2, <1>4, <1>6 DEF Fed, PhoneHolds
<1>9. GapFree(phone'.inbox \o p.queue, phone', p)
  <2>1. GapFree(phone.inbox \o peer.queue, phone, peer)
    BY <1>2 DEF Fed
  <2>2. \A z, b : IsLast(z, b, phone') <=> IsLast(z, b, phone)
    BY <1>4 DEF IsLast
  <2>3. \A z, b : HasChange(z, b, phone') = HasChange(z, b, phone)
    BY <1>4 DEF HasChange, Has
  <2> QED BY <1>3, <1>4, <2>1, <2>2, <2>3 DEF GapFree
<1>10. Fed(phone', p, revision, Len(log))
  BY <1>3, <1>4, <1>7, <1>8, <1>9 DEF Fed
<1>11. Fed(phone', peer', revision, Len(log))
  BY <1>2, <1>5, <1>10, FedPumped
<1> QED BY <1>1, <1>4, <1>11, FeedKeeps

LEMMA DeliverKeeps ==
  ASSUME IInv, Deliver
  PROVE  IInv'
<1>1. /\ peer.queue # << >> /\ phone' = [phone EXCEPT !.inbox = Append(phone.inbox, Head(peer.queue))]
      /\ peer' = [peer EXCEPT !.queue = Tail(peer.queue)] /\ UNCHANGED <<db, checkpoint>>
  BY DEF Deliver
<1>2. Fed(phone, peer, revision, Len(log))
  BY Feed
<1> DEFINE s == phone.inbox
           t == peer.queue
<1>3. s \in Seq(Frame) /\ t \in Seq(Frame) /\ t # << >>
  BY <1>1, <1>2, PhoneFields, PeerFields DEF Fed
<1> HIDE DEF s, t
<1>4. /\ Tail(t) \in Seq(Frame) /\ Append(s, Head(t)) \in Seq(Frame) /\ Len(Tail(t)) <= Len(t)
      /\ Len(Tail(t)) \in Nat /\ Len(t) \in Nat
  BY <1>3
<1>5. Range(Tail(t)) \subseteq Range(t) /\ Range(Append(s, Head(t))) \subseteq Range(s) \cup Range(t)
  <2>1. /\ DOMAIN Tail(t) = 1..(Len(t) - 1) /\ DOMAIN t = 1..Len(t) /\ DOMAIN s = 1..Len(s)
        /\ \A k \in 1..(Len(t) - 1) : Tail(t)[k] = t[k + 1] /\ k + 1 \in 1..Len(t)
    BY <1>3
  <2>2. /\ DOMAIN Append(s, Head(t)) = 1..(Len(s) + 1) /\ Head(t) = t[1] /\ 1 \in 1..Len(t)
        /\ \A k \in 1..(Len(s) + 1) : (k \in 1..Len(s) /\ Append(s, Head(t))[k] = s[k])
                                      \/ Append(s, Head(t))[k] = t[1]
    BY <1>3
  <2>3. Range(Tail(t)) \subseteq Range(t)
    BY <2>1 DEF Range
  <2> QED BY <2>1, <2>2, <2>3 DEF Range
<1>6. /\ peer' \in PeerType /\ peer'.queue = Tail(t) /\ peer'.open = peer.open /\ peer'.watching = peer.watching
      /\ peer'.revision = peer.revision /\ peer'.cursor = peer.cursor
  BY <1>1, <1>2, <1>4 DEF Fed, PeerType, t
<1>7. /\ phone' \in PhoneType /\ phone'.inbox = Append(s, Head(t)) /\ phone'.mode = phone.mode
      /\ phone'.wants = phone.wants
      /\ phone'.revision = phone.revision /\ phone'.cursor = phone.cursor /\ phone'.items = phone.items
      /\ phone'.untilRevision = phone.untilRevision /\ phone'.untilEvent = phone.untilEvent
  BY <1>1, <1>2, <1>4 DEF Fed, PhoneType, s, t
<1>8. \A f \in Range(s) \cup Range(t) : FrameHolds(f, revision, Len(log), phone.wants)
  BY <1>2 DEF Fed, PeerHolds, PhoneHolds, s, t
<1>9. PeerHolds(peer', revision, Len(log), phone'.wants)
  <2>1. Len(t) <= QueueFrames /\ peer.revision <= revision /\ peer.cursor \in 0..Len(log) \cup {Unwatched}
    BY <1>2 DEF Fed, PeerHolds, t
  <2>2. Len(Tail(t)) <= QueueFrames
    BY <1>4, <2>1, ConstantsAssumption
  <2> QED BY <1>5, <1>6, <1>7, <1>8, <2>1, <2>2 DEF PeerHolds
<1>10. PhoneHolds(phone', revision, Len(log))
  BY <1>2, <1>5, <1>7, <1>8 DEF Fed, PhoneHolds
<1>11. GapFree(phone'.inbox \o peer'.queue, phone', peer')
  <2>1. phone'.inbox \o peer'.queue = s \o t
    BY <1>3, <1>6, <1>7, Delivered
  <2>2. GapFree(s \o t, phone, peer)
    BY <1>2 DEF Fed, s, t
  <2>3. \A z, b : /\ IsLast(z, b, phone') <=> IsLast(z, b, phone)
                  /\ HasChange(z, b, phone') = HasChange(z, b, phone)
                  /\ HasEvent(z, b, phone') = HasEvent(z, b, phone)
    BY <1>7 DEF IsLast, HasChange, HasEvent, Has
  <2> QED BY <1>6, <1>7, <2>1, <2>2, <2>3 DEF GapFree
<1>12. Fed(phone', peer', revision, Len(log))
  BY <1>6, <1>7, <1>9, <1>10, <1>11 DEF Fed
<1> QED BY <1>1, <1>7, <1>12, FeedKeeps

-----------------------------------------------------------------------------
(* The client takes steps of its own. *)

\* The numbers of a client whose frames are true.
Numbers(ph, r, n) ==
  /\ ph.revision <= r /\ ph.untilRevision <= r
  /\ ph.cursor <= n /\ ph.untilEvent \in 0..n \cup {Unwatched}
  /\ ph.wants => ph.untilEvent # Unwatched

\* What the client has can only grow, and it gets to a barrier by taking one only.
Onward(ph, later) ==
  /\ later.wants => ph.wants
  /\ later.mode \in {"recovering", "live"} =>
       /\ ph.mode \in {"recovering", "live"}
       /\ Has(ph, ph.revision, ph.untilRevision) <= Has(later, later.revision, later.untilRevision)
       /\ later.wants => Has(ph, ph.cursor, ph.untilEvent) <= Has(later, later.cursor, later.untilEvent)

LEMMA HasNumber ==
  ASSUME NEW ph \in PhoneType
  PROVE  Has(ph, ph.revision, ph.untilRevision) \in Nat /\ Has(ph, ph.cursor, ph.untilEvent) \in Nat
  BY PhoneFields DEF Has

LEMMA GapOnward ==
  ASSUME NEW z, NEW ph \in PhoneType, NEW later \in PhoneType, NEW p \in PeerType, Onward(ph, later),
         GapFree(z, ph, p)
  PROVE  GapFree(z, later, p)
<1> SUFFICES ASSUME NEW b \in 0..Len(z), IsLast(z, b, later), p.open, p.watching
             PROVE  /\ Goes(z, "change", b, HasChange(z, b, later), p.revision)
                    /\ later.wants /\ p.cursor # Unwatched => Goes(z, "event", b, HasEvent(z, b, later), p.cursor)
  BY DEF GapFree
<1>1. later.wants => ph.wants
  BY DEF Onward
<1>2. IsLast(z, b, ph)
  BY DEF IsLast, Onward
<1>3. /\ Goes(z, "change", b, HasChange(z, b, ph), p.revision)
      /\ ph.wants /\ p.cursor # Unwatched => Goes(z, "event", b, HasEvent(z, b, ph), p.cursor)
  BY <1>2 DEF GapFree
<1>4. CASE b # 0
  <2>1. HasChange(z, b, later) = HasChange(z, b, ph) /\ HasEvent(z, b, later) = HasEvent(z, b, ph)
    BY <1>4 DEF HasChange, HasEvent
  <2> QED BY <1>1, <1>3, <2>1
<1>5. CASE b = 0
  <2>1. /\ Has(ph, ph.revision, ph.untilRevision) <= Has(later, later.revision, later.untilRevision)
        /\ later.wants => Has(ph, ph.cursor, ph.untilEvent) <= Has(later, later.cursor, later.untilEvent)
    BY <1>5 DEF IsLast, Onward
  <2>2. /\ HasChange(z, b, ph) = Has(ph, ph.revision, ph.untilRevision)
        /\ HasEvent(z, b, ph) = Has(ph, ph.cursor, ph.untilEvent)
        /\ HasChange(z, b, later) = Has(later, later.revision, later.untilRevision)
        /\ HasEvent(z, b, later) = Has(later, later.cursor, later.untilEvent)
    BY <1>5 DEF HasChange, HasEvent
  <2>3. /\ HasChange(z, b, ph) \in Nat /\ HasEvent(z, b, ph) \in Nat
        /\ HasChange(z, b, later) \in Nat /\ HasEvent(z, b, later) \in Nat
        /\ HasChange(z, b, ph) <= HasChange(z, b, later)
        /\ later.wants => HasEvent(z, b, ph) <= HasEvent(z, b, later)
    BY <2>1, <2>2, HasNumber
  <2>4. p.revision \in Nat /\ p.cursor \in Nat
    BY PeerFields
  <2> QED BY <1>1, <1>3, <2>3, <2>4, SeenMore
<1> QED BY <1>4, <1>5

LEMMA FedOnward ==
  ASSUME NEW ph, NEW p, NEW r, NEW n, Fed(ph, p, r, n), NEW later \in PhoneType, later.inbox = ph.inbox,
         Numbers(later, r, n), Onward(ph, later)
  PROVE  Fed(later, p, r, n)
<1>1. /\ ph \in PhoneType /\ p \in PeerType /\ GapFree(ph.inbox \o p.queue, ph, p)
      /\ PeerHolds(p, r, n, ph.wants) /\ PhoneHolds(ph, r, n) /\ (later.wants => ph.wants)
  BY DEF Fed, Onward
<1>2. \A f : FrameHolds(f, r, n, ph.wants) => FrameHolds(f, r, n, later.wants)
  BY <1>1 DEF FrameHolds
<1>3. PeerHolds(p, r, n, later.wants)
  BY <1>1, <1>2 DEF PeerHolds
<1>4. PhoneHolds(later, r, n)
  BY <1>1, <1>2 DEF PhoneHolds, Numbers
<1>5. GapFree(later.inbox \o p.queue, later, p)
  BY <1>1, GapOnward
<1> QED BY <1>1, <1>3, <1>4, <1>5 DEF Fed

-----------------------------------------------------------------------------
(* A watch. *)

\* A frame of its own at the end of the queue.
LEMMA ErrorSent ==
  ASSUME NEW p \in PeerType, Len(p.queue) <= QueueFrames, NEW r \in Nat, NEW n, p.revision <= r,
         p.cursor \in 0..n \cup {Unwatched}, NEW code \in Codes
  PROVE  Sent(p, Offer(p, <<Error(code)>>), r, n)
<1> DEFINE x == <<Error(code)>>
           q == Offer(p, x)
<1>1. x \in Seq(Frame) /\ Len(x) = 1 /\ x[1].type = "error"
  BY FrameForms
<1>2. q = Offer(p, x)
  OBVIOUS
<1> HIDE DEF x, q
<1>3. /\ q \in PeerType /\ Len(q.queue) <= QueueFrames
      /\ q.watching = p.watching /\ q.revision = p.revision /\ q.cursor = p.cursor
      /\ q.open => p.open /\ q.queue = p.queue \o x /\ Len(x) <= Room(p)
      /\ Range(q.queue) \subseteq Range(p.queue) \cup Range(x)
  <2>1. Offered(p, q, x)
    BY <1>1, <1>2, Offers
  <2> QED BY <2>1 DEF Offered
<1>4. \A f \in Range(x) : f.type = "error"
  BY <1>1 DEF Range
<1>5. p.revision \in Nat /\ p.cursor \in Nat
  BY PeerFields
<1>6. Lacks(x, "ready") /\ Run(x, "change", p.revision, p.revision) /\ Run(x, "event", p.cursor, p.cursor)
  <2>1. \A k \in 1..Len(x) : x[k].type = "error"
    BY <1>1
  <2>2. (p.revision + 1)..p.revision = {} /\ (p.cursor + 1)..p.cursor = {}
    BY <1>5
  <2> QED BY <2>1, <2>2 DEF Lacks, Run
<1>7. p.cursor <= p.cursor /\ p.revision <= p.revision
  BY <1>5
<1>8. q.open /\ q.watching =>
        /\ p.open /\ p.watching
        /\ \E es \in Seq(Frame) :
             /\ q.queue = p.queue \o es /\ Lacks(es, "ready")
             /\ Run(es, "change", p.revision, q.revision)
             /\ q.cursor # Unwatched =>
                  p.cursor # Unwatched /\ p.cursor <= q.cursor /\ Run(es, "event", p.cursor, q.cursor)
  BY <1>1, <1>3, <1>6, <1>7, Zenon
<1>9. Sent(p, q, r, n)
  BY <1>3, <1>4, <1>7, <1>8 DEF Sent
<1> QED BY <1>9 DEF q, x

\* The last barrier is the frame at the end, and nothing follows it.
EndsWith(y, b, f) == b # 0 /\ y[b] = f /\ \A type, seen : seen \in Nat => Goes(y, type, b, seen, seen)

\* Frames before the ready at the end are of an earlier barrier.
LEMMA AtTheEnd ==
  ASSUME NEW z \in Seq(Frame), NEW f \in Frame, f.type = "ready", NEW ph, ph.mode = "asked",
         NEW y, y = z \o <<f>>, NEW b \in 0..Len(y), IsLast(y, b, ph)
  PROVE  EndsWith(y, b, f)
<1>1. Len(z) \in Nat /\ Len(y) \in Nat /\ Len(y) = Len(z) + 1 /\ y[Len(z) + 1] = f
  OBVIOUS
<1>2. b # 0
  BY DEF IsLast
<1>3. b = Len(z) + 1
  <2>1. ~(b < Len(z) + 1)
    <3> SUFFICES ASSUME b < Len(z) + 1 PROVE FALSE
      OBVIOUS
    <3>1. Len(z) + 1 \in (b + 1)..Len(y)
      BY <1>1
    <3>2. y[Len(z) + 1].type # "ready"
      BY <3>1 DEF IsLast
    <3> QED BY <1>1, <3>2
  <2> QED BY <1>1, <2>1
<1> SUFFICES ASSUME NEW type, NEW seen \in Nat PROVE Goes(y, type, b, seen, seen)
  BY <1>1, <1>2, <1>3 DEF EndsWith
<1>4. (b + 1)..Len(y) = {} /\ (seen + 1)..seen = {}
  BY <1>1, <1>3
<1> QED BY <1>4 DEF Goes

\* The barrier with its ready, at the end of the queue.
LEMMA Registered ==
  ASSUME NEW ph \in PhoneType, ph.mode = "asked", NEW p \in PeerType, NEW f, NEW r \in Nat, NEW n,
         PeerHolds(p, r, n, ph.wants), PhoneHolds(ph, r, n), NEW q, q = Offer(p, <<f>>),
         f \in Frame, f.type = "ready", f.revision = p.revision, f.highWater = p.cursor,
         FrameHolds(f, r, n, ph.wants)
  PROVE  Fed(ph, q, r, n)
<1> DEFINE x == <<f>>
<1>1. x \in Seq(Frame) /\ Range(x) = {f}
  BY DEF Range
<1>2. q = Offer(p, x)
  OBVIOUS
<1> HIDE DEF x
<1>3. /\ q \in PeerType /\ Len(q.queue) <= QueueFrames
      /\ q.watching = p.watching /\ q.revision = p.revision /\ q.cursor = p.cursor
      /\ q.open => p.open /\ q.queue = p.queue \o x /\ Len(x) <= Room(p)
      /\ Range(q.queue) \subseteq Range(p.queue) \cup Range(x)
  <2>1. Len(p.queue) <= QueueFrames
    BY DEF PeerHolds
  <2>2. Offered(p, q, x)
    BY <1>1, <1>2, <2>1, Offers
  <2> QED BY <2>2 DEF Offered
<1>4. PeerHolds(q, r, n, ph.wants)
  BY <1>1, <1>3 DEF PeerHolds
<1>5. ASSUME q.open PROVE GapFree(ph.inbox \o q.queue, ph, q)
  <2> DEFINE a == ph.inbox
             c == p.queue
             z == a \o c
  <2>1. a \in Seq(Frame) /\ c \in Seq(Frame) /\ q.queue = c \o x
    BY <1>3, <1>5, PhoneFields, PeerFields
  <2> HIDE DEF a, c
  <2>2. z \in Seq(Frame) /\ a \o q.queue = z \o x
    <3>1. z \in Seq(Frame)
      BY <2>1
    <3>2. (a \o c) \o x = a \o (c \o x)
      BY <1>1, <2>1, Associates
    <3> QED BY <2>1, <3>1, <3>2, Zenon
  <2> HIDE DEF z
  <2>3. q.revision \in Nat /\ q.cursor \in Nat
    BY <1>3, PeerFields
  <2> DEFINE y == z \o x
  <2>4. y = z \o <<f>>
    BY DEF x
  <2>5. a \o q.queue = y
    BY <2>2
  <2> HIDE DEF y
  <2>6. ASSUME NEW b \in 0..Len(y), IsLast(y, b, ph)
        PROVE  /\ Goes(y, "change", b, HasChange(y, b, ph), q.revision)
               /\ Goes(y, "event", b, HasEvent(y, b, ph), q.cursor)
    <3>1. EndsWith(y, b, f)
      BY <2>2, <2>4, <2>6, AtTheEnd
    <3>2. HasChange(y, b, ph) = q.revision /\ HasEvent(y, b, ph) = q.cursor
      BY <1>3, <3>1 DEF HasChange, HasEvent, EndsWith
    <3> QED BY <2>3, <3>1, <3>2 DEF EndsWith
  <2>7. GapFree(y, ph, q)
    BY <2>6 DEF GapFree
  <2> QED BY <2>5, <2>7 DEF a
<1>6. GapFree(ph.inbox \o q.queue, ph, q)
  BY <1>5, NoPromise
<1> QED BY <1>3, <1>4, <1>6 DEF Fed

LEMMA WatchKeeps ==
  ASSUME IInv, Watch
  PROVE  IInv'
<1>1. /\ phone' = [phone EXCEPT !.mode = "asked"] /\ UNCHANGED <<db, checkpoint>>
      /\ \/ \E code \in Codes : Refuse(code)
         \/ Pumps(Offer([Barrier(peer) EXCEPT !.watching = TRUE], <<ReadyFrame>>))
  BY DEF Watch, WatchError, Codes
<1>2. /\ Fed(phone, peer, revision, Len(log)) /\ revision \in Nat /\ Len(log) \in Nat /\ Len(log) <= MaxEvents
      /\ Unwatched \in Nat /\ Len(log) # Unwatched
  BY Feed, ConstantsAssumption DEF Stored, Unwatched
<1>3. /\ phone' \in PhoneType /\ phone'.mode = "asked" /\ phone'.inbox = phone.inbox /\ phone'.wants = phone.wants
      /\ phone'.revision = phone.revision /\ phone'.cursor = phone.cursor /\ phone'.items = phone.items
      /\ phone'.untilRevision = phone.untilRevision /\ phone'.untilEvent = phone.untilEvent
  BY <1>1, <1>2 DEF Fed, PhoneType, Modes
<1>4. Fed(phone', peer, revision, Len(log))
  <2>1. Numbers(phone', revision, Len(log)) /\ Onward(phone, phone')
    BY <1>2, <1>3 DEF Fed, PhoneHolds, Numbers, Onward
  <2> QED BY <1>2, <1>3, <2>1, FedOnward
<1>5. ASSUME NEW code \in Codes, Refuse(code) PROVE IInv'
  <2> DEFINE q == Offer(peer, <<Error(code)>>)
  <2>2. /\ peer \in PeerType /\ Len(peer.queue) <= QueueFrames /\ peer.revision <= revision
        /\ peer.cursor \in 0..Len(log) \cup {Unwatched}
    BY <1>2 DEF Fed, PeerHolds
  <2>3. Sent(peer, q, revision, Len(log))
    BY <1>2, <1>5, <2>2, ErrorSent
  <2>4. peer' = q
    BY <1>5 DEF Refuse
  <2> HIDE DEF q
  <2>5. Fed(phone', q, revision, Len(log))
    BY <1>2, <1>4, <2>3, FedSent
  <2> QED BY <1>1, <1>3, <2>4, <2>5, FeedKeeps
<1>6. CASE Pumps(Offer([Barrier(peer) EXCEPT !.watching = TRUE], <<ReadyFrame>>))
  <2> DEFINE p == [Barrier(peer) EXCEPT !.watching = TRUE]
             q == Offer(p, <<ReadyFrame>>)
  <2>1. HighWater \in Nat /\ HighWater \in 0..Len(log) \cup {Unwatched} /\ (phone.wants => HighWater # Unwatched)
    BY <1>2 DEF HighWater
  <2>2. /\ p \in PeerType /\ p.queue = peer.queue /\ p.revision = revision /\ p.cursor = HighWater
    BY <1>2, <2>1 DEF Barrier, Fed, PeerType
  <2>3. PeerHolds(p, revision, Len(log), phone'.wants)
    BY <1>2, <1>3, <2>1, <2>2 DEF Fed, PeerHolds
  <2>4. /\ ReadyFrame \in Frame /\ ReadyFrame.type = "ready" /\ ReadyFrame.revision = revision
        /\ ReadyFrame.highWater = HighWater
    BY <1>2, <2>1, FrameForms DEF ReadyFrame
  <2>5. FrameHolds(ReadyFrame, revision, Len(log), phone'.wants)
    BY <1>2, <1>3, <2>1, <2>4 DEF FrameHolds
  <2>6. PICK gone, cut \in BOOLEAN : peer' = PumpTo(q, revision, gone, Len(log), cut)
    BY <1>1, <1>6, PumpsTo DEF db
  <2>7. PhoneHolds(phone', revision, Len(log))
    BY <1>4 DEF Fed
  <2> HIDE DEF p
  <2>8. Fed(phone', q, revision, Len(log))
    BY <1>2, <1>3, <2>2, <2>3, <2>4, <2>5, <2>7, Registered
  <2> HIDE DEF q
  <2>9. Fed(phone', peer', revision, Len(log))
    BY <1>2, <2>6, <2>8, FedPumped
  <2> QED BY <1>1, <1>3, <2>9, FeedKeeps
<1> QED BY <1>1, <1>5, <1>6

-----------------------------------------------------------------------------
(* HTTP: pages, bootstrap, checkpoints. *)

\* A step of the client alone.
LEMMA ClientKeeps ==
  ASSUME IInv, UNCHANGED <<db, peer>>, phone' \in PhoneType,
         checkpoint' \in [sequence : 0..Len(log), items : [Items -> ItemType]],
         \A i \in Items : Says(log, checkpoint'.items[i], i, checkpoint'.sequence),
         \A i \in Items : Says(log, phone'.items[i], i, phone'.cursor),
         Fed(phone', peer, revision, Len(log))
  PROVE  IInv'
<1>1. Stored /\ Copies /\ UNCHANGED <<log, timeline, revision, floor, purged, peer>>
  BY Feed DEF db
<1>2. Stored'
  BY <1>1 DEF Stored, ItemType, LogEvent
<1>3. Copies'
  BY <1>1 DEF Copies, BodyMatchesCursor
<1> QED BY <1>1, <1>2, <1>3, Feed

\* What the other lemmas of this part start from.
LEMMA ClientFacts ==
  ASSUME IInv
  PROVE  /\ Fed(phone, peer, revision, Len(log)) /\ phone \in PhoneType
         /\ revision \in Nat /\ Len(log) \in Nat /\ Len(log) <= MaxEvents
         /\ phone.mode \in Modes /\ phone.revision \in Nat /\ phone.cursor \in Nat
         /\ phone.untilRevision \in Nat /\ phone.untilEvent \in Nat /\ phone.wants \in BOOLEAN
         /\ phone.items \in [Items -> ItemType] /\ phone.inbox \in Seq(Frame)
         /\ Numbers(phone, revision, Len(log))
         /\ checkpoint \in [sequence : 0..Len(log), items : [Items -> ItemType]]
         /\ \A i \in Items : Says(log, checkpoint.items[i], i, checkpoint.sequence)
         /\ \A i \in Items : Says(log, phone.items[i], i, phone.cursor)
<1>1. Fed(phone, peer, revision, Len(log)) /\ Stored /\ Copies
  BY Feed
<1>2. phone \in PhoneType
  BY <1>1 DEF Fed
<1> QED BY <1>1, <1>2, PhoneFields DEF Stored, Copies, BodyMatchesCursor, Fed, PhoneHolds, Numbers

\* No checkpoint says what no events say.
LEMMA NoCheckpointSays ==
  ASSUME NEW n \in Nat
  PROVE  /\ NoCheckpoint \in [sequence : 0..n, items : [Items -> ItemType]]
         /\ \A i \in Items : Says(log, NoCheckpoint.items[i], i, NoCheckpoint.sequence)
<1>1. Empty \in [Items -> ItemType] /\ \A i \in Items : Empty[i] = NoItem /\ Says(log, NoItem, i, 0)
  BY NothingSaid DEF Empty
<1>2. NoCheckpoint.items = Empty /\ NoCheckpoint.sequence = 0
  BY DEF NoCheckpoint
<1>3. NoCheckpoint \in [sequence : 0..n, items : [Items -> ItemType]]
  BY <1>1 DEF NoCheckpoint
<1> QED BY <1>1, <1>2, <1>3

LEMMA PageChangesKeeps ==
  ASSUME IInv, PageChanges
  PROVE  IInv'
<1> DEFINE to == Upto(phone.revision, phone.untilRevision, Page)
<1>1. /\ phone.mode = "recovering" /\ phone.revision < phone.untilRevision
      /\ phone' = [phone EXCEPT !.revision = to] /\ UNCHANGED <<db, checkpoint, peer>>
  BY DEF PageChanges
<1>2. to \in Nat /\ phone.revision <= to /\ to <= phone.untilRevision
  <2>1. phone.revision + Page \in Nat /\ phone.untilRevision \in Nat /\ phone.revision <= phone.revision + Page
    <3>1. phone.revision \in Nat /\ phone.untilRevision \in Nat
      BY ClientFacts
    <3>2. Page \in Nat
      BY ConstantsAssumption
    <3> QED BY <3>1, <3>2
  <2>2. to = Min({phone.untilRevision, phone.revision + Page})
    BY DEF Upto
  <2> HIDE DEF to
  <2>3. to \in {phone.untilRevision, phone.revision + Page} /\ to <= phone.untilRevision
    BY <2>1, <2>2, Least
  <2> QED BY <1>1, <2>1, <2>3, ClientFacts
<1> HIDE DEF to
<1>3. /\ phone' \in PhoneType /\ phone'.revision = to /\ phone'.mode = phone.mode /\ phone'.inbox = phone.inbox
      /\ phone'.wants = phone.wants /\ phone'.cursor = phone.cursor /\ phone'.items = phone.items
      /\ phone'.untilRevision = phone.untilRevision /\ phone'.untilEvent = phone.untilEvent
  BY <1>1, <1>2, ClientFacts DEF PhoneType
<1>4. Numbers(phone', revision, Len(log))
  BY <1>2, <1>3, ClientFacts DEF Numbers
<1>5. Onward(phone, phone')
  <2>1. /\ Has(phone, phone.revision, phone.untilRevision) = phone.untilRevision
        /\ Has(phone', phone'.revision, phone'.untilRevision) = phone.untilRevision
        /\ Has(phone', phone'.cursor, phone'.untilEvent) = Has(phone, phone.cursor, phone.untilEvent)
    BY <1>1, <1>2, <1>3, ClientFacts DEF Has
  <2>2. Has(phone, phone.cursor, phone.untilEvent) \in Nat /\ phone.untilRevision \in Nat
    BY HasNumber, ClientFacts
  <2> QED BY <1>3, <1>1, <2>1, <2>2 DEF Onward
<1>6. Fed(phone', peer, revision, Len(log))
  BY <1>3, <1>4, <1>5, ClientFacts, FedOnward
<1> QED BY <1>1, <1>3, <1>6, ClientFacts, ClientKeeps

LEMMA PageEventsKeeps ==
  ASSUME IInv, PageEvents
  PROVE  IInv'
<1> DEFINE to == Upto(phone.cursor, phone.untilEvent, Page)
           shown == Applied(phone.cursor, to)
<1>1. /\ phone.mode = "recovering" /\ phone.wants /\ phone.cursor < phone.untilEvent
      /\ phone' = [phone EXCEPT !.cursor = to, !.items = shown] /\ UNCHANGED <<db, checkpoint, peer>>
  BY DEF PageEvents
<1>2. to \in Nat /\ phone.cursor <= to /\ to <= phone.untilEvent
  <2>1. phone.cursor + Page \in Nat /\ phone.untilEvent \in Nat /\ phone.cursor <= phone.cursor + Page
    <3>1. phone.cursor \in Nat /\ phone.untilEvent \in Nat
      BY ClientFacts
    <3>2. Page \in Nat
      BY ConstantsAssumption
    <3> QED BY <3>1, <3>2
  <2>2. to = Min({phone.untilEvent, phone.cursor + Page})
    BY DEF Upto
  <2> HIDE DEF to
  <2>3. to \in {phone.untilEvent, phone.cursor + Page} /\ to <= phone.untilEvent
    BY <2>1, <2>2, Least
  <2> QED BY <1>1, <2>1, <2>3, ClientFacts
<1> HIDE DEF to
<1>3. to <= Len(log)
  <2>1. phone.untilEvent \in 0..Len(log)
    BY <1>1, ClientFacts DEF Numbers
  <2> QED BY <1>2, <2>1, ClientFacts
<1>4. shown \in [Items -> ItemType] /\ \A i \in Items : Says(log, shown[i], i, to)
  <2>1. Types /\ BodyMatchesCursor
    BY DEF IInv, Copies
  <2> QED BY <1>2, <1>3, <2>1, AppliedSays
<1> HIDE DEF shown
<1>5. /\ phone' \in PhoneType /\ phone'.revision = phone.revision /\ phone'.mode = phone.mode
      /\ phone'.inbox = phone.inbox
      /\ phone'.wants = phone.wants /\ phone'.cursor = to /\ phone'.items = shown
      /\ phone'.untilRevision = phone.untilRevision /\ phone'.untilEvent = phone.untilEvent
  BY <1>1, <1>2, <1>4, ClientFacts DEF PhoneType
<1>6. Numbers(phone', revision, Len(log))
  BY <1>3, <1>5, ClientFacts DEF Numbers
<1>7. Onward(phone, phone')
  <2>1. /\ Has(phone, phone.cursor, phone.untilEvent) = phone.untilEvent
        /\ Has(phone', phone'.cursor, phone'.untilEvent) = phone.untilEvent
        /\ Has(phone', phone'.revision, phone'.untilRevision) = Has(phone, phone.revision, phone.untilRevision)
    BY <1>1, <1>2, <1>5, ClientFacts DEF Has
  <2>2. Has(phone, phone.revision, phone.untilRevision) \in Nat /\ phone.untilEvent \in Nat
    BY HasNumber, ClientFacts
  <2> QED BY <1>5, <1>1, <2>1, <2>2 DEF Onward
<1>8. Fed(phone', peer, revision, Len(log))
  BY <1>5, <1>6, <1>7, ClientFacts, FedOnward
<1> QED BY <1>1, <1>4, <1>5, <1>8, ClientFacts, ClientKeeps

LEMMA PageGoneKeeps ==
  ASSUME IInv, PageGone
  PROVE  IInv'
<1>1. /\ phone' = [phone EXCEPT !.wants = FALSE, !.items = Empty, !.cursor = 0]
      /\ UNCHANGED <<db, checkpoint, peer>>
  BY DEF PageGone
<1>2. Empty \in [Items -> ItemType] /\ \A i \in Items : Empty[i] = NoItem /\ Says(log, NoItem, i, 0)
  BY NothingSaid DEF Empty
<1>3. /\ phone' \in PhoneType /\ phone'.revision = phone.revision /\ phone'.mode = phone.mode
      /\ phone'.inbox = phone.inbox
      /\ phone'.wants = FALSE /\ phone'.cursor = 0 /\ phone'.items = Empty
      /\ phone'.untilRevision = phone.untilRevision /\ phone'.untilEvent = phone.untilEvent
  BY <1>1, <1>2, ClientFacts DEF PhoneType
<1>4. Numbers(phone', revision, Len(log))
  BY <1>3, ClientFacts DEF Numbers
<1>5. Onward(phone, phone')
  <2>1. /\ Has(phone', phone'.revision, phone'.untilRevision) = Has(phone, phone.revision, phone.untilRevision)
        /\ Has(phone, phone.revision, phone.untilRevision) \in Nat
    BY <1>3, HasNumber, ClientFacts DEF Has
  <2> QED BY <1>3, <2>1 DEF Onward
<1>6. Fed(phone', peer, revision, Len(log))
  BY <1>3, <1>4, <1>5, ClientFacts, FedOnward
<1>7. \A i \in Items : Says(log, phone'.items[i], i, phone'.cursor)
  BY <1>2, <1>3
<1> QED BY <1>1, <1>3, <1>6, <1>7, ClientFacts, ClientKeeps

\* The mode or the revision changes and nothing is shown anew.
LEMMA ModeKeeps ==
  ASSUME IInv, Bootstrap \/ Resume \/ Recovered
  PROVE  IInv'
<1>1. \E mode \in Modes, r \in {phone.revision, revision} :
        /\ phone' = [phone EXCEPT !.revision = r, !.mode = mode] /\ UNCHANGED <<db, checkpoint, peer>>
        /\ \/ mode \notin {"recovering", "live"}
           \/ mode = "recovering" /\ phone.mode = "recovering"
           \/ /\ mode = "live" /\ phone.mode = "recovering" /\ r = phone.revision /\ r >= phone.untilRevision
              /\ ~phone.wants \/ phone.untilEvent = Unwatched \/ phone.cursor >= phone.untilEvent
  <2>1. CASE Bootstrap
    <3>1. /\ phone.mode \in {"recovering", "expired"} /\ UNCHANGED <<db, checkpoint, peer>>
          /\ phone' = [phone EXCEPT !.revision = revision,
                                    !.mode = IF phone.mode = "expired" THEN "idle" ELSE phone.mode]
      BY <2>1 DEF Bootstrap
    <3>2. CASE phone.mode = "expired"
      BY <3>1, <3>2 DEF Modes
    <3>3. CASE phone.mode = "recovering"
      BY <3>1, <3>3 DEF Modes
    <3> QED BY <3>1, <3>2, <3>3
  <2>2. CASE Resume
    <3>1. phone' = [phone EXCEPT !.revision = phone.revision, !.mode = "idle"] /\ UNCHANGED <<db, checkpoint, peer>>
      BY <2>2, ClientFacts DEF Resume, PhoneType
    <3> QED BY <3>1 DEF Modes
  <2>3. CASE Recovered
    <3>1. /\ phone' = [phone EXCEPT !.revision = phone.revision, !.mode = "live"] /\ UNCHANGED <<db, checkpoint, peer>>
          /\ phone.mode = "recovering" /\ phone.revision >= phone.untilRevision
          /\ ~phone.wants \/ phone.untilEvent = Unwatched \/ phone.cursor >= phone.untilEvent
      BY <2>3, ClientFacts DEF Recovered, PhoneType
    <3> QED BY <3>1 DEF Modes
  <2> QED BY <2>1, <2>2, <2>3
<1>2. PICK mode \in Modes, r \in {phone.revision, revision} :
        /\ phone' = [phone EXCEPT !.revision = r, !.mode = mode] /\ UNCHANGED <<db, checkpoint, peer>>
        /\ \/ mode \notin {"recovering", "live"}
           \/ mode = "recovering" /\ phone.mode = "recovering"
           \/ /\ mode = "live" /\ phone.mode = "recovering" /\ r = phone.revision /\ r >= phone.untilRevision
              /\ ~phone.wants \/ phone.untilEvent = Unwatched \/ phone.cursor >= phone.untilEvent
  BY <1>1
<1>3. r \in Nat /\ r <= revision /\ phone.revision <= r
  BY ClientFacts DEF Numbers
<1>4. /\ phone' \in PhoneType /\ phone'.revision = r /\ phone'.mode = mode /\ phone'.inbox = phone.inbox
      /\ phone'.wants = phone.wants /\ phone'.cursor = phone.cursor /\ phone'.items = phone.items
      /\ phone'.untilRevision = phone.untilRevision /\ phone'.untilEvent = phone.untilEvent
  BY <1>2, <1>3, ClientFacts DEF PhoneType
<1>5. Numbers(phone', revision, Len(log))
  BY <1>3, <1>4, ClientFacts DEF Numbers
<1>6. Onward(phone, phone')
  <2>1. phone.wants => phone.untilEvent # Unwatched
    BY ClientFacts DEF Numbers
  <2>2. CASE mode \notin {"recovering", "live"}
    BY <1>4, <2>2 DEF Onward
  <2>3. CASE mode = "recovering" /\ phone.mode = "recovering"
    <3>1. /\ Has(phone, phone.revision, phone.untilRevision) <= Has(phone', phone'.revision, phone'.untilRevision)
          /\ Has(phone', phone'.cursor, phone'.untilEvent) = Has(phone, phone.cursor, phone.untilEvent)
      BY <1>3, <1>4, <2>3, ClientFacts DEF Has
    <3>2. Has(phone, phone.cursor, phone.untilEvent) \in Nat
      BY HasNumber, ClientFacts
    <3> QED BY <1>4, <2>3, <3>1, <3>2 DEF Onward
  <2>4. CASE /\ mode = "live" /\ phone.mode = "recovering" /\ r = phone.revision /\ r >= phone.untilRevision
             /\ ~phone.wants \/ phone.untilEvent = Unwatched \/ phone.cursor >= phone.untilEvent
    <3>1. Has(phone, phone.revision, phone.untilRevision) <= Has(phone', phone'.revision, phone'.untilRevision)
      BY <1>3, <1>4, <2>4, ClientFacts DEF Has
    <3>2. phone.wants => Has(phone, phone.cursor, phone.untilEvent) <= Has(phone', phone'.cursor, phone'.untilEvent)
      BY <1>4, <2>1, <2>4, ClientFacts DEF Has
    <3> QED BY <1>4, <2>4, <3>1, <3>2 DEF Onward
  <2> QED BY <1>2, <2>2, <2>3, <2>4
<1>7. Fed(phone', peer, revision, Len(log))
  BY <1>4, <1>5, <1>6, ClientFacts, FedOnward
<1> QED BY <1>2, <1>4, <1>7, ClientFacts, ClientKeeps

LEMMA InstallCheckpointKeeps ==
  ASSUME IInv, InstallCheckpoint
  PROVE  IInv'
<1>1. /\ phone.mode = "recovering" /\ phone.wants /\ checkpoint.sequence > phone.cursor
      /\ phone' = [phone EXCEPT !.cursor = checkpoint.sequence, !.items = checkpoint.items]
      /\ checkpoint' = NoCheckpoint /\ UNCHANGED <<db, peer>>
  BY DEF InstallCheckpoint
<1>2. /\ checkpoint.sequence \in Nat /\ checkpoint.sequence <= Len(log) /\ checkpoint.items \in [Items -> ItemType]
      /\ \A i \in Items : Says(log, checkpoint.items[i], i, checkpoint.sequence)
  BY ClientFacts
<1>3. /\ phone' \in PhoneType /\ phone'.revision = phone.revision /\ phone'.mode = phone.mode
      /\ phone'.inbox = phone.inbox
      /\ phone'.wants = phone.wants /\ phone'.cursor = checkpoint.sequence /\ phone'.items = checkpoint.items
      /\ phone'.untilRevision = phone.untilRevision /\ phone'.untilEvent = phone.untilEvent
  BY <1>1, <1>2, ClientFacts DEF PhoneType
<1>4. Numbers(phone', revision, Len(log))
  BY <1>2, <1>3, ClientFacts DEF Numbers
<1>5. Onward(phone, phone')
  <2>1. /\ Has(phone', phone'.revision, phone'.untilRevision) = Has(phone, phone.revision, phone.untilRevision)
        /\ Has(phone, phone.revision, phone.untilRevision) \in Nat
    BY <1>3, HasNumber, ClientFacts DEF Has
  <2>2. Has(phone, phone.cursor, phone.untilEvent) <= Has(phone', phone'.cursor, phone'.untilEvent)
    BY <1>1, <1>2, <1>3, ClientFacts DEF Has
  <2> QED BY <1>1, <1>3, <2>1, <2>2 DEF Onward
<1>6. Fed(phone', peer, revision, Len(log))
  BY <1>3, <1>4, <1>5, ClientFacts, FedOnward
<1>7. \A i \in Items : Says(log, phone'.items[i], i, phone'.cursor)
  BY <1>2, <1>3
<1>8. /\ checkpoint' \in [sequence : 0..Len(log), items : [Items -> ItemType]]
      /\ \A i \in Items : Says(log, checkpoint'.items[i], i, checkpoint'.sequence)
  BY <1>1, NoCheckpointSays, ClientFacts
<1> QED BY <1>1, <1>3, <1>6, <1>7, <1>8, ClientKeeps

LEMMA ExpireCheckpointKeeps ==
  ASSUME IInv, ExpireCheckpoint
  PROVE  IInv'
<1>1. checkpoint' = NoCheckpoint /\ UNCHANGED <<db, peer, phone>>
  BY DEF ExpireCheckpoint
<1>2. /\ checkpoint' \in [sequence : 0..Len(log), items : [Items -> ItemType]]
      /\ \A i \in Items : Says(log, checkpoint'.items[i], i, checkpoint'.sequence)
  BY <1>1, NoCheckpointSays, ClientFacts
<1> QED BY <1>1, <1>2, ClientFacts, ClientKeeps

-----------------------------------------------------------------------------
(* The client takes a frame. *)

After(f, type, has) == IF f.type = type /\ f.number = has + 1 THEN has + 1 ELSE has

\* A ready is a barrier, another frame behind the barrier is the next one or nothing new.
Takes(f, ph, later) ==
  /\ later.wants => ph.wants
  /\ later.mode \in {"recovering", "live"} =>
       \/ /\ f.type = "ready"
          /\ f.revision <= Has(later, later.revision, later.untilRevision)
          /\ later.wants => f.highWater <= Has(later, later.cursor, later.untilEvent)
       \/ /\ f.type # "ready" /\ ph.mode \in {"recovering", "live"}
          /\ Has(later, later.revision, later.untilRevision)
               = After(f, "change", Has(ph, ph.revision, ph.untilRevision))
          /\ later.wants => Has(later, later.cursor, later.untilEvent)
                              = After(f, "event", Has(ph, ph.cursor, ph.untilEvent))

LEMMA GapTaken ==
  ASSUME NEW z \in Seq(Frame), z # << >>, NEW ph \in PhoneType, NEW later \in PhoneType, NEW p \in PeerType,
         Takes(Head(z), ph, later), GapFree(z, ph, p)
  PROVE  GapFree(Tail(z), later, p)
<1> DEFINE y == Tail(z)
           f == Head(z)
<1>1. /\ Len(z) \in Nat /\ Len(y) \in Nat /\ Len(z) = Len(y) + 1 /\ f = z[1] /\ f \in Frame
      /\ \A k \in 1..Len(y) : y[k] = z[k + 1] /\ y[k] \in Frame
  OBVIOUS
<1>2. p.revision \in Nat /\ p.cursor \in Nat
  BY PeerFields
<1>3. \A b \in 0..Len(y) : \A type, seen, sent : Goes(z, type, b + 1, seen, sent) => Goes(y, type, b, seen, sent)
  BY TakenBefore
<1>4. \A type \in {"change", "event"}, seen \in Nat, sent \in Nat :
        Goes(z, type, 0, seen, sent) => Goes(y, type, 0, After(f, type, seen), sent)
  BY TakenBehind DEF After
<1> HIDE DEF y, f
<1> SUFFICES ASSUME NEW b \in 0..Len(y), IsLast(y, b, later), p.open, p.watching
             PROVE  /\ Goes(y, "change", b, HasChange(y, b, later), p.revision)
                    /\ later.wants /\ p.cursor # Unwatched => Goes(y, "event", b, HasEvent(y, b, later), p.cursor)
  BY DEF GapFree, y
<1>5. later.wants => ph.wants
  BY DEF Takes
<1>6. /\ b + 1 \in 0..Len(z) /\ b + 1 # 0 /\ b \in Nat
      /\ \A k \in (b + 2)..Len(z) : z[k].type # "ready"
  <2>1. ASSUME NEW k \in (b + 2)..Len(z) PROVE z[k].type # "ready"
    <3>1. k - 1 \in (b + 1)..Len(y) /\ k - 1 \in 1..Len(y) /\ (k - 1) + 1 = k
      BY <1>1
    <3>2. y[k - 1] = z[k]
      BY <1>1, <3>1
    <3>3. y[k - 1].type # "ready"
      BY <3>1 DEF IsLast
    <3> QED BY <3>2, <3>3
  <2> QED BY <1>1, <2>1
<1>7. CASE b # 0
  <2>1. b \in 1..Len(y) /\ y[b] = z[b + 1] /\ y[b].type = "ready"
    BY <1>1, <1>7 DEF IsLast
  <2>2. IsLast(z, b + 1, ph)
    <3>1. (b + 1) + 1 = b + 2
      BY <1>6
    <3> QED BY <1>6, <2>1, <3>1 DEF IsLast
  <2>3. /\ Goes(z, "change", b + 1, HasChange(z, b + 1, ph), p.revision)
        /\ ph.wants /\ p.cursor # Unwatched => Goes(z, "event", b + 1, HasEvent(z, b + 1, ph), p.cursor)
    BY <1>6, <2>2 DEF GapFree
  <2>4. HasChange(y, b, later) = HasChange(z, b + 1, ph) /\ HasEvent(y, b, later) = HasEvent(z, b + 1, ph)
    BY <1>6, <1>7, <2>1 DEF HasChange, HasEvent
  <2> QED BY <1>3, <1>5, <2>3, <2>4
<1>8. CASE b = 0
  <2> DEFINE change == Has(later, later.revision, later.untilRevision)
             event  == Has(later, later.cursor, later.untilEvent)
  <2>1. HasChange(y, b, later) = change /\ HasEvent(y, b, later) = event
    BY <1>8 DEF HasChange, HasEvent
  <2>2. later.mode \in {"recovering", "live"}
    BY <1>8 DEF IsLast
  <2>3. change \in Nat /\ event \in Nat
    BY HasNumber
  <2>4. CASE /\ f.type = "ready" /\ f.revision <= change
             /\ later.wants => f.highWater <= event
    <3>1. f.revision \in Nat /\ f.highWater \in Nat
      BY <1>1, <2>4, FrameForms
    <3>2. IsLast(z, 1, ph)
      <4>1. 1 + 1 = b + 2
        BY <1>8
      <4> QED BY <1>1, <1>6, <2>4, <4>1 DEF IsLast
    <3>3. HasChange(z, 1, ph) = f.revision /\ HasEvent(z, 1, ph) = f.highWater
      BY <1>1 DEF HasChange, HasEvent
    <3>4. 1 \in 0..Len(z) /\ 1 = b + 1
      BY <1>6, <1>8
    <3>5. /\ Goes(z, "change", b + 1, f.revision, p.revision)
          /\ ph.wants /\ p.cursor # Unwatched => Goes(z, "event", b + 1, f.highWater, p.cursor)
      BY <3>2, <3>3, <3>4 DEF GapFree
    <3>6. /\ Goes(y, "change", b, f.revision, p.revision)
          /\ ph.wants /\ p.cursor # Unwatched => Goes(y, "event", b, f.highWater, p.cursor)
      BY <1>3, <3>5
    <3>7. Goes(y, "change", b, change, p.revision)
      BY <1>2, <2>3, <2>4, <3>1, <3>6, SeenMore
    <3>8. later.wants /\ p.cursor # Unwatched => Goes(y, "event", b, event, p.cursor)
      BY <1>2, <1>5, <2>3, <2>4, <3>1, <3>6, SeenMore
    <3> QED BY <2>1, <3>7, <3>8
  <2>5. CASE /\ f.type # "ready" /\ ph.mode \in {"recovering", "live"}
             /\ change = After(f, "change", Has(ph, ph.revision, ph.untilRevision))
             /\ later.wants => event = After(f, "event", Has(ph, ph.cursor, ph.untilEvent))
    <3>1. IsLast(z, 0, ph)
      <4>1. ASSUME NEW k \in 1..Len(z) PROVE z[k].type # "ready"
        <5>1. k = 1 \/ k \in (b + 2)..Len(z)
          BY <1>1, <1>8
        <5> QED BY <1>1, <1>6, <2>5, <5>1
      <4>2. 0 + 1 = 1
        OBVIOUS
      <4> QED BY <2>5, <4>1, <4>2 DEF IsLast
    <3>2. /\ HasChange(z, 0, ph) = Has(ph, ph.revision, ph.untilRevision)
          /\ HasEvent(z, 0, ph) = Has(ph, ph.cursor, ph.untilEvent)
      BY DEF HasChange, HasEvent
    <3>3. 0 \in 0..Len(z)
      BY <1>1
    <3>4. /\ Goes(z, "change", 0, Has(ph, ph.revision, ph.untilRevision), p.revision)
          /\ ph.wants /\ p.cursor # Unwatched => Goes(z, "event", 0, Has(ph, ph.cursor, ph.untilEvent), p.cursor)
      BY <3>1, <3>2, <3>3 DEF GapFree
    <3>5. Has(ph, ph.revision, ph.untilRevision) \in Nat /\ Has(ph, ph.cursor, ph.untilEvent) \in Nat
      BY HasNumber
    <3>6. Goes(y, "change", 0, change, p.revision)
      BY <1>2, <1>4, <2>5, <3>4, <3>5
    <3>7. later.wants /\ p.cursor # Unwatched => Goes(y, "event", 0, event, p.cursor)
      BY <1>2, <1>4, <1>5, <2>5, <3>4, <3>5
    <3> QED BY <1>8, <2>1, <3>6, <3>7
  <2> QED BY <2>2, <2>4, <2>5 DEF Takes, f
<1> QED BY <1>7, <1>8

LEMMA FedTaken ==
  ASSUME NEW ph, NEW p, NEW r, NEW n, Fed(ph, p, r, n), ph.inbox # << >>, NEW later \in PhoneType,
         later.inbox = Tail(ph.inbox), Numbers(later, r, n), Takes(Head(ph.inbox), ph, later)
  PROVE  Fed(later, p, r, n)
<1> DEFINE s == ph.inbox
           t == p.queue
<1>1. /\ ph \in PhoneType /\ p \in PeerType /\ GapFree(s \o t, ph, p)
      /\ PeerHolds(p, r, n, ph.wants) /\ PhoneHolds(ph, r, n) /\ (later.wants => ph.wants)
  BY DEF Fed, Takes
<1>2. s \in Seq(Frame) /\ t \in Seq(Frame) /\ s # << >>
  BY <1>1, PhoneFields, PeerFields
<1>3. \A f : FrameHolds(f, r, n, ph.wants) => FrameHolds(f, r, n, later.wants)
  BY <1>1 DEF FrameHolds
<1>4. PeerHolds(p, r, n, later.wants)
  BY <1>1, <1>3 DEF PeerHolds
<1> HIDE DEF s, t
<1>5. Range(Tail(s)) \subseteq Range(s)
  <2>1. /\ DOMAIN Tail(s) = 1..(Len(s) - 1) /\ DOMAIN s = 1..Len(s)
        /\ \A k \in 1..(Len(s) - 1) : Tail(s)[k] = s[k + 1] /\ k + 1 \in 1..Len(s)
    BY <1>2
  <2> QED BY <2>1 DEF Range
<1>6. PhoneHolds(later, r, n)
  BY <1>1, <1>3, <1>5 DEF PhoneHolds, Numbers, s
<1>7. /\ Tail(s) \o t = Tail(s \o t) /\ Head(s \o t) = Head(s) /\ s \o t # << >>
      /\ s \o t \in Seq(Frame)
  BY <1>2, Taken
<1>8. GapFree(Tail(s \o t), later, p)
  BY <1>1, <1>7, GapTaken DEF s
<1>9. GapFree(later.inbox \o t, later, p)
  BY <1>7, <1>8 DEF s
<1> QED BY <1>1, <1>4, <1>6, <1>9 DEF Fed, t

\* What the first frame of the inbox is.
LEMMA FirstFrame ==
  ASSUME IInv, phone.inbox # << >>
  PROVE  /\ Head(phone.inbox) \in Frame /\ Tail(phone.inbox) \in Seq(Frame)
         /\ FrameHolds(Head(phone.inbox), revision, Len(log), phone.wants)
<1> DEFINE s == phone.inbox
<1>1. s \in Seq(Frame) /\ s # << >> /\ \A f \in Range(s) : FrameHolds(f, revision, Len(log), phone.wants)
  BY ClientFacts DEF Fed, PhoneHolds
<1> HIDE DEF s
<1>2. Head(s) \in Frame /\ Tail(s) \in Seq(Frame) /\ Head(s) = s[1] /\ 1 \in DOMAIN s
  BY <1>1
<1> QED BY <1>1, <1>2 DEF Range, s

\* A ready is taken: whatever the client has, it follows from there.
LEMMA BarrierKeeps ==
  ASSUME IInv, phone.inbox # << >>, Head(phone.inbox).type = "ready",
         phone' = AtBarrier(phone, Head(phone.inbox)), UNCHANGED <<db, checkpoint, peer>>
  PROVE  IInv'
<1> DEFINE f == Head(phone.inbox)
<1>1. /\ f \in Frame /\ Tail(phone.inbox) \in Seq(Frame) /\ FrameHolds(f, revision, Len(log), phone.wants)
      /\ f.type = "ready"
  BY FirstFrame
<1>2. phone' = [[phone EXCEPT !.inbox = Tail(phone.inbox)] EXCEPT !.mode = "recovering",
                 !.untilRevision = f.revision, !.untilEvent = f.highWater]
  BY DEF AtBarrier, Next1
<1> HIDE DEF f
<1>3. /\ f.revision \in Nat /\ f.highWater \in Nat /\ f.revision \in 0..revision
      /\ f.highWater \in 0..Len(log) \cup {Unwatched} /\ (phone.wants => f.highWater # Unwatched)
  BY <1>1, FrameForms DEF FrameHolds
<1>4. /\ phone' \in PhoneType /\ phone'.mode = "recovering" /\ phone'.inbox = Tail(phone.inbox)
      /\ phone'.revision = phone.revision /\ phone'.cursor = phone.cursor
      /\ phone'.wants = phone.wants /\ phone'.items = phone.items
      /\ phone'.untilRevision = f.revision /\ phone'.untilEvent = f.highWater
  BY <1>1, <1>2, <1>3, ClientFacts DEF PhoneType, Modes
<1>5. Numbers(phone', revision, Len(log))
  BY <1>3, <1>4, ClientFacts DEF Numbers
<1>6. Takes(f, phone, phone')
  <2>1. /\ f.revision <= Has(phone', phone'.revision, phone'.untilRevision)
        /\ f.highWater <= Has(phone', phone'.cursor, phone'.untilEvent)
    BY <1>3, <1>4, ClientFacts DEF Has
  <2> QED BY <1>1, <1>4, <2>1 DEF Takes
<1>7. Fed(phone', peer, revision, Len(log))
  BY <1>4, <1>5, <1>6, ClientFacts, FedTaken DEF f
<1> QED BY <1>4, <1>7, ClientFacts, ClientKeeps

\* A frame that is not a ready is taken without anything new to show.
LEMMA FrameKeeps ==
  ASSUME IInv, phone.inbox # << >>, NEW mode \in Modes, NEW r \in Nat, UNCHANGED <<db, checkpoint, peer>>,
         phone' = [phone EXCEPT !.inbox = Tail(phone.inbox), !.mode = mode, !.revision = r],
         \/ mode \notin {"recovering", "live"} /\ r = phone.revision
         \/ /\ mode = "live" /\ phone.mode = "live" /\ Head(phone.inbox).type # "ready"
            /\ r = After(Head(phone.inbox), "change", phone.revision)
            /\ phone.wants => phone.cursor = After(Head(phone.inbox), "event", phone.cursor)
  PROVE  IInv'
<1> DEFINE f == Head(phone.inbox)
<1>1. f \in Frame /\ Tail(phone.inbox) \in Seq(Frame) /\ FrameHolds(f, revision, Len(log), phone.wants)
  BY FirstFrame
<1>2. /\ phone' \in PhoneType /\ phone'.mode = mode /\ phone'.inbox = Tail(phone.inbox)
      /\ phone'.revision = r /\ phone'.cursor = phone.cursor
      /\ phone'.wants = phone.wants /\ phone'.items = phone.items
      /\ phone'.untilRevision = phone.untilRevision /\ phone'.untilEvent = phone.untilEvent
  BY <1>1, ClientFacts DEF PhoneType
<1>3. r <= revision
  <2>1. CASE r = phone.revision
    BY <2>1, ClientFacts DEF Numbers
  <2>2. CASE r = After(f, "change", phone.revision)
    <3>1. f.type = "change" => f.number \in 1..revision
      BY <1>1 DEF FrameHolds
    <3>2. phone.revision <= revision /\ phone.revision \in Nat /\ revision \in Nat
      BY ClientFacts DEF Numbers
    <3> HIDE DEF f
    <3> QED BY <2>2, <3>1, <3>2 DEF After
  <2> QED BY <2>1, <2>2
<1>4. Numbers(phone', revision, Len(log))
  BY <1>2, <1>3, ClientFacts DEF Numbers
<1>5. Takes(f, phone, phone')
  <2>1. CASE mode \notin {"recovering", "live"}
    BY <1>2, <2>1 DEF Takes
  <2>2. CASE /\ mode = "live" /\ phone.mode = "live" /\ f.type # "ready"
             /\ r = After(f, "change", phone.revision)
             /\ phone.wants => phone.cursor = After(f, "event", phone.cursor)
    <3>1. /\ Has(phone, phone.revision, phone.untilRevision) = phone.revision
          /\ Has(phone, phone.cursor, phone.untilEvent) = phone.cursor
          /\ Has(phone', phone'.revision, phone'.untilRevision) = r
          /\ Has(phone', phone'.cursor, phone'.untilEvent) = phone.cursor
      BY <1>2, <2>2 DEF Has
    <3> HIDE DEF f
    <3> QED BY <1>2, <2>2, <3>1 DEF Takes
  <2> QED BY <2>1, <2>2
<1>6. Fed(phone', peer, revision, Len(log))
  BY <1>2, <1>4, <1>5, ClientFacts, FedTaken
<1> QED BY <1>2, <1>6, ClientFacts, ClientKeeps

LEMMA TakeAnswerKeeps ==
  ASSUME IInv, TakeAnswer
  PROVE  IInv'
<1> DEFINE f == Head(phone.inbox)
<1>1. /\ phone.mode \in {"idle", "asked", "expired"} /\ phone.inbox # << >> /\ UNCHANGED <<db, checkpoint, peer>>
      /\ phone' = IF phone.mode = "asked" /\ f.type = "ready" THEN AtBarrier(phone, f)
                  ELSE IF phone.mode = "asked" /\ f.type = "error"
                  THEN IF f.code = "HISTORY_PURGED"
                       THEN [Next1(phone) EXCEPT !.mode = "idle", !.wants = FALSE, !.items = Empty, !.cursor = 0]
                       ELSE [Next1(phone) EXCEPT !.mode = "expired"]
                  ELSE Next1(phone)
  BY DEF TakeAnswer
<1>2. CASE phone.mode = "asked" /\ f.type = "ready"
  BY <1>1, <1>2, BarrierKeeps
<1>3. CASE phone.mode = "asked" /\ f.type = "error" /\ f.code = "HISTORY_PURGED"
  <2>1. phone' = [[phone EXCEPT !.inbox = Tail(phone.inbox)] EXCEPT !.mode = "idle", !.wants = FALSE,
                   !.items = Empty, !.cursor = 0]
    BY <1>1, <1>3 DEF Next1
  <2>2. Empty \in [Items -> ItemType] /\ \A i \in Items : Empty[i] = NoItem /\ Says(log, NoItem, i, 0)
    BY NothingSaid DEF Empty
  <2>3. Tail(phone.inbox) \in Seq(Frame)
    BY <1>1, FirstFrame
  <2>4. /\ phone' \in PhoneType /\ phone'.mode = "idle" /\ phone'.inbox = Tail(phone.inbox)
        /\ phone'.revision = phone.revision /\ phone'.cursor = 0 /\ phone'.wants = FALSE /\ phone'.items = Empty
        /\ phone'.untilRevision = phone.untilRevision /\ phone'.untilEvent = phone.untilEvent
    BY <2>1, <2>2, <2>3, ClientFacts DEF PhoneType, Modes
  <2>5. Numbers(phone', revision, Len(log)) /\ Takes(f, phone, phone')
    BY <2>4, ClientFacts DEF Numbers, Takes
  <2>6. Fed(phone', peer, revision, Len(log))
    BY <1>1, <2>4, <2>5, ClientFacts, FedTaken
  <2>7. \A i \in Items : Says(log, phone'.items[i], i, phone'.cursor)
    BY <2>2, <2>4
  <2> QED BY <1>1, <2>4, <2>6, <2>7, ClientFacts, ClientKeeps
<1>4. CASE phone.mode = "asked" /\ f.type = "error" /\ f.code # "HISTORY_PURGED"
  <2>1. phone' = [phone EXCEPT !.inbox = Tail(phone.inbox), !.mode = "expired", !.revision = phone.revision]
    BY <1>1, <1>4, ClientFacts DEF Next1, PhoneType
  <2>2. "expired" \in Modes /\ "expired" \notin {"recovering", "live"} /\ phone.revision \in Nat
    BY ClientFacts DEF Modes
  <2> QED BY <1>1, <2>1, <2>2, FrameKeeps
<1>5. CASE ~(phone.mode = "asked" /\ f.type \in {"ready", "error"})
  <2>1. phone' = [phone EXCEPT !.inbox = Tail(phone.inbox), !.mode = phone.mode, !.revision = phone.revision]
    <3>1. phone' = [phone EXCEPT !.inbox = Tail(phone.inbox)]
      BY <1>1, <1>5 DEF Next1
    <3> QED BY <3>1, ClientFacts DEF PhoneType
  <2>2. phone.mode \in Modes /\ phone.mode \notin {"recovering", "live"} /\ phone.revision \in Nat
    BY <1>1, ClientFacts
  <2> QED BY <1>1, <2>1, <2>2, FrameKeeps
<1> QED BY <1>1, <1>2, <1>3, <1>4, <1>5

LEMMA TakeFrameKeeps ==
  ASSUME IInv, TakeFrame
  PROVE  IInv'
<1> DEFINE f == Head(phone.inbox)
<1>1. /\ phone.mode = "live" /\ phone.inbox # << >> /\ UNCHANGED <<db, checkpoint, peer>>
      /\ f \in Frame /\ FrameHolds(f, revision, Len(log), phone.wants) /\ Tail(phone.inbox) \in Seq(Frame)
  BY FirstFrame DEF TakeFrame
<1>2. f.type \in {"change", "event", "ready", "error"}
  BY <1>1, FrameForms
<1>3. CASE f.type = "change" /\ f.number = phone.revision + 1
  <2>1. phone' = [Next1(phone) EXCEPT !.revision = f.number]
    BY <1>3 DEF TakeFrame
  <2>2. phone' = [phone EXCEPT !.inbox = Tail(phone.inbox), !.mode = "live", !.revision = f.number]
    BY <1>1, <2>1, ClientFacts DEF Next1, PhoneType
  <2>3. /\ "live" \in Modes /\ f.number \in Nat /\ f.number = After(f, "change", phone.revision)
        /\ phone.cursor = After(f, "event", phone.cursor)
    BY <1>3, ClientFacts DEF Modes, After
  <2> QED BY <1>1, <1>3, <2>2, <2>3, FrameKeeps
<1>4. CASE f.type = "event" /\ phone.wants /\ f.number = phone.cursor + 1
  <2> DEFINE shown == Project(phone.items, log[f.number], f.number)
  <2>1. phone' = [Next1(phone) EXCEPT !.cursor = f.number, !.items = shown]
    BY <1>4 DEF TakeFrame, Next1
  <2>2. f.number \in 1..Len(log) /\ phone.cursor \in Nat /\ phone.cursor < Len(log)
    BY <1>1, <1>4, ClientFacts DEF FrameHolds
  <2>3. shown \in [Items -> ItemType] /\ \A i \in Items : Says(log, shown[i], i, f.number)
    <3>1. log \in Seq(LogEvent) /\ Len(log) <= MaxEvents
      BY DEF IInv, Types, Stored
    <3>2. /\ Project(phone.items, log[phone.cursor + 1], phone.cursor + 1) \in [Items -> ItemType]
          /\ \A i \in Items : Says(log, Project(phone.items, log[phone.cursor + 1], phone.cursor + 1)[i], i, phone.cursor + 1)
      BY <2>2, <3>1, ClientFacts, ProjectSays
    <3> QED BY <1>4, <3>2
  <2> HIDE DEF shown, f
  <2>4. /\ phone' \in PhoneType /\ phone'.mode = "live" /\ phone'.inbox = Tail(phone.inbox)
        /\ phone'.revision = phone.revision /\ phone'.cursor = f.number /\ phone'.wants = phone.wants
        /\ phone'.items = shown
        /\ phone'.untilRevision = phone.untilRevision /\ phone'.untilEvent = phone.untilEvent
    <3>1. f.number \in Nat /\ Tail(phone.inbox) \in Seq(Frame) /\ phone \in PhoneType
      BY <1>1, <2>2, ClientFacts
    <3>2. phone' = [phone EXCEPT !.inbox = Tail(phone.inbox), !.cursor = f.number, !.items = shown]
      BY <2>1, <3>1 DEF Next1, PhoneType
    <3>3. phone' \in PhoneType
      BY <2>3, <3>1, <3>2 DEF PhoneType
    <3> QED BY <1>1, <3>1, <3>2, <3>3 DEF PhoneType
  <2>5. Numbers(phone', revision, Len(log))
    BY <2>2, <2>4, ClientFacts DEF Numbers
  <2>6. Takes(f, phone, phone')
    <3>1. /\ Has(phone, phone.revision, phone.untilRevision) = phone.revision
          /\ Has(phone, phone.cursor, phone.untilEvent) = phone.cursor
          /\ Has(phone', phone'.revision, phone'.untilRevision) = phone.revision
          /\ Has(phone', phone'.cursor, phone'.untilEvent) = phone.cursor + 1
      BY <1>1, <1>4, <2>4 DEF Has
    <3>2. phone.revision = After(f, "change", phone.revision) /\ phone.cursor + 1 = After(f, "event", phone.cursor)
      BY <1>4 DEF After
    <3> QED BY <1>1, <1>4, <2>4, <3>1, <3>2 DEF Takes
  <2>7. Fed(phone', peer, revision, Len(log))
    BY <1>1, <2>4, <2>5, <2>6, ClientFacts, FedTaken DEF f
  <2> QED BY <1>1, <2>3, <2>4, <2>7, ClientFacts, ClientKeeps
<1>5. CASE f.type = "ready"
  <2>1. phone' = AtBarrier(phone, f)
    BY <1>5 DEF TakeFrame
  <2> QED BY <1>1, <1>5, <2>1, BarrierKeeps
<1>6. CASE f.type = "error"
  <2>1. phone' = [Next1(phone) EXCEPT !.mode = "expired"]
    BY <1>6 DEF TakeFrame
  <2>2. phone' = [phone EXCEPT !.inbox = Tail(phone.inbox), !.mode = "expired", !.revision = phone.revision]
    BY <2>1, ClientFacts DEF Next1, PhoneType
  <2>3. "expired" \in Modes /\ "expired" \notin {"recovering", "live"} /\ phone.revision \in Nat
    BY ClientFacts DEF Modes
  <2> QED BY <1>1, <2>2, <2>3, FrameKeeps
<1>7. CASE /\ f.type \in {"change", "event"} /\ ~(f.type = "change" /\ f.number = phone.revision + 1)
           /\ ~(f.type = "event" /\ phone.wants /\ f.number = phone.cursor + 1)
  <2>1. phone' = Next1(phone)
    BY <1>7 DEF TakeFrame
  <2>2. phone' = [phone EXCEPT !.inbox = Tail(phone.inbox), !.mode = "live", !.revision = phone.revision]
    BY <1>1, <2>1, ClientFacts DEF Next1, PhoneType
  <2>3. /\ "live" \in Modes /\ phone.revision = After(f, "change", phone.revision)
        /\ phone.wants => phone.cursor = After(f, "event", phone.cursor)
    BY <1>7 DEF Modes, After
  <2>4. phone.revision \in Nat /\ f.type # "ready"
    BY <1>7, ClientFacts
  <2> QED BY <1>1, <2>2, <2>3, <2>4, FrameKeeps
<1> QED BY <1>2, <1>3, <1>4, <1>5, <1>6, <1>7

-----------------------------------------------------------------------------
(* Every step. *)

LEMMA NextFeed == IInv /\ [Next]_vars => IInv'
<1> SUFFICES ASSUME IInv, [Next]_vars PROVE IInv'
  OBVIOUS
<1>1. ASSUME NEW i \in Items, NEW kind \in Kinds, AppendEvent([item |-> i, kind |-> kind]) PROVE IInv'
  <2>1. [item |-> i, kind |-> kind] \in LogEvent
    BY DEF LogEvent
  <2> QED BY <1>1, <2>1, AppendEventKeeps
<1>2. CASE CommitChanges \/ DeleteChanges \/ Tick
  BY <1>2, CommitsKeep
<1>3. CASE PurgeHistory
  BY <1>3, PurgeHistoryKeeps
<1>4. CASE Connect \/ Disconnected
  BY <1>4, ConnectKeeps
<1>5. CASE Watch
  BY <1>5, WatchKeeps
<1>6. CASE Unwatch
  BY <1>6, UnwatchKeeps
<1>7. CASE Deliver
  BY <1>7, DeliverKeeps
<1>8. CASE LoseConnection
  BY <1>8, LoseConnectionKeeps
<1>9. CASE PageChanges
  BY <1>9, PageChangesKeeps
<1>10. CASE PageEvents
  BY <1>10, PageEventsKeeps
<1>11. CASE PageGone
  BY <1>11, PageGoneKeeps
<1>12. CASE Bootstrap \/ Resume \/ Recovered
  BY <1>12, ModeKeeps
<1>13. CASE TakeCheckpoint
  BY <1>13, TakeCheckpointKeeps
<1>14. CASE InstallCheckpoint
  BY <1>14, InstallCheckpointKeeps
<1>15. CASE ExpireCheckpoint
  BY <1>15, ExpireCheckpointKeeps
<1>16. CASE TakeAnswer
  BY <1>16, TakeAnswerKeeps
<1>17. CASE TakeFrame
  BY <1>17, TakeFrameKeeps
<1>18. CASE UNCHANGED vars
  <2>1. UNCHANGED <<db, checkpoint, peer, phone>>
    BY <1>18 DEF vars
  <2> QED BY <2>1, ClientFacts, FeedKeeps
<1> QED BY <1>1, <1>2, <1>3, <1>4, <1>5, <1>6, <1>7, <1>8, <1>9, <1>10, <1>11, <1>12, <1>13, <1>14, <1>15,
           <1>16, <1>17, <1>18 DEF Next

\* The frames on their way, the copies and the barriers stay in step.
THEOREM FeedInvariant == Spec => []IInv
<1> QED BY InitFeed, NextFeed, PTL DEF Spec

-----------------------------------------------------------------------------
(* What follows. *)

\* Every number of a peer and of a client is one that was committed, and the queue of a
\* peer never holds more than its capacity (pump(), enqueue()).
THEOREM TypesKept == Spec => []TypeOK
<1>1. IInv => TypeOK
  <2> SUFFICES ASSUME IInv PROVE TypeOK
    OBVIOUS
  <2>1. Types /\ PeerHolds(peer, revision, Len(log), phone.wants) /\ PhoneHolds(phone, revision, Len(log))
    BY DEF IInv
  <2>2. log \in SeqOf([item : Items, kind : Kinds], MaxEvents)
    BY <2>1, ShortSeq, ConstantsAssumption DEF Types, Stored, LogEvent
  <2>3. /\ timeline \in [Items -> ItemType] /\ phone.items \in [Items -> ItemType]
        /\ revision \in 0..MaxRevision /\ floor \in 0..revision /\ purged \in BOOLEAN
        /\ checkpoint.sequence \in 0..Len(log) /\ checkpoint.items \in [Items -> ItemType]
    BY <2>1, PhoneFields DEF Types, Stored
  <2>4. /\ Len(peer.queue) <= QueueFrames /\ peer.revision \in 0..revision
        /\ peer.cursor \in 0..Len(log) \cup {Unwatched}
    BY <2>1, <2>3, PeerFields DEF Types, PeerHolds
  <2>5. /\ phone.revision \in 0..revision /\ phone.cursor \in 0..Len(log) /\ phone.mode \in Modes
    BY <2>1, <2>3, PhoneFields DEF Types, PhoneHolds
  <2> QED BY <2>2, <2>3, <2>4, <2>5 DEF TypeOK, Modes
<1> QED BY <1>1, FeedInvariant, PTL

\* What a client shows is what the events up to its cursor say, however they came:
\* projectItem() in the Gateway, a checkpoint, pages and frames agree.
THEOREM BodyIsRight == Spec => []BodyMatchesCursor
<1>1. IInv => BodyMatchesCursor
  BY DEF IInv, Copies
<1> QED BY <1>1, FeedInvariant, PTL

\* Behind the ready of a watch there is no gap, neither in the changes nor in the events,
\* whatever is committed, delivered, fetched or taken in between (clientFrame(), pump()).
THEOREM NoGap == Spec => []NoGapAtBarrier
<1>1. IInv => NoGapAtBarrier
  BY DEF IInv
<1> QED BY <1>1, FeedInvariant, PTL

=============================================================================
