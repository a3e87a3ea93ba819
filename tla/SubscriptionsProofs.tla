------------------------- MODULE SubscriptionsProofs -------------------------
(***************************************************************************)
(* The inductive invariant of Subscriptions and what follows from it, for  *)
(* any number of users, instances, rows and losses.                        *)
(***************************************************************************)
EXTENDS Subscriptions, SequenceTheorems, TLAPS

Push  == [user : Users, state : {"pending", "sending", "sent", "failed", "unknown", "deleted"},
          withdrawn : BOOLEAN]
Steps == {"reserved", "sent", "failed", "refused", "unknown"}

TypeOK ==
  /\ lock \subseteq Instances
  /\ phase \in [Instances -> {"down", "starting", "running", "draining"}]
  /\ losses \in Nat
  /\ consent \in [Users -> [decision : {"none", "accept", "reject"}, credits : Nat]]
  /\ accepts \in Nat
  /\ outbox \in Seq(Push) /\ posts \in Seq(Nat) /\ Len(posts) = Len(outbox)
  /\ access \in [Users -> BOOLEAN] /\ kept \in [Users -> BOOLEAN]
  /\ readable \in [Users -> BOOLEAN]
  /\ courier \in [Instances -> {NoDelivery} \cup [row : Nat, step : Steps]]

\* Instance i has row r in deliverSubscription().
Carries(i, r) == courier[i].row = r /\ courier[i].step # "idle"

\* A row is carried by one instance at a time, was taken from the outbox, and is not
\* posted before its turn.
OneCourier ==
  \A i \in Instances :
    courier[i].step # "idle" =>
      /\ courier[i].row \in Rows
      /\ outbox[courier[i].row].state # "pending"
      /\ ~outbox[courier[i].row].withdrawn
      /\ courier[i].step = "reserved" => posts[courier[i].row] = 0
      /\ \A j \in Instances : Carries(j, courier[i].row) => i = j

\* A pending row was neither withdrawn nor posted.
PendingIsUntouched ==
  \A r \in Rows : outbox[r].state = "pending" => ~outbox[r].withdrawn /\ posts[r] = 0

IInv == TypeOK /\ OneCourier /\ PendingIsUntouched /\ PostedAtMostOnce

-----------------------------------------------------------------------------
(* Facts about the outbox. *)

\* The smaller of two numbers is one of them.
LEMMA SmallerOfTwo ==
  ASSUME NEW a \in Nat, NEW b \in Nat
  PROVE  Min({a, b}) \in Nat
  <1>1. \E m \in {a, b} : \A y \in {a, b} : m <= y
    OBVIOUS
  <1> QED BY <1>1 DEF Min

\* The rows are numbered from 1, and each has its count of posts.
LEMMA RowsNumbered ==
  ASSUME TypeOK
  PROVE  /\ Rows = 1..Len(outbox) /\ DOMAIN posts = Rows /\ Len(outbox) \in Nat
         /\ \A r \in Rows : outbox[r] \in Push /\ posts[r] \in Nat
  <1>1. Rows = 1..Len(outbox) /\ DOMAIN posts = Rows /\ Len(outbox) \in Nat
    BY LenProperties DEF TypeOK, Rows
  <1>2. \A r \in Rows : outbox[r] \in Push /\ posts[r] \in Nat
    BY <1>1, ElementOfSeq DEF TypeOK
  <1> QED BY <1>1, <1>2

\* An update of all rows leaves a list of as many rows.
LEMMA RowsUpdated ==
  ASSUME TypeOK, NEW t, DOMAIN t = Rows, t = [r \in Rows |-> t[r]], \A r \in Rows : t[r] \in Push
  PROVE  t \in Seq(Push) /\ Len(t) = Len(outbox)
  <1>1. t \in [1..Len(outbox) -> Push] /\ Len(outbox) \in Nat
    BY RowsNumbered
  <1> QED BY <1>1

-----------------------------------------------------------------------------
(* Each step preserves the invariant. *)

\* The user accepts.
LEMMA AcceptKeeps ==
  ASSUME IInv, NEW u \in Users, Accept(u)
  PROVE  IInv'
  <1> USE SubscriptionAssumption, LeaseAssumption DEF IInv, Accept, leaseVars, subVars
  <1>1. TypeOK'
    <2>1. MaxCredits \in Nat /\ consent[u].credits + 1 \in Nat
      BY DEF TypeOK
    <2>2. Min({MaxCredits, consent[u].credits + 1}) \in Nat
      BY <2>1, SmallerOfTwo
    <2> QED BY <2>2 DEF TypeOK
  <1>2. OneCourier'
    BY DEF TypeOK, Push, Steps, Rows, OneCourier, PendingIsUntouched, Carries, NoDelivery
  <1>3. PendingIsUntouched'
    BY DEF TypeOK, Push, Steps, Rows, OneCourier, PendingIsUntouched, NoDelivery
  <1>4. PostedAtMostOnce'
    BY DEF TypeOK, Push, Steps, Rows, OneCourier, PendingIsUntouched, PostedAtMostOnce, NoDelivery
  <1> QED BY <1>1, <1>2, <1>3, <1>4

\* The user rejects: pending rows fail.
LEMMA RejectKeeps ==
  ASSUME IInv, NEW u \in Users, Reject(u)
  PROVE  IInv'
  <1> USE SubscriptionAssumption, LeaseAssumption DEF IInv, Reject, Failing, OfUser, leaseVars, subVars
  <1>1. TypeOK'
    <2>1. \A r \in Rows : outbox'[r] \in Push
      <3> TAKE r \in Rows
      <3>1. outbox[r] \in Push
        BY RowsNumbered
      <3> QED BY <3>1 DEF Push, Rows
    <2>2. outbox' \in Seq(Push) /\ Len(outbox') = Len(outbox)
      BY <2>1, RowsUpdated DEF Rows
    <2> QED BY <2>2 DEF TypeOK
  <1>2. OneCourier'
    BY DEF TypeOK, Push, Steps, Rows, OneCourier, PendingIsUntouched, Carries, NoDelivery
  <1>3. PendingIsUntouched'
    <2>1. Rows' = Rows
      BY DEF Rows
    <2>2. \A r \in Rows : outbox'[r].state = "pending" => outbox'[r] = outbox[r]
      BY RowsNumbered DEF TypeOK, Push, Rows
    <2> QED BY <2>1, <2>2 DEF PendingIsUntouched
  <1>4. PostedAtMostOnce'
    BY DEF TypeOK, Push, Steps, Rows, OneCourier, PendingIsUntouched, PostedAtMostOnce, NoDelivery
  <1> QED BY <1>1, <1>2, <1>3, <1>4

\* A new row is at the end, pending and not posted.
LEMMA QueueSubscriptionKeeps ==
  ASSUME IInv, NEW u \in Users, QueueSubscription(u)
  PROVE  IInv'
  <1> USE SubscriptionAssumption, LeaseAssumption DEF IInv, QueueSubscription, Taken, leaseVars, subVars
  <1>1. TypeOK'
    BY DEF TypeOK, Push, Steps, Rows, OneCourier
  <1>2. OneCourier'
    BY DEF TypeOK, Push, Steps, Rows, OneCourier, PendingIsUntouched, Carries, NoDelivery
  <1>3. PendingIsUntouched'
    BY DEF TypeOK, Push, Steps, Rows, OneCourier, PendingIsUntouched, NoDelivery
  <1>4. PostedAtMostOnce'
    <2>1. Rows' = 1..Len(posts) + 1 /\ Rows = 1..Len(posts)
      BY RowsNumbered DEF TypeOK, Rows
    <2>2. ASSUME NEW r \in Rows' PROVE posts'[r] <= 1
      <3>1. CASE r \in Rows
        BY <2>1, <3>1 DEF TypeOK, PostedAtMostOnce
      <3>2. CASE r \notin Rows
        BY <2>1, <2>2, <3>2 DEF TypeOK
      <3> QED BY <3>1, <3>2
    <2> QED BY <2>2 DEF PostedAtMostOnce
  <1> QED BY <1>1, <1>2, <1>3, <1>4

\* The Node is revoked: pending rows fail.
LEMMA RevokeKeeps ==
  ASSUME IInv, NEW u \in Users, Revoke(u)
  PROVE  IInv'
  <1> USE SubscriptionAssumption, LeaseAssumption DEF IInv, Revoke, Failing, OfUser, leaseVars, subVars
  <1>1. TypeOK'
    <2>1. \A r \in Rows : outbox'[r] \in Push
      <3> TAKE r \in Rows
      <3>1. outbox[r] \in Push
        BY RowsNumbered
      <3> QED BY <3>1 DEF Push, Rows
    <2>2. outbox' \in Seq(Push) /\ Len(outbox') = Len(outbox)
      BY <2>1, RowsUpdated DEF Rows
    <2> QED BY <2>2 DEF TypeOK
  <1>2. OneCourier'
    BY DEF TypeOK, Push, Steps, Rows, OneCourier, PendingIsUntouched, Carries, NoDelivery
  <1>3. PendingIsUntouched'
    <2>1. Rows' = Rows
      BY DEF Rows
    <2>2. \A r \in Rows : outbox'[r].state = "pending" => outbox'[r] = outbox[r]
      BY RowsNumbered DEF TypeOK, Push, Rows
    <2> QED BY <2>1, <2>2 DEF PendingIsUntouched
  <1>4. PostedAtMostOnce'
    BY DEF TypeOK, Push, Steps, Rows, OneCourier, PendingIsUntouched, PostedAtMostOnce, NoDelivery
  <1> QED BY <1>1, <1>2, <1>3, <1>4

\* The content is purged.
LEMMA PurgeKeeps ==
  ASSUME IInv, NEW u \in Users, Purge(u)
  PROVE  IInv'
  <1> USE SubscriptionAssumption, LeaseAssumption DEF IInv, Purge, leaseVars, subVars
  <1>1. TypeOK'
    BY DEF TypeOK, Push, Steps, Rows, OneCourier
  <1>2. OneCourier'
    BY DEF TypeOK, Push, Steps, Rows, OneCourier, PendingIsUntouched, Carries, NoDelivery
  <1>3. PendingIsUntouched'
    BY DEF TypeOK, Push, Steps, Rows, OneCourier, PendingIsUntouched, NoDelivery
  <1>4. PostedAtMostOnce'
    BY DEF TypeOK, Push, Steps, Rows, OneCourier, PendingIsUntouched, PostedAtMostOnce, NoDelivery
  <1> QED BY <1>1, <1>2, <1>3, <1>4

\* Rows are deleted, also the one being posted.
LEMMA RetireKeeps ==
  ASSUME IInv, NEW u \in Users, Retire(u)
  PROVE  IInv'
  <1> USE SubscriptionAssumption, LeaseAssumption DEF IInv, Retire, OfUser, leaseVars, subVars
  <1>1. TypeOK'
    <2>1. \A r \in Rows : outbox'[r] \in Push
      <3> TAKE r \in Rows
      <3>1. outbox[r] \in Push
        BY RowsNumbered
      <3> QED BY <3>1 DEF Push, Rows
    <2>2. outbox' \in Seq(Push) /\ Len(outbox') = Len(outbox)
      BY <2>1, RowsUpdated DEF Rows
    <2> QED BY <2>2 DEF TypeOK
  <1>2. OneCourier'
    BY DEF TypeOK, Push, Steps, Rows, OneCourier, PendingIsUntouched, Carries, NoDelivery
  <1>3. PendingIsUntouched'
    BY DEF TypeOK, Push, Steps, Rows, OneCourier, PendingIsUntouched, NoDelivery
  <1>4. PostedAtMostOnce'
    BY DEF TypeOK, Push, Steps, Rows, OneCourier, PendingIsUntouched, PostedAtMostOnce, NoDelivery
  <1> QED BY <1>1, <1>2, <1>3, <1>4

\* The identity becomes readable.
LEMMA LoginKeeps ==
  ASSUME IInv, NEW u \in Users, Login(u)
  PROVE  IInv'
  <1> USE SubscriptionAssumption, LeaseAssumption DEF IInv, Login, leaseVars, subVars
  <1>1. TypeOK'
    BY DEF TypeOK, Push, Steps, Rows, OneCourier
  <1>2. OneCourier'
    BY DEF TypeOK, Push, Steps, Rows, OneCourier, PendingIsUntouched, Carries, NoDelivery
  <1>3. PendingIsUntouched'
    BY DEF TypeOK, Push, Steps, Rows, OneCourier, PendingIsUntouched, NoDelivery
  <1>4. PostedAtMostOnce'
    BY DEF TypeOK, Push, Steps, Rows, OneCourier, PendingIsUntouched, PostedAtMostOnce, NoDelivery
  <1> QED BY <1>1, <1>2, <1>3, <1>4

\* A pending row is nobody's until it is reserved.
LEMMA ReserveKeeps ==
  ASSUME IInv, NEW i \in Instances, Reserve(i)
  PROVE  IInv'
  <1> USE SubscriptionAssumption, LeaseAssumption DEF IInv, Reserve, Eligible, leaseVars, subVars
  <1>1. TypeOK'
    <2> PICK r \in Eligible : /\ outbox' = [outbox EXCEPT ![r].state = "sending"]
                              /\ courier' = [courier EXCEPT ![i] = [row |-> r, step |-> "reserved"]]
      OBVIOUS
    <2>1. r \in 1..Len(outbox) /\ r \in Nat
      BY RowsNumbered DEF Eligible
    <2>2. outbox[r] \in Push
      BY RowsNumbered DEF Eligible
    <2>3. outbox' \in Seq(Push) /\ Len(outbox') = Len(outbox)
      <3> DEFINE e == [outbox[r] EXCEPT !.state = "sending"]
      <3>1. e \in Push
        BY <2>2 DEF Push
      <3>2. outbox' = [outbox EXCEPT ![r] = e] /\ outbox \in Seq(Push)
        BY DEF TypeOK
      <3> HIDE DEF e
      <3>3. [outbox EXCEPT ![r] = e] \in Seq(Push) /\ Len([outbox EXCEPT ![r] = e]) = Len(outbox)
        BY <2>1, <3>1, <3>2, ExceptSeq
      <3> QED BY <3>2, <3>3
    <2> QED BY <2>1, <2>3 DEF TypeOK, Steps
  <1>2. OneCourier'
    BY DEF TypeOK, Push, Steps, Rows, OneCourier, PendingIsUntouched, Carries, NoDelivery
  <1>3. PendingIsUntouched'
    BY DEF TypeOK, Push, Steps, Rows, OneCourier, PendingIsUntouched, NoDelivery
  <1>4. PostedAtMostOnce'
    BY DEF TypeOK, Push, Steps, Rows, OneCourier, PendingIsUntouched, PostedAtMostOnce, NoDelivery
  <1> QED BY <1>1, <1>2, <1>3, <1>4

\* The POST: the row had not been posted.
LEMMA PostKeeps ==
  ASSUME IInv, NEW i \in Instances, Post(i)
  PROVE  IInv'
  <1> USE SubscriptionAssumption, LeaseAssumption DEF IInv, Post, Answers, leaseVars, subVars
  <1>1. TypeOK'
    <2>1. courier[i] \in [row : Nat, step : Steps] /\ courier[i].row \in 1..Len(posts)
      BY RowsNumbered DEF TypeOK, OneCourier, NoDelivery
    <2>2. posts' \in Seq(Nat) /\ Len(posts') = Len(posts)
      BY <2>1, ExceptSeq DEF TypeOK
    <2>3. PICK a \in Answers : courier' = [courier EXCEPT ![i].step = a]
      OBVIOUS
    <2>4. [courier[i] EXCEPT !.step = a] \in [row : Nat, step : Steps]
      BY <2>1 DEF Steps
    <2>5. courier' \in [Instances -> {NoDelivery} \cup [row : Nat, step : Steps]]
      BY <2>3, <2>4 DEF TypeOK
    <2> QED BY <2>2, <2>5 DEF TypeOK
  <1>2. OneCourier'
    BY DEF TypeOK, Push, Steps, Rows, OneCourier, PendingIsUntouched, Carries, NoDelivery
  <1>3. PendingIsUntouched'
    BY DEF TypeOK, Push, Steps, Rows, OneCourier, PendingIsUntouched, NoDelivery
  <1>4. PostedAtMostOnce'
    <2>1. Rows' = Rows /\ courier[i].row \in Rows /\ posts[courier[i].row] = 0
      BY DEF OneCourier, Rows
    <2>2. \A r \in Rows : posts'[r] = IF r = courier[i].row THEN 1 ELSE posts[r]
      BY <2>1, RowsNumbered DEF TypeOK
    <2> QED BY <2>1, <2>2 DEF PostedAtMostOnce
  <1> QED BY <1>1, <1>2, <1>3, <1>4

\* No POST any more.
LEMMA PostCancelledKeeps ==
  ASSUME IInv, NEW i \in Instances, PostCancelled(i)
  PROVE  IInv'
  <1> USE SubscriptionAssumption, LeaseAssumption DEF IInv, PostCancelled, leaseVars, subVars
  <1>1. TypeOK'
    <2>1. courier[i] \in [row : Nat, step : Steps]
      BY DEF TypeOK, NoDelivery
    <2> QED BY <2>1 DEF TypeOK, Steps
  <1>2. OneCourier'
    BY DEF TypeOK, Push, Steps, Rows, OneCourier, PendingIsUntouched, Carries, NoDelivery
  <1>3. PendingIsUntouched'
    BY DEF TypeOK, Push, Steps, Rows, OneCourier, PendingIsUntouched, NoDelivery
  <1>4. PostedAtMostOnce'
    BY DEF TypeOK, Push, Steps, Rows, OneCourier, PendingIsUntouched, PostedAtMostOnce, NoDelivery
  <1> QED BY <1>1, <1>2, <1>3, <1>4

\* The credits go.
LEMMA ClearCreditsKeeps ==
  ASSUME IInv, NEW i \in Instances, ClearCredits(i)
  PROVE  IInv'
  <1> USE SubscriptionAssumption, LeaseAssumption DEF IInv, ClearCredits, leaseVars, subVars
  <1>1. TypeOK'
    <2>1. courier[i] \in [row : Nat, step : Steps] /\ courier[i].row \in Rows
      BY DEF TypeOK, OneCourier, NoDelivery
    <2>2. outbox[courier[i].row].user \in Users
      BY <2>1, RowsNumbered DEF TypeOK, Push
    <2>3. consent' \in [Users -> [decision : {"none", "accept", "reject"}, credits : Nat]]
      <3> DEFINE c == outbox[courier[i].row].user
      <3>1. CASE consent' = consent
        BY <3>1 DEF TypeOK
      <3>2. CASE consent' = [consent EXCEPT ![c].credits = 0]
        <4> HIDE DEF c
        <4> QED BY <2>2, <3>2 DEF TypeOK, c
      <3> QED BY <3>1, <3>2
    <2> QED BY <2>1, <2>3 DEF TypeOK, Steps
  <1>2. OneCourier'
    BY DEF TypeOK, Push, Steps, Rows, OneCourier, PendingIsUntouched, Carries, NoDelivery
  <1>3. PendingIsUntouched'
    BY DEF TypeOK, Push, Steps, Rows, OneCourier, PendingIsUntouched, NoDelivery
  <1>4. PostedAtMostOnce'
    BY DEF TypeOK, Push, Steps, Rows, OneCourier, PendingIsUntouched, PostedAtMostOnce, NoDelivery
  <1> QED BY <1>1, <1>2, <1>3, <1>4

\* The result is recorded if the row is still sending.
LEMMA FinishKeeps ==
  ASSUME IInv, NEW i \in Instances, Finish(i)
  PROVE  IInv'
  <1> USE SubscriptionAssumption, LeaseAssumption DEF IInv, Finish, Recorded, NoDelivery, leaseVars, subVars
  <1>1. TypeOK'
    <2>1. courier[i].row \in 1..Len(outbox)
      BY RowsNumbered DEF OneCourier
    <2>2. outbox[courier[i].row] \in Push
      BY <2>1 DEF TypeOK
    <2>3. Recorded(outbox[courier[i].row], courier[i].step) \in Push
      BY <2>2 DEF Push
    <2>4. outbox' \in Seq(Push) /\ Len(outbox') = Len(outbox)
      BY <2>1, <2>3, ExceptSeq DEF TypeOK
    <2> QED BY <2>4 DEF TypeOK
  <1>2. OneCourier'
    BY DEF TypeOK, Push, Steps, Rows, OneCourier, PendingIsUntouched, Carries, NoDelivery
  <1>3. PendingIsUntouched'
    BY DEF TypeOK, Push, Steps, Rows, OneCourier, PendingIsUntouched, NoDelivery
  <1>4. PostedAtMostOnce'
    BY DEF TypeOK, Push, Steps, Rows, OneCourier, PendingIsUntouched, PostedAtMostOnce, NoDelivery
  <1> QED BY <1>1, <1>2, <1>3, <1>4

\* The result is lost.
LEMMA FinishFailsKeeps ==
  ASSUME IInv, NEW i \in Instances, FinishFails(i)
  PROVE  IInv'
  <1> USE SubscriptionAssumption, LeaseAssumption DEF IInv, FinishFails, NoDelivery, leaseVars, subVars
  <1>1. TypeOK'
    BY DEF TypeOK, Push, Steps, Rows, OneCourier
  <1>2. OneCourier'
    BY DEF TypeOK, Push, Steps, Rows, OneCourier, PendingIsUntouched, Carries, NoDelivery
  <1>3. PendingIsUntouched'
    BY DEF TypeOK, Push, Steps, Rows, OneCourier, PendingIsUntouched, NoDelivery
  <1>4. PostedAtMostOnce'
    BY DEF TypeOK, Push, Steps, Rows, OneCourier, PendingIsUntouched, PostedAtMostOnce, NoDelivery
  <1> QED BY <1>1, <1>2, <1>3, <1>4

\* An instance takes the lock.
LEMMA BeginKeeps ==
  ASSUME IInv, NEW i \in Instances, Begin(i)
  PROVE  IInv'
  <1> USE SubscriptionAssumption, LeaseAssumption DEF IInv, Begin, Acquire, MayAcquire, leaseVars, subVars
  <1>1. TypeOK'
    BY DEF TypeOK, Push, Steps, Rows, OneCourier
  <1>2. OneCourier'
    BY DEF TypeOK, Push, Steps, Rows, OneCourier, PendingIsUntouched, Carries, NoDelivery
  <1>3. PendingIsUntouched'
    BY DEF TypeOK, Push, Steps, Rows, OneCourier, PendingIsUntouched, NoDelivery
  <1>4. PostedAtMostOnce'
    BY DEF TypeOK, Push, Steps, Rows, OneCourier, PendingIsUntouched, PostedAtMostOnce, NoDelivery
  <1> QED BY <1>1, <1>2, <1>3, <1>4

\* ... with a key no identity fits.
LEMMA BeginOtherKeyKeeps ==
  ASSUME IInv, NEW i \in Instances, BeginOtherKey(i)
  PROVE  IInv'
  <1> USE SubscriptionAssumption, LeaseAssumption DEF IInv, BeginOtherKey, Acquire, MayAcquire, leaseVars, subVars
  <1>1. TypeOK'
    BY DEF TypeOK, Push, Steps, Rows, OneCourier
  <1>2. OneCourier'
    BY DEF TypeOK, Push, Steps, Rows, OneCourier, PendingIsUntouched, Carries, NoDelivery
  <1>3. PendingIsUntouched'
    BY DEF TypeOK, Push, Steps, Rows, OneCourier, PendingIsUntouched, NoDelivery
  <1>4. PostedAtMostOnce'
    BY DEF TypeOK, Push, Steps, Rows, OneCourier, PendingIsUntouched, PostedAtMostOnce, NoDelivery
  <1> QED BY <1>1, <1>2, <1>3, <1>4

\* What was being sent is unknown.
LEMMA StartLoopKeeps ==
  ASSUME IInv, NEW i \in Instances, StartLoop(i)
  PROVE  IInv'
  <1> USE SubscriptionAssumption, LeaseAssumption DEF IInv, StartLoop, Started, Fenced, leaseVars, subVars
  <1>1. TypeOK'
    <2>1. \A r \in Rows : Fenced[r] \in Push
      BY RowsNumbered DEF TypeOK, Push
    <2>2. outbox' \in Seq(Push) /\ Len(outbox') = Len(outbox)
      BY <2>1, RowsUpdated DEF TypeOK
    <2> QED BY <2>2 DEF TypeOK
  <1>2. OneCourier'
    <2>1. Rows' = Rows
      BY DEF Rows
    <2>2. \A r \in Rows : /\ outbox'[r].state = "pending" <=> outbox[r].state = "pending"
                          /\ outbox'[r].withdrawn = outbox[r].withdrawn
      <3> TAKE r \in Rows
      <3>1. outbox[r] \in Push
        BY RowsNumbered
      <3> QED BY <3>1 DEF Push, Rows
    <2> QED BY <2>1, <2>2 DEF OneCourier, Carries
  <1>3. PendingIsUntouched'
    <2>1. Rows' = Rows
      BY DEF Rows
    <2>2. \A r \in Rows : /\ outbox'[r].state = "pending" <=> outbox[r].state = "pending"
                          /\ outbox'[r].withdrawn = outbox[r].withdrawn
      <3> TAKE r \in Rows
      <3>1. outbox[r] \in Push
        BY RowsNumbered
      <3> QED BY <3>1 DEF Push, Rows
    <2> QED BY <2>1, <2>2 DEF PendingIsUntouched
  <1>4. PostedAtMostOnce'
    BY DEF TypeOK, Push, Steps, Rows, OneCourier, PendingIsUntouched, PostedAtMostOnce, NoDelivery
  <1> QED BY <1>1, <1>2, <1>3, <1>4

\* The lock is lost unnoticed.
LEMMA LoseKeeps ==
  ASSUME IInv, NEW i \in Instances, Lose(i)
  PROVE  IInv'
  <1> USE SubscriptionAssumption, LeaseAssumption DEF IInv, Lose, LoseLease, leaseVars, subVars
  <1>1. TypeOK'
    BY DEF TypeOK, Push, Steps, Rows, OneCourier
  <1>2. OneCourier'
    BY DEF TypeOK, Push, Steps, Rows, OneCourier, PendingIsUntouched, Carries, NoDelivery
  <1>3. PendingIsUntouched'
    BY DEF TypeOK, Push, Steps, Rows, OneCourier, PendingIsUntouched, NoDelivery
  <1>4. PostedAtMostOnce'
    BY DEF TypeOK, Push, Steps, Rows, OneCourier, PendingIsUntouched, PostedAtMostOnce, NoDelivery
  <1> QED BY <1>1, <1>2, <1>3, <1>4

\* The loss is noticed.
LEMMA DrainKeeps ==
  ASSUME IInv, NEW i \in Instances, Drain(i)
  PROVE  IInv'
  <1> USE SubscriptionAssumption, LeaseAssumption DEF IInv, Drain, Tick, leaseVars, subVars
  <1>1. TypeOK'
    BY DEF TypeOK, Push, Steps, Rows, OneCourier
  <1>2. OneCourier'
    BY DEF TypeOK, Push, Steps, Rows, OneCourier, PendingIsUntouched, Carries, NoDelivery
  <1>3. PendingIsUntouched'
    BY DEF TypeOK, Push, Steps, Rows, OneCourier, PendingIsUntouched, NoDelivery
  <1>4. PostedAtMostOnce'
    BY DEF TypeOK, Push, Steps, Rows, OneCourier, PendingIsUntouched, PostedAtMostOnce, NoDelivery
  <1> QED BY <1>1, <1>2, <1>3, <1>4

\* The process is killed.
LEMMA DieKeeps ==
  ASSUME IInv, NEW i \in Instances, Die(i)
  PROVE  IInv'
  <1> USE SubscriptionAssumption, LeaseAssumption DEF IInv, Die, Kill, NoDelivery, leaseVars, subVars
  <1>1. TypeOK'
    BY DEF TypeOK, Push, Steps, Rows, OneCourier
  <1>2. OneCourier'
    BY DEF TypeOK, Push, Steps, Rows, OneCourier, PendingIsUntouched, Carries, NoDelivery
  <1>3. PendingIsUntouched'
    BY DEF TypeOK, Push, Steps, Rows, OneCourier, PendingIsUntouched, NoDelivery
  <1>4. PostedAtMostOnce'
    BY DEF TypeOK, Push, Steps, Rows, OneCourier, PendingIsUntouched, PostedAtMostOnce, NoDelivery
  <1> QED BY <1>1, <1>2, <1>3, <1>4

\* The process ends.
LEMMA StopKeeps ==
  ASSUME IInv, NEW i \in Instances, Stop(i)
  PROVE  IInv'
  <1> USE SubscriptionAssumption, LeaseAssumption DEF IInv, Stop, Close, leaseVars, subVars
  <1>1. TypeOK'
    BY DEF TypeOK, Push, Steps, Rows, OneCourier
  <1>2. OneCourier'
    BY DEF TypeOK, Push, Steps, Rows, OneCourier, PendingIsUntouched, Carries, NoDelivery
  <1>3. PendingIsUntouched'
    BY DEF TypeOK, Push, Steps, Rows, OneCourier, PendingIsUntouched, NoDelivery
  <1>4. PostedAtMostOnce'
    BY DEF TypeOK, Push, Steps, Rows, OneCourier, PendingIsUntouched, PostedAtMostOnce, NoDelivery
  <1> QED BY <1>1, <1>2, <1>3, <1>4

\* The invariant holds initially and is kept by every step.
THEOREM Invariant == Spec => []IInv
  <1>1. Init => IInv
    BY SubscriptionAssumption DEF Init, LeaseInit, IInv, TypeOK, Push, Steps, Rows, OneCourier, Carries,
       NoDelivery, PendingIsUntouched, PostedAtMostOnce
  <1>2. IInv /\ [Next]_vars => IInv'
    <2> SUFFICES ASSUME IInv, [Next]_vars PROVE IInv'
      OBVIOUS
    <2>1. ASSUME NEW u \in Users, Accept(u) PROVE IInv'
      BY <2>1, AcceptKeeps
    <2>2. ASSUME NEW u \in Users, Reject(u) PROVE IInv'
      BY <2>2, RejectKeeps
    <2>3. ASSUME NEW u \in Users, QueueSubscription(u) PROVE IInv'
      BY <2>3, QueueSubscriptionKeeps
    <2>4. ASSUME NEW u \in Users, Revoke(u) PROVE IInv'
      BY <2>4, RevokeKeeps
    <2>5. ASSUME NEW u \in Users, Purge(u) PROVE IInv'
      BY <2>5, PurgeKeeps
    <2>6. ASSUME NEW u \in Users, Retire(u) PROVE IInv'
      BY <2>6, RetireKeeps
    <2>7. ASSUME NEW u \in Users, Login(u) PROVE IInv'
      BY <2>7, LoginKeeps
    <2>8. ASSUME NEW i \in Instances, Reserve(i) PROVE IInv'
      BY <2>8, ReserveKeeps
    <2>9. ASSUME NEW i \in Instances, Post(i) PROVE IInv'
      BY <2>9, PostKeeps
    <2>10. ASSUME NEW i \in Instances, PostCancelled(i) PROVE IInv'
      BY <2>10, PostCancelledKeeps
    <2>11. ASSUME NEW i \in Instances, ClearCredits(i) PROVE IInv'
      BY <2>11, ClearCreditsKeeps
    <2>12. ASSUME NEW i \in Instances, Finish(i) PROVE IInv'
      BY <2>12, FinishKeeps
    <2>13. ASSUME NEW i \in Instances, FinishFails(i) PROVE IInv'
      BY <2>13, FinishFailsKeeps
    <2>14. ASSUME NEW i \in Instances, Begin(i) PROVE IInv'
      BY <2>14, BeginKeeps
    <2>15. ASSUME NEW i \in Instances, BeginOtherKey(i) PROVE IInv'
      BY <2>15, BeginOtherKeyKeeps
    <2>16. ASSUME NEW i \in Instances, StartLoop(i) PROVE IInv'
      BY <2>16, StartLoopKeeps
    <2>17. ASSUME NEW i \in Instances, Lose(i) PROVE IInv'
      BY <2>17, LoseKeeps
    <2>18. ASSUME NEW i \in Instances, Drain(i) PROVE IInv'
      BY <2>18, DrainKeeps
    <2>19. ASSUME NEW i \in Instances, Die(i) PROVE IInv'
      BY <2>19, DieKeeps
    <2>20. ASSUME NEW i \in Instances, Stop(i) PROVE IInv'
      BY <2>20, StopKeeps
    <2>21. CASE UNCHANGED vars
      BY <2>21 DEF vars, leaseVars, subVars, IInv, TypeOK, Push, Steps, Rows, OneCourier, Carries,
         NoDelivery, PendingIsUntouched, PostedAtMostOnce
    <2> QED BY <2>1, <2>2, <2>3, <2>4, <2>5, <2>6, <2>7, <2>8, <2>9, <2>10, <2>11, <2>12, <2>13, <2>14, <2>15, <2>16, <2>17, <2>18, <2>19, <2>20, <2>21 DEF Next, Deliver
  <1> QED BY <1>1, <1>2, PTL DEF Spec

\* No row is posted twice, whatever crashes, lost locks, lost answers and restarts
\* come between: deliverSubscription() marks the row before the POST, and nothing
\* takes a marked row back.
THEOREM NoSecondPost == Spec => []PostedAtMostOnce
  <1>1. IInv => PostedAtMostOnce
    BY DEF IInv
  <1> QED BY <1>1, Invariant, PTL

\* A row that was pending when the consent or the Node was taken back is not posted
\* any more: only a row some instance reserved is posted, and such a row was not
\* withdrawn.
THEOREM WithdrawnIsNotPosted == Spec => WithdrawnNeverPosted
  <1>1. IInv /\ [Next]_vars => [\A r \in Rows : outbox[r].withdrawn => posts'[r] = posts[r]]_vars
    <2> SUFFICES ASSUME IInv, Next, NEW r \in Rows, outbox[r].withdrawn
                 PROVE  posts'[r] = posts[r]
      OBVIOUS
    <2>1. ASSUME NEW u \in Users, QueueSubscription(u) PROVE posts'[r] = posts[r]
      BY <2>1, RowsNumbered DEF IInv, TypeOK, QueueSubscription
    <2>2. ASSUME NEW i \in Instances, Post(i) PROVE posts'[r] = posts[r]
      <3>1. courier[i].row # r
        BY <2>2 DEF IInv, OneCourier, Post
      <3> QED BY <2>2, <3>1, RowsNumbered DEF IInv, TypeOK, Post
    <2>3. CASE UNCHANGED posts
      BY <2>3
    <2> QED BY <2>1, <2>2, <2>3 DEF Next, Deliver, Accept, Reject, Revoke, Purge, Retire, Login, Reserve,
          PostCancelled, ClearCredits, Finish, FinishFails, Begin, BeginOtherKey, StartLoop, Lose, Drain,
          Die, Stop, subVars
  <1> QED BY <1>1, Invariant, PTL DEF Spec, WithdrawnNeverPosted

\* What is sent, failed or unknown stays so until it is deleted with its session:
\* every update of the state asks for the state it leaves.
THEOREM OutcomesStay == Spec => OutcomeStays
  <1> DEFINE Stays(r) == LET from == outbox[r].state  to == outbox'[r].state IN
               /\ from \in {"sent", "failed", "unknown"} => to \in {from, "deleted"}
               /\ from = "deleted" => to = "deleted"
  <1>1. IInv /\ [Next]_vars => [\A r \in Rows : Stays(r)]_outbox
    <2> SUFFICES ASSUME IInv, Next, NEW r \in Rows PROVE Stays(r)
      BY DEF vars, subVars
    <2>0. outbox[r] \in Push /\ r \in 1..Len(outbox)
      BY RowsNumbered DEF IInv
    <2>1. ASSUME NEW u \in Users, Reject(u) PROVE Stays(r)
      BY <2>0, <2>1 DEF Reject, Failing, Push
    <2>2. ASSUME NEW u \in Users, Revoke(u) PROVE Stays(r)
      BY <2>0, <2>2 DEF Revoke, Failing, Push
    <2>3. ASSUME NEW u \in Users, Retire(u) PROVE Stays(r)
      BY <2>0, <2>3 DEF Retire, Push
    <2>4. ASSUME NEW u \in Users, QueueSubscription(u) PROVE Stays(r)
      BY <2>0, <2>4 DEF QueueSubscription, IInv, TypeOK
    <2>5. ASSUME NEW i \in Instances, Reserve(i) PROVE Stays(r)
      BY <2>0, <2>5 DEF Reserve, Eligible, Push
    <2>6. ASSUME NEW i \in Instances, Finish(i) PROVE Stays(r)
      BY <2>0, <2>6 DEF Finish, Recorded, Push
    <2>7. ASSUME NEW i \in Instances, StartLoop(i) PROVE Stays(r)
      BY <2>0, <2>7 DEF StartLoop, Fenced, Push
    <2>8. CASE UNCHANGED outbox
      BY <2>8
    <2> QED BY <2>1, <2>2, <2>3, <2>4, <2>5, <2>6, <2>7, <2>8 DEF Next, Deliver, Accept, Purge, Login,
          Post, PostCancelled, ClearCredits, FinishFails, Begin, BeginOtherKey, Lose, Drain, Die, Stop, subVars
  <1> QED BY <1>1, Invariant, PTL DEF Spec, OutcomeStays
=============================================================================
