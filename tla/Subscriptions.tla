--------------------------- MODULE Subscriptions ----------------------------
(***************************************************************************)
(* Subscription messages: consents and their credits, the outbox that      *)
(* notify() fills, and subscriptionLoop(), which reserves a row, posts it  *)
(* to WeChat outside the mutex and records what came of it. Instances come *)
(* and go as in Lease. One template; a user has one session on one Node.   *)
(* What WeChat answers is external.                                        *)
(***************************************************************************)
EXTENDS Lease, Sequences, FiniteSetsExt

CONSTANTS
  Users,
  MaxPushes,      \* bound: rows of the outbox
  MaxAccepts,     \* bound: how often users accept
  MaxCredits,     \* 100
  MaxEnded,       \* bound: Nodes revoked and sessions purged
  NoRow

ASSUME SubscriptionAssumption ==
  /\ IsFiniteSet(Users) /\ MaxPushes \in Nat /\ MaxAccepts \in Nat /\ MaxCredits \in Nat \ {0}
  /\ MaxEnded \in Nat

VARIABLES
  consent,    \* subscription_consents: decision and credits, per user
  accepts,    \* how often users have accepted
  outbox,     \* subscription_outbox in the order of created_at
  posts,      \* how often each row was posted
  access,     \* per user: node_access not revoked
  kept,       \* per user: the session's content is not purged
  readable,   \* per user: the encrypted identity fits the configured key
  courier     \* per instance: the row in deliverSubscription() and how far it is

subVars == <<consent, accepts, outbox, posts, access, kept, readable, courier>>
vars    == <<leaseVars, subVars>>

NoDelivery == [row |-> NoRow, step |-> "idle"]
Rows       == DOMAIN outbox

Init ==
  /\ LeaseInit
  /\ consent = [u \in Users |-> [decision |-> "none", credits |-> 0]]
  /\ accepts = 0
  /\ outbox = <<>> /\ posts = <<>>
  /\ access = [u \in Users |-> TRUE] /\ kept = [u \in Users |-> TRUE]
  /\ readable = [u \in Users |-> TRUE]
  /\ courier = [i \in Instances |-> NoDelivery]

-----------------------------------------------------------------------------
(* Handlers, in any instance that serves.                                  *)

Working == \E i \in Instances : Serving(i)

\* subscriptionConsent() with accept.
Accept(u) ==
  /\ Working /\ accepts < MaxAccepts
  /\ accepts' = accepts + 1
  /\ consent' = [consent EXCEPT ![u] =
       [decision |-> "accept", credits |-> Min({MaxCredits, @.credits + 1})]]
  /\ UNCHANGED <<leaseVars, outbox, posts, access, kept, readable, courier>>

\* What is pending of these rows fails; withdrawn remembers it.
Failing(rows) ==
  [r \in Rows |-> IF r \in rows /\ outbox[r].state = "pending"
                  THEN [outbox[r] EXCEPT !.state = "failed", !.withdrawn = TRUE] ELSE outbox[r]]

OfUser(u) == {r \in Rows : outbox[r].user = u}

\* subscriptionConsent() with reject, ban or filter: no credit, nothing pending.
Reject(u) ==
  /\ Working /\ consent[u].decision = "accept"
  /\ consent' = [consent EXCEPT ![u] = [decision |-> "reject", credits |-> 0]]
  /\ outbox' = Failing(OfUser(u))
  /\ UNCHANGED <<leaseVars, accepts, posts, access, kept, readable, courier>>

\* The update of queueSubscription().
Taken(c) == [c EXCEPT !.credits = @ - 1]

\* notify() of the session: a credit becomes a row.
QueueSubscription(u) ==
  /\ Working /\ access[u] /\ kept[u] /\ Len(outbox) < MaxPushes
  /\ consent[u].decision = "accept" /\ consent[u].credits > 0
  /\ consent' = [consent EXCEPT ![u] = Taken(@)]
  /\ outbox' = Append(outbox, [user |-> u, state |-> "pending", withdrawn |-> FALSE])
  /\ posts' = Append(posts, 0)
  /\ UNCHANGED <<leaseVars, accepts, access, kept, readable, courier>>

Ended == {u \in Users : ~access[u]} \X {"Node"} \cup {u \in Users : ~kept[u]} \X {"session"}

\* revokeNode: what is pending fails.
Revoke(u) ==
  /\ Working /\ Cardinality(Ended) < MaxEnded
  /\ access[u] /\ access' = [access EXCEPT ![u] = FALSE]
  /\ outbox' = Failing(OfUser(u))
  /\ UNCHANGED <<leaseVars, consent, accepts, posts, kept, readable, courier>>

\* maintenance(): the content is purged; rows of the outbox stay as they are.
Purge(u) ==
  /\ Working /\ Cardinality(Ended) < MaxEnded
  /\ kept[u] /\ kept' = [kept EXCEPT ![u] = FALSE]
  /\ UNCHANGED <<leaseVars, consent, accepts, outbox, posts, access, readable, courier>>

\* The session's rows are deleted, its notifications and their pushes with them.
Retire(u) ==
  /\ Working /\ ~kept[u] /\ \E r \in OfUser(u) : outbox[r].state # "deleted"
  /\ outbox' = [r \in Rows |-> IF r \in OfUser(u) THEN [outbox[r] EXCEPT !.state = "deleted"]
                               ELSE outbox[r]]
  /\ UNCHANGED <<leaseVars, consent, accepts, posts, access, kept, readable, courier>>

\* login() encrypts the identity again.
Login(u) ==
  /\ Working /\ ~readable[u] /\ readable' = [readable EXCEPT ![u] = TRUE]
  /\ UNCHANGED <<leaseVars, consent, accepts, outbox, posts, access, kept, courier>>

-----------------------------------------------------------------------------
(* deliverSubscription()                                                   *)

Eligible ==
  {r \in Rows : /\ outbox[r].state = "pending" /\ consent[outbox[r].user].decision = "accept"
                /\ access[outbox[r].user] /\ kept[outbox[r].user]}

Oldest(r) == \A x \in Eligible : r <= x

\* Mutated form: the row is marked only after the POST.
ReserveUnmarked(i) ==
  /\ Serving(i) /\ courier[i] = NoDelivery
  /\ \E r \in Eligible :
       /\ Oldest(r) /\ readable[outbox[r].user]
       /\ courier' = [courier EXCEPT ![i] = [row |-> r, step |-> "reserved"]]
  /\ UNCHANGED <<leaseVars, consent, accepts, outbox, posts, access, kept, readable>>

\* Mutated form: the oldest pending row is taken and then found not to be eligible.
ReserveHead(i) ==
  LET r == Min({x \in Rows : outbox[x].state = "pending"}) IN
  /\ Serving(i) /\ courier[i] = NoDelivery /\ Eligible # {}
  /\ r \in Eligible /\ readable[outbox[r].user]
  /\ outbox' = [outbox EXCEPT ![r].state = "sending"]
  /\ courier' = [courier EXCEPT ![i] = [row |-> r, step |-> "reserved"]]
  /\ UNCHANGED <<leaseVars, consent, accepts, posts, access, kept, readable>>

\* The transaction that reserves the oldest row. One whose identity cannot be
\* decrypted ends the attempt with an error.
Reserve(i) ==
  /\ Serving(i) /\ courier[i] = NoDelivery
  /\ \E r \in Eligible :
       /\ Oldest(r) /\ readable[outbox[r].user]
       /\ outbox' = [outbox EXCEPT ![r].state = "sending"]
       /\ courier' = [courier EXCEPT ![i] = [row |-> r, step |-> "reserved"]]
  /\ UNCHANGED <<leaseVars, consent, accepts, posts, access, kept, readable>>

Answers == {"sent", "failed", "refused", "unknown"}     \* refused: 43101

\* The POST, with what the process learns of it.
Post(i) ==
  /\ Alive(i) /\ courier[i].step = "reserved"
  /\ posts' = [posts EXCEPT ![courier[i].row] = @ + 1]
  /\ \E a \in Answers : courier' = [courier EXCEPT ![i].step = a]
  /\ UNCHANGED <<leaseVars, consent, accepts, outbox, access, kept, readable>>

\* The context ended before the request left.
PostCancelled(i) ==
  /\ phase[i] = "draining" /\ courier[i].step = "reserved"
  /\ courier' = [courier EXCEPT ![i].step = "unknown"]
  /\ UNCHANGED <<leaseVars, consent, accepts, outbox, posts, access, kept, readable>>

\* 43101: the user has no subscription left, whatever was counted. An error is ignored.
ClearCredits(i) ==
  /\ Alive(i) /\ courier[i].step = "refused"
  /\ consent' \in {consent, [consent EXCEPT ![outbox[courier[i].row].user].credits = 0]}
  /\ courier' = [courier EXCEPT ![i].step = "failed"]
  /\ UNCHANGED <<leaseVars, accepts, outbox, posts, access, kept, readable>>

\* Mutated form: a message whose result is unknown is tried again.
RecordedRetry(row, s) ==
  IF row.state # "sending" THEN row
  ELSE [row EXCEPT !.state = IF s = "unknown" THEN "pending" ELSE s]

\* Mutated form: the last update does not ask for the state it left.
RecordedAnyway(row, s) == [row EXCEPT !.state = s]

\* The last update: only a row that is still sending.
Recorded(row, s) == IF row.state = "sending" THEN [row EXCEPT !.state = s] ELSE row

Finish(i) ==
  /\ Alive(i) /\ courier[i].step \in {"sent", "failed", "unknown"}
  /\ outbox' = [outbox EXCEPT ![courier[i].row] = Recorded(@, courier[i].step)]
  /\ courier' = [courier EXCEPT ![i] = NoDelivery]
  /\ UNCHANGED <<leaseVars, consent, accepts, posts, access, kept, readable>>

\* ... and it fails: the row stays sending.
FinishFails(i) ==
  /\ Alive(i) /\ courier[i].step \in {"sent", "failed", "unknown"}
  /\ losses < MaxLosses /\ losses' = losses + 1
  /\ courier' = [courier EXCEPT ![i] = NoDelivery]
  /\ UNCHANGED <<lock, phase, consent, accepts, outbox, posts, access, kept, readable>>

-----------------------------------------------------------------------------
(* Instances.                                                              *)

\* A crash after the POST began is ambiguous, never a reason to resend.
Fenced == [r \in Rows |-> IF outbox[r].state = "sending"
                          THEN [outbox[r] EXCEPT !.state = "unknown"] ELSE outbox[r]]

Begin(i) == Acquire(i) /\ UNCHANGED subVars

\* A restart with another key, which no identity fits.
BeginOtherKey(i) ==
  /\ Acquire(i) /\ \A j \in Instances : phase[j] = "down"
  /\ \E u \in Users : readable[u]
  /\ readable' = [u \in Users |-> FALSE]
  /\ UNCHANGED <<consent, accepts, outbox, posts, access, kept, courier>>

\* The first statement of subscriptionLoop(); an error is ignored.
StartLoop(i) ==
  /\ Started(i) /\ outbox' \in {Fenced, outbox}
  /\ UNCHANGED <<consent, accepts, posts, access, kept, readable, courier>>

Lose(i)  == LoseLease(i) /\ UNCHANGED subVars
Drain(i) == Tick(i) /\ UNCHANGED subVars
Die(i)   == /\ Kill(i) /\ courier' = [courier EXCEPT ![i] = NoDelivery]
            /\ UNCHANGED <<consent, accepts, outbox, posts, access, kept, readable>>
Stop(i)  == Close(i) /\ courier[i] = NoDelivery /\ UNCHANGED subVars

Deliver(i) == Post(i) \/ PostCancelled(i) \/ ClearCredits(i) \/ Finish(i)

Next ==
  \/ \E u \in Users : \/ Accept(u) \/ Reject(u) \/ QueueSubscription(u) \/ Revoke(u)
                      \/ Purge(u) \/ Retire(u) \/ Login(u)
  \/ \E i \in Instances : \/ Reserve(i) \/ Deliver(i) \/ FinishFails(i)
                          \/ Begin(i) \/ BeginOtherKey(i) \/ StartLoop(i)
                          \/ Lose(i) \/ Drain(i) \/ Die(i) \/ Stop(i)

Spec == Init /\ [][Next]_vars

(* Some instance is started again, loops and ticks run, a POST ends after  *)
(* its timeout of 10 seconds.                                              *)
Fairness == \A i \in Instances :
  /\ WF_vars(Begin(i) \/ BeginOtherKey(i)) /\ WF_vars(StartLoop(i))
  /\ WF_vars(Reserve(i)) /\ WF_vars(Deliver(i))
  /\ WF_vars(Drain(i)) /\ WF_vars(phase[i] = "draining" /\ Stop(i))

FairSpec == Spec /\ Fairness

-----------------------------------------------------------------------------
\* An uncertain send is never replayed: no row is posted twice, whoever crashed,
\* lost the lease or came up in between (deliverSubscription(), subscriptionLoop()).
PostedAtMostOnce == \A r \in Rows : posts[r] <= 1

\* What is sent, failed or unknown stays so until it is deleted with its session: a
\* late answer does not overwrite what a restart or a revocation has recorded.
OutcomeStays == [][
  \A r \in Rows :
    LET from == outbox[r].state  to == outbox'[r].state IN
    /\ from \in {"sent", "failed", "unknown"} => to \in {from, "deleted"}
    /\ from = "deleted" => to = "deleted"]_outbox

\* A message that was pending when the consent or the Node was taken back is not
\* posted after that, not even when the user accepts again.
WithdrawnNeverPosted ==
  [][\A r \in Rows : outbox[r].withdrawn => posts'[r] = posts[r]]_vars

\* A row does not stay pending, unless its session is purged or an older row that
\* could be sent belongs to an identity which cannot be decrypted.
Blocked(r) ==
  \/ ~kept[outbox[r].user]
  \/ \E older \in Eligible : older <= r /\ ~readable[outbox[older].user]

Waits(r) == r \in Rows /\ outbox[r].state = "pending"

EventuallyDecided ==
  \A r \in 1..MaxPushes : Waits(r) ~> (~Waits(r) \/ Blocked(r))
=============================================================================
