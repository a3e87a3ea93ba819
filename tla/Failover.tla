------------------------------ MODULE Failover ------------------------------
(***************************************************************************)
(* Commands while the lease changes hands: one instance admits, dispatches *)
(* and writes a command, another one takes the lock and recovers what it   *)
(* finds. CommandDelivery has the single instance; here an operation is    *)
(* only what recoverOperations() and dispatch() tell apart: it is failed   *)
(* when it is taken for not sent, and confirmed when the Node's verdict    *)
(* arrives, a rejection included. One Node.                                *)
(***************************************************************************)
EXTENDS Lease

CONSTANTS Ops, NoOne,
          QueryLimit    \* LIMIT of the query batch sent on connect

ASSUME OpsAssumption == IsFiniteSet(Ops) /\ NoOne \notin Instances \cup Ops /\ QueryLimit \in Nat

VARIABLES
  op,         \* operations.state
  outbox,     \* command_outbox.state
  handler,    \* per instance: the operation whose handler is in dispatch()
  intent,     \* ... and whether it is past the dispatching update
  queue,      \* per instance: commands queued for the Node
  todo,       \* per instance: the rows recoverOperations() has still to do
  link,       \* the instance the Node is connected to
  asking,     \* queries of this connection that are not answered
  unasked,    \* open operations this connection has not asked about (history)
  received,   \* commands the Node has got
  begun,      \* ... and is working on
  cut,        \* ... whose entry in the journal stays at delivered or executing
  strays      \* ... from an instance that no longer had the lock

linkVars == <<link, asking, unasked, begun, cut>>
opVars   == <<op, outbox, handler, intent, queue, todo, linkVars, received, strays>>
vars     == <<leaseVars, opVars>>

Init ==
  /\ LeaseInit
  /\ op = [o \in Ops |-> "none"] /\ outbox = [o \in Ops |-> "none"]
  /\ handler = [i \in Instances |-> NoOne] /\ intent = [i \in Instances |-> FALSE]
  /\ queue = [i \in Instances |-> {}] /\ todo = [i \in Instances |-> {}]
  /\ link = NoOne /\ asking = {} /\ unasked = {}
  /\ received = {} /\ begun = {} /\ cut = {} /\ strays = {}

Idle(i) == handler[i] = NoOne        \* nobody holds the instance's mutex

\* What a transaction writes of an operation, whatever its state is.
Failed(o)    == op' = [op EXCEPT ![o] = "failed"] /\ outbox' = [outbox EXCEPT ![o] = "not_sent"]
Delivered(o) == op' = [op EXCEPT ![o] = "delivered"] /\ outbox' = [outbox EXCEPT ![o] = "delivered"]
Verdict(o)   == op' = [op EXCEPT ![o] = "confirmed"] /\ outbox' = [outbox EXCEPT ![o] = "delivered"]
Uncertain(o) ==
  /\ op' = [op EXCEPT ![o] = "reconciling"]
  /\ outbox' = [outbox EXCEPT ![o] = IF @ = "delivered" THEN @ ELSE "uncertain"]

-----------------------------------------------------------------------------
(* recoverOperations(): reads the open operations, then commits one after  *)
(* the other by what it read.                                              *)

Open(o) == op[o] \in {"accepted", "delivered", "reconciling"}

RecoverRead(i) ==
  /\ Acquire(i)
  /\ todo' = [todo EXCEPT ![i] = {[op |-> o, outbox |-> outbox[o]] : o \in {x \in Ops : Open(x)}}]
  /\ UNCHANGED <<op, outbox, handler, intent, queue, linkVars, received, strays>>

\* Mutated form: an intent to write is taken for an unsent command.
UntouchedOrIntended(row) == row.outbox \in {"pending", "dispatching"}

Untouched(row) == row.outbox = "pending"

RecoverOne(i, row) ==
  /\ phase[i] = "starting" /\ row \in todo[i]
  /\ todo' = [todo EXCEPT ![i] = @ \ {row}]
  /\ IF Untouched(row)
     THEN Failed(row.op) /\ UNCHANGED unasked
     ELSE /\ Uncertain(row.op)
          /\ unasked' = IF link = NoOne THEN unasked ELSE unasked \cup ({row.op} \ asking)
  /\ UNCHANGED <<leaseVars, handler, intent, queue, link, asking, begun, cut, received, strays>>

Start(i) == todo[i] = {} /\ Started(i) /\ UNCHANGED opVars

-----------------------------------------------------------------------------
(* A command: admission, the dispatching intent, the queue, the writer.    *)

Admit(i, o) ==
  /\ Serving(i) /\ Idle(i) /\ op[o] = "none" /\ link = i
  /\ op' = [op EXCEPT ![o] = "accepted"] /\ outbox' = [outbox EXCEPT ![o] = "pending"]
  /\ handler' = [handler EXCEPT ![i] = o]
  /\ UNCHANGED <<leaseVars, intent, queue, todo, linkVars, received, strays>>

\* The update is conditional, what it did is not looked at.
Intend(i) ==
  LET o == handler[i] IN
  /\ ~Idle(i) /\ ~intent[i]
  /\ intent' = [intent EXCEPT ![i] = TRUE]
  /\ outbox' = [outbox EXCEPT ![o] = IF @ = "pending" THEN "dispatching" ELSE @]
  /\ UNCHANGED <<leaseVars, op, handler, queue, todo, linkVars, received, strays>>

Enqueue(i) ==
  /\ ~Idle(i) /\ intent[i] /\ link = i
  /\ queue' = [queue EXCEPT ![i] = @ \cup {handler[i]}]
  /\ handler' = [handler EXCEPT ![i] = NoOne] /\ intent' = [intent EXCEPT ![i] = FALSE]
  /\ UNCHANGED <<leaseVars, op, outbox, todo, linkVars, received, strays>>

\* What the connection carried is gone. The Node stops at a receipt it cannot send;
\* of what it was working on it ends the rest.
LinkLost ==
  /\ link' = NoOne /\ asking' = {} /\ unasked' = {} /\ begun' = {}
  /\ \E stopped \in SUBSET begun : cut' = cut \cup stopped

\* failUnsent(): the peer is gone; or the deadline has passed, before the intent; or
\* the queue is full after it, which stops the peer.
NotSent(i) ==
  /\ ~Idle(i) /\ Failed(handler[i])
  /\ IF link = i /\ intent[i] THEN LinkLost ELSE UNCHANGED linkVars
  /\ handler' = [handler EXCEPT ![i] = NoOne] /\ intent' = [intent EXCEPT ![i] = FALSE]
  /\ UNCHANGED <<leaseVars, queue, todo, received, strays>>

\* writer(), under the mutex; not when draining.
Writer(i, o) ==
  /\ Serving(i) /\ Idle(i) /\ link = i /\ o \in queue[i]
  /\ queue' = [queue EXCEPT ![i] = @ \ {o}]
  /\ UNCHANGED <<leaseVars, handler, intent, todo, link, asking, unasked, cut>>

Write(i, o) ==
  /\ Writer(i, o)
  /\ received' = received \cup {o} /\ begun' = begun \cup {o}
  /\ strays' = IF i \in lock THEN strays ELSE strays \cup {o}
  /\ UNCHANGED <<op, outbox>>

\* The deadline passed in the queue, or the Node has not been heard from.
Drop(i, o) == Writer(i, o) /\ Failed(o) /\ UNCHANGED <<received, begun, strays>>

\* Mutated form: the deadline only counts for commands that were not dispatched.
ExpireUnsent(i, o) ==
  /\ Serving(i) /\ Idle(i) /\ i \in lock /\ op[o] = "accepted" /\ outbox[o] = "pending"
  /\ Failed(o)
  /\ UNCHANGED <<leaseVars, handler, intent, queue, todo, linkVars, received, strays>>

\* expireOperations() at the deadline, in a tick that found the lease in order.
Expire(i, o) ==
  /\ Serving(i) /\ Idle(i) /\ i \in lock /\ op[o] \in {"accepted", "delivered"}
  /\ IF outbox[o] = "pending"
     THEN Failed(o) /\ UNCHANGED linkVars
     ELSE /\ Uncertain(o)
          /\ asking'  = IF link = i THEN asking \cup {o} ELSE asking
          /\ unasked' = IF link = i THEN unasked \ {o} ELSE unasked
          /\ UNCHANGED <<link, begun, cut>>
  /\ UNCHANGED <<leaseVars, handler, intent, queue, todo, received, strays>>

-----------------------------------------------------------------------------
(* The Node's answers, in acknowledge().                                   *)

Reader(i) ==
  /\ Serving(i) /\ Idle(i) /\ link = i
  /\ UNCHANGED <<leaseVars, handler, intent, queue, todo, link, unasked, received, cut, strays>>

\* The receipts of a command: delivered at first, its end at last. An operation that
\* is failed already stays so.
Acknowledge(i, o) ==
  /\ Reader(i) /\ o \in begun /\ UNCHANGED asking
  /\ \/ Open(o) /\ outbox[o] # "delivered" /\ Delivered(o) /\ UNCHANGED begun
     \/ Open(o) /\ Verdict(o) /\ begun' = begun \ {o}
     \/ ~Open(o) /\ UNCHANGED <<op, outbox>> /\ begun' = begun \ {o}

\* The answer to a query, which comes behind the commands in the queue and what the
\* Node is working on: not_seen, the end, or, of an entry that was left at delivered
\* or executing, delivered or unknown.
Reconcile(i, o) ==
  /\ Reader(i) /\ o \in asking /\ o \notin queue[i] \cup begun
  /\ asking' = asking \ {o} /\ UNCHANGED begun
  /\ \/ ~Open(o) /\ UNCHANGED <<op, outbox>>
     \/ Open(o) /\ o \notin received /\ Failed(o)
     \/ Open(o) /\ o \in received \ cut /\ Verdict(o)
     \/ Open(o) /\ o \in cut /\ Delivered(o)
     \/ Open(o) /\ o \in cut /\ op' = [op EXCEPT ![o] = "reconciling"] /\ UNCHANGED outbox

-----------------------------------------------------------------------------
(* The Node's connection and the end of an instance.                       *)

\* socket() asks about the open operations, QueryLimit at most; an error of the
\* database leaves out the rest of them.
AskAbout(ops) ==
  /\ asking' = ops /\ unasked' = {o \in Ops : Open(o)} \ ops
  /\ IF unasked' = {} \/ Cardinality(ops) = QueryLimit
     THEN UNCHANGED losses
     ELSE losses < MaxLosses /\ losses' = losses + 1

Connect(i) ==
  /\ link = NoOne /\ Serving(i) /\ Idle(i)
  /\ link' = i /\ queue' = [queue EXCEPT ![i] = {}]
  /\ \E ops \in SUBSET {o \in Ops : Open(o)} : Cardinality(ops) <= QueryLimit /\ AskAbout(ops)
  /\ UNCHANGED <<lock, phase, op, outbox, handler, intent, todo, begun, cut, received, strays>>

Disconnect ==
  /\ link # NoOne /\ LinkLost
  /\ losses < MaxLosses /\ losses' = losses + 1
  /\ UNCHANGED <<lock, phase, op, outbox, handler, intent, queue, todo, received, strays>>

\* What an instance has in memory is gone, its peer with it.
Forget(i) ==
  /\ handler' = [handler EXCEPT ![i] = NoOne] /\ intent' = [intent EXCEPT ![i] = FALSE]
  /\ queue' = [queue EXCEPT ![i] = {}] /\ todo' = [todo EXCEPT ![i] = {}]
  /\ IF link = i THEN LinkLost ELSE UNCHANGED linkVars
  /\ UNCHANGED <<op, outbox, received, strays>>

Lose(i)  == LoseLease(i) /\ UNCHANGED opVars
Drain(i) == Tick(i) /\ Idle(i) /\ Forget(i)
Die(i)   == Kill(i) /\ Forget(i)
Stop(i)  == Close(i) /\ Idle(i) /\ Forget(i)

Handle(i) == Intend(i) \/ Enqueue(i) \/ NotSent(i)

Next == \E i \in Instances :
  \/ RecoverRead(i) \/ Start(i) \/ \E row \in todo[i] : RecoverOne(i, row)
  \/ \E o \in Ops : \/ Admit(i, o) \/ Write(i, o) \/ Drop(i, o) \/ Expire(i, o)
                   \/ Acknowledge(i, o) \/ Reconcile(i, o)
  \/ Handle(i) \/ Connect(i) \/ Disconnect
  \/ Lose(i) \/ Drain(i) \/ Die(i) \/ Stop(i)

Spec == Init /\ [][Next]_vars

(* An instance that stopped or drained is started again, the Node          *)
(* connects again, ticks and handlers run.                                 *)
Fairness ==
  /\ \A i \in Instances :
       /\ WF_vars(RecoverRead(i)) /\ WF_vars(Start(i)) /\ WF_vars(Handle(i))
       /\ WF_vars(\E row \in todo[i] : RecoverOne(i, row))
       /\ WF_vars(Connect(i)) /\ WF_vars(Drain(i)) /\ WF_vars(phase[i] = "draining" /\ Stop(i))
       /\ \A o \in Ops : /\ WF_vars(Write(i, o)) /\ WF_vars(Expire(i, o))
                        /\ WF_vars(Acknowledge(i, o)) /\ WF_vars(Reconcile(i, o))

FairSpec == Spec /\ Fairness

-----------------------------------------------------------------------------
\* An operation that recoverOperations() or dispatch() failed as not sent was not
\* received by the Node, unless it was written in the second an instance works on
\* without the lock.
FailedUnlessStray ==
  \A o \in Ops : op[o] = "failed" /\ o \in received => o \in strays

\* The comment of recoverOperations(): what was pending was definitely not written.
FailedNeverReceived == \A o \in Ops : op[o] = "failed" => o \notin received

\* The Node is connected and was not asked about o on connect, for LIMIT or an ignored
\* error of the database; or o was recovered meanwhile by another instance, one of the
\* two without the lock. A tick does not ask about what is reconciling.
Overlooked(o) == link # NoOne /\ o \in unasked /\ op[o] = "reconciling"

\* acknowledge(): a final receipt does not change.
FinalStays == [][\A o \in Ops : op[o] \in {"failed", "confirmed"} => op'[o] = op[o]]_vars

\* Whichever instances come and go, an admitted operation ends, but for one that the
\* Node was stopped in, and while the Node is not asked about it.
EventuallySettled == \A o \in Ops : []<>(~Open(o) \/ o \in cut \/ Overlooked(o))
=============================================================================
