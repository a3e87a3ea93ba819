--------------------------- MODULE FailoverProofs ---------------------------
(***************************************************************************)
(* The inductive invariant of Failover and what follows from it, for any   *)
(* number of instances, operations and losses.                             *)
(***************************************************************************)
EXTENDS Failover, TLAPS

Row == [op : Ops, outbox : {"none", "pending", "dispatching", "uncertain", "not_sent", "delivered"}]

TypeOK ==
  /\ lock \subseteq Instances
  /\ phase \in [Instances -> {"down", "starting", "running", "draining"}]
  /\ losses \in Nat
  /\ op \in [Ops -> {"none", "accepted", "delivered", "reconciling", "failed", "confirmed"}]
  /\ outbox \in [Ops -> {"none", "pending", "dispatching", "uncertain", "not_sent", "delivered"}]
  /\ handler \in [Instances -> Ops \cup {NoOne}]
  /\ intent \in [Instances -> BOOLEAN]
  /\ queue \in [Instances -> SUBSET Ops]
  /\ todo \in [Instances -> SUBSET Row]
  /\ link \in Instances \cup {NoOne} /\ begun \subseteq received
  /\ received \subseteq Ops /\ strays \subseteq Ops

\* The command of o is in the hands of instance i and not yet on the wire.
Holds(i, o) == handler[i] = o \/ o \in queue[i]

\* One instance has the lock; one that is down or draining has nothing in memory.
Leases ==
  /\ \A i, j \in lock : i = j
  /\ \A i \in Instances : phase[i] \in {"down", "draining"} =>
       handler[i] = NoOne /\ queue[i] = {} /\ todo[i] = {}
  /\ \A i \in Instances : phase[i] = "down" => i \notin lock

\* A command is in one place only, and was admitted.
OnePlace ==
  /\ \A i \in Instances, o \in Ops :
       /\ Holds(i, o) => op[o] # "none" /\ \A j \in Instances : Holds(j, o) => i = j
       /\ Holds(i, o) => o \notin received
       /\ handler[i] = o => o \notin queue[i]
  /\ \A i \in Instances : \A row \in todo[i] : op[row.op] # "none"
  /\ \A o \in received : op[o] # "none"
  /\ \A i \in Instances : intent[i] => handler[i] # NoOne

\* A command without a recorded intent has not left its handler.
PendingIsUntouched ==
  \A o \in Ops : outbox[o] = "pending" =>
    /\ o \notin received
    /\ \A i \in Instances : o \notin queue[i] /\ (handler[i] = o => ~intent[i])

\* Nobody recovers what the holder of the lock has in hand, and nothing but a lost
\* connection makes it a failure.
HolderUndisturbed ==
  \A i \in lock, o \in Ops : Holds(i, o) =>
    /\ \A j \in Instances : \A row \in todo[j] : row.op # o
    /\ link = i => op[o] # "failed"

\* What was read as unsent and has reached the Node since then came without the lock.
ReadBeforeStray ==
  \A i \in Instances : \A row \in todo[i] :
    row.outbox = "pending" /\ row.op \in received => row.op \in strays

IInv == /\ TypeOK /\ Leases /\ OnePlace /\ PendingIsUntouched /\ HolderUndisturbed
        /\ ReadBeforeStray /\ FailedUnlessStray

-----------------------------------------------------------------------------
(* Each step preserves the invariant. *)

\* Taking the lock and reading the open operations: nothing is in the hands of a holder.
LEMMA RecoverReadKeeps ==
  ASSUME IInv, NEW i \in Instances, RecoverRead(i)
  PROVE  IInv'
  <1> USE OpsAssumption DEF IInv, RecoverRead, Acquire, MayAcquire, Open, linkVars
  <1>1. TypeOK'
    BY DEF TypeOK, Row
  <1>2. Leases'
    BY DEF TypeOK, Leases
  <1>3. OnePlace'
    BY DEF OnePlace, Holds
  <1>4. PendingIsUntouched'
    BY DEF PendingIsUntouched
  <1>5. HolderUndisturbed'
    BY DEF Leases, HolderUndisturbed, Holds
  <1>6. ReadBeforeStray'
    BY DEF PendingIsUntouched, ReadBeforeStray
  <1>7. FailedUnlessStray'
    BY DEF FailedUnlessStray
  <1> QED BY <1>1, <1>2, <1>3, <1>4, <1>5, <1>6, <1>7

\* Recovering a row as it was read.
LEMMA RecoverOneKeeps ==
  ASSUME IInv, NEW i \in Instances, NEW row \in todo[i], RecoverOne(i, row)
  PROVE  IInv'
  <1> USE OpsAssumption DEF IInv, RecoverOne, Untouched, Failed, Uncertain, leaseVars
  <1>1. TypeOK'
    BY DEF TypeOK, Row
  <1>2. Leases'
    BY DEF Leases
  <1>3. OnePlace'
    BY DEF TypeOK, OnePlace, Row, Holds
  <1>4. PendingIsUntouched'
    BY DEF TypeOK, PendingIsUntouched
  <1>5. HolderUndisturbed'
    BY DEF TypeOK, HolderUndisturbed, Holds
  <1>6. ReadBeforeStray'
    BY DEF ReadBeforeStray
  <1>7. FailedUnlessStray'
    BY DEF TypeOK, ReadBeforeStray, FailedUnlessStray
  <1> QED BY <1>1, <1>2, <1>3, <1>4, <1>5, <1>6, <1>7

\* The rest of New().
LEMMA StartKeeps ==
  ASSUME IInv, NEW i \in Instances, Start(i)
  PROVE  IInv'
  <1> USE OpsAssumption DEF IInv, Start, Started, opVars, linkVars
  <1>1. TypeOK'
    BY DEF TypeOK, Row
  <1>2. Leases'
    BY DEF Leases
  <1>3. OnePlace'
    BY DEF OnePlace, Holds
  <1>4. PendingIsUntouched'
    BY DEF PendingIsUntouched
  <1>5. HolderUndisturbed'
    BY DEF HolderUndisturbed, Holds
  <1>6. ReadBeforeStray'
    BY DEF ReadBeforeStray
  <1>7. FailedUnlessStray'
    BY DEF FailedUnlessStray
  <1> QED BY <1>1, <1>2, <1>3, <1>4, <1>5, <1>6, <1>7

\* Admission: a new operation is in no list and on no wire.
LEMMA AdmitKeeps ==
  ASSUME IInv, NEW i \in Instances, NEW o \in Ops, Admit(i, o)
  PROVE  IInv'
  <1> USE OpsAssumption DEF IInv, Admit, Serving, Idle, leaseVars, linkVars
  <1>1. TypeOK'
    BY DEF TypeOK, Row
  <1>2. Leases'
    BY DEF Leases
  <1>3. OnePlace'
    BY DEF TypeOK, Row, OnePlace, Holds
  <1>4. PendingIsUntouched'
    BY DEF OnePlace, PendingIsUntouched, Holds
  <1>5. HolderUndisturbed'
    BY DEF TypeOK, OnePlace, HolderUndisturbed, Holds
  <1>6. ReadBeforeStray'
    BY DEF ReadBeforeStray
  <1>7. FailedUnlessStray'
    BY DEF FailedUnlessStray
  <1> QED BY <1>1, <1>2, <1>3, <1>4, <1>5, <1>6, <1>7

\* A write: with the lock it is of an operation nobody fails.
LEMMA WriteKeeps ==
  ASSUME IInv, NEW i \in Instances, NEW o \in Ops, Write(i, o)
  PROVE  IInv'
  <1> USE OpsAssumption DEF IInv, Write, Writer, Serving, Idle, leaseVars
  <1>1. TypeOK'
    BY DEF TypeOK, Row
  <1>2. Leases'
    BY DEF Leases
  <1>3. OnePlace'
    BY DEF TypeOK, Row, OnePlace, Holds
  <1>4. PendingIsUntouched'
    BY DEF PendingIsUntouched
  <1>5. HolderUndisturbed'
    BY DEF HolderUndisturbed, Holds
  <1>6. ReadBeforeStray'
    BY DEF HolderUndisturbed, ReadBeforeStray, Holds
  <1>7. FailedUnlessStray'
    BY DEF HolderUndisturbed, FailedUnlessStray, Holds
  <1> QED BY <1>1, <1>2, <1>3, <1>4, <1>5, <1>6, <1>7

\* A command that the writer does not write.
LEMMA DropKeeps ==
  ASSUME IInv, NEW i \in Instances, NEW o \in Ops, Drop(i, o)
  PROVE  IInv'
  <1> USE OpsAssumption DEF IInv, Drop, Writer, Failed, Serving, Idle, leaseVars
  <1>1. TypeOK'
    BY DEF TypeOK, Row
  <1>2. Leases'
    BY DEF Leases
  <1>3. OnePlace'
    BY DEF OnePlace, Holds
  <1>4. PendingIsUntouched'
    BY DEF OnePlace, PendingIsUntouched, Holds
  <1>5. HolderUndisturbed'
    BY DEF TypeOK, OnePlace, HolderUndisturbed, Holds
  <1>6. ReadBeforeStray'
    BY DEF ReadBeforeStray
  <1>7. FailedUnlessStray'
    BY DEF OnePlace, FailedUnlessStray, Holds
  <1> QED BY <1>1, <1>2, <1>3, <1>4, <1>5, <1>6, <1>7

\* A deadline.
LEMMA ExpireKeeps ==
  ASSUME IInv, NEW i \in Instances, NEW o \in Ops, Expire(i, o)
  PROVE  IInv'
  <1> USE OpsAssumption DEF IInv, Expire, Failed, Uncertain, Serving, Idle, leaseVars, linkVars
  <1>1. TypeOK'
    BY DEF TypeOK, Row
  <1>2. Leases'
    BY DEF Leases
  <1>3. OnePlace'
    BY DEF TypeOK, Row, OnePlace, Holds
  <1>4. PendingIsUntouched'
    BY DEF TypeOK, PendingIsUntouched
  <1>5. HolderUndisturbed'
    BY DEF TypeOK, Leases, PendingIsUntouched, HolderUndisturbed, Holds
  <1>6. ReadBeforeStray'
    BY DEF ReadBeforeStray
  <1>7. FailedUnlessStray'
    BY DEF TypeOK, PendingIsUntouched, FailedUnlessStray
  <1> QED BY <1>1, <1>2, <1>3, <1>4, <1>5, <1>6, <1>7

\* Receipts are of commands that no instance has in hand.
LEMMA AcknowledgeKeeps ==
  ASSUME IInv, NEW i \in Instances, NEW o \in Ops, Acknowledge(i, o)
  PROVE  IInv'
  <1> USE OpsAssumption DEF IInv, Acknowledge, Reader, Open, Delivered, Verdict, Serving, Idle, leaseVars
  <1>1. TypeOK'
    BY DEF TypeOK, Row
  <1>2. Leases'
    BY DEF Leases
  <1>3. OnePlace'
    BY DEF TypeOK, Row, OnePlace, Holds
  <1>4. PendingIsUntouched'
    BY DEF TypeOK, OnePlace, PendingIsUntouched, Holds
  <1>5. HolderUndisturbed'
    BY DEF TypeOK, OnePlace, HolderUndisturbed, Holds
  <1>6. ReadBeforeStray'
    BY DEF ReadBeforeStray
  <1>7. FailedUnlessStray'
    BY DEF TypeOK, OnePlace, FailedUnlessStray, Holds
  <1> QED BY <1>1, <1>2, <1>3, <1>4, <1>5, <1>6, <1>7

\* A query and its answer.
LEMMA ReconcileKeeps ==
  ASSUME IInv, NEW i \in Instances, NEW o \in Ops, Reconcile(i, o)
  PROVE  IInv'
  <1> USE OpsAssumption DEF IInv, Reconcile, Reader, Open, Failed, Delivered, Verdict, Serving, Idle, leaseVars
  <1>1. TypeOK'
    BY DEF TypeOK, Row
  <1>2. Leases'
    BY DEF Leases
  <1>3. OnePlace'
    BY DEF TypeOK, Row, OnePlace, Holds
  <1>4. PendingIsUntouched'
    BY DEF TypeOK, PendingIsUntouched
  <1>5. HolderUndisturbed'
    BY DEF TypeOK, HolderUndisturbed, Holds
  <1>6. ReadBeforeStray'
    BY DEF ReadBeforeStray
  <1>7. FailedUnlessStray'
    BY DEF TypeOK, FailedUnlessStray
  <1> QED BY <1>1, <1>2, <1>3, <1>4, <1>5, <1>6, <1>7

\* The dispatching update.
LEMMA IntendKeeps ==
  ASSUME IInv, NEW i \in Instances, Intend(i)
  PROVE  IInv'
  <1> USE OpsAssumption DEF IInv, Intend, Idle, leaseVars, linkVars
  <1>1. TypeOK'
    BY DEF TypeOK, Row
  <1>2. Leases'
    BY DEF Leases
  <1>3. OnePlace'
    BY DEF OnePlace, Holds
  <1>4. PendingIsUntouched'
    BY DEF TypeOK, PendingIsUntouched
  <1>5. HolderUndisturbed'
    BY DEF HolderUndisturbed, Holds
  <1>6. ReadBeforeStray'
    BY DEF ReadBeforeStray
  <1>7. FailedUnlessStray'
    BY DEF FailedUnlessStray
  <1> QED BY <1>1, <1>2, <1>3, <1>4, <1>5, <1>6, <1>7

\* From the handler into the queue.
LEMMA EnqueueKeeps ==
  ASSUME IInv, NEW i \in Instances, Enqueue(i)
  PROVE  IInv'
  <1> USE OpsAssumption DEF IInv, Enqueue, Idle, leaseVars, linkVars
  <1>1. TypeOK'
    BY DEF TypeOK, Row
  <1>2. Leases'
    BY DEF Leases
  <1>3. OnePlace'
    BY DEF TypeOK, Row, OnePlace, Holds
  <1>4. PendingIsUntouched'
    BY DEF PendingIsUntouched
  <1>5. HolderUndisturbed'
    BY DEF HolderUndisturbed, Holds
  <1>6. ReadBeforeStray'
    BY DEF ReadBeforeStray
  <1>7. FailedUnlessStray'
    BY DEF FailedUnlessStray
  <1> QED BY <1>1, <1>2, <1>3, <1>4, <1>5, <1>6, <1>7

\* The peer is gone before the command left the handler.
LEMMA NotSentKeeps ==
  ASSUME IInv, NEW i \in Instances, NotSent(i)
  PROVE  IInv'
  <1> USE OpsAssumption DEF IInv, NotSent, Failed, LinkLost, Idle, leaseVars, linkVars
  <1>1. TypeOK'
    BY DEF TypeOK, Row
  <1>2. Leases'
    BY DEF Leases
  <1>3. OnePlace'
    BY DEF TypeOK, Row, OnePlace, Holds
  <1>4. PendingIsUntouched'
    BY DEF PendingIsUntouched
  <1>5. HolderUndisturbed'
    BY DEF TypeOK, OnePlace, HolderUndisturbed, Holds
  <1>6. ReadBeforeStray'
    BY DEF ReadBeforeStray
  <1>7. FailedUnlessStray'
    BY DEF TypeOK, OnePlace, Holds, FailedUnlessStray
  <1> QED BY <1>1, <1>2, <1>3, <1>4, <1>5, <1>6, <1>7

\* A new connection starts with an empty queue.
LEMMA ConnectKeeps ==
  ASSUME IInv, NEW i \in Instances, Connect(i)
  PROVE  IInv'
  <1> USE OpsAssumption DEF IInv, Connect, AskAbout, Serving, Idle
  <1>1. TypeOK'
    BY DEF TypeOK, Row
  <1>2. Leases'
    BY DEF Leases
  <1>3. OnePlace'
    BY DEF OnePlace, Holds
  <1>4. PendingIsUntouched'
    BY DEF PendingIsUntouched
  <1>5. HolderUndisturbed'
    BY DEF TypeOK, HolderUndisturbed, Holds
  <1>6. ReadBeforeStray'
    BY DEF ReadBeforeStray
  <1>7. FailedUnlessStray'
    BY DEF FailedUnlessStray
  <1> QED BY <1>1, <1>2, <1>3, <1>4, <1>5, <1>6, <1>7

\* A lost connection.
LEMMA DisconnectKeeps ==
  ASSUME IInv, Disconnect
  PROVE  IInv'
  <1> USE OpsAssumption DEF IInv, Disconnect, LinkLost
  <1>1. TypeOK'
    BY DEF TypeOK, Row
  <1>2. Leases'
    BY DEF Leases
  <1>3. OnePlace'
    BY DEF OnePlace, Holds
  <1>4. PendingIsUntouched'
    BY DEF PendingIsUntouched
  <1>5. HolderUndisturbed'
    BY DEF TypeOK, HolderUndisturbed, Holds
  <1>6. ReadBeforeStray'
    BY DEF ReadBeforeStray
  <1>7. FailedUnlessStray'
    BY DEF FailedUnlessStray
  <1> QED BY <1>1, <1>2, <1>3, <1>4, <1>5, <1>6, <1>7

\* The lock is lost unnoticed.
LEMMA LoseKeeps ==
  ASSUME IInv, NEW i \in Instances, Lose(i)
  PROVE  IInv'
  <1> USE OpsAssumption DEF IInv, Lose, LoseLease, opVars, linkVars
  <1>1. TypeOK'
    BY DEF TypeOK, Row
  <1>2. Leases'
    BY DEF Leases
  <1>3. OnePlace'
    BY DEF OnePlace, Holds
  <1>4. PendingIsUntouched'
    BY DEF PendingIsUntouched
  <1>5. HolderUndisturbed'
    BY DEF HolderUndisturbed, Holds
  <1>6. ReadBeforeStray'
    BY DEF ReadBeforeStray
  <1>7. FailedUnlessStray'
    BY DEF FailedUnlessStray
  <1> QED BY <1>1, <1>2, <1>3, <1>4, <1>5, <1>6, <1>7

\* The loss is noticed.
LEMMA DrainKeeps ==
  ASSUME IInv, NEW i \in Instances, Drain(i)
  PROVE  IInv'
  <1> USE OpsAssumption DEF IInv, Drain, Tick, Idle, Forget, LinkLost, linkVars
  <1>1. TypeOK'
    BY DEF TypeOK, Row
  <1>2. Leases'
    BY DEF TypeOK, Leases
  <1>3. OnePlace'
    BY DEF OnePlace, Holds
  <1>4. PendingIsUntouched'
    BY DEF PendingIsUntouched
  <1>5. HolderUndisturbed'
    BY DEF TypeOK, HolderUndisturbed, Holds
  <1>6. ReadBeforeStray'
    BY DEF ReadBeforeStray
  <1>7. FailedUnlessStray'
    BY DEF FailedUnlessStray
  <1> QED BY <1>1, <1>2, <1>3, <1>4, <1>5, <1>6, <1>7

\* The process is killed.
LEMMA DieKeeps ==
  ASSUME IInv, NEW i \in Instances, Die(i)
  PROVE  IInv'
  <1> USE OpsAssumption DEF IInv, Die, Kill, Alive, Forget, LinkLost, linkVars
  <1>1. TypeOK'
    BY DEF TypeOK, Row
  <1>2. Leases'
    BY DEF TypeOK, Leases
  <1>3. OnePlace'
    BY DEF TypeOK, Row, OnePlace, Holds
  <1>4. PendingIsUntouched'
    BY DEF PendingIsUntouched
  <1>5. HolderUndisturbed'
    BY DEF TypeOK, HolderUndisturbed, Holds
  <1>6. ReadBeforeStray'
    BY DEF ReadBeforeStray
  <1>7. FailedUnlessStray'
    BY DEF FailedUnlessStray
  <1> QED BY <1>1, <1>2, <1>3, <1>4, <1>5, <1>6, <1>7

\* The process ends.
LEMMA StopKeeps ==
  ASSUME IInv, NEW i \in Instances, Stop(i)
  PROVE  IInv'
  <1> USE OpsAssumption DEF IInv, Stop, Close, Idle, Forget, LinkLost, linkVars
  <1>1. TypeOK'
    BY DEF TypeOK, Row
  <1>2. Leases'
    BY DEF TypeOK, Leases
  <1>3. OnePlace'
    BY DEF OnePlace, Holds
  <1>4. PendingIsUntouched'
    BY DEF PendingIsUntouched
  <1>5. HolderUndisturbed'
    BY DEF TypeOK, HolderUndisturbed, Holds
  <1>6. ReadBeforeStray'
    BY DEF ReadBeforeStray
  <1>7. FailedUnlessStray'
    BY DEF FailedUnlessStray
  <1> QED BY <1>1, <1>2, <1>3, <1>4, <1>5, <1>6, <1>7

\* The invariant holds initially and is kept by every step.
THEOREM Invariant == Spec => []IInv
  <1>1. Init => IInv
    BY OpsAssumption DEF Init, LeaseInit, IInv, TypeOK, Row, Leases, OnePlace, Holds,
       PendingIsUntouched, HolderUndisturbed, ReadBeforeStray, FailedUnlessStray
  <1>2. IInv /\ [Next]_vars => IInv'
    <2> SUFFICES ASSUME IInv, [Next]_vars PROVE IInv'
      OBVIOUS
    <2>1. ASSUME NEW i \in Instances, RecoverRead(i) PROVE IInv'
      BY <2>1, RecoverReadKeeps
    <2>2. ASSUME NEW i \in Instances, NEW row \in todo[i], RecoverOne(i, row) PROVE IInv'
      BY <2>2, RecoverOneKeeps
    <2>3. ASSUME NEW i \in Instances, Start(i) PROVE IInv'
      BY <2>3, StartKeeps
    <2>4. ASSUME NEW i \in Instances, NEW o \in Ops, Admit(i, o) PROVE IInv'
      BY <2>4, AdmitKeeps
    <2>5. ASSUME NEW i \in Instances, NEW o \in Ops, Write(i, o) PROVE IInv'
      BY <2>5, WriteKeeps
    <2>6. ASSUME NEW i \in Instances, NEW o \in Ops, Expire(i, o) PROVE IInv'
      BY <2>6, ExpireKeeps
    <2>7. ASSUME NEW i \in Instances, NEW o \in Ops, Reconcile(i, o) PROVE IInv'
      BY <2>7, ReconcileKeeps
    <2>8. ASSUME NEW i \in Instances, Intend(i) PROVE IInv'
      BY <2>8, IntendKeeps
    <2>9. ASSUME NEW i \in Instances, Enqueue(i) PROVE IInv'
      BY <2>9, EnqueueKeeps
    <2>10. ASSUME NEW i \in Instances, NotSent(i) PROVE IInv'
      BY <2>10, NotSentKeeps
    <2>11. ASSUME NEW i \in Instances, Connect(i) PROVE IInv'
      BY <2>11, ConnectKeeps
    <2>12. CASE Disconnect
      BY <2>12, DisconnectKeeps
    <2>13. ASSUME NEW i \in Instances, Lose(i) PROVE IInv'
      BY <2>13, LoseKeeps
    <2>14. ASSUME NEW i \in Instances, Drain(i) PROVE IInv'
      BY <2>14, DrainKeeps
    <2>15. ASSUME NEW i \in Instances, Die(i) PROVE IInv'
      BY <2>15, DieKeeps
    <2>16. ASSUME NEW i \in Instances, Stop(i) PROVE IInv'
      BY <2>16, StopKeeps
    <2>17. ASSUME NEW i \in Instances, NEW o \in Ops, Drop(i, o) PROVE IInv'
      BY <2>17, DropKeeps
    <2>18. ASSUME NEW i \in Instances, NEW o \in Ops, Acknowledge(i, o) PROVE IInv'
      BY <2>18, AcknowledgeKeeps
    <2>19. CASE UNCHANGED vars
      BY <2>19 DEF vars, leaseVars, opVars, linkVars, IInv, TypeOK, Row, Leases, OnePlace, Holds,
         PendingIsUntouched, HolderUndisturbed, ReadBeforeStray, FailedUnlessStray
    <2> QED BY <2>1, <2>2, <2>3, <2>4, <2>5, <2>6, <2>7, <2>8, <2>9, <2>10, <2>11, <2>12, <2>13,
       <2>14, <2>15, <2>16, <2>17, <2>18, <2>19 DEF Next, Handle
  <1> QED BY <1>1, <1>2, PTL DEF Spec

\* An operation is failed as unsent only when the Node does not have it, except for a
\* write of an instance that had lost the lock: recoverOperations(), dispatch(), expiry.
THEOREM FailuresAreTrue == Spec => []FailedUnlessStray
  BY Invariant, PTL DEF IInv
=============================================================================
