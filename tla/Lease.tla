------------------------------- MODULE Lease --------------------------------
(***************************************************************************)
(* The single-instance lease: New() takes a PostgreSQL advisory lock on a  *)
(* connection of its own, and loop() looks once a second whether that      *)
(* connection still answers. Between the loss of the connection and that   *)
(* tick the instance works on, while another one may take the lock. The    *)
(* modules that extend this one add what the instances do meanwhile.       *)
(***************************************************************************)
EXTENDS Naturals, FiniteSets

CONSTANTS
  Instances,    \* processes that may be started on the database
  MaxLosses     \* bound: connections lost, processes killed or stopped

ASSUME LeaseAssumption == IsFiniteSet(Instances) /\ MaxLosses \in Nat

VARIABLES
  lock,     \* the instances on whose lease connection the lock is held
  phase,    \* down, starting (in New()), running, draining
  losses

leaseVars == <<lock, phase, losses>>

LeaseInit ==
  /\ lock = {} /\ phase = [i \in Instances |-> "down"] /\ losses = 0

Alive(i)   == phase[i] # "down"
Serving(i) == phase[i] = "running"

\* pg_try_advisory_lock: refused while another connection holds the lock.
MayAcquire(i) == phase[i] = "down" /\ lock = {}

\* New() up to the lock.
Acquire(i) ==
  /\ MayAcquire(i)
  /\ lock' = lock \cup {i} /\ phase' = [phase EXCEPT ![i] = "starting"]
  /\ UNCHANGED losses

\* The rest of New().
Started(i) ==
  /\ phase[i] = "starting" /\ phase' = [phase EXCEPT ![i] = "running"]
  /\ UNCHANGED <<lock, losses>>

\* The database ends the lease connection; the process does not know.
LoseLease(i) ==
  /\ i \in lock /\ losses < MaxLosses
  /\ lock' = lock \ {i} /\ losses' = losses + 1
  /\ UNCHANGED phase

\* loop(): the lease connection does not answer; draining, peers stopped.
Tick(i) ==
  /\ phase[i] = "running" /\ i \notin lock
  /\ phase' = [phase EXCEPT ![i] = "draining"]
  /\ UNCHANGED <<lock, losses>>

\* The process is killed.
Kill(i) ==
  /\ Alive(i) /\ losses < MaxLosses
  /\ lock' = lock \ {i} /\ phase' = [phase EXCEPT ![i] = "down"]
  /\ losses' = losses + 1

\* Close(), on a signal: the workers have ended, the lock is given back.
Close(i) ==
  /\ \/ phase[i] = "draining" /\ UNCHANGED losses
     \/ phase[i] = "running" /\ losses < MaxLosses /\ losses' = losses + 1
  /\ lock' = lock \ {i} /\ phase' = [phase EXCEPT ![i] = "down"]

=============================================================================
