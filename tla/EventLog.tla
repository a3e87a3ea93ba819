------------------------------ MODULE EventLog ------------------------------
(***************************************************************************)
(* What event ingestion promises for every session: the Gateway's log is   *)
(* the Node's sequence of source events, each one exactly once and in the  *)
(* order of emission, however often the spool is replayed.                 *)
(*                                                                         *)
(* SourceIngest is shown to implement this specification.                  *)
(***************************************************************************)
EXTENDS Naturals, Sequences

CONSTANT Sessions

VARIABLES emitted,   \* emitted[s]: the source events of s, oldest first
          log        \* log[s]: those the Gateway has committed

vars == <<emitted, log>>

Init == /\ emitted = [s \in Sessions |-> <<>>]
        /\ log = [s \in Sessions |-> <<>>]

\* The Node makes an event nobody has seen before.
Emit(s) ==
  /\ emitted' \in [Sessions -> Seq(Nat)]
  /\ Len(emitted'[s]) = Len(emitted[s]) + 1
  /\ emitted' = [emitted EXCEPT ![s] = Append(@, emitted'[s][Len(@) + 1])]
  /\ \A t \in Sessions : \A i \in DOMAIN emitted[t] :
       emitted[t][i] # emitted'[s][Len(emitted[s]) + 1]
  /\ UNCHANGED log

\* The Gateway commits the next one.
Commit(s) ==
  /\ Len(log[s]) < Len(emitted[s])
  /\ log' = [log EXCEPT ![s] = Append(@, emitted[s][Len(@) + 1])]
  /\ UNCHANGED emitted

Next == \E s \in Sessions : Emit(s) \/ Commit(s)

Spec == Init /\ [][Next]_vars
=============================================================================
