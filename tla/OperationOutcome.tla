-------------------------- MODULE OperationOutcome --------------------------
(***************************************************************************)
(* What the remote-command path promises about every operation: its        *)
(* recorded outcome tells the truth about the native call on the device.   *)
(* A native call happens at most once and only while the operation is      *)
(* open; "confirmed" is recorded only after it, "failed" only when it did  *)
(* not happen, and neither is ever revised.                                *)
(*                                                                         *)
(* CommandDelivery is shown to implement this specification.               *)
(***************************************************************************)
CONSTANT Ops          \* the operations (Idempotency-Key values of one user)

VARIABLES outcome,    \* outcome[o]: what the operations table says
          executed    \* executed[o]: whether the native call was made

vars == <<outcome, executed>>

Init == /\ outcome = [o \in Ops |-> "none"]
        /\ executed = [o \in Ops |-> FALSE]

\* One operation goes from (out, ran) to (out2, ran2).
Submit(out, ran, out2, ran2) == out = "none" /\ out2 = "open" /\ ran2 = ran

Execute(out, ran, out2, ran2) == out = "open" /\ ~ran /\ ran2 /\ out2 = out

Confirm(out, ran, out2, ran2) == out = "open" /\ ran /\ out2 = "confirmed" /\ ran2 = ran

Fail(out, ran, out2, ran2) == out = "open" /\ ~ran /\ out2 = "failed" /\ ran2 = ran

Stay(out, ran, out2, ran2) == out2 = out /\ ran2 = ran

OpStep(out, ran, out2, ran2) ==
  \/ Submit(out, ran, out2, ran2)
  \/ Execute(out, ran, out2, ran2)
  \/ Confirm(out, ran, out2, ran2)
  \/ Fail(out, ran, out2, ran2)
  \/ Stay(out, ran, out2, ran2)

\* A restart or a revocation settles several operations in one step, so a
\* step of the system is a step of each operation.
Next == /\ outcome' \in [Ops -> {"none", "open", "confirmed", "failed"}]
        /\ executed' \in [Ops -> BOOLEAN]
        /\ \A o \in Ops : OpStep(outcome[o], executed[o], outcome'[o], executed'[o])

Spec == Init /\ [][Next]_vars
=============================================================================
