----------------------------- MODULE Inventory ------------------------------
(***************************************************************************)
(* The directory of agents a Node reports in frames of one inventoryId:    *)
(* inventory() collects them on the peer and, at the frame marked          *)
(* complete, replaces the Gateway's table in one transaction; nodeReady()  *)
(* makes the Node ready when nothing is left to synchronise. Projects go   *)
(* the same way and are left out, so is the order of items in a frame.     *)
(***************************************************************************)
EXTENDS Naturals, FiniteSets, Sequences, SequencesExt

CONSTANTS
  Agents,
  FrameItems,     \* items per frame (100)
  Quota,          \* items per inventory (1000)
  MaxRevision,    \* bound: capability revision of an agent
  MaxInventories  \* bound: inventories the Node sends

VARIABLES
  directory,    \* the Node's agents with their capability revision, 0 for none
  report,       \* the inventory being sent: its number, all of it and what is left
  wire,         \* frames on their way
  peer,         \* inventoryId, the items collected, inventoryComplete, ready
  agents,       \* the Gateway's table: revision (0: unknown) and availability
  announced,    \* the change of the Node's readiness was committed
  sent          \* inventories sent so far

vars == <<directory, report, wire, peer, agents, announced, sent>>

NoReport == [id |-> 0, whole |-> {}, left |-> {}, open |-> FALSE]
NewPeer  == [id |-> 0, items |-> {}, complete |-> FALSE, ready |-> FALSE]

Init ==
  /\ directory \in [Agents -> 0..1]
  /\ report = NoReport /\ wire = <<>> /\ peer = NewPeer
  /\ agents = [a \in Agents |-> [revision |-> 0, available |-> FALSE]]
  /\ announced = FALSE /\ sent = 0

-----------------------------------------------------------------------------
(* The Node (external). *)

\* An agent is installed, removed or changes its capabilities.
ChangeDirectory(a) ==
  /\ ~report.open /\ \E r \in {0, directory[a] + 1} : r <= MaxRevision /\ r # directory[a]
       /\ directory' = [directory EXCEPT ![a] = r]
  /\ UNCHANGED <<report, wire, peer, agents, announced, sent>>

BeginInventory ==
  /\ ~report.open /\ sent < MaxInventories /\ sent' = sent + 1
  /\ LET listed == {a \in Agents : directory[a] # 0} IN
     report' = [id |-> sent', whole |-> listed, left |-> listed, open |-> TRUE]
  /\ UNCHANGED <<directory, wire, peer, agents, announced>>

\* A frame; `whole` is what the inventory lists in all its frames, for the property only.
SendFrame ==
  /\ report.open
  /\ \E part \in SUBSET report.left :
       /\ Cardinality(part) <= FrameItems
       /\ part # {} \/ report.left = {}
       /\ wire' = Append(wire, [
             id |-> report.id, whole |-> report.whole, complete |-> part = report.left,
             items |-> {[agent |-> a, revision |-> directory[a]] : a \in part}])
       /\ report' = [report EXCEPT !.left = @ \ part, !.open = part # report.left]
  /\ UNCHANGED <<directory, peer, agents, announced, sent>>

\* A new connection starts with a new peer; what was under way is lost.
Reconnect ==
  /\ wire' = <<>> /\ peer' = NewPeer /\ report' = NoReport /\ announced' = FALSE
  /\ report.open \/ wire # <<>>
  /\ UNCHANGED <<directory, agents, sent>>

-----------------------------------------------------------------------------
(* inventory() *)

\* What the peer has after the frame's items were added.
Collected(f) == [peer EXCEPT !.id = f.id,
                             !.items = (IF peer.id = f.id THEN @ ELSE {}) \cup f.items]

\* A capability revision may not go back.
Acceptable(items) == \A x \in items : x.revision >= agents[x.agent].revision

Applied(items) ==
  [a \in Agents |->
     IF \E x \in items : x.agent = a
     THEN [revision |-> (CHOOSE x \in items : x.agent = a).revision, available |-> TRUE]
     ELSE [agents[a] EXCEPT !.available = FALSE]]

\* inventory(): over the quota the items are dropped and the frame refused; before the
\* last frame they are kept; with the last one they are applied or refused as a whole,
\* and nodeReady() follows.
Receive ==
  LET f == Head(wire)
      p == Collected(f) IN
  /\ wire # <<>> /\ wire' = Tail(wire)
  /\ \/ /\ Cardinality(p.items) > Quota
        /\ peer' = [p EXCEPT !.items = {}]
        /\ UNCHANGED <<agents, announced>>
     \/ /\ Cardinality(p.items) <= Quota /\ ~f.complete
        /\ peer' = p /\ UNCHANGED <<agents, announced>>
     \/ /\ Cardinality(p.items) <= Quota /\ f.complete /\ ~Acceptable(p.items)
        /\ peer' = [p EXCEPT !.id = 0, !.items = {}]
        /\ UNCHANGED <<agents, announced>>
     \/ /\ Cardinality(p.items) <= Quota /\ f.complete /\ Acceptable(p.items)
        /\ agents' = Applied(p.items)
        /\ peer' = [p EXCEPT !.id = 0, !.items = {}, !.complete = TRUE, !.ready = TRUE]
        /\ announced' \in {TRUE, announced}      \* the transaction of nodeReady() may fail
  /\ UNCHANGED <<directory, report, sent>>

Next == \/ \E a \in Agents : ChangeDirectory(a)
        \/ BeginInventory \/ SendFrame \/ Reconnect \/ Receive

Spec == Init /\ [][Next]_vars

-----------------------------------------------------------------------------
\* backend-design.md 185: a complete inventory makes unavailable the agents that do not
\* appear in it, and a single frame never removes the rest of the directory. inventory()
\* breaks this for an inventory over the quota: line 45 drops what was collected and
\* keeps the inventoryId, so the frames that follow are taken for the whole of it.
AbsentWasNotReported ==
  [][\A a \in Agents :
       agents[a].available /\ ~agents'[a].available => a \notin Head(wire).whole]_vars
=============================================================================
