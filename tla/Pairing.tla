------------------------------ MODULE Pairing -------------------------------
(***************************************************************************)
(* How a Node comes to belong to a user and how it authenticates: an       *)
(* anonymous enrolment of a public key, tickets of the users who have seen *)
(* its code, the confirmation one of them wins, one-time challenges, the   *)
(* tokens they are exchanged for, the socket, and revocation. Handlers run *)
(* one at a time under the mutex; deadlines pass at any moment.            *)
(***************************************************************************)
EXTENDS Naturals, Sequences, FiniteSets

CONSTANTS
  Users,
  Enrolments,     \* enrolments that may be made
  Keys,           \* public keys; a machine may enrol its key again
  MaxNodes,       \* bound: Nodes made
  None

ASSUME PairingAssumption ==
  IsFiniteSet(Users) /\ IsFiniteSet(Enrolments) /\ MaxNodes \in Nat /\ None \notin Users \cup Keys

VARIABLES
  enrolment,    \* node_enrollments
  ticket,       \* pairing_tickets, per enrolment and user
  nodes,        \* nodes with node_access, in the order they were made
  challenge,    \* per Node: an unconsumed challenge
  token,        \* per Node: the credential version of its last token, 0 for none
  socket        \* per Node: registered in Server.nodes

pairVars == <<enrolment, ticket, nodes, challenge, token, socket>>

NodeIds == 1..MaxNodes

PairInit ==
  /\ enrolment = [e \in Enrolments |-> [key |-> None, state |-> "none", lapsed |-> FALSE]]
  /\ ticket = [e \in Enrolments |-> [u \in Users |-> "none"]]
  /\ nodes = <<>>
  /\ challenge = [n \in NodeIds |-> FALSE] /\ token = [n \in NodeIds |-> 0]
  /\ socket = [n \in NodeIds |-> FALSE]

Active(n) == n \in DOMAIN nodes /\ ~nodes[n].revoked

-----------------------------------------------------------------------------
\* enroll()
Enrol(e, k) ==
  /\ enrolment[e].state = "none"
  /\ enrolment' = [enrolment EXCEPT ![e].key = k, ![e].state = "pending"]
  /\ UNCHANGED <<ticket, nodes, challenge, token, socket>>

\* Five minutes: the enrolment and its tickets.
LapseEnrolment(e) ==
  /\ enrolment[e].state = "pending" /\ ~enrolment[e].lapsed
  /\ enrolment' = [enrolment EXCEPT ![e].lapsed = TRUE]
  /\ UNCHANGED <<ticket, nodes, challenge, token, socket>>

\* preview(): a ticket for whoever knows the code.
Preview(u, e) ==
  /\ enrolment[e].state = "pending" /\ ~enrolment[e].lapsed /\ ticket[e][u] = "none"
  /\ ticket' = [ticket EXCEPT ![e][u] = "open"]
  /\ UNCHANGED <<enrolment, nodes, challenge, token, socket>>

\* Mutated form: a revoked Node does not occupy its key.
KeyFreeIfRevoked(k) == \A n \in DOMAIN nodes : nodes[n].key = k => nodes[n].revoked

\* No Node has or had the key (the EXISTS of confirmPairing, the UNIQUE of the table).
KeyFree(k) == \A n \in DOMAIN nodes : nodes[n].key # k

MayConfirm(u, e) ==
  /\ ticket[e][u] = "open" /\ ~enrolment[e].lapsed /\ enrolment[e].state = "pending"
  /\ KeyFree(enrolment[e].key)

\* localCommand(): confirmPairing.
ConfirmPairing(u, e) ==
  /\ MayConfirm(u, e) /\ Len(nodes) < MaxNodes
  /\ nodes' = Append(nodes, [key |-> enrolment[e].key, owner |-> u, revoked |-> FALSE, version |-> 1])
  /\ enrolment' = [enrolment EXCEPT ![e].state = "confirmed"]
  /\ ticket' = [ticket EXCEPT ![e][u] = "consumed"]
  /\ UNCHANGED <<challenge, token, socket>>

\* challenge(): several may be open, one stands for them.
Challenge(n) ==
  /\ Active(n) /\ ~challenge[n] /\ challenge' = [challenge EXCEPT ![n] = TRUE]
  /\ UNCHANGED <<enrolment, ticket, nodes, token, socket>>

\* prove(): the challenge is consumed, a token of the present version issued.
Prove(n) ==
  /\ challenge[n] /\ Active(n)
  /\ challenge' = [challenge EXCEPT ![n] = FALSE]
  /\ token' = [token EXCEPT ![n] = nodes[n].version]
  /\ UNCHANGED <<enrolment, ticket, nodes, socket>>

\* A challenge lapses after a minute, a token after ten.
LapseCredentials(n) ==
  /\ challenge[n] \/ token[n] # 0
  /\ \/ challenge' = [challenge EXCEPT ![n] = FALSE] /\ UNCHANGED token
     \/ token' = [token EXCEPT ![n] = 0] /\ UNCHANGED challenge
  /\ UNCHANGED <<enrolment, ticket, nodes, socket>>

\* The Node's WebSocket handshake.
Attach(n) ==
  /\ Active(n) /\ token[n] = nodes[n].version /\ ~socket[n]
  /\ socket' = [socket EXCEPT ![n] = TRUE]
  /\ UNCHANGED <<enrolment, ticket, nodes, challenge, token>>

Detach(n) ==
  /\ socket[n] /\ socket' = [socket EXCEPT ![n] = FALSE]
  /\ UNCHANGED <<enrolment, ticket, nodes, challenge, token>>

\* localCommand(): revokeNode.
RevokeNode(n) ==
  /\ Active(n)
  /\ nodes' = [nodes EXCEPT ![n].revoked = TRUE, ![n].version = @ + 1]
  /\ token' = [token EXCEPT ![n] = 0]
  /\ socket' = [socket EXCEPT ![n] = FALSE]
  /\ UNCHANGED <<enrolment, ticket, challenge>>

PairNext ==
  \/ \E e \in Enrolments : \/ \E k \in Keys : Enrol(e, k)
                           \/ \E u \in Users : Preview(u, e) \/ ConfirmPairing(u, e)
  \/ \E n \in NodeIds : Challenge(n) \/ Prove(n) \/ Attach(n) \/ Detach(n) \/ RevokeNode(n)

\* What happens without a handler.
PairLapse ==
  \/ \E e \in Enrolments : LapseEnrolment(e)
  \/ \E n \in NodeIds : LapseCredentials(n)

-----------------------------------------------------------------------------
\* A key has one Node and one owner for ever: whoever sees the code, and however often
\* the machine enrols, one user wins, and a revoked key is not paired again. The
\* enrolments that were confirmed account for the Nodes one by one.
OneIncarnation ==
  /\ \A m, n \in DOMAIN nodes : nodes[m].key = nodes[n].key => m = n
  /\ Cardinality({e \in Enrolments : enrolment[e].state = "confirmed"}) = Len(nodes)
  /\ \A n \in DOMAIN nodes : \E e \in Enrolments :
       enrolment[e].key = nodes[n].key /\ ticket[e][nodes[n].owner] = "consumed"
=============================================================================
