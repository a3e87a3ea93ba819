---------------------------- MODULE SharesProofs -----------------------------
(***************************************************************************)
(* The inductive invariant of Shares, with the pairing under it, and what  *)
(* follows from it, for any number of users, keys, Nodes and shares.       *)
(***************************************************************************)
EXTENDS Shares, FiniteSetTheorems, SequenceTheorems, TLAPS

Enrolment == [key : Keys \cup {None}, state : {"none", "pending", "confirmed"}, lapsed : BOOLEAN]
Node      == [key : Keys, owner : Users, revoked : BOOLEAN, version : Nat]
Share     == [node : NodeIds \cup {0}, permission : {"none", "read", "control"},
              recipient : Users \cup {None}, sealed : BOOLEAN, revoked : BOOLEAN, lapsed : BOOLEAN]
Calls     == [share : ShareIds, actor : Users, clientOp : ClientOps]

TypeOK ==
  /\ enrolment \in [Enrolments -> Enrolment]
  /\ ticket \in [Enrolments -> [Users -> {"none", "open", "consumed"}]]
  /\ nodes \in Seq(Node) /\ Len(nodes) <= MaxNodes
  /\ challenge \in [NodeIds -> BOOLEAN] /\ token \in [NodeIds -> Nat] /\ socket \in [NodeIds -> BOOLEAN]
  /\ history \in [NodeIds -> BOOLEAN]
  /\ share \in [ShareIds -> Share]
  /\ admitted \subseteq Calls
  /\ call \in Calls \cup {None}

Confirmed == {e \in Enrolments : enrolment[e].state = "confirmed"}

\* Every Node comes from a confirmed enrolment of its key, and from one only.
Paired ==
  /\ \A e \in Enrolments : enrolment[e].state # "none" => enrolment[e].key \in Keys
  /\ \A m, n \in DOMAIN nodes : nodes[m].key = nodes[n].key => m = n
  /\ Cardinality(Confirmed) = Len(nodes)
  /\ \A n \in DOMAIN nodes : \E e \in Confirmed :
       enrolment[e].key = nodes[n].key /\ ticket[e][nodes[n].owner] = "consumed"

\* A share is of a Node that exists and was not redeemed by its owner; one that is not
\* made is blank.
SharesOfNodes ==
  \A g \in ShareIds :
    IF Made(g) THEN share[g].node \in DOMAIN nodes /\ share[g].recipient # Owner(g)
    ELSE share[g] = NoShare

\* What was admitted in the name of a share is its recipient's.
AdmittedOfRecipient ==
  \A a \in admitted : Made(a.share) /\ share[a.share].recipient = a.actor

IInv == TypeOK /\ Paired /\ SharesOfNodes /\ AdmittedOfRecipient

-----------------------------------------------------------------------------
(* Facts about the Nodes. *)

\* Nodes are numbered from 1 within the bound.
LEMMA NodesNumbered ==
  ASSUME TypeOK
  PROVE  /\ DOMAIN nodes = 1..Len(nodes) /\ DOMAIN nodes \subseteq NodeIds
         /\ Len(nodes) \in Nat /\ 0 \notin DOMAIN nodes
         /\ \A n \in DOMAIN nodes : nodes[n] \in Node
  BY PairingAssumption DEF TypeOK, NodeIds

\* Pairing is as it was if the Nodes are, and the enrolments keep keys and confirmations.
LEMMA PairedFrame ==
  ASSUME Paired, UNCHANGED <<nodes, ticket>>, Confirmed' = Confirmed,
         \A x \in Confirmed : enrolment'[x].key = enrolment[x].key,
         \A x \in Enrolments : enrolment'[x].state # "none" => enrolment'[x].key \in Keys
  PROVE  Paired'
  <1>1. \A n \in DOMAIN nodes : \E x \in Confirmed :
          enrolment'[x].key = nodes[n].key /\ ticket[x][nodes[n].owner] = "consumed"
    BY DEF Paired
  <1> QED BY <1>1 DEF Paired

\* One share changes and is of a Node that exists.
LEMMA SharesFrame ==
  ASSUME SharesOfNodes, UNCHANGED nodes, NEW g \in ShareIds,
         \A x \in ShareIds \ {g} : share'[x] = share[x],
         Made(g)', share'[g].node \in DOMAIN nodes, share'[g].recipient # nodes[share'[g].node].owner
  PROVE  SharesOfNodes'
  <1>1. ASSUME NEW x \in ShareIds, Made(x)'
        PROVE  share'[x].node \in DOMAIN nodes /\ share'[x].recipient # nodes[share'[x].node].owner
    BY <1>1 DEF SharesOfNodes, Made, Owner
  <1>2. ASSUME NEW x \in ShareIds, ~Made(x)' PROVE share'[x] = NoShare
    BY <1>2 DEF SharesOfNodes, Made
  <1> QED BY <1>1, <1>2 DEF SharesOfNodes, Owner

-----------------------------------------------------------------------------
(* Each step preserves the invariant. *)

\* A machine enrols a key.
LEMMA EnrolKeeps ==
  ASSUME IInv, NEW e \in Enrolments, NEW k \in Keys, Enrol(e, k), UNCHANGED shareVars
  PROVE  IInv'
  <1> USE PairingAssumption DEF IInv, Enrol, pairVars, shareVars
  <1>1. TypeOK'
    <2> DEFINE new == [enrolment[e] EXCEPT !.key = k, !.state = "pending"]
    <2>1. new \in Enrolment
      BY DEF TypeOK, Enrolment
    <2>2. enrolment' = [enrolment EXCEPT ![e] = new]
      OBVIOUS
    <2> HIDE DEF new
    <2> QED BY <2>1, <2>2 DEF TypeOK
  <1>2. Paired'
    <2>1. Confirmed' = Confirmed
      BY DEF TypeOK, Confirmed
    <2>2. \A x \in Enrolments : x # e => enrolment'[x] = enrolment[x]
      BY DEF TypeOK
    <2>3. enrolment'[e].key \in Keys /\ e \notin Confirmed
      BY DEF TypeOK, Enrolment
    <2>4. \A x \in Confirmed : enrolment'[x] = enrolment[x]
      BY <2>2, <2>3 DEF Confirmed
    <2>5. \A x \in Enrolments : enrolment'[x].state # "none" => enrolment'[x].key \in Keys
      BY <2>2, <2>3 DEF Paired
    <2> QED BY <2>1, <2>4, <2>5, PairedFrame
  <1>3. SharesOfNodes'
    BY DEF TypeOK, Enrolment, Node, Share, Calls, NodeIds, SharesOfNodes, Made, Owner, NoShare
  <1>4. AdmittedOfRecipient'
    BY DEF AdmittedOfRecipient, Made
  <1> QED BY <1>1, <1>2, <1>3, <1>4

\* The five minutes are over.
LEMMA LapseEnrolmentKeeps ==
  ASSUME IInv, NEW e \in Enrolments, LapseEnrolment(e), UNCHANGED shareVars
  PROVE  IInv'
  <1> USE PairingAssumption DEF IInv, LapseEnrolment, pairVars, shareVars
  <1>1. TypeOK'
    <2>1. [enrolment[e] EXCEPT !.lapsed = TRUE] \in Enrolment
      BY DEF TypeOK, Enrolment
    <2> QED BY <2>1 DEF TypeOK
  <1>2. Paired'
    <2>1. Confirmed' = Confirmed
      BY DEF Confirmed
    <2>2. \A x \in Enrolments : enrolment'[x].state = enrolment[x].state /\ enrolment'[x].key = enrolment[x].key
      OBVIOUS
    <2>3. \A x \in Enrolments : enrolment'[x].state # "none" => enrolment'[x].key \in Keys
      BY <2>2 DEF Paired
    <2>4. \A x \in Confirmed : enrolment'[x].key = enrolment[x].key
      BY <2>2
    <2> QED BY <2>1, <2>3, <2>4, PairedFrame
  <1>3. SharesOfNodes'
    BY DEF TypeOK, Enrolment, Node, Share, Calls, NodeIds, SharesOfNodes, Made, Owner, NoShare
  <1>4. AdmittedOfRecipient'
    BY DEF AdmittedOfRecipient, Made
  <1> QED BY <1>1, <1>2, <1>3, <1>4

\* A user who knows the code gets a ticket.
LEMMA PreviewKeeps ==
  ASSUME IInv, NEW u \in Users, NEW e \in Enrolments, Preview(u, e), UNCHANGED shareVars
  PROVE  IInv'
  <1> USE PairingAssumption DEF IInv, Preview, pairVars, shareVars
  <1>1. TypeOK'
    BY DEF TypeOK, Enrolment, Node, Share, Calls, NodeIds, Paired, SharesOfNodes, Made
  <1>2. Paired'
    BY DEF Paired, Confirmed
  <1>3. SharesOfNodes'
    BY DEF SharesOfNodes, Made, Owner
  <1>4. AdmittedOfRecipient'
    BY DEF AdmittedOfRecipient, Made
  <1> QED BY <1>1, <1>2, <1>3, <1>4

\* A free key gets its Node; the enrolment leaves pending.
LEMMA ConfirmPairingKeeps ==
  ASSUME IInv, NEW u \in Users, NEW e \in Enrolments, ConfirmPairing(u, e), UNCHANGED shareVars
  PROVE  IInv'
  <1> USE PairingAssumption DEF IInv, ConfirmPairing, MayConfirm, KeyFree, pairVars, shareVars
  <1>1. TypeOK'
    <2> DEFINE node == [key |-> enrolment[e].key, owner |-> u, revoked |-> FALSE, version |-> 1]
    <2>1. node \in Node
      BY DEF Paired, Node
    <2>2. nodes' \in Seq(Node) /\ Len(nodes') = Len(nodes) + 1
      BY <2>1 DEF TypeOK
    <2>3. enrolment' \in [Enrolments -> Enrolment]
      BY DEF TypeOK, Enrolment
    <2> QED BY <2>2, <2>3 DEF TypeOK
  <1>2. Paired'
    <2>1. Confirmed' = Confirmed \cup {e} /\ e \notin Confirmed
      BY DEF TypeOK, Confirmed
    <2>2. Cardinality(Confirmed') = Cardinality(Confirmed) + 1
      <3>1. IsFiniteSet(Confirmed)
        BY FS_Subset DEF Confirmed
      <3> QED BY <2>1, <3>1, FS_AddElement
    <2>3. /\ Len(nodes') = Len(nodes) + 1 /\ DOMAIN nodes' = 1..Len(nodes) + 1
          /\ \A n \in DOMAIN nodes : nodes'[n] = nodes[n]
          /\ nodes'[Len(nodes) + 1] = [key |-> enrolment[e].key, owner |-> u, revoked |-> FALSE, version |-> 1]
      BY DEF TypeOK
    <2>4. \A x \in Enrolments : enrolment'[x].key = enrolment[x].key /\ (x # e => enrolment'[x] = enrolment[x])
      OBVIOUS
    <2>5. \A x \in Confirmed, v \in Users : ticket[x][v] = "consumed" => ticket'[x][v] = "consumed"
      OBVIOUS
    <2>6. ticket'[e][u] = "consumed"
      BY DEF TypeOK
    <2>7. \A m, n \in DOMAIN nodes' : nodes'[m].key = nodes'[n].key => m = n
      BY <2>3 DEF Paired
    <2>8. ASSUME NEW n \in DOMAIN nodes'
          PROVE  \E x \in Confirmed' : /\ enrolment'[x].key = nodes'[n].key
                                       /\ ticket'[x][nodes'[n].owner] = "consumed"
      <3>1. CASE n \in DOMAIN nodes
        <4>1. nodes[n].owner \in Users /\ nodes'[n] = nodes[n]
          BY <3>1, <2>3, NodesNumbered DEF Node
        <4>2. PICK x \in Confirmed : enrolment[x].key = nodes[n].key /\ ticket[x][nodes[n].owner] = "consumed"
          BY <3>1 DEF Paired
        <4>3. x \in Confirmed' /\ enrolment'[x].key = enrolment[x].key
          BY <2>1, <2>4
        <4>4. ticket'[x][nodes[n].owner] = "consumed"
          BY <4>1, <4>2, <2>5
        <4> QED BY <4>1, <4>2, <4>3, <4>4
      <3>2. CASE n = Len(nodes) + 1
        BY <3>2, <2>1, <2>3, <2>4, <2>6
      <3> QED BY <3>1, <3>2, <2>3
    <2>9. \A x \in Enrolments : enrolment'[x].state # "none" => enrolment'[x].key \in Keys
      BY <2>4 DEF Paired
    <2> QED BY <2>2, <2>3, <2>7, <2>8, <2>9 DEF Paired
  <1>3. SharesOfNodes'
    BY DEF TypeOK, SharesOfNodes, Made, Owner
  <1>4. AdmittedOfRecipient'
    BY DEF AdmittedOfRecipient, Made
  <1> QED BY <1>1, <1>2, <1>3, <1>4

\* A challenge is opened.
LEMMA ChallengeKeeps ==
  ASSUME IInv, NEW n \in NodeIds, Challenge(n), UNCHANGED shareVars
  PROVE  IInv'
  <1> USE PairingAssumption DEF IInv, Challenge, Active, pairVars, shareVars
  <1>1. TypeOK'
    BY DEF TypeOK, Enrolment, Node, Share, Calls, NodeIds, Paired, SharesOfNodes, Made
  <1>2. Paired'
    BY DEF Paired, Confirmed
  <1>3. SharesOfNodes'
    BY DEF SharesOfNodes, Made, Owner
  <1>4. AdmittedOfRecipient'
    BY DEF AdmittedOfRecipient, Made
  <1> QED BY <1>1, <1>2, <1>3, <1>4

\* A token is issued.
LEMMA ProveKeeps ==
  ASSUME IInv, NEW n \in NodeIds, Prove(n), UNCHANGED shareVars
  PROVE  IInv'
  <1> USE PairingAssumption DEF IInv, Prove, Active, pairVars, shareVars
  <1>1. TypeOK'
    <2>1. nodes[n].version \in Nat
      BY NodesNumbered DEF Node
    <2> QED BY <2>1 DEF TypeOK
  <1>2. Paired'
    BY DEF Paired, Confirmed
  <1>3. SharesOfNodes'
    BY DEF SharesOfNodes, Made, Owner
  <1>4. AdmittedOfRecipient'
    BY DEF AdmittedOfRecipient, Made
  <1> QED BY <1>1, <1>2, <1>3, <1>4

\* Challenge or token lapses.
LEMMA LapseCredentialsKeeps ==
  ASSUME IInv, NEW n \in NodeIds, LapseCredentials(n), UNCHANGED shareVars
  PROVE  IInv'
  <1> USE PairingAssumption DEF IInv, LapseCredentials, pairVars, shareVars
  <1>1. TypeOK'
    <2>1. CASE challenge' = [challenge EXCEPT ![n] = FALSE] /\ UNCHANGED token
      BY <2>1 DEF TypeOK
    <2>2. CASE token' = [token EXCEPT ![n] = 0] /\ UNCHANGED challenge
      BY <2>2 DEF TypeOK
    <2> QED BY <2>1, <2>2
  <1>2. Paired'
    BY DEF TypeOK, Enrolment, Node, Share, Calls, NodeIds, Paired, Confirmed
  <1>3. SharesOfNodes'
    BY DEF SharesOfNodes, Made, Owner
  <1>4. AdmittedOfRecipient'
    BY DEF AdmittedOfRecipient, Made
  <1> QED BY <1>1, <1>2, <1>3, <1>4

\* The socket opens.
LEMMA AttachKeeps ==
  ASSUME IInv, NEW n \in NodeIds, Attach(n), UNCHANGED shareVars
  PROVE  IInv'
  <1> USE PairingAssumption DEF IInv, Attach, Active, pairVars, shareVars
  <1>1. TypeOK'
    BY DEF TypeOK, Enrolment, Node, Share, Calls, NodeIds, Paired, SharesOfNodes, Made
  <1>2. Paired'
    BY DEF Paired, Confirmed
  <1>3. SharesOfNodes'
    BY DEF SharesOfNodes, Made, Owner
  <1>4. AdmittedOfRecipient'
    BY DEF AdmittedOfRecipient, Made
  <1> QED BY <1>1, <1>2, <1>3, <1>4

\* The socket closes.
LEMMA DetachKeeps ==
  ASSUME IInv, NEW n \in NodeIds, Detach(n), UNCHANGED shareVars
  PROVE  IInv'
  <1> USE PairingAssumption DEF IInv, Detach, pairVars, shareVars
  <1>1. TypeOK'
    BY DEF TypeOK, Enrolment, Node, Share, Calls, NodeIds, Paired, SharesOfNodes, Made
  <1>2. Paired'
    BY DEF Paired, Confirmed
  <1>3. SharesOfNodes'
    BY DEF SharesOfNodes, Made, Owner
  <1>4. AdmittedOfRecipient'
    BY DEF AdmittedOfRecipient, Made
  <1> QED BY <1>1, <1>2, <1>3, <1>4

\* The Node keeps its key and owner.
LEMMA RevokeNodeKeeps ==
  ASSUME IInv, NEW n \in NodeIds, RevokeNode(n), UNCHANGED shareVars
  PROVE  IInv'
  <1> USE PairingAssumption DEF IInv, RevokeNode, Active, pairVars, shareVars
  <1>1. TypeOK'
    <2> DEFINE new == [key |-> nodes[n].key, owner |-> nodes[n].owner, revoked |-> TRUE,
                       version |-> nodes[n].version + 1]
    <2>1. nodes[n] \in Node /\ n \in 1..Len(nodes) /\ nodes \in [1..Len(nodes) -> Node]
      BY NodesNumbered, LenProperties DEF TypeOK
    <2>2. new \in Node /\ nodes' = [nodes EXCEPT ![n] = new]
      <3>1. new \in Node
        <4>1. nodes[n].key \in Keys /\ nodes[n].owner \in Users /\ nodes[n].version + 1 \in Nat
          BY <2>1 DEF Node
        <4> QED BY <4>1 DEF Node
      <3>2. /\ DOMAIN nodes' = DOMAIN nodes /\ nodes' = [m \in DOMAIN nodes |-> nodes'[m]]
            /\ \A m \in DOMAIN nodes : nodes'[m] = IF m = n THEN new ELSE nodes[m]
        <4>1. DOMAIN nodes = 1..Len(nodes) /\ DOMAIN nodes' = DOMAIN nodes
          BY <2>1
        <4>2. ASSUME NEW m \in DOMAIN nodes PROVE nodes'[m] = IF m = n THEN new ELSE nodes[m]
          <5>1. nodes[m] \in Node
            BY <2>1, <4>1
          <5>2. CASE m = n
            BY <2>1, <4>1, <5>1, <5>2 DEF Node
          <5>3. CASE m # n
            BY <4>1, <5>3
          <5> QED BY <5>2, <5>3
        <4>3. nodes' = [m \in DOMAIN nodes |-> nodes'[m]]
          BY <4>1
        <4> QED BY <4>1, <4>2, <4>3
      <3> QED BY <3>1, <3>2
    <2> HIDE DEF new
    <2>3. [nodes EXCEPT ![n] = new] \in Seq(Node) /\ Len([nodes EXCEPT ![n] = new]) = Len(nodes)
      BY <2>1, <2>2, ExceptSeq DEF TypeOK
    <2> QED BY <2>2, <2>3 DEF TypeOK
  <1>2. Paired'
    <2>1. /\ DOMAIN nodes' = DOMAIN nodes /\ Len(nodes') = Len(nodes)
          /\ \A m \in DOMAIN nodes : nodes'[m].key = nodes[m].key /\ nodes'[m].owner = nodes[m].owner
      BY <1>1, LenProperties
    <2>2. Confirmed' = Confirmed
      BY DEF Confirmed
    <2> QED BY <2>1, <2>2 DEF Paired
  <1>3. SharesOfNodes'
    BY DEF TypeOK, SharesOfNodes, Made, Owner
  <1>4. AdmittedOfRecipient'
    BY DEF AdmittedOfRecipient, Made
  <1> QED BY <1>1, <1>2, <1>3, <1>4

\* The share is of an active Node.
LEMMA CreateShareKeeps ==
  ASSUME IInv, NEW g \in ShareIds, NEW n \in NodeIds, NEW p \in {"read", "control"}, CreateShare(g, n, p)
  PROVE  IInv'
  <1> USE PairingAssumption DEF IInv, CreateShare, Active, NoShare, pairVars, shareVars
  <1>1. TypeOK'
    <2> DEFINE new == [NoShare EXCEPT !.node = n, !.permission = p, !.sealed = TRUE]
    <2>1. new \in Share
      BY DEF Share, NoShare
    <2>2. share' = [share EXCEPT ![g] = new]
      OBVIOUS
    <2> HIDE DEF new
    <2> QED BY <2>1, <2>2 DEF TypeOK
  <1>2. Paired'
    BY DEF Paired, Confirmed
  <1>3. SharesOfNodes'
    <2>1. \A x \in ShareIds \ {g} : share'[x] = share[x]
      OBVIOUS
    <2>2. Made(g)' /\ share'[g].node \in DOMAIN nodes /\ share'[g].recipient # nodes[share'[g].node].owner
      BY PairingAssumption, NodesNumbered DEF TypeOK, Node, Made
    <2> QED BY <2>1, <2>2, SharesFrame
  <1>4. AdmittedOfRecipient'
    BY DEF TypeOK, Enrolment, Node, Share, Calls, NodeIds, SharesOfNodes, AdmittedOfRecipient, Made,
       Owner, NoShare
  <1> QED BY <1>1, <1>2, <1>3, <1>4

\* The first recipient, or the same again.
LEMMA RedeemKeeps ==
  ASSUME IInv, NEW u \in Users, NEW g \in ShareIds, Redeem(u, g)
  PROVE  IInv'
  <1> USE PairingAssumption DEF IInv, Redeem, Live, Active, pairVars, shareVars
  <1>1. TypeOK'
    <2> DEFINE new == [share[g] EXCEPT !.recipient = u, !.sealed = FALSE]
    <2>1. share[g] \in Share /\ share \in [ShareIds -> Share]
      BY DEF TypeOK
    <2>2. new \in Share
      BY <2>1 DEF Share
    <2>3. share' = [share EXCEPT ![g] = new]
      BY <2>1
    <2> HIDE DEF new
    <2>4. share' \in [ShareIds -> Share]
      BY <2>1, <2>2, <2>3
    <2> QED BY <2>4 DEF TypeOK
  <1>2. Paired'
    BY DEF Paired, Confirmed
  <1>3. SharesOfNodes'
    <2>1. \A x \in ShareIds \ {g} : share'[x] = share[x]
      BY DEF TypeOK
    <2>2. Made(g)' /\ share'[g].node \in DOMAIN nodes /\ share'[g].recipient # nodes[share'[g].node].owner
      BY PairingAssumption, NodesNumbered DEF TypeOK, Made, Owner
    <2> QED BY <2>1, <2>2, SharesFrame
  <1>4. AdmittedOfRecipient'
    BY DEF TypeOK, Enrolment, Node, Share, Calls, NodeIds, SharesOfNodes, AdmittedOfRecipient, Made,
       Owner, NoShare
  <1> QED BY <1>1, <1>2, <1>3, <1>4

\* The owner ends it.
LEMMA RevokeShareKeeps ==
  ASSUME IInv, NEW g \in ShareIds, RevokeShare(g)
  PROVE  IInv'
  <1> USE PairingAssumption DEF IInv, RevokeShare, pairVars, shareVars
  <1>1. TypeOK'
    <2> DEFINE new == [share[g] EXCEPT !.revoked = TRUE, !.sealed = FALSE]
    <2>1. new \in Share /\ share' = [share EXCEPT ![g] = new]
      BY DEF TypeOK, Share, NoShare
    <2> HIDE DEF new
    <2> QED BY <2>1 DEF TypeOK
  <1>2. Paired'
    BY DEF Paired, Confirmed
  <1>3. SharesOfNodes'
    <2>1. \A x \in ShareIds \ {g} : share'[x] = share[x]
      BY DEF TypeOK
    <2>2. Made(g)' /\ share'[g].node \in DOMAIN nodes /\ share'[g].recipient # nodes[share'[g].node].owner
      BY PairingAssumption, NodesNumbered DEF TypeOK, SharesOfNodes, Made, Owner
    <2> QED BY <2>1, <2>2, SharesFrame
  <1>4. AdmittedOfRecipient'
    BY DEF TypeOK, Enrolment, Node, Share, Calls, NodeIds, SharesOfNodes, AdmittedOfRecipient, Made,
       Owner, NoShare
  <1> QED BY <1>1, <1>2, <1>3, <1>4

\* Its deadline ends it.
LEMMA LapseShareKeeps ==
  ASSUME IInv, NEW g \in ShareIds, LapseShare(g)
  PROVE  IInv'
  <1> USE PairingAssumption DEF IInv, LapseShare, pairVars, shareVars
  <1>1. TypeOK'
    <2> DEFINE new == [share[g] EXCEPT !.lapsed = TRUE]
    <2>1. new \in Share /\ share' = [share EXCEPT ![g] = new]
      BY DEF TypeOK, Share, NoShare
    <2> HIDE DEF new
    <2> QED BY <2>1 DEF TypeOK
  <1>2. Paired'
    BY DEF Paired, Confirmed
  <1>3. SharesOfNodes'
    <2>1. \A x \in ShareIds \ {g} : share'[x] = share[x]
      OBVIOUS
    <2>2. Made(g)' /\ share'[g].node \in DOMAIN nodes /\ share'[g].recipient # nodes[share'[g].node].owner
      BY PairingAssumption, NodesNumbered DEF SharesOfNodes, Made, Owner
    <2> QED BY <2>1, <2>2, SharesFrame
  <1>4. AdmittedOfRecipient'
    BY DEF TypeOK, Enrolment, Node, Share, Calls, NodeIds, SharesOfNodes, AdmittedOfRecipient, Made,
       Owner, NoShare
  <1> QED BY <1>1, <1>2, <1>3, <1>4

\* The content goes.
LEMMA PurgeHistoryKeeps ==
  ASSUME IInv, NEW n \in NodeIds, PurgeHistory(n)
  PROVE  IInv'
  <1> USE PairingAssumption DEF IInv, PurgeHistory, pairVars, shareVars
  <1>1. TypeOK'
    BY DEF TypeOK, Enrolment, Node, Share, Calls, NodeIds, Paired, SharesOfNodes, Made
  <1>2. Paired'
    BY DEF Paired, Confirmed
  <1>3. SharesOfNodes'
    BY DEF SharesOfNodes, Made, Owner
  <1>4. AdmittedOfRecipient'
    BY DEF AdmittedOfRecipient, Made
  <1> QED BY <1>1, <1>2, <1>3, <1>4

\* A command is authorised.
LEMMA SharedCommandKeeps ==
  ASSUME IInv, NEW u \in Users, NEW g \in ShareIds, NEW c \in ClientOps, SharedCommand(u, g, c)
  PROVE  IInv'
  <1> USE PairingAssumption DEF IInv, SharedCommand, Authorised, Live, Active, pairVars, shareVars
  <1>1. TypeOK'
    BY DEF TypeOK, Enrolment, Node, Share, Calls, NodeIds, Paired, SharesOfNodes, Made
  <1>2. Paired'
    BY DEF Paired, Confirmed
  <1>3. SharesOfNodes'
    BY DEF SharesOfNodes, Made, Owner
  <1>4. AdmittedOfRecipient'
    BY DEF AdmittedOfRecipient, Made
  <1> QED BY <1>1, <1>2, <1>3, <1>4

\* The command is admitted if it is still authorised.
LEMMA AdmissionKeeps ==
  ASSUME IInv, Admission
  PROVE  IInv'
  <1> USE PairingAssumption DEF IInv, Admission, StillAuthorised, pairVars, shareVars
  <1>1. TypeOK'
    BY DEF TypeOK, Enrolment, Node, Share, Calls, NodeIds, Paired, SharesOfNodes, Made
  <1>2. Paired'
    BY DEF Paired, Confirmed
  <1>3. SharesOfNodes'
    BY DEF SharesOfNodes, Made, Owner
  <1>4. AdmittedOfRecipient'
    BY DEF TypeOK, Calls, SharesOfNodes, AdmittedOfRecipient, Made, NoShare
  <1> QED BY <1>1, <1>2, <1>3, <1>4

\* The invariant holds initially and is kept by every step.
THEOREM Invariant == Spec => []IInv
  <1>1. Init => IInv
    <2> SUFFICES ASSUME Init PROVE IInv
      OBVIOUS
    <2>1. TypeOK /\ SharesOfNodes /\ AdmittedOfRecipient
      BY PairingAssumption DEF Init, PairInit, TypeOK, Enrolment, Node, Share, Calls, NodeIds,
         SharesOfNodes, AdmittedOfRecipient, Made, Owner, NoShare
    <2>2. Confirmed = {}
      BY DEF Init, PairInit, Confirmed
    <2>3. Paired
      BY <2>2, FS_EmptySet DEF Init, PairInit, Paired
    <2> QED BY <2>1, <2>3 DEF IInv
  <1>2. IInv /\ [Next]_vars => IInv'
    <2> SUFFICES ASSUME IInv, [Next]_vars PROVE IInv'
      OBVIOUS
    <2>1. ASSUME NEW e \in Enrolments, NEW k \in Keys, Enrol(e, k), UNCHANGED shareVars PROVE IInv'
      BY <2>1, EnrolKeeps
    <2>2. ASSUME NEW e \in Enrolments, LapseEnrolment(e), UNCHANGED shareVars PROVE IInv'
      BY <2>2, LapseEnrolmentKeeps
    <2>3. ASSUME NEW u \in Users, NEW e \in Enrolments, Preview(u, e), UNCHANGED shareVars PROVE IInv'
      BY <2>3, PreviewKeeps
    <2>4. ASSUME NEW u \in Users, NEW e \in Enrolments, ConfirmPairing(u, e), UNCHANGED shareVars PROVE IInv'
      BY <2>4, ConfirmPairingKeeps
    <2>5. ASSUME NEW n \in NodeIds, Challenge(n), UNCHANGED shareVars PROVE IInv'
      BY <2>5, ChallengeKeeps
    <2>6. ASSUME NEW n \in NodeIds, Prove(n), UNCHANGED shareVars PROVE IInv'
      BY <2>6, ProveKeeps
    <2>7. ASSUME NEW n \in NodeIds, LapseCredentials(n), UNCHANGED shareVars PROVE IInv'
      BY <2>7, LapseCredentialsKeeps
    <2>8. ASSUME NEW n \in NodeIds, Attach(n), UNCHANGED shareVars PROVE IInv'
      BY <2>8, AttachKeeps
    <2>9. ASSUME NEW n \in NodeIds, Detach(n), UNCHANGED shareVars PROVE IInv'
      BY <2>9, DetachKeeps
    <2>10. ASSUME NEW n \in NodeIds, RevokeNode(n), UNCHANGED shareVars PROVE IInv'
      BY <2>10, RevokeNodeKeeps
    <2>11. ASSUME NEW g \in ShareIds, NEW n \in NodeIds, NEW p \in {"read", "control"}, CreateShare(g, n, p) PROVE IInv'
      BY <2>11, CreateShareKeeps
    <2>12. ASSUME NEW u \in Users, NEW g \in ShareIds, Redeem(u, g) PROVE IInv'
      BY <2>12, RedeemKeeps
    <2>13. ASSUME NEW g \in ShareIds, RevokeShare(g) PROVE IInv'
      BY <2>13, RevokeShareKeeps
    <2>14. ASSUME NEW g \in ShareIds, LapseShare(g) PROVE IInv'
      BY <2>14, LapseShareKeeps
    <2>15. ASSUME NEW n \in NodeIds, PurgeHistory(n) PROVE IInv'
      BY <2>15, PurgeHistoryKeeps
    <2>16. ASSUME NEW u \in Users, NEW g \in ShareIds, NEW c \in ClientOps, SharedCommand(u, g, c) PROVE IInv'
      BY <2>16, SharedCommandKeeps
    <2>17. CASE Admission
      BY <2>17, AdmissionKeeps
    <2>18. CASE UNCHANGED vars
      BY <2>18 DEF vars, pairVars, shareVars, IInv, TypeOK, Paired, Confirmed, SharesOfNodes,
         AdmittedOfRecipient, Made, Owner
    <2> QED BY <2>1, <2>2, <2>3, <2>4, <2>5, <2>6, <2>7, <2>8, <2>9, <2>10, <2>11, <2>12, <2>13,
       <2>14, <2>15, <2>16, <2>17, <2>18 DEF Next, ShareNext, PairNext, PairLapse
  <1> QED BY <1>1, <1>2, PTL DEF Spec

\* A key has one Node and one owner for ever, and the confirmed enrolments account for
\* the Nodes one by one, however often machines enrol and users confirm and revoke.
THEOREM OneNodePerKey == Spec => []OneIncarnation
  <1>1. IInv => OneIncarnation
    BY DEF IInv, Paired, Confirmed, OneIncarnation
  <1> QED BY <1>1, Invariant, PTL

\* What ends a share is never undone, by any step: neither by those on the share, nor
\* by those on its Node and its history.
LEMMA EndIsFinal ==
  ASSUME IInv, [Next]_vars, NEW g \in ShareIds, Made(g)
  PROVE  /\ Made(g)' /\ share'[g].node = share[g].node
         /\ ~Live(g) => ~Live(g)'
         /\ share[g].recipient # None => share'[g].recipient = share[g].recipient
  <1> DEFINE n == share[g].node
  <1>1. n \in DOMAIN nodes /\ n \in NodeIds /\ nodes[n] \in Node /\ share[g] \in Share
    BY NodesNumbered DEF IInv, SharesOfNodes, TypeOK
  <1>2. n \in DOMAIN nodes' /\ (nodes[n].revoked => nodes'[n].revoked)
    <2>1. ASSUME NEW u \in Users, NEW e \in Enrolments, ConfirmPairing(u, e)
          PROVE  n \in DOMAIN nodes' /\ nodes'[n] = nodes[n]
      BY <1>1, <2>1, NodesNumbered DEF ConfirmPairing
    <2>2. ASSUME NEW m \in NodeIds, RevokeNode(m)
          PROVE  n \in DOMAIN nodes' /\ (nodes[n].revoked => nodes'[n].revoked)
      BY <1>1, <2>2 DEF RevokeNode
    <2>3. CASE UNCHANGED nodes
      BY <1>1, <2>3
    <2> QED BY <2>1, <2>2, <2>3 DEF Next, PairNext, PairLapse, ShareNext, Enrol, Preview, Challenge,
       Prove, Attach, Detach, LapseEnrolment, LapseCredentials, CreateShare, Redeem, SharedCommand,
       RevokeShare, PurgeHistory, Admission, LapseShare, vars, pairVars
  <1>3. history'[n] => history[n]
    BY <1>1 DEF IInv, TypeOK, Next, ShareNext, CreateShare, Redeem, SharedCommand, RevokeShare,
       PurgeHistory, Admission, LapseShare, vars, shareVars
  <1> DEFINE Grows == /\ share'[g].node = n
                      /\ (share[g].revoked => share'[g].revoked) /\ (share[g].lapsed => share'[g].lapsed)
                      /\ share[g].recipient # None => share'[g].recipient = share[g].recipient
  <1>4. Grows
    <2>1. ASSUME NEW x \in ShareIds, NEW m \in NodeIds, NEW p \in {"read", "control"}, CreateShare(x, m, p)
          PROVE  share'[g] = share[g]
      BY <2>1 DEF CreateShare
    <2>2. ASSUME NEW u \in Users, NEW x \in ShareIds, Redeem(u, x) PROVE Grows
      BY <1>1, <2>2 DEF Redeem, IInv, TypeOK
    <2>3. ASSUME NEW x \in ShareIds, RevokeShare(x) PROVE Grows
      BY <1>1, <2>3 DEF RevokeShare, IInv, TypeOK
    <2>4. ASSUME NEW x \in ShareIds, LapseShare(x) PROVE Grows
      BY <1>1, <2>4 DEF LapseShare
    <2>5. CASE UNCHANGED share
      BY <2>5
    <2> QED BY <2>1, <2>2, <2>3, <2>4, <2>5 DEF Next, PairLapse, ShareNext, SharedCommand,
       PurgeHistory, Admission, vars, shareVars
  <1>5. Made(g)'
    BY <1>4 DEF Made
  <1>6. ASSUME Live(g)' PROVE Live(g)
    <2>1. ~share'[g].revoked /\ ~share'[g].lapsed /\ ~nodes'[n].revoked /\ history'[n]
      BY <1>4, <1>6 DEF Live, Active
    <2> QED BY <1>1, <1>2, <1>3, <1>4, <2>1 DEF Live, Active
  <1> QED BY <1>4, <1>5, <1>6

\* A share that has ended never comes back: its Node is never active again, the content
\* of the session does not return, and redeeming neither lifts nor extends.
THEOREM EndedStays == Spec => EndedShareStays
  <1>1. IInv /\ [Next]_vars => [\A g \in ShareIds : Made(g) /\ ~Live(g) => ~Live(g)']_vars
    BY EndIsFinal
  <1> QED BY <1>1, Invariant, PTL DEF Spec, EndedShareStays

\* The transaction that admits a shared command asks again what was asked on its
\* arrival: nothing is admitted for a share that ended in between, and all that is
\* admitted is the recipient's.
THEOREM AdmittedWhileLive == Spec => NothingAdmittedAfterEnd
  <1> DEFINE Kept(g) ==
        /\ Made(g) /\ ~Live(g) => {a \in admitted' : a.share = g} = {a \in admitted : a.share = g}
        /\ share[g].recipient # None => share'[g].recipient = share[g].recipient
        /\ \A a \in admitted' : a.share = g => a.actor = share[g].recipient
  <1>1. IInv /\ [Next]_vars => [\A g \in ShareIds : Kept(g)]_vars
    <2> SUFFICES ASSUME IInv, Next, NEW g \in ShareIds PROVE Kept(g)
      OBVIOUS
    <2>1. share[g].recipient # None => share'[g].recipient = share[g].recipient
      <3>1. CASE Made(g)
        BY <3>1, EndIsFinal
      <3>2. CASE ~Made(g)
        BY <3>2 DEF IInv, SharesOfNodes, NoShare
      <3> QED BY <3>1, <3>2
    <2>2. CASE UNCHANGED admitted
      BY <2>1, <2>2 DEF IInv, AdmittedOfRecipient
    <2>3. CASE Admission
      <3>1. call.share = g /\ StillAuthorised(call.actor, call.share) => Live(g) \/ ~Made(g)
        BY DEF StillAuthorised, Live
      <3>2. call.share = g /\ StillAuthorised(call.actor, call.share) => call.actor = share[g].recipient
        BY DEF StillAuthorised
      <3> QED BY <2>1, <2>3, <3>1, <3>2 DEF Admission, IInv, AdmittedOfRecipient
    <2> QED BY <2>2, <2>3 DEF Next, ShareNext, CreateShare, Redeem, SharedCommand, RevokeShare,
       PurgeHistory, LapseShare, shareVars
  <1> QED BY <1>1, Invariant, PTL DEF Spec, NothingAdmittedAfterEnd
=============================================================================
