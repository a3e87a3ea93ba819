------------------------------- MODULE Shares -------------------------------
(***************************************************************************)
(* Shares of a session, on top of the ownership that Pairing establishes:  *)
(* an invitation, the one recipient who redeems it, what he may do, and    *)
(* everything that ends it: revocation of the share or of the Node, the    *)
(* deadline, the purge of the session. Each Node has one session. A shared *)
(* command is authorised when it arrives and again in the transaction that *)
(* admits it; no other handler runs between, but time passes.              *)
(***************************************************************************)
EXTENDS Pairing

CONSTANTS
  ShareIds,       \* shares that may be made
  ClientOps,      \* idempotency keys a recipient uses
  Quota           \* active shares of a session (20)

ASSUME ShareAssumption == IsFiniteSet(ShareIds) /\ IsFiniteSet(ClientOps) /\ Quota \in Nat

VARIABLES
  history,      \* per Node: the session's history is available
  share,        \* session_shares
  admitted,     \* session_share_commands
  call          \* the shared command between authorizeShare() and admission

shareVars == <<history, share, admitted, call>>
vars      == <<pairVars, shareVars>>

NoShare == [node |-> 0, permission |-> "none", recipient |-> None, sealed |-> FALSE,
            revoked |-> FALSE, lapsed |-> FALSE]

Init ==
  /\ PairInit
  /\ history = [n \in NodeIds |-> TRUE]
  /\ share = [g \in ShareIds |-> NoShare]
  /\ admitted = {} /\ call = None

Made(g)  == share[g].node # 0
Owner(g) == nodes[share[g].node].owner

\* shareLiveAccess
Live(g) == /\ Made(g) /\ ~share[g].revoked /\ ~share[g].lapsed
           /\ Active(share[g].node) /\ history[share[g].node]

-----------------------------------------------------------------------------
ActiveShares(n) == {g \in ShareIds : share[g].node = n /\ ~share[g].revoked /\ ~share[g].lapsed}

\* createShare(); a repeated request finds its share and changes nothing. Control needs a
\* managed session that is not closed, which is among the choices of permission.
CreateShare(g, n, permission) ==
  /\ ~Made(g) /\ Active(n) /\ history[n] /\ Cardinality(ActiveShares(n)) < Quota
  /\ share' = [share EXCEPT ![g] = [NoShare EXCEPT !.node = n, !.permission = permission,
                                                   !.sealed = TRUE]]
  /\ UNCHANGED <<pairVars, history, admitted, call>>

\* Mutated form: redeeming starts the period again.
RedeemExtends(u, g) ==
  /\ Made(g) /\ ~share[g].revoked /\ Active(share[g].node) /\ history[share[g].node]
  /\ u # Owner(g) /\ share[g].recipient \in {None, u}
  /\ share' = [share EXCEPT ![g].recipient = u, ![g].sealed = FALSE, ![g].lapsed = FALSE]
  /\ UNCHANGED <<pairVars, history, admitted, call>>

\* redeemShare(): the first recipient keeps it. Anyone may have got the link.
Redeem(u, g) ==
  /\ Live(g) /\ u # Owner(g) /\ share[g].recipient \in {None, u}
  /\ share' = [share EXCEPT ![g].recipient = u, ![g].sealed = FALSE]
  /\ UNCHANGED <<pairVars, history, admitted, call>>

\* revokeShare(), also when the Node is revoked.
RevokeShare(g) ==
  /\ Made(g) /\ ~share[g].revoked
  /\ share' = [share EXCEPT ![g].revoked = TRUE, ![g].sealed = FALSE]
  /\ UNCHANGED <<pairVars, history, admitted, call>>

LapseShare(g) ==
  /\ Made(g) /\ ~share[g].lapsed /\ share' = [share EXCEPT ![g].lapsed = TRUE]
  /\ UNCHANGED <<pairVars, history, admitted, call>>

\* maintenance() or deleteHistory.
PurgeHistory(n) ==
  /\ n \in DOMAIN nodes /\ history[n] /\ history' = [history EXCEPT ![n] = FALSE]
  /\ UNCHANGED <<pairVars, share, admitted, call>>

\* authorizeShare() for a write, and no receipt of the same request yet.
Authorised(u, g) == Live(g) /\ share[g].recipient = u /\ share[g].permission = "control"

SharedCommand(u, g, c) ==
  /\ Authorised(u, g) /\ socket[share[g].node]
  /\ \A a \in admitted : ~(a.actor = u /\ a.clientOp = c)
  /\ call' = [share |-> g, actor |-> u, clientOp |-> c]
  /\ UNCHANGED <<pairVars, history, share, admitted>>

\* Mutated form: what was authorised on arrival is admitted.
StillAuthorisedOnArrival(u, g) == share[g].recipient = u /\ share[g].permission = "control"

\* The condition of recordShareAdmission().
StillAuthorised(u, g) ==
  /\ share[g].recipient = u /\ share[g].permission = "control"
  /\ ~share[g].revoked /\ ~share[g].lapsed /\ Active(share[g].node) /\ history[share[g].node]

\* The rest of the handler: admitted with the operation, or rolled back.
Admission ==
  /\ call # None /\ call' = None
  /\ admitted' = IF StillAuthorised(call.actor, call.share) THEN admitted \cup {call} ELSE admitted
  /\ UNCHANGED <<pairVars, history, share>>

ShareNext ==
  \/ \E g \in ShareIds :
       \/ \E n \in NodeIds, permission \in {"read", "control"} : CreateShare(g, n, permission)
       \/ \E u \in Users : Redeem(u, g) \/ \E c \in ClientOps : SharedCommand(u, g, c)
       \/ RevokeShare(g)
  \/ \E n \in NodeIds : PurgeHistory(n)

Next ==
  \/ call = None /\ (ShareNext \/ (PairNext /\ UNCHANGED shareVars))
  \/ Admission
  \/ PairLapse /\ UNCHANGED shareVars
  \/ \E g \in ShareIds : LapseShare(g)

Spec == Init /\ [][Next]_vars

-----------------------------------------------------------------------------
\* A share that has ended, for whatever reason, never comes back: not by a repeated
\* request, not by redeeming it, not by pairing the machine again.
EndedShareStays == [][\A g \in ShareIds : Made(g) /\ ~Live(g) => ~Live(g)']_vars

\* Nothing is admitted in the name of a share once it has ended, also when it ends
\* between the arrival of the command and its admission; and what is admitted is the
\* recipient's, who never changes.
NothingAdmittedAfterEnd == [][
  \A g \in ShareIds :
    /\ Made(g) /\ ~Live(g) => {a \in admitted' : a.share = g} = {a \in admitted : a.share = g}
    /\ share[g].recipient # None => share'[g].recipient = share[g].recipient
    /\ \A a \in admitted' : a.share = g => a.actor = share[g].recipient]_vars
=============================================================================
