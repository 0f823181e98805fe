-------------------------- MODULE ProposalQuorum --------------------------
(***************************************************************************)
(* The quorum of a client (protocol-base/src/quorum.ts): the members, the  *)
(* proposals in the collaboration window and the value they agreed upon.   *)
(* All proposals are for one key, and one is known by its number.          *)
(***************************************************************************)
EXTENDS Integers

NotCommitted == -1
Value(proposal, approval, commit) ==
    [proposal |-> proposal, approval |-> approval, commit |-> commit]
NoValue == Value(0, 0, 0)

EmptyQuorum == [members |-> {},
                minimum |-> 0,
                proposals |-> {},   \* numbers of the proposals
                rejections |-> {},  \* pairs of a proposal and a client
                value |-> NoValue,  \* of values; pending if not committed
                local |-> {}]       \* ids of the proposals of this client

(* addMember, removeMember, addProposal, rejectProposal *)
MemberAdded(quorum, client) == [quorum EXCEPT !.members = @ \cup {client}]
MemberRemoved(quorum, client) == [quorum EXCEPT !.members = @ \ {client}]
ProposalAdded(quorum, n, id) ==
    [quorum EXCEPT !.proposals = @ \cup {n}, !.local = @ \ {id}]
ProposalRejected(quorum, n, client) == [quorum EXCEPT !.rejections = @ \cup {<<n, client>>}]

\* Mutant: a proposal is complete when all have seen what comes before it.
CompleteEarly(quorum, minimum) == {p \in quorum.proposals : p <= minimum + 1}

(* The proposals that a window with this minimum completes, and those of   *)
(* them that nobody rejected.                                              *)
Complete(quorum, minimum) == {p \in quorum.proposals : p <= minimum}
Approved(quorum, minimum) ==
    {p \in Complete(quorum, minimum) : \A r \in quorum.rejections : r[1] # p}

\* Mutant: an approval commits at once.
CommitsAtOnce(value, minimum) == value.commit = NotCommitted

(* A value is committed when the window has passed its approval. *)
Commits(value, minimum) == value.commit = NotCommitted /\ value.approval <= minimum

(* updateMinimumSequenceNumber: the last of the approved proposals is the  *)
(* value of the key, and waits in pendingCommit in place of the value that *)
(* waited there                                                            *)
MinimumUpdated(quorum, n, minimum) ==
    IF minimum <= quorum.minimum THEN quorum
    ELSE LET approved == Approved(quorum, minimum)
             value == IF approved = {} THEN quorum.value
                      ELSE Value(CHOOSE p \in approved : \A q \in approved : q <= p,
                                 n, NotCommitted)
         IN [quorum EXCEPT
                !.minimum = minimum,
                !.proposals = @ \ Complete(quorum, minimum),
                !.rejections = {r \in @ : r[1] \notin Complete(quorum, minimum)},
                !.value = IF Commits(value, minimum) THEN [value EXCEPT !.commit = n] ELSE value]

(* Is a NoOp wanted at once, to expedite the commit? *)
Expedites(quorum, minimum) == minimum > quorum.minimum /\ Approved(quorum, minimum) # {}

Undecided(quorum) == quorum.proposals # {} \/ quorum.value.commit = NotCommitted

(* setConnectionState(false) forgets the proposals of this client.          *)
LocalForgotten(quorum) == [quorum EXCEPT !.local = {}]
=============================================================================
