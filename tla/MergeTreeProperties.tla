------------------------- MODULE MergeTreeProperties -------------------------
(***************************************************************************)
(* What the users of a shared sequence rely on.                            *)
(***************************************************************************)
EXTENDS MergeTree

Text(t) == SelectSeq(t.segments, LAMBDA s : s.removed = 0)
Elements(t) == [k \in DOMAIN Text(t) |-> Text(t)[k].name]

(* A user has seen everything, and its edits are acknowledged.             *)
Settled(u) == inbox[u] = <<>> /\ pending[u] = <<>>

(* No position of an operation is out of range (mergeTree.ts:2244), and    *)
(* the assertions of ack, resetPendingDeltaToOps and updateSeqNumbers hold:*)
(* every acknowledgement meets the segments that it is for, and they are   *)
(* in the state the operation left them in.                                *)
NeverFails == \A c \in Clients : ~tree[c].failed

(* "the sequences are eventually consistent which means all collaborators  *)
(* will end up in the same final state" (sequence/README.md:102): a user   *)
(* that has settled shows the elements in the order in which a client      *)
(* shows them that only applied the operations of the service.             *)
TextConverges == \A u \in Users : Settled(u) => Elements(tree[u]) = Elements(tree[Reader])

(* It holds as long as no element is inserted behind one that was removed  *)
(* before but is still in the tree (breakTie, mergeTree.ts:2290).          *)
ConvergesUnlessPassed == TextConverges \/ \E c \in Clients : tree[c].passed

(* "if two collaborators set the same key on the annotates properties the  *)
(* operation that gets ordered last will determine the value" (sequence/   *)
(* README.md:110): settled users agree on the values of all elements,      *)
(* unless an annotation was sent again whose element was removed meanwhile.*)
ValuesConverge ==
    (\A c \in Clients : ~tree[c].astray) =>
        \A u \in Users : Settled(u) =>
            \A s \in ToSet(Text(tree[u])), r \in ToSet(Text(tree[Reader])) :
                s.name = r.name => s.value = r.value

(* Once everybody has settled, each element that was inserted and that     *)
(* nobody selected to be removed is in the text of every client, once, and *)
(* no other: insertions and removals hit the elements that their author    *)
(* saw, however the others moved, and whether or not they had to be sent   *)
(* again.  Which elements an annotation hits is left to ValuesConverge.    *)
NothingLostOrRevived ==
    (\A u \in Users : Settled(u)) =>
        \A c \in Clients : /\ ToSet(Elements(tree[c])) = expected
                           /\ IsInjective(Elements(tree[c]))

=============================================================================
