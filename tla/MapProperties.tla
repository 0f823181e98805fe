--------------------------- MODULE MapProperties ---------------------------
(***************************************************************************)
(* What a shared map promises to the clients that edit it.                 *)
(***************************************************************************)
EXTENDS MapKernel

-----------------------------------------------------------------------------
(* What a sequence of operations leaves of a key. *)
Concerning(ops, k) == {i \in DOMAIN ops : ops[i].op.type = "clear" \/ ops[i].op.key = k}

After(ops, k, before) ==
    IF Concerning(ops, k) = {} THEN before ELSE ops[Max(Concerning(ops, k))].op.value

(* What the order says of a key when n operations have been processed. *)
Acknowledged(n, k) == After(SubSeq(log, 1, n), k, Absent)

(* An application that neither clears nor sets from a listener.            *)
Plain == kinds \subseteq {"set", "delete"}

(* In a plain application a client shows the state that the order gives,   *)
(* with its own pending operations applied on top: so it sees its edits at *)
(* once and, when they are acknowledged, what everybody sees.              *)
(* In any application a key that the client has set stays until that is    *)
(* acknowledged, whatever the others clear or delete meanwhile.            *)
LocalView ==
    \A c \in Clients \ closed, k \in Keys :
        LET own == Concerning(pending[c], k)
        IN /\ Plain =>
                data[c][k] = After(pending[c], k, Acknowledged(processed[c], k))
           /\ own # {} /\ pending[c][Max(own)].op.type = "set" => data[c][k] \in Values

(* Clients that have processed the same operations and have none pending   *)
(* show the same map ("all clients reach an identical state", docs         *)
(* advanced/tob.md:30).                                                    *)
Converged ==
    \A c, d \in Clients :
        pending[c] = <<>> /\ pending[d] = <<>> /\ processed[c] = processed[d] =>
            data[c] = data[d]

(* When edits stop, all clients of a plain application reach the same      *)
(* state and keep it.                                                      *)
EventuallyConsistent ==
    Plain =>
        <>[](\A c, d \in Clients : pending[c] = <<>> /\ data[c] = data[d])

(* "Keys that have been modified locally but not yet ack'd"                *)
(* (mapKernel.ts:160): without clears a key is in pendingKeys exactly      *)
(* while an operation on it is pending, with the id of the last one; and   *)
(* pendingClearMessageId (mapKernel.ts:170) is the id of the last clear    *)
(* that is pending, across acknowledgements and resubmissions.  A stale    *)
(* one would make the client deaf to all others.  Nor does an inbound      *)
(* operation make the kernel throw, on its assertion about the order of    *)
(* acknowledgements (mapKernel.ts:622) or on an undefined entry, unless    *)
(* the application both deletes and clears.                                *)
PendingUnacked ==
    /\ {"delete", "clear"} \subseteq kinds \/ closed = {}
    /\ \A c \in Clients :
        LET IdOf(last) == IF last = 0 THEN NoId ELSE pending[c][last].id
        IN /\ pendingClearMessageId[c] = IdOf(LastPending(c, Absent))
           /\ "clear" \notin kinds =>
                \A k \in Keys : pendingKeys[c][k] = IdOf(LastPending(c, k))

-----------------------------------------------------------------------------
(* The inductive invariant behind LocalView and PendingUnacked.            *)

Operations ==
    [type : {"set"}, key : Keys, value : Values]
        \cup [type : {"delete"}, key : Keys, value : {Absent}]
        \cup [type : {"clear"}, key : {Absent}, value : {Absent}]

(* "listenerSet" is a way to make sets.                                    *)
Allowed(op) == IF op.type = "set" THEN TRUE ELSE op.type \in kinds

Ids == Nat \cup {NoId}

(* Every variable has its type, an operation one that the application      *)
(* uses, and nobody is ahead of the order or of what was submitted.        *)
MapTypeOK ==
    /\ kinds \in Applications
    /\ data \in [Clients -> [Keys -> Values \cup {Absent, Undefined}]]
    /\ pendingKeys \in [Clients -> [Keys -> Ids]]
    /\ pendingMessageId \in [Clients -> Ids] /\ pendingClearMessageId \in [Clients -> Ids]
    /\ closed \subseteq Clients /\ connected \in [Clients -> BOOLEAN]
    /\ log \in Seq([op : Operations, client : Clients])
    /\ pending \in [Clients -> Seq([op : Operations, id : Nat])]
    /\ sent \in [Clients -> Nat] /\ processed \in [Clients -> Nat]
    /\ \A n \in DOMAIN log : Allowed(log[n].op)
    /\ \A c \in Clients :
           /\ processed[c] <= Len(log) /\ sent[c] <= Len(pending[c])
           /\ \A i \in DOMAIN pending[c] : Allowed(pending[c][i].op)

(* The pending operations of a client have increasing ids.                 *)
IdsIncrease(c) ==
    \A i \in DOMAIN pending[c] :
        /\ pending[c][i].id <= pendingMessageId[c]
        /\ \A j \in DOMAIN pending[c] : i < j => pending[c][i].id < pending[c][j].id

(* The operations that a client will see acknowledged are the first ones   *)
(* of its pending operations, at the places that "at" gives.               *)
AcknowledgedAt(c, at) ==
    /\ \A i \in 1 .. sent[c] :
           /\ at[i] \in DOMAIN log /\ processed[c] < at[i]
           /\ log[at[i]] = [op |-> pending[c][i].op, client |-> c]
           /\ \A j \in 1 .. sent[c] : i < j => at[i] < at[j]
    /\ \A n \in DOMAIN log :
           processed[c] < n /\ log[n].client = c => \E i \in 1 .. sent[c] : at[i] = n

InOrder(c) == \E at \in [1 .. sent[c] -> 1 .. Len(log)] : AcknowledgedAt(c, at)

(* The i-th pending operation is the last one on the key; a clear is one   *)
(* on the key Absent.                                                      *)
On(c, key) == {i \in DOMAIN pending[c] : pending[c][i].op.key = key}
IsLast(c, key, i) == i \in On(c, key) /\ \A j \in On(c, key) : j <= i

(* pendingClearMessageId and pendingKeys name the last pending operation;  *)
(* without clears a key that has none is not in pendingKeys.               *)
IdsNamed(c) ==
    /\ On(c, Absent) = {} => pendingClearMessageId[c] = NoId
    /\ \A i \in DOMAIN pending[c] :
           /\ IsLast(c, Absent, i) => pendingClearMessageId[c] = pending[c][i].id
           /\ \A k \in Keys : IsLast(c, k, i) => pendingKeys[c][k] = pending[c][i].id
    /\ "clear" \notin kinds =>
           \A k \in Keys : On(c, k) = {} => pendingKeys[c][k] = NoId

(* The last operation that concerns a key is a pending set.                *)
IsSet(c, k) ==
    \E i \in On(c, k) : IsLast(c, k, i) /\ pending[c][i].op.type = "set"
                       /\ \A j \in On(c, Absent) : j < i

(* A client keeps what it set; an entry is undefined only in applications  *)
(* that clear, and, if they do not delete, only while the kernel ignores   *)
(* what the others do to the key.                                          *)
EntriesKept(c) ==
    \A k \in Keys :
        /\ IsSet(c, k) => data[c][k] \in Values
        /\ data[c][k] = Undefined =>
               /\ "clear" \in kinds
               /\ "delete" \in kinds \/ (pendingKeys[c][k] # NoId /\ ~IsSet(c, k))

(* In a plain application an entry is that of the last pending operation   *)
(* on the key or, if there is none, that of the order.                     *)
EntriesShown(c) ==
    \A k \in Keys :
        /\ \A i \in DOMAIN pending[c] : IsLast(c, k, i) => data[c][k] = pending[c][i].op.value
        /\ On(c, k) = {} =>
               \/ \E n \in 1 .. processed[c] :
                      /\ log[n].op.key = k /\ data[c][k] = log[n].op.value
                      /\ \A m \in 1 .. processed[c] : log[m].op.key = k => m <= n
               \/ /\ \A m \in 1 .. processed[c] : log[m].op.key # k
                  /\ data[c][k] = Absent

ClientInv(c) ==
    /\ IdsIncrease(c) /\ InOrder(c) /\ IdsNamed(c) /\ EntriesKept(c)
    /\ Plain => EntriesShown(c)

MapInv ==
    /\ {"delete", "clear"} \subseteq kinds \/ closed = {}
    /\ \A c \in Clients : ClientInv(c)

=============================================================================
