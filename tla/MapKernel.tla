----------------------------- MODULE MapKernel ------------------------------
(***************************************************************************)
(* SharedMap: the MapKernel of every client of a map                       *)
(* (packages/dds/map/src/mapKernel.ts), over the order that the service    *)
(* gives to the operations.                                                *)
(*                                                                         *)
(* A client applies its own operation at once, before it is ordered, and   *)
(* ignores the operations of others that its own pending ones overwrite.   *)
(* The runtime keeps the operations that are not acknowledged together     *)
(* with the id the kernel submitted them with, hands the id back with the  *)
(* acknowledgement, and asks the kernel to submit them again after a       *)
(* reconnection.                                                           *)
(*                                                                         *)
(* Not modelled: value types and their "act" operations, serialization,    *)
(* and detached maps, which submit nothing.                                *)
(***************************************************************************)
EXTENDS Integers, Sequences, FiniteSetsExt

CONSTANTS
    Clients,
    Keys,
    Values,
    Absent,         \* a key the map does not have
    Undefined,      \* a key the map has, whose entry is undefined
    Applications,   \* each is the set of the operations it uses
    MaxEdits,       \* bound: local operations
    MaxDisconnects  \* bound: disconnections

ASSUME MapConstants ==
    /\ Applications \subseteq SUBSET {"set", "listenerSet", "delete", "clear"}
    /\ Absent \notin Keys \cup Values /\ Undefined \notin Values /\ Absent # Undefined
    /\ MaxEdits \in Nat /\ MaxDisconnects \in Nat

VARIABLES
    kinds,                  \* the operations of the application that runs
    \* the kernel of each client
    data,                   \* key -> value, Absent or Undefined
    pendingKeys,            \* key -> id of the last pending key operation, or NoId
    pendingMessageId,
    pendingClearMessageId,
    closed,                 \* the clients whose kernel threw on an inbound message
    \* the runtime of each client
    pending,                \* submitted and not acknowledged, with their ids
    sent,                   \* how many of them are in the order
    processed,              \* how much of the order has been processed
    connected,
    \* the service, and the bounds
    log,                    \* the operations in the total order
    edits, disconnects

kernel == <<data, pendingKeys, pendingMessageId, pendingClearMessageId, closed>>
bounds == <<edits, disconnects>>
vars == <<kinds, kernel, pending, sent, processed, connected, log, bounds>>

NoId == -1

(* An operation has the same fields whatever its type; a clear has no key. *)
Op(type, key, value) == [type |-> type, key |-> key, value |-> value]

Init ==
    /\ kinds \in Applications
    /\ data = [c \in Clients |-> [k \in Keys |-> Absent]]
    /\ pendingKeys = [c \in Clients |-> [k \in Keys |-> NoId]]
    /\ pendingMessageId = [c \in Clients |-> NoId]
    /\ pendingClearMessageId = [c \in Clients |-> NoId]
    /\ closed = {}
    /\ pending = [c \in Clients |-> <<>>]
    /\ sent = [c \in Clients |-> 0]
    /\ processed = [c \in Clients |-> 0]
    /\ connected = [c \in Clients |-> TRUE]
    /\ log = <<>> /\ edits = 0 /\ disconnects = 0

-----------------------------------------------------------------------------
(* Local operations: the change is made, its listeners run, and then the   *)
(* operation is submitted.  On a key whose entry is undefined the kernel   *)
(* throws instead, because it reads the previous value.                    *)

Edit(c, n) == c \notin closed /\ edits + n <= MaxEdits /\ edits' = edits + n

UnchangedByEdit == UNCHANGED <<kinds, closed, sent, processed, connected, log, disconnects>>

(* submitMapKeyMessage *)
SubmitKey(c, op) ==
    LET id == pendingMessageId[c] + 1
    IN /\ pendingMessageId' = [pendingMessageId EXCEPT ![c] = id]
       /\ pending' = [pending EXCEPT ![c] = Append(@, [op |-> op, id |-> id])]
       /\ pendingKeys' = [pendingKeys EXCEPT ![c][op.key] = id]

(* submitMapClearMessage *)
SubmitClear(c) ==
    LET id == pendingMessageId[c] + 1
    IN /\ pendingMessageId' = [pendingMessageId EXCEPT ![c] = id]
       /\ pending' = [pending EXCEPT
              ![c] = Append(@, [op |-> Op("clear", Absent, Absent), id |-> id])]
       /\ pendingClearMessageId' = [pendingClearMessageId EXCEPT ![c] = id]

Set(c, key, value) ==
    /\ "set" \in kinds /\ Edit(c, 1) /\ data[c][key] # Undefined
    /\ data' = [data EXCEPT ![c][key] = value]
    /\ SubmitKey(c, Op("set", key, value))
    /\ UNCHANGED pendingClearMessageId /\ UnchangedByEdit

(* A listener answers the local set of a key by setting it again: the      *)
(* inner operation is submitted first.                                     *)
SetAndListenerSets(c, key, value, answer) ==
    /\ "listenerSet" \in kinds /\ Edit(c, 2) /\ data[c][key] # Undefined
    /\ data' = [data EXCEPT ![c][key] = answer]
    /\ LET id == pendingMessageId[c]
       IN /\ pendingMessageId' = [pendingMessageId EXCEPT ![c] = id + 2]
          /\ pending' = [pending EXCEPT ![c] = @ \o
                <<[op |-> Op("set", key, answer), id |-> id + 1],
                  [op |-> Op("set", key, value), id |-> id + 2]>>]
          /\ pendingKeys' = [pendingKeys EXCEPT ![c][key] = id + 2]
    /\ UNCHANGED pendingClearMessageId /\ UnchangedByEdit

Delete(c, key) ==
    /\ "delete" \in kinds /\ Edit(c, 1) /\ data[c][key] # Undefined
    /\ data' = [data EXCEPT ![c][key] = Absent]
    /\ SubmitKey(c, Op("delete", key, Absent))
    /\ UNCHANGED pendingClearMessageId /\ UnchangedByEdit

Clear(c) ==
    /\ "clear" \in kinds /\ Edit(c, 1)
    /\ data' = [data EXCEPT ![c] = [k \in Keys |-> Absent]]
    /\ SubmitClear(c)
    /\ UNCHANGED pendingKeys /\ UnchangedByEdit

-----------------------------------------------------------------------------
(* Inbound operations. *)

(* The next operation in the order is the acknowledgement of the client's  *)
(* first pending one if the client submitted it.                           *)
Message(c) == log[processed[c] + 1]
Local(c) == Message(c).client = c
LocalId(c) == Head(pending[c]).id

Received(c) ==
    /\ processed' = [processed EXCEPT ![c] = @ + 1]
    /\ IF Local(c)
       THEN /\ pending' = [pending EXCEPT ![c] = Tail(@)]
            /\ sent' = [sent EXCEPT ![c] = @ - 1]
       ELSE UNCHANGED <<pending, sent>>

Throws(c) ==
    /\ closed' = closed \cup {c}
    /\ UNCHANGED <<data, pendingKeys, pendingClearMessageId>>

(* Setting or deleting a key first reads the value it had. *)
ProcessKeyCore(c, op) ==
    IF data[c][op.key] = Undefined
    THEN Throws(c)
    ELSE /\ data' = [data EXCEPT ![c][op.key] = op.value]
         /\ UNCHANGED <<closed, pendingKeys, pendingClearMessageId>>

Ignored == UNCHANGED <<data, closed, pendingClearMessageId>>

\* Mutant: an operation of another client is applied over a pending one.
NeverOverwritten(c, key) == FALSE

Overwritten(c, key) == pendingKeys[c][key] # NoId

\* Mutant: the acknowledgement of any operation on the key clears its entry.
ForgetAnyKey(c, key) == pendingKeys' = [pendingKeys EXCEPT ![c][key] = NoId]

(* Only the last pending operation on the key clears its entry. *)
AcknowledgeKey(c, key) ==
    IF pendingKeys[c][key] = LocalId(c)
    THEN pendingKeys' = [pendingKeys EXCEPT ![c][key] = NoId]
    ELSE UNCHANGED pendingKeys

(* needProcessKeyOperation and the handlers of "set" and "delete" *)
ProcessKey(c, op) ==
    \/ /\ pendingClearMessageId[c] # NoId
       /\ IF Local(c) /\ LocalId(c) >= pendingClearMessageId[c]
          THEN Throws(c)
          ELSE Ignored /\ UNCHANGED pendingKeys
    \/ /\ pendingClearMessageId[c] = NoId /\ Overwritten(c, op.key)
       /\ Ignored
       /\ IF Local(c) THEN AcknowledgeKey(c, op.key) ELSE UNCHANGED pendingKeys
    \/ /\ pendingClearMessageId[c] = NoId /\ ~Overwritten(c, op.key)
       /\ IF Local(c) THEN Ignored /\ UNCHANGED pendingKeys ELSE ProcessKeyCore(c, op)

\* Mutant: a clear by another client takes the pending keys with it.
ClearAllKeys(c) == [k \in Keys |-> Absent]

(* The value of a pending key is put back, even if the map has no such key *)
(* because the pending operation deleted it.                               *)
ClearExceptPendingKeys(c) ==
    [k \in Keys |-> IF pendingKeys[c][k] = NoId THEN Absent
                    ELSE IF data[c][k] = Absent THEN Undefined ELSE data[c][k]]

AcknowledgeClear(c) ==
    IF pendingClearMessageId[c] = LocalId(c)
    THEN pendingClearMessageId' = [pendingClearMessageId EXCEPT ![c] = NoId]
    ELSE UNCHANGED pendingClearMessageId

(* the handler of "clear" *)
ProcessClear(c) ==
    /\ UNCHANGED <<closed, pendingKeys>>
    /\ IF Local(c)
       THEN AcknowledgeClear(c) /\ UNCHANGED data
       ELSE /\ data' = [data EXCEPT ![c] = ClearExceptPendingKeys(c)]
            /\ UNCHANGED pendingClearMessageId

Process(c) ==
    /\ c \notin closed /\ processed[c] < Len(log)
    /\ Received(c)
    /\ LET op == Message(c).op
       IN IF op.type = "clear" THEN ProcessClear(c) ELSE ProcessKey(c, op)
    /\ UNCHANGED <<kinds, pendingMessageId, connected, log, bounds>>

-----------------------------------------------------------------------------
(* The runtime and the service. *)

(* The next pending operation of a connected client is put in the order. *)
Sequence(c) ==
    /\ connected[c] /\ sent[c] < Len(pending[c])
    /\ log' = Append(log, [op |-> pending[c][sent[c] + 1].op, client |-> c])
    /\ sent' = [sent EXCEPT ![c] = @ + 1]
    /\ UNCHANGED <<kinds, kernel, pending, processed, connected, bounds>>

(* What the connection had not delivered to the service is lost. *)
Disconnect(c) ==
    /\ connected[c] /\ disconnects < MaxDisconnects
    /\ connected' = [connected EXCEPT ![c] = FALSE]
    /\ disconnects' = disconnects + 1
    /\ UNCHANGED <<kinds, kernel, pending, sent, processed, log, edits>>

(* The last pending operation on a key, or the last pending clear, whose   *)
(* key is Absent; 0 if there is none.                                      *)
LastPending(c, key) == Max({0} \cup {i \in DOMAIN pending[c] : pending[c][i].op.key = key})

(* Once every operation of the old connection that was ordered has been    *)
(* processed, the pending ones are submitted again, each with a new id.    *)
Reconnect(c) ==
    /\ ~connected[c] /\ c \notin closed /\ sent[c] = 0
    /\ connected' = [connected EXCEPT ![c] = TRUE]
    /\ LET first == pendingMessageId[c]
           clear == LastPending(c, Absent)
       IN /\ pending' = [pending EXCEPT ![c] =
                [i \in DOMAIN @ |-> [op |-> @[i].op, id |-> first + i]]]
          /\ pendingMessageId' = [pendingMessageId EXCEPT ![c] = @ + Len(pending[c])]
          /\ pendingClearMessageId' = [pendingClearMessageId EXCEPT
                ![c] = IF clear = 0 THEN @ ELSE first + clear]
          /\ pendingKeys' = [pendingKeys EXCEPT ![c] =
                [k \in Keys |-> IF LastPending(c, k) = 0 THEN @[k] ELSE first + LastPending(c, k)]]
    /\ UNCHANGED <<kinds, data, closed, sent, processed, log, bounds>>

Next ==
    \E c \in Clients :
        \/ \E key \in Keys, value \in Values : Set(c, key, value)
        \/ \E key \in Keys, value, answer \in Values : SetAndListenerSets(c, key, value, answer)
        \/ \E key \in Keys : Delete(c, key)
        \/ Clear(c)
        \/ Process(c) \/ Sequence(c) \/ Disconnect(c) \/ Reconnect(c)

(* Ordering, delivery and reconnection go on; nobody has to edit. *)
Fairness ==
    \A c \in Clients : WF_vars(Process(c)) /\ WF_vars(Sequence(c)) /\ WF_vars(Reconnect(c))

Spec == Init /\ [][Next]_vars
FairSpec == Spec /\ Fairness

=============================================================================
