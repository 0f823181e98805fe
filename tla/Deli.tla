-------------------------------- MODULE Deli --------------------------------
(***************************************************************************)
(* The ordering service of one document: the Deli lambda of                *)
(* server/routerlicious/packages/lambdas/src/deli, with the two Kafka       *)
(* topics it sits between and the Mongo record it checkpoints to.          *)
(*                                                                         *)
(*   clients --> raw topic --> Deli --> deltas topic --> clients, scribe   *)
(*                 ^             |                                         *)
(*                 +-- reverse --+        (NoOp, NoClient, ClientLeave)    *)
(*                                                                         *)
(* The handler of a boxcar is synchronous JavaScript, so nothing else in   *)
(* the process runs while "cursor" is not 0.  Everything it starts is      *)
(* asynchronous: the sends to both topics, the checkpoint that waits for   *)
(* the last send, the Mongo update and the Kafka commit that follow it.    *)
(* A restart may fall between any two of those and loses all of the        *)
(* volatile state.                                                         *)
(*                                                                         *)
(* Time is abstracted: a timer that is set may fire whenever the process   *)
(* is idle, and a client other than the sender may be found idle.          *)
(* Offsets and sequence numbers start at 1, and offset 0 is the code's -1. *)
(* Not modelled: documents with a parent (Integrate and Fork messages and  *)
(* branchMap), term and epoch (FlipTerm is false), traces, logging, and    *)
(* canClose, which is never read.                                          *)
(***************************************************************************)
EXTENDS Integers, Sequences, FiniteSets, FiniteSetsExt

CONSTANTS
    Clients,                        \* client ids: one id is one connection
    Summarizers,                    \* the clients whose scopes allow summaries
    None,                           \* null, undefined
    Cleared,                        \* the empty string of a cleared checkpoint
    ClientOps,                      \* the kinds of message clients send here
    ClearCacheAfterServiceSummary,  \* scribe's configuration
    DirectOps,                      \* may clients send ops with reference -1?
    IdleEviction,                   \* does time pass enough to find a client idle?
    MaxRaw,                         \* bound: offsets the environment writes
    MaxIdle,                        \* bound: offset beyond which no idle timer fires
    MaxBoxcar,                      \* bound: messages in a raw boxcar
    MaxBacklog,                     \* bound: unread boxcars the environment adds to
    MaxPending,                     \* bound: checkpoints in progress when reading on
    MaxRestarts,                    \* bound: restarts of the lambda
    MaxLost,                        \* bound: messages lost before the raw topic
    MaxRepeated,                    \* bound: boxcars written twice by a producer
    Repeatable                      \* the types of the messages in such a boxcar

ClientKinds == {"Operation", "NoOp", "NoOpImmediate", "Summarize"}

(* What the lambda knows of a client, and what it writes to Mongo. *)
ClientStates == [csn : Nat, ref : Nat, nack : BOOLEAN]

Checkpoints ==
    [logOffset : Nat, sequenceNumber : Nat, durableSequenceNumber : Nat,
     clients : [Clients -> ClientStates \cup {None}]]

(* A checkpoint on its way to Mongo: does it clear the record, and has    *)
(* Mongo stored it?                                                        *)
CheckpointParams == [deli : Checkpoints, clear : BOOLEAN, stored : BOOLEAN]

ASSUME DeliConstants ==
    /\ Summarizers \subseteq Clients
    /\ IsFiniteSet(Clients)
    /\ None \notin Clients \cup ClientStates \cup Checkpoints \cup CheckpointParams
    /\ Cleared # None /\ Cleared \notin Checkpoints
    /\ ClientOps \subseteq ClientKinds
    /\ ClearCacheAfterServiceSummary \in BOOLEAN
    /\ DirectOps \in BOOLEAN
    /\ IdleEviction \in BOOLEAN
    /\ {MaxRaw, MaxIdle, MaxBoxcar, MaxBacklog, MaxPending, MaxRestarts,
        MaxLost, MaxRepeated} \subseteq Nat

VARIABLES
    raw,                    \* rawdeltas topic: a sequence of boxcars
    deltas,                 \* deltas topic: what has become durable, in order
    committed,              \* offset committed to the raw topic's consumer group
    db,                     \* the "deli" field of the document in Mongo
    summary,                \* .serviceProtocol/deli of the latest summary
    \* DeliLambda and the consumer that feeds it
    position,               \* next raw offset the consumer delivers
    cursor,                 \* message of boxcar logOffset being ticketed, 0: idle
    sequenceNumber, durableSequenceNumber, logOffset,
    clients,                \* clientSeqManager: client -> csn, ref, nack or None
    minimumSequenceNumber, lastSentMSN, lastInstruction, noActiveClients,
    idleTimer, noopTimer,   \* is the timer running?
    sending,                \* sends to the deltas topic not yet durable
    reverse,                \* sends to the raw topic not yet durable
    waiting,                \* checkpoints waiting for their lastSendP
    updating,               \* CheckpointContext: the update in progress, or None
    queued,                 \* CheckpointContext.pendingCheckpoint, or None
    \* the environment
    connection,             \* client -> "new", "connected" or "left"
    csn, seen,              \* client -> last csn sent, highest sequence number seen
    serviced,               \* sequence number of the last NoClient scribe summarized
    frozen,                 \* highest offset ever delivered: its boxcar is closed
    restarts, lost, repeated

logs      == <<raw, deltas, committed, db, summary>>
window    == <<sequenceNumber, clients, minimumSequenceNumber, noActiveClients>>
lambda    == <<window, durableSequenceNumber, lastSentMSN, lastInstruction, noopTimer>>
consumer  == <<position, logOffset>>
inFlight  == <<sending, reverse>>
checkpointing == <<updating, queued>>
environment == <<connection, csn, seen, serviced, frozen, restarts, lost, repeated>>
vars == <<logs, lambda, consumer, cursor, idleTimer, inFlight, waiting, checkpointing,
          environment>>

-----------------------------------------------------------------------------
(* Messages of the raw topic.  "immediate" is contents # null of a NoOp,   *)
(* and "data" is what the system message carries.                          *)

ControlData == [durableSequenceNumber : Nat, clearCache : BOOLEAN]

ClientMessage(type, c, n, ref, immediate) ==
    [type |-> type, clientId |-> c, csn |-> n, ref |-> ref,
     immediate |-> immediate, data |-> None]

ServerMessage(type, data) ==
    [type |-> type, clientId |-> None, csn |-> -1, ref |-> -1,
     immediate |-> FALSE, data |-> data]

(* Writing a message to the raw topic: in a boxcar of its own, or batched  *)
(* by the producer with the messages before it when no consumer has been   *)
(* given that boxcar yet.                                                  *)
Enqueue(m) ==
    \/ raw' = Append(raw, <<m>>)
    \/ /\ Len(raw) > frozen
       /\ Len(raw[Len(raw)]) < MaxBoxcar
       /\ raw' = [raw EXCEPT ![Len(raw)] = Append(@, m)]

(* Messages of the deltas topic.  "src" is the raw message it tickets.     *)

Source == <<logOffset, cursor>>

NackMessage(m) ==
    [kind |-> "nack", type |-> m.type, clientId |-> m.clientId, csn |-> m.csn,
     ref |-> m.ref, seq |-> minimumSequenceNumber, msn |-> minimumSequenceNumber,
     deli |-> None, src |-> Source]

Sequenced ==
    {i \in DOMAIN deltas : deltas[i].kind = "op"}

-----------------------------------------------------------------------------
(* ClientSequenceNumberManager *)

(* An id that is not in clientNodeMap maps to None. *)
TrackedIn(cl) == {c \in Clients : cl[c] # None}

Tracked == TrackedIn(clients)

\* Mutant: the client sequence number of a tracked client is not updated.
StaleUpsert(c, n, ref, nack) ==
    [clients EXCEPT ![c] = [csn |-> IF c \in Tracked THEN @.csn ELSE n,
                            ref |-> ref, nack |-> nack]]

Upsert(c, n, ref, nack) ==
    [clients EXCEPT ![c] = [csn |-> n, ref |-> ref, nack |-> nack]]

Remove(c) == [clients EXCEPT ![c] = None]

Refs(cl) == {cl[c].ref : c \in TrackedIn(cl)}

MinimumOf(cl, seq) == IF TrackedIn(cl) = {} THEN seq ELSE Min(Refs(cl))

(* The client at the top of the heap: ties are broken arbitrarily. *)
LeastRecent(cl) == {c \in TrackedIn(cl) : cl[c].ref = Min(Refs(cl))}

-----------------------------------------------------------------------------
(* The state the lambda checkpoints and starts from. *)

DeliCheckpoint ==
    [logOffset |-> logOffset, sequenceNumber |-> sequenceNumber,
     durableSequenceNumber |-> durableSequenceNumber, clients |-> clients]

DefaultCheckpoint ==
    [logOffset |-> 0, sequenceNumber |-> 0, durableSequenceNumber |-> 0,
     clients |-> [c \in Clients |-> None]]

(* What DeliLambdaFactory.create starts from: a cleared record falls back  *)
(* to the summary, whose offset is then ignored.                           *)
LastCheckpoint ==
    CASE db = None -> DefaultCheckpoint
      [] db = Cleared /\ summary = None -> DefaultCheckpoint
      [] db = Cleared /\ summary # None -> [summary EXCEPT !.logOffset = 0]
      [] OTHER -> db

Init ==
    /\ raw = <<>> /\ deltas = <<>> /\ committed = 0 /\ db = None /\ summary = None
    /\ position = 1 /\ cursor = 0
    /\ sequenceNumber = 0 /\ durableSequenceNumber = 0 /\ logOffset = 0
    /\ clients = DefaultCheckpoint.clients
    /\ minimumSequenceNumber = 0 /\ lastSentMSN = 0
    /\ lastInstruction = "NoOp" /\ noActiveClients = FALSE
    /\ idleTimer = FALSE /\ noopTimer = FALSE
    /\ sending = <<>> /\ reverse = <<>> /\ waiting = <<>>
    /\ updating = None /\ queued = None
    /\ connection = [c \in Clients |-> "new"]
    /\ csn = [c \in Clients |-> 0] /\ seen = [c \in Clients |-> 0]
    /\ serviced = 0 /\ frozen = 0 /\ restarts = 0 /\ lost = 0 /\ repeated = 0

-----------------------------------------------------------------------------
(* The checkpoints waiting for a send, being written or kept. *)
Pending == Len(waiting) + (IF updating = None THEN 0 ELSE 1) + (IF queued = None THEN 0 ELSE 1)

\* Mutant: a boxcar the checkpoint accounts for is processed again.
DeliverAgain ==
    /\ cursor = 0 /\ position <= Len(raw) /\ Pending <= MaxPending
    /\ position' = position + 1
    /\ logOffset' = position /\ cursor' = 1
    /\ frozen' = IF position > frozen THEN position ELSE frozen
    /\ UNCHANGED <<logs, lambda, idleTimer, inFlight, waiting, checkpointing,
                   connection, csn, seen, serviced, restarts, lost, repeated>>

(* handler: the consumer delivers the boxcar at "position".  One that was  *)
(* checkpointed before a restart is skipped.                               *)
Deliver ==
    /\ cursor = 0 /\ position <= Len(raw) /\ Pending <= MaxPending
    /\ position' = position + 1
    /\ IF position <= logOffset
       THEN UNCHANGED <<logOffset, cursor>>
       ELSE logOffset' = position /\ cursor' = 1
    /\ frozen' = IF position > frozen THEN position ELSE frozen
    /\ UNCHANGED <<logs, lambda, idleTimer, inFlight, waiting, checkpointing,
                   connection, csn, seen, serviced, restarts, lost, repeated>>

(* The message of the boxcar that the handler's loop has reached. *)
Message == raw[logOffset][cursor]

\* Mutant: the checkpoint waits for the sends of the boxcars before only.
CheckpointBeforeSends == [deli |-> DeliCheckpoint', after |-> Len(deltas) + Len(sending)]

(* The checkpoint taken at the end of a boxcar waits for the last send.    *)
CheckpointAfterSends == [deli |-> DeliCheckpoint', after |-> Len(deltas) + Len(sending')]

(* The end of an iteration of the loop, and of the boxcar. *)
EndOfMessage ==
    IF cursor < Len(raw[logOffset])
    THEN cursor' = cursor + 1 /\ UNCHANGED <<waiting, idleTimer>>
    ELSE /\ cursor' = 0
         /\ waiting' = Append(waiting, CheckpointAfterSends)
         /\ idleTimer' = ~noActiveClients'

UnchangedByTicket ==
    UNCHANGED <<logs, consumer, checkpointing, environment>>

(* checkIdleClients: a leave for the least recent client if it is idle.    *)
(* The message's own client was updated just now.                          *)
IdleLeaves(m) ==
    {<<>>} \cup
    IF IdleEviction /\ m.type # "ClientLeave"
    THEN {<<ServerMessage("ClientLeave", c)>> :
            c \in LeastRecent(clients') \ {m.clientId, m.data}}
    ELSE {}

\* Mutant: nobody is told that the document became inactive.
SendLeavesOnly(m) ==
    \E leave \in IdleLeaves(m) : reverse' = reverse \o leave

(* What a message that was not nacked makes the lambda send to itself. *)
SendToAlfred(m) ==
    \E leave \in IdleLeaves(m) :
        reverse' = reverse \o leave \o
            (IF m.type \notin {"NoClient", "Control"} /\ noActiveClients'
             THEN <<ServerMessage("NoClient", None)>> ELSE <<>>)

\* Mutant: the checkpoint of a summary is taken before the message's own number.
EarlyCheckpointOf(m) == IF m.type \in {"Summarize", "NoClient"} THEN DeliCheckpoint ELSE None

(* Summarize and NoClient messages carry the state after them.             *)
AdditionalContent(m) == IF m.type \in {"Summarize", "NoClient"} THEN DeliCheckpoint' ELSE None

(* The three send types. *)
SendImmediately(m, ref) ==
    /\ sending' = Append(sending,
            [kind |-> "op", type |-> m.type, clientId |-> m.clientId, csn |-> m.csn,
             ref |-> ref, seq |-> sequenceNumber', msn |-> minimumSequenceNumber',
             deli |-> AdditionalContent(m), src |-> Source])
    /\ lastSentMSN' = minimumSequenceNumber'
    /\ noopTimer' = FALSE

\* Mutant: the MSN of a message that is only scheduled counts as sent.
SendLaterAsSent ==
    /\ noopTimer' = ~noActiveClients'
    /\ lastSentMSN' = minimumSequenceNumber'
    /\ UNCHANGED sending

SendLater ==
    /\ noopTimer' = ~noActiveClients'
    /\ UNCHANGED <<sending, lastSentMSN>>

SendNever == UNCHANGED <<sending, lastSentMSN, noopTimer>>

(* The clients and the sequence number after the message, and the minimum  *)
(* sequence number they give.                                              *)
Advance(cl, seq) ==
    /\ clients' = cl
    /\ sequenceNumber' = seq
    /\ minimumSequenceNumber' = MinimumOf(cl, seq)
    /\ noActiveClients' = (TrackedIn(cl) = {})

-----------------------------------------------------------------------------
(* ticket: one action for each way it returns. *)

\* Mutant: duplicates are not recognized.
GapOrder(m) ==
    IF m.clientId \in Tracked /\ m.csn > clients[m.clientId].csn + 1
    THEN "Gap" ELSE "ConsecutiveOrSystem"

Order(m) ==
    IF m.clientId \notin Tracked THEN "ConsecutiveOrSystem"
    ELSE CASE m.csn = clients[m.clientId].csn + 1 -> "ConsecutiveOrSystem"
           [] m.csn > clients[m.clientId].csn + 1 -> "Gap"
           [] OTHER -> "Duplicate"

FromClient(m) == m.clientId # None /\ Order(m) = "ConsecutiveOrSystem"

\* Mutant: only a nacked client is refused, not one that left.
OnlyNacked(m) == m.clientId \in Tracked /\ clients[m.clientId].nack

Nonexistent(m) == m.clientId \in Tracked => clients[m.clientId].nack

\* Mutant: the window is not enforced.
NeverBelowWindow(m) == FALSE

BelowWindow(m) == m.ref # -1 /\ m.ref < minimumSequenceNumber

(* The reference a client joins with. *)
JoinReference == minimumSequenceNumber

Forbidden(m) == m.type = "Summarize" /\ m.clientId \notin Summarizers

(* Messages for which ticket returns nothing. *)
TicketDuplicate(m) ==
    /\ Order(m) = "Duplicate"
    /\ UNCHANGED <<lambda, inFlight>>

TicketLeaveOfUnknown(m) ==
    /\ m.type = "ClientLeave" /\ m.data \notin Tracked
    /\ UNCHANGED <<lambda, inFlight>>

TicketRepeatedJoin(m) ==
    /\ m.type = "ClientJoin" /\ m.data \in Tracked
    /\ clients' = Upsert(m.data, 0, JoinReference, FALSE)
    /\ UNCHANGED <<sequenceNumber, minimumSequenceNumber, noActiveClients,
                   durableSequenceNumber, lastSentMSN, lastInstruction, noopTimer, inFlight>>

(* Nacks.  The handler takes the nack's MSN for a sent one. *)
SendNack(m) ==
    /\ sending' = Append(sending, NackMessage(m))
    /\ lastSentMSN' = minimumSequenceNumber
    /\ lastInstruction' = "NoOp"
    /\ UNCHANGED <<sequenceNumber, minimumSequenceNumber, noActiveClients,
                   durableSequenceNumber, noopTimer, reverse>>

TicketGap(m) ==
    /\ Order(m) = "Gap"
    /\ SendNack(m)
    /\ UNCHANGED clients

TicketNonexistent(m) ==
    /\ FromClient(m) /\ Nonexistent(m)
    /\ SendNack(m)
    /\ UNCHANGED clients

\* Mutant: the client is not marked as nacked.
TicketBelowWindowOnce(m) ==
    /\ FromClient(m) /\ ~Nonexistent(m) /\ BelowWindow(m)
    /\ SendNack(m)
    /\ clients' = Upsert(m.clientId, m.csn, minimumSequenceNumber, FALSE)

TicketBelowWindow(m) ==
    /\ FromClient(m) /\ ~Nonexistent(m) /\ BelowWindow(m)
    /\ SendNack(m)
    /\ clients' = Upsert(m.clientId, m.csn, minimumSequenceNumber, TRUE)

TicketForbidden(m) ==
    /\ FromClient(m) /\ ~Nonexistent(m) /\ ~BelowWindow(m) /\ Forbidden(m)
    /\ SendNack(m)
    /\ UNCHANGED clients

(* Messages that are ticketed. *)
Ticketed(m, instruction) ==
    /\ lastInstruction' = instruction
    /\ SendToAlfred(m)

TicketJoin(m) ==
    /\ m.type = "ClientJoin" /\ m.data \notin Tracked
    /\ UNCHANGED durableSequenceNumber
    /\ Advance(Upsert(m.data, 0, JoinReference, FALSE), sequenceNumber + 1)
    /\ SendImmediately(m, m.ref)
    /\ Ticketed(m, "NoOp")

TicketLeave(m) ==
    /\ m.type = "ClientLeave" /\ m.data \in Tracked
    /\ UNCHANGED durableSequenceNumber
    /\ Advance(Remove(m.data), sequenceNumber + 1)
    /\ SendImmediately(m, m.ref)
    /\ Ticketed(m, "NoOp")

Accepted(m) == FromClient(m) /\ ~Nonexistent(m) /\ ~BelowWindow(m) /\ ~Forbidden(m)

(* An operation sent with reference -1 refers to its own sequence number.  *)
TicketClientOp(m) ==
    /\ Accepted(m) /\ m.type \in {"Operation", "Summarize"}
    /\ UNCHANGED durableSequenceNumber
    /\ LET ref == IF m.ref = -1 THEN sequenceNumber + 1 ELSE m.ref
       IN /\ Advance(Upsert(m.clientId, m.csn, ref, FALSE), sequenceNumber + 1)
          /\ SendImmediately(m, ref)
    /\ Ticketed(m, "NoOp")

(* A NoOp of a client updates its reference, and is sent only if it is an  *)
(* immediate one that moves the MSN past what was sent.  The window is     *)
(* asserted.                                                               *)
TicketClientNoOp(m) ==
    /\ Accepted(m) /\ m.type = "NoOp" /\ m.ref >= minimumSequenceNumber
    /\ UNCHANGED durableSequenceNumber
    /\ LET cl == Upsert(m.clientId, m.csn, m.ref, FALSE)
           send == m.immediate /\ MinimumOf(cl, sequenceNumber) > lastSentMSN
       IN /\ Advance(cl, IF send THEN sequenceNumber + 1 ELSE sequenceNumber)
          /\ IF send THEN SendImmediately(m, m.ref) ELSE SendLater
    /\ Ticketed(m, "NoOp")

(* With no clients the MSN is the sequence number before the NoOp's own.   *)
TicketServerNoOp(m) ==
    /\ m.clientId = None /\ m.type = "NoOp"
    /\ UNCHANGED <<clients, durableSequenceNumber>>
    /\ LET msn == MinimumOf(clients, sequenceNumber)
       IN /\ minimumSequenceNumber' = msn
          /\ noActiveClients' = (Tracked = {})
          /\ IF msn > lastSentMSN
             THEN sequenceNumber' = sequenceNumber + 1 /\ SendImmediately(m, m.ref)
             ELSE UNCHANGED sequenceNumber /\ SendNever
    /\ Ticketed(m, "NoOp")

TicketNoClient(m) ==
    /\ m.type = "NoClient"
    /\ UNCHANGED durableSequenceNumber
    /\ IF Tracked = {}
       THEN Advance(clients, sequenceNumber + 1) /\ SendImmediately(m, sequenceNumber')
       ELSE Advance(clients, sequenceNumber) /\ SendNever
    /\ Ticketed(m, "NoOp")

(* UpdateDSN.  The new durable sequence number is asserted not to be lower. *)
TicketControl(m) ==
    /\ m.type = "Control"
    /\ m.data.durableSequenceNumber >= durableSequenceNumber
    /\ Advance(clients, sequenceNumber)
    /\ durableSequenceNumber' = m.data.durableSequenceNumber
    /\ SendNever
    /\ Ticketed(m, IF m.data.clearCache /\ Tracked = {} THEN "ClearCache" ELSE "NoOp")

Ticket ==
    /\ cursor # 0
    /\ UnchangedByTicket
    /\ LET m == Message IN
       \/ TicketDuplicate(m)
       \/ TicketLeaveOfUnknown(m)
       \/ TicketRepeatedJoin(m)
       \/ TicketGap(m)
       \/ TicketNonexistent(m)
       \/ TicketBelowWindow(m)
       \/ TicketForbidden(m)
       \/ TicketJoin(m)
       \/ TicketLeave(m)
       \/ TicketClientOp(m)
       \/ TicketClientNoOp(m)
       \/ TicketServerNoOp(m)
       \/ TicketNoClient(m)
       \/ TicketControl(m)
    /\ EndOfMessage

-----------------------------------------------------------------------------
(* Timers: each sends a NoOp to the raw topic and is then no longer set.   *)

IdleTimerFires ==
    /\ cursor = 0 /\ idleTimer /\ Len(raw) < MaxIdle
    /\ idleTimer' = FALSE
    /\ reverse' = IF noActiveClients THEN reverse
                  ELSE Append(reverse, ServerMessage("NoOp", None))
    /\ UNCHANGED <<logs, lambda, consumer, cursor, sending, waiting, checkpointing,
                   environment>>

NoopTimerFires ==
    /\ cursor = 0 /\ noopTimer
    /\ noopTimer' = FALSE
    /\ reverse' = IF noActiveClients THEN reverse
                  ELSE Append(reverse, ServerMessage("NoOp", None))
    /\ UNCHANGED <<logs, window, durableSequenceNumber, lastSentMSN, lastInstruction,
                   consumer, cursor, idleTimer, sending, waiting, checkpointing, environment>>

(* The producers: messages become durable in the order they were sent. *)

ForwardProduced ==
    /\ cursor = 0 /\ sending # <<>>
    /\ deltas' = Append(deltas, Head(sending))
    /\ sending' = Tail(sending)
    /\ UNCHANGED <<raw, committed, db, summary, lambda, consumer, cursor, idleTimer,
                   reverse, waiting, checkpointing, environment>>

ReverseProduced ==
    /\ cursor = 0 /\ reverse # <<>>
    /\ Enqueue(Head(reverse))
    /\ reverse' = Tail(reverse)
    /\ UNCHANGED <<deltas, committed, db, summary, lambda, consumer, cursor, idleTimer,
                   sending, waiting, checkpointing, environment>>

-----------------------------------------------------------------------------
\* Mutant: the state is taken when the sends resolve, for the offset of the boxcar.
LateCheckpoint(w) == [DeliCheckpoint EXCEPT !.logOffset = w.deli.logOffset]

CheckpointOf(w) == w.deli

(* Checkpoints.  When the last send a checkpoint waits for has resolved,   *)
(* it is cleared if the lambda's last instruction says so by then, and     *)
(* written at once or kept until the update in progress is over, in place  *)
(* of the one kept before.                                                 *)
CheckpointReady ==
    /\ cursor = 0 /\ waiting # <<>> /\ Head(waiting).after <= Len(deltas)
    /\ LET checkpoint == [deli   |-> CheckpointOf(Head(waiting)),
                          clear  |-> lastInstruction = "ClearCache",
                          stored |-> FALSE]
       IN IF updating = None
          THEN updating' = checkpoint /\ UNCHANGED queued
          ELSE queued' = checkpoint /\ UNCHANGED updating
    /\ waiting' = Tail(waiting)
    /\ UNCHANGED <<logs, lambda, consumer, cursor, idleTimer, inFlight, environment>>

\* Mutant: an update that failed is taken for a success.
UpdateFailed ==
    /\ updating # None /\ ~updating.stored
    /\ updating' = [updating EXCEPT !.stored = TRUE]
    /\ UNCHANGED <<logs, lambda, consumer, cursor, idleTimer, inFlight, waiting, queued,
                   environment>>

(* Mongo takes the update (after any number of retries). *)
Update ==
    /\ updating # None /\ ~updating.stored
    /\ db' = IF updating.clear THEN Cleared ELSE updating.deli
    /\ updating' = [updating EXCEPT !.stored = TRUE]
    /\ UNCHANGED <<raw, deltas, committed, summary, lambda, consumer, cursor, idleTimer,
                   inFlight, waiting, queued, environment>>

\* Mutant: the checkpoint kept during the update is forgotten.
UpdatedOnce ==
    /\ cursor = 0 /\ updating # None /\ updating.stored
    /\ committed' = updating.deli.logOffset
    /\ updating' = None
    /\ queued' = None
    /\ UNCHANGED <<raw, deltas, db, summary, lambda, consumer, cursor, idleTimer,
                   inFlight, waiting, environment>>

(* The update resolves: the offset is committed, and the checkpoint kept   *)
(* meanwhile, if any, is written next.                                     *)
Updated ==
    /\ cursor = 0 /\ updating # None /\ updating.stored
    /\ committed' = updating.deli.logOffset
    /\ updating' = queued
    /\ queued' = None
    /\ UNCHANGED <<raw, deltas, db, summary, lambda, consumer, cursor, idleTimer,
                   inFlight, waiting, environment>>

(* A crash, an error that asks for a restart or a moved partition: the     *)
(* next lambda starts from the record and from the committed offset.       *)
Restart ==
    /\ restarts < MaxRestarts
    /\ restarts' = restarts + 1
    /\ LET last == LastCheckpoint IN
       /\ sequenceNumber' = last.sequenceNumber
       /\ durableSequenceNumber' = last.durableSequenceNumber
       /\ logOffset' = last.logOffset
       /\ clients' = last.clients
       /\ minimumSequenceNumber' = MinimumOf(last.clients, last.sequenceNumber)
    /\ position' = committed + 1
    /\ lastSentMSN' = 0 /\ lastInstruction' = "NoOp" /\ noActiveClients' = FALSE
    /\ cursor' = 0 /\ idleTimer' = FALSE /\ noopTimer' = FALSE
    /\ sending' = <<>> /\ reverse' = <<>> /\ waiting' = <<>>
    /\ updating' = None /\ queued' = None
    /\ UNCHANGED <<logs, connection, csn, seen, serviced, frozen, lost, repeated>>

-----------------------------------------------------------------------------
(* The environment.  alfred's orderer connections write a join when a      *)
(* client connects, a leave when it disconnects and its messages between,  *)
(* each with the reference sequence number the client has reached.         *)

UnchangedByEnvironment ==
    UNCHANGED <<deltas, committed, db, lambda, consumer, cursor, idleTimer, inFlight,
                waiting, checkpointing, frozen, restarts>>

Room == Len(raw) < MaxRaw /\ Len(raw) < position + MaxBacklog

Connect(c) ==
    /\ Room /\ connection[c] = "new"
    /\ connection' = [connection EXCEPT ![c] = "connected"]
    /\ Enqueue(ServerMessage("ClientJoin", c))
    /\ UNCHANGED <<summary, csn, seen, serviced, lost, repeated>> /\ UnchangedByEnvironment

Submit(c, kind) ==
    /\ Room /\ connection[c] = "connected" /\ kind \in ClientOps
    /\ \E ref \in {0} \cup {deltas[i].seq : i \in Sequenced},
          direct \in IF DirectOps /\ kind = "Operation" THEN BOOLEAN ELSE {FALSE} :
          /\ ref >= seen[c]
          /\ seen' = [seen EXCEPT ![c] = ref]
          /\ Enqueue(ClientMessage(IF kind = "NoOpImmediate" THEN "NoOp" ELSE kind,
                                   c, csn[c] + 1, IF direct THEN -1 ELSE ref,
                                   kind = "NoOpImmediate"))
    /\ csn' = [csn EXCEPT ![c] = @ + 1]
    /\ UNCHANGED <<summary, connection, serviced, lost, repeated>> /\ UnchangedByEnvironment

Disconnect(c) ==
    /\ Room /\ connection[c] = "connected"
    /\ connection' = [connection EXCEPT ![c] = "left"]
    /\ Enqueue(ServerMessage("ClientLeave", c))
    /\ UNCHANGED <<summary, csn, seen, serviced, lost, repeated>> /\ UnchangedByEnvironment

(* A message that never reaches the topic, and a boxcar that reaches it a  *)
(* second time because its producer retried.                               *)
LoseMessage(c) ==
    /\ lost < MaxLost /\ connection[c] = "connected"
    /\ csn' = [csn EXCEPT ![c] = @ + 1]
    /\ lost' = lost + 1
    /\ UNCHANGED <<raw, summary, connection, seen, serviced, repeated>>
    /\ UnchangedByEnvironment

RepeatBoxcar ==
    /\ Room /\ repeated < MaxRepeated
    /\ \E o \in DOMAIN raw :
          /\ \A i \in DOMAIN raw[o] : raw[o][i].type \in Repeatable
          /\ raw' = Append(raw, raw[o])
    /\ repeated' = repeated + 1
    /\ UNCHANGED <<summary, connection, csn, seen, serviced, lost>> /\ UnchangedByEnvironment

(* Scribe writes a service summary with the checkpoint that a NoClient     *)
(* carries, and confirms it to Deli.                                       *)
ServiceSummary ==
    /\ Room
    /\ \E i \in Sequenced :
          /\ deltas[i].type = "NoClient" /\ deltas[i].seq > serviced
          /\ summary' = deltas[i].deli
          /\ serviced' = deltas[i].seq
          /\ Enqueue(ServerMessage("Control",
                [durableSequenceNumber |-> deltas[i].seq,
                 clearCache |-> ClearCacheAfterServiceSummary]))
    /\ UNCHANGED <<connection, csn, seen, lost, repeated>> /\ UnchangedByEnvironment

Environment ==
    \/ \E c \in Clients : Connect(c) \/ Disconnect(c) \/ LoseMessage(c)
    \/ \E c \in Clients, kind \in ClientOps : Submit(c, kind)
    \/ RepeatBoxcar
    \/ ServiceSummary

Process ==
    \/ Deliver \/ Ticket
    \/ IdleTimerFires \/ NoopTimerFires
    \/ ForwardProduced \/ ReverseProduced
    \/ CheckpointReady \/ Update \/ Updated

Next == Process \/ Restart \/ Environment

(* The event loop, the producers and Mongo keep going; nothing is assumed  *)
(* of the clients, of scribe or of restarts.                               *)
Fairness ==
    /\ WF_vars(Deliver) /\ WF_vars(Ticket)
    /\ WF_vars(IdleTimerFires) /\ WF_vars(NoopTimerFires)
    /\ WF_vars(ForwardProduced) /\ WF_vars(ReverseProduced)
    /\ WF_vars(CheckpointReady) /\ WF_vars(Update) /\ WF_vars(Updated)

Spec == Init /\ [][Next]_vars
FairSpec == Spec /\ Fairness

=============================================================================
