----------------------------- MODULE DeliProofs -----------------------------
(***************************************************************************)
(* Proofs about the ordering service, for every value of the constants:    *)
(* the types of its state, that no interleaving of sends, checkpoints,     *)
(* commits and restarts loses a message, the collaboration window, that    *)
(* each operation lies between its client's join and leave and a client's  *)
(* operations are in the order of their numbers where producers repeat no  *)
(* join; and, whatever the restarts replay, that the numbers have no       *)
(* holes, that what is ticketed is one history of the raw topic, that the  *)
(* record in Mongo matches it, and that the topic implements TotalOrder.   *)
(***************************************************************************)
EXTENDS DeliProperties, Lemmas, FiniteSetTheorems

-----------------------------------------------------------------------------
(* The operators of the lambda.                                            *)

(* The minimum sequence number is a sequence number. *)
LEMMA MinimumType ==
    ASSUME NEW cl \in [Clients -> ClientStates \cup {None}], NEW seq \in Nat
    PROVE  MinimumOf(cl, seq) \in Nat
<1>1. CASE TrackedIn(cl) = {}
  BY <1>1 DEF MinimumOf
<1>2. CASE TrackedIn(cl) # {}
  <2>1. Refs(cl) \in SUBSET Nat
    BY DEF Refs, TrackedIn, ClientStates
  <2>2. Refs(cl) # {}
    BY <1>2 DEF Refs
  <2> QED
    BY <1>2, <2>1, <2>2, MinNat DEF MinimumOf
<1> QED
  BY <1>1, <1>2

(* Updating a client keeps the map's type, whoever the client is. *)
LEMMA UpsertType ==
    ASSUME clients \in [Clients -> ClientStates \cup {None}],
           NEW c, NEW n \in Nat, NEW ref \in Nat, NEW nack \in BOOLEAN
    PROVE  Upsert(c, n, ref, nack) \in [Clients -> ClientStates \cup {None}]
  BY DEF Upsert, ClientStates

LEMMA RemoveType ==
    ASSUME clients \in [Clients -> ClientStates \cup {None}], NEW c
    PROVE  Remove(c) \in [Clients -> ClientStates \cup {None}]
  BY DEF Remove

LEMMA ServerMessageType ==
    ASSUME NEW type \in Types \ {"Control"}, NEW data \in Clients \cup {None}
    PROVE  ServerMessage(type, data) \in RawMessages
  BY DEF ServerMessage, RawMessages, Types

LEMMA CheckpointType ==
    ASSUME logOffset \in Nat, sequenceNumber \in Nat, durableSequenceNumber \in Nat,
           clients \in [Clients -> ClientStates \cup {None}]
    PROVE  DeliCheckpoint \in Checkpoints
  BY DEF DeliCheckpoint, Checkpoints

(* What a restarted lambda starts from is a checkpoint. *)
LEMMA LastCheckpointType ==
    ASSUME db \in Checkpoints \cup {None, Cleared}, summary \in Checkpoints \cup {None}
    PROVE  LastCheckpoint \in Checkpoints
<1>1. DefaultCheckpoint \in Checkpoints
  BY DEF DefaultCheckpoint, Checkpoints
<1>2. summary # None => [summary EXCEPT !.logOffset = 0] \in Checkpoints
  BY DEF Checkpoints
<1> QED
  BY <1>1, <1>2 DEF LastCheckpoint

(* Writing to the raw topic closes no boxcar and empties none. *)
LEMMA EnqueueType ==
    ASSUME ConsumerTypeOK, frozen \in Nat, NEW m \in RawMessages, Enqueue(m),
           UNCHANGED <<position, cursor, logOffset>>
    PROVE  ConsumerTypeOK'
<1> DEFINE Boxcars == Seq(RawMessages) \ {<<>>}
<1>1. raw \in Seq(Boxcars)
  BY DEF ConsumerTypeOK
<1>2. CASE raw' = Append(raw, <<m>>)
  <2>1. <<m>> \in Boxcars
    OBVIOUS
  <2>2. raw' \in Seq(Boxcars)
    BY <1>1, <1>2, <2>1
  <2>3. \A o \in DOMAIN raw : o \in DOMAIN raw' /\ raw'[o] = raw[o]
    BY <1>1, <1>2
  <2> QED
    BY <2>2, <2>3 DEF ConsumerTypeOK
<1>3. CASE /\ Len(raw) > frozen
           /\ Len(raw[Len(raw)]) < MaxBoxcar
           /\ raw' = [raw EXCEPT ![Len(raw)] = Append(@, m)]
  <2>1. Len(raw) \in DOMAIN raw
    BY <1>1, <1>3
  <2>2. raw[Len(raw)] \in Seq(RawMessages)
    BY <1>1, <2>1
  <2>3. Append(raw[Len(raw)], m) \in Boxcars
    BY <2>2
  <2>4. raw' \in Seq(Boxcars)
    BY <1>1, <1>3, <2>1, <2>3
  <2>5. \A o \in DOMAIN raw : o \in DOMAIN raw' /\ DOMAIN raw[o] \subseteq DOMAIN raw'[o]
    <3> SUFFICES ASSUME NEW o \in DOMAIN raw
                 PROVE  o \in DOMAIN raw' /\ DOMAIN raw[o] \subseteq DOMAIN raw'[o]
      OBVIOUS
    <3>1. CASE o = Len(raw)
      <4>1. raw'[o] = Append(raw[o], m)
        BY <1>3, <3>1
      <4> QED
        BY <1>3, <2>2, <3>1, <4>1
    <3>2. CASE o # Len(raw)
      BY <1>3, <3>2
    <3> QED
      BY <3>1, <3>2
  <2> QED
    BY <2>4, <2>5 DEF ConsumerTypeOK
<1> QED
  BY <1>2, <1>3 DEF Enqueue

-----------------------------------------------------------------------------
(* Types: the parts of ticketing.                                          *)

LEMMA AdvanceType ==
    ASSUME NEW cl \in [Clients -> ClientStates \cup {None}], NEW seq \in Nat,
           Advance(cl, seq)
    PROVE  /\ clients' \in [Clients -> ClientStates \cup {None}]
           /\ sequenceNumber' \in Nat /\ minimumSequenceNumber' \in Nat
           /\ noActiveClients' \in BOOLEAN
  BY MinimumType DEF Advance

(* The state after a message, as the sends that carry it need it. *)
WindowTypeOK ==
    /\ clients \in [Clients -> ClientStates \cup {None}]
    /\ sequenceNumber \in Nat /\ durableSequenceNumber \in Nat
    /\ minimumSequenceNumber \in Nat
    /\ noActiveClients \in BOOLEAN

LEMMA SendImmediatelyType ==
    ASSUME SendsTypeOK, WindowTypeOK', NEW m \in RawMessages, NEW ref \in Nat \cup {-1},
           logOffset \in Nat, cursor \in Nat, logOffset' = logOffset,
           SendImmediately(m, ref)
    PROVE  /\ sending' \in Seq(OutputMessages)
           /\ lastSentMSN' \in Nat /\ noopTimer' \in BOOLEAN
<1>1. DeliCheckpoint' \in Checkpoints
  BY DEF DeliCheckpoint, Checkpoints, WindowTypeOK
<1>2. AdditionalContent(m) \in Checkpoints \cup {None}
  BY <1>1 DEF AdditionalContent
<1> DEFINE r == [kind |-> "op", type |-> m.type, clientId |-> m.clientId, csn |-> m.csn,
                 ref |-> ref, seq |-> sequenceNumber', msn |-> minimumSequenceNumber',
                 deli |-> AdditionalContent(m), src |-> Source]
<1>3. r \in OutputMessages
  BY <1>2 DEF OutputMessages, RawMessages, WindowTypeOK, Source
<1> HIDE DEF r
<1>4. sending' = Append(sending, r)
  BY DEF SendImmediately, r
<1>5. sending' \in Seq(OutputMessages)
  BY <1>3, <1>4 DEF SendsTypeOK
<1> QED
  BY <1>5 DEF SendImmediately, WindowTypeOK

LEMMA SendToAlfredType ==
    ASSUME SendsTypeOK, WindowTypeOK', NEW m \in RawMessages, SendToAlfred(m)
    PROVE  reverse' \in Seq(RawMessages)
<1>1. IdleLeaves(m) \subseteq Seq(RawMessages)
  <2>1. LeastRecent(clients') \subseteq Clients
    BY DEF LeastRecent, TrackedIn
  <2>2. \A c \in LeastRecent(clients') : ServerMessage("ClientLeave", c) \in RawMessages
    BY <2>1, ServerMessageType DEF Types
  <2>3. \A c \in LeastRecent(clients') :
            <<ServerMessage("ClientLeave", c)>> \in Seq(RawMessages)
    BY <2>2
  <2>4. <<>> \in Seq(RawMessages)
    OBVIOUS
  <2> QED
    BY <2>3, <2>4, Zenon DEF IdleLeaves
<1>2. ServerMessage("NoClient", None) \in RawMessages
  BY ServerMessageType DEF Types
<1> QED
  BY <1>1, <1>2 DEF SendToAlfred, SendsTypeOK

LEMMA SendNackType ==
    ASSUME SendsTypeOK, LambdaTypeOK, NEW m \in RawMessages,
           logOffset \in Nat, cursor \in Nat, SendNack(m)
    PROVE  /\ sending' \in Seq(OutputMessages) /\ reverse' \in Seq(RawMessages)
           /\ sequenceNumber' \in Nat /\ durableSequenceNumber' \in Nat
           /\ minimumSequenceNumber' \in Nat /\ lastSentMSN' \in Nat
           /\ lastInstruction' \in {"NoOp", "ClearCache"} /\ noActiveClients' \in BOOLEAN
           /\ noopTimer' \in BOOLEAN
<1>1. NackMessage(m) \in OutputMessages
  BY DEF NackMessage, OutputMessages, RawMessages, Source, LambdaTypeOK
<1>2. sending' \in Seq(OutputMessages)
  BY <1>1 DEF SendNack, SendsTypeOK
<1> QED
  BY <1>2 DEF SendNack, SendsTypeOK, LambdaTypeOK

-----------------------------------------------------------------------------
(* Types: each way ticket returns.                                         *)

LEMMA TicketTypes ==
    ASSUME ConsumerTypeOK, LambdaTypeOK, SendsTypeOK, Ticket
    PROVE  LambdaTypeOK' /\ SendsTypeOK'
<1> DEFINE m == Message
<1>1. m \in RawMessages
  BY DEF Message, Ticket, ConsumerTypeOK
<1>2. logOffset \in Nat /\ cursor \in Nat /\ logOffset' = logOffset /\ deltas' = deltas
  BY DEF ConsumerTypeOK, Ticket, UnchangedByTicket, logs, consumer
<1> HIDE DEF m
<1>a. ASSUME WindowTypeOK', reverse' \in Seq(RawMessages), sending' \in Seq(OutputMessages),
             lastSentMSN' \in Nat, noopTimer' \in BOOLEAN,
             lastInstruction' \in {"NoOp", "ClearCache"}
      PROVE  LambdaTypeOK' /\ SendsTypeOK'
  BY <1>2, <1>a DEF WindowTypeOK, LambdaTypeOK, SendsTypeOK
<1>b. ASSUME NEW ref \in Nat \cup {-1}, WindowTypeOK', SendImmediately(m, ref),
             Ticketed(m, "NoOp")
      PROVE  LambdaTypeOK' /\ SendsTypeOK'
  <2>1. reverse' \in Seq(RawMessages)
    BY <1>1, <1>b, SendToAlfredType DEF Ticketed
  <2>2. /\ sending' \in Seq(OutputMessages)
        /\ lastSentMSN' \in Nat /\ noopTimer' \in BOOLEAN
    BY <1>1, <1>2, <1>b, SendImmediatelyType
  <2> QED
    BY <1>a, <1>b, <2>1, <2>2 DEF Ticketed
<1>c. ASSUME NEW i \in {"NoOp", "ClearCache"}, WindowTypeOK', SendNever \/ SendLater,
             Ticketed(m, i)
      PROVE  LambdaTypeOK' /\ SendsTypeOK'
  <2>1. reverse' \in Seq(RawMessages)
    BY <1>1, <1>c, SendToAlfredType DEF Ticketed
  <2> QED
    BY <1>a, <1>c, <2>1
    DEF Ticketed, SendNever, SendLater, LambdaTypeOK, SendsTypeOK, WindowTypeOK
<1>d. ASSUME SendNack(m), clients' \in [Clients -> ClientStates \cup {None}]
      PROVE  LambdaTypeOK' /\ SendsTypeOK'
  BY <1>1, <1>2, <1>d, SendNackType DEF LambdaTypeOK, SendsTypeOK
<1>e. /\ clients \in [Clients -> ClientStates \cup {None}]
      /\ sequenceNumber \in Nat /\ sequenceNumber + 1 \in Nat /\ durableSequenceNumber \in Nat
  BY DEF LambdaTypeOK
<1>g. ASSUME NEW cl \in [Clients -> ClientStates \cup {None}], NEW seq \in Nat,
             Advance(cl, seq), durableSequenceNumber' \in Nat
      PROVE  WindowTypeOK'
  BY <1>g, AdvanceType DEF WindowTypeOK
(* A message that is accepted is the next one of a tracked client.  *)
<1>f. ASSUME FromClient(m), ~Nonexistent(m)
      PROVE  m.csn \in Nat /\ m.ref \in Nat \cup {-1}
  <2>1. m.clientId \in Tracked /\ clients[m.clientId] \in ClientStates
    BY <1>e, <1>f DEF Nonexistent, Tracked, TrackedIn
  <2> QED
    BY <1>1, <1>f, <2>1 DEF FromClient, Order, ClientStates, RawMessages
<1>3. CASE TicketDuplicate(m)
  BY <1>2, <1>3 DEF TicketDuplicate, LambdaTypeOK, SendsTypeOK, lambda, window, inFlight
<1>4. CASE TicketLeaveOfUnknown(m)
  BY <1>2, <1>4 DEF TicketLeaveOfUnknown, LambdaTypeOK, SendsTypeOK, lambda, window, inFlight
<1>5. CASE TicketRepeatedJoin(m)
  <2>1. clients' \in [Clients -> ClientStates \cup {None}]
    BY <1>5, <1>e, UpsertType DEF TicketRepeatedJoin, JoinReference, LambdaTypeOK
  <2> QED
    BY <1>2, <1>5, <2>1 DEF TicketRepeatedJoin, LambdaTypeOK, SendsTypeOK, inFlight
<1>6. CASE TicketGap(m)
  BY <1>6, <1>d, <1>e DEF TicketGap
<1>7. CASE TicketNonexistent(m)
  BY <1>7, <1>d, <1>e DEF TicketNonexistent
<1>8. CASE TicketBelowWindow(m)
  <2>1. clients' \in [Clients -> ClientStates \cup {None}]
    BY <1>8, <1>e, <1>f, UpsertType DEF TicketBelowWindow, LambdaTypeOK
  <2> QED
    BY <1>8, <1>d, <2>1 DEF TicketBelowWindow
<1>9. CASE TicketForbidden(m)
  BY <1>9, <1>d, <1>e DEF TicketForbidden
<1>10. CASE TicketJoin(m)
  <2>1. Upsert(m.data, 0, JoinReference, FALSE) \in [Clients -> ClientStates \cup {None}]
    BY <1>e, UpsertType DEF JoinReference, LambdaTypeOK
  <2>2. WindowTypeOK'
    BY <1>10, <2>1, <1>e, <1>g DEF TicketJoin
  <2> QED
    BY <1>1, <1>10, <1>b, <2>2 DEF TicketJoin, RawMessages
<1>11. CASE TicketLeave(m)
  <2>1. Remove(m.data) \in [Clients -> ClientStates \cup {None}]
    BY <1>e, RemoveType
  <2>2. WindowTypeOK'
    BY <1>11, <2>1, <1>e, <1>g DEF TicketLeave
  <2> QED
    BY <1>1, <1>11, <1>b, <2>2 DEF TicketLeave, RawMessages
<1>12. CASE TicketClientOp(m)
  <2> DEFINE ref == IF m.ref = -1 THEN sequenceNumber + 1 ELSE m.ref
  <2>1. ref \in Nat /\ m.csn \in Nat
    BY <1>12, <1>f DEF TicketClientOp, Accepted, LambdaTypeOK
  <2> HIDE DEF ref
  <2>2. Upsert(m.clientId, m.csn, ref, FALSE) \in [Clients -> ClientStates \cup {None}]
    BY <1>e, <2>1, UpsertType
  <2>3. /\ Advance(Upsert(m.clientId, m.csn, ref, FALSE), sequenceNumber + 1)
        /\ SendImmediately(m, ref)
        /\ Ticketed(m, "NoOp") /\ durableSequenceNumber' = durableSequenceNumber
    BY <1>12 DEF TicketClientOp, ref
  <2>4. WindowTypeOK'
    BY <2>2, <2>3, <1>e, <1>g
  <2> QED
    BY <1>b, <2>1, <2>3, <2>4
<1>13. CASE TicketClientNoOp(m)
  <2>1. m.ref \in Nat /\ m.csn \in Nat
    BY <1>13, <1>f DEF TicketClientNoOp, Accepted, LambdaTypeOK
  <2>2. Upsert(m.clientId, m.csn, m.ref, FALSE) \in [Clients -> ClientStates \cup {None}]
    BY <1>e, <2>1, UpsertType
  <2> DEFINE send == /\ m.immediate
                     /\ MinimumOf(Upsert(m.clientId, m.csn, m.ref, FALSE), sequenceNumber)
                            > lastSentMSN
  <2>3. /\ Advance(Upsert(m.clientId, m.csn, m.ref, FALSE),
                   IF send THEN sequenceNumber + 1 ELSE sequenceNumber)
        /\ IF send THEN SendImmediately(m, m.ref) ELSE SendLater
        /\ Ticketed(m, "NoOp") /\ durableSequenceNumber' = durableSequenceNumber
    BY <1>13 DEF TicketClientNoOp
  <2> HIDE DEF send
  <2>4. (IF send THEN sequenceNumber + 1 ELSE sequenceNumber) \in Nat
    BY DEF LambdaTypeOK
  <2>5. WindowTypeOK'
    BY <2>2, <2>3, <2>4, <1>e, <1>g
  <2> QED
    BY <1>b, <1>c, <2>1, <2>3, <2>5
<1>14. CASE TicketServerNoOp(m)
  <2>1. /\ clients' = clients /\ durableSequenceNumber' = durableSequenceNumber
        /\ minimumSequenceNumber' = MinimumOf(clients, sequenceNumber)
        /\ noActiveClients' = (Tracked = {})
        /\ \/ sequenceNumber' = sequenceNumber + 1 /\ SendImmediately(m, m.ref)
           \/ sequenceNumber' = sequenceNumber /\ SendNever
        /\ Ticketed(m, "NoOp")
    BY <1>14 DEF TicketServerNoOp
  <2>2. WindowTypeOK'
    BY <1>e, <2>1, MinimumType DEF WindowTypeOK, LambdaTypeOK
  <2>3. m.ref \in Nat \cup {-1}
    BY <1>1 DEF RawMessages
  <2> QED
    BY <1>b, <1>c, <2>1, <2>2, <2>3
<1>15. CASE TicketNoClient(m)
  <2>1. /\ durableSequenceNumber' = durableSequenceNumber
        /\ \/ Advance(clients, sequenceNumber + 1) /\ SendImmediately(m, sequenceNumber')
           \/ Advance(clients, sequenceNumber) /\ SendNever
        /\ Ticketed(m, "NoOp")
    BY <1>15 DEF TicketNoClient
  <2>2. WindowTypeOK'
    BY <2>1, <1>e, <1>g
  <2> QED
    BY <1>b, <1>c, <2>1, <2>2 DEF WindowTypeOK
<1>16. CASE TicketControl(m)
  <2>1. durableSequenceNumber' \in Nat
    BY <1>1, <1>16 DEF TicketControl, RawMessages, ControlData
  <2>2. WindowTypeOK'
    BY <1>16, <2>1, <1>e, <1>g DEF TicketControl
  <2> QED
    BY <1>16, <1>c, <2>2 DEF TicketControl
<1> QED
  BY <1>3, <1>4, <1>5, <1>6, <1>7, <1>8, <1>9, <1>10, <1>11, <1>12, <1>13, <1>14, <1>15,
     <1>16 DEF Ticket, m

-----------------------------------------------------------------------------
(* Types: the actions.                                                     *)

LEMMA TicketTypeStep ==
    ASSUME TypeOK, Ticket
    PROVE  TypeOK'
<1>1. LambdaTypeOK' /\ SendsTypeOK'
  BY TicketTypes DEF TypeOK
<1>2. /\ raw' = raw /\ position' = position /\ logOffset' = logOffset
      /\ updating' = updating /\ queued' = queued /\ committed' = committed
      /\ db' = db /\ summary' = summary /\ deltas' = deltas
      /\ EnvironmentTypeOK' /\ EndOfMessage /\ cursor # 0
  BY DEF Ticket, UnchangedByTicket, logs, consumer, checkpointing, environment, TypeOK,
         EnvironmentTypeOK
<1>3. logOffset \in DOMAIN raw /\ cursor \in DOMAIN raw[logOffset]
  BY <1>2 DEF TypeOK, ConsumerTypeOK
<1>4. raw[logOffset] \in Seq(RawMessages)
  BY <1>3 DEF TypeOK, ConsumerTypeOK
<1>5. CASE cursor < Len(raw[logOffset])
  <2>1. cursor' = cursor + 1 /\ waiting' = waiting /\ idleTimer' = idleTimer
    BY <1>2, <1>5 DEF EndOfMessage
  <2>2. cursor + 1 \in DOMAIN raw[logOffset]
    BY <1>3, <1>4, <1>5
  <2>3. ConsumerTypeOK'
    BY <1>2, <1>3, <2>1, <2>2 DEF TypeOK, ConsumerTypeOK
  <2> QED
    BY <1>1, <1>2, <2>1, <2>3 DEF TypeOK, CheckpointTypeOK
<1>6. CASE ~(cursor < Len(raw[logOffset]))
  <2>1. /\ cursor' = 0 /\ waiting' = Append(waiting, CheckpointAfterSends)
        /\ idleTimer' \in BOOLEAN
    BY <1>2, <1>6 DEF EndOfMessage
  <2>2. DeliCheckpoint' \in Checkpoints
    BY <1>1, <1>2 DEF DeliCheckpoint, Checkpoints, LambdaTypeOK, TypeOK, ConsumerTypeOK
  <2>3. Len(deltas) + Len(sending') \in Nat
    BY <1>1, <1>2 DEF SendsTypeOK
  <2>4. CheckpointAfterSends \in [deli : Checkpoints, after : Nat]
    BY <2>2, <2>3 DEF CheckpointAfterSends
  <2>5. waiting' \in Seq([deli : Checkpoints, after : Nat])
    BY <2>1, <2>4 DEF TypeOK, CheckpointTypeOK
  <2>6. ConsumerTypeOK'
    BY <1>2, <2>1 DEF TypeOK, ConsumerTypeOK
  <2> QED
    BY <1>1, <1>2, <2>1, <2>5, <2>6 DEF TypeOK, CheckpointTypeOK
<1> QED
  BY <1>5, <1>6

(* What the environment does to the raw topic keeps the types of the rest. *)
LEMMA EnvironmentTypeStep ==
    ASSUME TypeOK, NEW m \in RawMessages, Enqueue(m), UnchangedByEnvironment,
           summary' \in Checkpoints \cup {None}, serviced' \in Nat,
           connection' \in [Clients -> {"new", "connected", "left"}],
           csn' \in [Clients -> Nat], seen' \in [Clients -> Nat],
           UNCHANGED <<lost, repeated>>
    PROVE  TypeOK'
<1>1. ConsumerTypeOK'
  BY EnqueueType DEF TypeOK, EnvironmentTypeOK, UnchangedByEnvironment, consumer
<1> QED
  BY <1>1 DEF TypeOK, LambdaTypeOK, SendsTypeOK, CheckpointTypeOK, EnvironmentTypeOK,
              UnchangedByEnvironment, lambda, window, consumer, inFlight, checkpointing

LEMMA HeadTailType ==
    ASSUME NEW S, NEW s \in Seq(S), s # <<>>
    PROVE  Head(s) \in S /\ Tail(s) \in Seq(S)
  OBVIOUS

LEMMA TypeInit == Init => TypeOK
<1> SUFFICES ASSUME Init PROVE TypeOK
  OBVIOUS
<1>1. ConsumerTypeOK
  BY DEF Init, ConsumerTypeOK
<1>2. LambdaTypeOK /\ idleTimer \in BOOLEAN
  BY DEF Init, LambdaTypeOK, DefaultCheckpoint
<1>3. SendsTypeOK
  BY DEF Init, SendsTypeOK
<1>4. CheckpointTypeOK
  BY DEF Init, CheckpointTypeOK
<1>5. EnvironmentTypeOK
  BY DEF Init, EnvironmentTypeOK
<1> QED
  BY <1>1, <1>2, <1>3, <1>4, <1>5 DEF TypeOK

LEMMA ProcessTypeStep ==
    ASSUME TypeOK, Process
    PROVE  TypeOK'
<1> USE DEF TypeOK, logs, window, lambda, consumer, inFlight, checkpointing, environment
<1>1. CASE Deliver
  <2>1. ConsumerTypeOK'
    <3>1. position \in DOMAIN raw
      BY <1>1 DEF Deliver, ConsumerTypeOK
    <3>2. raw[position] \in Seq(RawMessages) \ {<<>>}
      BY <3>1 DEF ConsumerTypeOK
    <3>3. 1 \in DOMAIN raw[position]
      BY <3>2
    <3> QED
      BY <1>1, <3>1, <3>3 DEF Deliver, ConsumerTypeOK
  <2>2. LambdaTypeOK' /\ SendsTypeOK' /\ CheckpointTypeOK' /\ idleTimer' \in BOOLEAN
    BY <1>1 DEF Deliver, LambdaTypeOK, SendsTypeOK, CheckpointTypeOK
  <2>3. EnvironmentTypeOK'
    BY <1>1 DEF Deliver, EnvironmentTypeOK, ConsumerTypeOK
  <2> QED
    BY <2>1, <2>2, <2>3
<1>2. CASE Ticket
  BY <1>2, TicketTypeStep
<1>3. ServerMessage("NoOp", None) \in RawMessages
  BY ServerMessageType DEF Types
<1>3a. reverse \in Seq(RawMessages) /\ Append(reverse, ServerMessage("NoOp", None)) \in Seq(RawMessages)
  BY <1>3 DEF SendsTypeOK
<1>4. CASE IdleTimerFires
  BY <1>3a, <1>4 DEF IdleTimerFires, ConsumerTypeOK, LambdaTypeOK, SendsTypeOK,
                    CheckpointTypeOK, EnvironmentTypeOK
<1>5. CASE NoopTimerFires
  BY <1>3a, <1>5 DEF NoopTimerFires, ConsumerTypeOK, LambdaTypeOK, SendsTypeOK,
                    CheckpointTypeOK, EnvironmentTypeOK
<1>6. CASE ForwardProduced
  <2>1. SendsTypeOK'
    BY <1>6 DEF ForwardProduced, SendsTypeOK
  <2> QED
    BY <1>6, <2>1 DEF ForwardProduced, ConsumerTypeOK, LambdaTypeOK, CheckpointTypeOK,
                      EnvironmentTypeOK
<1>7. CASE ReverseProduced
  <2>1. Head(reverse) \in RawMessages /\ Tail(reverse) \in Seq(RawMessages)
    BY <1>7, HeadTailType DEF ReverseProduced, SendsTypeOK
  <2>2. ConsumerTypeOK'
    BY <1>7, <2>1, EnqueueType DEF ReverseProduced, EnvironmentTypeOK
  <2> QED
    BY <1>7, <2>1, <2>2 DEF ReverseProduced, LambdaTypeOK, SendsTypeOK, CheckpointTypeOK,
                            EnvironmentTypeOK
<1>8. CASE CheckpointReady
  <2>1. CheckpointTypeOK'
    <3>1. /\ Head(waiting) \in [deli : Checkpoints, after : Nat]
          /\ Tail(waiting) \in Seq([deli : Checkpoints, after : Nat])
      BY <1>8, HeadTailType DEF CheckpointReady, CheckpointTypeOK
    <3> DEFINE checkpoint == [deli |-> Head(waiting).deli,
                              clear |-> lastInstruction = "ClearCache", stored |-> FALSE]
    <3>2. checkpoint \in CheckpointParams
      BY <3>1 DEF CheckpointParams
    <3> HIDE DEF checkpoint
    <3>3. /\ waiting' = Tail(waiting)
          /\ updating' \in {updating, checkpoint} /\ queued' \in {queued, checkpoint}
          /\ UNCHANGED <<committed, db, summary>>
      BY <1>8 DEF CheckpointReady, CheckpointOf, checkpoint
    <3> QED
      BY <3>1, <3>2, <3>3 DEF CheckpointTypeOK
  <2> QED
    BY <1>8, <2>1 DEF CheckpointReady, ConsumerTypeOK, LambdaTypeOK, SendsTypeOK,
                      EnvironmentTypeOK
<1>9. CASE Update
  <2>1. CheckpointTypeOK'
    BY <1>9 DEF Update, CheckpointTypeOK, CheckpointParams
  <2> QED
    BY <1>9, <2>1 DEF Update, ConsumerTypeOK, LambdaTypeOK, SendsTypeOK, EnvironmentTypeOK
<1>10. CASE Updated
  <2>1. CheckpointTypeOK'
    BY <1>10 DEF Updated, CheckpointTypeOK, CheckpointParams, Checkpoints
  <2> QED
    BY <1>10, <2>1 DEF Updated, ConsumerTypeOK, LambdaTypeOK, SendsTypeOK, EnvironmentTypeOK
<1> QED
  BY <1>1, <1>2, <1>4, <1>5, <1>6, <1>7, <1>8, <1>9, <1>10 DEF Process

LEMMA RestartTypeStep ==
    ASSUME TypeOK, Restart
    PROVE  TypeOK'
<1>1. LastCheckpoint \in Checkpoints
  BY LastCheckpointType DEF TypeOK, CheckpointTypeOK
<1>2. LambdaTypeOK'
  <2>1. MinimumOf(LastCheckpoint.clients, LastCheckpoint.sequenceNumber) \in Nat
    BY <1>1, MinimumType DEF Checkpoints
  <2> QED
    BY <1>1, <2>1 DEF Restart, LambdaTypeOK, Checkpoints
<1>3. ConsumerTypeOK'
  BY <1>1 DEF Restart, logs, TypeOK, ConsumerTypeOK, CheckpointTypeOK, Checkpoints
<1>4. SendsTypeOK' /\ idleTimer' \in BOOLEAN
  <2>1. /\ sending' = <<>> /\ reverse' = <<>> /\ deltas' = deltas /\ idleTimer' = FALSE
    BY DEF Restart, logs
  <2>2. <<>> \in Seq(OutputMessages) /\ <<>> \in Seq(RawMessages)
    OBVIOUS
  <2> QED
    BY <2>1, <2>2 DEF TypeOK, SendsTypeOK
<1>6. CheckpointTypeOK'
  <2>1. waiting' = <<>> /\ updating' = None /\ queued' = None
        /\ UNCHANGED <<committed, db, summary>>
    BY DEF Restart, logs
  <2> QED
    BY <2>1 DEF TypeOK, CheckpointTypeOK
<1>5. EnvironmentTypeOK'
  BY DEF Restart, TypeOK, EnvironmentTypeOK
<1> QED
  BY <1>2, <1>3, <1>4, <1>5, <1>6 DEF TypeOK

LEMMA SequencedType ==
    ASSUME TypeOK, NEW i \in Sequenced
    PROVE  deltas[i].seq \in Nat /\ deltas[i].deli \in Checkpoints \cup {None}
<1>1. deltas[i] \in OutputMessages
  BY DEF Sequenced, TypeOK, SendsTypeOK
<1> QED
  BY <1>1 DEF OutputMessages

LEMMA ExternalTypeStep ==
    ASSUME TypeOK, Environment
    PROVE  TypeOK'
<1> USE DEF EnvironmentTypeOK
<1>0. EnvironmentTypeOK /\ summary \in Checkpoints \cup {None}
  BY DEF TypeOK, CheckpointTypeOK
<1>1. ASSUME NEW c \in Clients, Connect(c) PROVE TypeOK'
  <2>1. ServerMessage("ClientJoin", c) \in RawMessages
    BY ServerMessageType DEF Types
  <2> QED
    BY <1>0, <1>1, <2>1, EnvironmentTypeStep DEF Connect
<1>2. ASSUME NEW c \in Clients, Disconnect(c) PROVE TypeOK'
  <2>1. ServerMessage("ClientLeave", c) \in RawMessages
    BY ServerMessageType DEF Types
  <2> QED
    BY <1>0, <1>2, <2>1, EnvironmentTypeStep DEF Disconnect
<1>3. ASSUME NEW c \in Clients, LoseMessage(c) PROVE TypeOK'
  BY <1>3 DEF LoseMessage, UnchangedByEnvironment, TypeOK, ConsumerTypeOK, LambdaTypeOK,
              SendsTypeOK, CheckpointTypeOK, lambda, window, consumer, inFlight, checkpointing
<1>4. ASSUME NEW c \in Clients, NEW kind \in ClientOps, Submit(c, kind) PROVE TypeOK'
  <2>1. PICK ref \in {0} \cup {deltas[i].seq : i \in Sequenced}, direct \in BOOLEAN :
            /\ seen' = [seen EXCEPT ![c] = ref]
            /\ Enqueue(ClientMessage(IF kind = "NoOpImmediate" THEN "NoOp" ELSE kind,
                                     c, csn[c] + 1, IF direct THEN -1 ELSE ref,
                                     kind = "NoOpImmediate"))
    BY <1>4 DEF Submit
  <2> DEFINE m == ClientMessage(IF kind = "NoOpImmediate" THEN "NoOp" ELSE kind,
                                c, csn[c] + 1, IF direct THEN -1 ELSE ref,
                                kind = "NoOpImmediate")
  <2>2. ref \in Nat
    BY SequencedType
  <2>3. csn[c] + 1 \in Nat
    BY <1>0
  <2>4. (IF kind = "NoOpImmediate" THEN "NoOp" ELSE kind) \in Types \ {"Control"}
    BY DeliConstants DEF ClientKinds, Types
  <2>5. m \in RawMessages
    BY <2>2, <2>3, <2>4 DEF ClientMessage, RawMessages
  <2> HIDE DEF m
  <2>6. Enqueue(m)
    BY <2>1 DEF m
  <2>7. seen' \in [Clients -> Nat] /\ csn' \in [Clients -> Nat]
    BY <1>0, <1>4, <2>1, <2>2 DEF Submit
  <2> QED
    BY <1>0, <1>4, <2>5, <2>6, <2>7, EnvironmentTypeStep DEF Submit
<1>5. ASSUME RepeatBoxcar PROVE TypeOK'
  <2>1. PICK o \in DOMAIN raw : raw' = Append(raw, raw[o])
    BY <1>5 DEF RepeatBoxcar
  <2>2. raw' \in Seq(Seq(RawMessages) \ {<<>>})
    BY <2>1 DEF TypeOK, ConsumerTypeOK
  <2>3. \A i \in DOMAIN raw : i \in DOMAIN raw' /\ raw'[i] = raw[i]
    BY <2>1 DEF TypeOK, ConsumerTypeOK
  <2>4. ConsumerTypeOK'
    BY <1>5, <2>2, <2>3 DEF TypeOK, ConsumerTypeOK, RepeatBoxcar, UnchangedByEnvironment,
                            consumer
  <2> QED
    BY <1>5, <2>4 DEF RepeatBoxcar, UnchangedByEnvironment, TypeOK, LambdaTypeOK, SendsTypeOK,
                      CheckpointTypeOK, lambda, window, consumer, inFlight, checkpointing
<1>6. ASSUME ServiceSummary PROVE TypeOK'
  <2>1. PICK i \in Sequenced :
            /\ summary' = deltas[i].deli /\ serviced' = deltas[i].seq
            /\ Enqueue(ServerMessage("Control",
                  [durableSequenceNumber |-> deltas[i].seq,
                   clearCache |-> ClearCacheAfterServiceSummary]))
    BY <1>6 DEF ServiceSummary
  <2>2. deltas[i].seq \in Nat /\ deltas[i].deli \in Checkpoints \cup {None}
    BY SequencedType
  <2> DEFINE data == [durableSequenceNumber |-> deltas[i].seq,
                      clearCache |-> ClearCacheAfterServiceSummary]
  <2>3. data \in ControlData
    BY <2>2, DeliConstants DEF ControlData
  <2> HIDE DEF data
  <2>4. ServerMessage("Control", data) \in RawMessages
    BY <2>3 DEF ServerMessage, RawMessages, Types
  <2>5. Enqueue(ServerMessage("Control", data))
    BY <2>1 DEF data
  <2> QED
    BY <1>0, <1>6, <2>1, <2>2, <2>4, <2>5, EnvironmentTypeStep DEF ServiceSummary
<1> QED
  BY <1>1, <1>2, <1>3, <1>4, <1>5, <1>6 DEF Environment

LEMMA TypeStep ==
    ASSUME TypeOK, [Next]_vars
    PROVE  TypeOK'
<1>1. CASE UNCHANGED vars
  BY <1>1 DEF vars, logs, lambda, window, consumer, inFlight, checkpointing, environment,
              TypeOK, ConsumerTypeOK, LambdaTypeOK, SendsTypeOK, CheckpointTypeOK,
              EnvironmentTypeOK
<1> QED
  BY <1>1, ProcessTypeStep, RestartTypeStep, ExternalTypeStep DEF Next

(* The state has its types in every reachable state: in particular the     *)
(* minimum sequence number is never the -1 of an empty heap, the state a   *)
(* restart begins with is one the lambda wrote, and the handler never      *)
(* reads beyond its boxcar.                                                *)
THEOREM TypeCorrect == Spec => []TypeOK
  BY TypeInit, TypeStep, PTL DEF Spec

-----------------------------------------------------------------------------
(* Checkpoints.                                                            *)

LEMMA ElementType ==
    ASSUME NEW S, NEW s \in Seq(S), NEW i \in DOMAIN s
    PROVE  s[i] \in S
  OBVIOUS

LEMMA InProgressType ==
    ASSUME TypeOK
    PROVE  /\ \A d \in InProgress : d.logOffset \in Nat
           /\ \A k \in DOMAIN waiting :
                 /\ waiting[k].deli \in InProgress /\ waiting[k].deli.logOffset \in Nat
                 /\ waiting[k].after \in Nat
           /\ updating # None =>
                 updating.deli \in InProgress /\ updating.deli.logOffset \in Nat
           /\ queued # None => queued.deli \in InProgress /\ queued.deli.logOffset \in Nat
<1>1. \A k \in DOMAIN waiting : waiting[k] \in [deli : Checkpoints, after : Nat]
  BY ElementType DEF TypeOK, CheckpointTypeOK
<1>2. (updating # None => updating \in CheckpointParams)
      /\ (queued # None => queued \in CheckpointParams)
  BY DEF TypeOK, CheckpointTypeOK
<1>3. \A d \in InProgress : d \in Checkpoints
  BY <1>1, <1>2 DEF InProgress, CheckpointParams
<1> QED
  BY <1>1, <1>2, <1>3 DEF InProgress, CheckpointParams, Checkpoints

LEMMA SendingType ==
    ASSUME TypeOK, NEW i \in DOMAIN sending
    PROVE  sending[i].src[1] \in Nat
<1>1. sending[i] \in OutputMessages
  BY DEF TypeOK, SendsTypeOK
<1> QED
  BY <1>1 DEF OutputMessages

(* Every send of the handler belongs to the message it is ticketing. *)
LEMMA TicketSends ==
    ASSUME Ticket
    PROVE  \/ sending' = sending
           \/ \E r : r.src = Source /\ sending' = Append(sending, r)
<1>1. ASSUME NEW m, NEW ref, SendImmediately(m, ref)
      PROVE  \E r : r.src = Source /\ sending' = Append(sending, r)
  <2> DEFINE r == [kind |-> "op", type |-> m.type, clientId |-> m.clientId, csn |-> m.csn,
                   ref |-> ref, seq |-> sequenceNumber', msn |-> minimumSequenceNumber',
                   deli |-> AdditionalContent(m), src |-> Source]
  <2>1. r.src = Source
    OBVIOUS
  <2>2. sending' = Append(sending, r)
    BY <1>1 DEF SendImmediately
  <2> QED
    BY <2>1, <2>2
<1>2. ASSUME NEW m, SendNack(m)
      PROVE  \E r : r.src = Source /\ sending' = Append(sending, r)
  <2>1. NackMessage(m).src = Source
    BY DEF NackMessage
  <2> QED
    BY <1>2, <2>1 DEF SendNack
<1>3. SendNever \/ SendLater => sending' = sending
  BY DEF SendNever, SendLater
<1> DEFINE m == Message
<1>4. CASE TicketDuplicate(m) \/ TicketLeaveOfUnknown(m) \/ TicketRepeatedJoin(m)
  BY <1>4 DEF TicketDuplicate, TicketLeaveOfUnknown, TicketRepeatedJoin, inFlight
<1>5. CASE TicketGap(m) \/ TicketNonexistent(m) \/ TicketBelowWindow(m) \/ TicketForbidden(m)
  BY <1>2, <1>5 DEF TicketGap, TicketNonexistent, TicketBelowWindow, TicketForbidden
<1>6. CASE TicketJoin(m) \/ TicketLeave(m) \/ TicketClientOp(m)
  BY <1>1, <1>6 DEF TicketJoin, TicketLeave, TicketClientOp
<1>7. CASE TicketClientNoOp(m)
  BY <1>1, <1>3, <1>7 DEF TicketClientNoOp
<1>8. CASE TicketServerNoOp(m) \/ TicketNoClient(m) \/ TicketControl(m)
  BY <1>1, <1>3, <1>8 DEF TicketServerNoOp, TicketNoClient, TicketControl
<1> QED
  BY <1>4, <1>5, <1>6, <1>7, <1>8 DEF Ticket

LEMMA CheckpointInit == Init => CheckpointInv
<1> SUFFICES ASSUME Init PROVE CheckpointInv
  OBVIOUS
<1>1. /\ position = 1 /\ cursor = 0 /\ committed = 0 /\ db = None
      /\ updating = None /\ queued = None /\ waiting = <<>> /\ sending = <<>>
  BY DEF Init
<1>2. InProgress = {}
  BY <1>1 DEF InProgress
<1> QED
  BY <1>1, <1>2 DEF CheckpointInv, HandlerPosition, CheckpointsBehind, CheckpointsOrdered,
                    StoredIsRecord, SendsAhead, CommitFollowsRecord

LEMMA CheckpointUnchanged ==
    ASSUME CheckpointInv,
           UNCHANGED <<position, cursor, logOffset, committed, db, updating, queued, waiting,
                       sending, deltas>>
    PROVE  CheckpointInv'
  BY DEF CheckpointInv, HandlerPosition, CheckpointsBehind, CheckpointsOrdered,
         StoredIsRecord, SendsAhead, AheadOfCheckpoints, CommitFollowsRecord, InProgress,
         ReplayedAfter

LEMMA TicketCheckpointStep ==
    ASSUME TypeOK, TypeOK', CheckpointInv, Ticket
    PROVE  CheckpointInv'
<1>1. /\ position' = position /\ logOffset' = logOffset /\ committed' = committed
      /\ db' = db /\ updating' = updating /\ queued' = queued /\ deltas' = deltas
      /\ cursor # 0 /\ EndOfMessage
  BY DEF Ticket, UnchangedByTicket, logs, consumer, checkpointing
<1>2. /\ position \in Nat /\ logOffset \in Nat /\ cursor \in Nat /\ committed \in Nat
      /\ committed < logOffset /\ position = logOffset + 1
  BY <1>1 DEF TypeOK, ConsumerTypeOK, CheckpointTypeOK, CheckpointInv, HandlerPosition
<1>3. \A d \in InProgress : d.logOffset \in Nat /\ d.logOffset < logOffset /\ committed <= d.logOffset
  BY <1>1, InProgressType DEF CheckpointInv, CheckpointsBehind
<1>4. ReplayedAfter < logOffset /\ ReplayedAfter' = ReplayedAfter
  BY <1>1, <1>2 DEF ReplayedAfter, CheckpointInv, CheckpointsBehind
(* What is sent by now is ahead of the checkpoints before the step. *)
<1>5. \A i \in DOMAIN sending' : AheadOfCheckpoints(sending'[i].src[1], Len(deltas) + i)
  <2>1. CASE sending' = sending
    BY <2>1 DEF CheckpointInv, SendsAhead
  <2>2. ASSUME NEW r, r.src = Source, sending' = Append(sending, r)
        PROVE  \A i \in DOMAIN sending' : AheadOfCheckpoints(sending'[i].src[1], Len(deltas) + i)
    <3>1. sending \in Seq(OutputMessages)
      BY DEF TypeOK, SendsTypeOK
    <3>2. \A i \in DOMAIN sending' :
              (i \in DOMAIN sending /\ sending'[i] = sending[i]) \/ sending'[i] = r
      BY <2>2, <3>1
    <3>3. r.src[1] = logOffset
      BY <2>2 DEF Source
    <3>4. \A n : AheadOfCheckpoints(logOffset, n)
      BY <1>2, <1>3, <1>4, InProgressType DEF AheadOfCheckpoints
    <3> QED
      BY <3>2, <3>3, <3>4 DEF CheckpointInv, SendsAhead
  <2> QED
    BY <2>1, <2>2, TicketSends
<1>6. StoredIsRecord' /\ CommitFollowsRecord'
  BY <1>1 DEF CheckpointInv, StoredIsRecord, CommitFollowsRecord
<1>7. CASE cursor < Len(raw[logOffset])
  <2>1. cursor' = cursor + 1 /\ waiting' = waiting
    BY <1>1, <1>7 DEF EndOfMessage
  <2>2. InProgress' = InProgress
    BY <1>1, <2>1 DEF InProgress
  <2>3. HandlerPosition' /\ CheckpointsBehind' /\ CheckpointsOrdered'
    BY <1>1, <1>2, <2>1, <2>2 DEF CheckpointInv, HandlerPosition, CheckpointsBehind, CheckpointsOrdered
  <2>4. SendsAhead'
    BY <1>1, <1>4, <1>5, <2>1 DEF SendsAhead, AheadOfCheckpoints
  <2> QED
    BY <1>6, <2>3, <2>4 DEF CheckpointInv
<1>8. CASE ~(cursor < Len(raw[logOffset]))
  <2> DEFINE w == CheckpointAfterSends
  <2>1. cursor' = 0 /\ waiting' = Append(waiting, w)
    BY <1>1, <1>8 DEF EndOfMessage
  <2>2. w.deli.logOffset = logOffset /\ w.after = Len(deltas) + Len(sending')
    BY <1>1 DEF CheckpointAfterSends, DeliCheckpoint
  <2> HIDE DEF w
  <2>3. waiting \in Seq([deli : Checkpoints, after : Nat])
    BY DEF TypeOK, CheckpointTypeOK
  <2>4. \A k \in DOMAIN waiting' :
            \/ k \in DOMAIN waiting /\ waiting'[k] = waiting[k]
            \/ k = Len(waiting) + 1 /\ waiting'[k] = w
    BY <2>1, <2>3
  <2>5. \A d \in InProgress' : d \in InProgress \/ d = w.deli
    BY <1>1, <2>4 DEF InProgress
  <2>6. HandlerPosition'
    BY <1>1, <1>2, <2>1 DEF HandlerPosition
  <2>7. CheckpointsBehind'
    <3>1. db \notin {None, Cleared} => db.logOffset \in Nat /\ db.logOffset < logOffset
      BY <1>1 DEF CheckpointInv, CheckpointsBehind, TypeOK, CheckpointTypeOK, Checkpoints
    <3>2. \A d \in InProgress' :
              committed <= d.logOffset /\ d.logOffset < position /\ d.logOffset <= logOffset
      BY <1>2, <1>3, <2>2, <2>5
    <3> QED
      BY <1>1, <1>2, <2>1, <3>1, <3>2 DEF CheckpointsBehind
  <2>8. CheckpointsOrdered'
    <3>1. updating # None => \A d \in InProgress' : updating.deli.logOffset <= d.logOffset
      BY <1>2, <1>3, <2>2, <2>5, InProgressType DEF CheckpointInv, CheckpointsOrdered
    <3>2. queued # None =>
              \A k \in DOMAIN waiting' : queued.deli.logOffset <= waiting'[k].deli.logOffset
      BY <1>2, <1>3, <2>2, <2>4, InProgressType DEF CheckpointInv, CheckpointsOrdered
    <3>3. \A j, k \in DOMAIN waiting' :
              j < k => waiting'[j].deli.logOffset <= waiting'[k].deli.logOffset
      <4> SUFFICES ASSUME NEW j \in DOMAIN waiting', NEW k \in DOMAIN waiting', j < k
                   PROVE  waiting'[j].deli.logOffset <= waiting'[k].deli.logOffset
        OBVIOUS
      <4>1. j \in DOMAIN waiting /\ waiting'[j] = waiting[j]
        BY <2>1, <2>3, <2>4
      <4>2. CASE k \in DOMAIN waiting /\ waiting'[k] = waiting[k]
        BY <4>1, <4>2 DEF CheckpointInv, CheckpointsOrdered
      <4>3. CASE waiting'[k] = w
        BY <1>2, <1>3, <2>2, <4>1, <4>3, InProgressType
      <4> QED
        BY <2>4, <4>2, <4>3
    <3> QED
      BY <1>1, <3>1, <3>2, <3>3 DEF CheckpointInv, CheckpointsOrdered
  <2>9. SendsAhead'
    <3> SUFFICES ASSUME NEW i \in DOMAIN sending'
                 PROVE  AheadOfCheckpoints(sending[i].src[1], Len(deltas) + i)'
      BY DEF SendsAhead
    <3>1. AheadOfCheckpoints(sending'[i].src[1], Len(deltas) + i)
      BY <1>5
    <3>2. sending' \in Seq(OutputMessages) /\ deltas \in Seq(OutputMessages)
      BY DEF TypeOK, SendsTypeOK
    <3>3. i \in 1 .. Len(sending') /\ Len(sending') \in Nat /\ Len(deltas) \in Nat
      BY <3>2
    <3>4. ~(Len(deltas) + i > w.after)
      BY <2>2, <3>3
    <3> QED
      BY <1>1, <1>4, <2>4, <3>1, <3>4 DEF AheadOfCheckpoints
  <2> QED
    BY <1>6, <2>6, <2>7, <2>8, <2>9 DEF CheckpointInv
<1> QED
  BY <1>7, <1>8

LEMMA DeliverCheckpointStep ==
    ASSUME TypeOK, CheckpointInv, Deliver
    PROVE  CheckpointInv'
<1>1. /\ committed' = committed /\ db' = db /\ updating' = updating /\ queued' = queued
      /\ waiting' = waiting /\ sending' = sending /\ deltas' = deltas
      /\ cursor = 0 /\ position' = position + 1
  BY DEF Deliver, logs, inFlight, checkpointing
<1>2. InProgress' = InProgress /\ ReplayedAfter' = ReplayedAfter
  BY <1>1 DEF InProgress, ReplayedAfter
<1>3. /\ position \in Nat /\ logOffset \in Nat /\ committed \in Nat /\ committed < position
      /\ \/ cursor' = 0 /\ logOffset' = logOffset
         \/ cursor' = 1 /\ logOffset' = position /\ logOffset < position
  BY <1>1 DEF Deliver, TypeOK, ConsumerTypeOK, CheckpointTypeOK, CheckpointInv, HandlerPosition
<1>4. HandlerPosition'
  BY <1>1, <1>3 DEF HandlerPosition
<1>5. CheckpointsBehind'
  <2>1. \A d \in InProgress : d.logOffset \in Nat
    BY InProgressType
  <2>2. db \notin {None, Cleared} => db.logOffset \in Nat
    BY DEF TypeOK, CheckpointTypeOK, Checkpoints
  <2> QED
    BY <1>1, <1>2, <1>3, <2>1, <2>2 DEF CheckpointInv, CheckpointsBehind
<1>6. CheckpointsOrdered' /\ StoredIsRecord' /\ CommitFollowsRecord'
  BY <1>1, <1>2 DEF CheckpointInv, CheckpointsOrdered, StoredIsRecord, CommitFollowsRecord
<1>7. SendsAhead'
  BY <1>1, <1>2 DEF CheckpointInv, SendsAhead, AheadOfCheckpoints
<1> QED
  BY <1>4, <1>5, <1>6, <1>7 DEF CheckpointInv

LEMMA ForwardCheckpointStep ==
    ASSUME TypeOK, CheckpointInv, ForwardProduced
    PROVE  CheckpointInv'
<1>1. /\ UNCHANGED <<position, cursor, logOffset, committed, db, updating, queued, waiting>>
      /\ sending # <<>> /\ sending' = Tail(sending) /\ deltas' = Append(deltas, Head(sending))
  BY DEF ForwardProduced, consumer, checkpointing
<1>2. /\ HandlerPosition' /\ CheckpointsBehind' /\ CheckpointsOrdered' /\ StoredIsRecord'
      /\ CommitFollowsRecord'
  BY <1>1 DEF CheckpointInv, HandlerPosition, CheckpointsBehind, CheckpointsOrdered,
              StoredIsRecord, CommitFollowsRecord, InProgress
<1>3. \A offset, n : AheadOfCheckpoints(offset, n)' <=> AheadOfCheckpoints(offset, n)
  BY <1>1 DEF AheadOfCheckpoints, ReplayedAfter
<1>4. ASSUME NEW i \in DOMAIN sending'
      PROVE  /\ i + 1 \in DOMAIN sending /\ sending'[i] = sending[i + 1]
             /\ Len(deltas') + i = Len(deltas) + (i + 1)
  <2>1. sending \in Seq(OutputMessages) /\ deltas \in Seq(OutputMessages)
    BY DEF TypeOK, SendsTypeOK
  <2>2. i \in Nat /\ i + 1 \in DOMAIN sending /\ sending'[i] = sending[i + 1]
    BY <1>1, <1>4, <2>1
  <2>3. Len(deltas') = Len(deltas) + 1 /\ Len(deltas) \in Nat
    BY <1>1, <2>1
  <2> QED
    BY <2>2, <2>3
<1>5. SendsAhead'
  BY <1>3, <1>4 DEF CheckpointInv, SendsAhead
<1> QED
  BY <1>2, <1>5 DEF CheckpointInv

(* The oldest waiting checkpoint becomes the one in progress or the one    *)
(* that is kept: everything it waited for has been sent.                   *)
LEMMA ReadyCheckpointStep ==
    ASSUME TypeOK, CheckpointInv, CheckpointReady
    PROVE  CheckpointInv'
<1> DEFINE w == Head(waiting)
<1>1. /\ UNCHANGED <<position, cursor, logOffset, committed, db, sending, deltas>>
      /\ waiting # <<>> /\ w.after <= Len(deltas) /\ waiting' = Tail(waiting)
  BY DEF CheckpointReady, logs, consumer, inFlight
<1>2. \/ /\ updating = None /\ queued' = queued
         /\ updating' = [deli |-> w.deli, clear |-> lastInstruction = "ClearCache",
                         stored |-> FALSE]
      \/ /\ updating # None /\ updating' = updating
         /\ queued' = [deli |-> w.deli, clear |-> lastInstruction = "ClearCache",
                       stored |-> FALSE]
  BY DEF CheckpointReady, CheckpointOf
<1>3. waiting \in Seq([deli : Checkpoints, after : Nat])
  BY DEF TypeOK, CheckpointTypeOK
<1>4. /\ 1 \in DOMAIN waiting /\ waiting[1] = w
      /\ \A k \in DOMAIN waiting' : k + 1 \in DOMAIN waiting /\ waiting'[k] = waiting[k + 1]
  BY <1>1, <1>3
<1> HIDE DEF w
<1>5. /\ updating' # None => (updating' = updating /\ updating # None) \/ updating'.deli = w.deli
      /\ queued' # None => (queued' = queued /\ queued # None) \/ queued'.deli = w.deli
  BY <1>2
<1>6. InProgress' \subseteq InProgress /\ w.deli \in InProgress
  BY <1>4, <1>5 DEF InProgress
<1>7. ReplayedAfter' = ReplayedAfter
  BY <1>1 DEF ReplayedAfter
<1>8. /\ HandlerPosition' /\ CheckpointsBehind' /\ CommitFollowsRecord'
  BY <1>1, <1>6 DEF CheckpointInv, HandlerPosition, CheckpointsBehind, CommitFollowsRecord
<1>9. StoredIsRecord'
  BY <1>1, <1>2 DEF CheckpointInv, StoredIsRecord
<1>10. \A k \in DOMAIN waiting' : w.deli.logOffset <= waiting'[k].deli.logOffset
  <2> SUFFICES ASSUME NEW k \in DOMAIN waiting'
               PROVE  w.deli.logOffset <= waiting'[k].deli.logOffset
    OBVIOUS
  <2>1. 1 < k + 1
    BY <1>1, <1>3
  <2> QED
    BY <1>4, <2>1 DEF CheckpointInv, CheckpointsOrdered
<1>11. CheckpointsOrdered'
  <2>1. \A j, k \in DOMAIN waiting' :
            j < k => waiting'[j].deli.logOffset <= waiting'[k].deli.logOffset
    <3> SUFFICES ASSUME NEW j \in DOMAIN waiting', NEW k \in DOMAIN waiting', j < k
                 PROVE  waiting'[j].deli.logOffset <= waiting'[k].deli.logOffset
      OBVIOUS
    <3>1. j + 1 < k + 1
      BY <1>1, <1>3
    <3> QED
      BY <1>4, <3>1 DEF CheckpointInv, CheckpointsOrdered
  <2>2. CASE updating = None
    <3>1. queued' = None /\ updating'.deli = w.deli
      BY <1>2, <2>2 DEF CheckpointInv, CheckpointsOrdered
    <3>2. \A d \in InProgress' : w.deli.logOffset <= d.logOffset
      BY <1>6, <1>10, <3>1, InProgressType DEF InProgress
    <3> QED
      BY <2>1, <3>1, <3>2 DEF CheckpointsOrdered
  <2>3. CASE updating # None
    <3>1. updating' = updating /\ queued'.deli = w.deli
      BY <1>2, <2>3
    <3>2. \A d \in InProgress' : updating'.deli.logOffset <= d.logOffset
      BY <1>6, <2>3, <3>1 DEF CheckpointInv, CheckpointsOrdered
    <3> QED
      BY <1>10, <2>1, <2>3, <3>1, <3>2 DEF CheckpointsOrdered
  <2> QED
    BY <2>2, <2>3
<1>12. SendsAhead'
  <2> SUFFICES ASSUME NEW i \in DOMAIN sending'
               PROVE  AheadOfCheckpoints(sending[i].src[1], Len(deltas) + i)'
    BY DEF SendsAhead
  <2>1. AheadOfCheckpoints(sending[i].src[1], Len(deltas) + i)
    BY <1>1 DEF CheckpointInv, SendsAhead
  <2>2. Len(deltas) + i > w.after
    <3>1. /\ i \in Nat /\ i > 0 /\ Len(deltas) \in Nat
      BY <1>1 DEF TypeOK, SendsTypeOK
    <3>2. w.after \in Nat
      BY <1>4, InProgressType
    <3> QED
      BY <1>1, <3>1, <3>2
  <2>3. sending[i].src[1] > w.deli.logOffset
    BY <1>4, <2>1, <2>2 DEF AheadOfCheckpoints
  <2> QED
    BY <1>1, <1>4, <1>5, <1>7, <2>1, <2>3 DEF AheadOfCheckpoints
<1> QED
  BY <1>8, <1>9, <1>11, <1>12 DEF CheckpointInv

(* The record takes the checkpoint in progress.                            *)
LEMMA UpdateCheckpointStep ==
    ASSUME TypeOK, CheckpointInv, Update
    PROVE  CheckpointInv'
<1>1. /\ UNCHANGED <<position, cursor, logOffset, committed, sending, deltas, waiting, queued>>
      /\ updating # None
      /\ db' = IF updating.clear THEN Cleared ELSE updating.deli
      /\ updating' = [updating EXCEPT !.stored = TRUE]
  BY DEF Update, consumer, inFlight
<1>2. /\ updating \in CheckpointParams
      /\ updating'.deli = updating.deli /\ updating'.clear = updating.clear
  BY <1>1 DEF TypeOK, CheckpointTypeOK, CheckpointParams
<1>3. /\ updating.deli \in InProgress /\ updating.deli.logOffset \in Nat /\ committed \in Nat
      /\ updating.deli \in Checkpoints /\ committed <= updating.deli.logOffset
  BY <1>1, <1>2, InProgressType
  DEF CheckpointInv, CheckpointsBehind, TypeOK, CheckpointTypeOK, CheckpointParams
<1>4. updating' \in CheckpointParams /\ updating' # None
  BY <1>1, <1>2, DeliConstants DEF CheckpointParams
<1>5. InProgress' \subseteq InProgress
  BY <1>1, <1>2 DEF InProgress
<1>6. HandlerPosition' /\ CheckpointsBehind'
  BY <1>1, <1>3, <1>5 DEF CheckpointInv, HandlerPosition, CheckpointsBehind
<1>7. CheckpointsOrdered'
  BY <1>1, <1>2, <1>4, <1>5 DEF CheckpointInv, CheckpointsOrdered
<1>8. StoredIsRecord'
  BY <1>1, <1>2 DEF CheckpointInv, StoredIsRecord
<1>9. CommitFollowsRecord'
  BY <1>1, <1>3, DeliConstants DEF CommitFollowsRecord
<1>10. SendsAhead'
  <2> SUFFICES ASSUME NEW i \in DOMAIN sending'
               PROVE  AheadOfCheckpoints(sending[i].src[1], Len(deltas) + i)'
    BY DEF SendsAhead
  <2>1. AheadOfCheckpoints(sending[i].src[1], Len(deltas) + i)
    BY <1>1 DEF CheckpointInv, SendsAhead
  <2>2. sending[i].src[1] \in Nat
    BY <1>1, SendingType
  <2>3. sending[i].src[1] > updating.deli.logOffset
    BY <1>1, <2>1 DEF AheadOfCheckpoints
  <2>4. ReplayedAfter' \in {committed, updating.deli.logOffset}
    BY <1>1 DEF ReplayedAfter
  <2>5. sending[i].src[1] > ReplayedAfter'
    BY <1>3, <2>2, <2>3, <2>4
  <2> QED
    BY <1>1, <1>2, <2>1, <2>3, <2>5 DEF AheadOfCheckpoints
<1> QED
  BY <1>6, <1>7, <1>8, <1>9, <1>10 DEF CheckpointInv

(* The stored checkpoint's offset is committed and the one that was kept   *)
(* takes its place.                                                        *)
LEMMA UpdatedCheckpointStep ==
    ASSUME TypeOK, CheckpointInv, Updated
    PROVE  CheckpointInv'
<1>1. /\ UNCHANGED <<position, cursor, logOffset, db, sending, deltas, waiting>>
      /\ cursor = 0 /\ updating # None /\ updating.stored
      /\ committed' = updating.deli.logOffset
      /\ updating' = queued /\ queued' = None
  BY DEF Updated, consumer, inFlight
<1>2. /\ updating.deli \in InProgress /\ updating.deli.logOffset \in Nat
      /\ updating.deli \in Checkpoints
      /\ updating.deli.logOffset < position
      /\ \A d \in InProgress : updating.deli.logOffset <= d.logOffset
  BY <1>1, InProgressType
  DEF CheckpointInv, CheckpointsBehind, CheckpointsOrdered, TypeOK, CheckpointTypeOK,
      CheckpointParams
<1>3. db = Cleared \/ db = updating.deli
  BY <1>1 DEF CheckpointInv, StoredIsRecord
<1>4. db # Cleared => db \notin {None, Cleared} /\ db.logOffset = updating.deli.logOffset
  BY <1>2, <1>3, DeliConstants
<1>5. InProgress' \subseteq InProgress
  BY <1>1 DEF InProgress
<1>6. HandlerPosition' /\ CheckpointsBehind'
  BY <1>1, <1>2, <1>5 DEF CheckpointInv, HandlerPosition, CheckpointsBehind
<1>7. CheckpointsOrdered'
  <2>1. updating' # None =>
            \A k \in DOMAIN waiting' : updating'.deli.logOffset <= waiting'[k].deli.logOffset
    BY <1>1 DEF CheckpointInv, CheckpointsOrdered
  <2>2. updating' # None => updating'.deli.logOffset \in Nat
    BY <1>1, InProgressType
  <2>3. updating' # None => \A d \in InProgress' : updating'.deli.logOffset <= d.logOffset
    BY <1>1, <2>1, <2>2 DEF InProgress
  <2> QED
    BY <1>1, <2>3 DEF CheckpointInv, CheckpointsOrdered
<1>8. StoredIsRecord'
  BY <1>1 DEF CheckpointInv, StoredIsRecord
<1>9. CommitFollowsRecord'
  BY <1>1, <1>2, <1>4 DEF CommitFollowsRecord
<1>10. SendsAhead'
  <2> SUFFICES ASSUME NEW i \in DOMAIN sending'
               PROVE  AheadOfCheckpoints(sending[i].src[1], Len(deltas) + i)'
    BY DEF SendsAhead
  <2>1. AheadOfCheckpoints(sending[i].src[1], Len(deltas) + i)
    BY <1>1 DEF CheckpointInv, SendsAhead
  <2>2. sending[i].src[1] > updating.deli.logOffset
    BY <1>1, <2>1 DEF AheadOfCheckpoints
  <2>3. ReplayedAfter' = updating.deli.logOffset
    BY <1>1, <1>2, <1>4 DEF ReplayedAfter
  <2> QED
    BY <1>1, <2>1, <2>2, <2>3 DEF AheadOfCheckpoints
<1> QED
  BY <1>6, <1>7, <1>8, <1>9, <1>10 DEF CheckpointInv

LEMMA RestartCheckpointStep ==
    ASSUME TypeOK, TypeOK', CheckpointInv, Restart
    PROVE  CheckpointInv'
<1>1. /\ committed' = committed /\ db' = db /\ updating' = None /\ queued' = None
      /\ waiting' = <<>> /\ sending' = <<>> /\ cursor' = 0 /\ position' = committed + 1
      /\ logOffset' = LastCheckpoint.logOffset
  BY DEF Restart, logs
<1>2. InProgress' = {}
  BY <1>1 DEF InProgress
<1>3. db \notin {None, Cleared} => db.logOffset = logOffset' /\ db.logOffset \in Nat
  BY <1>1 DEF LastCheckpoint, TypeOK, CheckpointTypeOK, Checkpoints
<1>4. HandlerPosition' /\ CheckpointsBehind'
  BY <1>1, <1>2, <1>3 DEF HandlerPosition, CheckpointsBehind, TypeOK, CheckpointTypeOK
<1>5. CheckpointsOrdered' /\ StoredIsRecord'
  BY <1>1, <1>2 DEF CheckpointsOrdered, StoredIsRecord
<1>6. SendsAhead' /\ CommitFollowsRecord'
  BY <1>1 DEF CheckpointInv, SendsAhead, CommitFollowsRecord
<1> QED
  BY <1>4, <1>5, <1>6 DEF CheckpointInv

LEMMA CheckpointStep ==
    ASSUME TypeOK, TypeOK', CheckpointInv, [Next]_vars
    PROVE  CheckpointInv'
<1> USE DEF logs, consumer, inFlight, checkpointing
<1>1. CASE Deliver
  BY <1>1, DeliverCheckpointStep
<1>2. CASE Ticket
  BY <1>2, TicketCheckpointStep
<1>3. CASE IdleTimerFires \/ NoopTimerFires \/ ReverseProduced
  BY <1>3, CheckpointUnchanged DEF IdleTimerFires, NoopTimerFires, ReverseProduced
<1>4. CASE ForwardProduced
  BY <1>4, ForwardCheckpointStep
<1>5. CASE CheckpointReady
  BY <1>5, ReadyCheckpointStep
<1>6. CASE Update
  BY <1>6, UpdateCheckpointStep
<1>7. CASE Updated
  BY <1>7, UpdatedCheckpointStep
<1>8. CASE Restart
  BY <1>8, RestartCheckpointStep
<1>9. CASE Environment
  <2>1. UnchangedByEnvironment
    BY <1>9 DEF Environment, Connect, Submit, Disconnect, LoseMessage, RepeatBoxcar,
                ServiceSummary
  <2> QED
    BY <2>1, CheckpointUnchanged DEF UnchangedByEnvironment
<1>10. CASE UNCHANGED vars
  BY <1>10, CheckpointUnchanged DEF vars
<1> QED
  BY <1>1, <1>2, <1>3, <1>4, <1>5, <1>6, <1>7, <1>8, <1>9, <1>10 DEF Next, Process

(* Checkpoints are taken, written and committed in the order of their      *)
(* boxcars and never overtake a send, whatever the interleaving and        *)
(* wherever the process crashes (lambda.ts:220-228, checkpointContext.ts).  *)
THEOREM CheckpointsInOrder == Spec => []CheckpointInv
<1>1. Init => CheckpointInv
  BY CheckpointInit
<1>2. TypeOK /\ TypeOK' /\ CheckpointInv /\ [Next]_vars => CheckpointInv'
  BY CheckpointStep
<1> QED
  BY <1>1, <1>2, TypeCorrect, PTL DEF Spec

(* No message is lost: at every moment, every send for a message that a    *)
(* restart would skip is durable, so that what was ticketed is either in   *)
(* the deltas topic or is ticketed again.                                  *)
THEOREM NoMessageLost == Spec => []NothingLost
<1>1. CheckpointInv => NothingLost
  BY DEF CheckpointInv, SendsAhead, AheadOfCheckpoints, NothingLost
<1> QED
  BY <1>1, CheckpointsInOrder, PTL

(* The consumer offset is never committed ahead of the Mongo record (in    *)
(* checkpointContext.ts:66 the commit follows the update), so no message   *)
(* is skipped without being counted in the state that a restart begins     *)
(* with.                                                                   *)
THEOREM RecordBeforeCommit == Spec => []CommitFollowsRecord
<1>1. CheckpointInv => CommitFollowsRecord
  BY DEF CheckpointInv
<1> QED
  BY <1>1, CheckpointsInOrder, PTL

-----------------------------------------------------------------------------
(* The topics. *)

ElementsOf(s) == {s[i] : i \in DOMAIN s}

(* The elements of a concatenation. *)
LEMMA ConcatElements ==
    ASSUME NEW S, NEW s \in Seq(S), NEW t \in Seq(S)
    PROVE  ElementsOf(s \o t) = ElementsOf(s) \cup ElementsOf(t)
<1> DEFINE u == s \o t
<1>1. /\ DOMAIN s = 1 .. Len(s) /\ DOMAIN t = 1 .. Len(t)
      /\ DOMAIN u = 1 .. Len(s) + Len(t)
      /\ Len(s) \in Nat /\ Len(t) \in Nat
  OBVIOUS
<1>2. \A i \in DOMAIN s : i \in DOMAIN u /\ u[i] = s[i]
  OBVIOUS
<1>3. \A i \in DOMAIN t : i + Len(s) \in DOMAIN u /\ u[i + Len(s)] = t[i]
  OBVIOUS
<1> HIDE DEF u
<1>4. ASSUME NEW i \in DOMAIN u
      PROVE  i \in DOMAIN s \/ \E j \in DOMAIN t : i = j + Len(s)
  <2>1. CASE i <= Len(s)
    BY <1>1, <2>1
  <2>2. CASE i > Len(s)
    <3>1. i - Len(s) \in DOMAIN t
      BY <1>1, <2>2
    <3> QED
      BY <1>1, <3>1
  <2> QED
    BY <1>1, <2>1, <2>2
<1>5. ElementsOf(u) = ElementsOf(s) \cup ElementsOf(t)
  BY <1>2, <1>3, <1>4 DEF ElementsOf
<1> QED
  BY <1>5 DEF u

(* A send adds one operation, or none if it is a nack. *)
LEMMA SendAdds ==
    ASSUME SendsTypeOK, SendsTypeOK', NEW r, deltas' = deltas, sending' = Append(sending, r)
    PROVE  \A m : m \in Operations' <=> m \in Operations \/ (m = r /\ r.kind = "op")
<1>1. /\ deltas \in Seq(OutputMessages) /\ sending \in Seq(OutputMessages)
      /\ sending' \in Seq(OutputMessages)
  BY DEF SendsTypeOK
<1>2. \A i \in DOMAIN sending' : (i \in DOMAIN sending /\ sending'[i] = sending[i]) \/ sending'[i] = r
  BY <1>1
<1>3. /\ ElementsOf(deltas \o sending) = ElementsOf(deltas) \cup ElementsOf(sending)
      /\ ElementsOf(deltas \o sending') = ElementsOf(deltas) \cup ElementsOf(sending')
  <2>1. \A s, t \in Seq(OutputMessages) : ElementsOf(s \o t) = ElementsOf(s) \cup ElementsOf(t)
    BY ConcatElements
  <2> QED
    BY <1>1, <2>1, Zenon
<1>4. /\ \A m : m \in Operations <=> m \in ElementsOf(deltas \o sending) /\ m.kind = "op"
      /\ \A m : m \in Operations' <=> m \in ElementsOf(deltas \o sending') /\ m.kind = "op"
  BY DEF Operations, Output, ElementsOf
<1>5. \A m : m \in ElementsOf(sending') <=> m \in ElementsOf(sending) \/ m = r
  <2>1. \A i \in DOMAIN sending : i \in DOMAIN sending' /\ sending'[i] = sending[i]
    BY <1>1
  <2>2. Len(sending) + 1 \in DOMAIN sending' /\ sending'[Len(sending) + 1] = r
    BY <1>1
  <2> QED
    BY <1>2, <2>1, <2>2 DEF ElementsOf
<1> QED
  BY <1>3, <1>4, <1>5

LEMMA OperationType ==
    ASSUME SendsTypeOK, NEW m \in Operations
    PROVE  m \in OutputMessages /\ m.seq \in Nat /\ m.msn \in Nat /\ m.kind = "op"
<1>1. Output \in Seq(OutputMessages)
  BY DEF SendsTypeOK, Output
<1>2. m \in OutputMessages
  BY <1>1 DEF Operations
<1> QED
  BY <1>2 DEF OutputMessages, Operations

(* What is produced was sent. *)
LEMMA ForwardKeeps ==
    ASSUME SendsTypeOK, SendsTypeOK', ForwardProduced
    PROVE  Operations' = Operations
<1>1. /\ deltas \in Seq(OutputMessages) /\ sending \in Seq(OutputMessages) /\ sending # <<>>
      /\ deltas' = Append(deltas, Head(sending)) /\ sending' = Tail(sending)
  BY DEF SendsTypeOK, ForwardProduced
<1>2. Append(deltas, Head(sending)) \o Tail(sending) = deltas \o sending
  BY <1>1
<1> QED
  BY <1>1, <1>2 DEF Operations, Output

(* A message of the raw topic was there before or is the one written.      *)
LEMMA EnqueueAdds ==
    ASSUME ConsumerTypeOK, NEW m, Enqueue(m),
           NEW o \in DOMAIN raw', NEW i \in DOMAIN raw'[o]
    PROVE  \/ raw'[o][i] = m
           \/ o \in DOMAIN raw /\ i \in DOMAIN raw[o] /\ raw'[o][i] = raw[o][i]
<1>1. raw \in Seq(Seq(RawMessages) \ {<<>>})
  BY DEF ConsumerTypeOK
<1>2. CASE raw' = Append(raw, <<m>>)
  <2>1. (o \in DOMAIN raw /\ raw'[o] = raw[o]) \/ raw'[o] = <<m>>
    BY <1>1, <1>2
  <2> QED
    BY <2>1
<1>3. CASE /\ Len(raw) > frozen
           /\ raw' = [raw EXCEPT ![Len(raw)] = Append(@, m)]
  <2>1. o \in DOMAIN raw /\ (raw'[o] = raw[o] \/ raw'[o] = Append(raw[o], m))
    BY <1>1, <1>3
  <2>2. raw[o] \in Seq(RawMessages)
    BY <1>1, <2>1
  <2>3. CASE raw'[o] = Append(raw[o], m)
    BY <2>2, <2>3, <2>1
  <2> QED
    BY <2>1, <2>3
<1> QED
  BY <1>2, <1>3 DEF Enqueue

-----------------------------------------------------------------------------
(* The window. *)

(* The minimum over references that are all in the window. *)
LEMMA MinimumInWindow ==
    ASSUME NEW cl \in [Clients -> ClientStates \cup {None}], NEW low \in Nat, NEW seq \in Nat,
           low <= seq, \A c \in TrackedIn(cl) : cl[c].ref \in low .. seq
    PROVE  /\ MinimumOf(cl, seq) \in low .. seq
           /\ \A c \in TrackedIn(cl) : MinimumOf(cl, seq) <= cl[c].ref
<1>1. CASE TrackedIn(cl) = {}
  BY <1>1 DEF MinimumOf
<1>2. CASE TrackedIn(cl) # {}
  <2>1. Refs(cl) \in SUBSET Nat /\ Refs(cl) # {}
    BY <1>2 DEF Refs, TrackedIn, ClientStates
  <2>2. Min(Refs(cl)) \in Refs(cl) /\ \A y \in Refs(cl) : Min(Refs(cl)) <= y
    BY <2>1, MinNat
  <2>3. \A c \in TrackedIn(cl) : cl[c].ref \in Refs(cl)
    BY DEF Refs
  <2>4. MinimumOf(cl, seq) = Min(Refs(cl))
    BY <1>2 DEF MinimumOf
  <2>5. \A y \in Refs(cl) : y \in low .. seq
    BY DEF Refs
  <2> QED
    BY <2>2, <2>3, <2>4, <2>5
<1> QED
  BY <1>1, <1>2

(* A client's new reference in the window leaves all of them there.        *)
LEMMA UpsertInWindow ==
    ASSUME LambdaTypeOK, ReferencesInWindow,
           NEW c, NEW n \in Nat, NEW nack \in BOOLEAN,
           NEW seq \in Nat, sequenceNumber <= seq,
           NEW ref \in minimumSequenceNumber .. seq
    PROVE  /\ Upsert(c, n, ref, nack) \in [Clients -> ClientStates \cup {None}]
           /\ \A d \in TrackedIn(Upsert(c, n, ref, nack)) :
                  Upsert(c, n, ref, nack)[d].ref \in minimumSequenceNumber .. seq
<1> DEFINE cl == Upsert(c, n, ref, nack)
<1>1. /\ clients \in [Clients -> ClientStates \cup {None}]
      /\ minimumSequenceNumber \in Nat /\ sequenceNumber \in Nat /\ ref \in Nat
  BY DEF LambdaTypeOK
<1>2. cl \in [Clients -> ClientStates \cup {None}]
  BY <1>1, UpsertType
<1>3. ASSUME NEW d \in TrackedIn(cl)
      PROVE  cl[d].ref \in minimumSequenceNumber .. seq
  <2>1. d \in Clients
    BY DEF TrackedIn
  <2>2. CASE d = c
    <3>1. cl[d] = [csn |-> n, ref |-> ref, nack |-> nack]
      BY <1>1, <2>1, <2>2 DEF Upsert
    <3> QED
      BY <3>1
  <2>3. CASE d # c
    <3>1. cl[d] = clients[d] /\ d \in Tracked
      BY <1>1, <2>1, <2>3 DEF Upsert, TrackedIn, Tracked
    <3> QED
      BY <1>1, <3>1 DEF ReferencesInWindow
  <2> QED
    BY <2>2, <2>3
<1> QED
  BY <1>2, <1>3

(* Moving on to clients whose references are in the window. *)
LEMMA AdvanceInWindow ==
    ASSUME LambdaTypeOK, minimumSequenceNumber <= sequenceNumber,
           NEW cl \in [Clients -> ClientStates \cup {None}],
           NEW seq \in {sequenceNumber, sequenceNumber + 1}, Advance(cl, seq),
           \A d \in TrackedIn(cl) : cl[d].ref \in minimumSequenceNumber .. seq
    PROVE  /\ ReferencesInWindow'
           /\ minimumSequenceNumber <= minimumSequenceNumber'
           /\ sequenceNumber' = seq
<1>1. minimumSequenceNumber \in Nat /\ seq \in Nat /\ minimumSequenceNumber <= seq
  BY DEF LambdaTypeOK
<1>2. /\ MinimumOf(cl, seq) \in minimumSequenceNumber .. seq
      /\ \A c \in TrackedIn(cl) : MinimumOf(cl, seq) <= cl[c].ref
  BY <1>1, MinimumInWindow
<1>3. /\ clients' = cl /\ sequenceNumber' = seq /\ minimumSequenceNumber' = MinimumOf(cl, seq)
  BY DEF Advance
<1> QED
  BY <1>1, <1>2, <1>3 DEF ReferencesInWindow, Tracked

-----------------------------------------------------------------------------
(* What is in the topics stays behind. *)

LEMMA ServerBehind ==
    ASSUME sequenceNumber \in Nat, NEW type, NEW data
    PROVE  MessageBehind(ServerMessage(type, data), sequenceNumber)
  BY DEF MessageBehind, ServerMessage

(* What the lambda sends to itself. *)
LEMMA AlfredAdds ==
    ASSUME reverse \in Seq(RawMessages), NEW m \in RawMessages, SendToAlfred(m)
    PROVE  \A i \in DOMAIN reverse' :
               \/ i \in DOMAIN reverse /\ reverse'[i] = reverse[i]
               \/ \E type \in {"ClientLeave", "NoClient"} : \E data :
                      reverse'[i] = ServerMessage(type, data)
<1>1. PICK leave \in IdleLeaves(m) :
          reverse' = reverse \o leave \o
              (IF m.type \notin {"NoClient", "Control"} /\ noActiveClients'
               THEN <<ServerMessage("NoClient", None)>> ELSE <<>>)
  BY DEF SendToAlfred
<1>2. PICK last \in {<<>>, <<ServerMessage("NoClient", None)>>} :
          reverse' = (reverse \o leave) \o last
  BY <1>1
<1>3. leave = <<>> \/ \E c : leave = <<ServerMessage("ClientLeave", c)>>
  BY DEF IdleLeaves
<1>4. \A x, y : LET s == reverse \o <<x>> \o <<y>>
               IN \A i \in DOMAIN s : (i \in DOMAIN reverse /\ s[i] = reverse[i]) \/ s[i] = x \/ s[i] = y
  OBVIOUS
<1>5. \A x : LET s == reverse \o <<x>>
            IN \A i \in DOMAIN s : (i \in DOMAIN reverse /\ s[i] = reverse[i]) \/ s[i] = x
  OBVIOUS
<1>6. /\ reverse \o <<>> = reverse
      /\ \A x : (reverse \o <<x>>) \o <<>> = reverse \o <<x>>
  OBVIOUS
<1>7. CASE leave = <<>>
  BY <1>2, <1>5, <1>6, <1>7
<1>8. ASSUME NEW c, leave = <<ServerMessage("ClientLeave", c)>>
      PROVE  \A i \in DOMAIN reverse' :
                 \/ i \in DOMAIN reverse /\ reverse'[i] = reverse[i]
                 \/ \E type \in {"ClientLeave", "NoClient"} : \E data :
                        reverse'[i] = ServerMessage(type, data)
  BY <1>2, <1>4, <1>5, <1>6, <1>8
<1> QED
  BY <1>3, <1>7, <1>8

LEMMA NoOutput ==
    ASSUME TypeOK, TypeOK', OutputBehind, CollaborationWindow, Operations' = Operations,
           sequenceNumber <= sequenceNumber', minimumSequenceNumber <= minimumSequenceNumber'
    PROVE  OutputBehind' /\ CollaborationWindow'
<1>1. /\ sequenceNumber \in Nat /\ sequenceNumber' \in Nat
      /\ minimumSequenceNumber \in Nat /\ minimumSequenceNumber' \in Nat
  BY DEF TypeOK, LambdaTypeOK
<1>2. \A m \in Operations : m.seq \in Nat /\ m.msn \in Nat
  BY OperationType DEF TypeOK
<1>3. OutputBehind'
  BY <1>1, <1>2 DEF OutputBehind
<1>4. CollaborationWindow'
  BY DEF CollaborationWindow
<1> QED
  BY <1>3, <1>4

(* A nack is no operation. *)
LEMMA NewNack ==
    ASSUME TypeOK, TypeOK', OutputBehind, CollaborationWindow, deltas' = deltas,
           NEW r, sending' = Append(sending, r), r.kind = "nack",
           sequenceNumber <= sequenceNumber', minimumSequenceNumber <= minimumSequenceNumber'
    PROVE  OutputBehind' /\ CollaborationWindow'
<1>1. /\ sequenceNumber \in Nat /\ sequenceNumber' \in Nat
      /\ minimumSequenceNumber \in Nat /\ minimumSequenceNumber' \in Nat
  BY DEF TypeOK, LambdaTypeOK
<1>2. \A m \in Operations' : m \in Operations
  BY SendAdds DEF TypeOK
<1>3. \A m \in Operations : m.seq \in Nat /\ m.msn \in Nat
  BY OperationType DEF TypeOK
<1>4. OutputBehind'
  BY <1>1, <1>2, <1>3 DEF OutputBehind
<1>5. CollaborationWindow'
  BY <1>2 DEF CollaborationWindow
<1> QED
  BY <1>4, <1>5

(* The new operation has the next number, and neither its minimum nor its  *)
(* reference falls behind what was promised.                               *)
LEMMA NewOperation ==
    ASSUME TypeOK, TypeOK', OutputBehind, CollaborationWindow, deltas' = deltas,
           ReferencesInWindow', minimumSequenceNumber <= minimumSequenceNumber',
           sequenceNumber' = sequenceNumber + 1,
           NEW r, sending' = Append(sending, r),
           r.seq = sequenceNumber', r.msn = minimumSequenceNumber', r.ref \in Int,
           r.clientId # None => r.ref >= minimumSequenceNumber
    PROVE  OutputBehind' /\ CollaborationWindow'
<1>1. /\ sequenceNumber \in Nat /\ sequenceNumber' \in Nat
      /\ minimumSequenceNumber \in Nat /\ minimumSequenceNumber' \in Nat
      /\ minimumSequenceNumber' <= sequenceNumber'
  BY DEF TypeOK, LambdaTypeOK, ReferencesInWindow
<1>2. \A m \in Operations' : m \in Operations \/ m = r
  BY SendAdds DEF TypeOK
<1>3. \A m \in Operations : /\ m.seq \in Nat /\ m.msn \in Nat
                            /\ m.seq <= sequenceNumber /\ m.msn <= minimumSequenceNumber
  BY OperationType DEF TypeOK, OutputBehind
<1>4. \A m \in Operations' : m.seq <= sequenceNumber' /\ m.msn <= minimumSequenceNumber'
  <2> SUFFICES ASSUME NEW m \in Operations'
               PROVE  m.seq <= sequenceNumber' /\ m.msn <= minimumSequenceNumber'
    OBVIOUS
  <2>1. CASE m = r
    BY <1>1, <2>1
  <2>2. CASE m \in Operations
    BY <1>1, <1>3, <2>2
  <2> QED
    BY <1>2, <2>1, <2>2
<1>5. ASSUME NEW m \in Operations', NEW n \in Operations', n.seq > m.seq
      PROVE  n.msn >= m.msn /\ (n.clientId # None => n.ref >= m.msn)
  <2>1. CASE m \in Operations /\ n \in Operations
    BY <1>5, <2>1 DEF CollaborationWindow
  <2>2. CASE m = r
    BY <1>1, <1>2, <1>3, <1>5, <2>2
  <2>3. CASE m \in Operations /\ n = r
    BY <1>1, <1>3, <2>3
  <2> QED
    BY <1>2, <2>1, <2>2, <2>3
<1>6. \A m \in Operations' : m.msn <= m.seq
  BY <1>1, <1>2 DEF CollaborationWindow
<1> QED
  BY <1>4, <1>5, <1>6 DEF OutputBehind, CollaborationWindow

-----------------------------------------------------------------------------
(* Each way ticket returns. *)

LEMMA TicketInWindow ==
    ASSUME TypeOK, TypeOK', ReferencesInWindow, InputBehind, OutputBehind, CollaborationWindow,
           Ticket
    PROVE  /\ ReferencesInWindow' /\ OutputBehind' /\ CollaborationWindow'
           /\ sequenceNumber <= sequenceNumber'
<1> DEFINE m == Message
           Goal == /\ ReferencesInWindow' /\ OutputBehind' /\ CollaborationWindow'
                   /\ sequenceNumber <= sequenceNumber'
<1>1. /\ m \in RawMessages /\ MessageBehind(m, sequenceNumber)
      /\ m.ref \in Nat \cup {-1} /\ m.ref <= sequenceNumber
  <2>1. logOffset \in DOMAIN raw /\ cursor \in DOMAIN raw[logOffset]
    BY DEF Ticket, TypeOK, ConsumerTypeOK
  <2>2. raw[logOffset] \in Seq(RawMessages)
    BY <2>1 DEF TypeOK, ConsumerTypeOK
  <2>3. m \in RawMessages /\ MessageBehind(m, sequenceNumber)
    BY <2>1, <2>2 DEF Message, InputBehind
  <2> HIDE DEF m
  <2> QED
    BY <2>3 DEF MessageBehind, RawMessages
<1>2. /\ deltas' = deltas
      /\ LambdaTypeOK /\ clients \in [Clients -> ClientStates \cup {None}]
      /\ sequenceNumber \in Nat /\ sequenceNumber' \in Nat
      /\ minimumSequenceNumber \in Nat /\ minimumSequenceNumber' \in Nat
      /\ minimumSequenceNumber <= sequenceNumber
      /\ \A d \in TrackedIn(clients) : clients[d].ref \in minimumSequenceNumber .. sequenceNumber
  BY DEF Ticket, UnchangedByTicket, logs, TypeOK, LambdaTypeOK, ReferencesInWindow, Tracked
<1>3. m.type \in {"ClientJoin", "ClientLeave", "NoClient", "Control"} => m.clientId = None
  BY <1>1 DEF MessageBehind
<1> HIDE DEF m
(* Three ways to go on: nothing is sent, a nack, an operation.  *)
<1>a. ASSUME sending' = sending, sequenceNumber <= sequenceNumber',
             minimumSequenceNumber <= minimumSequenceNumber', ReferencesInWindow'
      PROVE  Goal
  <2>1. Operations' = Operations
    BY <1>2, <1>a DEF Operations, Output
  <2> QED
    BY <1>a, <2>1, NoOutput
<1>b. ASSUME SendNack(m), ReferencesInWindow'
      PROVE  Goal
  <2>1. /\ sequenceNumber' = sequenceNumber /\ minimumSequenceNumber' = minimumSequenceNumber
        /\ sending' = Append(sending, NackMessage(m)) /\ NackMessage(m).kind = "nack"
    BY <1>b DEF SendNack, NackMessage
  <2>2. OutputBehind' /\ CollaborationWindow'
    <3> DEFINE r == NackMessage(m)
    <3>1. sending' = Append(sending, r) /\ r.kind = "nack"
      BY <2>1
    <3> HIDE DEF r
    <3> QED
      BY <1>2, <2>1, <3>1, NewNack
  <2> QED
    BY <1>2, <1>b, <2>1, <2>2
<1>c. ASSUME NEW ref \in Int, SendImmediately(m, ref), sequenceNumber' = sequenceNumber + 1,
             minimumSequenceNumber <= minimumSequenceNumber', ReferencesInWindow',
             m.clientId # None => ref >= minimumSequenceNumber
      PROVE  Goal
  <2> DEFINE r == [kind |-> "op", type |-> m.type, clientId |-> m.clientId, csn |-> m.csn,
                   ref |-> ref, seq |-> sequenceNumber', msn |-> minimumSequenceNumber',
                   deli |-> AdditionalContent(m), src |-> Source]
  <2>1. /\ sending' = Append(sending, r) /\ r.seq = sequenceNumber'
        /\ r.msn = minimumSequenceNumber' /\ r.ref = ref /\ r.clientId = m.clientId
    BY <1>c DEF SendImmediately
  <2> HIDE DEF r
  <2>2. OutputBehind' /\ CollaborationWindow'
    BY <1>2, <1>c, <2>1, NewOperation
  <2> QED
    BY <1>2, <1>c, <2>2
(* The clients after the message.  *)
<1>d. ASSUME NEW cl \in [Clients -> ClientStates \cup {None}],
             NEW seq \in {sequenceNumber, sequenceNumber + 1}, Advance(cl, seq),
             \A d \in TrackedIn(cl) : cl[d].ref \in minimumSequenceNumber .. seq
      PROVE  /\ ReferencesInWindow' /\ minimumSequenceNumber <= minimumSequenceNumber'
             /\ sequenceNumber' = seq
  BY <1>2, <1>d, AdvanceInWindow
<1>e. ASSUME NEW seq \in {sequenceNumber, sequenceNumber + 1}, Advance(clients, seq)
      PROVE  /\ ReferencesInWindow' /\ minimumSequenceNumber <= minimumSequenceNumber'
             /\ sequenceNumber' = seq
  <2>1. \A d \in TrackedIn(clients) : clients[d].ref \in minimumSequenceNumber .. seq
    BY <1>2, <1>e
  <2> QED
    BY <1>2, <1>d, <1>e, <2>1
<1>f. ASSUME NEW c, NEW n \in Nat, NEW seq \in {sequenceNumber, sequenceNumber + 1},
             NEW ref \in minimumSequenceNumber .. seq, Advance(Upsert(c, n, ref, FALSE), seq)
      PROVE  /\ ReferencesInWindow' /\ minimumSequenceNumber <= minimumSequenceNumber'
             /\ sequenceNumber' = seq
  <2> DEFINE cl == Upsert(c, n, ref, FALSE)
  <2>1. /\ cl \in [Clients -> ClientStates \cup {None}]
        /\ \A d \in TrackedIn(cl) : cl[d].ref \in minimumSequenceNumber .. seq
    <3>1. seq \in Nat /\ sequenceNumber <= seq
      BY <1>2
    <3> QED
      BY <1>2, <3>1, UpsertInWindow
  <2> HIDE DEF cl
  <2>2. Advance(cl, seq)
    BY <1>f DEF cl
  <2> QED
    BY <1>d, <2>1, <2>2
(* A message that is accepted is the next one of a tracked client.  *)
<1>g. FromClient(m) /\ ~Nonexistent(m) => m.csn \in Nat /\ m.clientId # None
  <2> SUFFICES ASSUME FromClient(m), ~Nonexistent(m) PROVE m.csn \in Nat /\ m.clientId # None
    OBVIOUS
  <2>1. m.clientId \in Tracked /\ clients[m.clientId] \in ClientStates
    BY <1>2 DEF Nonexistent, Tracked, TrackedIn
  <2> QED
    BY <1>1, <2>1 DEF FromClient, Order, ClientStates, RawMessages
<1>h. ASSUME NEW c, NEW n \in Nat, NEW nack \in BOOLEAN,
             clients' = Upsert(c, n, minimumSequenceNumber, nack),
             sequenceNumber' = sequenceNumber, minimumSequenceNumber' = minimumSequenceNumber
      PROVE  ReferencesInWindow'
  <2>1. \A d \in TrackedIn(clients') : clients'[d].ref \in minimumSequenceNumber .. sequenceNumber
    <3>1. /\ minimumSequenceNumber \in minimumSequenceNumber .. sequenceNumber
          /\ sequenceNumber <= sequenceNumber
      BY <1>2
    <3>2. \A d \in TrackedIn(Upsert(c, n, minimumSequenceNumber, nack)) :
              Upsert(c, n, minimumSequenceNumber, nack)[d].ref
                  \in minimumSequenceNumber .. sequenceNumber
      BY <1>2, <3>1, UpsertInWindow
    <3> QED
      BY <1>h, <3>2
  <2> QED
    BY <1>2, <1>h, <2>1 DEF ReferencesInWindow, Tracked
<1>i. ASSUME clients' = clients, sequenceNumber' = sequenceNumber,
             minimumSequenceNumber' = minimumSequenceNumber
      PROVE  ReferencesInWindow'
  BY <1>i DEF ReferencesInWindow, Tracked
<1>4. CASE TicketDuplicate(m) \/ TicketLeaveOfUnknown(m)
  <2>1. /\ clients' = clients /\ sequenceNumber' = sequenceNumber
        /\ minimumSequenceNumber' = minimumSequenceNumber /\ sending' = sending
    BY <1>4 DEF TicketDuplicate, TicketLeaveOfUnknown, lambda, window, inFlight
  <2> QED
    BY <1>2, <1>a, <1>i, <2>1
<1>5. CASE TicketRepeatedJoin(m)
  <2>1. /\ clients' = Upsert(m.data, 0, minimumSequenceNumber, FALSE)
        /\ sequenceNumber' = sequenceNumber
        /\ minimumSequenceNumber' = minimumSequenceNumber /\ sending' = sending
    BY <1>5 DEF TicketRepeatedJoin, JoinReference, inFlight
  <2>2. ReferencesInWindow'
    BY <1>h, <2>1
  <2> QED
    BY <1>2, <1>a, <2>1, <2>2
<1>6. CASE TicketGap(m) \/ TicketNonexistent(m) \/ TicketForbidden(m)
  <2>1. SendNack(m) /\ clients' = clients
    BY <1>6 DEF TicketGap, TicketNonexistent, TicketForbidden
  <2> QED
    BY <1>b, <1>i, <2>1 DEF SendNack
<1>7. CASE TicketBelowWindow(m)
  <2>1. /\ SendNack(m) /\ m.csn \in Nat
        /\ clients' = Upsert(m.clientId, m.csn, minimumSequenceNumber, TRUE)
    BY <1>7, <1>g DEF TicketBelowWindow
  <2> QED
    BY <1>b, <1>h, <2>1 DEF SendNack
<1>8. CASE TicketJoin(m)
  <2>1. /\ Advance(Upsert(m.data, 0, minimumSequenceNumber, FALSE), sequenceNumber + 1)
        /\ SendImmediately(m, m.ref) /\ m.clientId = None
    BY <1>3, <1>8 DEF TicketJoin, JoinReference
  <2>2. minimumSequenceNumber \in minimumSequenceNumber .. sequenceNumber + 1
    BY <1>2
  <2>3. /\ ReferencesInWindow' /\ minimumSequenceNumber <= minimumSequenceNumber'
        /\ sequenceNumber' = sequenceNumber + 1
    BY <1>f, <2>1, <2>2
  <2> QED
    BY <1>1, <1>c, <2>1, <2>3
<1>9. CASE TicketLeave(m)
  <2> DEFINE cl == Remove(m.data)
  <2>1. /\ Advance(cl, sequenceNumber + 1)
        /\ SendImmediately(m, m.ref) /\ m.clientId = None
    BY <1>3, <1>9 DEF TicketLeave
  <2>2. cl \in [Clients -> ClientStates \cup {None}]
    BY <1>2, RemoveType
  <2>3. \A d \in TrackedIn(cl) : d \in TrackedIn(clients) /\ cl[d] = clients[d]
    BY <1>2 DEF Remove, TrackedIn
  <2> HIDE DEF cl
  <2>4. \A d \in TrackedIn(cl) : cl[d].ref \in minimumSequenceNumber .. sequenceNumber + 1
    BY <1>2, <2>3
  <2>5. /\ ReferencesInWindow' /\ minimumSequenceNumber <= minimumSequenceNumber'
        /\ sequenceNumber' = sequenceNumber + 1
    BY <1>d, <2>1, <2>2, <2>4
  <2> QED
    BY <1>1, <1>c, <2>1, <2>5
<1>10. CASE TicketClientOp(m)
  <2> DEFINE ref == IF m.ref = -1 THEN sequenceNumber + 1 ELSE m.ref
  <2>1. /\ Advance(Upsert(m.clientId, m.csn, ref, FALSE), sequenceNumber + 1)
        /\ SendImmediately(m, ref)
    BY <1>10 DEF TicketClientOp
  <2>2. m.csn \in Nat /\ ~BelowWindow(m)
    BY <1>10, <1>g DEF TicketClientOp, Accepted
  <2>3. ref \in minimumSequenceNumber .. sequenceNumber + 1
    BY <1>1, <1>2, <2>2 DEF BelowWindow
  <2> HIDE DEF ref
  <2>4. /\ ReferencesInWindow' /\ minimumSequenceNumber <= minimumSequenceNumber'
        /\ sequenceNumber' = sequenceNumber + 1
    BY <1>f, <2>1, <2>2, <2>3
  <2> QED
    BY <1>2, <1>c, <2>1, <2>3, <2>4
<1>11. CASE TicketClientNoOp(m)
  <2> DEFINE cl == Upsert(m.clientId, m.csn, m.ref, FALSE)
             send == m.immediate /\ MinimumOf(cl, sequenceNumber) > lastSentMSN
             seq == IF send THEN sequenceNumber + 1 ELSE sequenceNumber
  <2>1. /\ Advance(cl, seq)
        /\ IF send THEN SendImmediately(m, m.ref) ELSE SendLater
    BY <1>11 DEF TicketClientNoOp
  <2>2. m.csn \in Nat /\ m.ref >= minimumSequenceNumber
    BY <1>11, <1>g DEF TicketClientNoOp, Accepted
  <2> HIDE DEF send
  <2>3. m.ref \in minimumSequenceNumber .. seq /\ seq \in {sequenceNumber, sequenceNumber + 1}
    BY <1>1, <1>2, <2>2
  <2>4. /\ ReferencesInWindow' /\ minimumSequenceNumber <= minimumSequenceNumber'
        /\ sequenceNumber' = seq
    BY <1>f, <2>1, <2>2, <2>3
  <2>5. CASE send
    BY <1>1, <1>2, <1>c, <2>1, <2>2, <2>4, <2>5
  <2>6. CASE ~send
    <3>1. sending' = sending
      BY <2>1, <2>6 DEF SendLater
    <3> QED
      BY <1>2, <1>a, <2>4, <2>6, <3>1
  <2> QED
    BY <2>5, <2>6
<1>12. CASE TicketServerNoOp(m)
  <2>1. /\ clients' = clients /\ minimumSequenceNumber' = MinimumOf(clients, sequenceNumber)
        /\ m.clientId = None
        /\ \/ sequenceNumber' = sequenceNumber + 1 /\ SendImmediately(m, m.ref)
           \/ sequenceNumber' = sequenceNumber /\ SendNever
    BY <1>12 DEF TicketServerNoOp
  <2>2. /\ minimumSequenceNumber' \in minimumSequenceNumber .. sequenceNumber
        /\ \A c \in TrackedIn(clients) : minimumSequenceNumber' <= clients[c].ref
    BY <1>2, <2>1, MinimumInWindow
  <2>3. ReferencesInWindow' /\ minimumSequenceNumber <= minimumSequenceNumber'
    BY <1>2, <2>1, <2>2 DEF ReferencesInWindow, Tracked
  <2>4. CASE sequenceNumber' = sequenceNumber + 1 /\ SendImmediately(m, m.ref)
    BY <1>1, <1>c, <2>1, <2>3, <2>4
  <2>5. CASE sequenceNumber' = sequenceNumber /\ SendNever
    BY <1>2, <1>a, <2>3, <2>5 DEF SendNever
  <2> QED
    BY <2>1, <2>4, <2>5
<1>13. CASE TicketNoClient(m)
  <2>1. m.clientId = None
    BY <1>3, <1>13 DEF TicketNoClient
  <2>2. CASE Advance(clients, sequenceNumber + 1) /\ SendImmediately(m, sequenceNumber')
    BY <1>2, <1>c, <1>e, <2>1, <2>2
  <2>3. CASE Advance(clients, sequenceNumber) /\ SendNever
    BY <1>2, <1>a, <1>e, <2>3 DEF SendNever
  <2> QED
    BY <1>13, <2>2, <2>3 DEF TicketNoClient
<1>14. CASE TicketControl(m)
  BY <1>2, <1>14, <1>a, <1>e DEF TicketControl, SendNever
<1> QED
  BY <1>4, <1>5, <1>6, <1>7, <1>8, <1>9, <1>10, <1>11, <1>12, <1>13, <1>14 DEF Ticket, m

-----------------------------------------------------------------------------
(* The other actions. *)

(* The input, old and new, stays behind. *)
LEMMA InputStays ==
    ASSUME TypeOK, InputBehind, sequenceNumber' \in Nat, sequenceNumber <= sequenceNumber',
           \A o \in DOMAIN raw' : \A i \in DOMAIN raw'[o] :
               \/ o \in DOMAIN raw /\ i \in DOMAIN raw[o] /\ raw'[o][i] = raw[o][i]
               \/ MessageBehind(raw'[o][i], sequenceNumber'),
           \A i \in DOMAIN reverse' :
               \/ \E j \in DOMAIN reverse : reverse'[i] = reverse[j]
               \/ MessageBehind(reverse'[i], sequenceNumber')
    PROVE  InputBehind'
<1>1. sequenceNumber \in Nat
  BY DEF TypeOK, LambdaTypeOK
<1>2. ASSUME NEW o \in DOMAIN raw, NEW i \in DOMAIN raw[o]
      PROVE  MessageBehind(raw[o][i], sequenceNumber) /\ raw[o][i] \in RawMessages
  <2>1. raw[o] \in Seq(RawMessages)
    BY DEF TypeOK, ConsumerTypeOK
  <2> QED
    BY <2>1 DEF InputBehind
<1>3. ASSUME NEW j \in DOMAIN reverse
      PROVE  MessageBehind(reverse[j], sequenceNumber) /\ reverse[j] \in RawMessages
  BY DEF InputBehind, TypeOK, SendsTypeOK
<1>4. \A m \in RawMessages : MessageBehind(m, sequenceNumber) => m.ref <= sequenceNumber'
  BY <1>1 DEF MessageBehind, RawMessages
<1>5. \A o \in DOMAIN raw' : \A i \in DOMAIN raw'[o] : MessageBehind(raw'[o][i], sequenceNumber')
  BY <1>2, <1>4 DEF MessageBehind
<1>6. \A i \in DOMAIN reverse' : MessageBehind(reverse'[i], sequenceNumber')
  BY <1>3, <1>4 DEF MessageBehind
<1> QED
  BY <1>5, <1>6 DEF InputBehind

(* What is written to the raw topic. *)
LEMMA InputWritten ==
    ASSUME TypeOK, InputBehind, sequenceNumber' = sequenceNumber, NEW m, MessageBehind(m, sequenceNumber),
           Enqueue(m),
           \A i \in DOMAIN reverse' : \E j \in DOMAIN reverse : reverse'[i] = reverse[j]
    PROVE  InputBehind'
<1>1. sequenceNumber' \in Nat /\ sequenceNumber <= sequenceNumber'
  BY DEF TypeOK, LambdaTypeOK
<1>2. MessageBehind(m, sequenceNumber')
  BY DEF MessageBehind
<1>3. \A o \in DOMAIN raw' : \A i \in DOMAIN raw'[o] :
          \/ o \in DOMAIN raw /\ i \in DOMAIN raw[o] /\ raw'[o][i] = raw[o][i]
          \/ MessageBehind(raw'[o][i], sequenceNumber')
  BY <1>2, EnqueueAdds DEF TypeOK
<1> QED
  BY <1>1, <1>3, InputStays

(* What ticketing sends to the raw topic. *)
LEMMA TicketReverse ==
    ASSUME TypeOK, Ticket
    PROVE  /\ Message \in RawMessages
           /\ reverse' = reverse \/ SendToAlfred(Message)
<1> DEFINE m == Message
<1>1. m \in RawMessages
  BY DEF Message, Ticket, TypeOK, ConsumerTypeOK
<1> HIDE DEF m
<1>2. CASE TicketDuplicate(m) \/ TicketLeaveOfUnknown(m) \/ TicketRepeatedJoin(m)
  BY <1>1, <1>2 DEF TicketDuplicate, TicketLeaveOfUnknown, TicketRepeatedJoin, inFlight, m
<1>3. CASE TicketGap(m) \/ TicketNonexistent(m) \/ TicketBelowWindow(m) \/ TicketForbidden(m)
  BY <1>1, <1>3 DEF TicketGap, TicketNonexistent, TicketBelowWindow, TicketForbidden, SendNack, m
<1>4. CASE TicketJoin(m) \/ TicketLeave(m) \/ TicketClientOp(m) \/ TicketClientNoOp(m)
           \/ TicketServerNoOp(m) \/ TicketNoClient(m) \/ TicketControl(m)
  <2>1. SendToAlfred(m)
    BY <1>4 DEF TicketJoin, TicketLeave, TicketClientOp, TicketClientNoOp, TicketServerNoOp,
                TicketNoClient, TicketControl, Ticketed
  <2> QED
    BY <1>1, <2>1 DEF m
<1> QED
  BY <1>2, <1>3, <1>4 DEF Ticket, m

LEMMA TicketInput ==
    ASSUME TypeOK, TypeOK', InputBehind, Ticket, sequenceNumber <= sequenceNumber'
    PROVE  InputBehind'
<1> DEFINE m == Message
<1>1. m \in RawMessages
  BY TicketReverse
<1>2. raw' = raw
  BY DEF Ticket, UnchangedByTicket, logs
<1>3. reverse' = reverse \/ SendToAlfred(m)
  BY TicketReverse
<1> HIDE DEF m
<1>4. /\ reverse \in Seq(RawMessages) /\ sequenceNumber \in Nat /\ sequenceNumber' \in Nat
  BY DEF TypeOK, SendsTypeOK, LambdaTypeOK
<1>5. \A type, data : MessageBehind(ServerMessage(type, data), sequenceNumber')
  BY <1>4 DEF MessageBehind, ServerMessage
<1>6. \A i \in DOMAIN reverse' :
          \/ \E j \in DOMAIN reverse : reverse'[i] = reverse[j]
          \/ MessageBehind(reverse'[i], sequenceNumber')
  BY <1>1, <1>3, <1>4, <1>5, AlfredAdds
<1> QED
  BY <1>2, <1>4, <1>6, InputStays

(* Only the topics and what is on its way to them change.                  *)
LEMMA TopicsWindowStep ==
    ASSUME TypeOK, TypeOK', ReferencesInWindow, OutputBehind, CollaborationWindow,
           Operations' = Operations, UNCHANGED <<sequenceNumber, minimumSequenceNumber, clients>>,
           InputBehind'
    PROVE  ReferencesInWindow' /\ InputBehind' /\ OutputBehind' /\ CollaborationWindow'
<1>1. sequenceNumber <= sequenceNumber' /\ minimumSequenceNumber <= minimumSequenceNumber'
  BY DEF TypeOK, LambdaTypeOK
<1> QED
  BY <1>1, NoOutput DEF ReferencesInWindow, Tracked

LEMMA EnvironmentInput ==
    ASSUME TypeOK, InputBehind, OutputBehind, Environment
    PROVE  InputBehind'
<1>0. sequenceNumber' = sequenceNumber /\ reverse' = reverse
  <2>1. UnchangedByEnvironment
    BY DEF Environment, Connect, Submit, Disconnect, LoseMessage, RepeatBoxcar, ServiceSummary
  <2> QED
    BY <2>1 DEF UnchangedByEnvironment, lambda, window, inFlight
<1>1. sequenceNumber \in Nat
  BY DEF TypeOK, LambdaTypeOK
<1>2. ASSUME NEW m, MessageBehind(m, sequenceNumber), Enqueue(m) PROVE InputBehind'
  BY <1>0, <1>2, InputWritten
<1>3. ASSUME NEW type, NEW data, Enqueue(ServerMessage(type, data)) PROVE InputBehind'
  BY <1>1, <1>2, <1>3, ServerBehind
<1>4. ASSUME NEW c \in Clients, NEW kind \in ClientOps, Submit(c, kind) PROVE InputBehind'
  <2>1. PICK ref \in {0} \cup {deltas[i].seq : i \in Sequenced}, direct \in BOOLEAN :
            Enqueue(ClientMessage(IF kind = "NoOpImmediate" THEN "NoOp" ELSE kind,
                                  c, csn[c] + 1, IF direct THEN -1 ELSE ref,
                                  kind = "NoOpImmediate"))
    BY <1>4 DEF Submit
  <2> DEFINE m == ClientMessage(IF kind = "NoOpImmediate" THEN "NoOp" ELSE kind,
                                c, csn[c] + 1, IF direct THEN -1 ELSE ref,
                                kind = "NoOpImmediate")
  <2>2. ASSUME NEW i \in Sequenced PROVE deltas[i].seq <= sequenceNumber
    <3>1. /\ deltas \in Seq(OutputMessages) /\ sending \in Seq(OutputMessages)
          /\ i \in DOMAIN deltas /\ deltas[i].kind = "op"
      BY DEF TypeOK, SendsTypeOK, Sequenced
    <3>2. i \in DOMAIN Output /\ Output[i] = deltas[i]
      BY <3>1 DEF Output
    <3> QED
      BY <3>1, <3>2 DEF OutputBehind, Operations
  <2>3. (IF direct THEN -1 ELSE ref) <= sequenceNumber
    BY <1>1, <2>2
  <2>4. (IF kind = "NoOpImmediate" THEN "NoOp" ELSE kind) \in {"Operation", "NoOp", "Summarize"}
    BY DeliConstants DEF ClientKinds
  <2>5. MessageBehind(m, sequenceNumber)
    BY <2>3, <2>4 DEF MessageBehind, ClientMessage
  <2> HIDE DEF m
  <2>6. Enqueue(m)
    BY <2>1 DEF m
  <2> QED
    BY <1>2, <2>5, <2>6
<1>5. ASSUME RepeatBoxcar PROVE InputBehind'
  <2>1. PICK o \in DOMAIN raw : raw' = Append(raw, raw[o])
    BY <1>5 DEF RepeatBoxcar
  <2>2. raw \in Seq(Seq(RawMessages) \ {<<>>})
    BY DEF TypeOK, ConsumerTypeOK
  <2>3. \A p \in DOMAIN raw' : \E q \in DOMAIN raw : raw'[p] = raw[q]
    BY <2>1, <2>2
  <2> QED
    BY <1>0, <2>3 DEF InputBehind, MessageBehind
<1>6. ASSUME NEW c \in Clients, LoseMessage(c) PROVE InputBehind'
  BY <1>0, <1>6 DEF LoseMessage, InputBehind, MessageBehind
<1>7. ASSUME NEW c \in Clients, Connect(c) \/ Disconnect(c) PROVE InputBehind'
  BY <1>3, <1>7 DEF Connect, Disconnect
<1>8. ASSUME ServiceSummary PROVE InputBehind'
  <2>1. \E data : Enqueue(ServerMessage("Control", data))
    BY <1>8 DEF ServiceSummary
  <2> QED
    BY <1>3, <2>1
<1> QED
  BY <1>4, <1>5, <1>6, <1>7, <1>8 DEF Environment

LEMMA RestartsGrow ==
    ASSUME [Next]_vars
    PROVE  restarts' = restarts \/ restarts' = restarts + 1
  BY DEF Next, vars, Process, Deliver, Ticket, UnchangedByTicket, IdleTimerFires,
         NoopTimerFires, ForwardProduced, ReverseProduced, CheckpointReady, Update, Updated,
         Restart, Environment, Connect, Submit, Disconnect, LoseMessage, RepeatBoxcar,
         ServiceSummary, UnchangedByEnvironment, environment

LEMMA WindowStep ==
    ASSUME TypeOK, TypeOK', WindowInv, [Next]_vars
    PROVE  WindowInv'
<1> USE DEF logs, window, lambda, consumer, inFlight, checkpointing, environment
<1>1. CASE restarts # 0 \/ Restart
  <2>1. restarts' \in Nat /\ restarts \in Nat
    BY DEF TypeOK, EnvironmentTypeOK
  <2>2. restarts' = restarts \/ restarts' = restarts + 1
    BY RestartsGrow
  <2>3. restarts' # 0
    BY <1>1, <2>1, <2>2 DEF Restart
  <2> QED
    BY <2>3 DEF WindowInv
<1>2. CASE restarts = 0 /\ ~Restart
  <2> DEFINE Goal == ReferencesInWindow' /\ InputBehind' /\ OutputBehind' /\ CollaborationWindow'
  <2>0. /\ ReferencesInWindow /\ InputBehind /\ OutputBehind /\ CollaborationWindow
        /\ sequenceNumber \in Nat
    BY <1>2 DEF WindowInv, TypeOK, LambdaTypeOK
  <2> SUFFICES Goal
    BY DEF WindowInv
  <2>1. ASSUME sequenceNumber' = sequenceNumber, clients' = clients,
               minimumSequenceNumber' = minimumSequenceNumber,
               deltas' = deltas, sending' = sending, InputBehind'
        PROVE  Goal
    <3>1. Operations' = Operations
      BY <2>1 DEF Operations, Output
    <3> QED
      BY <2>0, <2>1, <3>1, TopicsWindowStep
  <2>2. ASSUME sequenceNumber' = sequenceNumber, raw' = raw, reverse' = reverse
        PROVE  InputBehind'
    BY <2>0, <2>2 DEF InputBehind, MessageBehind
  <2>3. CASE Deliver \/ CheckpointReady \/ Update \/ Updated \/ UNCHANGED vars
    <3>1. /\ sequenceNumber' = sequenceNumber /\ clients' = clients
          /\ minimumSequenceNumber' = minimumSequenceNumber
          /\ deltas' = deltas /\ sending' = sending /\ raw' = raw /\ reverse' = reverse
      BY <2>3 DEF Deliver, CheckpointReady, Update, Updated, vars
    <3> QED
      BY <2>1, <2>2, <3>1
  <2>4. CASE Ticket
    <3>1. /\ ReferencesInWindow' /\ OutputBehind' /\ CollaborationWindow'
          /\ sequenceNumber <= sequenceNumber'
      BY <2>0, <2>4, TicketInWindow
    <3> QED
      BY <2>0, <2>4, <3>1, TicketInput
  <2>5. CASE IdleTimerFires \/ NoopTimerFires
    <3>1. /\ sequenceNumber' = sequenceNumber /\ clients' = clients
          /\ minimumSequenceNumber' = minimumSequenceNumber
          /\ deltas' = deltas /\ sending' = sending /\ raw' = raw
          /\ reverse' = reverse \/ reverse' = Append(reverse, ServerMessage("NoOp", None))
      BY <2>5 DEF IdleTimerFires, NoopTimerFires
    <3>2. reverse \in Seq(RawMessages)
      BY DEF TypeOK, SendsTypeOK
    <3>3. MessageBehind(ServerMessage("NoOp", None), sequenceNumber)
      BY <2>0, ServerBehind
    <3>4. \A i \in DOMAIN reverse' :
              \/ i \in DOMAIN reverse /\ reverse'[i] = reverse[i]
              \/ reverse'[i] = ServerMessage("NoOp", None)
      BY <3>1, <3>2
    <3>5. InputBehind'
      BY <2>0, <3>1, <3>3, <3>4 DEF InputBehind, MessageBehind
    <3> QED
      BY <2>1, <3>1, <3>5
  <2>6. CASE ForwardProduced
    <3>1. /\ sequenceNumber' = sequenceNumber /\ clients' = clients
          /\ minimumSequenceNumber' = minimumSequenceNumber /\ raw' = raw /\ reverse' = reverse
      BY <2>6 DEF ForwardProduced
    <3>2. Operations' = Operations
      BY <2>6, ForwardKeeps DEF TypeOK
    <3> QED
      BY <2>0, <2>2, <3>1, <3>2, TopicsWindowStep
  <2>7. CASE ReverseProduced
    <3>1. /\ sequenceNumber' = sequenceNumber /\ clients' = clients
          /\ minimumSequenceNumber' = minimumSequenceNumber
          /\ deltas' = deltas /\ sending' = sending
          /\ Enqueue(Head(reverse)) /\ reverse' = Tail(reverse) /\ reverse # <<>>
      BY <2>7 DEF ReverseProduced
    <3>2. /\ Head(reverse) = reverse[1] /\ 1 \in DOMAIN reverse
          /\ \A k \in DOMAIN Tail(reverse) : k + 1 \in DOMAIN reverse /\ Tail(reverse)[k] = reverse[k + 1]
      BY <3>1, TailOfSeq DEF TypeOK, SendsTypeOK
    <3>3. MessageBehind(Head(reverse), sequenceNumber)
      BY <2>0, <3>2 DEF InputBehind
    <3>4. \A i \in DOMAIN reverse' : \E j \in DOMAIN reverse : reverse'[i] = reverse[j]
      BY <3>1, <3>2
    <3>5. InputBehind'
      BY <2>0, <3>1, <3>3, <3>4, InputWritten
    <3> QED
      BY <2>1, <3>1, <3>5
  <2>8. CASE Environment
    <3>1. UnchangedByEnvironment
      BY <2>8 DEF Environment, Connect, Submit, Disconnect, LoseMessage, RepeatBoxcar,
                  ServiceSummary
    <3>2. /\ sequenceNumber' = sequenceNumber /\ clients' = clients
          /\ minimumSequenceNumber' = minimumSequenceNumber
          /\ deltas' = deltas /\ sending' = sending
      BY <3>1 DEF UnchangedByEnvironment
    <3>3. InputBehind'
      BY <2>0, <2>8, EnvironmentInput
    <3> QED
      BY <2>1, <3>2, <3>3
  <2> QED
    BY <1>2, <2>3, <2>4, <2>5, <2>6, <2>7, <2>8 DEF Next, Process
<1> QED
  BY <1>1, <1>2

LEMMA WindowInit == Init => WindowInv
<1> SUFFICES ASSUME Init PROVE WindowInv
  OBVIOUS
<1>1. /\ raw = <<>> /\ deltas = <<>> /\ sending = <<>> /\ reverse = <<>>
      /\ sequenceNumber = 0 /\ minimumSequenceNumber = 0
      /\ clients = [c \in Clients |-> None]
  BY DEF Init, DefaultCheckpoint
<1>2. ReferencesInWindow
  BY <1>1 DEF ReferencesInWindow, Tracked, TrackedIn
<1>3. InputBehind
  BY <1>1 DEF InputBehind
<1>4. Operations = {}
  BY <1>1 DEF Operations, Output
<1> QED
  BY <1>2, <1>3, <1>4 DEF WindowInv, OutputBehind, CollaborationWindow

(* Until its first restart, the client table of Deli keeps all references  *)
(* between the minimum and the sequence number, what is to come refers to  *)
(* nothing later, and what was sent is behind both.                        *)
THEOREM WindowInvariant == Spec => []WindowInv
<1>1. TypeOK /\ TypeOK' /\ WindowInv /\ [Next]_vars => WindowInv'
  BY WindowStep
<1> QED
  BY <1>1, WindowInit, TypeCorrect, PTL DEF Spec

(* Once a minimum sequence number is published, no later message has a     *)
(* lower one or refers to anything below it, however many clients there    *)
(* are, and whichever messages are lost, repeated or direct (the nack at   *)
(* lambda.ts:316, the references of direct operations at 420, the new      *)
(* minimum at 446).                                                        *)
THEOREM CollaborationWindowHolds == Spec => [](restarts = 0 => CollaborationWindow)
<1>1. WindowInv => (restarts = 0 => CollaborationWindow)
  BY DEF WindowInv
<1> QED
  BY <1>1, WindowInvariant, PTL

-----------------------------------------------------------------------------
(* What the ticketing of a message does to the order and to the members.   *)

(* Nothing is sequenced, and the clients keep or raise their numbers. *)
Quiet ==
    /\ \A n : n \in Operations' <=> n \in Operations
    /\ TrackedIn(clients') = Tracked
    /\ \A c \in Tracked : clients[c].csn <= clients'[c].csn

(* Message m is sequenced as r. *)
Sent(m, r) ==
    /\ \A n : n \in Operations' <=> n \in Operations \/ n = r
    /\ r.kind = "op" /\ r.type = m.type /\ r.clientId = m.clientId /\ r.csn = m.csn
    /\ r.seq = sequenceNumber + 1 /\ r.src = Source

Joining(m) ==
    /\ m.type = "ClientJoin" /\ m.clientId = None /\ m.data \notin Tracked
    /\ clients' = Upsert(m.data, 0, minimumSequenceNumber, FALSE)

Leaving(m) ==
    /\ m.type = "ClientLeave" /\ m.clientId = None /\ m.data \in Tracked
    /\ clients' = Remove(m.data)

Operating(m) ==
    /\ m.type \in {"Operation", "NoOp", "Summarize"} /\ m.clientId \in Tracked
    /\ m.csn = clients[m.clientId].csn + 1
    /\ \E ref \in Nat : clients' = Upsert(m.clientId, m.csn, ref, FALSE)

(* A message of the service, without a client. *)
Serving(m, r) ==
    /\ m.type \in {"NoOp", "NoClient"} /\ m.clientId = None /\ clients' = clients
    /\ m.type = "NoClient" => Tracked = {} /\ r.ref = r.seq /\ r.msn = r.seq

LEMMA TicketOutcome ==
    ASSUME TypeOK, TypeOK', Ticket,
           Message.type \notin {"Operation", "NoOp", "Summarize"} => Message.clientId = None
    PROVE  \/ Message.type = "ClientJoin" /\ Message.data \in Tracked
           \/ Quiet
           \/ \E r : /\ Sent(Message, r)
                     /\ Joining(Message) \/ Leaving(Message) \/ Operating(Message)
                        \/ Serving(Message, r)
<1> DEFINE m == Message
           Goal == \/ m.type = "ClientJoin" /\ m.data \in Tracked
                   \/ Quiet
                   \/ \E r : /\ Sent(m, r)
                             /\ Joining(m) \/ Leaving(m) \/ Operating(m) \/ Serving(m, r)
<1>1. m \in RawMessages
  BY TicketReverse
<1>3. m.type \in {"ClientJoin", "ClientLeave", "NoClient", "Control"} => m.clientId = None
  OBVIOUS
<1>2. /\ deltas' = deltas /\ clients \in [Clients -> ClientStates \cup {None}]
      /\ sequenceNumber \in Nat /\ minimumSequenceNumber \in Nat /\ SendsTypeOK /\ SendsTypeOK'
  BY DEF Ticket, UnchangedByTicket, logs, TypeOK, LambdaTypeOK
<1> HIDE DEF m
<1> SUFFICES Goal
  BY DEF m
<1>a. ASSUME sending' = sending PROVE \A n : n \in Operations' <=> n \in Operations
  BY <1>2, <1>a DEF Operations, Output
<1>b. ASSUME SendNack(m) PROVE \A n : n \in Operations' <=> n \in Operations
  <2> DEFINE r == NackMessage(m)
  <2>1. sending' = Append(sending, r) /\ r.kind = "nack"
    BY <1>b DEF SendNack, NackMessage
  <2> HIDE DEF r
  <2> QED
    BY <1>2, <2>1, SendAdds
<1>c. ASSUME NEW ref, SendImmediately(m, ref), sequenceNumber' = sequenceNumber + 1
      PROVE  \E r : /\ Sent(m, r) /\ r.ref = ref /\ r.msn = minimumSequenceNumber'
                    /\ r.seq = sequenceNumber'
  <2> DEFINE r == [kind |-> "op", type |-> m.type, clientId |-> m.clientId, csn |-> m.csn,
                   ref |-> ref, seq |-> sequenceNumber', msn |-> minimumSequenceNumber',
                   deli |-> AdditionalContent(m), src |-> Source]
  <2>1. /\ sending' = Append(sending, r) /\ r.seq = sequenceNumber' /\ r.kind = "op"
        /\ r.type = m.type /\ r.csn = m.csn /\ r.src = Source
        /\ r.msn = minimumSequenceNumber' /\ r.ref = ref /\ r.clientId = m.clientId
    BY <1>c DEF SendImmediately
  <2> HIDE DEF r
  <2>2. \A n : n \in Operations' <=> n \in Operations \/ n = r
    BY <1>2, <2>1, SendAdds
  <2>3. Sent(m, r)
    BY <1>c, <2>1, <2>2 DEF Sent
  <2> QED
    BY <2>1, <2>3
(* A message that is accepted is the next one of a tracked client.  *)
<1>d. ASSUME FromClient(m), ~Nonexistent(m)
      PROVE  /\ m.clientId \in Tracked /\ m.csn = clients[m.clientId].csn + 1
             /\ clients[m.clientId].csn \in Nat /\ m.csn \in Nat
  <2>1. m.clientId \in Tracked /\ clients[m.clientId] \in ClientStates
    BY <1>2, <1>d DEF Nonexistent, Tracked, TrackedIn
  <2>2. clients[m.clientId].csn \in Nat
    BY <2>1 DEF ClientStates
  <2>3. m.csn = clients[m.clientId].csn + 1
    BY <1>d, <2>1 DEF FromClient, Order
  <2> QED
    BY <2>1, <2>2, <2>3
(* An entry that is updated stays one.  *)
<1>e. ASSUME FromClient(m), ~Nonexistent(m), NEW ref \in Nat, NEW nack \in BOOLEAN,
             clients' = Upsert(m.clientId, m.csn, ref, nack)
      PROVE  /\ TrackedIn(clients') = Tracked
             /\ \A c \in Tracked : clients[c].csn <= clients'[c].csn
  <2>1. /\ m.clientId \in Tracked /\ m.csn = clients[m.clientId].csn + 1
        /\ clients[m.clientId].csn \in Nat
    BY <1>d, <1>e
  <2>2. \A c \in Tracked : clients[c].csn \in Nat
    BY <1>2 DEF Tracked, TrackedIn, ClientStates
  <2>3. [csn |-> m.csn, ref |-> ref, nack |-> nack] # None
    <3>1. [csn |-> m.csn, ref |-> ref, nack |-> nack] \in ClientStates
      BY <1>d, <1>e DEF ClientStates
    <3> QED
      BY <3>1, DeliConstants
  <2> QED
    BY <1>2, <1>e, <2>1, <2>2, <2>3 DEF Upsert, Tracked, TrackedIn
<1>f. ASSUME clients' = clients
      PROVE  /\ TrackedIn(clients') = Tracked
             /\ \A c \in Tracked : clients[c].csn <= clients'[c].csn
  <2>1. \A c \in Tracked : clients[c].csn \in Nat
    BY <1>2 DEF Tracked, TrackedIn, ClientStates
  <2> QED
    BY <1>f, <2>1 DEF Tracked
<1>4. CASE TicketDuplicate(m) \/ TicketLeaveOfUnknown(m)
  <2>1. clients' = clients /\ sending' = sending
    BY <1>4 DEF TicketDuplicate, TicketLeaveOfUnknown, lambda, window, inFlight
  <2> QED
    BY <1>a, <1>f, <2>1 DEF Quiet
<1>5. CASE TicketRepeatedJoin(m)
  BY <1>5 DEF TicketRepeatedJoin
<1>6. CASE TicketGap(m) \/ TicketNonexistent(m) \/ TicketForbidden(m)
  <2>1. SendNack(m) /\ clients' = clients
    BY <1>6 DEF TicketGap, TicketNonexistent, TicketForbidden
  <2> QED
    BY <1>b, <1>f, <2>1 DEF Quiet
<1>7. CASE TicketBelowWindow(m)
  <2>1. /\ SendNack(m) /\ FromClient(m) /\ ~Nonexistent(m)
        /\ clients' = Upsert(m.clientId, m.csn, minimumSequenceNumber, TRUE)
    BY <1>7 DEF TicketBelowWindow
  <2>2. \A n : n \in Operations' <=> n \in Operations
    BY <1>b, <2>1
  <2>3. /\ TrackedIn(clients') = Tracked
        /\ \A c \in Tracked : clients[c].csn <= clients'[c].csn
    BY <1>2, <1>e, <2>1
  <2> QED
    BY <2>2, <2>3 DEF Quiet
<1>8. CASE TicketJoin(m)
  <2>1. /\ SendImmediately(m, m.ref) /\ sequenceNumber' = sequenceNumber + 1
        /\ Joining(m)
    BY <1>3, <1>8 DEF TicketJoin, Advance, JoinReference, Joining
  <2> QED
    BY <1>c, <2>1
<1>9. CASE TicketLeave(m)
  <2>1. /\ SendImmediately(m, m.ref) /\ sequenceNumber' = sequenceNumber + 1
        /\ Leaving(m)
    BY <1>3, <1>9 DEF TicketLeave, Advance, Leaving
  <2> QED
    BY <1>c, <2>1
<1>10. CASE TicketClientOp(m)
  <2> DEFINE ref == IF m.ref = -1 THEN sequenceNumber + 1 ELSE m.ref
  <2>1. /\ SendImmediately(m, ref) /\ sequenceNumber' = sequenceNumber + 1
        /\ clients' = Upsert(m.clientId, m.csn, ref, FALSE)
        /\ FromClient(m) /\ ~Nonexistent(m) /\ m.type \in {"Operation", "Summarize"}
    BY <1>10 DEF TicketClientOp, Advance, Accepted
  <2>2. ref \in Nat
    BY <1>1, <1>2 DEF RawMessages
  <2> HIDE DEF ref
  <2>3. Operating(m)
    BY <1>d, <2>1, <2>2 DEF Operating
  <2> QED
    BY <1>c, <2>1, <2>3
<1>11. CASE TicketClientNoOp(m)
  <2> DEFINE cl == Upsert(m.clientId, m.csn, m.ref, FALSE)
             send == m.immediate /\ MinimumOf(cl, sequenceNumber) > lastSentMSN
  <2>1. /\ clients' = cl /\ sequenceNumber' = IF send THEN sequenceNumber + 1 ELSE sequenceNumber
        /\ IF send THEN SendImmediately(m, m.ref) ELSE SendLater
        /\ FromClient(m) /\ ~Nonexistent(m) /\ m.type = "NoOp" /\ m.ref >= minimumSequenceNumber
    BY <1>11 DEF TicketClientNoOp, Advance, Accepted
  <2> HIDE DEF send
  <2>2. m.ref \in Nat
    BY <1>1, <1>2, <2>1 DEF RawMessages
  <2>3. CASE send
    <3>1. Operating(m)
      BY <1>d, <2>1, <2>2 DEF Operating
    <3> QED
      BY <1>c, <2>1, <2>3, <3>1
  <2>4. CASE ~send
    <3>1. sending' = sending
      BY <2>1, <2>4 DEF SendLater
    <3>2. /\ TrackedIn(clients') = Tracked
          /\ \A c \in Tracked : clients[c].csn <= clients'[c].csn
      BY <1>e, <2>1, <2>2
    <3> QED
      BY <1>a, <3>1, <3>2 DEF Quiet
  <2> QED
    BY <2>3, <2>4
<1>12. CASE TicketServerNoOp(m)
  <2>1. /\ clients' = clients /\ m.clientId = None /\ m.type = "NoOp"
        /\ \/ sequenceNumber' = sequenceNumber + 1 /\ SendImmediately(m, m.ref)
           \/ SendNever
    BY <1>12 DEF TicketServerNoOp
  <2>2. CASE SendNever
    BY <1>a, <1>f, <2>1, <2>2 DEF Quiet, SendNever
  <2>3. CASE sequenceNumber' = sequenceNumber + 1 /\ SendImmediately(m, m.ref)
    BY <1>c, <2>1, <2>3 DEF Serving
  <2> QED
    BY <2>1, <2>2, <2>3
<1>13. CASE TicketNoClient(m)
  <2>1. clients' = clients /\ m.clientId = None /\ m.type = "NoClient"
    BY <1>3, <1>13 DEF TicketNoClient, Advance
  <2>2. CASE Tracked = {}
    <3>1. /\ sequenceNumber' = sequenceNumber + 1 /\ SendImmediately(m, sequenceNumber')
          /\ minimumSequenceNumber' = sequenceNumber'
      BY <1>13, <2>2 DEF TicketNoClient, Advance, MinimumOf, Tracked
    <3>2. PICK r : /\ Sent(m, r) /\ r.ref = sequenceNumber' /\ r.msn = minimumSequenceNumber'
                   /\ r.seq = sequenceNumber'
      BY <1>c, <3>1
    <3>3. Serving(m, r)
      BY <2>1, <2>2, <3>1, <3>2 DEF Serving
    <3> QED
      BY <3>2, <3>3
  <2>3. CASE Tracked # {}
    <3>1. sending' = sending
      BY <1>13, <2>3 DEF TicketNoClient, SendNever
    <3> QED
      BY <1>a, <1>f, <2>1, <3>1 DEF Quiet
  <2> QED
    BY <2>2, <2>3
<1>14. CASE TicketControl(m)
  <2>1. clients' = clients /\ sending' = sending
    BY <1>14 DEF TicketControl, Advance, SendNever
  <2> QED
    BY <1>a, <1>f, <2>1 DEF Quiet
<1> QED
  BY <1>4, <1>5, <1>6, <1>7, <1>8, <1>9, <1>10, <1>11, <1>12, <1>13, <1>14 DEF Ticket, m

-----------------------------------------------------------------------------
(* What an order without new operations, and one with a new operation,     *)
(* says of the members.                                                    *)

LEMMA NoNewOperation ==
    ASSUME TypeOK, KnowsMembers, OperationsOfMembers, ClientOrder,
           \A n : n \in Operations' <=> n \in Operations,
           \A n \in Operations : RawOf(n)' = RawOf(n),
           TrackedIn(clients') = Tracked,
           \A c \in Tracked : clients[c].csn <= clients'[c].csn /\ clients'[c].csn \in Nat
    PROVE  KnowsMembers' /\ OperationsOfMembers' /\ ClientOrder'
<1>1. Operations' = Operations
  OBVIOUS
<1>2. \A c : Joins(c)' = Joins(c) /\ Leaves(c)' = Leaves(c)
  BY <1>1 DEF Joins, Leaves
<1>3. \A n : MembersAt(n)' = MembersAt(n)
  BY <1>2 DEF MembersAt
<1>4. ClientOrder'
  BY <1>1 DEF ClientOrder
<1>5. OperationsOfMembers'
  BY <1>1, <1>2, <1>3 DEF OperationsOfMembers
<1>6. Tracked' = Tracked
  BY DEF Tracked
<1>7. ASSUME NEW c \in Tracked, NEW n \in Operations, n.clientId = c
      PROVE  n.csn <= clients'[c].csn
  <2>1. c \in Clients /\ clients[c].csn \in Nat
    BY DEF Tracked, TrackedIn, TypeOK, LambdaTypeOK, ClientStates
  <2>2. n.csn <= clients[c].csn /\ n.csn \in Nat \cup {-1}
    BY <1>7, <2>1, OperationType DEF KnowsMembers, TypeOK, OutputMessages
  <2> QED
    BY <2>1, <2>2
<1>8. KnowsMembers'
  BY <1>1, <1>2, <1>6, <1>7 DEF KnowsMembers
<1> QED
  BY <1>4, <1>5, <1>8

(* An operation is sequenced: who has joined and left by the numbers given *)
(* before is as it was.                                                    *)
LEMMA MembersBefore ==
    ASSUME TypeOK, OutputBehind, raw' = raw, NEW m, NEW r, Sent(m, r), RawOf(r) = m
    PROVE  /\ \A c, n : n \in Joins(c)' <=>
                  n \in Joins(c) \/ (n = r /\ m.type = "ClientJoin" /\ m.data = c)
           /\ \A c, n : n \in Leaves(c)' <=>
                  n \in Leaves(c) \/ (n = r /\ m.type = "ClientLeave" /\ m.data = c)
           /\ \A n \in Operations : n.seq \in Nat /\ n.seq < r.seq
           /\ \A n \in Operations : MembersAt(n.seq)' = MembersAt(n.seq)
<1>1. /\ \A n : n \in Operations' <=> n \in Operations \/ n = r
      /\ r.type = m.type /\ r.seq = sequenceNumber + 1
  BY DEF Sent
<1>2. \A n : RawOf(n)' = RawOf(n)
  BY DEF RawOf
<1>3. \A c, n : n \in Joins(c)' <=>
          n \in Joins(c) \/ (n = r /\ m.type = "ClientJoin" /\ m.data = c)
  BY <1>1, <1>2 DEF Joins
<1>4. \A c, n : n \in Leaves(c)' <=>
          n \in Leaves(c) \/ (n = r /\ m.type = "ClientLeave" /\ m.data = c)
  BY <1>1, <1>2 DEF Leaves
<1>5. \A n \in Operations : n.seq \in Nat /\ n.seq < r.seq
  <2>1. \A n \in Operations : n.seq \in Nat /\ n.seq <= sequenceNumber
    BY OperationType DEF OutputBehind, TypeOK
  <2>2. sequenceNumber \in Nat
    BY DEF TypeOK, LambdaTypeOK
  <2> QED
    BY <1>1, <2>1, <2>2
<1>6. ASSUME NEW n \in Operations PROVE MembersAt(n.seq)' = MembersAt(n.seq)
  <2>1. n.seq \in Nat /\ r.seq \in Nat /\ ~(r.seq <= n.seq)
    BY <1>1, <1>5 DEF TypeOK, LambdaTypeOK
  <2>2. ASSUME NEW c PROVE (\E j \in Joins(c)' : j.seq <= n.seq) <=> (\E j \in Joins(c) : j.seq <= n.seq)
    BY <1>3, <2>1
  <2>3. ASSUME NEW c PROVE (\E j \in Leaves(c)' : j.seq <= n.seq) <=> (\E j \in Leaves(c) : j.seq <= n.seq)
    BY <1>4, <2>1
  <2> QED
    BY <2>2, <2>3 DEF MembersAt
<1> QED
  BY <1>3, <1>4, <1>5, <1>6

LEMMA NewOperationOfMember ==
    ASSUME TypeOK, TypeOK', OutputBehind, KnowsMembers, OperationsOfMembers, ClientOrder,
           raw' = raw, NEW m, NEW r, Sent(m, r), RawOf(r) = m,
           \/ Joining(m) /\ Joins(m.data) = {}
           \/ Leaving(m)
           \/ Operating(m)
           \/ Serving(m, r)
    PROVE  KnowsMembers' /\ OperationsOfMembers' /\ ClientOrder'
<1>1. /\ \A c, n : n \in Joins(c)' <=>
             n \in Joins(c) \/ (n = r /\ m.type = "ClientJoin" /\ m.data = c)
      /\ \A c, n : n \in Leaves(c)' <=>
             n \in Leaves(c) \/ (n = r /\ m.type = "ClientLeave" /\ m.data = c)
      /\ \A n \in Operations : n.seq \in Nat /\ n.seq < r.seq
      /\ \A n \in Operations : MembersAt(n.seq)' = MembersAt(n.seq)
  BY MembersBefore
<1>2. /\ \A n : n \in Operations' <=> n \in Operations \/ n = r
      /\ r.type = m.type /\ r.clientId = m.clientId /\ r.csn = m.csn
      /\ r.seq = sequenceNumber + 1 /\ r.seq \in Nat
  BY DEF Sent, TypeOK, LambdaTypeOK
<1>3. /\ \A n \in Operations : n.csn \in Nat \cup {-1}
      /\ \A c : Joins(c) \subseteq Operations /\ Leaves(c) \subseteq Operations
      /\ \A c \in Tracked : c \in Clients /\ clients[c].csn \in Nat
      /\ DOMAIN clients = Clients
  <2>1. \A n \in Operations : n.csn \in Nat \cup {-1}
    BY OperationType DEF TypeOK, OutputMessages
  <2> QED
    BY <2>1 DEF Joins, Leaves, Tracked, TrackedIn, TypeOK, LambdaTypeOK, ClientStates
<1>4. None \notin Clients
  BY DeliConstants
(* The parts that are the same whatever the message is.  *)
<1>a. ASSUME r.clientId # None => r.clientId \in MembersAt(r.seq)',
             \A c \in Clients : m.type = "ClientJoin" /\ m.data = c => Joins(c) = {},
             \A c \in Clients : m.type = "ClientLeave" /\ m.data = c => Leaves(c) = {},
             r.type = "NoClient" =>
                 MembersAt(r.seq)' = {} /\ r.ref = r.seq /\ r.msn = r.seq
      PROVE  OperationsOfMembers'
  <2>1. ASSUME NEW n \in Operations'
        PROVE  /\ n.clientId # None => n.clientId \in MembersAt(n.seq)'
               /\ n.type = "NoClient" =>
                      MembersAt(n.seq)' = {} /\ n.ref = n.seq /\ n.msn = n.seq
    BY <1>1, <1>2, <1>a DEF OperationsOfMembers
  <2>2. ASSUME NEW c \in Clients, NEW j \in Joins(c)', NEW n \in Joins(c)' PROVE j.seq = n.seq
    BY <1>1, <1>a DEF OperationsOfMembers
  <2>3. ASSUME NEW c \in Clients, NEW j \in Leaves(c)', NEW n \in Leaves(c)' PROVE j.seq = n.seq
    BY <1>1, <1>a DEF OperationsOfMembers
  <2> QED
    BY <2>1, <2>2, <2>3 DEF OperationsOfMembers
<1>b. ASSUME m.clientId = None PROVE ClientOrder'
  BY <1>2, <1>b DEF ClientOrder
<1>c. ASSUME NEW c \in Clients, clients'[c] = clients[c], c # m.clientId,
             m.type \in {"ClientJoin", "ClientLeave"} => c # m.data
      PROVE  /\ c \in Tracked' <=> Joins(c)' # {} /\ Leaves(c)' = {}
             /\ Leaves(c)' # {} => Joins(c)' # {}
             /\ c \in Tracked' =>
                    \A n \in Operations' : n.clientId = c => n.csn <= clients'[c].csn
  <2>1. Joins(c)' = Joins(c) /\ Leaves(c)' = Leaves(c)
    <3>1. \A n : (n \in Joins(c)' <=> n \in Joins(c)) /\ (n \in Leaves(c)' <=> n \in Leaves(c))
      BY <1>1, <1>c
    <3>2. Joins(c)' = Joins(c)
      BY <3>1
    <3>3. Leaves(c)' = Leaves(c)
      BY <3>1
    <3> QED
      BY <3>2, <3>3
  <2>2. c \in Tracked' <=> c \in Tracked
    BY <1>c DEF Tracked, TrackedIn
  <2>3. \A n \in Operations' : n.clientId = c => n \in Operations
    BY <1>2, <1>c
  <2> QED
    BY <1>c, <2>1, <2>2, <2>3 DEF KnowsMembers
<1>5. CASE Joining(m) /\ Joins(m.data) = {}
  <2>1. /\ m.type = "ClientJoin" /\ m.clientId = None
        /\ clients' = Upsert(m.data, 0, minimumSequenceNumber, FALSE)
    BY <1>5 DEF Joining
  <2>2. ASSUME NEW c \in Clients, c = m.data
        PROVE  /\ c \in Tracked' /\ Joins(c)' = {r} /\ Leaves(c)' = {}
               /\ \A n \in Operations' : n.clientId # c
    <3>1. [csn |-> 0, ref |-> minimumSequenceNumber, nack |-> FALSE] # None
      <4>1. [csn |-> 0, ref |-> minimumSequenceNumber, nack |-> FALSE] \in ClientStates
        BY DEF ClientStates, TypeOK, LambdaTypeOK
      <4> QED
        BY <4>1, DeliConstants
    <3>2. c \in Tracked'
      BY <1>3, <2>1, <2>2, <3>1 DEF Upsert, Tracked, TrackedIn
    <3>3. Leaves(c) = {}
      BY <1>5, <2>2 DEF KnowsMembers
    <3>4. \A n \in Operations : n.clientId # c
      BY <1>4, <1>5, <2>2 DEF OperationsOfMembers, MembersAt
    <3>5. \A n \in Operations' : n.clientId # c
      BY <1>2, <1>4, <2>1, <3>4
    <3> QED
      BY <1>1, <1>5, <2>1, <2>2, <3>2, <3>3, <3>5
  <2>3. \A c \in Clients : c # m.data => clients'[c] = clients[c]
    BY <1>3, <2>1 DEF Upsert
  <2>4. KnowsMembers'
    BY <1>4, <1>c, <2>1, <2>2, <2>3 DEF KnowsMembers
  <2>5. OperationsOfMembers'
    BY <1>2, <1>5, <1>a, <2>1
  <2> QED
    BY <1>b, <2>1, <2>4, <2>5
<1>6. CASE Leaving(m)
  <2>1. /\ m.type = "ClientLeave" /\ m.clientId = None /\ m.data \in Tracked
        /\ clients' = Remove(m.data)
    BY <1>6 DEF Leaving
  <2>2. Joins(m.data) # {} /\ Leaves(m.data) = {} /\ m.data \in Clients
    BY <1>3, <2>1 DEF KnowsMembers
  <2>3. /\ m.data \notin Tracked' /\ Joins(m.data)' # {} /\ Leaves(m.data)' # {}
    <3>1. m.data \notin Tracked'
      BY <1>3, <2>1, <2>2 DEF Remove, Tracked, TrackedIn
    <3> QED
      BY <1>1, <2>1, <2>2, <3>1
  <2>4. \A c \in Clients : c # m.data => clients'[c] = clients[c]
    BY <1>3, <2>1 DEF Remove
  <2>5. KnowsMembers'
    BY <1>4, <1>c, <2>1, <2>3, <2>4 DEF KnowsMembers
  <2>6. OperationsOfMembers'
    BY <1>2, <1>a, <2>1, <2>2
  <2> QED
    BY <1>b, <2>1, <2>5, <2>6
<1>7. CASE Operating(m)
  <2> DEFINE a == m.clientId
  <2>1. /\ m.type \in {"Operation", "NoOp", "Summarize"} /\ a \in Tracked
        /\ m.csn = clients[a].csn + 1 /\ a \in Clients /\ a # None
    BY <1>3, <1>4, <1>7 DEF Operating
  <2>2. PICK ref \in Nat : clients' = Upsert(a, m.csn, ref, FALSE)
    BY <1>7 DEF Operating
  <2> HIDE DEF a
  <2>3. /\ \A c \in Clients : c # a => clients'[c] = clients[c]
        /\ clients'[a].csn = m.csn /\ a \in Tracked'
    <3>1. clients'[a] = [csn |-> m.csn, ref |-> ref, nack |-> FALSE]
      BY <1>3, <2>1, <2>2 DEF Upsert
    <3>2. [csn |-> m.csn, ref |-> ref, nack |-> FALSE] \in ClientStates
      BY <1>3, <2>1 DEF ClientStates
    <3> QED
      BY <1>3, <2>1, <2>2, <3>1, <3>2, DeliConstants DEF Upsert, Tracked, TrackedIn
  <2>4. Joins(a)' = Joins(a) /\ Leaves(a)' = Leaves(a)
    <3>1. \A n : (n \in Joins(a)' <=> n \in Joins(a)) /\ (n \in Leaves(a)' <=> n \in Leaves(a))
      BY <1>1, <2>1
    <3>2. Joins(a)' = Joins(a)
      BY <3>1
    <3>3. Leaves(a)' = Leaves(a)
      BY <3>1
    <3> QED
      BY <3>2, <3>3
  <2>5. \A n \in Operations : n.clientId = a => n.csn < m.csn
    <3>1. \A n \in Operations : n.clientId = a => n.csn <= clients[a].csn
      BY <2>1 DEF KnowsMembers
    <3> QED
      BY <1>3, <2>1, <3>1
  <2>6. KnowsMembers'
    <3>1. \A n \in Operations' : n.clientId = a => n.csn <= clients'[a].csn
      BY <1>2, <1>3, <2>1, <2>3, <2>5
    <3>2. Joins(a)' # {} /\ Leaves(a)' = {}
      BY <2>1, <2>4 DEF KnowsMembers
    <3> QED
      BY <1>c, <2>1, <2>3, <3>1, <3>2 DEF KnowsMembers, a
  <2>7. a \in MembersAt(r.seq)'
    <3>1. PICK j : j \in Joins(a)
      BY <2>1 DEF KnowsMembers
    <3>2. Leaves(a)' = {} /\ j \in Joins(a)' /\ j.seq <= r.seq
      BY <1>1, <1>2, <1>3, <2>1, <2>4, <3>1 DEF KnowsMembers
    <3> QED
      BY <2>1, <3>2 DEF MembersAt
  <2>8. OperationsOfMembers'
    BY <1>2, <1>a, <2>1, <2>7 DEF a
  <2>9. ClientOrder'
    <3> SUFFICES ASSUME NEW i \in Operations', NEW n \in Operations',
                        i.clientId # None, i.clientId = n.clientId
                 PROVE  i.csn < n.csn <=> i.seq < n.seq
      BY DEF ClientOrder
    <3>1. CASE i \in Operations /\ n \in Operations
      BY <3>1 DEF ClientOrder
    <3>2. CASE i \in Operations /\ n = r
      <4>1. i.csn < m.csn /\ i.seq < r.seq
        BY <1>1, <1>2, <2>5, <3>2 DEF a
      <4> QED
        BY <1>2, <3>2, <4>1
    <3>3. CASE i = r /\ n \in Operations
      <4>1. n.csn < m.csn /\ n.seq < r.seq /\ m.csn \in Nat
        BY <1>1, <1>2, <1>3, <2>1, <2>5, <3>3 DEF a
      <4> QED
        BY <1>1, <1>2, <1>3, <3>3, <4>1
    <3>4. CASE i = r /\ n = r
      BY <1>2, <1>3, <2>1, <3>4
    <3> QED
      BY <1>2, <3>1, <3>2, <3>3, <3>4
  <2> QED
    BY <2>6, <2>8, <2>9
<1>8. CASE Serving(m, r)
  <2>1. /\ m.type \in {"NoOp", "NoClient"} /\ m.clientId = None /\ clients' = clients
        /\ m.type = "NoClient" => Tracked = {} /\ r.ref = r.seq /\ r.msn = r.seq
    BY <1>8 DEF Serving
  <2>2. KnowsMembers'
    BY <1>4, <1>c, <2>1 DEF KnowsMembers
  <2>3. ASSUME m.type = "NoClient" PROVE MembersAt(r.seq)' = {}
    <3>1. ASSUME NEW c \in Clients, NEW j \in Joins(c)' PROVE \E l \in Leaves(c)' : l.seq <= r.seq
      <4>1. Joins(c) # {} /\ c \notin Tracked
        BY <1>1, <2>1, <2>3, <3>1
      <4>2. PICK l : l \in Leaves(c)
        BY <4>1 DEF KnowsMembers
      <4>3. l \in Leaves(c)' /\ l.seq <= r.seq
        BY <1>1, <1>2, <1>3, <4>2
      <4> QED
        BY <4>3
    <3> QED
      BY <3>1 DEF MembersAt
  <2>4. OperationsOfMembers'
    BY <1>2, <1>a, <2>1, <2>3
  <2> QED
    BY <1>b, <2>1, <2>2, <2>4
<1> QED
  BY <1>5, <1>6, <1>7, <1>8

-----------------------------------------------------------------------------
(* A message is ticketed.                                                  *)

(* Nothing has been sent for the message that is being ticketed: a join    *)
(* that the handler reaches is the first of its client.                    *)
LEMMA SourceIsFresh ==
    ASSUME TypeOK, OutputPassed, JoinedOnce, cursor # 0,
           Message.type = "ClientJoin"
    PROVE  Joins(Message.data) = {}
<1> SUFFICES ASSUME NEW n \in Joins(Message.data) PROVE FALSE
  OBVIOUS
<1>1. /\ n \in Operations /\ n.type = "ClientJoin" /\ RawOf(n).data = Message.data
      /\ Passed(n.src) /\ RawOf(n).type = "ClientJoin"
  BY DEF Joins, OutputPassed
<1>2. n.src \in Nat \X Nat
  BY <1>1, OperationType DEF TypeOK, OutputMessages
<1>3. /\ logOffset \in DOMAIN raw /\ cursor \in DOMAIN raw[logOffset]
      /\ Message = raw[logOffset][cursor] /\ logOffset \in Nat /\ cursor \in Nat
  BY DEF TypeOK, ConsumerTypeOK, Message
<1>4. n.src[1] = logOffset /\ n.src[2] = cursor
  BY <1>1, <1>3 DEF JoinedOnce, Passed, RawOf
<1> QED
  BY <1>1, <1>3, <1>4 DEF Passed

LEMMA TicketMembers ==
    ASSUME TypeOK, TypeOK', InputBehind, OutputBehind, JoinedOnce, OutputPassed, KnowsMembers,
           OperationsOfMembers, ClientOrder, Ticket
    PROVE  OutputPassed' /\ KnowsMembers' /\ OperationsOfMembers' /\ ClientOrder'
<1> DEFINE m == Message
<1>1. /\ raw' = raw /\ logOffset' = logOffset /\ cursor # 0
      /\ cursor' = cursor + 1 \/ cursor' = 0
      /\ logOffset \in DOMAIN raw /\ cursor \in DOMAIN raw[logOffset] /\ cursor \in Nat
      /\ m = raw[logOffset][cursor]
  BY DEF Ticket, UnchangedByTicket, logs, consumer, EndOfMessage, TypeOK, ConsumerTypeOK, Message
<1>2. \A n : RawOf(n)' = RawOf(n)
  BY <1>1 DEF RawOf
<1>3. ASSUME NEW n \in Operations PROVE Passed(n.src)'
  <2>1. n.src \in Nat \X Nat /\ logOffset \in Nat
    BY OperationType DEF TypeOK, OutputMessages, ConsumerTypeOK
  <2>2. Passed(n.src)
    BY DEF OutputPassed
  <2> QED
    BY <1>1, <2>1, <2>2 DEF Passed
<1>4. ASSUME NEW r, r.src = Source PROVE Passed(r.src)' /\ RawOf(r) = m
  <2>1. r.src[1] = logOffset /\ r.src[2] = cursor
    BY <1>4 DEF Source
  <2> QED
    BY <1>1, <2>1 DEF Passed, RawOf
<1>8. m.type \notin {"Operation", "NoOp", "Summarize"} => m.clientId = None
  BY <1>1 DEF InputBehind, MessageBehind
<1> HIDE DEF m
<1>5. CASE m.type = "ClientJoin" /\ m.data \in Tracked
  <2>1. Joins(m.data) = {} /\ m.data \in Clients
    BY <1>1, <1>5, SourceIsFresh DEF m, Tracked, TrackedIn
  <2> QED
    BY <1>5, <2>1 DEF KnowsMembers
<1>6. CASE Quiet
  <2>1. \A c \in Tracked : clients[c].csn <= clients'[c].csn /\ clients'[c].csn \in Nat
    <3>1. \A c \in TrackedIn(clients') : clients'[c].csn \in Nat
      BY DEF TypeOK, LambdaTypeOK, TrackedIn, ClientStates
    <3> QED
      BY <1>6, <3>1 DEF Quiet
  <2>2. KnowsMembers' /\ OperationsOfMembers' /\ ClientOrder'
    BY <1>2, <1>6, <2>1, NoNewOperation DEF Quiet
  <2>3. OutputPassed'
    BY <1>2, <1>3, <1>6 DEF Quiet, OutputPassed
  <2> QED
    BY <2>2, <2>3
<1>7. ASSUME NEW r, Sent(m, r), Joining(m) \/ Leaving(m) \/ Operating(m) \/ Serving(m, r)
      PROVE  OutputPassed' /\ KnowsMembers' /\ OperationsOfMembers' /\ ClientOrder'
  <2>1. Passed(r.src)' /\ RawOf(r) = m /\ r.type = m.type
    BY <1>4, <1>7 DEF Sent
  <2>2. OutputPassed'
    BY <1>2, <1>3, <1>7, <2>1 DEF Sent, OutputPassed
  <2>3. Joining(m) => Joins(m.data) = {}
    BY <1>1, SourceIsFresh DEF m, Joining
  <2> QED
    BY <1>1, <1>7, <2>1, <2>2, <2>3, NewOperationOfMember
<1> QED
  BY <1>5, <1>6, <1>7, <1>8, TicketOutcome DEF m

-----------------------------------------------------------------------------
(* The raw topic.                                                          *)

(* It only grows: what it had stays at its place. *)
RawGrows ==
    \A o \in DOMAIN raw : /\ o \in DOMAIN raw'
                          /\ \A i \in DOMAIN raw[o] : i \in DOMAIN raw'[o] /\ raw'[o][i] = raw[o][i]

(* Message m is written to one new place. *)
LEMMA EnqueuePlace ==
    ASSUME ConsumerTypeOK, NEW m, Enqueue(m)
    PROVE  /\ RawGrows
           /\ \E q, k : \A o \in DOMAIN raw' : \A i \in DOMAIN raw'[o] :
                  \/ o = q /\ i = k /\ raw'[o][i] = m
                  \/ o \in DOMAIN raw /\ i \in DOMAIN raw[o] /\ raw'[o][i] = raw[o][i]
<1>1. /\ raw \in Seq(Seq(RawMessages) \ {<<>>}) /\ Len(raw) \in Nat
      /\ DOMAIN raw = 1 .. Len(raw)
  BY DEF ConsumerTypeOK
<1>2. CASE raw' = Append(raw, <<m>>)
  <2>1. \A o \in DOMAIN raw' :
            \/ o \in DOMAIN raw /\ raw'[o] = raw[o]
            \/ o = Len(raw) + 1 /\ raw'[o] = <<m>>
    BY <1>1, <1>2
  <2>2. \A o \in DOMAIN raw : o \in DOMAIN raw' /\ raw'[o] = raw[o]
    BY <1>1, <1>2
  <2>3. \A i \in DOMAIN <<m>> : i = 1 /\ <<m>>[i] = m
    OBVIOUS
  <2>4. \A o \in DOMAIN raw' : \A i \in DOMAIN raw'[o] :
            \/ o = Len(raw) + 1 /\ i = 1 /\ raw'[o][i] = m
            \/ o \in DOMAIN raw /\ i \in DOMAIN raw[o] /\ raw'[o][i] = raw[o][i]
    BY <2>1, <2>3
  <2> QED
    BY <2>2, <2>4 DEF RawGrows
<1>3. CASE /\ Len(raw) > frozen
           /\ raw' = [raw EXCEPT ![Len(raw)] = Append(@, m)]
  <2> DEFINE q == Len(raw)
             s == raw[q]
  <2>1. \A o \in DOMAIN raw' :
            o \in DOMAIN raw /\ (o # q => raw'[o] = raw[o]) /\ (o = q => raw'[o] = Append(s, m))
    BY <1>1, <1>3
  <2>2. \A o \in DOMAIN raw : o \in DOMAIN raw'
    BY <1>1, <1>3
  <2>3. CASE q \in DOMAIN raw
    <3>1. s \in Seq(RawMessages)
      BY <1>1, <2>3
    <3>2. /\ \A i \in DOMAIN Append(s, m) :
                 \/ i = Len(s) + 1 /\ Append(s, m)[i] = m
                 \/ i \in DOMAIN s /\ Append(s, m)[i] = s[i]
          /\ \A i \in DOMAIN s : i \in DOMAIN Append(s, m) /\ Append(s, m)[i] = s[i]
      BY <3>1
    <3> DEFINE t == Append(s, m)
               k == Len(s) + 1
    <3> HIDE DEF t, k
    <3>3. /\ \A i \in DOMAIN t : (i = k /\ t[i] = m) \/ (i \in DOMAIN s /\ t[i] = s[i])
          /\ \A i \in DOMAIN s : i \in DOMAIN t /\ t[i] = s[i]
      BY <3>2 DEF t, k
    <3>4. \A o \in DOMAIN raw' :
              o \in DOMAIN raw /\ (o # q => raw'[o] = raw[o]) /\ (o = q => raw'[o] = t)
      BY <2>1 DEF t
    <3> HIDE DEF q
    <3>5. RawGrows
      BY <2>2, <3>3, <3>4 DEF RawGrows
    <3>6. \A o \in DOMAIN raw' : \A i \in DOMAIN raw'[o] :
              \/ o = q /\ i = k /\ raw'[o][i] = m
              \/ o \in DOMAIN raw /\ i \in DOMAIN raw[o] /\ raw'[o][i] = raw[o][i]
      BY <3>3, <3>4
    <3> QED
      BY <3>5, <3>6
  <2>4. CASE q \notin DOMAIN raw
    <3>1. DOMAIN raw = {}
      BY <1>1, <2>4
    <3> QED
      BY <2>1, <3>1 DEF RawGrows
  <2> QED
    BY <2>3, <2>4
<1> QED
  BY <1>2, <1>3 DEF Enqueue

(* A message that is no join leaves the joins as they are.                 *)
LEMMA NoJoinWritten ==
    ASSUME JoinedOnce,
           \A o \in DOMAIN raw' : \A i \in DOMAIN raw'[o] :
               \/ raw'[o][i].type # "ClientJoin"
               \/ o \in DOMAIN raw /\ i \in DOMAIN raw[o] /\ raw'[o][i] = raw[o][i],
           \A c \in Clients : connection'[c] = "new" => connection[c] = "new",
           \A i \in DOMAIN reverse' : reverse'[i].type # "ClientJoin"
    PROVE  JoinedOnce'
<1>1. \A o, p \in DOMAIN raw' : \A i \in DOMAIN raw'[o], j \in DOMAIN raw'[p] :
          raw'[o][i].type = "ClientJoin" /\ raw'[p][j].type = "ClientJoin"
          /\ raw'[o][i].data = raw'[p][j].data => o = p /\ i = j
  <2> SUFFICES ASSUME NEW o \in DOMAIN raw', NEW p \in DOMAIN raw',
                      NEW i \in DOMAIN raw'[o], NEW j \in DOMAIN raw'[p],
                      raw'[o][i].type = "ClientJoin", raw'[p][j].type = "ClientJoin",
                      raw'[o][i].data = raw'[p][j].data
               PROVE  o = p /\ i = j
    OBVIOUS
  <2>1. /\ o \in DOMAIN raw /\ i \in DOMAIN raw[o] /\ raw'[o][i] = raw[o][i]
        /\ p \in DOMAIN raw /\ j \in DOMAIN raw[p] /\ raw'[p][j] = raw[p][j]
    OBVIOUS
  <2> QED
    BY <2>1 DEF JoinedOnce
<1>2. ASSUME NEW c \in Clients, connection'[c] = "new", NEW o \in DOMAIN raw',
             NEW i \in DOMAIN raw'[o], raw'[o][i].type = "ClientJoin"
      PROVE  raw'[o][i].data # c
  <2>1. o \in DOMAIN raw /\ i \in DOMAIN raw[o] /\ raw'[o][i] = raw[o][i] /\ connection[c] = "new"
    BY <1>2
  <2> QED
    BY <1>2, <2>1 DEF JoinedOnce
<1> QED
  BY <1>1, <1>2 DEF JoinedOnce

(* A client that connects for the first time writes its only join.         *)
LEMMA ConnectJoins ==
    ASSUME TypeOK, JoinedOnce, NEW c \in Clients, Connect(c)
    PROVE  JoinedOnce'
<1> DEFINE m == ServerMessage("ClientJoin", c)
<1>1. /\ Enqueue(m) /\ connection[c] = "new" /\ reverse' = reverse
      /\ connection' = [connection EXCEPT ![c] = "connected"]
      /\ m.data = c
  BY DEF Connect, UnchangedByEnvironment, inFlight, ServerMessage
<1> HIDE DEF m
<1>2. PICK q, k : \A o \in DOMAIN raw' : \A i \in DOMAIN raw'[o] :
          \/ o = q /\ i = k /\ raw'[o][i] = m
          \/ o \in DOMAIN raw /\ i \in DOMAIN raw[o] /\ raw'[o][i] = raw[o][i]
  BY <1>1, EnqueuePlace DEF TypeOK
<1>3. \A d \in Clients : connection'[d] = "new" => connection[d] = "new" /\ d # c
  BY <1>1 DEF TypeOK, EnvironmentTypeOK
<1>4. \A o, p \in DOMAIN raw' : \A i \in DOMAIN raw'[o], j \in DOMAIN raw'[p] :
          raw'[o][i].type = "ClientJoin" /\ raw'[p][j].type = "ClientJoin"
          /\ raw'[o][i].data = raw'[p][j].data => o = p /\ i = j
  <2> SUFFICES ASSUME NEW o \in DOMAIN raw', NEW p \in DOMAIN raw',
                      NEW i \in DOMAIN raw'[o], NEW j \in DOMAIN raw'[p],
                      raw'[o][i].type = "ClientJoin", raw'[p][j].type = "ClientJoin",
                      raw'[o][i].data = raw'[p][j].data
               PROVE  o = p /\ i = j
    OBVIOUS
  <2>1. CASE o = q /\ i = k /\ raw'[o][i] = m
    BY <1>1, <1>2, <2>1 DEF JoinedOnce
  <2>2. CASE o \in DOMAIN raw /\ i \in DOMAIN raw[o] /\ raw'[o][i] = raw[o][i]
    <3>1. raw'[o][i].data # c
      BY <1>1, <2>2 DEF JoinedOnce
    <3>2. p \in DOMAIN raw /\ j \in DOMAIN raw[p] /\ raw'[p][j] = raw[p][j]
      BY <1>1, <1>2, <3>1
    <3> QED
      BY <2>2, <3>2 DEF JoinedOnce
  <2> QED
    BY <1>2, <2>1, <2>2
<1>5. ASSUME NEW d \in Clients, connection'[d] = "new", NEW o \in DOMAIN raw',
             NEW i \in DOMAIN raw'[o], raw'[o][i].type = "ClientJoin"
      PROVE  raw'[o][i].data # d
  <2>1. connection[d] = "new" /\ d # c
    BY <1>3, <1>5
  <2>2. CASE raw'[o][i] = m
    BY <1>1, <2>1, <2>2
  <2>3. CASE o \in DOMAIN raw /\ i \in DOMAIN raw[o] /\ raw'[o][i] = raw[o][i]
    BY <1>5, <2>1, <2>3 DEF JoinedOnce
  <2> QED
    BY <1>2, <2>2, <2>3
<1> QED
  BY <1>1, <1>4, <1>5 DEF JoinedOnce

-----------------------------------------------------------------------------
(* The other actions.                                                      *)

(* The order and the clients stay as they are, and the handler goes on.    *)
LEMMA OrderStays ==
    ASSUME TypeOK, OutputPassed, KnowsMembers, OperationsOfMembers, ClientOrder,
           Operations' = Operations, clients' = clients, RawGrows,
           \/ logOffset' = logOffset /\ cursor' = cursor
           \/ logOffset' \in Nat /\ logOffset' > logOffset
    PROVE  OutputPassed' /\ KnowsMembers' /\ OperationsOfMembers' /\ ClientOrder'
<1>1. ASSUME NEW n \in Operations
      PROVE  RawOf(n)' = RawOf(n) /\ Passed(n.src)'
  <2>1. n.src \in Nat \X Nat /\ logOffset \in Nat
    BY OperationType DEF TypeOK, OutputMessages, ConsumerTypeOK
  <2>2. Passed(n.src)
    BY DEF OutputPassed
  <2>3. /\ n.src[1] \in DOMAIN raw' /\ n.src[2] \in DOMAIN raw'[n.src[1]]
        /\ raw'[n.src[1]][n.src[2]] = raw[n.src[1]][n.src[2]]
    BY <2>2 DEF Passed, RawGrows
  <2> QED
    BY <2>1, <2>2, <2>3 DEF Passed, RawOf
<1>2. OutputPassed'
  BY <1>1 DEF OutputPassed
<1>3. \A c \in Tracked : clients[c].csn <= clients'[c].csn /\ clients'[c].csn \in Nat
  BY DEF TypeOK, LambdaTypeOK, Tracked, TrackedIn, ClientStates
<1>4. TrackedIn(clients') = Tracked
  BY DEF Tracked
<1> QED
  BY <1>1, <1>2, <1>3, <1>4, NoNewOperation

(* Writing a message that is no join. *)
LEMMA EnqueueNoJoin ==
    ASSUME TypeOK, JoinedOnce, NEW m, m.type # "ClientJoin", Enqueue(m),
           \A c \in Clients : connection'[c] = "new" => connection[c] = "new",
           \A i \in DOMAIN reverse' : reverse'[i].type # "ClientJoin"
    PROVE  RawGrows /\ JoinedOnce'
<1>1. /\ RawGrows
      /\ \E q, k : \A o \in DOMAIN raw' : \A i \in DOMAIN raw'[o] :
             \/ o = q /\ i = k /\ raw'[o][i] = m
             \/ o \in DOMAIN raw /\ i \in DOMAIN raw[o] /\ raw'[o][i] = raw[o][i]
  BY EnqueuePlace DEF TypeOK
<1>2. \A o \in DOMAIN raw' : \A i \in DOMAIN raw'[o] :
          \/ raw'[o][i].type # "ClientJoin"
          \/ o \in DOMAIN raw /\ i \in DOMAIN raw[o] /\ raw'[o][i] = raw[o][i]
  BY <1>1
<1> QED
  BY <1>1, <1>2, NoJoinWritten

LEMMA EnvironmentJoins ==
    ASSUME TypeOK, JoinedOnce, "ClientJoin" \notin Repeatable, Environment
    PROVE  RawGrows /\ JoinedOnce'
<1>1. reverse' = reverse
  <2>1. UnchangedByEnvironment
    BY DEF Environment, Connect, Submit, Disconnect, LoseMessage, RepeatBoxcar, ServiceSummary
  <2> QED
    BY <2>1 DEF UnchangedByEnvironment, inFlight
<1>2. \A i \in DOMAIN reverse' : reverse'[i].type # "ClientJoin"
  BY <1>1 DEF JoinedOnce
<1>3. ASSUME NEW c \in Clients, Connect(c) PROVE RawGrows /\ JoinedOnce'
  BY <1>3, ConnectJoins, EnqueuePlace DEF Connect, TypeOK
<1>4. ASSUME NEW m, m.type # "ClientJoin", Enqueue(m), connection' = connection
      PROVE  RawGrows /\ JoinedOnce'
  BY <1>2, <1>4, EnqueueNoJoin
<1>5. ASSUME NEW c \in Clients, Disconnect(c) PROVE RawGrows /\ JoinedOnce'
  <2> DEFINE m == ServerMessage("ClientLeave", c)
  <2>1. Enqueue(m) /\ m.type # "ClientJoin"
    BY <1>5 DEF Disconnect, ServerMessage
  <2>2. \A d \in Clients : connection'[d] = "new" => connection[d] = "new"
    BY <1>5 DEF Disconnect, TypeOK, EnvironmentTypeOK
  <2> HIDE DEF m
  <2> QED
    BY <1>2, <2>1, <2>2, EnqueueNoJoin
<1>6. ASSUME NEW c \in Clients, NEW kind \in ClientOps, Submit(c, kind)
      PROVE  RawGrows /\ JoinedOnce'
  <2>1. PICK ref, direct :
            Enqueue(ClientMessage(IF kind = "NoOpImmediate" THEN "NoOp" ELSE kind,
                                  c, csn[c] + 1, IF direct THEN -1 ELSE ref,
                                  kind = "NoOpImmediate"))
    BY <1>6 DEF Submit
  <2> DEFINE m == ClientMessage(IF kind = "NoOpImmediate" THEN "NoOp" ELSE kind,
                                c, csn[c] + 1, IF direct THEN -1 ELSE ref,
                                kind = "NoOpImmediate")
  <2>2. (IF kind = "NoOpImmediate" THEN "NoOp" ELSE kind) # "ClientJoin"
    BY DeliConstants DEF ClientKinds
  <2>3. Enqueue(m) /\ m.type # "ClientJoin"
    BY <2>1, <2>2 DEF ClientMessage
  <2>4. connection' = connection
    BY <1>6 DEF Submit
  <2> HIDE DEF m
  <2> QED
    BY <1>4, <2>3, <2>4
<1>7. ASSUME ServiceSummary PROVE RawGrows /\ JoinedOnce'
  <2>1. PICK data : Enqueue(ServerMessage("Control", data))
    BY <1>7 DEF ServiceSummary
  <2> DEFINE m == ServerMessage("Control", data)
  <2>2. Enqueue(m) /\ m.type # "ClientJoin" /\ connection' = connection
    BY <1>7, <2>1 DEF ServerMessage, ServiceSummary
  <2> HIDE DEF m
  <2> QED
    BY <1>4, <2>2
<1>8. ASSUME NEW c \in Clients, LoseMessage(c) PROVE RawGrows /\ JoinedOnce'
  <2>1. raw' = raw /\ connection' = connection
    BY <1>8 DEF LoseMessage
  <2> QED
    BY <1>2, <2>1, NoJoinWritten DEF RawGrows
<1>9. ASSUME RepeatBoxcar PROVE RawGrows /\ JoinedOnce'
  <2>1. PICK o \in DOMAIN raw : /\ \A i \in DOMAIN raw[o] : raw[o][i].type \in Repeatable
                                /\ raw' = Append(raw, raw[o])
    BY <1>9 DEF RepeatBoxcar
  <2>2. raw \in Seq(Seq(RawMessages) \ {<<>>})
    BY DEF TypeOK, ConsumerTypeOK
  <2>3. /\ \A p \in DOMAIN raw' : (p \in DOMAIN raw /\ raw'[p] = raw[p]) \/ raw'[p] = raw[o]
        /\ \A p \in DOMAIN raw : p \in DOMAIN raw' /\ raw'[p] = raw[p]
    BY <2>1, <2>2
  <2>4. connection' = connection
    BY <1>9 DEF RepeatBoxcar
  <2>5. \A p \in DOMAIN raw' : \A i \in DOMAIN raw'[p] :
            \/ raw'[p][i].type # "ClientJoin"
            \/ p \in DOMAIN raw /\ i \in DOMAIN raw[p] /\ raw'[p][i] = raw[p][i]
    BY <2>1, <2>3
  <2> QED
    BY <1>2, <2>3, <2>4, <2>5, NoJoinWritten DEF RawGrows
<1> QED
  BY <1>3, <1>5, <1>6, <1>7, <1>8, <1>9 DEF Environment

LEMMA TicketJoins ==
    ASSUME TypeOK, JoinedOnce, Ticket
    PROVE  JoinedOnce'
<1>1. raw' = raw /\ connection' = connection
  BY DEF Ticket, UnchangedByTicket, logs, environment
<1>2. \A i \in DOMAIN reverse' : reverse'[i].type # "ClientJoin"
  <2>1. CASE reverse' = reverse
    BY <2>1 DEF JoinedOnce
  <2>2. CASE SendToAlfred(Message)
    <3>1. \A i \in DOMAIN reverse' :
              \/ i \in DOMAIN reverse /\ reverse'[i] = reverse[i]
              \/ \E type \in {"ClientLeave", "NoClient"} : \E data :
                     reverse'[i] = ServerMessage(type, data)
      <4>1. reverse \in Seq(RawMessages) /\ Message \in RawMessages
        BY TicketReverse DEF TypeOK, SendsTypeOK
      <4> QED
        BY <2>2, <4>1, AlfredAdds
    <3> QED
      BY <3>1 DEF JoinedOnce, ServerMessage
  <2> QED
    BY <2>1, <2>2, TicketReverse
<1> QED
  BY <1>1, <1>2, NoJoinWritten

LEMMA MembersStep ==
    ASSUME TypeOK, TypeOK', WindowInv, MembersInv, "ClientJoin" \notin Repeatable, [Next]_vars
    PROVE  MembersInv'
<1> USE DEF logs, window, lambda, consumer, inFlight, checkpointing, environment
<1>1. CASE restarts # 0 \/ Restart
  <2>1. restarts' \in Nat /\ restarts \in Nat
    BY DEF TypeOK, EnvironmentTypeOK
  <2>2. restarts' = restarts \/ restarts' = restarts + 1
    BY RestartsGrow
  <2>3. restarts' # 0
    BY <1>1, <2>1, <2>2 DEF Restart
  <2> QED
    BY <2>3 DEF MembersInv
<1>2. CASE restarts = 0 /\ ~Restart
  <2> DEFINE Order1 == OutputPassed' /\ KnowsMembers' /\ OperationsOfMembers' /\ ClientOrder'
             Goal == position' = logOffset' + 1 /\ JoinedOnce' /\ Order1
  <2>0. /\ position = logOffset + 1 /\ JoinedOnce /\ OutputPassed /\ KnowsMembers
        /\ OperationsOfMembers /\ ClientOrder /\ InputBehind /\ OutputBehind
        /\ logOffset \in Nat /\ reverse \in Seq(RawMessages)
    BY <1>2 DEF WindowInv, MembersInv, TypeOK, ConsumerTypeOK, SendsTypeOK
  <2> SUFFICES Goal
    BY DEF MembersInv
  <2>1. ASSUME raw' = raw, connection' = connection,
               \A i \in DOMAIN reverse' : reverse'[i].type # "ClientJoin"
        PROVE  JoinedOnce' /\ RawGrows
    BY <2>0, <2>1, NoJoinWritten DEF RawGrows
  <2>2. (deltas' = deltas /\ sending' = sending) => Operations' = Operations
    BY DEF Operations, Output
  <2>3. \A i \in DOMAIN reverse : reverse[i].type # "ClientJoin"
    BY <2>0 DEF JoinedOnce
  <2>4. CASE Deliver
    <3>1. /\ raw' = raw /\ connection' = connection /\ reverse' = reverse
          /\ deltas' = deltas /\ sending' = sending /\ clients' = clients
          /\ position' = position + 1 /\ logOffset' = position
      BY <2>0, <2>4 DEF Deliver
    <3>2. logOffset' \in Nat /\ logOffset' > logOffset /\ position' = logOffset' + 1
      BY <2>0, <3>1
    <3> QED
      BY <2>0, <2>1, <2>2, <2>3, <3>1, <3>2, OrderStays
  <2>5. CASE Ticket
    <3>1. position' = position /\ logOffset' = logOffset
      BY <2>5 DEF Ticket, UnchangedByTicket
    <3> QED
      BY <2>0, <2>5, <3>1, TicketMembers, TicketJoins
  <2>6. CASE IdleTimerFires \/ NoopTimerFires
    <3>1. /\ raw' = raw /\ connection' = connection
          /\ deltas' = deltas /\ sending' = sending /\ clients' = clients
          /\ position' = position /\ logOffset' = logOffset /\ cursor' = cursor
          /\ reverse' = reverse \/ reverse' = Append(reverse, ServerMessage("NoOp", None))
      BY <2>6 DEF IdleTimerFires, NoopTimerFires
    <3>2. ServerMessage("NoOp", None).type = "NoOp"
      BY DEF ServerMessage
    <3>3. \A i \in DOMAIN reverse' :
              \/ i \in DOMAIN reverse /\ reverse'[i] = reverse[i]
              \/ reverse'[i] = ServerMessage("NoOp", None)
      BY <2>0, <3>1
    <3>4. \A i \in DOMAIN reverse' : reverse'[i].type # "ClientJoin"
      BY <2>3, <3>2, <3>3
    <3> QED
      BY <2>0, <2>1, <2>2, <3>1, <3>4, OrderStays
  <2>7. CASE ForwardProduced
    <3>1. /\ raw' = raw /\ connection' = connection /\ reverse' = reverse
          /\ clients' = clients
          /\ position' = position /\ logOffset' = logOffset /\ cursor' = cursor
      BY <2>7 DEF ForwardProduced
    <3>2. Operations' = Operations
      BY <2>7, ForwardKeeps DEF TypeOK
    <3> QED
      BY <2>0, <2>1, <2>3, <3>1, <3>2, OrderStays
  <2>8. CASE ReverseProduced
    <3>1. /\ connection' = connection
          /\ deltas' = deltas /\ sending' = sending /\ clients' = clients
          /\ position' = position /\ logOffset' = logOffset /\ cursor' = cursor
          /\ Enqueue(Head(reverse)) /\ reverse' = Tail(reverse) /\ reverse # <<>>
      BY <2>8 DEF ReverseProduced
    <3>2. /\ Head(reverse) = reverse[1] /\ 1 \in DOMAIN reverse
          /\ \A k \in DOMAIN Tail(reverse) : k + 1 \in DOMAIN reverse /\ Tail(reverse)[k] = reverse[k + 1]
      BY <2>0, <3>1, TailOfSeq
    <3>3. RawGrows /\ JoinedOnce'
      <4>1. Head(reverse).type # "ClientJoin"
        BY <2>3, <3>2
      <4>2. \A i \in DOMAIN reverse' : reverse'[i].type # "ClientJoin"
        BY <2>3, <3>1, <3>2
      <4> QED
        BY <2>0, <3>1, <4>1, <4>2, EnqueueNoJoin
    <3> QED
      BY <2>0, <2>2, <3>1, <3>3, OrderStays
  <2>9. CASE CheckpointReady \/ Update \/ Updated \/ UNCHANGED vars
    <3>1. /\ raw' = raw /\ connection' = connection /\ reverse' = reverse
          /\ deltas' = deltas /\ sending' = sending /\ clients' = clients
          /\ position' = position /\ logOffset' = logOffset /\ cursor' = cursor
      BY <2>9 DEF CheckpointReady, Update, Updated, vars
    <3> QED
      BY <2>0, <2>1, <2>2, <2>3, <3>1, OrderStays
  <2>10. CASE Environment
    <3>1. UnchangedByEnvironment
      BY <2>10 DEF Environment, Connect, Submit, Disconnect, LoseMessage, RepeatBoxcar,
                   ServiceSummary
    <3>2. /\ deltas' = deltas /\ sending' = sending /\ clients' = clients
          /\ position' = position /\ logOffset' = logOffset /\ cursor' = cursor
      BY <3>1 DEF UnchangedByEnvironment
    <3>3. RawGrows /\ JoinedOnce'
      BY <2>0, <2>10, EnvironmentJoins
    <3> QED
      BY <2>0, <2>2, <3>2, <3>3, OrderStays
  <2> QED
    BY <1>2, <2>4, <2>5, <2>6, <2>7, <2>8, <2>9, <2>10 DEF Next, Process
<1> QED
  BY <1>1, <1>2

LEMMA MembersInit == Init => MembersInv
<1> SUFFICES ASSUME Init PROVE MembersInv
  OBVIOUS
<1>1. /\ raw = <<>> /\ deltas = <<>> /\ sending = <<>> /\ reverse = <<>>
      /\ position = 1 /\ logOffset = 0
      /\ clients = [c \in Clients |-> None]
  BY DEF Init, DefaultCheckpoint
<1>2. JoinedOnce
  BY <1>1 DEF JoinedOnce
<1>3. Operations = {}
  BY <1>1 DEF Operations, Output
<1>4. \A c : Joins(c) = {} /\ Leaves(c) = {}
  BY <1>3 DEF Joins, Leaves
<1>5. Tracked = {}
  BY <1>1 DEF Tracked, TrackedIn
<1> QED
  BY <1>1, <1>2, <1>3, <1>4, <1>5
     DEF MembersInv, OutputPassed, KnowsMembers, OperationsOfMembers, ClientOrder

(* Until its first restart, Deli tracks exactly the clients whose join and *)
(* no leave it has sequenced, and has sent nothing for what is still to be *)
(* ticketed.                                                               *)
THEOREM MembersInvariant ==
    ASSUME "ClientJoin" \notin Repeatable
    PROVE  Spec => []MembersInv
<1>1. TypeOK /\ TypeOK' /\ WindowInv /\ MembersInv /\ [Next]_vars => MembersInv'
  BY MembersStep
<1> QED
  BY <1>1, MembersInit, TypeCorrect, WindowInvariant, PTL DEF Spec

(* Every operation of a client is sequenced between its one join and its   *)
(* one leave, and a NoClient when nobody is connected, whoever disconnects *)
(* or is found idle meanwhile (lambda.ts:282-302, 308 and 479).            *)
THEOREM OperationsOnlyOfMembers ==
    ASSUME "ClientJoin" \notin Repeatable
    PROVE  Spec => [](restarts = 0 => OperationsOfMembers)
<1>1. MembersInv => (restarts = 0 => OperationsOfMembers)
  BY DEF MembersInv
<1> QED
  BY <1>1, MembersInvariant, PTL

(* A client's messages are sequenced in the order in which it numbered     *)
(* them, and each once, whichever are lost on the way and whatever boxcars *)
(* producers write again (checkOrder, lambda.ts:588).                      *)
THEOREM ClientsInOrder ==
    ASSUME "ClientJoin" \notin Repeatable
    PROVE  Spec => [](restarts = 0 => ClientOrder)
<1>1. MembersInv => (restarts = 0 => ClientOrder)
  BY DEF MembersInv
<1> QED
  BY <1>1, MembersInvariant, PTL

-----------------------------------------------------------------------------
(* The numbers have no holes.                                              *)

(* What the ticketing of a message sends and counts. *)
Counted(r) ==
    /\ sending' = Append(sending, r)
    /\ \/ r.kind = "nack" /\ sequenceNumber' = sequenceNumber
       \/ /\ r.kind = "op" /\ sequenceNumber' = sequenceNumber + 1 /\ r.seq = sequenceNumber'
          /\ r.src = Source /\ r.type = Message.type
          /\ r.deli # None => r.deli.sequenceNumber = r.seq

LEMMA TicketCounts ==
    ASSUME TypeOK, Ticket
    PROVE  /\ deltas' = deltas
           /\ \/ sending' = sending /\ sequenceNumber' = sequenceNumber
              \/ \E r : Counted(r)
<1> DEFINE m == Message
<1>1. deltas' = deltas
  BY DEF Ticket, UnchangedByTicket, logs
<1>2. ASSUME NEW ref, SendImmediately(m, ref), sequenceNumber' = sequenceNumber + 1
      PROVE  \E r : Counted(r)
  <2> DEFINE r == [kind |-> "op", type |-> m.type, clientId |-> m.clientId, csn |-> m.csn,
                   ref |-> ref, seq |-> sequenceNumber', msn |-> minimumSequenceNumber',
                   deli |-> AdditionalContent(m), src |-> Source]
  <2>1. /\ sending' = Append(sending, r) /\ r.seq = sequenceNumber' /\ r.kind = "op"
        /\ r.type = m.type /\ r.src = Source /\ r.deli = AdditionalContent(m)
    BY <1>2 DEF SendImmediately
  <2> HIDE DEF r
  <2>2. r.deli # None => r.deli = DeliCheckpoint'
    BY <2>1 DEF AdditionalContent
  <2>3. DeliCheckpoint'.sequenceNumber = sequenceNumber'
    BY DEF DeliCheckpoint
  <2> QED
    BY <1>2, <2>1, <2>2, <2>3 DEF Counted
<1>3. ASSUME SendNack(m)
      PROVE  \E r : Counted(r)
  <2> DEFINE r == NackMessage(m)
  <2>1. sending' = Append(sending, r) /\ r.kind = "nack" /\ sequenceNumber' = sequenceNumber
    BY <1>3 DEF SendNack, NackMessage
  <2> HIDE DEF r
  <2> QED
    BY <2>1 DEF Counted
<1> HIDE DEF m
<1>4. CASE TicketDuplicate(m) \/ TicketLeaveOfUnknown(m) \/ TicketRepeatedJoin(m)
  BY <1>1, <1>4
  DEF TicketDuplicate, TicketLeaveOfUnknown, TicketRepeatedJoin, lambda, window, inFlight
<1>5. CASE TicketGap(m) \/ TicketNonexistent(m) \/ TicketBelowWindow(m) \/ TicketForbidden(m)
  BY <1>1, <1>3, <1>5
  DEF TicketGap, TicketNonexistent, TicketBelowWindow, TicketForbidden
<1>6. CASE TicketJoin(m) \/ TicketLeave(m)
  <2>1. sequenceNumber' = sequenceNumber + 1 /\ SendImmediately(m, m.ref)
    BY <1>6 DEF TicketJoin, TicketLeave, Advance
  <2> QED
    BY <1>1, <1>2, <2>1
<1>7. CASE TicketClientOp(m)
  <2>1. /\ sequenceNumber' = sequenceNumber + 1
        /\ SendImmediately(m, IF m.ref = -1 THEN sequenceNumber + 1 ELSE m.ref)
    BY <1>7 DEF TicketClientOp, Advance
  <2> QED
    BY <1>1, <1>2, <2>1
<1>8. CASE TicketClientNoOp(m)
  <2> DEFINE send == /\ m.immediate
                     /\ MinimumOf(Upsert(m.clientId, m.csn, m.ref, FALSE), sequenceNumber)
                            > lastSentMSN
  <2>1. /\ sequenceNumber' = IF send THEN sequenceNumber + 1 ELSE sequenceNumber
        /\ IF send THEN SendImmediately(m, m.ref) ELSE SendLater
    BY <1>8 DEF TicketClientNoOp, Advance
  <2> HIDE DEF send
  <2> QED
    BY <1>1, <1>2, <2>1 DEF SendLater
<1>9. CASE TicketServerNoOp(m)
  <2>1. \/ sequenceNumber' = sequenceNumber + 1 /\ SendImmediately(m, m.ref)
        \/ sequenceNumber' = sequenceNumber /\ SendNever
    BY <1>9 DEF TicketServerNoOp
  <2> QED
    BY <1>1, <1>2, <2>1 DEF SendNever
<1>10. CASE TicketNoClient(m)
  <2>1. \/ sequenceNumber' = sequenceNumber + 1 /\ SendImmediately(m, sequenceNumber')
        \/ sequenceNumber' = sequenceNumber /\ SendNever
    BY <1>10 DEF TicketNoClient, Advance
  <2> QED
    BY <1>1, <1>2, <2>1 DEF SendNever
<1>11. CASE TicketControl(m)
  BY <1>1, <1>11 DEF TicketControl, Advance, SendNever
<1> QED
  BY <1>4, <1>5, <1>6, <1>7, <1>8, <1>9, <1>10, <1>11 DEF Ticket, m

(* The sends are the durable ones and those on their way. *)
LEMMA OutputPlaces ==
    ASSUME SendsTypeOK
    PROVE  /\ Output \in Seq(OutputMessages)
           /\ Len(Output) = Len(deltas) + Len(sending)
           /\ \A i \in 1 .. Len(deltas) : Output[i] = deltas[i]
           /\ \A i \in 1 .. Len(sending) : Output[Len(deltas) + i] = sending[i]
  BY DEF SendsTypeOK, Output

LEMMA OutputAppends ==
    ASSUME SendsTypeOK, deltas' = deltas, NEW r, sending' = Append(sending, r)
    PROVE  Output' = Append(Output, r)
  BY DEF SendsTypeOK, Output

LEMMA OutputForwarded ==
    ASSUME SendsTypeOK, ForwardProduced
    PROVE  Output' = Output /\ Len(deltas') = Len(deltas) + 1
<1>1. /\ sending \in Seq(OutputMessages) /\ deltas \in Seq(OutputMessages) /\ sending # <<>>
      /\ deltas' = Append(deltas, Head(sending)) /\ sending' = Tail(sending)
  BY DEF ForwardProduced, SendsTypeOK
<1> QED
  BY <1>1 DEF Output

(* More sends cover what fewer did. *)
LEMMA CoveredStays ==
    ASSUME NEW T, NEW s \in Seq(T), NEW t \in Seq(T), NEW x \in Nat,
           NEW e \in Nat, NEW f \in Nat, e <= f, Covered(s, x, e),
           Len(s) <= Len(t), \A i \in 1 .. Len(s) : t[i] = s[i]
    PROVE  Covered(t, x, f)
<1>1. SUFFICES ASSUME NEW number \in 1 .. x
               PROVE  \E i \in 1 .. f : i \in DOMAIN t /\ t[i].kind = "op" /\ t[i].seq = number
  BY DEF Covered
<1>2. PICK i \in 1 .. e : i \in DOMAIN s /\ s[i].kind = "op" /\ s[i].seq = number
  BY DEF Covered
<1>3. i \in 1 .. Len(s) /\ i \in 1 .. f /\ i \in DOMAIN t
  BY <1>2
<1>4. t[i] = s[i]
  BY <1>3
<1> QED
  BY <1>2, <1>3, <1>4

(* The durable sends cover what the first so many cover. *)
LEMMA CoveredDurable ==
    ASSUME SendsTypeOK, NEW x \in Nat, NEW e \in Nat, e <= Len(deltas), Covered(Output, x, e)
    PROVE  Covered(deltas, x, Len(deltas))
<1>1. SUFFICES ASSUME NEW number \in 1 .. x
               PROVE  \E i \in 1 .. Len(deltas) :
                          i \in DOMAIN deltas /\ deltas[i].kind = "op" /\ deltas[i].seq = number
  BY DEF Covered
<1>2. PICK i \in 1 .. e : i \in DOMAIN Output /\ Output[i].kind = "op" /\ Output[i].seq = number
  BY DEF Covered
<1>3. deltas \in Seq(OutputMessages) /\ i \in 1 .. Len(deltas)
  BY DEF SendsTypeOK
<1>4. Output[i] = deltas[i] /\ i \in DOMAIN deltas
  BY <1>3, OutputPlaces
<1> QED
  BY <1>2, <1>3, <1>4

LEMMA OutputGrows ==
    ASSUME SendsTypeOK
    PROVE  /\ Len(deltas) <= Len(Output)
           /\ \A i \in 1 .. Len(deltas) : Output[i] = deltas[i]
           /\ deltas \in Seq(OutputMessages) /\ Output \in Seq(OutputMessages)
<1>1. deltas \in Seq(OutputMessages) /\ sending \in Seq(OutputMessages)
  BY DEF SendsTypeOK
<1> QED
  BY <1>1, OutputPlaces

LEMMA OutputElement ==
    ASSUME SendsTypeOK, NEW i \in DOMAIN Output
    PROVE  /\ Output[i] \in OutputMessages /\ Output[i].seq \in Nat
           /\ Output[i].deli \in Checkpoints \cup {None} /\ i \in Nat
<1>1. Output \in Seq(OutputMessages)
  BY OutputPlaces
<1>2. Output[i] \in OutputMessages /\ i \in Nat
  BY <1>1
<1> QED
  BY <1>2 DEF OutputMessages

LEMMA DenseElement ==
    ASSUME NEW T, NEW s \in Seq(T), NEW t \in Seq(T), NEW i \in DOMAIN s, i \in DOMAIN t,
           \A j \in 1 .. i : t[j] = s[j], s[i].seq \in Nat, s[i].kind = "op", Dense(s)
    PROVE  /\ Covered(t, t[i].seq - 1, i - 1)
           /\ t[i].deli # None => t[i].deli.sequenceNumber = t[i].seq
<1>1. i \in Nat /\ i # 0 /\ i \in 1 .. i /\ t[i] = s[i]
  OBVIOUS
<1>2. /\ Covered(s, s[i].seq - 1, i - 1)
      /\ s[i].deli # None => s[i].deli.sequenceNumber = s[i].seq
  BY DEF Dense
<1>3. ASSUME NEW number \in 1 .. s[i].seq - 1
      PROVE  \E j \in 1 .. i - 1 : j \in DOMAIN t /\ t[j].kind = "op" /\ t[j].seq = number
  <2>1. PICK j \in 1 .. i - 1 : j \in DOMAIN s /\ s[j].kind = "op" /\ s[j].seq = number
    BY <1>2, <1>3 DEF Covered
  <2>2. j \in 1 .. i /\ j \in DOMAIN t
    BY <1>1, <2>1
  <2>3. t[j] = s[j]
    BY <2>2
  <2> QED
    BY <2>1, <2>2, <2>3
<1>4. Covered(t, s[i].seq - 1, i - 1)
  BY <1>3 DEF Covered
<1> QED
  BY <1>1, <1>2, <1>4

(* A message with the next number leaves no hole. *)
LEMMA DenseAppend ==
    ASSUME NEW s \in Seq(OutputMessages), NEW r, NEW x \in Nat, Append(s, r) \in Seq(OutputMessages),
           Dense(s), Covered(s, x, Len(s)),
           r.kind = "op" => /\ r.seq = x + 1
                            /\ r.deli # None => r.deli.sequenceNumber = r.seq
    PROVE  /\ Dense(Append(s, r))
           /\ Covered(Append(s, r), x, Len(s) + 1)
           /\ r.kind = "op" => Covered(Append(s, r), x + 1, Len(s) + 1)
<1> DEFINE t == Append(s, r)
<1>1. /\ Len(t) = Len(s) + 1 /\ \A i \in 1 .. Len(s) : t[i] = s[i]
      /\ t[Len(s) + 1] = r /\ Len(s) \in Nat /\ t \in Seq(OutputMessages)
      /\ DOMAIN s = 1 .. Len(s) /\ DOMAIN t = 1 .. Len(s) + 1
  OBVIOUS
<1> HIDE DEF t
<1>2. \A e \in Nat : Len(s) <= e => Covered(t, x, e)
  BY <1>1, CoveredStays
<1>3. ASSUME NEW i \in DOMAIN t, t[i].kind = "op"
      PROVE  /\ Covered(t, t[i].seq - 1, i - 1)
             /\ t[i].deli # None => t[i].deli.sequenceNumber = t[i].seq
  <2>1. CASE i \in DOMAIN s
    <3>1. \A j \in 1 .. i : t[j] = s[j]
      BY <1>1, <2>1
    <3>2. i \in 1 .. i /\ s[i] \in OutputMessages
      BY <1>1, <2>1
    <3>3. t[i] = s[i]
      BY <3>1, <3>2
    <3>4. s[i].kind = "op" /\ s[i].seq \in Nat
      BY <1>3, <3>2, <3>3 DEF OutputMessages
    <3> QED
      BY <1>1, <1>3, <2>1, <3>1, <3>4, DenseElement
  <2>2. CASE i \notin DOMAIN s
    <3>1. i = Len(s) + 1 /\ t[i] = r
      BY <1>1, <1>3, <2>2
    <3>2. t[i].seq - 1 = x /\ i - 1 = Len(s)
      BY <1>1, <1>3, <3>1
    <3>3. Covered(t, x, Len(s))
      BY <1>1, <1>2
    <3> QED
      BY <1>3, <3>1, <3>2, <3>3
  <2> QED
    BY <2>1, <2>2
<1>4. Dense(t)
  BY <1>3 DEF Dense
<1>5. ASSUME r.kind = "op", NEW number \in 1 .. x + 1
      PROVE  \E i \in 1 .. Len(s) + 1 : i \in DOMAIN t /\ t[i].kind = "op" /\ t[i].seq = number
  <2>1. CASE number = x + 1
    <3>1. Len(s) + 1 \in 1 .. Len(s) + 1
      BY <1>1
    <3>2. t[Len(s) + 1].seq = number /\ t[Len(s) + 1].kind = "op"
      BY <1>1, <1>5, <2>1
    <3> QED
      BY <1>1, <3>1, <3>2
  <2>2. CASE number # x + 1
    <3>1. number \in 1 .. x
      BY <2>2
    <3>2. Covered(t, x, Len(s) + 1)
      BY <1>1, <1>2
    <3> QED
      BY <3>1, <3>2 DEF Covered
  <2> QED
    BY <2>1, <2>2
<1>6. r.kind = "op" => Covered(t, x + 1, Len(s) + 1)
  BY <1>5 DEF Covered
<1>7. Covered(t, x, Len(s) + 1)
  BY <1>1, <1>2
<1> QED
  BY <1>4, <1>6, <1>7 DEF t

LEMMA DenseInit == Init => DenseInv
<1> SUFFICES ASSUME Init PROVE DenseInv
  OBVIOUS
<1>1. Output = <<>> /\ sequenceNumber = 0 /\ waiting = <<>>
  BY DEF Init, Output
<1>2. \A s, e : Covered(s, 0, e)
  BY DEF Covered
<1>3. Dense(Output)
  BY <1>1 DEF Dense
<1>4. CheckpointsCovered
  BY <1>1 DEF Init, CheckpointsCovered
<1> QED
  BY <1>1, <1>2, <1>3, <1>4 DEF DenseInv

(* The numbers of checkpoints. *)
LEMMA CheckpointNumbers ==
    ASSUME TypeOK
    PROVE  /\ waiting \in Seq([deli : Checkpoints, after : Nat])
           /\ \A k \in DOMAIN waiting : waiting[k].deli.sequenceNumber \in Nat /\ waiting[k].after \in Nat
           /\ updating # None => updating.deli.sequenceNumber \in Nat
           /\ queued # None => queued.deli.sequenceNumber \in Nat
           /\ db \notin {None, Cleared} => db.sequenceNumber \in Nat
           /\ summary # None => summary.sequenceNumber \in Nat
           /\ sequenceNumber \in Nat /\ Len(deltas) \in Nat /\ Len(Output) \in Nat
<1>1. waiting \in Seq([deli : Checkpoints, after : Nat])
  BY DEF TypeOK, CheckpointTypeOK
<1>2. \A k \in DOMAIN waiting : waiting[k] \in [deli : Checkpoints, after : Nat]
  BY <1>1, ElementType
<1>3. \A k \in DOMAIN waiting : waiting[k].deli.sequenceNumber \in Nat /\ waiting[k].after \in Nat
  BY <1>2 DEF Checkpoints
<1>4. updating # None => updating.deli.sequenceNumber \in Nat
  BY DEF TypeOK, CheckpointTypeOK, CheckpointParams, Checkpoints
<1>5. queued # None => queued.deli.sequenceNumber \in Nat
  BY DEF TypeOK, CheckpointTypeOK, CheckpointParams, Checkpoints
<1>6. db \notin {None, Cleared} => db.sequenceNumber \in Nat
  BY DEF TypeOK, CheckpointTypeOK, Checkpoints
<1>7. summary # None => summary.sequenceNumber \in Nat
  BY DEF TypeOK, CheckpointTypeOK, Checkpoints
<1>8. deltas \in Seq(OutputMessages) /\ Output \in Seq(OutputMessages)
  BY OutputGrows DEF TypeOK
<1>9. sequenceNumber \in Nat
  BY DEF TypeOK, LambdaTypeOK
<1> QED
  BY <1>1, <1>3, <1>4, <1>5, <1>6, <1>7, <1>8, <1>9

(* Nothing is sent or stored. *)
LEMMA DenseUnchanged ==
    ASSUME DenseInv, UNCHANGED <<deltas, sending, sequenceNumber, waiting, updating, queued, db, summary>>
    PROVE  DenseInv'
  BY DEF DenseInv, CheckpointsCovered, Output

LEMMA TicketDense ==
    ASSUME TypeOK, TypeOK', DenseInv, Ticket
    PROVE  DenseInv'
<1>1. /\ SendsTypeOK /\ SendsTypeOK' /\ sequenceNumber \in Nat /\ sequenceNumber' \in Nat
      /\ Output \in Seq(OutputMessages) /\ Output' \in Seq(OutputMessages)
      /\ Len(Output) \in Nat
  <2>1. SendsTypeOK /\ SendsTypeOK' /\ sequenceNumber \in Nat /\ sequenceNumber' \in Nat
    BY DEF TypeOK, LambdaTypeOK
  <2>2. Output \in Seq(OutputMessages)
    BY <2>1, OutputGrows
  <2>3. Output' \in Seq(OutputMessages)
    <3>1. deltas' \in Seq(OutputMessages) /\ sending' \in Seq(OutputMessages)
      BY <2>1 DEF SendsTypeOK
    <3> QED
      BY <3>1 DEF Output
  <2> QED
    BY <2>1, <2>2, <2>3
<1>2. deltas' = deltas /\ UNCHANGED <<db, summary, updating, queued>>
  BY DEF Ticket, UnchangedByTicket, logs, checkpointing
<1>3. /\ Dense(Output') /\ Covered(Output', sequenceNumber', Len(Output'))
      /\ Len(Output) <= Len(Output') /\ \A i \in 1 .. Len(Output) : Output'[i] = Output[i]
  <2>1. CASE sending' = sending /\ sequenceNumber' = sequenceNumber
    BY <1>1, <1>2, <2>1 DEF DenseInv, Output
  <2>2. ASSUME NEW r, Counted(r)
        PROVE  /\ Dense(Output') /\ Covered(Output', sequenceNumber', Len(Output'))
               /\ Len(Output) <= Len(Output') /\ \A i \in 1 .. Len(Output) : Output'[i] = Output[i]
    <3>1. sending' = Append(sending, r)
      BY <2>2 DEF Counted
    <3>2. Output' = Append(Output, r)
      BY <1>1, <1>2, <3>1, OutputAppends
    <3>3. /\ Len(Output') = Len(Output) + 1
          /\ \A i \in 1 .. Len(Output) : Output'[i] = Output[i]
      BY <1>1, <3>2
    <3>4. r.kind = "op" => /\ r.seq = sequenceNumber + 1
                           /\ r.deli # None => r.deli.sequenceNumber = r.seq
      BY <2>2 DEF Counted
    <3>5. Dense(Output) /\ Covered(Output, sequenceNumber, Len(Output))
      BY DEF DenseInv
    <3>6. Append(Output, r) \in Seq(OutputMessages)
      BY <1>1, <3>2
    <3>7. /\ Dense(Append(Output, r))
          /\ Covered(Append(Output, r), sequenceNumber, Len(Output) + 1)
          /\ r.kind = "op" => Covered(Append(Output, r), sequenceNumber + 1, Len(Output) + 1)
      BY <1>1, <3>4, <3>5, <3>6, DenseAppend
    <3>8. Covered(Output', sequenceNumber', Len(Output'))
      BY <2>2, <3>2, <3>3, <3>7 DEF Counted
    <3> QED
      BY <1>1, <3>2, <3>3, <3>7, <3>8
  <2> QED
    BY <2>1, <2>2, TicketCounts
<1>4. /\ waiting \in Seq([deli : Checkpoints, after : Nat])
      /\ \A k \in DOMAIN waiting : waiting[k].deli.sequenceNumber \in Nat /\ waiting[k].after \in Nat
  BY CheckpointNumbers
<1>5. \A k \in DOMAIN waiting : Covered(Output', waiting[k].deli.sequenceNumber, waiting[k].after)
  <2>1. \A k \in DOMAIN waiting : Covered(Output, waiting[k].deli.sequenceNumber, waiting[k].after)
    BY DEF DenseInv, CheckpointsCovered
  <2> QED
    BY <1>1, <1>3, <1>4, <2>1, CoveredStays
<1>6. \/ waiting' = waiting
      \/ waiting' = Append(waiting, CheckpointAfterSends)
  BY DEF Ticket, EndOfMessage
<1>7. ASSUME waiting' = Append(waiting, CheckpointAfterSends)
      PROVE  \A k \in DOMAIN waiting' :
                 Covered(Output', waiting'[k].deli.sequenceNumber, waiting'[k].after)
  <2> DEFINE w == CheckpointAfterSends
  <2>1. w.deli.sequenceNumber = sequenceNumber' /\ w.after = Len(deltas) + Len(sending')
    BY DEF CheckpointAfterSends, DeliCheckpoint
  <2>2. w.after = Len(Output')
    <3>1. deltas' \in Seq(OutputMessages) /\ sending' \in Seq(OutputMessages)
      BY <1>1 DEF SendsTypeOK
    <3>2. Len(Output') = Len(deltas') + Len(sending')
      BY <3>1 DEF Output
    <3> QED
      BY <1>2, <2>1, <3>2
  <2> HIDE DEF w
  <2>3. Covered(Output', w.deli.sequenceNumber, w.after)
    BY <1>3, <2>1, <2>2
  <2>4. waiting' = Append(waiting, w)
    BY <1>7 DEF w
  <2>5. \A k \in DOMAIN waiting' : waiting'[k] = w \/ (k \in DOMAIN waiting /\ waiting'[k] = waiting[k])
    BY <1>4, <2>4
  <2> QED
    BY <1>5, <2>3, <2>5
<1>8. \A k \in DOMAIN waiting' :
          Covered(Output', waiting'[k].deli.sequenceNumber, waiting'[k].after)
  BY <1>5, <1>6, <1>7
<1>9. /\ updating' # None => Covered(deltas', updating'.deli.sequenceNumber, Len(deltas'))
      /\ queued' # None => Covered(deltas', queued'.deli.sequenceNumber, Len(deltas'))
      /\ db' \notin {None, Cleared} => Covered(deltas', db'.sequenceNumber, Len(deltas'))
      /\ summary' # None => Covered(deltas', summary'.sequenceNumber, Len(deltas'))
  BY <1>2 DEF DenseInv, CheckpointsCovered
<1>10. CheckpointsCovered'
  BY <1>8, <1>9 DEF CheckpointsCovered
<1> QED
  BY <1>3, <1>10 DEF DenseInv

LEMMA ForwardDense ==
    ASSUME TypeOK, DenseInv, ForwardProduced
    PROVE  DenseInv'
<1>1. SendsTypeOK
  BY DEF TypeOK
<1>2. /\ Output' = Output /\ Len(deltas') = Len(deltas) + 1
      /\ UNCHANGED <<sequenceNumber, waiting, updating, queued, db, summary>>
  BY <1>1, OutputForwarded DEF ForwardProduced, checkpointing, lambda, window
<1>3. /\ deltas \in Seq(OutputMessages) /\ deltas' \in Seq(OutputMessages)
      /\ \A i \in 1 .. Len(deltas) : deltas'[i] = deltas[i]
  <2>1. /\ deltas \in Seq(OutputMessages) /\ sending \in Seq(OutputMessages) /\ sending # <<>>
        /\ deltas' = Append(deltas, Head(sending))
    BY <1>1 DEF ForwardProduced, SendsTypeOK
  <2>2. Head(sending) \in OutputMessages
    BY <2>1
  <2> QED
    BY <2>1, <2>2
<1>4. ASSUME NEW x \in Nat, Covered(deltas, x, Len(deltas))
      PROVE  Covered(deltas', x, Len(deltas'))
  <2>1. Len(deltas) \in Nat /\ Len(deltas') \in Nat /\ Len(deltas) <= Len(deltas')
    BY <1>2, <1>3
  <2> QED
    BY <1>3, <1>4, <2>1, CoveredStays
<1>5. CheckpointsCovered'
  BY <1>2, <1>4, CheckpointNumbers DEF DenseInv, CheckpointsCovered
<1> QED
  BY <1>2, <1>5 DEF DenseInv

LEMMA ReadyDense ==
    ASSUME TypeOK, DenseInv, CheckpointReady
    PROVE  DenseInv'
<1> DEFINE w == Head(waiting)
           checkpoint == [deli |-> w.deli, clear |-> lastInstruction = "ClearCache", stored |-> FALSE]
<1>1. /\ waiting # <<>> /\ w.after <= Len(deltas) /\ waiting' = Tail(waiting)
      /\ UNCHANGED <<deltas, sending, sequenceNumber, db, summary>>
      /\ \/ updating' = checkpoint /\ queued' = queued
         \/ queued' = checkpoint /\ updating' = updating
  BY DEF CheckpointReady, CheckpointOf, logs, lambda, window, inFlight
<1>2. waiting \in Seq([deli : Checkpoints, after : Nat])
  BY CheckpointNumbers
<1>3. 1 \in DOMAIN waiting /\ w = waiting[1]
  BY <1>1, <1>2
<1>4. w.deli.sequenceNumber \in Nat /\ w.after \in Nat
  BY <1>3, CheckpointNumbers
<1>5. Covered(deltas, w.deli.sequenceNumber, Len(deltas))
  <2>1. Covered(Output, w.deli.sequenceNumber, w.after)
    BY <1>3 DEF DenseInv, CheckpointsCovered
  <2> QED
    BY <1>1, <1>4, <2>1, CoveredDurable DEF TypeOK
<1>6. Output' = Output
  BY <1>1 DEF Output
<1>7. \A k \in DOMAIN waiting' : \E j \in DOMAIN waiting : waiting'[k] = waiting[j]
  <2>1. \A k \in DOMAIN waiting' : k + 1 \in DOMAIN waiting /\ waiting'[k] = waiting[k + 1]
    BY <1>1, <1>2
  <2> QED
    BY <2>1
<1>8. \A k \in DOMAIN waiting' :
          Covered(Output', waiting'[k].deli.sequenceNumber, waiting'[k].after)
  BY <1>6, <1>7 DEF DenseInv, CheckpointsCovered
<1>9. checkpoint.deli = w.deli
  OBVIOUS
<1> HIDE DEF checkpoint, w
<1>10. /\ updating' # None => Covered(deltas', updating'.deli.sequenceNumber, Len(deltas'))
       /\ queued' # None => Covered(deltas', queued'.deli.sequenceNumber, Len(deltas'))
  BY <1>1, <1>5, <1>9 DEF DenseInv, CheckpointsCovered
<1>11. /\ db' \notin {None, Cleared} => Covered(deltas', db'.sequenceNumber, Len(deltas'))
       /\ summary' # None => Covered(deltas', summary'.sequenceNumber, Len(deltas'))
  BY <1>1 DEF DenseInv, CheckpointsCovered
<1>12. CheckpointsCovered'
  BY <1>8, <1>10, <1>11 DEF CheckpointsCovered
<1> QED
  BY <1>1, <1>6, <1>12 DEF DenseInv

LEMMA UpdateDense ==
    ASSUME TypeOK, DenseInv, Update
    PROVE  DenseInv'
<1>1. /\ updating # None /\ db' = (IF updating.clear THEN Cleared ELSE updating.deli)
      /\ updating' = [updating EXCEPT !.stored = TRUE]
      /\ UNCHANGED <<deltas, sending, sequenceNumber, waiting, queued, summary>>
  BY DEF Update, lambda, window, inFlight
<1>2. updating'.deli = updating.deli
  <2>1. updating \in CheckpointParams
    BY <1>1 DEF TypeOK, CheckpointTypeOK
  <2> QED
    BY <1>1, <2>1 DEF CheckpointParams
<1>3. Output' = Output
  BY <1>1 DEF Output
<1>4. Covered(deltas, updating.deli.sequenceNumber, Len(deltas))
  BY <1>1 DEF DenseInv, CheckpointsCovered
<1>5. db' \notin {None, Cleared} => db' = updating.deli
  BY <1>1
<1>6. CheckpointsCovered'
  BY <1>1, <1>2, <1>3, <1>4, <1>5 DEF DenseInv, CheckpointsCovered
<1> QED
  BY <1>1, <1>3, <1>6 DEF DenseInv

LEMMA UpdatedDense ==
    ASSUME TypeOK, DenseInv, Updated
    PROVE  DenseInv'
<1>1. /\ updating' = queued /\ queued' = None
      /\ UNCHANGED <<deltas, sending, sequenceNumber, waiting, db, summary>>
  BY DEF Updated, lambda, window, inFlight
<1>2. Output' = Output
  BY <1>1 DEF Output
<1>3. CheckpointsCovered'
  BY <1>1, <1>2 DEF DenseInv, CheckpointsCovered
<1> QED
  BY <1>1, <1>2, <1>3 DEF DenseInv

(* A restart goes back to numbers that are durable. *)
LEMMA RestartDense ==
    ASSUME TypeOK, DenseInv, Restart
    PROVE  DenseInv'
<1>1. /\ sequenceNumber' = LastCheckpoint.sequenceNumber
      /\ sending' = <<>> /\ waiting' = <<>> /\ updating' = None /\ queued' = None
      /\ UNCHANGED <<deltas, db, summary>>
  BY DEF Restart, logs
<1>2. SendsTypeOK /\ deltas \in Seq(OutputMessages) /\ Output \in Seq(OutputMessages)
  BY OutputGrows DEF TypeOK
<1>3. Output' = deltas
  BY <1>1, <1>2 DEF Output
<1>4. Dense(deltas)
  <2> SUFFICES ASSUME NEW i \in DOMAIN deltas, deltas[i].kind = "op"
               PROVE  /\ Covered(deltas, deltas[i].seq - 1, i - 1)
                      /\ deltas[i].deli # None => deltas[i].deli.sequenceNumber = deltas[i].seq
    BY DEF Dense
  <2>1. /\ i \in DOMAIN Output /\ \A j \in 1 .. i : deltas[j] = Output[j]
        /\ i \in 1 .. i
    BY <1>2, OutputGrows
  <2>2. Output[i].kind = "op" /\ Output[i].seq \in Nat
    BY <1>2, <2>1, OutputElement
  <2>3. Dense(Output)
    BY DEF DenseInv
  <2> QED
    BY <1>2, <2>1, <2>2, <2>3, DenseElement
<1>5. Covered(deltas, LastCheckpoint.sequenceNumber, Len(deltas))
  <2>1. Covered(deltas, 0, Len(deltas))
    BY DEF Covered
  <2>2. DefaultCheckpoint.sequenceNumber = 0
    BY DEF DefaultCheckpoint
  <2>3. summary # None =>
            [summary EXCEPT !.logOffset = 0].sequenceNumber = summary.sequenceNumber
    BY DEF TypeOK, CheckpointTypeOK, Checkpoints
  <2>4. /\ db \notin {None, Cleared} => Covered(deltas, db.sequenceNumber, Len(deltas))
        /\ summary # None => Covered(deltas, summary.sequenceNumber, Len(deltas))
    BY DEF DenseInv, CheckpointsCovered
  <2>5. CASE db = None
    BY <2>1, <2>2, <2>5, DeliConstants DEF LastCheckpoint
  <2>6. CASE db = Cleared /\ summary = None
    BY <2>1, <2>2, <2>6, DeliConstants DEF LastCheckpoint
  <2>7. CASE db = Cleared /\ summary # None
    BY <2>3, <2>4, <2>7, DeliConstants DEF LastCheckpoint
  <2>8. CASE db \notin {None, Cleared}
    BY <2>4, <2>8 DEF LastCheckpoint
  <2> QED
    BY <2>5, <2>6, <2>7, <2>8
<1>6. CheckpointsCovered'
  <2>1. /\ db' \notin {None, Cleared} => Covered(deltas', db'.sequenceNumber, Len(deltas'))
        /\ summary' # None => Covered(deltas', summary'.sequenceNumber, Len(deltas'))
    BY <1>1 DEF DenseInv, CheckpointsCovered
  <2> QED
    BY <1>1, <2>1 DEF CheckpointsCovered
<1> QED
  BY <1>1, <1>3, <1>4, <1>5, <1>6 DEF DenseInv

(* The checkpoint of a NoClient counts the NoClient. *)
LEMMA SummaryDense ==
    ASSUME TypeOK, DenseInv, ServiceSummary, summary' \in Checkpoints \cup {None}
    PROVE  DenseInv'
<1>1. /\ UNCHANGED <<deltas, sending, sequenceNumber, waiting, updating, queued, db>>
      /\ \E i \in Sequenced : summary' = deltas[i].deli
  BY DEF ServiceSummary, UnchangedByEnvironment, lambda, window, inFlight, checkpointing
<1>2. PICK i \in Sequenced : summary' = deltas[i].deli
  BY <1>1
<1>3. SendsTypeOK /\ deltas \in Seq(OutputMessages) /\ Output \in Seq(OutputMessages)
  BY OutputGrows DEF TypeOK
<1>4. i \in DOMAIN deltas /\ deltas[i].kind = "op" /\ i \in 1 .. Len(deltas)
  BY <1>3 DEF Sequenced
<1>5. /\ i \in DOMAIN Output /\ Output[i] = deltas[i]
      /\ \A j \in 1 .. i : Output[j] = deltas[j] /\ j \in 1 .. Len(deltas)
  BY <1>3, <1>4, OutputGrows
<1>6. deltas[i].seq \in Nat
  BY <1>3, <1>5, OutputElement
<1>7. /\ Covered(Output, deltas[i].seq - 1, i - 1)
      /\ deltas[i].deli # None => deltas[i].deli.sequenceNumber = deltas[i].seq
  BY <1>4, <1>5 DEF DenseInv, Dense
<1>8. Covered(deltas, deltas[i].seq, Len(deltas))
  <2>1. SUFFICES ASSUME NEW number \in 1 .. deltas[i].seq
                 PROVE  \E j \in 1 .. Len(deltas) :
                            j \in DOMAIN deltas /\ deltas[j].kind = "op" /\ deltas[j].seq = number
    BY DEF Covered
  <2>2. CASE number = deltas[i].seq
    BY <1>4, <2>2
  <2>3. CASE number # deltas[i].seq
    <3>1. number \in 1 .. deltas[i].seq - 1
      BY <1>6, <2>3
    <3>2. PICK j \in 1 .. i - 1 :
              j \in DOMAIN Output /\ Output[j].kind = "op" /\ Output[j].seq = number
      BY <1>7, <3>1 DEF Covered
    <3>3. j \in 1 .. i
      BY <1>4, <3>2
    <3> QED
      BY <1>3, <1>5, <3>2, <3>3
  <2> QED
    BY <2>2, <2>3
<1>9. summary' # None => Covered(deltas, summary'.sequenceNumber, Len(deltas))
  BY <1>2, <1>7, <1>8
<1>10. Output' = Output
  BY <1>1 DEF Output
<1>11. CheckpointsCovered'
  BY <1>1, <1>9, <1>10 DEF DenseInv, CheckpointsCovered
<1> QED
  BY <1>1, <1>10, <1>11 DEF DenseInv

LEMMA DenseStep ==
    ASSUME TypeOK, TypeOK', DenseInv, [Next]_vars
    PROVE  DenseInv'
<1> DEFINE kept == <<deltas, sending, sequenceNumber, waiting, updating, queued, db, summary>>
<1>1. CASE Ticket
  BY <1>1, TicketDense
<1>2. CASE ForwardProduced
  BY <1>2, ForwardDense
<1>3. CASE CheckpointReady
  BY <1>3, ReadyDense
<1>4. CASE Update
  BY <1>4, UpdateDense
<1>5. CASE Updated
  BY <1>5, UpdatedDense
<1>6. CASE Restart
  BY <1>6, RestartDense
<1>7. CASE ServiceSummary
  BY <1>7, SummaryDense DEF TypeOK, CheckpointTypeOK
<1>8. CASE Deliver \/ IdleTimerFires \/ NoopTimerFires \/ ReverseProduced
  <2>1. UNCHANGED kept
    BY <1>8 DEF Deliver, IdleTimerFires, NoopTimerFires, ReverseProduced, logs, lambda, window,
                inFlight, checkpointing
  <2> QED
    BY <2>1, DenseUnchanged
<1>9. CASE (\E c \in Clients : Connect(c) \/ Disconnect(c) \/ LoseMessage(c))
           \/ (\E c \in Clients, kind \in ClientOps : Submit(c, kind)) \/ RepeatBoxcar
  <2>1. UnchangedByEnvironment /\ summary' = summary
    BY <1>9 DEF Connect, Disconnect, LoseMessage, Submit, RepeatBoxcar
  <2>2. UNCHANGED kept
    BY <2>1 DEF UnchangedByEnvironment, lambda, window, inFlight, checkpointing
  <2> QED
    BY <2>2, DenseUnchanged
<1>10. CASE UNCHANGED vars
  <2>1. UNCHANGED kept
    BY <1>10 DEF vars, logs, lambda, window, inFlight, checkpointing
  <2> QED
    BY <2>1, DenseUnchanged
<1> QED
  BY <1>1, <1>2, <1>3, <1>4, <1>5, <1>6, <1>7, <1>8, <1>9, <1>10
  DEF Next, Process, Environment

(* The durable deltas topic has no hole in its numbers, whatever restarts  *)
(* replay and from whichever record or summary they start.                 *)
THEOREM NumbersWithoutHoles == Spec => []DenseInv
<1>1. TypeOK /\ TypeOK' /\ DenseInv /\ [Next]_vars => DenseInv'
  BY DenseStep
<1> QED
  BY <1>1, DenseInit, TypeCorrect, PTL DEF Spec

-----------------------------------------------------------------------------
(* What a message does when nothing that a restart forgets has a part.     *)

LEMMA ClientsAfterType ==
    ASSUME NEW m, NEW seq \in Nat, NEW cl \in [Clients -> ClientStates \cup {None}], 
           m \in RawMessages
    PROVE  ClientsAfter(m, seq, cl) \in [Clients -> ClientStates \cup {None}]
<1>1. MinimumOf(cl, seq) \in Nat
  BY MinimumType
<1>2. InTurn(m, cl) => m.csn \in Nat
  <2> SUFFICES ASSUME InTurn(m, cl) PROVE m.csn \in Nat
    OBVIOUS
  <2>1. cl[m.clientId] \in ClientStates
    BY DEF InTurn, TrackedIn
  <2> QED
    BY <2>1 DEF InTurn, ClientStates
<1>3. m.ref \in Nat \cup {-1}
  BY DEF RawMessages
<1> DEFINE ref == IF m.ref = -1 THEN seq + 1 ELSE m.ref
<1>4. ref \in Nat
  BY <1>3
<1>5. InTurn(m, cl) =>
          /\ [csn |-> m.csn, ref |-> MinimumOf(cl, seq), nack |-> TRUE] \in ClientStates
          /\ [csn |-> m.csn, ref |-> ref, nack |-> FALSE] \in ClientStates
  BY <1>1, <1>2, <1>4 DEF ClientStates
<1>6. [csn |-> 0, ref |-> MinimumOf(cl, seq), nack |-> FALSE] \in ClientStates
  BY <1>1 DEF ClientStates
<1>7. \A c : \A state \in ClientStates \cup {None} :
          [cl EXCEPT ![c] = state] \in [Clients -> ClientStates \cup {None}]
  OBVIOUS
<1> QED
  BY <1>5, <1>6, <1>7 DEF ClientsAfter

(* The reference that a join or a nack gives a tracked client is the       *)
(* minimum of all, so that the minimum stays.                              *)
Lowered(cl, seq, c, n, nack) ==
    [cl EXCEPT ![c] = [csn |-> n, ref |-> MinimumOf(cl, seq), nack |-> nack]]

LEMMA LoweredMinimum ==
    ASSUME NEW cl \in [Clients -> ClientStates \cup {None}], NEW seq \in Nat,
           NEW c \in TrackedIn(cl), NEW n \in Nat, NEW nack \in BOOLEAN
    PROVE  MinimumOf(Lowered(cl, seq, c, n, nack), seq) = MinimumOf(cl, seq)
<1> DEFINE to == Lowered(cl, seq, c, n, nack)
           low == MinimumOf(cl, seq)
           state == [csn |-> n, ref |-> low, nack |-> nack]
<1>1. low \in Nat
  BY MinimumType
<1>2. state \in ClientStates /\ state.ref = low
  BY <1>1 DEF ClientStates
<1>3. state # None
  BY <1>2, DeliConstants
<1>4. c \in Clients /\ TrackedIn(cl) # {}
  BY DEF TrackedIn
<1>5. low = Min(Refs(cl))
  BY <1>4 DEF MinimumOf
<1>6. Refs(cl) \in SUBSET Nat /\ Refs(cl) # {}
  BY <1>4 DEF Refs, TrackedIn, ClientStates
<1>7. low \in Refs(cl) /\ \A y \in Refs(cl) : low <= y
  BY <1>5, <1>6, MinNat
<1> HIDE DEF state, low, to
<1>8. to = [cl EXCEPT ![c] = state]
  BY DEF state, low, to, Lowered
<1>9. /\ to[c] = state /\ \A d \in Clients : d # c => to[d] = cl[d]
      /\ to \in [Clients -> ClientStates \cup {None}]
  BY <1>2, <1>4, <1>8
<1>10. c \in TrackedIn(to) /\ TrackedIn(to) # {}
  BY <1>3, <1>4, <1>9 DEF TrackedIn
<1>11. low \in Refs(to)
  BY <1>2, <1>9, <1>10 DEF Refs
<1>12. \A y \in Refs(to) : y \in Nat /\ low <= y
  <2> SUFFICES ASSUME NEW d \in TrackedIn(to) PROVE to[d].ref \in Nat /\ low <= to[d].ref
    BY DEF Refs
  <2>1. CASE d = c
    BY <1>1, <1>2, <1>9, <2>1
  <2>2. CASE d # c
    <3>1. d \in TrackedIn(cl) /\ to[d] = cl[d]
      BY <1>9, <2>2 DEF TrackedIn
    <3>2. cl[d].ref \in Refs(cl)
      BY <3>1 DEF Refs
    <3> QED
      BY <1>6, <1>7, <3>1, <3>2
  <2> QED
    BY <2>1, <2>2
<1>13. Refs(to) \in SUBSET Nat /\ Refs(to) # {}
  BY <1>11, <1>12
<1>14. Min(Refs(to)) \in Refs(to) /\ \A y \in Refs(to) : Min(Refs(to)) <= y
  BY <1>13, MinNat
<1>15. Min(Refs(to)) = low
  <2>1. Min(Refs(to)) \in Nat /\ low <= Min(Refs(to)) /\ Min(Refs(to)) <= low
    BY <1>11, <1>12, <1>14
  <2> QED
    BY <1>1, <2>1
<1> QED
  BY <1>10, <1>15 DEF MinimumOf, low, to

LEMMA TicketFollows ==
    ASSUME TypeOK, Repeats, minimumSequenceNumber = MinimumOf(clients, sequenceNumber),
           Admissible(Message), lastInstruction = "NoOp", ~noopTimer, Ticket
    PROVE  /\ sequenceNumber' = NumberAfter(Message, sequenceNumber, clients)
           /\ clients' = ClientsAfter(Message, sequenceNumber, clients)
           /\ minimumSequenceNumber' = MinimumOf(clients', sequenceNumber')
           /\ lastInstruction' = "NoOp" /\ ~noopTimer'
<1> DEFINE m == Message
           Goal == /\ sequenceNumber' = NumberAfter(m, sequenceNumber, clients)
                   /\ clients' = ClientsAfter(m, sequenceNumber, clients)
                   /\ minimumSequenceNumber' = MinimumOf(clients', sequenceNumber')
                   /\ lastInstruction' = "NoOp" /\ ~noopTimer'
<1>1. m \in RawMessages
  BY TicketReverse
<1>2. /\ clients \in [Clients -> ClientStates \cup {None}] /\ sequenceNumber \in Nat
      /\ minimumSequenceNumber \in Nat
  BY DEF TypeOK, LambdaTypeOK
<1>3. /\ m.type \notin {"Operation", "Summarize"} => m.clientId = None
      /\ m.type # "NoOp"
      /\ m.type = "Control" => ~m.data.clearCache
  BY DEF Admissible
<1> HIDE DEF m
<1> SUFFICES Goal
  BY DEF m
<1>4. None \notin Clients /\ Tracked = TrackedIn(clients) /\ Tracked \subseteq Clients
  BY DeliConstants DEF Tracked, TrackedIn
(* Nothing is counted and nobody changes. *)
<1>a. ASSUME clients' = clients, sequenceNumber' = sequenceNumber,
             minimumSequenceNumber' = minimumSequenceNumber, lastInstruction' = "NoOp", ~noopTimer',
             ~InTurn(m, clients), ~Numbered(m, sequenceNumber, clients),
             m.type \notin {"ClientJoin", "ClientLeave"}
      PROVE  Goal
  BY <1>a DEF NumberAfter, ClientsAfter
<1>b. ASSUME SendNack(m)
      PROVE  /\ sequenceNumber' = sequenceNumber /\ lastInstruction' = "NoOp" /\ ~noopTimer'
             /\ minimumSequenceNumber' = minimumSequenceNumber
  BY <1>b DEF SendNack
<1>c. m.clientId \in Tracked => m.type \in {"Operation", "Summarize"}
  BY <1>3, <1>4
<1>d. ASSUME FromClient(m), ~Nonexistent(m)
      PROVE  InTurn(m, clients) /\ m.csn \in Nat /\ m.clientId \in TrackedIn(clients)
  <2>1. m.clientId \in Tracked /\ ~clients[m.clientId].nack
    BY <1>d DEF Nonexistent
  <2>2. clients[m.clientId] \in ClientStates
    BY <1>2, <2>1 DEF Tracked, TrackedIn
  <2>3. m.csn = clients[m.clientId].csn + 1
    BY <1>d, <2>1 DEF FromClient, Order
  <2>4. m.type \in {"Operation", "Summarize"}
    BY <1>c, <2>1
  <2> QED
    BY <1>4, <2>1, <2>2, <2>3, <2>4 DEF InTurn, ClientStates
<1>e. BelowWindow(m) <=> Outside(m, sequenceNumber, clients)
  BY DEF BelowWindow, Outside
<1>5. CASE TicketDuplicate(m) \/ TicketGap(m)
  <2>b. Order(m) \in {"Duplicate", "Gap"}
    BY <1>5 DEF TicketDuplicate, TicketGap
  <2>c. m.clientId \notin Tracked => Order(m) = "ConsecutiveOrSystem"
    BY DEF Order
  <2>0. m.clientId \in Tracked
    BY <2>b, <2>c
  <2>a. clients[m.clientId].csn \in Nat /\ m.csn \in Int
    BY <1>1, <1>2, <2>0 DEF Tracked, TrackedIn, ClientStates, RawMessages
  <2>1. /\ m.clientId \in Tracked /\ m.csn # clients[m.clientId].csn + 1
    <3>1. m.csn = clients[m.clientId].csn + 1 => Order(m) = "ConsecutiveOrSystem"
      BY <2>0, <2>a DEF Order
    <3> QED
      BY <2>0, <2>b, <3>1
  <2>2. ~InTurn(m, clients)
    BY <2>1 DEF InTurn
  <2>3. m.type \in {"Operation", "Summarize"}
    BY <1>c, <2>1
  <2>4. ~Numbered(m, sequenceNumber, clients)
    BY <2>2, <2>3 DEF Numbered
  <2>5. /\ clients' = clients /\ sequenceNumber' = sequenceNumber
        /\ minimumSequenceNumber' = minimumSequenceNumber /\ lastInstruction' = "NoOp" /\ ~noopTimer'
    BY <1>5, <1>b DEF TicketDuplicate, TicketGap, lambda, window
  <2> QED
    BY <1>a, <2>2, <2>3, <2>4, <2>5
<1>6. CASE TicketLeaveOfUnknown(m)
  <2>1. /\ m.type = "ClientLeave" /\ m.data \notin TrackedIn(clients)
        /\ clients' = clients /\ sequenceNumber' = sequenceNumber
        /\ minimumSequenceNumber' = minimumSequenceNumber /\ lastInstruction' = lastInstruction
        /\ noopTimer' = noopTimer
    BY <1>4, <1>6 DEF TicketLeaveOfUnknown, lambda, window
  <2>2. [clients EXCEPT ![m.data] = None] = clients
    BY <1>2, <2>1 DEF TrackedIn
  <2>3. ~InTurn(m, clients)
    BY <2>1 DEF InTurn
  <2>4. ~Numbered(m, sequenceNumber, clients)
    BY <2>1, <2>3 DEF Numbered
  <2>5. ClientsAfter(m, sequenceNumber, clients) = [clients EXCEPT ![m.data] = None]
    BY <2>1, <2>3 DEF ClientsAfter
  <2> QED
    BY <2>1, <2>2, <2>4, <2>5 DEF NumberAfter
<1>7. CASE TicketRepeatedJoin(m)
  <2>1. /\ m.type = "ClientJoin" /\ m.data \in TrackedIn(clients)
        /\ clients' = Upsert(m.data, 0, minimumSequenceNumber, FALSE)
        /\ sequenceNumber' = sequenceNumber
        /\ minimumSequenceNumber' = minimumSequenceNumber /\ lastInstruction' = lastInstruction
        /\ noopTimer' = noopTimer
    BY <1>4, <1>7 DEF TicketRepeatedJoin, JoinReference
  <2>2. clients' = [clients EXCEPT ![m.data] =
            [csn |-> 0, ref |-> MinimumOf(clients, sequenceNumber), nack |-> FALSE]]
    BY <2>1 DEF Upsert
  <2>3. ~InTurn(m, clients)
    BY <2>1 DEF InTurn
  <2>4. ~Numbered(m, sequenceNumber, clients)
    BY <2>1, <2>3 DEF Numbered
  <2>5. ClientsAfter(m, sequenceNumber, clients) = clients'
    BY <2>1, <2>2, <2>3 DEF ClientsAfter
  <2>6. MinimumOf(clients', sequenceNumber) = MinimumOf(clients, sequenceNumber)
    <3>1. clients' = Lowered(clients, sequenceNumber, m.data, 0, FALSE)
      BY <2>2 DEF Lowered
    <3>2. MinimumOf(Lowered(clients, sequenceNumber, m.data, 0, FALSE), sequenceNumber)
              = MinimumOf(clients, sequenceNumber)
      <4>1. m.data \in TrackedIn(clients) /\ 0 \in Nat /\ FALSE \in BOOLEAN
        BY <2>1
      <4> QED
        BY <1>2, <4>1, LoweredMinimum
    <3> QED
      BY <3>1, <3>2
  <2> QED
    BY <2>1, <2>4, <2>5, <2>6 DEF NumberAfter
<1>8. CASE TicketNonexistent(m)
  <2>1. /\ SendNack(m) /\ clients' = clients /\ m.clientId # None /\ Nonexistent(m)
    BY <1>8 DEF TicketNonexistent, FromClient
  <2>2. ~InTurn(m, clients)
    BY <1>4, <2>1 DEF InTurn, Nonexistent
  <2>3. m.type \in {"Operation", "Summarize"}
    BY <1>3, <2>1
  <2>4. ~Numbered(m, sequenceNumber, clients)
    BY <2>2, <2>3 DEF Numbered
  <2> QED
    BY <1>a, <1>b, <2>1, <2>2, <2>3, <2>4
<1>9. CASE TicketBelowWindow(m)
  <2>1. /\ SendNack(m) /\ FromClient(m) /\ ~Nonexistent(m) /\ BelowWindow(m)
        /\ clients' = Upsert(m.clientId, m.csn, minimumSequenceNumber, TRUE)
    BY <1>9 DEF TicketBelowWindow
  <2>2. /\ InTurn(m, clients) /\ Outside(m, sequenceNumber, clients)
        /\ m.csn \in Nat /\ m.clientId \in TrackedIn(clients)
    BY <1>d, <1>e, <2>1
  <2>3. clients' = [clients EXCEPT ![m.clientId] =
            [csn |-> m.csn, ref |-> MinimumOf(clients, sequenceNumber), nack |-> TRUE]]
    BY <2>1 DEF Upsert
  <2>5. ~Numbered(m, sequenceNumber, clients) /\ m.type \notin {"ClientJoin", "ClientLeave"}
    BY <2>2 DEF Numbered, InTurn
  <2>4. ClientsAfter(m, sequenceNumber, clients) = clients'
    BY <2>2, <2>3, <2>5 DEF ClientsAfter
  <2>6. MinimumOf(clients', sequenceNumber) = MinimumOf(clients, sequenceNumber)
    <3>1. clients' = Lowered(clients, sequenceNumber, m.clientId, m.csn, TRUE)
      BY <2>3 DEF Lowered
    <3>2. MinimumOf(Lowered(clients, sequenceNumber, m.clientId, m.csn, TRUE), sequenceNumber)
              = MinimumOf(clients, sequenceNumber)
      BY <1>2, <2>2, LoweredMinimum
    <3> QED
      BY <3>1, <3>2
  <2> QED
    BY <1>b, <2>1, <2>4, <2>5, <2>6 DEF NumberAfter
<1>10. CASE TicketForbidden(m)
  <2>1. /\ SendNack(m) /\ clients' = clients
        /\ FromClient(m) /\ ~Nonexistent(m) /\ ~BelowWindow(m) /\ Forbidden(m)
    BY <1>10 DEF TicketForbidden
  <2>2. m.type = "Summarize" /\ ~Outside(m, sequenceNumber, clients)
    BY <1>e, <2>1 DEF Forbidden
  <2>3. ~Numbered(m, sequenceNumber, clients)
    BY <2>1, <2>2 DEF Numbered
  <2>4. ClientsAfter(m, sequenceNumber, clients) = clients
    BY <2>2, <2>3 DEF ClientsAfter
  <2> QED
    BY <1>b, <2>1, <2>3, <2>4 DEF NumberAfter
<1>11. CASE TicketJoin(m)
  <2>1. /\ m.type = "ClientJoin" /\ m.data \notin TrackedIn(clients)
        /\ Advance(Upsert(m.data, 0, minimumSequenceNumber, FALSE), sequenceNumber + 1)
        /\ lastInstruction' = "NoOp" /\ noopTimer' = FALSE
    BY <1>4, <1>11 DEF TicketJoin, JoinReference, Ticketed, SendImmediately
  <2>2. ~InTurn(m, clients) /\ Numbered(m, sequenceNumber, clients)
    BY <2>1 DEF InTurn, Numbered
  <2>3. ClientsAfter(m, sequenceNumber, clients) = Upsert(m.data, 0, minimumSequenceNumber, FALSE)
    BY <2>1, <2>2 DEF ClientsAfter, Upsert
  <2> QED
    BY <2>1, <2>2, <2>3 DEF NumberAfter, Advance
<1>12. CASE TicketLeave(m)
  <2>1. /\ m.type = "ClientLeave" /\ m.data \in TrackedIn(clients)
        /\ Advance(Remove(m.data), sequenceNumber + 1)
        /\ lastInstruction' = "NoOp" /\ noopTimer' = FALSE
    BY <1>4, <1>12 DEF TicketLeave, Ticketed, SendImmediately
  <2>2. ~InTurn(m, clients) /\ Numbered(m, sequenceNumber, clients)
    BY <2>1 DEF InTurn, Numbered
  <2>3. ClientsAfter(m, sequenceNumber, clients) = Remove(m.data)
    BY <2>1, <2>2 DEF ClientsAfter, Remove
  <2> QED
    BY <2>1, <2>2, <2>3 DEF NumberAfter, Advance
<1>13. CASE TicketClientOp(m)
  <2> DEFINE ref == IF m.ref = -1 THEN sequenceNumber + 1 ELSE m.ref
  <2>1. /\ FromClient(m) /\ ~Nonexistent(m) /\ ~BelowWindow(m) /\ ~Forbidden(m)
        /\ Advance(Upsert(m.clientId, m.csn, ref, FALSE), sequenceNumber + 1)
        /\ lastInstruction' = "NoOp" /\ noopTimer' = FALSE
    BY <1>13 DEF TicketClientOp, Accepted, Ticketed, SendImmediately
  <2>2. InTurn(m, clients) /\ ~Outside(m, sequenceNumber, clients)
    BY <1>d, <1>e, <2>1
  <2>5. m.type \notin {"ClientJoin", "ClientLeave"}
    BY <2>2 DEF InTurn
  <2>3. Numbered(m, sequenceNumber, clients)
    BY <2>1, <2>2 DEF Numbered
  <2>4. ClientsAfter(m, sequenceNumber, clients) = Upsert(m.clientId, m.csn, ref, FALSE)
    BY <2>2, <2>3, <2>5 DEF ClientsAfter, Upsert
  <2> HIDE DEF ref
  <2> QED
    BY <2>1, <2>3, <2>4 DEF NumberAfter, Advance
<1>14. CASE TicketClientNoOp(m) \/ TicketServerNoOp(m)
  BY <1>3, <1>14 DEF TicketClientNoOp, TicketServerNoOp
<1>15. CASE TicketNoClient(m)
  <2>1. /\ m.type = "NoClient" /\ lastInstruction' = "NoOp" /\ ~noopTimer'
        /\ IF TrackedIn(clients) = {} THEN Advance(clients, sequenceNumber + 1)
           ELSE Advance(clients, sequenceNumber)
    BY <1>4, <1>15 DEF TicketNoClient, Ticketed, SendImmediately, SendNever
  <2>2. ~InTurn(m, clients)
    BY <2>1 DEF InTurn
  <2>3. Numbered(m, sequenceNumber, clients) <=> TrackedIn(clients) = {}
    BY <2>1, <2>2 DEF Numbered
  <2>4. ClientsAfter(m, sequenceNumber, clients) = clients
    BY <2>1, <2>2 DEF ClientsAfter
  <2> QED
    BY <2>1, <2>3, <2>4 DEF NumberAfter, Advance
<1>16. CASE TicketControl(m)
  <2>1. /\ m.type = "Control" /\ Advance(clients, sequenceNumber)
        /\ lastInstruction' = "NoOp" /\ ~noopTimer'
    BY <1>3, <1>16 DEF TicketControl, Ticketed, SendNever
  <2>2. ~InTurn(m, clients)
    BY <2>1 DEF InTurn
  <2>3. ~Numbered(m, sequenceNumber, clients)
    BY <2>1, <2>2 DEF Numbered
  <2>4. ClientsAfter(m, sequenceNumber, clients) = clients
    BY <2>1, <2>2 DEF ClientsAfter
  <2> QED
    BY <2>1, <2>3, <2>4 DEF NumberAfter, Advance
<1> QED
  BY <1>5, <1>6, <1>7, <1>8, <1>9, <1>10, <1>11, <1>12, <1>13, <1>14, <1>15, <1>16 DEF Ticket, m

-----------------------------------------------------------------------------
(* The raw topic and what a restart forgets.                               *)

(* Boxcars that the handler has seen stay as they are, the others may grow. *)
RawKept ==
    /\ Len(raw) <= Len(raw')
    /\ \A o \in DOMAIN raw : /\ Len(raw[o]) <= Len(raw'[o])
                             /\ o <= frozen => raw'[o] = raw[o]

(* Every message in the raw topic is in S. *)
RawIn(S) == \A o \in DOMAIN raw : Len(raw[o]) <= MaxBoxcar /\ \A i \in DOMAIN raw[o] : raw[o][i] \in S

LEMMA EnqueueKept ==
    ASSUME TypeOK, NEW m, Enqueue(m), MaxBoxcar # 0, NEW S, RawIn(S), m \in S
    PROVE  RawKept /\ RawIn(S)'
<1>1. /\ raw \in Seq(Seq(RawMessages) \ {<<>>}) /\ Len(raw) \in Nat
      /\ DOMAIN raw = 1 .. Len(raw) /\ frozen \in Nat /\ MaxBoxcar \in Nat
  BY DeliConstants DEF TypeOK, ConsumerTypeOK, EnvironmentTypeOK
<1>2. \A o \in DOMAIN raw : raw[o] \in Seq(RawMessages) /\ Len(raw[o]) \in Nat
  <2>1. \A o \in DOMAIN raw : raw[o] \in Seq(RawMessages)
    BY <1>1
  <2> QED
    BY <2>1
<1>3. \A o \in DOMAIN raw' : \A i \in DOMAIN raw'[o] : raw'[o][i] \in S
  <2>1. \A o \in DOMAIN raw' : \A i \in DOMAIN raw'[o] :
            \/ raw'[o][i] = m
            \/ o \in DOMAIN raw /\ i \in DOMAIN raw[o] /\ raw'[o][i] = raw[o][i]
    BY EnqueueAdds DEF TypeOK
  <2> QED
    BY <2>1 DEF RawIn
<1>4. CASE raw' = Append(raw, <<m>>)
  <2>1. /\ Len(raw') = Len(raw) + 1 /\ \A o \in DOMAIN raw : raw'[o] = raw[o]
        /\ \A o \in DOMAIN raw' : o \in DOMAIN raw \/ raw'[o] = <<m>>
    BY <1>1, <1>4
  <2>2. Len(<<m>>) = 1
    OBVIOUS
  <2>3. ASSUME NEW o \in DOMAIN raw' PROVE Len(raw'[o]) <= MaxBoxcar
    <3>1. CASE o \in DOMAIN raw
      BY <2>1, <3>1 DEF RawIn
    <3>2. CASE raw'[o] = <<m>>
      <4>1. Len(raw'[o]) = 1
        BY <2>2, <3>2
      <4> QED
        BY <1>1, <4>1
    <3> QED
      BY <2>1, <3>1, <3>2
  <2>4. RawKept
    BY <1>1, <1>2, <2>1 DEF RawKept
  <2> QED
    BY <1>3, <2>3, <2>4 DEF RawIn
<1>5. CASE /\ Len(raw) > frozen
           /\ Len(raw[Len(raw)]) < MaxBoxcar
           /\ raw' = [raw EXCEPT ![Len(raw)] = Append(@, m)]
  <2>1. Len(raw) \in DOMAIN raw
    BY <1>1, <1>5
  <2>2. Len(raw') = Len(raw) /\ DOMAIN raw' = DOMAIN raw
    BY <1>1, <1>5, <2>1
  <2>3. /\ \A o \in DOMAIN raw : o # Len(raw) => raw'[o] = raw[o]
        /\ raw'[Len(raw)] = Append(raw[Len(raw)], m)
    BY <1>1, <1>5, <2>1
  <2>4. Len(raw'[Len(raw)]) = Len(raw[Len(raw)]) + 1
    BY <1>2, <2>1, <2>3
  <2>5. \A o \in DOMAIN raw' : Len(raw'[o]) <= MaxBoxcar
    BY <1>1, <1>2, <1>5, <2>1, <2>2, <2>3, <2>4 DEF RawIn
  <2>6. RawKept
    BY <1>1, <1>2, <1>5, <2>1, <2>2, <2>3, <2>4 DEF RawKept
  <2> QED
    BY <1>3, <2>5, <2>6 DEF RawIn
<1> QED
  BY <1>4, <1>5 DEF Enqueue

LEMMA ServerAdmissible ==
    ASSUME NEW type \in {"ClientJoin", "ClientLeave", "NoClient"}, NEW data
    PROVE  Admissible(ServerMessage(type, data))
  BY DEF Admissible, ServerMessage

(* What is admissible. *)
Admitted == {m \in RawMessages : Admissible(m)}

LEMMA EnvironmentRaw ==
    ASSUME TypeOK, MaxBoxcar # 0, RawIn(Admitted), Environment
    PROVE  RawKept /\ RawIn(Admitted)'
<1>1. ASSUME NEW m \in RawMessages, Admissible(m), Enqueue(m) PROVE RawKept /\ RawIn(Admitted)'
  <2>1. m \in Admitted
    BY <1>1 DEF Admitted
  <2> QED
    BY <1>1, <2>1, EnqueueKept
<1>2. ASSUME NEW c \in Clients, Connect(c) \/ Disconnect(c) PROVE RawKept /\ RawIn(Admitted)'
  <2>1. PICK type \in {"ClientJoin", "ClientLeave"} : Enqueue(ServerMessage(type, c))
    BY <1>2 DEF Connect, Disconnect
  <2>2. ServerMessage(type, c) \in RawMessages
    BY ServerMessageType DEF Types
  <2> QED
    BY <1>1, <2>1, <2>2, ServerAdmissible
<1>3. ASSUME NEW c \in Clients, NEW kind \in ClientOps, Submit(c, kind)
      PROVE  RawKept /\ RawIn(Admitted)'
  <2> DEFINE type == IF kind = "NoOpImmediate" THEN "NoOp" ELSE kind
  <2>1. PICK ref \in {0} \cup {deltas[i].seq : i \in Sequenced}, direct \in BOOLEAN :
            Enqueue(ClientMessage(type, c, csn[c] + 1, IF direct THEN -1 ELSE ref,
                                  kind = "NoOpImmediate"))
    BY <1>3 DEF Submit
  <2> DEFINE m == ClientMessage(type, c, csn[c] + 1, IF direct THEN -1 ELSE ref,
                                kind = "NoOpImmediate")
  <2>2. type \in {"Operation", "NoOp", "Summarize"} /\ type \in Types
    BY DeliConstants DEF ClientKinds, Types
  <2>3. csn[c] + 1 \in Nat
    BY DEF TypeOK, EnvironmentTypeOK
  <2>4. ref \in Nat
    BY SequencedType DEF TypeOK
  <2> HIDE DEF type
  <2>5. m \in RawMessages
    BY <2>2, <2>3, <2>4 DEF ClientMessage, RawMessages
  <2>6. Repeats => type # "NoOp"
    BY DEF Repeats, type
  <2>7. m.type = type
    BY DEF ClientMessage
  <2>8. Admissible(m)
    BY <2>2, <2>6, <2>7 DEF Admissible
  <2> HIDE DEF m
  <2>9. Enqueue(m)
    BY <2>1 DEF m
  <2> QED
    BY <1>1, <2>5, <2>8, <2>9
<1>4. ASSUME NEW c \in Clients, LoseMessage(c) PROVE RawKept /\ RawIn(Admitted)'
  <2>1. raw' = raw
    BY <1>4 DEF LoseMessage
  <2>2. \A o \in DOMAIN raw : Len(raw[o]) \in Nat
    <3>1. \A o \in DOMAIN raw : raw[o] \in Seq(RawMessages)
      BY DEF TypeOK, ConsumerTypeOK
    <3> QED
      BY <3>1
  <2>3. Len(raw) \in Nat
    BY DEF TypeOK, ConsumerTypeOK
  <2> QED
    BY <2>1, <2>2, <2>3 DEF RawKept, RawIn
<1>5. ASSUME RepeatBoxcar PROVE RawKept /\ RawIn(Admitted)'
  <2>1. PICK o \in DOMAIN raw : raw' = Append(raw, raw[o])
    BY <1>5 DEF RepeatBoxcar
  <2>2. raw \in Seq(Seq(RawMessages) \ {<<>>})
    BY DEF TypeOK, ConsumerTypeOK
  <2>3. \A p \in DOMAIN raw : raw[p] \in Seq(RawMessages)
    BY <2>2
  <2>4. /\ Len(raw') = Len(raw) + 1 /\ Len(raw) \in Nat
        /\ \A p \in DOMAIN raw' : (p \in DOMAIN raw /\ raw'[p] = raw[p]) \/ raw'[p] = raw[o]
        /\ \A p \in DOMAIN raw : p \in DOMAIN raw' /\ raw'[p] = raw[p]
    BY <2>1, <2>2
  <2>5. \A p \in DOMAIN raw : Len(raw[p]) \in Nat
    BY <2>3
  <2>6. RawKept
    BY <2>4, <2>5 DEF RawKept
  <2>7. RawIn(Admitted)'
    BY <2>4 DEF RawIn
  <2> QED
    BY <2>6, <2>7
<1>6. ASSUME ServiceSummary PROVE RawKept /\ RawIn(Admitted)'
  <2>1. PICK i \in Sequenced :
            Enqueue(ServerMessage("Control",
                        [durableSequenceNumber |-> deltas[i].seq,
                         clearCache |-> ClearCacheAfterServiceSummary]))
    BY <1>6 DEF ServiceSummary
  <2> DEFINE data == [durableSequenceNumber |-> deltas[i].seq,
                      clearCache |-> ClearCacheAfterServiceSummary]
             m == ServerMessage("Control", data)
  <2>2. data \in ControlData
    <3>1. deltas[i].seq \in Nat
      BY SequencedType DEF TypeOK
    <3> QED
      BY <3>1, DeliConstants DEF ControlData
  <2>3. Repeats => ~data.clearCache
    BY DEF Repeats
  <2> HIDE DEF data
  <2>4. m.type = "Control" /\ m.data = data /\ m.clientId = None
    BY DEF ServerMessage
  <2>5. Admissible(m)
    BY <2>3, <2>4 DEF Admissible
  <2>6. m \in RawMessages
    BY <2>2 DEF ServerMessage, RawMessages, Types
  <2>7. Enqueue(m)
    BY <2>1 DEF m, data
  <2> HIDE DEF m
  <2> QED
    BY <1>1, <2>5, <2>6, <2>7
<1> QED
  BY <1>2, <1>3, <1>4, <1>5, <1>6 DEF Environment

(* A restart starts at the record, if there is one. *)
LEMMA RestartsAtRecord ==
    ASSUME TypeOK, CommitFollowsRecord, db # Cleared, Restart
    PROVE  /\ committed <= LastCheckpoint.logOffset
           /\ LastCheckpoint = IF db = None THEN DefaultCheckpoint ELSE db
           /\ position' = committed + 1 /\ logOffset' = LastCheckpoint.logOffset
           /\ committed \in Nat /\ LastCheckpoint.logOffset \in Nat
<1>1. LastCheckpoint = IF db = None THEN DefaultCheckpoint ELSE db
  BY DEF LastCheckpoint
<1>2. DefaultCheckpoint.logOffset = 0
  BY DEF DefaultCheckpoint
<1>3. committed <= LastCheckpoint.logOffset
  BY <1>1, <1>2 DEF CommitFollowsRecord
<1>4. LastCheckpoint \in Checkpoints
  BY LastCheckpointType DEF TypeOK, CheckpointTypeOK
<1>5. committed \in Nat /\ LastCheckpoint.logOffset \in Nat
  BY <1>4 DEF TypeOK, CheckpointTypeOK, Checkpoints
<1> QED
  BY <1>1, <1>3, <1>5 DEF Restart

(* Where the handler and the consumer are in the raw topic. *)
Placed ==
    /\ frozen <= Len(raw) /\ position <= logOffset + 1
    /\ cursor # 0 => logOffset <= frozen

LEMMA PlacedStep ==
    ASSUME TypeOK, TypeOK', Placed, CommitFollowsRecord, Restart => db # Cleared,
           Len(raw) <= Len(raw'), [Next]_vars
    PROVE  Placed'
<1> USE DEF logs, window, lambda, consumer, inFlight, checkpointing, environment
<1>0. /\ frozen \in Nat /\ Len(raw) \in Nat /\ Len(raw') \in Nat
      /\ position \in Nat /\ logOffset \in Nat
  BY DEF TypeOK, ConsumerTypeOK, EnvironmentTypeOK
<1>1. CASE Deliver
  <2>1. /\ position <= Len(raw) /\ raw' = raw /\ position' = position + 1
        /\ frozen' = IF position > frozen THEN position ELSE frozen
        /\ \/ position <= logOffset /\ logOffset' = logOffset /\ cursor' = cursor
           \/ logOffset' = position /\ cursor' = 1
    BY <1>1 DEF Deliver
  <2> QED
    BY <1>0, <2>1 DEF Placed
<1>2. CASE Restart
  <2>1. /\ committed <= LastCheckpoint.logOffset
        /\ position' = committed + 1 /\ logOffset' = LastCheckpoint.logOffset
        /\ committed \in Nat /\ LastCheckpoint.logOffset \in Nat
    BY <1>2, RestartsAtRecord
  <2>2. raw' = raw /\ frozen' = frozen /\ cursor' = 0
    BY <1>2 DEF Restart
  <2> QED
    BY <1>0, <2>1, <2>2 DEF Placed
<1>3. CASE ~Deliver /\ ~Restart
  <2>1. position' = position /\ logOffset' = logOffset /\ frozen' = frozen
    <3>1. CASE Environment
      <4>1. UnchangedByEnvironment
        BY <3>1 DEF Environment, Connect, Submit, Disconnect, LoseMessage, RepeatBoxcar,
                    ServiceSummary
      <4> QED
        BY <4>1 DEF UnchangedByEnvironment
    <3>2. CASE ~Environment
      BY <1>3, <3>2 DEF Next, vars, Process, Ticket, UnchangedByTicket, IdleTimerFires,
         NoopTimerFires, ForwardProduced, ReverseProduced, CheckpointReady, Update, Updated
    <3> QED
      BY <3>1, <3>2
  <2>2. cursor' # 0 => cursor # 0
    <3>1. CASE Environment
      <4>1. UnchangedByEnvironment
        BY <3>1 DEF Environment, Connect, Submit, Disconnect, LoseMessage, RepeatBoxcar,
                    ServiceSummary
      <4> QED
        BY <4>1 DEF UnchangedByEnvironment
    <3>2. CASE ~Environment
      BY <1>3, <3>2 DEF Next, vars, Process, Ticket, IdleTimerFires,
         NoopTimerFires, ForwardProduced, ReverseProduced, CheckpointReady, Update, Updated
    <3> QED
      BY <3>1, <3>2
  <2> QED
    BY <1>0, <2>1, <2>2 DEF Placed
<1> QED
  BY <1>1, <1>2, <1>3

ReverseAdmissible == \A i \in DOMAIN reverse : Admissible(reverse[i])

(* Nothing in the raw topic changes. *)
LEMMA RawUnchanged ==
    ASSUME TypeOK, raw' = raw, RawIn(Admitted)
    PROVE  RawKept /\ RawIn(Admitted)'
<1>1. \A o \in DOMAIN raw : raw[o] \in Seq(RawMessages)
  BY DEF TypeOK, ConsumerTypeOK
<1>2. Len(raw) \in Nat /\ \A o \in DOMAIN raw : Len(raw[o]) \in Nat
  BY <1>1 DEF TypeOK, ConsumerTypeOK
<1> QED
  BY <1>2 DEF RawKept, RawIn

LEMMA ReverseRaw ==
    ASSUME TypeOK, MaxBoxcar # 0, RawIn(Admitted), ReverseAdmissible, ReverseProduced
    PROVE  RawKept /\ RawIn(Admitted)' /\ ReverseAdmissible'
<1>1. Enqueue(Head(reverse)) /\ reverse' = Tail(reverse) /\ reverse # <<>>
  BY DEF ReverseProduced
<1>2. reverse \in Seq(RawMessages)
  BY DEF TypeOK, SendsTypeOK
<1>3. /\ Head(reverse) = reverse[1] /\ 1 \in DOMAIN reverse
      /\ \A k \in DOMAIN Tail(reverse) : k + 1 \in DOMAIN reverse /\ Tail(reverse)[k] = reverse[k + 1]
  BY <1>1, <1>2, TailOfSeq
<1>4. Head(reverse) \in Admitted
  <2>1. reverse[1] \in RawMessages
    BY <1>2, <1>3, ElementType
  <2> QED
    BY <1>3, <2>1 DEF ReverseAdmissible, Admitted
<1>5. ReverseAdmissible'
  BY <1>1, <1>3 DEF ReverseAdmissible
<1> QED
  BY <1>1, <1>4, <1>5, EnqueueKept

LEMMA TicketRaw ==
    ASSUME TypeOK, RawIn(Admitted), ReverseAdmissible, Ticket
    PROVE  RawKept /\ RawIn(Admitted)' /\ ReverseAdmissible'
<1>1. raw' = raw
  BY DEF Ticket, UnchangedByTicket, logs
<1>2. ReverseAdmissible'
  <2>1. /\ Message \in RawMessages
        /\ reverse' = reverse \/ SendToAlfred(Message)
    BY TicketReverse
  <2>2. reverse \in Seq(RawMessages)
    BY DEF TypeOK, SendsTypeOK
  <2>3. CASE reverse' = reverse
    BY <2>3 DEF ReverseAdmissible
  <2>4. CASE SendToAlfred(Message)
    <3>1. \A i \in DOMAIN reverse' :
               \/ i \in DOMAIN reverse /\ reverse'[i] = reverse[i]
               \/ \E type \in {"ClientLeave", "NoClient"} : \E data :
                      reverse'[i] = ServerMessage(type, data)
      BY <2>1, <2>2, <2>4, AlfredAdds
    <3>2. \A type \in {"ClientLeave", "NoClient"} : \A data : Admissible(ServerMessage(type, data))
      BY ServerAdmissible
    <3> QED
      BY <3>1, <3>2 DEF ReverseAdmissible
  <2> QED
    BY <2>1, <2>3, <2>4
<1> QED
  BY <1>1, <1>2, RawUnchanged

LEMMA TimerRaw ==
    ASSUME TypeOK, RawIn(Admitted), ReverseAdmissible, Repeats => ~noopTimer,
           IdleTimerFires \/ NoopTimerFires
    PROVE  RawKept /\ RawIn(Admitted)' /\ ReverseAdmissible'
<1>1. raw' = raw
  BY DEF IdleTimerFires, NoopTimerFires, logs
<1>2. ~Repeats
  <2>1. MaxIdle = 0 => ~IdleTimerFires
    BY DEF IdleTimerFires, TypeOK, ConsumerTypeOK
  <2>2. NoopTimerFires => noopTimer
    BY DEF NoopTimerFires
  <2> QED
    BY <2>1, <2>2 DEF Repeats
<1>3. Admissible(ServerMessage("NoOp", None))
  BY <1>2 DEF Admissible, ServerMessage
<1>4. reverse' = reverse \/ reverse' = Append(reverse, ServerMessage("NoOp", None))
  BY DEF IdleTimerFires, NoopTimerFires
<1>5. reverse \in Seq(RawMessages)
  BY DEF TypeOK, SendsTypeOK
<1>6. \A i \in DOMAIN reverse' :
          \/ i \in DOMAIN reverse /\ reverse'[i] = reverse[i]
          \/ reverse'[i] = ServerMessage("NoOp", None)
  BY <1>4, <1>5
<1>7. ReverseAdmissible'
  BY <1>3, <1>6 DEF ReverseAdmissible
<1> QED
  BY <1>1, <1>7, RawUnchanged

LEMMA RawStep ==
    ASSUME TypeOK, MaxBoxcar # 0, RawIn(Admitted), ReverseAdmissible, Repeats => ~noopTimer,
           [Next]_vars
    PROVE  RawKept /\ RawIn(Admitted)' /\ ReverseAdmissible'
<1> USE DEF logs, window, lambda, consumer, inFlight, checkpointing, environment
<1>1. CASE Environment
  <2>1. UnchangedByEnvironment
    BY <1>1 DEF Environment, Connect, Submit, Disconnect, LoseMessage, RepeatBoxcar,
                ServiceSummary
  <2>2. reverse' = reverse
    BY <2>1 DEF UnchangedByEnvironment
  <2> QED
    BY <1>1, <2>2, EnvironmentRaw DEF ReverseAdmissible
<1>2. CASE ReverseProduced
  BY <1>2, ReverseRaw
<1>3. CASE Ticket
  BY <1>3, TicketRaw
<1>4. CASE IdleTimerFires \/ NoopTimerFires
  BY <1>4, TimerRaw
<1>5. CASE Restart
  <2>1. raw' = raw /\ reverse' = <<>>
    BY <1>5 DEF Restart
  <2> QED
    BY <2>1, RawUnchanged DEF ReverseAdmissible
<1>6. CASE Deliver \/ ForwardProduced \/ CheckpointReady \/ Update \/ Updated \/ UNCHANGED vars
  <2>1. raw' = raw /\ reverse' = reverse
    BY <1>6 DEF Deliver, ForwardProduced, CheckpointReady, Update, Updated, vars
  <2> QED
    BY <2>1, RawUnchanged DEF ReverseAdmissible
<1> QED
  BY <1>1, <1>2, <1>3, <1>4, <1>5, <1>6 DEF Next, Process

LEMMA JoinedStep ==
    ASSUME TypeOK, JoinedOnce, "ClientJoin" \notin Repeatable, [Next]_vars
    PROVE  JoinedOnce'
<1> USE DEF logs, window, lambda, consumer, inFlight, checkpointing, environment
<1>0. reverse \in Seq(RawMessages) /\ \A i \in DOMAIN reverse : reverse[i].type # "ClientJoin"
  BY DEF TypeOK, SendsTypeOK, JoinedOnce
<1>1. ASSUME raw' = raw, connection' = connection,
             \A i \in DOMAIN reverse' : reverse'[i].type # "ClientJoin"
      PROVE  JoinedOnce'
  BY <1>1, NoJoinWritten
<1>2. CASE Environment
  BY <1>2, EnvironmentJoins
<1>3. CASE Ticket
  BY <1>3, TicketJoins
<1>4. CASE ReverseProduced
  <2>1. /\ connection' = connection /\ Enqueue(Head(reverse))
        /\ reverse' = Tail(reverse) /\ reverse # <<>>
    BY <1>4 DEF ReverseProduced
  <2>2. /\ Head(reverse) = reverse[1] /\ 1 \in DOMAIN reverse
        /\ \A k \in DOMAIN Tail(reverse) : k + 1 \in DOMAIN reverse /\ Tail(reverse)[k] = reverse[k + 1]
    BY <1>0, <2>1, TailOfSeq
  <2>3. Head(reverse).type # "ClientJoin"
    BY <1>0, <2>2
  <2>4. \A i \in DOMAIN reverse' : reverse'[i].type # "ClientJoin"
    BY <1>0, <2>1, <2>2
  <2> QED
    BY <2>1, <2>3, <2>4, EnqueueNoJoin
<1>5. CASE IdleTimerFires \/ NoopTimerFires
  <2>1. /\ raw' = raw /\ connection' = connection
        /\ reverse' = reverse \/ reverse' = Append(reverse, ServerMessage("NoOp", None))
    BY <1>5 DEF IdleTimerFires, NoopTimerFires
  <2>2. ServerMessage("NoOp", None).type = "NoOp"
    BY DEF ServerMessage
  <2>3. \A i \in DOMAIN reverse' :
            \/ i \in DOMAIN reverse /\ reverse'[i] = reverse[i]
            \/ reverse'[i] = ServerMessage("NoOp", None)
    BY <1>0, <2>1
  <2>4. \A i \in DOMAIN reverse' : reverse'[i].type # "ClientJoin"
    BY <1>0, <2>2, <2>3
  <2> QED
    BY <1>1, <2>1, <2>4
<1>6. CASE Restart
  <2>1. raw' = raw /\ connection' = connection /\ reverse' = <<>>
    BY <1>6 DEF Restart
  <2> QED
    BY <1>1, <2>1
<1>7. CASE Deliver \/ ForwardProduced \/ CheckpointReady \/ Update \/ Updated \/ UNCHANGED vars
  <2>1. raw' = raw /\ connection' = connection /\ reverse' = reverse
    BY <1>7 DEF Deliver, ForwardProduced, CheckpointReady, Update, Updated, vars
  <2> QED
    BY <1>0, <1>1, <2>1
<1> QED
  BY <1>2, <1>3, <1>4, <1>5, <1>6, <1>7 DEF Next, Process

LEMMA RawTopicParts ==
    ASSUME TypeOK
    PROVE  RawTopic <=> /\ RawIn(Admitted) /\ ReverseAdmissible /\ Placed
                        /\ "ClientJoin" \notin Repeatable => JoinedOnce
<1>1. \A o \in DOMAIN raw : raw[o] \in Seq(RawMessages)
  BY DEF TypeOK, ConsumerTypeOK
<1>2. \A o \in DOMAIN raw : \A i \in DOMAIN raw[o] : raw[o][i] \in RawMessages
  BY <1>1, ElementType
<1> QED
  BY <1>2 DEF RawTopic, RawIn, Admitted, ReverseAdmissible, Placed

(* Restarts only go back where messages repeat. *)
Restarting == MaxRestarts = 0 \/ Repeats

LEMMA RawTopicStep ==
    ASSUME TypeOK, TypeOK', MaxBoxcar # 0, Restarting, RawTopic, Repeating, CommitFollowsRecord,
           [Next]_vars
    PROVE  RawKept /\ RawTopic'
<1>1. /\ RawIn(Admitted) /\ ReverseAdmissible /\ Placed
      /\ "ClientJoin" \notin Repeatable => JoinedOnce
  BY RawTopicParts
<1>2. Repeats => ~noopTimer
  BY DEF Repeating
<1>3. Restart => db # Cleared
  <2>1. Restart => MaxRestarts # 0
    BY DEF Restart, TypeOK, EnvironmentTypeOK
  <2> QED
    BY <2>1 DEF Restarting, Repeating
<1>4. RawKept /\ RawIn(Admitted)' /\ ReverseAdmissible'
  BY <1>1, <1>2, RawStep
<1>5. Len(raw) <= Len(raw')
  BY <1>4 DEF RawKept
<1>6. Placed'
  BY <1>1, <1>3, <1>5, PlacedStep
<1>7. "ClientJoin" \notin Repeatable => JoinedOnce'
  BY <1>1, JoinedStep
<1>8. (TypeOK => (RawTopic <=> /\ RawIn(Admitted) /\ ReverseAdmissible /\ Placed
                        /\ ("ClientJoin" \notin Repeatable => JoinedOnce)))'
  BY RawTopicParts, PTL
<1> QED
  BY <1>4, <1>6, <1>7, <1>8

LEMMA RestartsOnly ==
    ASSUME [Next]_vars, ~Restart
    PROVE  restarts' = restarts
<1> USE DEF logs, window, lambda, consumer, inFlight, checkpointing, environment
<1>1. CASE Environment
  BY <1>1 DEF Environment, Connect, Submit, Disconnect, LoseMessage, RepeatBoxcar,
              ServiceSummary, UnchangedByEnvironment
<1>2. CASE ~Environment
  BY <1>2 DEF Next, vars, Process, Deliver, Ticket, UnchangedByTicket, IdleTimerFires,
         NoopTimerFires, ForwardProduced, ReverseProduced, CheckpointReady, Update, Updated
<1> QED
  BY <1>1, <1>2

LEMMA MessageAdmissible ==
    ASSUME TypeOK, RawTopic, Ticket
    PROVE  /\ Message \in RawMessages /\ Admissible(Message)
           /\ logOffset \in DOMAIN raw /\ cursor \in DOMAIN raw[logOffset] /\ cursor # 0
<1>1. logOffset \in DOMAIN raw /\ cursor \in DOMAIN raw[logOffset] /\ cursor # 0
  BY DEF Ticket, TypeOK, ConsumerTypeOK
<1> QED
  BY <1>1, TicketReverse DEF RawTopic, Message

LEMMA RepeatingStep ==
    ASSUME TypeOK, Restarting, RawTopic, Repeating, [Next]_vars
    PROVE  Repeating'
<1> USE DEF logs, window, lambda, consumer, inFlight, checkpointing, environment
<1>1. CASE ~Repeats
  <2>1. ~Restart
    BY <1>1 DEF Restarting, Restart, TypeOK, EnvironmentTypeOK
  <2>2. restarts' = restarts
    BY <2>1, RestartsOnly
  <2> QED
    BY <1>1, <2>2 DEF Repeating
<1>2. CASE Repeats
  <2> DEFINE Window == minimumSequenceNumber = MinimumOf(clients, sequenceNumber)
                       /\ ~noopTimer /\ lastInstruction = "NoOp"
             Record == /\ db # Cleared
                       /\ updating # None => ~updating.clear
                       /\ queued # None => ~queued.clear
  <2>0. Window /\ Record
    BY <1>2 DEF Repeating
  <2>s. SUFFICES Window' /\ Record'
    BY <1>2 DEF Repeating
  <2>1. UNCHANGED lambda => Window'
    BY <2>0
  <2>2. UNCHANGED <<db, updating, queued>> => Record'
    BY <2>0
  <2>3. CASE Ticket
    <3>1. Admissible(Message)
      BY <2>3, MessageAdmissible
    <3>2. Window'
      BY <1>2, <2>0, <2>3, <3>1, TicketFollows
    <3>3. UNCHANGED <<db, updating, queued>>
      BY <2>3 DEF Ticket, UnchangedByTicket
    <3> QED
      BY <2>2, <3>2, <3>3
  <2>4. CASE Restart
    <3>1. /\ sequenceNumber' = LastCheckpoint.sequenceNumber
          /\ clients' = LastCheckpoint.clients
          /\ minimumSequenceNumber' = MinimumOf(LastCheckpoint.clients, LastCheckpoint.sequenceNumber)
          /\ noopTimer' = FALSE /\ lastInstruction' = "NoOp"
          /\ db' = db /\ updating' = None /\ queued' = None
      BY <2>4 DEF Restart
    <3> QED
      BY <2>0, <3>1
  <2>5. CASE CheckpointReady
    <3>1. UNCHANGED lambda
      BY <2>5 DEF CheckpointReady
    <3> DEFINE checkpoint == [deli |-> CheckpointOf(Head(waiting)),
                              clear  |-> lastInstruction = "ClearCache",
                              stored |-> FALSE]
    <3>2. /\ updating' \in {updating, checkpoint} /\ queued' \in {queued, checkpoint}
          /\ db' = db
      BY <2>5 DEF CheckpointReady
    <3>3. checkpoint.clear = (lastInstruction = "ClearCache")
      OBVIOUS
    <3>4. ~checkpoint.clear
      BY <2>0, <3>3
    <3> HIDE DEF checkpoint
    <3> QED
      BY <2>0, <2>1, <3>1, <3>2, <3>4
  <2>6. CASE Update
    <3>1. UNCHANGED lambda /\ queued' = queued /\ updating # None
      BY <2>6 DEF Update
    <3>2. updating \in CheckpointParams
      BY <3>1 DEF TypeOK, CheckpointTypeOK
    <3>3. db' = updating.deli /\ updating' = [updating EXCEPT !.stored = TRUE]
      BY <2>0, <2>6, <3>1 DEF Update
    <3>4. updating.deli \in Checkpoints /\ updating'.clear = updating.clear
      BY <3>2, <3>3 DEF CheckpointParams
    <3>5. db' # Cleared
      BY <3>3, <3>4, DeliConstants
    <3> QED
      BY <2>0, <2>1, <3>1, <3>4, <3>5
  <2>7. CASE Updated
    <3>1. UNCHANGED lambda /\ updating' = queued /\ queued' = None /\ db' = db
      BY <2>7 DEF Updated
    <3> QED
      BY <2>0, <2>1, <3>1
  <2>8. CASE IdleTimerFires \/ NoopTimerFires
    <3>1. UNCHANGED <<db, updating, queued>> /\ NoopTimerFires => noopTimer
      BY <2>8 DEF IdleTimerFires, NoopTimerFires
    <3>2. IdleTimerFires /\ UNCHANGED lambda
      BY <2>0, <2>8, <3>1 DEF IdleTimerFires, NoopTimerFires
    <3>3. UNCHANGED <<db, updating, queued>>
      BY <3>2 DEF IdleTimerFires
    <3> QED
      BY <2>1, <2>2, <3>2, <3>3
  <2>9. CASE Deliver \/ ForwardProduced \/ ReverseProduced \/ UNCHANGED vars
    <3>1. UNCHANGED lambda /\ UNCHANGED <<db, updating, queued>>
      BY <2>9 DEF Deliver, ForwardProduced, ReverseProduced, vars
    <3> QED
      BY <2>1, <2>2, <3>1
  <2>10. CASE Environment
    <3>1. UnchangedByEnvironment
      BY <2>10 DEF Environment, Connect, Submit, Disconnect, LoseMessage, RepeatBoxcar,
                   ServiceSummary
    <3>2. UNCHANGED lambda /\ UNCHANGED <<db, updating, queued>>
      BY <3>1 DEF UnchangedByEnvironment
    <3> QED
      BY <2>1, <2>2, <3>2
  <2> QED
    BY <2>3, <2>4, <2>5, <2>6, <2>7, <2>8, <2>9, <2>10 DEF Next, Process
<1> QED
  BY <1>1, <1>2

-----------------------------------------------------------------------------
(* The history: what does not ticket leaves it as it is.                   *)

(* The places of the history, and the messages before them. *)
LEMMA HistoryPlaces ==
    ASSUME TypeOK, Placed, NEW S, NEW C, NEW n, NEW k, HistoryShape(S, C, n, k)
    PROVE  /\ n \in Nat /\ k \in Nat /\ n >= 1 /\ k >= 1 /\ n <= frozen + 1 /\ frozen <= Len(raw)
           /\ \A o \in 1 .. n - 1 : o \in DOMAIN raw /\ o <= frozen
           /\ \A o : \A i \in Nat \ {0} : Reached(o, i + 1, n, k) =>
                  /\ o \in DOMAIN raw /\ o <= frozen
                  /\ i \in DOMAIN raw[o]
                  /\ Reached(o, i, n, k)
<1>1. /\ Len(raw) \in Nat /\ DOMAIN raw = 1 .. Len(raw) /\ frozen \in Nat /\ frozen <= Len(raw)
  BY DEF TypeOK, ConsumerTypeOK, EnvironmentTypeOK, Placed
<1>2. \A o \in DOMAIN raw : Len(raw[o]) \in Nat /\ DOMAIN raw[o] = 1 .. Len(raw[o])
  <2>1. \A o \in DOMAIN raw : raw[o] \in Seq(RawMessages)
    BY DEF TypeOK, ConsumerTypeOK
  <2> QED
    BY <2>1
<1>3. /\ n \in Nat /\ k \in Nat /\ n >= 1 /\ k >= 1 /\ n <= frozen + 1
      /\ frozen < n => k = 1
      /\ n <= Len(raw) => k <= Len(raw[n])
  BY <1>1 DEF HistoryShape
<1>4. \A o \in 1 .. n - 1 : o \in DOMAIN raw /\ o <= frozen
  BY <1>1, <1>3
<1>5. ASSUME NEW o, NEW i \in Nat \ {0}, Reached(o, i + 1, n, k)
      PROVE  /\ o \in DOMAIN raw /\ o <= frozen /\ i \in DOMAIN raw[o] /\ Reached(o, i, n, k)
  <2>1. o \in Nat /\ o >= 1 /\ ((o < n /\ i <= Len(raw[o])) \/ (o = n /\ i + 1 <= k))
    <3>1. /\ o \in Nat /\ o >= 1
          /\ (o < n /\ i + 1 <= Len(raw[o]) + 1) \/ (o = n /\ i + 1 <= k)
      BY <1>5 DEF Reached
    <3>2. CASE o < n
      <4>1. Len(raw[o]) \in Nat
        BY <1>2, <1>3, <1>4, <3>1, <3>2
      <4> QED
        BY <1>3, <3>1, <3>2, <4>1
    <3> QED
      BY <1>3, <3>1, <3>2
  <2>2. CASE o < n
    <3>1. o \in DOMAIN raw /\ o <= frozen
      BY <1>3, <1>4, <2>1, <2>2
    <3>2. i <= Len(raw[o]) /\ Len(raw[o]) \in Nat
      BY <1>2, <1>3, <2>1, <2>2, <3>1
    <3> QED
      BY <1>2, <2>1, <2>2, <3>1, <3>2 DEF Reached
  <2>3. CASE o = n
    <3>1. i + 1 <= k
      BY <1>3, <2>1, <2>3
    <3>2. n <= frozen
      BY <1>1, <1>3, <3>1
    <3>3. o \in DOMAIN raw /\ o <= frozen /\ k <= Len(raw[o])
      BY <1>1, <1>3, <2>1, <2>3, <3>2
    <3>4. i \in DOMAIN raw[o]
      BY <1>2, <1>3, <3>1, <3>3
    <3> QED
      BY <1>3, <2>1, <2>3, <3>1, <3>3, <3>4 DEF Reached
  <2> QED
    BY <2>1, <2>2, <2>3
<1> QED
  BY <1>1, <1>3, <1>4, <1>5

LEMMA ReachedStays ==
    ASSUME TypeOK, TypeOK', Placed, RawKept, NEW S, NEW C, NEW n, NEW k, HistoryShape(S, C, n, k)
    PROVE  /\ \A o, i : Reached(o, i, n, k)' <=> Reached(o, i, n, k)
           /\ \A o \in DOMAIN raw : o <= frozen => o \in DOMAIN raw' /\ raw'[o] = raw[o]
<1>1. \A o \in DOMAIN raw : o <= frozen => raw'[o] = raw[o]
  BY DEF RawKept
<1>2. \A o \in 1 .. n - 1 : raw'[o] = raw[o]
  BY <1>1, HistoryPlaces
<1>3. n \in Nat
  BY HistoryPlaces
<1>4. ASSUME NEW o, NEW i PROVE Reached(o, i, n, k)' <=> Reached(o, i, n, k)
  <2>1. o \in Nat \ {0} /\ o < n => raw'[o] = raw[o]
    BY <1>2, <1>3
  <2> QED
    BY <2>1 DEF Reached
<1>5. \A o \in DOMAIN raw : o <= frozen => o \in DOMAIN raw'
  BY DEF RawKept, TypeOK, ConsumerTypeOK
<1> QED
  BY <1>1, <1>4, <1>5

(* What the numbers and the client tables of a history are between. *)
HistoryFrame(S, C, n, k) ==
    HistoryShape(S, C, n, k) /\ HistorySteps(S, C, n, k) /\ HistoryMembers(S, C, n, k)

LEMMA Longer ==
    ASSUME NEW a \in Nat, NEW b \in Nat, a <= b
    PROVE  \A i \in Nat : i >= 1 /\ i <= a + 1 => i \in 1 .. b + 1
  OBVIOUS

LEMMA ShapeStays ==
    ASSUME TypeOK, TypeOK', Placed, Placed', RawKept, frozen <= frozen',
           NEW S, NEW C, NEW n, NEW k, HistoryShape(S, C, n, k)
    PROVE  HistoryShape(S, C, n, k)'
<1>1. /\ Len(raw) \in Nat /\ Len(raw') \in Nat /\ frozen \in Nat /\ frozen' \in Nat
      /\ Len(raw) <= Len(raw') /\ frozen <= Len(raw)
  BY DEF TypeOK, ConsumerTypeOK, EnvironmentTypeOK, Placed, RawKept
<1>2. /\ n \in Nat /\ k \in Nat /\ n >= 1 /\ k >= 1 /\ n <= frozen + 1
      /\ frozen < n => k = 1
      /\ n <= Len(raw) => k <= Len(raw[n])
  BY HistoryPlaces DEF HistoryShape
<1>3. n \in 1 .. frozen' + 1 /\ (frozen' < n => k = 1)
  <2>1. n \in 1 .. frozen' + 1
    BY <1>1, <1>2, Longer
  <2>2. frozen' < n => frozen < n
    BY <1>1, <1>2
  <2> QED
    BY <1>2, <2>1, <2>2
<1>4. ASSUME n <= Len(raw') PROVE k <= Len(raw'[n])
  <2>1. n \in DOMAIN raw'
    BY <1>1, <1>2, <1>4 DEF TypeOK, ConsumerTypeOK
  <2>2. raw'[n] \in Seq(RawMessages) \ {<<>>}
    BY <2>1, ElementType DEF TypeOK, ConsumerTypeOK
  <2>3. Len(raw'[n]) \in Nat /\ Len(raw'[n]) >= 1
    BY <2>2
  <2>4. CASE n <= Len(raw)
    <3>1. n \in DOMAIN raw
      BY <1>1, <1>2, <2>4 DEF TypeOK, ConsumerTypeOK
    <3>2. Len(raw[n]) <= Len(raw'[n])
      BY <3>1 DEF RawKept
    <3>3. raw[n] \in Seq(RawMessages)
      BY <3>1, ElementType DEF TypeOK, ConsumerTypeOK
    <3>4. Len(raw[n]) \in Nat
      BY <3>3
    <3> QED
      BY <1>2, <2>3, <2>4, <3>2, <3>4
  <2>5. CASE ~(n <= Len(raw))
    BY <1>1, <1>2, <2>3, <2>5
  <2> QED
    BY <2>4, <2>5
<1> QED
  BY <1>2, <1>3, <1>4 DEF HistoryShape

LEMMA StepsStay ==
    ASSUME TypeOK, TypeOK', Placed, RawKept,
           NEW S, NEW C, NEW n, NEW k, HistoryShape(S, C, n, k), HistorySteps(S, C, n, k)
    PROVE  HistorySteps(S, C, n, k)'
<1>1. /\ \A o, i : Reached(o, i, n, k)' <=> Reached(o, i, n, k)
      /\ \A o \in DOMAIN raw : o <= frozen => raw'[o] = raw[o]
  BY ReachedStays
<1>2. /\ \A o \in 1 .. n - 1 : raw'[o] = raw[o]
      /\ \A o : \A i \in Nat \ {0} : Reached(o, i + 1, n, k) => raw'[o] = raw[o]
  BY <1>1, HistoryPlaces
<1>3. \A o \in 1 .. n - 1 :
          S[o + 1][1] = S[o][Len(raw'[o]) + 1] /\ C[o + 1][1] = C[o][Len(raw'[o]) + 1]
  BY <1>2 DEF HistorySteps
<1>4. \A o \in Nat, i \in Nat \ {0} : Reached(o, i + 1, n, k)' => Follows(S, C, o, i)'
  <2>1. \A o \in Nat, i \in Nat \ {0} : Reached(o, i + 1, n, k) => Follows(S, C, o, i)
    BY DEF HistorySteps
  <2>2. \A o, i : raw'[o] = raw[o] => (Follows(S, C, o, i)' <=> Follows(S, C, o, i))
    BY DEF Follows
  <2> QED
    BY <1>1, <1>2, <2>1, <2>2
<1>5. \A o, i, p, j \in Nat :
          /\ Reached(o, i, n, k)' /\ Reached(p, j, n, k)'
          /\ o < p \/ (o = p /\ i <= j)
          => S[o][i] <= S[p][j]
  <2>1. \A o, i, p, j \in Nat :
          /\ Reached(o, i, n, k) /\ Reached(p, j, n, k)
          /\ o < p \/ (o = p /\ i <= j)
          => S[o][i] <= S[p][j]
    BY DEF HistorySteps
  <2> QED
    BY <1>1, <2>1
<1> QED
  BY <1>3, <1>4, <1>5 DEF HistorySteps

LEMMA HappenedStays ==
    ASSUME TypeOK, TypeOK', Placed, RawKept,
           NEW S, NEW C, NEW n, NEW k, HistoryShape(S, C, n, k), NEW type, NEW c, NEW x
    PROVE  Happened(type, c, x, S, n, k)' <=> Happened(type, c, x, S, n, k)
<1>1. /\ \A o, i : Reached(o, i, n, k)' <=> Reached(o, i, n, k)
      /\ \A o \in DOMAIN raw : o <= frozen => o \in DOMAIN raw' /\ raw'[o] = raw[o]
  BY ReachedStays
<1>2. \A o : \A i \in Nat \ {0} : Reached(o, i + 1, n, k) =>
          o \in DOMAIN raw /\ i \in DOMAIN raw[o] /\ o <= frozen
  BY HistoryPlaces
<1>3. /\ \A o \in DOMAIN raw : \A i \in DOMAIN raw[o] : i \in Nat \ {0}
      /\ \A o \in DOMAIN raw' : \A i \in DOMAIN raw'[o] : i \in Nat \ {0}
  <2>1. /\ \A o \in DOMAIN raw : raw[o] \in Seq(RawMessages)
        /\ \A o \in DOMAIN raw' : raw'[o] \in Seq(RawMessages)
    BY DEF TypeOK, ConsumerTypeOK
  <2> QED
    BY <2>1
<1>4. ASSUME Happened(type, c, x, S, n, k) PROVE Happened(type, c, x, S, n, k)'
  <2>1. PICK o \in DOMAIN raw : \E i \in DOMAIN raw[o] :
            /\ Reached(o, i + 1, n, k) /\ S[o][i + 1] = S[o][i] + 1 /\ S[o][i + 1] <= x
            /\ raw[o][i].type = type /\ raw[o][i].data = c
    BY <1>4 DEF Happened
  <2>2. PICK i \in DOMAIN raw[o] :
            /\ Reached(o, i + 1, n, k) /\ S[o][i + 1] = S[o][i] + 1 /\ S[o][i + 1] <= x
            /\ raw[o][i].type = type /\ raw[o][i].data = c
    BY <2>1
  <2>3. o \in DOMAIN raw' /\ raw'[o] = raw[o]
    BY <1>1, <1>2, <1>3, <2>2
  <2> QED
    BY <1>1, <2>2, <2>3 DEF Happened
<1>5. ASSUME Happened(type, c, x, S, n, k)' PROVE Happened(type, c, x, S, n, k)
  <2>1. PICK o \in DOMAIN raw' : \E i \in DOMAIN raw'[o] :
            /\ Reached(o, i + 1, n, k)' /\ S[o][i + 1] = S[o][i] + 1 /\ S[o][i + 1] <= x
            /\ raw'[o][i].type = type /\ raw'[o][i].data = c
    BY <1>5 DEF Happened
  <2>2. PICK i \in DOMAIN raw'[o] :
            /\ Reached(o, i + 1, n, k)' /\ S[o][i + 1] = S[o][i] + 1 /\ S[o][i + 1] <= x
            /\ raw'[o][i].type = type /\ raw'[o][i].data = c
    BY <2>1
  <2>3. Reached(o, i + 1, n, k)
    BY <1>1, <2>2
  <2>4. o \in DOMAIN raw /\ raw'[o] = raw[o]
    BY <1>1, <1>2, <1>3, <2>2, <2>3
  <2> QED
    BY <2>2, <2>3, <2>4 DEF Happened
<1> QED
  BY <1>4, <1>5

LEMMA FrameStays ==
    ASSUME TypeOK, TypeOK', Placed, Placed', RawKept, frozen <= frozen',
           NEW S, NEW C, NEW n, NEW k, HistoryFrame(S, C, n, k)
    PROVE  HistoryFrame(S, C, n, k)'
<1>1. HistoryShape(S, C, n, k) /\ HistorySteps(S, C, n, k) /\ HistoryMembers(S, C, n, k)
  BY DEF HistoryFrame
<1>2. HistoryShape(S, C, n, k)' /\ HistorySteps(S, C, n, k)'
  BY <1>1, ShapeStays, StepsStay
<1>3. \A o, i : Reached(o, i, n, k)' <=> Reached(o, i, n, k)
  BY <1>1, ReachedStays
<1>4. ASSUME NEW c, NEW x, NEW cl, MembersOfHistory(c, x, cl, S, n, k)
      PROVE  MembersOfHistory(c, x, cl, S, n, k)'
  <2>1. \A type : Happened(type, c, x, S, n, k)' <=> Happened(type, c, x, S, n, k)
    BY <1>1, HappenedStays
  <2> QED
    BY <1>4, <2>1 DEF MembersOfHistory
<1>5. HistoryMembers(S, C, n, k)'
  BY <1>1, <1>3, <1>4 DEF HistoryMembers
<1> QED
  BY <1>2, <1>5 DEF HistoryFrame

(* Checkpoints on their way to the record. *)
LEMMA ReadyInProgress ==
    ASSUME TypeOK, CheckpointReady
    PROVE  \A d \in InProgress' : d \in InProgress
<1> DEFINE checkpoint == [deli |-> CheckpointOf(Head(waiting)),
                          clear  |-> lastInstruction = "ClearCache",
                          stored |-> FALSE]
<1>1. /\ waiting # <<>> /\ waiting' = Tail(waiting)
      /\ updating' \in {updating, checkpoint} /\ queued' \in {queued, checkpoint}
  BY DEF CheckpointReady
<1>2. waiting \in Seq([deli : Checkpoints, after : Nat])
  BY DEF TypeOK, CheckpointTypeOK
<1>3. /\ Head(waiting) = waiting[1] /\ 1 \in DOMAIN waiting
      /\ \A k \in DOMAIN Tail(waiting) : k + 1 \in DOMAIN waiting /\ Tail(waiting)[k] = waiting[k + 1]
  BY <1>1, <1>2, TailOfSeq
<1>4. checkpoint.deli = waiting[1].deli
  BY <1>3 DEF CheckpointOf
<1> HIDE DEF checkpoint
<1>5. \A k \in DOMAIN waiting' : waiting'[k].deli \in InProgress
  BY <1>1, <1>3 DEF InProgress
<1>6. checkpoint.deli \in InProgress
  BY <1>3, <1>4 DEF InProgress
<1>7. /\ updating # None => updating.deli \in InProgress
      /\ queued # None => queued.deli \in InProgress
  BY DEF InProgress
<1>8. /\ updating' # None => updating'.deli \in InProgress
      /\ queued' # None => queued'.deli \in InProgress
  BY <1>1, <1>6, <1>7
<1>9. \A d \in InProgress' :
          \/ \E k \in DOMAIN waiting' : d = waiting'[k].deli
          \/ updating' # None /\ d = updating'.deli
          \/ queued' # None /\ d = queued'.deli
  BY DEF InProgress
<1> QED
  BY <1>5, <1>8, <1>9

LEMMA UpdateInProgress ==
    ASSUME TypeOK, Update
    PROVE  \A d \in InProgress' : d \in InProgress
<1>1. /\ updating # None /\ updating' = [updating EXCEPT !.stored = TRUE]
      /\ waiting' = waiting /\ queued' = queued
  BY DEF Update, checkpointing
<1>2. updating \in CheckpointParams
  BY <1>1 DEF TypeOK, CheckpointTypeOK
<1>3. updating'.deli = updating.deli
  BY <1>1, <1>2 DEF CheckpointParams
<1>4. updating.deli \in InProgress
  BY <1>1 DEF InProgress
<1>5. \A d \in InProgress' :
          \/ d \in InProgress
          \/ updating' # None /\ d = updating'.deli
  BY <1>1 DEF InProgress
<1> QED
  BY <1>3, <1>4, <1>5

LEMMA HistoryOutputStays ==
    ASSUME TypeOK, TypeOK', Placed, RawKept, NEW S, NEW C, NEW n, NEW k,
           HistoryShape(S, C, n, k), HistoryOutput(S, n, k),
           \A m \in Operations' : m \in Operations
    PROVE  HistoryOutput(S, n, k)'
<1>1. /\ \A o, i : Reached(o, i, n, k)' <=> Reached(o, i, n, k)
      /\ \A o \in DOMAIN raw : o <= frozen => raw'[o] = raw[o]
  BY ReachedStays
<1>2. \A o : \A i \in Nat \ {0} : Reached(o, i + 1, n, k) => raw'[o] = raw[o]
  BY <1>1, HistoryPlaces
<1>3. ASSUME NEW m \in Operations'
      PROVE  /\ Reached(m.src[1], m.src[2] + 1, n, k)' /\ m.src[2] # 0
             /\ S[m.src[1]][m.src[2]] + 1 = m.seq /\ S[m.src[1]][m.src[2] + 1] = m.seq
             /\ raw'[m.src[1]][m.src[2]].type = m.type
  <2>1. m \in Operations
    BY <1>3
  <2>2. m \in OutputMessages
    BY <2>1, OperationType DEF TypeOK
  <2>3. m.src[2] \in Nat
    BY <2>2 DEF OutputMessages
  <2>4. /\ Reached(m.src[1], m.src[2] + 1, n, k) /\ m.src[2] # 0
        /\ S[m.src[1]][m.src[2]] + 1 = m.seq /\ S[m.src[1]][m.src[2] + 1] = m.seq
        /\ raw[m.src[1]][m.src[2]].type = m.type
    BY <2>1 DEF HistoryOutput, RawOf
  <2>5. Reached(m.src[1], m.src[2] + 1, n, k)'
    BY <1>1, <2>4
  <2>6. raw'[m.src[1]] = raw[m.src[1]]
    BY <1>2, <2>3, <2>4
  <2> QED
    BY <2>4, <2>5, <2>6
<1> QED
  BY <1>3 DEF HistoryOutput, RawOf

LEMMA HistoryCheckpointsStay ==
    ASSUME TypeOK, TypeOK', Placed, RawKept, NEW S, NEW C, NEW n, NEW k,
           HistoryShape(S, C, n, k), HistoryCheckpoints(S, C, n, k),
           \A d \in InProgress' : d \in InProgress,
           db' = db \/ db' \in InProgress \cup {None, Cleared}
    PROVE  HistoryCheckpoints(S, C, n, k)'
<1>1. \A o, i : Reached(o, i, n, k)' <=> Reached(o, i, n, k)
  BY ReachedStays
<1>2. ASSUME NEW d, CheckpointOfHistory(d, S, C, n, k) PROVE CheckpointOfHistory(d, S, C, n, k)'
  BY <1>1, <1>2 DEF CheckpointOfHistory
<1>3. \A d \in InProgress' : CheckpointOfHistory(d, S, C, n, k)'
  BY <1>2 DEF HistoryCheckpoints
<1>4. ASSUME db' \notin {None, Cleared} PROVE CheckpointOfHistory(db, S, C, n, k)'
  <2>1. PICK d : d = db'
    OBVIOUS
  <2>2. CheckpointOfHistory(d, S, C, n, k)
    BY <1>4, <2>1 DEF HistoryCheckpoints
  <2>3. CheckpointOfHistory(d, S, C, n, k)'
    BY <1>2, <2>2
  <2> QED
    BY <2>1, <2>3 DEF CheckpointOfHistory, Reached
<1> QED
  BY <1>3, <1>4 DEF HistoryCheckpoints

LEMMA HistoryStateStays ==
    ASSUME TypeOK, TypeOK', Placed, RawKept, NEW S, NEW C, NEW n, NEW k,
           HistoryShape(S, C, n, k), HistoryState(S, C, n, k),
           HandlerBoxcar' = HandlerBoxcar, HandlerMessage' = HandlerMessage,
           UNCHANGED <<sequenceNumber, clients, restarts>>
    PROVE  HistoryState(S, C, n, k)'
<1>1. \A o, i : Reached(o, i, n, k)' <=> Reached(o, i, n, k)
  BY ReachedStays
<1>2. /\ Reached(HandlerBoxcar, HandlerMessage, n, k)
      /\ sequenceNumber = S[HandlerBoxcar][HandlerMessage]
      /\ clients = C[HandlerBoxcar][HandlerMessage]
      /\ restarts = 0 => n = HandlerBoxcar /\ k = HandlerMessage
  BY DEF HistoryState
<1>3. PICK o, i : o = HandlerBoxcar /\ i = HandlerMessage
  OBVIOUS
<1>4. Reached(o, i, n, k)'
  BY <1>1, <1>2, <1>3
<1>5. Reached(HandlerBoxcar, HandlerMessage, n, k)'
  BY <1>3, <1>4 DEF Reached
<1> QED
  BY <1>2, <1>5 DEF HistoryState

LEMMA HistoryParts ==
    ASSUME NEW S, NEW C, NEW n, NEW k
    PROVE  History(S, C, n, k) <=>
               /\ HistoryFrame(S, C, n, k) /\ HistoryState(S, C, n, k)
               /\ HistoryCheckpoints(S, C, n, k) /\ HistoryOutput(S, n, k)
  BY DEF History, HistoryFrame

(* Nothing is ticketed and nothing restarts. *)
LEMMA QuietHistory ==
    ASSUME TypeOK, TypeOK', Placed, Placed', RawKept, NEW S, NEW C, NEW n, NEW k,
           History(S, C, n, k), [Next]_vars, ~Ticket, ~Restart
    PROVE  History(S, C, n, k)'
<1> USE DEF logs, window, lambda, consumer, inFlight, checkpointing, environment
<1>0. /\ HistoryFrame(S, C, n, k) /\ HistoryState(S, C, n, k)
      /\ HistoryCheckpoints(S, C, n, k) /\ HistoryOutput(S, n, k) /\ HistoryShape(S, C, n, k)
  BY HistoryParts DEF HistoryFrame
<1>1. ASSUME frozen <= frozen', \A m \in Operations' : m \in Operations,
             \A d \in InProgress' : d \in InProgress,
             db' = db \/ db' \in InProgress \cup {None, Cleared},
             HandlerBoxcar' = HandlerBoxcar, HandlerMessage' = HandlerMessage,
             UNCHANGED <<sequenceNumber, clients, restarts>>
      PROVE  History(S, C, n, k)'
  <2>1. HistoryFrame(S, C, n, k)'
    BY <1>0, <1>1, FrameStays
  <2>2. HistoryState(S, C, n, k)'
    BY <1>0, <1>1, HistoryStateStays
  <2>3. HistoryCheckpoints(S, C, n, k)' /\ HistoryOutput(S, n, k)'
    BY <1>0, <1>1, HistoryCheckpointsStay, HistoryOutputStays
  <2> QED
    BY <2>1, <2>2, <2>3 DEF History, HistoryFrame
<1>2. (deltas' = deltas /\ sending' = sending) => \A m \in Operations' : m \in Operations
  BY DEF Operations, Output
<1>3. UNCHANGED <<waiting, updating, queued>> => \A d \in InProgress' : d \in InProgress
  BY DEF InProgress
<1>4. UNCHANGED <<cursor, logOffset>> =>
          HandlerBoxcar' = HandlerBoxcar /\ HandlerMessage' = HandlerMessage
  BY DEF HandlerBoxcar, HandlerMessage
<1>5. frozen' = frozen => frozen <= frozen'
  BY DEF TypeOK, EnvironmentTypeOK
<1>6. CASE Deliver
  <2>1. /\ cursor = 0 /\ deltas' = deltas /\ sending' = sending /\ db' = db
        /\ UNCHANGED <<waiting, updating, queued, sequenceNumber, clients, restarts>>
        /\ frozen' = IF position > frozen THEN position ELSE frozen
        /\ \/ logOffset' = logOffset /\ cursor' = cursor
           \/ position > logOffset /\ logOffset' = position /\ cursor' = 1
    <3>1. /\ cursor = 0 /\ deltas' = deltas /\ sending' = sending /\ db' = db
          /\ UNCHANGED <<waiting, updating, queued, sequenceNumber, clients, restarts>>
          /\ frozen' = IF position > frozen THEN position ELSE frozen
          /\ IF position <= logOffset THEN UNCHANGED <<logOffset, cursor>>
             ELSE logOffset' = position /\ cursor' = 1
      BY <1>6 DEF Deliver
    <3> QED
      BY <3>1 DEF TypeOK, ConsumerTypeOK
  <2>2. frozen <= frozen'
    BY <2>1 DEF TypeOK, ConsumerTypeOK, EnvironmentTypeOK
  <2>3. HandlerBoxcar' = HandlerBoxcar /\ HandlerMessage' = HandlerMessage
    <3>1. CASE position > logOffset /\ logOffset' = position /\ cursor' = 1
      <4>1. position = logOffset + 1
        BY <3>1 DEF Placed, TypeOK, ConsumerTypeOK
      <4> QED
        BY <2>1, <3>1, <4>1 DEF HandlerBoxcar, HandlerMessage
    <3> QED
      BY <1>4, <2>1, <3>1
  <2> QED
    BY <1>1, <1>2, <1>3, <2>1, <2>2, <2>3
<1>7. CASE IdleTimerFires \/ NoopTimerFires \/ ReverseProduced \/ UNCHANGED vars
  <2>1. /\ deltas' = deltas /\ sending' = sending /\ db' = db /\ frozen' = frozen
        /\ UNCHANGED <<waiting, updating, queued, sequenceNumber, clients, restarts>>
        /\ UNCHANGED <<cursor, logOffset>>
    BY <1>7 DEF IdleTimerFires, NoopTimerFires, ReverseProduced, vars
  <2> QED
    BY <1>1, <1>2, <1>3, <1>4, <1>5, <2>1
<1>8. CASE Environment
  <2>1. UnchangedByEnvironment
    BY <1>8 DEF Environment, Connect, Submit, Disconnect, LoseMessage, RepeatBoxcar,
                ServiceSummary
  <2>2. /\ deltas' = deltas /\ sending' = sending /\ db' = db /\ frozen' = frozen
        /\ UNCHANGED <<waiting, updating, queued, sequenceNumber, clients, restarts>>
        /\ UNCHANGED <<cursor, logOffset>>
    BY <2>1 DEF UnchangedByEnvironment
  <2> QED
    BY <1>1, <1>2, <1>3, <1>4, <1>5, <2>2
<1>9. CASE ForwardProduced
  <2>1. /\ db' = db /\ frozen' = frozen
        /\ UNCHANGED <<waiting, updating, queued, sequenceNumber, clients, restarts>>
        /\ UNCHANGED <<cursor, logOffset>>
    BY <1>9 DEF ForwardProduced
  <2>2. Operations' = Operations
    BY <1>9, ForwardKeeps DEF TypeOK
  <2> QED
    BY <1>1, <1>3, <1>4, <1>5, <2>1, <2>2
<1>10. CASE CheckpointReady \/ Update \/ Updated
  <2>1. /\ deltas' = deltas /\ sending' = sending /\ frozen' = frozen
        /\ UNCHANGED <<sequenceNumber, clients, restarts>>
        /\ UNCHANGED <<cursor, logOffset>>
    BY <1>10 DEF CheckpointReady, Update, Updated
  <2>2. \A d \in InProgress' : d \in InProgress
    <3>1. CASE CheckpointReady
      BY <3>1, ReadyInProgress
    <3>2. CASE Update
      BY <3>2, UpdateInProgress
    <3>3. CASE Updated
      <4>1. updating' = queued /\ queued' = None /\ waiting' = waiting
        BY <3>3 DEF Updated
      <4> QED
        BY <4>1 DEF InProgress
    <3> QED
      BY <1>10, <3>1, <3>2, <3>3
  <2>3. db' = db \/ db' \in InProgress \cup {None, Cleared}
    <3>1. CheckpointReady \/ Updated => db' = db
      BY DEF CheckpointReady, Updated
    <3>2. Update => db' = Cleared \/ (updating # None /\ db' = updating.deli)
      BY DEF Update
    <3> QED
      BY <1>10, <3>1, <3>2 DEF InProgress
  <2> QED
    BY <1>1, <1>2, <1>4, <1>5, <2>1, <2>2, <2>3
<1> QED
  BY <1>6, <1>7, <1>8, <1>9, <1>10 DEF Next, Process

(* A restart goes back to where the record is in the history. *)
LEMMA RestartHistory ==
    ASSUME TypeOK, TypeOK', Placed, Placed', RawKept, CommitFollowsRecord, db # Cleared,
           NEW S, NEW C, NEW n, NEW k, History(S, C, n, k), Restart
    PROVE  History(S, C, n, k)'
<1>0. /\ HistoryFrame(S, C, n, k) /\ HistoryState(S, C, n, k)
      /\ HistoryCheckpoints(S, C, n, k) /\ HistoryOutput(S, n, k) /\ HistoryShape(S, C, n, k)
  BY HistoryParts DEF HistoryFrame
<1>1. /\ cursor' = 0 /\ deltas' = deltas /\ sending' = <<>> /\ waiting' = <<>>
      /\ updating' = None /\ queued' = None /\ db' = db /\ frozen' = frozen
      /\ restarts' = restarts + 1
      /\ logOffset' = LastCheckpoint.logOffset
      /\ sequenceNumber' = LastCheckpoint.sequenceNumber /\ clients' = LastCheckpoint.clients
  BY DEF Restart, logs
<1>2. /\ LastCheckpoint = IF db = None THEN DefaultCheckpoint ELSE db
      /\ LastCheckpoint.logOffset \in Nat
  BY RestartsAtRecord
<1>3. CheckpointOfHistory(LastCheckpoint, S, C, n, k)
  <2>1. CASE db = None
    <3>1. /\ DefaultCheckpoint.logOffset = 0 /\ DefaultCheckpoint.sequenceNumber = 0
      BY DEF DefaultCheckpoint
    <3>2. S[1][1] = 0 /\ C[1][1] = DefaultCheckpoint.clients
      BY <1>0 DEF HistoryShape
    <3>3. Reached(1, 1, n, k)
      <4>1. n \in Nat /\ k \in Nat /\ n >= 1 /\ k >= 1
        BY <1>0, HistoryPlaces
      <4>2. CASE n = 1
        BY <4>1, <4>2 DEF Reached
      <4>3. CASE 1 < n
        <5>1. 1 \in DOMAIN raw
          BY <1>0, <4>1, <4>3, HistoryPlaces
        <5>2. raw[1] \in Seq(RawMessages)
          BY <5>1, ElementType DEF TypeOK, ConsumerTypeOK
        <5>3. 1 <= Len(raw[1]) + 1
          BY <5>2
        <5> QED
          BY <4>1, <4>3, <5>3 DEF Reached
      <4> QED
        BY <4>1, <4>2, <4>3
    <3>4. LastCheckpoint.logOffset = 0 /\ LastCheckpoint.sequenceNumber = 0
          /\ LastCheckpoint.clients = DefaultCheckpoint.clients
      BY <1>2, <2>1, <3>1
    <3>5. LastCheckpoint.logOffset + 1 = 1
      BY <3>4
    <3> QED
      BY <3>2, <3>3, <3>4, <3>5 DEF CheckpointOfHistory
  <2>2. CASE db # None
    <3>1. LastCheckpoint = db
      BY <1>2, <2>2
    <3>2. CheckpointOfHistory(db, S, C, n, k)
      BY <1>0, <2>2 DEF HistoryCheckpoints
    <3> QED
      BY <3>1, <3>2
  <2> QED
    BY <2>1, <2>2
<1>4. PICK o : o = LastCheckpoint.logOffset + 1
  OBVIOUS
<1>5. Reached(o, 1, n, k) /\ sequenceNumber' = S[o][1] /\ clients' = C[o][1]
  BY <1>1, <1>3, <1>4 DEF CheckpointOfHistory
<1>6. HandlerBoxcar' = o /\ HandlerMessage' = 1
  BY <1>1, <1>4 DEF HandlerBoxcar, HandlerMessage
<1>7. restarts' # 0
  BY <1>1 DEF TypeOK, EnvironmentTypeOK
<1>8. HistoryState(S, C, n, k)'
  <2>1. Reached(o, 1, n, k)'
    BY <1>0, <1>5, ReachedStays
  <2>2. Reached(HandlerBoxcar, HandlerMessage, n, k)'
    BY <1>6, <2>1 DEF Reached
  <2> QED
    BY <1>5, <1>6, <1>7, <2>2 DEF HistoryState
<1>9. \A d \in InProgress' : d \in InProgress
  BY <1>1 DEF InProgress
<1>10. \A m \in Operations' : m \in Operations
  <2>1. \A i \in DOMAIN Output' : i \in DOMAIN Output /\ Output[i] = Output'[i]
    <3>1. deltas \in Seq(OutputMessages) /\ sending \in Seq(OutputMessages)
      BY DEF TypeOK, SendsTypeOK
    <3>2. Output' = deltas
      BY <1>1, <3>1 DEF Output
    <3> QED
      BY <3>1, <3>2 DEF Output
  <2> QED
    BY <2>1 DEF Operations
<1>11. frozen <= frozen'
  BY <1>1 DEF TypeOK, EnvironmentTypeOK
<1>12. HistoryFrame(S, C, n, k)'
  BY <1>0, <1>11, FrameStays
<1>13. HistoryCheckpoints(S, C, n, k)' /\ HistoryOutput(S, n, k)'
  BY <1>0, <1>1, <1>9, <1>10, HistoryCheckpointsStay, HistoryOutputStays
<1> QED
  BY <1>8, <1>12, <1>13 DEF History, HistoryFrame

-----------------------------------------------------------------------------
(* The history: the ticketing of a message.                                *)

(* The handler before and after a message. *)
AfterMessage ==
    /\ HandlerBoxcar' = logOffset /\ HandlerMessage' = cursor + 1
    /\ waiting' = waiting

AfterBoxcar ==
    /\ HandlerBoxcar' = logOffset + 1 /\ HandlerMessage' = 1
    /\ \E w : /\ waiting' = Append(waiting, w) /\ w.deli.logOffset = logOffset
              /\ w.deli.sequenceNumber = sequenceNumber' /\ w.deli.clients = clients'

LEMMA TicketPlace ==
    ASSUME TypeOK, Ticket
    PROVE  /\ logOffset \in DOMAIN raw /\ logOffset \in Nat /\ logOffset >= 1
           /\ cursor \in DOMAIN raw[logOffset] /\ cursor \in Nat /\ cursor >= 1
           /\ Len(raw[logOffset]) \in Nat
           /\ HandlerBoxcar = logOffset /\ HandlerMessage = cursor
           /\ \/ cursor < Len(raw[logOffset]) /\ AfterMessage
              \/ cursor = Len(raw[logOffset]) /\ AfterBoxcar
<1>1. logOffset \in DOMAIN raw /\ cursor \in DOMAIN raw[logOffset] /\ cursor # 0
  BY DEF Ticket, TypeOK, ConsumerTypeOK
<1>2. raw[logOffset] \in Seq(RawMessages)
  BY <1>1, ElementType DEF TypeOK, ConsumerTypeOK
<1>3. /\ Len(raw[logOffset]) \in Nat /\ cursor \in 1 .. Len(raw[logOffset])
      /\ logOffset \in Nat /\ logOffset >= 1
  <2>1. Len(raw[logOffset]) \in Nat /\ cursor \in 1 .. Len(raw[logOffset])
    BY <1>1, <1>2
  <2>2. logOffset \in 1 .. Len(raw) /\ Len(raw) \in Nat
    BY <1>1 DEF TypeOK, ConsumerTypeOK
  <2> QED
    BY <2>1, <2>2
<1>4. logOffset' = logOffset
  BY DEF Ticket, UnchangedByTicket, consumer
<1>5. HandlerBoxcar = logOffset /\ HandlerMessage = cursor
  BY <1>1 DEF HandlerBoxcar, HandlerMessage
<1>6. CASE cursor < Len(raw[logOffset])
  <2>1. cursor' = cursor + 1 /\ waiting' = waiting
    BY <1>6 DEF Ticket, EndOfMessage
  <2>2. cursor' # 0
    BY <1>3, <2>1
  <2> QED
    BY <1>1, <1>3, <1>4, <1>5, <1>6, <2>1, <2>2
    DEF AfterMessage, HandlerBoxcar, HandlerMessage
<1>7. CASE cursor = Len(raw[logOffset])
  <2> DEFINE w == CheckpointAfterSends
  <2>0. ~(cursor < Len(raw[logOffset]))
    BY <1>3, <1>7
  <2>1. cursor' = 0 /\ waiting' = Append(waiting, w)
    BY <2>0 DEF Ticket, EndOfMessage
  <2>2. /\ w.deli.logOffset = logOffset /\ w.deli.sequenceNumber = sequenceNumber'
        /\ w.deli.clients = clients'
    BY <1>4 DEF CheckpointAfterSends, DeliCheckpoint
  <2> HIDE DEF w
  <2>3. HandlerBoxcar' = logOffset + 1 /\ HandlerMessage' = 1
    BY <1>4, <2>1 DEF HandlerBoxcar, HandlerMessage
  <2> QED
    BY <1>1, <1>3, <1>5, <1>7, <2>1, <2>2, <2>3 DEF AfterBoxcar
<1> QED
  BY <1>3, <1>6, <1>7

(* The history after the message has what it had before, and the numbers   *)
(* and clients after the message where the handler is then.                *)
Continues(S1, C1, n1, k1, S, C, n, k) ==
    /\ \A o, i : Reached(o, i, n, k) =>
           Reached(o, i, n1, k1) /\ S1[o][i] = S[o][i] /\ C1[o][i] = C[o][i]
    /\ Reached(logOffset, cursor + 1, n1, k1)
    /\ S1[logOffset][cursor + 1] = sequenceNumber' /\ C1[logOffset][cursor + 1] = clients'
    /\ cursor = Len(raw[logOffset]) =>
           /\ Reached(logOffset + 1, 1, n1, k1)
           /\ S1[logOffset + 1][1] = sequenceNumber' /\ C1[logOffset + 1][1] = clients'
    /\ restarts = 0 => n1 = HandlerBoxcar' /\ k1 = HandlerMessage'

LEMMA ContinuedState ==
    ASSUME TypeOK, Ticket, NEW S, NEW C, NEW n, NEW k, NEW S1, NEW C1, NEW n1, NEW k1,
           Continues(S1, C1, n1, k1, S, C, n, k)
    PROVE  HistoryState(S1, C1, n1, k1)'
<1>1. raw' = raw /\ restarts' = restarts
  BY DEF Ticket, UnchangedByTicket, logs, environment
<1>2. \A o, i : Reached(o, i, n1, k1) => Reached(o, i, n1, k1)'
  BY <1>1 DEF Reached
<1>3. PICK o, i : o = HandlerBoxcar' /\ i = HandlerMessage'
  OBVIOUS
<1>4. Reached(o, i, n1, k1) /\ S1[o][i] = sequenceNumber' /\ C1[o][i] = clients'
  <2>1. CASE cursor < Len(raw[logOffset]) /\ AfterMessage
    <3>1. o = logOffset /\ i = cursor + 1
      BY <1>3, <2>1 DEF AfterMessage
    <3> QED
      BY <3>1 DEF Continues
  <2>2. CASE cursor = Len(raw[logOffset]) /\ AfterBoxcar
    <3>1. o = logOffset + 1 /\ i = 1
      BY <1>3, <2>2 DEF AfterBoxcar
    <3> QED
      BY <2>2, <3>1 DEF Continues
  <2> QED
    BY <2>1, <2>2, TicketPlace
<1>5. Reached(HandlerBoxcar, HandlerMessage, n1, k1)'
  <2>1. Reached(o, i, n1, k1)'
    BY <1>2, <1>4
  <2> QED
    BY <1>3, <2>1 DEF Reached
<1>6. restarts' = 0 => n1 = HandlerBoxcar' /\ k1 = HandlerMessage'
  BY <1>1 DEF Continues
<1> QED
  BY <1>3, <1>4, <1>5, <1>6 DEF HistoryState

LEMMA ContinuedCheckpoints ==
    ASSUME TypeOK, Ticket, NEW S, NEW C, NEW n, NEW k, NEW S1, NEW C1, NEW n1, NEW k1,
           Continues(S1, C1, n1, k1, S, C, n, k), HistoryCheckpoints(S, C, n, k)
    PROVE  HistoryCheckpoints(S1, C1, n1, k1)'
<1>1. raw' = raw /\ db' = db /\ updating' = updating /\ queued' = queued
  BY DEF Ticket, UnchangedByTicket, logs, checkpointing
<1>2. \A o, i : Reached(o, i, n1, k1) => Reached(o, i, n1, k1)'
  BY <1>1 DEF Reached
<1>3. ASSUME NEW d, CheckpointOfHistory(d, S, C, n, k)
      PROVE  CheckpointOfHistory(d, S1, C1, n1, k1)'
  <2>1. /\ Reached(d.logOffset + 1, 1, n, k)
        /\ d.sequenceNumber = S[d.logOffset + 1][1] /\ d.clients = C[d.logOffset + 1][1]
    BY <1>3 DEF CheckpointOfHistory
  <2>2. /\ Reached(d.logOffset + 1, 1, n1, k1)
        /\ S1[d.logOffset + 1][1] = S[d.logOffset + 1][1]
        /\ C1[d.logOffset + 1][1] = C[d.logOffset + 1][1]
    BY <2>1 DEF Continues
  <2> QED
    BY <1>2, <2>1, <2>2 DEF CheckpointOfHistory
<1>4. ASSUME NEW d \in InProgress' PROVE CheckpointOfHistory(d, S1, C1, n1, k1)'
  <2>1. CASE cursor < Len(raw[logOffset]) /\ AfterMessage
    <3>1. d \in InProgress
      BY <1>1, <1>4, <2>1 DEF AfterMessage, InProgress
    <3> QED
      BY <1>3, <3>1 DEF HistoryCheckpoints
  <2>2. CASE cursor = Len(raw[logOffset]) /\ AfterBoxcar
    <3>1. PICK w : /\ waiting' = Append(waiting, w) /\ w.deli.logOffset = logOffset
                   /\ w.deli.sequenceNumber = sequenceNumber' /\ w.deli.clients = clients'
      BY <2>2 DEF AfterBoxcar
    <3>2. waiting \in Seq([deli : Checkpoints, after : Nat])
      BY DEF TypeOK, CheckpointTypeOK
    <3>3. \A j \in DOMAIN waiting' : \/ j \in DOMAIN waiting /\ waiting'[j] = waiting[j]
                                     \/ waiting'[j] = w
      BY <3>1, <3>2
    <3>4. \/ \E j \in DOMAIN waiting' : d = waiting'[j].deli
          \/ updating # None /\ d = updating.deli
          \/ queued # None /\ d = queued.deli
      BY <1>1, <1>4 DEF InProgress
    <3>5. d \in InProgress \/ d = w.deli
      BY <3>3, <3>4 DEF InProgress
    <3>6. CASE d = w.deli
      <4>1. /\ Reached(logOffset + 1, 1, n1, k1)
            /\ S1[logOffset + 1][1] = sequenceNumber' /\ C1[logOffset + 1][1] = clients'
        BY <2>2 DEF Continues
      <4>2. Reached(d.logOffset + 1, 1, n1, k1)'
        BY <1>2, <3>1, <3>6, <4>1
      <4>3. S1[d.logOffset + 1][1] = d.sequenceNumber /\ C1[d.logOffset + 1][1] = d.clients
        BY <3>1, <3>6, <4>1
      <4> QED
        BY <4>2, <4>3 DEF CheckpointOfHistory
    <3> QED
      BY <1>3, <3>5, <3>6 DEF HistoryCheckpoints
  <2> QED
    BY <2>1, <2>2, TicketPlace
<1>5. ASSUME db' \notin {None, Cleared} PROVE CheckpointOfHistory(db, S1, C1, n1, k1)'
  <2>1. PICK d : d = db
    OBVIOUS
  <2>2. CheckpointOfHistory(d, S, C, n, k)
    BY <1>1, <1>5, <2>1 DEF HistoryCheckpoints
  <2>3. CheckpointOfHistory(d, S1, C1, n1, k1)'
    BY <1>3, <2>2
  <2> QED
    BY <1>1, <2>1, <2>3 DEF CheckpointOfHistory, Reached
<1> QED
  BY <1>4, <1>5 DEF HistoryCheckpoints

LEMMA ContinuedOutput ==
    ASSUME TypeOK, TypeOK', Placed, Ticket, NEW S, NEW C, NEW n, NEW k,
           NEW S1, NEW C1, NEW n1, NEW k1,
           HistoryShape(S, C, n, k), HistoryState(S, C, n, k), HistoryOutput(S, n, k),
           Continues(S1, C1, n1, k1, S, C, n, k)
    PROVE  HistoryOutput(S1, n1, k1)'
<1>1. raw' = raw
  BY DEF Ticket, UnchangedByTicket, logs
<1>2. \A o, i : Reached(o, i, n1, k1) => Reached(o, i, n1, k1)'
  BY <1>1 DEF Reached
<1> DEFINE Place(m) ==
        /\ Reached(m.src[1], m.src[2] + 1, n1, k1) /\ m.src[2] # 0
        /\ S1[m.src[1]][m.src[2]] + 1 = m.seq /\ S1[m.src[1]][m.src[2] + 1] = m.seq
        /\ raw[m.src[1]][m.src[2]].type = m.type
<1>3. ASSUME NEW m \in Operations PROVE Place(m)
  <2>1. /\ Reached(m.src[1], m.src[2] + 1, n, k) /\ m.src[2] # 0
        /\ S[m.src[1]][m.src[2]] + 1 = m.seq /\ S[m.src[1]][m.src[2] + 1] = m.seq
        /\ raw[m.src[1]][m.src[2]].type = m.type
    BY <1>3 DEF HistoryOutput, RawOf
  <2>2. m \in OutputMessages
    BY <1>3, OperationType DEF TypeOK
  <2>3. m.src[2] \in Nat
    BY <2>2 DEF OutputMessages
  <2>4. Reached(m.src[1], m.src[2], n, k)
    BY <2>1, <2>3, HistoryPlaces
  <2> QED
    BY <2>1, <2>4 DEF Continues
<1>4. ASSUME NEW r, Counted(r), r.kind = "op" PROVE Place(r)
  <2>1. /\ sequenceNumber' = sequenceNumber + 1 /\ r.seq = sequenceNumber'
        /\ r.src = Source /\ r.type = Message.type
    BY <1>4 DEF Counted
  <2>2. r.src[1] = logOffset /\ r.src[2] = cursor
    BY <2>1 DEF Source
  <2>3. S[logOffset][cursor] = sequenceNumber /\ Reached(logOffset, cursor, n, k)
    BY TicketPlace DEF HistoryState
  <2>4. S1[logOffset][cursor] = sequenceNumber
    BY <2>3 DEF Continues
  <2>5. /\ Reached(logOffset, cursor + 1, n1, k1)
        /\ S1[logOffset][cursor + 1] = sequenceNumber'
    BY DEF Continues
  <2>6. cursor # 0 /\ raw[logOffset][cursor].type = r.type
    BY <2>1 DEF Ticket, Message
  <2> QED
    BY <2>1, <2>2, <2>4, <2>5, <2>6
<1>5. ASSUME NEW m \in Operations' PROVE Place(m)
  <2>1. CASE sending' = sending
    <3>1. m \in Operations
      BY <1>5, <2>1, TicketCounts DEF Operations, Output
    <3> QED
      BY <1>3, <3>1
  <2>2. CASE \E r : Counted(r)
    <3>1. PICK r : Counted(r)
      BY <2>2
    <3>2. sending' = Append(sending, r) /\ deltas' = deltas
      BY <3>1, TicketCounts DEF Counted
    <3>3. m \in Operations \/ (m = r /\ r.kind = "op")
      BY <1>5, <3>2, SendAdds DEF TypeOK
    <3> QED
      BY <1>3, <1>4, <3>1, <3>3
  <2> QED
    BY <2>1, <2>2, TicketCounts
<1> QED
  BY <1>1, <1>2, <1>5 DEF HistoryOutput, RawOf

(* A boxcar of the history that is followed by another one. *)
LEMMA NextBoxcar ==
    ASSUME TypeOK, Placed, NEW S, NEW C, NEW n, NEW k, HistoryShape(S, C, n, k),
           NEW o \in Nat, o >= 1, o < n
    PROVE  Reached(o + 1, 1, n, k)
<1>1. n \in Nat /\ k \in Nat /\ k >= 1
  BY HistoryPlaces
<1>2. CASE o + 1 = n
  BY <1>1, <1>2 DEF Reached
<1>3. CASE o + 1 < n
  <2>1. o + 1 \in DOMAIN raw
    BY <1>1, <1>3, HistoryPlaces
  <2>2. raw[o + 1] \in Seq(RawMessages)
    BY <2>1, ElementType DEF TypeOK, ConsumerTypeOK
  <2>3. 1 <= Len(raw[o + 1]) + 1
    BY <2>2
  <2> QED
    BY <1>1, <1>3, <2>3 DEF Reached
<1> QED
  BY <1>1, <1>2, <1>3

(* A message that was ticketed before gets what it got then. *)
LEMMA ReplayedMessage ==
    ASSUME TypeOK, Placed, RawTopic, Repeating, Ticket, NEW S, NEW C, NEW n, NEW k,
           HistoryFrame(S, C, n, k), HistoryState(S, C, n, k), ~(logOffset = n /\ cursor = k)
    PROVE  Continues(S, C, n, k, S, C, n, k)
<1>0. HistoryShape(S, C, n, k) /\ HistorySteps(S, C, n, k)
  BY DEF HistoryFrame
<1>1. /\ logOffset \in DOMAIN raw /\ logOffset \in Nat /\ logOffset >= 1
      /\ cursor \in DOMAIN raw[logOffset] /\ cursor \in Nat /\ cursor >= 1
      /\ Len(raw[logOffset]) \in Nat
      /\ HandlerBoxcar = logOffset /\ HandlerMessage = cursor
      /\ cursor <= Len(raw[logOffset])
  BY TicketPlace
<1>2. /\ Reached(logOffset, cursor, n, k) /\ sequenceNumber = S[logOffset][cursor]
      /\ clients = C[logOffset][cursor] /\ restarts # 0
  BY <1>1 DEF HistoryState
<1>3. n \in Nat /\ k \in Nat /\ n >= 1 /\ k >= 1 /\ (n <= Len(raw) => k <= Len(raw[n]))
  BY <1>0, HistoryPlaces DEF HistoryShape
<1>4. \/ logOffset < n
      \/ logOffset = n /\ cursor + 1 <= k
  BY <1>1, <1>2, <1>3 DEF Reached
<1>5. Reached(logOffset, cursor + 1, n, k)
  BY <1>1, <1>3, <1>4 DEF Reached
<1>6. Follows(S, C, logOffset, cursor)
  BY <1>0, <1>1, <1>5 DEF HistorySteps
<1>7. Repeats
  BY <1>2 DEF Repeating
<1>8. /\ sequenceNumber' = NumberAfter(Message, sequenceNumber, clients)
      /\ clients' = ClientsAfter(Message, sequenceNumber, clients)
  BY <1>7, MessageAdmissible, TicketFollows DEF Repeating
<1>9. S[logOffset][cursor + 1] = sequenceNumber' /\ C[logOffset][cursor + 1] = clients'
  BY <1>2, <1>6, <1>7, <1>8 DEF Follows, Message
<1>10. ASSUME cursor = Len(raw[logOffset])
       PROVE  /\ Reached(logOffset + 1, 1, n, k)
              /\ S[logOffset + 1][1] = sequenceNumber' /\ C[logOffset + 1][1] = clients'
  <2>1. logOffset # n
    <3>1. logOffset <= Len(raw)
      BY <1>1 DEF TypeOK, ConsumerTypeOK
    <3> QED
      BY <1>1, <1>3, <1>4, <1>10, <3>1
  <2>2. logOffset \in 1 .. n - 1 /\ logOffset < n
    BY <1>1, <1>3, <1>4, <2>1
  <2>3. /\ S[logOffset + 1][1] = S[logOffset][Len(raw[logOffset]) + 1]
        /\ C[logOffset + 1][1] = C[logOffset][Len(raw[logOffset]) + 1]
    BY <1>0, <2>2 DEF HistorySteps
  <2>4. Reached(logOffset + 1, 1, n, k)
    BY <1>0, <1>1, <2>2, NextBoxcar
  <2> QED
    BY <1>9, <1>10, <2>3, <2>4
<1> QED
  BY <1>2, <1>5, <1>9, <1>10 DEF Continues

(* What a message that is ticketed for the first time does to the members. *)
FirstJoin(m) ==
    /\ m.type = "ClientJoin" /\ m.data \notin Tracked
    /\ \A c \in Clients : c \in TrackedIn(clients') <=> c \in Tracked \/ c = m.data

FirstLeave(m) ==
    /\ m.type = "ClientLeave" /\ m.data \in Tracked
    /\ \A c \in Clients : c \in TrackedIn(clients') <=> c \in Tracked /\ c # m.data

NoJoinOrLeave(m) ==
    /\ m.type \notin {"ClientJoin", "ClientLeave"}
    /\ \A c \in Clients : c \in TrackedIn(clients') <=> c \in Tracked

LEMMA TicketMembership ==
    ASSUME TypeOK, TypeOK', Ticket, \A m \in Operations : m.src # Source,
           Message.type \notin {"Operation", "NoOp", "Summarize"} => Message.clientId = None
    PROVE  \/ Message.type = "ClientJoin" /\ Message.data \in Tracked
           \/ sequenceNumber' = sequenceNumber /\ TrackedIn(clients') = Tracked
           \/ /\ sequenceNumber' = sequenceNumber + 1
              /\ FirstJoin(Message) \/ FirstLeave(Message) \/ NoJoinOrLeave(Message)
<1>1. \/ sequenceNumber' = sequenceNumber /\ \A n : n \in Operations' <=> n \in Operations
      \/ /\ sequenceNumber' = sequenceNumber + 1
         /\ \E r : r \in Operations' /\ r.src = Source
  <2>1. CASE sending' = sending /\ sequenceNumber' = sequenceNumber
    BY <2>1, TicketCounts DEF Operations, Output
  <2>2. CASE \E r : Counted(r)
    <3>1. PICK r : Counted(r)
      BY <2>2
    <3>2. \A n : n \in Operations' <=> n \in Operations \/ (n = r /\ r.kind = "op")
      BY <3>1, SendAdds, TicketCounts DEF Counted, TypeOK
    <3> QED
      BY <3>1, <3>2 DEF Counted
  <2> QED
    BY <2>1, <2>2, TicketCounts
<1>2. clients \in [Clients -> ClientStates \cup {None}]
  BY DEF TypeOK, LambdaTypeOK
<1>3. CASE Quiet
  <2>1. sequenceNumber' = sequenceNumber
    BY <1>1, <1>3 DEF Quiet
  <2> QED
    BY <1>3, <2>1 DEF Quiet
<1>4. ASSUME NEW r, Sent(Message, r),
             Joining(Message) \/ Leaving(Message) \/ Operating(Message) \/ Serving(Message, r)
      PROVE  /\ sequenceNumber' = sequenceNumber + 1
             /\ FirstJoin(Message) \/ FirstLeave(Message) \/ NoJoinOrLeave(Message)
  <2>1. r \in Operations' /\ r \notin Operations
    BY <1>4 DEF Sent
  <2>2. sequenceNumber' = sequenceNumber + 1
    BY <1>1, <2>1
  <2> DEFINE m == Message
  <2> HIDE DEF m
  <2>3. ASSUME NEW c, NEW e, e # None, clients' = [clients EXCEPT ![c] = e]
        PROVE  \A d \in Clients : d \in TrackedIn(clients') <=> d \in Tracked \/ d = c
    BY <1>2, <2>3 DEF TrackedIn, Tracked
  <2>5. CASE Joining(m)
    <3> DEFINE e == [csn |-> 0, ref |-> minimumSequenceNumber, nack |-> FALSE]
    <3>1. minimumSequenceNumber \in Nat
      BY DEF TypeOK, LambdaTypeOK
    <3>2. e \in ClientStates
      BY <3>1 DEF ClientStates
    <3>3. clients' = [clients EXCEPT ![m.data] = e] /\ m.type = "ClientJoin" /\ m.data \notin Tracked
      BY <2>5 DEF Joining, Upsert
    <3>4. e # None
      BY <3>2, DeliConstants
    <3> HIDE DEF e
    <3>5. \A d \in Clients : d \in TrackedIn(clients') <=> d \in Tracked \/ d = m.data
      BY <2>3, <3>3, <3>4
    <3>6. FirstJoin(m)
      BY <3>3, <3>5 DEF FirstJoin
    <3> QED
      BY <2>2, <3>6 DEF m
  <2>6. CASE Leaving(m)
    <3>1. clients' = [clients EXCEPT ![m.data] = None] /\ m.type = "ClientLeave" /\ m.data \in Tracked
      BY <2>6 DEF Leaving, Remove
    <3>2. \A d \in Clients : d \in TrackedIn(clients') <=> d \in Tracked /\ d # m.data
      BY <1>2, <3>1 DEF TrackedIn, Tracked
    <3>3. FirstLeave(m)
      BY <3>1, <3>2 DEF FirstLeave
    <3> QED
      BY <2>2, <3>3 DEF m
  <2>7. CASE Operating(m)
    <3>1. PICK ref \in Nat : clients' = Upsert(m.clientId, m.csn, ref, FALSE)
      BY <2>7 DEF Operating
    <3>2. m.type \notin {"ClientJoin", "ClientLeave"} /\ m.clientId \in Tracked
          /\ m.csn = clients[m.clientId].csn + 1
      BY <2>7 DEF Operating
    <3> DEFINE e == [csn |-> m.csn, ref |-> ref, nack |-> FALSE]
    <3>3. m.csn \in Nat
      <4>1. clients[m.clientId] \in ClientStates
        BY <1>2, <3>2 DEF Tracked, TrackedIn
      <4>2. clients[m.clientId].csn \in Nat
        BY <4>1 DEF ClientStates
      <4> QED
        BY <3>2, <4>2
    <3>4. e \in ClientStates
      BY <3>3 DEF ClientStates
    <3>5. e # None
      BY <3>4, DeliConstants
    <3>6. clients' = [clients EXCEPT ![m.clientId] = e]
      BY <3>1 DEF Upsert
    <3> HIDE DEF e
    <3>7. \A d \in Clients : d \in TrackedIn(clients') <=> d \in Tracked \/ d = m.clientId
      BY <2>3, <3>5, <3>6
    <3>8. NoJoinOrLeave(m)
      BY <3>2, <3>7 DEF NoJoinOrLeave
    <3> QED
      BY <2>2, <3>8 DEF m
  <2>8. CASE Serving(m, r)
    <3>1. m.type \notin {"ClientJoin", "ClientLeave"} /\ clients' = clients
      BY <2>8 DEF Serving
    <3>2. NoJoinOrLeave(m)
      BY <3>1 DEF NoJoinOrLeave, Tracked
    <3> QED
      BY <2>2, <3>2 DEF m
  <2> QED
    BY <1>4, <2>5, <2>6, <2>7, <2>8 DEF m
<1> QED
  BY <1>3, <1>4, TicketOutcome

-----------------------------------------------------------------------------
(* The history: a message that is ticketed for the first time.             *)

(* F1 is F with x at the places after <<n, k>>. *)
Extended(F1, F, n, k, x) ==
    /\ F1[n][k + 1] = x /\ F1[n + 1][1] = x
    /\ \A o, i \in Nat :
          ~(o = n /\ i = k + 1) /\ ~(o = n + 1 /\ i = 1) => F1[o][i] = F[o][i]

LEMMA Extension ==
    ASSUME NEW T, NEW F \in [Nat -> [Nat -> T]], NEW n \in Nat, NEW k \in Nat, NEW x \in T
    PROVE  \E F1 \in [Nat -> [Nat -> T]] : Extended(F1, F, n, k, x)
<1> DEFINE At(o, i) == (o = n /\ i = k + 1) \/ (o = n + 1 /\ i = 1)
           Row(o) == [i \in Nat |-> IF At(o, i) THEN x ELSE F[o][i]]
           F1 == [o \in Nat |-> Row(o)]
<1>1. ASSUME NEW o \in Nat PROVE Row(o) \in [Nat -> T]
  <2>1. ASSUME NEW i \in Nat PROVE F[o][i] \in T
    OBVIOUS
  <2> HIDE DEF At
  <2> QED
    BY <2>1
<1>2. ASSUME NEW o \in Nat, NEW i \in Nat
      PROVE  F1[o][i] = IF At(o, i) THEN x ELSE F[o][i]
  <2>1. F1[o] = Row(o)
    BY DEF F1
  <2>2. Row(o)[i] = IF At(o, i) THEN x ELSE F[o][i]
    BY DEF Row
  <2> QED
    BY <2>1, <2>2
<1>3. F1 \in [Nat -> [Nat -> T]]
  <2> HIDE DEF Row
  <2> QED
    BY <1>1 DEF F1
<1>4. Extended(F1, F, n, k, x)
  <2> HIDE DEF F1
  <2>1. F1[n][k + 1] = x
    BY <1>2
  <2>2. F1[n + 1][1] = x
    BY <1>2
  <2> QED
    BY <1>2, <2>1, <2>2 DEF Extended
<1> QED
  BY <1>3, <1>4

(* The place after <<n, k>>. *)
NextPlace(n1, k1, n, k) ==
    \/ k < Len(raw[n]) /\ n1 = n /\ k1 = k + 1
    \/ k = Len(raw[n]) /\ n1 = n + 1 /\ k1 = 1

LEMMA FrontierPlaces ==
    ASSUME NEW n \in Nat, NEW k \in Nat, n >= 1, k >= 1, Len(raw[n]) \in Nat,
           NEW n1, NEW k1, NextPlace(n1, k1, n, k)
    PROVE  /\ \A o, i : Reached(o, i, n1, k1) <=>
                  \/ Reached(o, i, n, k)
                  \/ o = n /\ i = k + 1
                  \/ o = n + 1 /\ i = 1 /\ k = Len(raw[n])
           /\ \A o, i : Reached(o, i, n, k) =>
                  /\ o \in Nat /\ i \in Nat /\ ~(o = n /\ i = k + 1) /\ ~(o = n + 1 /\ i = 1)
                  /\ o < n \/ (o = n /\ i <= k)
<1>1. CASE k < Len(raw[n]) /\ n1 = n /\ k1 = k + 1
  BY <1>1 DEF Reached
<1>2. CASE k = Len(raw[n]) /\ n1 = n + 1 /\ k1 = 1
  BY <1>2 DEF Reached
<1> QED
  BY <1>1, <1>2 DEF NextPlace

(* The message at <<n, k>> is ticketed for the first time, and the history *)
(* with what it gets is the one with S1, C1, n1 and k1.                    *)
Frontier(S1, C1, n1, k1, S, C, n, k) ==
    /\ n = logOffset /\ k = cursor /\ NextPlace(n1, k1, n, k)
    /\ S1 \in [Nat -> [Nat -> Nat]]
    /\ C1 \in [Nat -> [Nat -> [Clients -> ClientStates \cup {None}]]]
    /\ Extended(S1, S, n, k, sequenceNumber') /\ Extended(C1, C, n, k, clients')

LEMMA FrontierFacts ==
    ASSUME TypeOK, Placed, Ticket, NEW S, NEW C, NEW n, NEW k,
           HistoryFrame(S, C, n, k), HistoryState(S, C, n, k),
           NEW S1, NEW C1, NEW n1, NEW k1, Frontier(S1, C1, n1, k1, S, C, n, k)
    PROVE  /\ n \in Nat /\ k \in Nat /\ n >= 1 /\ k >= 1 /\ n \in DOMAIN raw /\ n <= frozen
           /\ k \in DOMAIN raw[n] /\ Len(raw[n]) \in Nat /\ k <= Len(raw[n])
           /\ raw[n][k] = Message
           /\ Reached(n, k, n, k) /\ S[n][k] = sequenceNumber /\ C[n][k] = clients
           /\ \A o, i : Reached(o, i, n1, k1) <=>
                  \/ Reached(o, i, n, k)
                  \/ o = n /\ i = k + 1
                  \/ o = n + 1 /\ i = 1 /\ k = Len(raw[n])
           /\ \A o, i : Reached(o, i, n, k) =>
                  /\ o \in Nat /\ i \in Nat /\ ~(o = n /\ i = k + 1) /\ ~(o = n + 1 /\ i = 1)
                  /\ o < n \/ (o = n /\ i <= k)
                  /\ S1[o][i] = S[o][i] /\ C1[o][i] = C[o][i] /\ S[o][i] <= sequenceNumber
                  /\ S[o][i] \in Nat
           /\ S1[n][k + 1] = sequenceNumber' /\ C1[n][k + 1] = clients'
           /\ S1[n + 1][1] = sequenceNumber' /\ C1[n + 1][1] = clients'
           /\ sequenceNumber' \in {sequenceNumber, sequenceNumber + 1}
<1>1. /\ n = logOffset /\ k = cursor /\ NextPlace(n1, k1, n, k)
      /\ Extended(S1, S, n, k, sequenceNumber') /\ Extended(C1, C, n, k, clients')
  BY DEF Frontier
<1>2. /\ n \in Nat /\ k \in Nat /\ n >= 1 /\ k >= 1 /\ n \in DOMAIN raw
      /\ k \in DOMAIN raw[n] /\ Len(raw[n]) \in Nat /\ k <= Len(raw[n])
      /\ HandlerBoxcar = n /\ HandlerMessage = k
  BY <1>1, TicketPlace
<1>3. n <= frozen /\ raw[n][k] = Message
  BY <1>1 DEF Ticket, Placed, Message
<1>4. Reached(n, k, n, k) /\ S[n][k] = sequenceNumber /\ C[n][k] = clients
  BY <1>2 DEF HistoryState
<1>5. /\ \A o, i : Reached(o, i, n1, k1) <=>
             \/ Reached(o, i, n, k)
             \/ o = n /\ i = k + 1
             \/ o = n + 1 /\ i = 1 /\ k = Len(raw[n])
      /\ \A o, i : Reached(o, i, n, k) =>
             /\ o \in Nat /\ i \in Nat /\ ~(o = n /\ i = k + 1) /\ ~(o = n + 1 /\ i = 1)
             /\ o < n \/ (o = n /\ i <= k)
  BY <1>1, <1>2, FrontierPlaces
<1>6. \A o, i : Reached(o, i, n, k) => S1[o][i] = S[o][i] /\ C1[o][i] = C[o][i]
  BY <1>1, <1>5 DEF Extended
<1>7. HistoryShape(S, C, n, k) /\ HistorySteps(S, C, n, k)
  BY DEF HistoryFrame
<1>8. ASSUME NEW o, NEW i, Reached(o, i, n, k) PROVE S[o][i] <= sequenceNumber /\ S[o][i] \in Nat
  <2>1. o \in Nat /\ i \in Nat /\ (o < n \/ (o = n /\ i <= k))
    BY <1>5, <1>8
  <2>2. S[o][i] <= S[n][k]
    BY <1>2, <1>4, <1>7, <1>8, <2>1 DEF HistorySteps
  <2>3. S[o][i] \in Nat
    BY <1>7, <2>1 DEF HistoryShape
  <2> QED
    BY <1>4, <2>2, <2>3
<1>9. /\ S1[n][k + 1] = sequenceNumber' /\ C1[n][k + 1] = clients'
      /\ S1[n + 1][1] = sequenceNumber' /\ C1[n + 1][1] = clients'
  BY <1>1 DEF Extended
<1>10. sequenceNumber' \in {sequenceNumber, sequenceNumber + 1}
  BY TicketCounts DEF Counted
<1> QED
  BY <1>2, <1>3, <1>4, <1>5, <1>6, <1>8, <1>9, <1>10

LEMMA FrontierShape ==
    ASSUME TypeOK, Placed, Ticket, NEW S, NEW C, NEW n, NEW k,
           HistoryFrame(S, C, n, k), HistoryState(S, C, n, k),
           NEW S1, NEW C1, NEW n1, NEW k1, Frontier(S1, C1, n1, k1, S, C, n, k)
    PROVE  HistoryShape(S1, C1, n1, k1)
<1>1. /\ n \in Nat /\ k \in Nat /\ n >= 1 /\ k >= 1 /\ n \in DOMAIN raw /\ n <= frozen
      /\ Len(raw[n]) \in Nat /\ k <= Len(raw[n])
      /\ \A o, i : Reached(o, i, n, k) => S1[o][i] = S[o][i] /\ C1[o][i] = C[o][i]
  BY FrontierFacts
<1>2. /\ NextPlace(n1, k1, n, k) /\ S1 \in [Nat -> [Nat -> Nat]]
      /\ C1 \in [Nat -> [Nat -> [Clients -> ClientStates \cup {None}]]]
  BY DEF Frontier
<1>3. HistoryShape(S, C, n, k)
  BY DEF HistoryFrame
<1>4. S[1][1] = 0 /\ C[1][1] = DefaultCheckpoint.clients
  BY <1>3 DEF HistoryShape
<1>5. Reached(1, 1, n, k)
  <2>1. CASE n = 1
    BY <1>1, <2>1 DEF Reached
  <2>2. CASE 1 < n
    <3>1. 1 \in DOMAIN raw
      BY <1>1, <1>3, <2>2, HistoryPlaces
    <3>2. raw[1] \in Seq(RawMessages)
      BY <3>1, ElementType DEF TypeOK, ConsumerTypeOK
    <3>3. 1 <= Len(raw[1]) + 1
      BY <3>2
    <3> QED
      BY <1>1, <2>2, <3>3 DEF Reached
  <2> QED
    BY <1>1, <2>1, <2>2
<1>6. S1[1][1] = 0 /\ C1[1][1] = DefaultCheckpoint.clients
  BY <1>1, <1>4, <1>5
<1>7. frozen \in Nat /\ DOMAIN raw = 1 .. Len(raw) /\ Len(raw) \in Nat
  BY DEF TypeOK, ConsumerTypeOK, EnvironmentTypeOK
<1>8. /\ n1 \in 1 .. frozen + 1 /\ k1 \in Nat \ {0} /\ (frozen < n1 => k1 = 1)
      /\ n1 <= Len(raw) => k1 <= Len(raw[n1])
  <2>1. CASE k < Len(raw[n]) /\ n1 = n /\ k1 = k + 1
    BY <1>1, <1>7, <2>1
  <2>2. CASE k = Len(raw[n]) /\ n1 = n + 1 /\ k1 = 1
    <3>1. ASSUME n1 <= Len(raw) PROVE 1 <= Len(raw[n1])
      <4>1. n1 \in DOMAIN raw
        BY <1>1, <1>7, <2>2, <3>1
      <4>2. raw[n1] \in Seq(RawMessages) \ {<<>>}
        BY <4>1, ElementType DEF TypeOK, ConsumerTypeOK
      <4> QED
        BY <4>2
    <3> QED
      BY <1>1, <1>7, <2>2, <3>1
  <2> QED
    BY <1>2, <2>1, <2>2 DEF NextPlace
<1> QED
  BY <1>2, <1>6, <1>8 DEF HistoryShape

LEMMA FrontierSteps ==
    ASSUME TypeOK, Placed, RawTopic, Repeating, Ticket, NEW S, NEW C, NEW n, NEW k,
           HistoryFrame(S, C, n, k), HistoryState(S, C, n, k),
           NEW S1, NEW C1, NEW n1, NEW k1, Frontier(S1, C1, n1, k1, S, C, n, k)
    PROVE  HistorySteps(S1, C1, n1, k1)
<1>1. /\ n \in Nat /\ k \in Nat /\ n >= 1 /\ k >= 1 /\ Len(raw[n]) \in Nat /\ k <= Len(raw[n])
      /\ raw[n][k] = Message
      /\ Reached(n, k, n, k) /\ S[n][k] = sequenceNumber /\ C[n][k] = clients
      /\ S1[n][k + 1] = sequenceNumber' /\ C1[n][k + 1] = clients'
      /\ S1[n + 1][1] = sequenceNumber' /\ C1[n + 1][1] = clients'
      /\ sequenceNumber' \in {sequenceNumber, sequenceNumber + 1}
  BY FrontierFacts
<1>2. \A o, i : Reached(o, i, n1, k1) <=>
             \/ Reached(o, i, n, k)
             \/ o = n /\ i = k + 1
             \/ o = n + 1 /\ i = 1 /\ k = Len(raw[n])
  BY FrontierFacts
<1>3. \A o, i : Reached(o, i, n, k) =>
             /\ o \in Nat /\ i \in Nat
             /\ o < n \/ (o = n /\ i <= k)
             /\ S1[o][i] = S[o][i] /\ C1[o][i] = C[o][i] /\ S[o][i] <= sequenceNumber
             /\ S[o][i] \in Nat
  BY FrontierFacts
<1>4. HistoryShape(S, C, n, k) /\ HistorySteps(S, C, n, k)
  BY DEF HistoryFrame
<1>5. ASSUME NEW o \in 1 .. n1 - 1
      PROVE  /\ S1[o + 1][1] = S1[o][Len(raw[o]) + 1]
             /\ C1[o + 1][1] = C1[o][Len(raw[o]) + 1]
  <2>1. CASE o < n
    <3>1. o \in Nat /\ o >= 1 /\ o \in 1 .. n - 1
      BY <1>1, <1>5, <2>1 DEF Frontier, NextPlace
    <3>2. S[o + 1][1] = S[o][Len(raw[o]) + 1] /\ C[o + 1][1] = C[o][Len(raw[o]) + 1]
      BY <1>4, <3>1 DEF HistorySteps
    <3>3. Reached(o + 1, 1, n, k)
      BY <1>4, <2>1, <3>1, NextBoxcar
    <3>4. Reached(o, Len(raw[o]) + 1, n, k)
      <4>1. o \in DOMAIN raw
        BY <1>4, <3>1, HistoryPlaces
      <4>2. raw[o] \in Seq(RawMessages)
        BY <4>1, ElementType DEF TypeOK, ConsumerTypeOK
      <4>3. Len(raw[o]) \in Nat
        BY <4>2
      <4> QED
        BY <1>1, <2>1, <3>1, <4>3 DEF Reached
    <3> QED
      BY <1>3, <3>2, <3>3, <3>4
  <2>2. CASE ~(o < n)
    <3>1. \/ n1 = n
          \/ n1 = n + 1 /\ k = Len(raw[n])
      BY DEF Frontier, NextPlace
    <3>2. CASE n1 = n
      BY <1>1, <1>5, <2>2, <3>2
    <3>3. CASE n1 = n + 1 /\ k = Len(raw[n])
      <4>1. o = n
        BY <1>1, <1>5, <2>2, <3>3
      <4> QED
        BY <1>1, <3>3, <4>1
    <3> QED
      BY <3>1, <3>2, <3>3
  <2> QED
    BY <2>1, <2>2
<1>6. ASSUME NEW o \in Nat, NEW i \in Nat \ {0}, Reached(o, i + 1, n1, k1)
      PROVE  Follows(S1, C1, o, i)
  <2>1. CASE Reached(o, i + 1, n, k)
    <3>1. Reached(o, i, n, k)
      BY <1>4, <2>1, HistoryPlaces
    <3>2. Follows(S, C, o, i)
      BY <1>4, <2>1 DEF HistorySteps
    <3> QED
      BY <1>3, <2>1, <3>1, <3>2 DEF Follows
  <2>2. CASE ~Reached(o, i + 1, n, k)
    <3>1. o = n /\ i = k
      BY <1>1, <1>2, <1>6, <2>2
    <3>2. S1[n][k] = sequenceNumber /\ C1[n][k] = clients
      BY <1>1, <1>3
    <3>3. Repeats =>
            /\ sequenceNumber' = NumberAfter(Message, sequenceNumber, clients)
            /\ clients' = ClientsAfter(Message, sequenceNumber, clients)
      BY MessageAdmissible, TicketFollows DEF Repeating
    <3> QED
      BY <1>1, <3>1, <3>2, <3>3 DEF Follows
  <2> QED
    BY <2>1, <2>2
<1>7. ASSUME NEW o \in Nat, NEW i \in Nat, NEW p \in Nat, NEW j \in Nat,
             Reached(o, i, n1, k1), Reached(p, j, n1, k1), o < p \/ (o = p /\ i <= j)
      PROVE  S1[o][i] <= S1[p][j]
  <2>0. sequenceNumber \in Nat
    BY DEF TypeOK, LambdaTypeOK
  <2>1. CASE Reached(o, i, n, k) /\ Reached(p, j, n, k)
    <3>1. S[o][i] <= S[p][j]
      BY <1>4, <1>7, <2>1 DEF HistorySteps
    <3> QED
      BY <1>3, <2>1, <3>1
  <2>2. CASE Reached(o, i, n, k) /\ ~Reached(p, j, n, k)
    <3>1. S1[p][j] = sequenceNumber'
      BY <1>1, <1>2, <1>7, <2>2
    <3>2. S1[o][i] <= sequenceNumber /\ S1[o][i] \in Nat
      BY <1>3, <2>2
    <3> QED
      BY <1>1, <2>0, <3>1, <3>2
  <2>3. CASE ~Reached(o, i, n, k) /\ Reached(p, j, n, k)
    <3>1. p < n \/ (p = n /\ j <= k)
      BY <1>3, <2>3
    <3>2. (o = n /\ i = k + 1) \/ o = n + 1
      BY <1>2, <1>7, <2>3
    <3> QED
      BY <1>1, <1>7, <3>1, <3>2
  <2>4. CASE ~Reached(o, i, n, k) /\ ~Reached(p, j, n, k)
    <3>1. S1[p][j] = sequenceNumber' /\ S1[o][i] = sequenceNumber'
      BY <1>1, <1>2, <1>7, <2>4
    <3> QED
      BY <1>1, <2>0, <3>1
  <2> QED
    BY <2>1, <2>2, <2>3, <2>4
<1> QED
  BY <1>5, <1>6, <1>7 DEF HistorySteps

(* What happened up to a number x. *)
Event(type, c, x, S, n, k, o, i) ==
    /\ o \in DOMAIN raw /\ i \in DOMAIN raw[o]
    /\ Reached(o, i + 1, n, k) /\ S[o][i + 1] = S[o][i] + 1 /\ S[o][i + 1] <= x
    /\ raw[o][i].type = type /\ raw[o][i].data = c

LEMMA HappenedEvent ==
    ASSUME NEW type, NEW c, NEW x, NEW S, NEW n, NEW k
    PROVE  Happened(type, c, x, S, n, k) <=> \E o, i : Event(type, c, x, S, n, k, o, i)
  BY DEF Happened, Event

LEMMA FrontierHappened ==
    ASSUME TypeOK, Placed, Ticket, NEW S, NEW C, NEW n, NEW k,
           HistoryFrame(S, C, n, k), HistoryState(S, C, n, k),
           NEW S1, NEW C1, NEW n1, NEW k1, Frontier(S1, C1, n1, k1, S, C, n, k),
           NEW type, NEW c
    PROVE  /\ \A x \in Nat : x <= sequenceNumber =>
                  (Happened(type, c, x, S1, n1, k1) <=> Happened(type, c, x, S, n, k))
           /\ Happened(type, c, sequenceNumber', S1, n1, k1) <=>
                  \/ Happened(type, c, sequenceNumber, S, n, k)
                  \/ /\ sequenceNumber' = sequenceNumber + 1
                     /\ Message.type = type /\ Message.data = c
<1>1. /\ n \in Nat /\ k \in Nat /\ n >= 1 /\ k >= 1 /\ n \in DOMAIN raw /\ k \in DOMAIN raw[n]
      /\ raw[n][k] = Message
      /\ Reached(n, k, n, k) /\ S[n][k] = sequenceNumber
      /\ S1[n][k + 1] = sequenceNumber'
      /\ sequenceNumber' \in {sequenceNumber, sequenceNumber + 1}
  BY FrontierFacts
<1>2. \A o, i : Reached(o, i, n1, k1) <=>
             \/ Reached(o, i, n, k)
             \/ o = n /\ i = k + 1
             \/ o = n + 1 /\ i = 1 /\ k = Len(raw[n])
  BY FrontierFacts
<1>3. \A o, i : Reached(o, i, n, k) =>
             S1[o][i] = S[o][i] /\ S[o][i] <= sequenceNumber /\ S[o][i] \in Nat
  BY FrontierFacts
<1>4. HistoryShape(S, C, n, k) /\ sequenceNumber \in Nat
  BY DEF HistoryFrame, TypeOK, LambdaTypeOK
<1>5. \A o \in DOMAIN raw : \A i \in DOMAIN raw[o] : i \in Nat \ {0}
  <2>1. \A o \in DOMAIN raw : raw[o] \in Seq(RawMessages)
    BY DEF TypeOK, ConsumerTypeOK
  <2> QED
    BY <2>1
<1>6. ASSUME NEW o, NEW i, NEW x, Event(type, c, x, S, n, k, o, i), NEW y \in Nat,
             S[o][i + 1] <= y
      PROVE  Event(type, c, y, S1, n1, k1, o, i)
  <2>1. /\ o \in DOMAIN raw /\ i \in DOMAIN raw[o]
        /\ Reached(o, i + 1, n, k) /\ S[o][i + 1] = S[o][i] + 1
        /\ raw[o][i].type = type /\ raw[o][i].data = c
    BY <1>6 DEF Event
  <2>2. Reached(o, i, n, k)
    BY <1>4, <1>5, <2>1, HistoryPlaces
  <2>3. /\ S1[o][i + 1] = S[o][i + 1] /\ S1[o][i] = S[o][i] /\ Reached(o, i + 1, n1, k1)
    BY <1>2, <1>3, <2>1, <2>2
  <2> QED
    BY <1>6, <2>1, <2>3 DEF Event
<1>7. ASSUME NEW o, NEW i, NEW x, Event(type, c, x, S1, n1, k1, o, i)
      PROVE  \/ Event(type, c, x, S, n, k, o, i) /\ S[o][i + 1] <= sequenceNumber
             \/ /\ sequenceNumber' = sequenceNumber + 1 /\ sequenceNumber + 1 <= x
                /\ Message.type = type /\ Message.data = c
  <2>1. /\ o \in DOMAIN raw /\ i \in DOMAIN raw[o] /\ i \in Nat \ {0}
        /\ Reached(o, i + 1, n1, k1) /\ S1[o][i + 1] = S1[o][i] + 1 /\ S1[o][i + 1] <= x
        /\ raw[o][i].type = type /\ raw[o][i].data = c
    BY <1>5, <1>7 DEF Event
  <2>2. CASE Reached(o, i + 1, n, k)
    <3>1. Reached(o, i, n, k)
      BY <1>4, <2>1, <2>2, HistoryPlaces
    <3>2. S1[o][i + 1] = S[o][i + 1] /\ S1[o][i] = S[o][i] /\ S[o][i + 1] <= sequenceNumber
      BY <1>3, <2>2, <3>1
    <3> QED
      BY <2>1, <2>2, <3>2 DEF Event
  <2>3. CASE ~Reached(o, i + 1, n, k)
    <3>1. o = n /\ i = k
      BY <1>1, <1>2, <2>1, <2>3
    <3>2. S1[n][k] = sequenceNumber
      BY <1>1, <1>3
    <3>3. sequenceNumber' = sequenceNumber + 1 /\ sequenceNumber + 1 <= x
      BY <1>1, <2>1, <3>1, <3>2
    <3> QED
      BY <1>1, <2>1, <3>1, <3>3
  <2> QED
    BY <2>2, <2>3
<1>8. ASSUME NEW x \in Nat, x <= sequenceNumber
      PROVE  Happened(type, c, x, S1, n1, k1) <=> Happened(type, c, x, S, n, k)
  <2>1. ASSUME Happened(type, c, x, S1, n1, k1) PROVE Happened(type, c, x, S, n, k)
    <3>1. PICK o, i : Event(type, c, x, S1, n1, k1, o, i)
      BY <2>1, HappenedEvent
    <3>2. ~(sequenceNumber + 1 <= x)
      BY <1>4, <1>8
    <3>3. Event(type, c, x, S, n, k, o, i)
      BY <1>7, <3>1, <3>2
    <3> QED
      BY <3>3, HappenedEvent
  <2>2. ASSUME Happened(type, c, x, S, n, k) PROVE Happened(type, c, x, S1, n1, k1)
    <3>1. PICK o, i : Event(type, c, x, S, n, k, o, i)
      BY <2>2, HappenedEvent
    <3>2. S[o][i + 1] <= x
      BY <3>1 DEF Event
    <3>3. Event(type, c, x, S1, n1, k1, o, i)
      BY <1>6, <3>1, <3>2
    <3> QED
      BY <3>3, HappenedEvent
  <2> QED
    BY <2>1, <2>2
<1>9. ASSUME Happened(type, c, sequenceNumber', S1, n1, k1)
      PROVE  \/ Happened(type, c, sequenceNumber, S, n, k)
             \/ /\ sequenceNumber' = sequenceNumber + 1
                /\ Message.type = type /\ Message.data = c
  <2>1. PICK x : x = sequenceNumber'
    OBVIOUS
  <2>2. PICK o, i : Event(type, c, x, S1, n1, k1, o, i)
    BY <1>9, <2>1, HappenedEvent
  <2>3. CASE Event(type, c, x, S, n, k, o, i) /\ S[o][i + 1] <= sequenceNumber
    <3>1. Event(type, c, sequenceNumber, S, n, k, o, i)
      BY <2>3 DEF Event
    <3> QED
      BY <3>1, HappenedEvent
  <2> QED
    BY <1>7, <2>2, <2>3
<1>10. ASSUME Happened(type, c, sequenceNumber, S, n, k)
       PROVE  Happened(type, c, sequenceNumber', S1, n1, k1)
  <2>1. PICK x \in Nat : x = sequenceNumber'
    BY <1>1, <1>4
  <2>2. PICK o, i : Event(type, c, sequenceNumber, S, n, k, o, i)
    BY <1>10, HappenedEvent
  <2>3. S[o][i + 1] <= x
    <3>1. S[o][i + 1] <= sequenceNumber /\ S[o][i + 1] \in Nat
      BY <1>3, <2>2 DEF Event
    <3> QED
      BY <1>1, <1>4, <2>1, <3>1
  <2>4. Event(type, c, x, S1, n1, k1, o, i)
    BY <1>6, <2>2, <2>3
  <2>5. Happened(type, c, x, S1, n1, k1)
    BY <2>4, HappenedEvent
  <2> QED
    BY <2>1, <2>5
<1>11. ASSUME sequenceNumber' = sequenceNumber + 1, Message.type = type, Message.data = c
       PROVE  Happened(type, c, sequenceNumber', S1, n1, k1)
  <2>1. PICK x \in Nat : x = sequenceNumber'
    BY <1>4, <1>11
  <2>2. S1[n][k] = sequenceNumber /\ Reached(n, k + 1, n1, k1)
    BY <1>1, <1>2, <1>3
  <2>3. Event(type, c, x, S1, n1, k1, n, k)
    BY <1>1, <1>4, <1>11, <2>1, <2>2 DEF Event
  <2>4. Happened(type, c, x, S1, n1, k1)
    BY <2>3, HappenedEvent
  <2> QED
    BY <2>1, <2>4
<1> QED
  BY <1>8, <1>9, <1>10, <1>11

LEMMA FrontierMembers ==
    ASSUME TypeOK, TypeOK', Placed, RawTopic, Ticket, NEW S, NEW C, NEW n, NEW k,
           HistoryFrame(S, C, n, k), HistoryState(S, C, n, k), HistoryOutput(S, n, k),
           NEW S1, NEW C1, NEW n1, NEW k1, Frontier(S1, C1, n1, k1, S, C, n, k)
    PROVE  HistoryMembers(S1, C1, n1, k1)
<1> SUFFICES ASSUME "ClientJoin" \notin Repeatable,
                    NEW o \in Nat, NEW i \in Nat, Reached(o, i, n1, k1), NEW c \in Clients
             PROVE  MembersOfHistory(c, S1[o][i], C1[o][i], S1, n1, k1)
  BY DEF HistoryMembers
<1>1. /\ n \in Nat /\ k \in Nat /\ n \in DOMAIN raw /\ k \in DOMAIN raw[n]
      /\ raw[n][k] = Message
      /\ Reached(n, k, n, k) /\ S[n][k] = sequenceNumber /\ C[n][k] = clients
      /\ S1[n][k + 1] = sequenceNumber' /\ C1[n][k + 1] = clients'
      /\ S1[n + 1][1] = sequenceNumber' /\ C1[n + 1][1] = clients'
  BY FrontierFacts
<1>2. Reached(o, i, n, k) \/ (o = n /\ i = k + 1) \/ (o = n + 1 /\ i = 1)
  BY FrontierFacts
<1>3. /\ \A p, j : Reached(p, j, n, k) =>
             /\ S1[p][j] = S[p][j] /\ C1[p][j] = C[p][j] /\ S[p][j] <= sequenceNumber
             /\ S[p][j] \in Nat
      /\ ~Reached(n, k + 1, n, k)
  BY FrontierFacts
<1>4. \A p, j \in Nat : Reached(p, j, n, k) =>
          \A d \in Clients : MembersOfHistory(d, S[p][j], C[p][j], S, n, k)
  BY DEF HistoryFrame, HistoryMembers
<1>5. \A type : \A x \in Nat : x <= sequenceNumber =>
          (Happened(type, c, x, S1, n1, k1) <=> Happened(type, c, x, S, n, k))
  BY FrontierHappened
<1>6. \A type : Happened(type, c, sequenceNumber', S1, n1, k1) <=>
                  \/ Happened(type, c, sequenceNumber, S, n, k)
                  \/ /\ sequenceNumber' = sequenceNumber + 1
                     /\ Message.type = type /\ Message.data = c
  BY FrontierHappened
<1>7. CASE Reached(o, i, n, k)
  <2>1. MembersOfHistory(c, S[o][i], C[o][i], S, n, k)
    BY <1>4, <1>7
  <2>2. S1[o][i] = S[o][i] /\ C1[o][i] = C[o][i] /\ S[o][i] <= sequenceNumber /\ S[o][i] \in Nat
    BY <1>3, <1>7
  <2>3. \A type : Happened(type, c, S[o][i], S1, n1, k1) <=> Happened(type, c, S[o][i], S, n, k)
    BY <1>5, <2>2
  <2>4. MembersOfHistory(c, S[o][i], C[o][i], S1, n1, k1)
    BY <2>1, <2>3 DEF MembersOfHistory
  <2> QED
    BY <2>2, <2>4
<1>8. CASE ~Reached(o, i, n, k)
  <2>1. S1[o][i] = sequenceNumber' /\ C1[o][i] = clients'
    BY <1>1, <1>2, <1>8
  <2> DEFINE Joined == Happened("ClientJoin", c, sequenceNumber, S, n, k)
             Left == Happened("ClientLeave", c, sequenceNumber, S, n, k)
             Joined1 == Happened("ClientJoin", c, sequenceNumber', S1, n1, k1)
             Left1 == Happened("ClientLeave", c, sequenceNumber', S1, n1, k1)
  <2>2. (Left => Joined) /\ (c \in Tracked <=> Joined /\ ~Left)
    <3>1. MembersOfHistory(c, sequenceNumber, clients, S, n, k)
      BY <1>1, <1>4
    <3> QED
      BY <3>1 DEF MembersOfHistory, Tracked
  <2>3. Joined1 <=> \/ Joined
                    \/ /\ sequenceNumber' = sequenceNumber + 1
                       /\ Message.type = "ClientJoin" /\ Message.data = c
    BY <1>6
  <2>4. Left1 <=> \/ Left
                  \/ /\ sequenceNumber' = sequenceNumber + 1
                     /\ Message.type = "ClientLeave" /\ Message.data = c
    BY <1>6
  <2>5. Message.type = "ClientJoin" /\ Message.data = c => ~Joined
    <3> SUFFICES ASSUME Message.type = "ClientJoin", Message.data = c, Joined PROVE FALSE
      OBVIOUS
    <3>1. PICK p, j : Event("ClientJoin", c, sequenceNumber, S, n, k, p, j)
      BY HappenedEvent
    <3>2. /\ p \in DOMAIN raw /\ j \in DOMAIN raw[p] /\ Reached(p, j + 1, n, k)
          /\ raw[p][j].type = "ClientJoin" /\ raw[p][j].data = c
      BY <3>1 DEF Event
    <3>3. p = n /\ j = k
      BY <1>1, <3>2 DEF RawTopic, JoinedOnce
    <3> QED
      BY <1>3, <3>2, <3>3
  <2> HIDE DEF Joined, Left, Joined1, Left1
  <2>6. \A m \in Operations : m.src # Source
    <3> SUFFICES ASSUME NEW m \in Operations, m.src = Source PROVE FALSE
      OBVIOUS
    <3>1. m.src[1] = n /\ m.src[2] = k
      BY DEF Source, Frontier
    <3>2. Reached(m.src[1], m.src[2] + 1, n, k)
      BY DEF HistoryOutput
    <3> QED
      BY <1>3, <3>1, <3>2
  <2>7. Message.type \notin {"Operation", "NoOp", "Summarize"} => Message.clientId = None
    BY MessageAdmissible DEF Admissible
  <2>8. \/ Message.type = "ClientJoin" /\ Message.data \in Tracked
        \/ sequenceNumber' = sequenceNumber /\ TrackedIn(clients') = Tracked
        \/ /\ sequenceNumber' = sequenceNumber + 1
           /\ FirstJoin(Message) \/ FirstLeave(Message) \/ NoJoinOrLeave(Message)
    BY <2>6, <2>7, TicketMembership
  <2>9. sequenceNumber \in Nat
    BY DEF TypeOK, LambdaTypeOK
  <2>10. (Left1 => Joined1) /\ (c \in TrackedIn(clients') <=> Joined1 /\ ~Left1)
    <3>1. CASE Message.type = "ClientJoin" /\ Message.data \in Tracked
      <4>1. Message.data \in Clients
        BY <3>1 DEF Tracked, TrackedIn
      <4>2. Happened("ClientJoin", Message.data, sequenceNumber, S, n, k)
        <5>1. MembersOfHistory(Message.data, sequenceNumber, clients, S, n, k)
          BY <1>1, <1>4, <4>1
        <5> QED
          BY <3>1, <5>1 DEF MembersOfHistory, Tracked
      <4>3. PICK p, j : Event("ClientJoin", Message.data, sequenceNumber, S, n, k, p, j)
        BY <4>2, HappenedEvent
      <4>4. /\ p \in DOMAIN raw /\ j \in DOMAIN raw[p] /\ Reached(p, j + 1, n, k)
            /\ raw[p][j].type = "ClientJoin" /\ raw[p][j].data = Message.data
        BY <4>3 DEF Event
      <4>5. p = n /\ j = k
        BY <1>1, <3>1, <4>4 DEF RawTopic, JoinedOnce
      <4> QED
        BY <1>3, <4>4, <4>5
    <3>2. CASE sequenceNumber' = sequenceNumber /\ TrackedIn(clients') = Tracked
      <4>1. sequenceNumber' # sequenceNumber + 1
        BY <2>9, <3>2
      <4>2. (Joined1 <=> Joined) /\ (Left1 <=> Left)
        BY <2>3, <2>4, <4>1
      <4> QED
        BY <2>2, <3>2, <4>2
    <3>3. CASE sequenceNumber' = sequenceNumber + 1 /\ FirstJoin(Message)
      <4>1. /\ Message.type = "ClientJoin" /\ Message.type # "ClientLeave"
            /\ c \in TrackedIn(clients') <=> c \in Tracked \/ c = Message.data
        BY <3>3 DEF FirstJoin
      <4> QED
        BY <2>2, <2>3, <2>4, <2>5, <3>3, <4>1
    <3>4. CASE sequenceNumber' = sequenceNumber + 1 /\ FirstLeave(Message)
      <4>1. /\ Message.type = "ClientLeave" /\ Message.type # "ClientJoin"
            /\ Message.data \in Tracked
            /\ c \in TrackedIn(clients') <=> c \in Tracked /\ c # Message.data
        BY <3>4 DEF FirstLeave
      <4> QED
        BY <2>2, <2>3, <2>4, <3>4, <4>1
    <3>5. CASE sequenceNumber' = sequenceNumber + 1 /\ NoJoinOrLeave(Message)
      <4>1. /\ Message.type # "ClientLeave" /\ Message.type # "ClientJoin"
            /\ c \in TrackedIn(clients') <=> c \in Tracked
        BY <3>5 DEF NoJoinOrLeave
      <4> QED
        BY <2>2, <2>3, <2>4, <3>5, <4>1
    <3> QED
      BY <2>8, <3>1, <3>2, <3>3, <3>4, <3>5
  <2>11. MembersOfHistory(c, sequenceNumber', clients', S1, n1, k1)
    BY <2>10 DEF MembersOfHistory, Joined1, Left1
  <2> QED
    BY <2>1, <2>11
<1> QED
  BY <1>7, <1>8

LEMMA FrontierContinues ==
    ASSUME TypeOK, Placed, Ticket, NEW S, NEW C, NEW n, NEW k,
           HistoryFrame(S, C, n, k), HistoryState(S, C, n, k),
           NEW S1, NEW C1, NEW n1, NEW k1, Frontier(S1, C1, n1, k1, S, C, n, k)
    PROVE  Continues(S1, C1, n1, k1, S, C, n, k)
<1>1. n = logOffset /\ k = cursor /\ NextPlace(n1, k1, n, k)
  BY DEF Frontier
<1>2. /\ \A o, i : Reached(o, i, n1, k1) <=>
             \/ Reached(o, i, n, k)
             \/ o = n /\ i = k + 1
             \/ o = n + 1 /\ i = 1 /\ k = Len(raw[n])
      /\ \A o, i : Reached(o, i, n, k) => S1[o][i] = S[o][i] /\ C1[o][i] = C[o][i]
      /\ S1[n][k + 1] = sequenceNumber' /\ C1[n][k + 1] = clients'
      /\ S1[n + 1][1] = sequenceNumber' /\ C1[n + 1][1] = clients'
  BY FrontierFacts
<1>3. n1 = HandlerBoxcar' /\ k1 = HandlerMessage'
  BY <1>1, TicketPlace DEF NextPlace, AfterMessage, AfterBoxcar
<1> QED
  BY <1>1, <1>2, <1>3 DEF Continues

LEMMA TicketHistory ==
    ASSUME TypeOK, TypeOK', Placed, RawTopic, Repeating, Ticket,
           NEW S, NEW C, NEW n, NEW k, History(S, C, n, k)
    PROVE  (\E S1, C1, n1, k1 : History(S1, C1, n1, k1))'
<1>0. /\ HistoryFrame(S, C, n, k) /\ HistoryState(S, C, n, k)
      /\ HistoryCheckpoints(S, C, n, k) /\ HistoryOutput(S, n, k) /\ HistoryShape(S, C, n, k)
  BY HistoryParts DEF HistoryFrame
<1>1. raw' = raw /\ frozen' = frozen
  BY DEF Ticket, UnchangedByTicket, logs, environment
<1>2. ASSUME NEW S1, NEW C1, NEW n1, NEW k1, HistoryFrame(S1, C1, n1, k1),
             Continues(S1, C1, n1, k1, S, C, n, k)
      PROVE  History(S1, C1, n1, k1)'
  <2>1. HistoryFrame(S1, C1, n1, k1)'
    <3>1. RawKept
      <4>1. raw \in Seq(Seq(RawMessages) \ {<<>>})
        BY DEF TypeOK, ConsumerTypeOK
      <4>2. \A o \in DOMAIN raw : raw[o] \in Seq(RawMessages)
        BY <4>1
      <4>3. Len(raw) \in Nat /\ \A o \in DOMAIN raw : Len(raw[o]) \in Nat
        BY <4>1, <4>2
      <4> QED
        BY <1>1, <4>3 DEF RawKept
    <3>2. Placed'
      BY <1>1 DEF Placed, Ticket, UnchangedByTicket, consumer
    <3>3. frozen <= frozen'
      BY <1>1 DEF TypeOK, EnvironmentTypeOK
    <3> QED
      BY <1>2, <3>1, <3>2, <3>3, FrameStays
  <2>2. HistoryState(S1, C1, n1, k1)'
    BY <1>0, <1>2, ContinuedState
  <2>3. HistoryCheckpoints(S1, C1, n1, k1)' /\ HistoryOutput(S1, n1, k1)'
    BY <1>0, <1>2, ContinuedCheckpoints, ContinuedOutput
  <2> QED
    BY <2>1, <2>2, <2>3 DEF History, HistoryFrame
<1>3. CASE ~(logOffset = n /\ cursor = k)
  <2>1. Continues(S, C, n, k, S, C, n, k)
    BY <1>0, <1>3, ReplayedMessage
  <2> QED
    BY <1>0, <1>2, <2>1
<1>4. CASE logOffset = n /\ cursor = k
  <2>1. /\ n \in Nat /\ k \in Nat /\ Len(raw[n]) \in Nat /\ k <= Len(raw[n])
    BY <1>4, TicketPlace
  <2>2. PICK n1, k1 : NextPlace(n1, k1, n, k)
    <3>1. k < Len(raw[n]) \/ k = Len(raw[n])
      BY <2>1
    <3> QED
      BY <3>1 DEF NextPlace
  <2>3. PICK S1 \in [Nat -> [Nat -> Nat]] : Extended(S1, S, n, k, sequenceNumber')
    <3>1. S \in [Nat -> [Nat -> Nat]] /\ sequenceNumber' \in Nat
      BY <1>0 DEF HistoryShape, TypeOK, LambdaTypeOK
    <3> QED
      BY <2>1, <3>1, Extension
  <2>4. PICK C1 \in [Nat -> [Nat -> [Clients -> ClientStates \cup {None}]]] :
            Extended(C1, C, n, k, clients')
    <3>1. /\ C \in [Nat -> [Nat -> [Clients -> ClientStates \cup {None}]]]
          /\ clients' \in [Clients -> ClientStates \cup {None}]
      BY <1>0 DEF HistoryShape, TypeOK, LambdaTypeOK
    <3> QED
      BY <2>1, <3>1, Extension
  <2>5. Frontier(S1, C1, n1, k1, S, C, n, k)
    BY <1>4, <2>2, <2>3, <2>4 DEF Frontier
  <2>6. HistoryFrame(S1, C1, n1, k1)
    BY <1>0, <2>5, FrontierShape, FrontierSteps, FrontierMembers DEF HistoryFrame
  <2>7. Continues(S1, C1, n1, k1, S, C, n, k)
    BY <1>0, <2>5, FrontierContinues
  <2> QED
    BY <1>2, <2>6, <2>7
<1> QED
  BY <1>3, <1>4

LEMMA HistoryInit ==
    ASSUME Init
    PROVE  HistoryInv
<1> USE DEF Init
<1>1. raw = <<>> /\ reverse = <<>> /\ DOMAIN raw = {} /\ DOMAIN reverse = {} /\ Len(raw) = 0
  OBVIOUS
<1>2. RawTopic
  BY <1>1 DEF RawTopic, JoinedOnce
<1>3. Repeating
  <2>1. TrackedIn(clients) = {}
    BY DEF TrackedIn, DefaultCheckpoint
  <2>2. MinimumOf(clients, sequenceNumber) = 0
    BY <2>1 DEF MinimumOf
  <2>3. db # Cleared
    BY DeliConstants
  <2> QED
    BY <2>2, <2>3 DEF Repeating
<1> DEFINE S == [o \in Nat |-> [i \in Nat |-> 0]]
           C == [o \in Nat |-> [i \in Nat |-> DefaultCheckpoint.clients]]
<1>4. /\ \A o, i \in Nat : S[o][i] = 0 /\ C[o][i] = DefaultCheckpoint.clients
      /\ S \in [Nat -> [Nat -> Nat]]
      /\ C \in [Nat -> [Nat -> [Clients -> ClientStates \cup {None}]]]
  <2>1. DefaultCheckpoint.clients \in [Clients -> ClientStates \cup {None}]
    BY DEF DefaultCheckpoint
  <2> QED
    BY <2>1
<1> HIDE DEF S, C
<1>5. \A o, i : Reached(o, i, 1, 1) <=> o = 1 /\ i = 1
  BY DEF Reached
<1>6. frozen = 0 /\ frozen + 1 = 1
  OBVIOUS
<1>7. HistoryShape(S, C, 1, 1)
  <2>1. S[1][1] = 0 /\ C[1][1] = DefaultCheckpoint.clients
    BY <1>4
  <2>2. 1 \in 1 .. frozen + 1
    BY <1>6
  <2>3. 1 <= Len(raw) => 1 <= Len(raw[1])
    <3>1. ~(1 <= Len(raw))
      BY <1>1
    <3> QED
      BY <3>1
  <2>4. 1 \in Nat \ {0}
    OBVIOUS
  <2> QED
    BY <1>4, <2>1, <2>2, <2>3, <2>4 DEF HistoryShape
<1>8. HistorySteps(S, C, 1, 1)
  <2>1. \A o \in Nat, i \in Nat \ {0} : ~Reached(o, i + 1, 1, 1)
    BY <1>5
  <2>2. 1 .. 1 - 1 = {}
    OBVIOUS
  <2>3. ASSUME NEW o \in Nat, NEW i \in Nat, NEW p \in Nat, NEW j \in Nat
        PROVE  S[o][i] <= S[p][j]
    <3>1. S[o][i] = 0 /\ S[p][j] = 0
      BY <1>4
    <3> QED
      BY <3>1
  <2> QED
    BY <2>1, <2>2, <2>3 DEF HistorySteps
<1>9. HistoryState(S, C, 1, 1)
  <2>1. HandlerBoxcar = 1 /\ HandlerMessage = 1
    BY DEF HandlerBoxcar, HandlerMessage
  <2> QED
    BY <1>4, <1>5, <2>1 DEF HistoryState
<1>10. HistoryCheckpoints(S, C, 1, 1)
  <2>1. InProgress = {}
    BY DEF InProgress
  <2> QED
    BY <2>1 DEF HistoryCheckpoints
<1>11. HistoryOutput(S, 1, 1)
  <2>1. Output = <<>>
    BY DEF Output
  <2>2. Operations = {}
    BY <2>1 DEF Operations
  <2> QED
    BY <2>2 DEF HistoryOutput
<1>12. HistoryMembers(S, C, 1, 1)
  <2>1. \A type, c, x : ~Happened(type, c, x, S, 1, 1)
    BY <1>1 DEF Happened
  <2>2. \A c \in Clients : c \notin TrackedIn(DefaultCheckpoint.clients)
    BY DEF DefaultCheckpoint, TrackedIn
  <2> QED
    BY <1>4, <2>1, <2>2 DEF HistoryMembers, MembersOfHistory
<1>13. History(S, C, 1, 1)
  BY <1>7, <1>8, <1>9, <1>10, <1>11, <1>12 DEF History
<1> QED
  BY <1>2, <1>3, <1>13 DEF HistoryInv

LEMMA HistoryStep ==
    ASSUME TypeOK, TypeOK', MaxBoxcar # 0, Restarting, CommitFollowsRecord, HistoryInv,
           [Next]_vars
    PROVE  HistoryInv'
<1>1. RawTopic /\ Repeating
  BY DEF HistoryInv
<1>2. RawKept /\ RawTopic'
  BY <1>1, RawTopicStep
<1>3. Repeating'
  BY <1>1, RepeatingStep
<1>4. Placed /\ Placed'
  BY <1>1, <1>2 DEF RawTopic, Placed
<1>5. PICK S, C, n, k : History(S, C, n, k)
  BY DEF HistoryInv
<1>6. (\E S1, C1, n1, k1 : History(S1, C1, n1, k1))'
  <2>1. CASE Ticket
    BY <1>1, <1>4, <1>5, <2>1, TicketHistory
  <2>2. CASE Restart
    <3>1. db # Cleared
      <4>1. MaxRestarts # 0
        BY <2>2 DEF Restart, TypeOK, EnvironmentTypeOK
      <4> QED
        BY <1>1, <4>1 DEF Restarting, Repeating
    <3>2. History(S, C, n, k)'
      BY <1>2, <1>4, <1>5, <2>2, <3>1, RestartHistory
    <3> QED
      BY <3>2
  <2>3. CASE ~Ticket /\ ~Restart
    <3>1. History(S, C, n, k)'
      BY <1>2, <1>4, <1>5, <2>3, QuietHistory
    <3> QED
      BY <3>1
  <2> QED
    BY <2>1, <2>2, <2>3
<1> QED
  BY <1>2, <1>3, <1>6 DEF HistoryInv

(* However often the lambda restarts, what it has ticketed is one history  *)
(* of the raw topic: the handler, every checkpoint and every operation     *)
(* sent are at a place of it, and what is ticketed again gets what it got. *)
THEOREM HistoryInvariant ==
    ASSUME MaxBoxcar # 0, MaxRestarts = 0 \/ Repeats
    PROVE  Spec => []HistoryInv
<1>1. Restarting
  BY DEF Restarting
<1>2. TypeOK /\ TypeOK' /\ CommitFollowsRecord /\ HistoryInv /\ [Next]_vars => HistoryInv'
  BY <1>1, HistoryStep
<1> QED
  BY <1>2, HistoryInit, TypeCorrect, RecordBeforeCommit, PTL DEF Spec

-----------------------------------------------------------------------------
(* The refinement of TotalOrder.                                           *)

OperationPlace(m) ==
    /\ m \in OutputMessages /\ m.src \in Nat \X Nat /\ m.seq \in Nat
    /\ m.src[1] \in Nat /\ m.src[2] \in Nat \ {0}

LEMMA OperationsPlaced ==
    ASSUME TypeOK, NEW S, NEW n, NEW k, HistoryOutput(S, n, k), NEW m \in Operations
    PROVE  OperationPlace(m) /\ m.src = <<m.src[1], m.src[2]>>
<1>1. m \in OutputMessages
  BY OperationType DEF TypeOK
<1>2. m.src \in Nat \X Nat /\ m.seq \in Nat
  BY <1>1 DEF OutputMessages
<1>3. m.src[2] # 0
  BY DEF HistoryOutput
<1> QED
  BY <1>1, <1>2, <1>3 DEF OperationPlace

Earlier(m, l) == m.src[1] < l.src[1] \/ (m.src[1] = l.src[1] /\ m.src[2] < l.src[2])

(* What is later in the raw topic has the higher number. *)
LEMMA EarlierLower ==
    ASSUME TypeOK, Placed, NEW S, NEW C, NEW n, NEW k, History(S, C, n, k),
           NEW m \in Operations, NEW l \in Operations, Earlier(m, l)
    PROVE  m.seq < l.seq
<1>1. HistoryShape(S, C, n, k) /\ HistorySteps(S, C, n, k) /\ HistoryOutput(S, n, k)
  BY DEF History
<1>2. OperationPlace(m) /\ OperationPlace(l)
  BY <1>1, OperationsPlaced
<1>3. PICK o \in Nat, i \in Nat \ {0}, p \in Nat, j \in Nat \ {0} :
          o = m.src[1] /\ i = m.src[2] /\ p = l.src[1] /\ j = l.src[2]
  BY <1>2 DEF OperationPlace
<1>4. /\ Reached(o, i + 1, n, k) /\ S[o][i + 1] = m.seq
      /\ Reached(p, j + 1, n, k) /\ S[p][j] + 1 = l.seq
  BY <1>1, <1>3 DEF HistoryOutput
<1>5. Reached(p, j, n, k)
  BY <1>1, <1>4, HistoryPlaces
<1>6. o < p \/ (o = p /\ i + 1 <= j)
  BY <1>3 DEF Earlier
<1>7. S[o][i + 1] <= S[p][j]
  <2>1. i + 1 \in Nat /\ j \in Nat
    OBVIOUS
  <2> QED
    BY <1>1, <1>4, <1>5, <1>6, <2>1 DEF HistorySteps
<1>8. S[p][j] \in Nat
  <2>1. S \in [Nat -> [Nat -> Nat]]
    BY <1>1 DEF HistoryShape
  <2> QED
    BY <2>1
<1> QED
  BY <1>2, <1>4, <1>7, <1>8 DEF OperationPlace

(* No number is given to two messages, and no message gets two numbers. *)
LEMMA NumbersUnique ==
    ASSUME TypeOK, HistoryInv, NEW m \in Operations, NEW l \in Operations
    PROVE  m.seq = l.seq <=> m.src = l.src
<1>1. PICK S, C, n, k : History(S, C, n, k)
  BY DEF HistoryInv
<1>2. Placed
  BY DEF HistoryInv, RawTopic, Placed
<1>3. HistoryOutput(S, n, k)
  BY <1>1 DEF History
<1>4. /\ OperationPlace(m) /\ m.src = <<m.src[1], m.src[2]>>
      /\ OperationPlace(l) /\ l.src = <<l.src[1], l.src[2]>>
  BY <1>3, OperationsPlaced
<1>5. Earlier(m, l) \/ Earlier(l, m) \/ (m.src[1] = l.src[1] /\ m.src[2] = l.src[2])
  BY <1>4 DEF Earlier, OperationPlace
<1>6. CASE Earlier(m, l)
  <2>1. m.seq < l.seq /\ m.seq \in Nat /\ l.seq \in Nat
    BY <1>1, <1>2, <1>4, <1>6, EarlierLower DEF OperationPlace
  <2>2. m.src # l.src
    BY <1>4, <1>6 DEF Earlier, OperationPlace
  <2> QED
    BY <2>1, <2>2
<1>7. CASE Earlier(l, m)
  <2>1. l.seq < m.seq /\ m.seq \in Nat /\ l.seq \in Nat
    BY <1>1, <1>2, <1>4, <1>7, EarlierLower DEF OperationPlace
  <2>2. m.src # l.src
    BY <1>4, <1>7 DEF Earlier, OperationPlace
  <2> QED
    BY <2>1, <2>2
<1>8. CASE m.src[1] = l.src[1] /\ m.src[2] = l.src[2]
  <2>1. m.src = l.src
    BY <1>4, <1>8
  <2>2. S[m.src[1]][m.src[2] + 1] = m.seq /\ S[l.src[1]][l.src[2] + 1] = l.seq
    BY <1>3 DEF HistoryOutput
  <2> QED
    BY <2>1, <2>2
<1> QED
  BY <1>5, <1>6, <1>7, <1>8

(* Only an answer from the producer adds to what is durable. *)
LEMMA DeltasOnly ==
    ASSUME [Next]_vars, ~ForwardProduced
    PROVE  deltas' = deltas
<1> USE DEF logs, window, lambda, consumer, inFlight, checkpointing, environment
<1>1. CASE Environment
  BY <1>1 DEF Environment, Connect, Submit, Disconnect, LoseMessage, RepeatBoxcar,
              ServiceSummary, UnchangedByEnvironment
<1>2. CASE ~Environment
  BY <1>2 DEF Next, vars, Process, Deliver, Ticket, UnchangedByTicket, IdleTimerFires,
         NoopTimerFires, ReverseProduced, CheckpointReady, Update, Updated, Restart
<1> QED
  BY <1>1, <1>2

(* A set of numbered entries, one for each of the first n numbers. *)
LEMMA CountNumbers ==
    ASSUME NEW R, NEW n \in Nat,
           \A e \in R : e[1] \in 1 .. n,
           \A e, f \in R : e[1] = f[1] => e = f,
           \A x \in 1 .. n : \E e \in R : e[1] = x
    PROVE  Cardinality(R) = n
<1> DEFINE entry == [x \in 1 .. n |-> CHOOSE e \in R : e[1] = x]
<1>1. \A x \in 1 .. n : entry[x] \in R /\ entry[x][1] = x
  OBVIOUS
<1>2. entry \in [1 .. n -> R]
  BY <1>1
<1>3. \A x, y \in 1 .. n : entry[x] = entry[y] => x = y
  BY <1>1
<1>4. \A e \in R : \E x \in 1 .. n : entry[x] = e
  <2>1. SUFFICES ASSUME NEW e \in R PROVE \E x \in 1 .. n : entry[x] = e
    OBVIOUS
  <2>2. e[1] \in 1 .. n
    OBVIOUS
  <2>3. entry[e[1]] = e
    BY <1>1, <2>2
  <2> QED
    BY <2>2, <2>3
<1> HIDE DEF entry
<1>5. ExistsBijection(1 .. n, R)
  BY <1>2, <1>3, <1>4 DEF ExistsBijection, Bijection, Injection, Surjection, IsInjective
<1> QED
  BY <1>5, FS_CountingElements

Numbering == {<<deltas[i].seq, deltas[i].src>> : i \in Sequenced}

Arrived == {<<o, i>> : o \in DOMAIN raw, i \in 1 .. MaxBoxcar}

(* The durable operations are operations; their places are those sent. *)
LEMMA DurableOperations ==
    ASSUME SendsTypeOK
    PROVE  /\ \A i \in Sequenced : /\ i \in DOMAIN deltas /\ i \in Nat /\ i >= 1 /\ i <= Len(deltas)
                                   /\ i \in DOMAIN Output /\ Output[i] = deltas[i]
                                   /\ deltas[i].kind = "op" /\ deltas[i] \in Operations
           /\ \A i \in DOMAIN Output : i <= Len(deltas) /\ Output[i].kind = "op" => i \in Sequenced
<1>1. /\ deltas \in Seq(OutputMessages) /\ Output \in Seq(OutputMessages)
      /\ Len(deltas) <= Len(Output) /\ Len(deltas) \in Nat /\ Len(Output) \in Nat
      /\ \A i \in 1 .. Len(deltas) : Output[i] = deltas[i]
      /\ DOMAIN deltas = 1 .. Len(deltas) /\ DOMAIN Output = 1 .. Len(Output)
  BY OutputGrows
<1>2. ASSUME NEW i \in Sequenced
      PROVE  /\ i \in DOMAIN deltas /\ i \in Nat /\ i >= 1 /\ i <= Len(deltas)
             /\ i \in DOMAIN Output /\ Output[i] = deltas[i]
             /\ deltas[i].kind = "op" /\ deltas[i] \in Operations
  <2>1. i \in DOMAIN deltas /\ deltas[i].kind = "op"
    BY DEF Sequenced
  <2>2. i \in Nat /\ i >= 1 /\ i <= Len(deltas) /\ i \in DOMAIN Output /\ Output[i] = deltas[i]
    BY <1>1, <2>1
  <2> QED
    BY <2>1, <2>2 DEF Operations
<1>3. ASSUME NEW i \in DOMAIN Output, i <= Len(deltas), Output[i].kind = "op"
      PROVE  i \in Sequenced
  <2>1. i \in 1 .. Len(deltas)
    BY <1>1, <1>3
  <2>2. i \in DOMAIN deltas /\ deltas[i].kind = "op"
    BY <1>1, <1>3, <2>1
  <2> QED
    BY <2>2 DEF Sequenced
<1> QED
  BY <1>2, <1>3

LEMMA NumbersPositive ==
    ASSUME TypeOK, HistoryInv, NEW m \in Operations
    PROVE  m.seq \in Nat /\ m.seq >= 1
<1>1. PICK S, C, n, k : History(S, C, n, k)
  BY DEF HistoryInv
<1>2. HistoryShape(S, C, n, k) /\ HistoryOutput(S, n, k)
  BY <1>1 DEF History
<1>3. OperationPlace(m)
  BY <1>2, OperationsPlaced
<1>4. PICK o \in Nat, i \in Nat : o = m.src[1] /\ i = m.src[2]
  BY <1>3 DEF OperationPlace
<1>5. S[o][i] + 1 = m.seq
  BY <1>2, <1>4 DEF HistoryOutput
<1>6. S[o][i] \in Nat
  <2>1. S \in [Nat -> [Nat -> Nat]]
    BY <1>2 DEF HistoryShape
  <2> QED
    BY <2>1
<1> QED
  BY <1>5, <1>6

(* The place of an operation is one where a message has arrived. *)
LEMMA OperationArrived ==
    ASSUME TypeOK, HistoryInv, NEW m \in Operations
    PROVE  m.src \in Arrived
<1>1. PICK S, C, n, k : History(S, C, n, k)
  BY DEF HistoryInv
<1>2. HistoryShape(S, C, n, k) /\ HistoryOutput(S, n, k)
  BY <1>1 DEF History
<1>3. RawTopic /\ Placed
  BY DEF HistoryInv, RawTopic, Placed
<1>4. OperationPlace(m) /\ m.src = <<m.src[1], m.src[2]>>
  BY <1>2, OperationsPlaced
<1>5. PICK o \in Nat, i \in Nat \ {0} : o = m.src[1] /\ i = m.src[2]
  BY <1>4 DEF OperationPlace
<1>6. Reached(o, i + 1, n, k)
  BY <1>2, <1>5 DEF HistoryOutput
<1>7. o \in DOMAIN raw /\ i \in DOMAIN raw[o]
  BY <1>2, <1>3, <1>6, HistoryPlaces
<1>8. Len(raw[o]) <= MaxBoxcar
  BY <1>3, <1>7 DEF RawTopic
<1>9. i \in 1 .. MaxBoxcar
  <2>1. raw[o] \in Seq(RawMessages)
    BY <1>7 DEF TypeOK, ConsumerTypeOK
  <2>2. Len(raw[o]) \in Nat /\ i <= Len(raw[o]) /\ MaxBoxcar \in Nat
    BY <1>7, <2>1, DeliConstants
  <2> QED
    BY <1>8, <2>2
<1>10. <<o, i>> \in Arrived
  BY <1>7, <1>9 DEF Arrived
<1> QED
  BY <1>4, <1>5, <1>10

(* The operation whose answer comes next either repeats a durable one or   *)
(* has the number after all that are durable.                              *)
LEMMA NextOperation ==
    ASSUME TypeOK, HistoryInv, DenseInv, NEW e, e = Len(deltas) + 1, e \in DOMAIN Output,
           Output[e].kind = "op"
    PROVE  \/ <<Output[e].seq, Output[e].src>> \in Numbering
           \/ /\ Cardinality(Numbering) + 1 = Output[e].seq
              /\ Output[e].src \in Arrived
              /\ \A entry \in Numbering : entry[2] # Output[e].src
<1> DEFINE m == Output[e]
<1>1. SendsTypeOK
  BY DEF TypeOK
<1>2. m \in Operations
  BY DEF Operations
<1>3. m.seq \in Nat /\ m.seq >= 1 /\ m.src \in Arrived
  BY <1>2, NumbersPositive, OperationArrived
<1>4. Len(deltas) \in Nat
  BY <1>1, OutputGrows
<1> HIDE DEF m
<1>5. CASE \E i \in Sequenced : deltas[i].seq = m.seq
  <2>1. PICK i \in Sequenced : deltas[i].seq = m.seq
    BY <1>5
  <2>2. deltas[i].src = m.src
    BY <1>1, <1>2, <2>1, DurableOperations, NumbersUnique
  <2>3. <<m.seq, m.src>> \in Numbering
    BY <2>1, <2>2 DEF Numbering
  <2> QED
    BY <2>3 DEF m
<1>6. CASE ~\E i \in Sequenced : deltas[i].seq = m.seq
  <2>1. Dense(Output)
    BY DEF DenseInv
  <2>2. \A x \in 1 .. m.seq - 1 : \E i \in Sequenced : deltas[i].seq = x
    <3>1. Covered(Output, m.seq - 1, e - 1)
      BY <2>1 DEF Dense, m
    <3>2. SUFFICES ASSUME NEW x \in 1 .. m.seq - 1
                   PROVE  \E i \in Sequenced : deltas[i].seq = x
      OBVIOUS
    <3>3. PICK i \in 1 .. e - 1 : i \in DOMAIN Output /\ Output[i].kind = "op" /\ Output[i].seq = x
      BY <3>1 DEF Covered
    <3>4. i <= Len(deltas)
      BY <1>4, <3>3
    <3>5. i \in Sequenced
      BY <1>1, <3>3, <3>4, DurableOperations
    <3>6. Output[i] = deltas[i]
      BY <1>1, <3>5, DurableOperations
    <3> QED
      BY <3>3, <3>5, <3>6
  <2>3. ASSUME NEW i \in Sequenced PROVE deltas[i].seq \in 1 .. m.seq - 1
    <3>1. /\ i \in DOMAIN Output /\ Output[i] = deltas[i] /\ i \in Nat /\ i <= Len(deltas)
          /\ deltas[i] \in Operations /\ deltas[i].kind = "op"
      BY <1>1, DurableOperations
    <3>2. deltas[i].seq \in Nat /\ deltas[i].seq >= 1
      BY <3>1, NumbersPositive
    <3>3. deltas[i].seq # m.seq
      BY <1>6
    <3>4. ASSUME deltas[i].seq > m.seq PROVE FALSE
      <4>1. Covered(Output, deltas[i].seq - 1, i - 1)
        <5>1. Covered(Output, Output[i].seq - 1, i - 1)
          BY <2>1, <3>1 DEF Dense
        <5> QED
          BY <3>1, <5>1
      <4>2. m.seq \in 1 .. deltas[i].seq - 1
        BY <1>3, <3>2, <3>4
      <4>3. PICK j \in 1 .. i - 1 : j \in DOMAIN Output /\ Output[j].kind = "op" /\ Output[j].seq = m.seq
        BY <4>1, <4>2 DEF Covered
      <4>4. j <= Len(deltas)
        BY <1>4, <3>1, <4>3
      <4>5. j \in Sequenced
        BY <1>1, <4>3, <4>4, DurableOperations
      <4>6. Output[j] = deltas[j]
        BY <1>1, <4>5, DurableOperations
      <4> QED
        BY <1>6, <4>3, <4>5, <4>6
    <3> QED
      BY <1>3, <3>2, <3>3, <3>4
  <2>4. \A entry \in Numbering : entry[1] \in 1 .. m.seq - 1
    <3>1. SUFFICES ASSUME NEW entry \in Numbering PROVE entry[1] \in 1 .. m.seq - 1
      OBVIOUS
    <3>2. PICK i \in Sequenced : entry = <<deltas[i].seq, deltas[i].src>>
      BY DEF Numbering
    <3> QED
      BY <2>3, <3>2
  <2>5. \A entry, other \in Numbering : entry[1] = other[1] => entry = other
    <3>1. SUFFICES ASSUME NEW entry \in Numbering, NEW other \in Numbering, entry[1] = other[1]
                   PROVE  entry = other
      OBVIOUS
    <3>2. PICK i \in Sequenced : entry = <<deltas[i].seq, deltas[i].src>>
      BY DEF Numbering
    <3>3. PICK j \in Sequenced : other = <<deltas[j].seq, deltas[j].src>>
      BY DEF Numbering
    <3>4. deltas[i].seq = deltas[j].seq
      BY <3>1, <3>2, <3>3
    <3>5. deltas[i] \in Operations /\ deltas[j] \in Operations
      BY <1>1, DurableOperations
    <3>6. deltas[i].src = deltas[j].src
      BY <3>4, <3>5, NumbersUnique
    <3> QED
      BY <3>2, <3>3, <3>4, <3>6
  <2>6. \A x \in 1 .. m.seq - 1 : \E entry \in Numbering : entry[1] = x
    <3>1. SUFFICES ASSUME NEW x \in 1 .. m.seq - 1 PROVE \E entry \in Numbering : entry[1] = x
      OBVIOUS
    <3>2. PICK i \in Sequenced : deltas[i].seq = x
      BY <2>2
    <3>3. <<deltas[i].seq, deltas[i].src>> \in Numbering
      BY DEF Numbering
    <3> QED
      BY <3>2, <3>3
  <2>7. m.seq - 1 \in Nat
    BY <1>3
  <2>8. Cardinality(Numbering) = m.seq - 1
    BY <2>4, <2>5, <2>6, <2>7, CountNumbers
  <2>9. \A entry \in Numbering : entry[2] # m.src
    <3>1. SUFFICES ASSUME NEW entry \in Numbering PROVE entry[2] # m.src
      OBVIOUS
    <3>2. PICK i \in Sequenced : entry = <<deltas[i].seq, deltas[i].src>>
      BY DEF Numbering
    <3>3. deltas[i] \in Operations
      BY <1>1, DurableOperations
    <3>4. deltas[i].src # m.src
      BY <1>2, <1>6, <3>3, NumbersUnique
    <3> QED
      BY <3>2, <3>4
  <2>10. Cardinality(Numbering) + 1 = m.seq
    BY <1>3, <2>8
  <2> QED
    BY <1>3, <2>9, <2>10 DEF m
<1> QED
  BY <1>5, <1>6

(* An answer makes one message durable. *)
LEMMA ForwardNumbering ==
    ASSUME TypeOK, ForwardProduced
    PROVE  \E e : /\ e = Len(deltas) + 1 /\ e \in DOMAIN Output
                  /\ Numbering' = IF Output[e].kind = "op"
                                  THEN Numbering \cup {<<Output[e].seq, Output[e].src>>}
                                  ELSE Numbering
<1>1. /\ deltas \in Seq(OutputMessages) /\ sending \in Seq(OutputMessages) /\ sending # <<>>
      /\ deltas' = Append(deltas, Head(sending))
  BY DEF ForwardProduced, TypeOK, SendsTypeOK
<1>2. PICK e : e = Len(deltas) + 1
  OBVIOUS
<1>3. PICK m : m = Head(sending)
  OBVIOUS
<1>4. e \in DOMAIN Output /\ Output[e] = m
  <2>1. Len(sending) \in Nat /\ 1 <= Len(sending) /\ Head(sending) = sending[1] /\ Len(deltas) \in Nat
    BY <1>1
  <2>2. Output[Len(deltas) + 1] = sending[1]
    BY <2>1, OutputPlaces DEF TypeOK
  <2>3. Output \in Seq(OutputMessages) /\ Len(Output) = Len(deltas) + Len(sending)
    BY OutputPlaces DEF TypeOK
  <2> QED
    BY <1>2, <1>3, <2>1, <2>2, <2>3
<1>5. PICK d : d = deltas'
  OBVIOUS
<1>6. /\ DOMAIN d = DOMAIN deltas \cup {e} /\ e \notin DOMAIN deltas
      /\ d[e] = m /\ \A i \in DOMAIN deltas : d[i] = deltas[i]
  <2>1. d = Append(deltas, m) /\ Len(deltas) \in Nat /\ DOMAIN deltas = 1 .. Len(deltas)
    BY <1>1, <1>3, <1>5
  <2>2. DOMAIN d = 1 .. Len(deltas) + 1 /\ d[Len(deltas) + 1] = m
        /\ \A i \in 1 .. Len(deltas) : d[i] = deltas[i]
    BY <1>1, <2>1
  <2> QED
    BY <1>2, <2>1, <2>2
<1>7. Numbering' = {<<d[i].seq, d[i].src>> : i \in {j \in DOMAIN d : d[j].kind = "op"}}
  BY <1>5 DEF Numbering, Sequenced
<1>8. CASE m.kind = "op"
  <2>1. Sequenced \cup {e} = {j \in DOMAIN d : d[j].kind = "op"}
    BY <1>6, <1>8 DEF Sequenced
  <2>2. \A i \in Sequenced : d[i] = deltas[i]
    BY <1>6 DEF Sequenced
  <2>3. {<<d[i].seq, d[i].src>> : i \in Sequenced \cup {e}} = Numbering \cup {<<m.seq, m.src>>}
    BY <1>6, <2>2 DEF Numbering
  <2> QED
    BY <1>2, <1>4, <1>7, <1>8, <2>1, <2>3
<1>9. CASE m.kind # "op"
  <2>1. Sequenced = {j \in DOMAIN d : d[j].kind = "op"}
    BY <1>6, <1>9 DEF Sequenced
  <2>2. \A i \in Sequenced : d[i] = deltas[i]
    BY <1>6 DEF Sequenced
  <2>3. {<<d[i].seq, d[i].src>> : i \in Sequenced} = Numbering
    BY <2>2 DEF Numbering
  <2> QED
    BY <1>2, <1>4, <1>7, <1>9, <2>1, <2>3
<1> QED
  BY <1>8, <1>9

LEMMA OrderInit == Init => Order0!Init
<1> SUFFICES ASSUME Init PROVE Order0!Init
  OBVIOUS
<1>1. raw = <<>> /\ deltas = <<>>
  BY DEF Init
<1>2. DOMAIN raw = {} /\ Sequenced = {}
  BY <1>1 DEF Sequenced
<1>3. Arrived = {} /\ Numbering = {}
  BY <1>2 DEF Arrived, Numbering
<1> QED
  BY <1>3 DEF Order0!Init, Arrived, Numbering

LEMMA SameCardinality == \A R : Order0!Cardinality(R) = Cardinality(R)
  BY DEF Order0!Cardinality, Cardinality

LEMMA OrderStep ==
    ASSUME TypeOK, TypeOK', HistoryInv, DenseInv, RawKept, [Next]_vars
    PROVE  [Order0!Next]_(Order0!orderVars)
<1>1. Arrived \subseteq Arrived'
  <2>1. DOMAIN raw \subseteq DOMAIN raw'
    BY DEF TypeOK, ConsumerTypeOK, RawKept
  <2> QED
    BY <2>1 DEF Arrived
<1>2. \/ Arrived \subseteq Arrived' /\ Numbering' = Numbering
      \/ /\ Arrived' = Arrived
         /\ \E place \in Arrived :
               /\ \A entry \in Numbering : entry[2] # place
               /\ Numbering' = Numbering \cup {<<Cardinality(Numbering) + 1, place>>}
  <2>1. CASE ForwardProduced
    <3>1. Arrived' = Arrived
      BY <2>1 DEF ForwardProduced, Arrived
    <3>2. PICK e : /\ e = Len(deltas) + 1 /\ e \in DOMAIN Output
                   /\ Numbering' = IF Output[e].kind = "op"
                                   THEN Numbering \cup {<<Output[e].seq, Output[e].src>>}
                                   ELSE Numbering
      BY <2>1, ForwardNumbering
    <3>3. CASE Output[e].kind = "op"
      <4>1. Numbering' = Numbering \cup {<<Output[e].seq, Output[e].src>>}
        BY <3>2, <3>3
      <4>2. CASE <<Output[e].seq, Output[e].src>> \in Numbering
        BY <1>1, <4>1, <4>2
      <4>3. CASE /\ Cardinality(Numbering) + 1 = Output[e].seq
                 /\ Output[e].src \in Arrived
                 /\ \A entry \in Numbering : entry[2] # Output[e].src
        BY <3>1, <4>1, <4>3
      <4> QED
        BY <3>2, <3>3, <4>2, <4>3, NextOperation
    <3> QED
      BY <1>1, <3>2, <3>3
  <2>2. CASE ~ForwardProduced
    <3>1. deltas' = deltas
      BY <2>2, DeltasOnly
    <3> QED
      BY <1>1, <3>1 DEF Numbering, Sequenced
  <2> QED
    BY <2>1, <2>2
<1>3. CASE Arrived \subseteq Arrived' /\ Numbering' = Numbering
  BY <1>3 DEF Order0!Next, Order0!Submit, Order0!orderVars, Arrived, Numbering
<1>4. CASE /\ Arrived' = Arrived
           /\ \E place \in Arrived :
                 /\ \A entry \in Numbering : entry[2] # place
                 /\ Numbering' = Numbering \cup {<<Cardinality(Numbering) + 1, place>>}
  <2>1. PICK place \in Arrived :
            /\ \A entry \in Numbering : entry[2] # place
            /\ Numbering' = Numbering \cup {<<Cardinality(Numbering) + 1, place>>}
    BY <1>4
  <2>2. Order0!Cardinality(Numbering) = Cardinality(Numbering)
    BY SameCardinality
  <2>3. Numbering' = Numbering \cup {<<Order0!Cardinality(Numbering) + 1, place>>}
    BY <2>1, <2>2
  <2>4. /\ \A entry \in Numbering : entry[2] # place
        /\ Numbering' = Numbering \cup {<<Order0!Cardinality(Numbering) + 1, place>>}
        /\ place \in Arrived
    BY <2>1, <2>3
  <2>5. UNCHANGED Arrived
    BY <1>4
  <2>6. Order0!Sequence <=>
            /\ \E m \in Arrived :
                  /\ \A entry \in Numbering : entry[2] # m
                  /\ Numbering' = Numbering \cup {<<Order0!Cardinality(Numbering) + 1, m>>}
            /\ UNCHANGED Arrived
    BY DEF Order0!Sequence, Arrived, Numbering
  <2>7. Order0!Sequence
    BY <2>4, <2>5, <2>6
  <2> QED
    BY <2>7 DEF Order0!Next
<1> QED
  BY <1>2, <1>3, <1>4

(* The durable deltas topic is a total order of the raw messages: number   *)
(* n + 1 goes to a message that has arrived and has no number, once n have *)
(* been given, and none is given twice or taken back, whatever the         *)
(* restarts replay.                                                        *)
THEOREM OrderImplemented ==
    ASSUME MaxBoxcar # 0, MaxRestarts = 0 \/ Repeats
    PROVE  Spec => ImplementsTotalOrder
<1>1. Restarting
  BY DEF Restarting
<1>2. /\ TypeOK /\ TypeOK' /\ HistoryInv /\ DenseInv /\ CommitFollowsRecord /\ [Next]_vars
      => [Order0!Next]_(Order0!orderVars)
  <2>1. ASSUME TypeOK, TypeOK', HistoryInv, DenseInv, CommitFollowsRecord, [Next]_vars
        PROVE  [Order0!Next]_(Order0!orderVars)
    <3>1. RawTopic /\ Repeating
      BY <2>1 DEF HistoryInv
    <3>2. RawKept
      BY <1>1, <2>1, <3>1, RawTopicStep
    <3> QED
      BY <2>1, <3>2, OrderStep
  <2> QED
    BY <2>1
<1>3. Spec => []HistoryInv
  BY HistoryInvariant
<1> QED
  BY <1>2, <1>3, OrderInit, TypeCorrect, NumbersWithoutHoles, RecordBeforeCommit, PTL
  DEF Spec, ImplementsTotalOrder, Order0!Spec

-----------------------------------------------------------------------------
(* The record.                                                             *)

(* A place of the history that a message has passed. *)
PlaceBefore(o, i, p, j) == o < p \/ (o = p /\ i <= j)

LEMMA HistoryOrdered ==
    ASSUME NEW S, NEW C, NEW n, NEW k, HistoryShape(S, C, n, k), HistorySteps(S, C, n, k),
           NEW o \in Nat, NEW i \in Nat, NEW p \in Nat, NEW j \in Nat,
           Reached(o, i, n, k), Reached(p, j, n, k), PlaceBefore(o, i, p, j)
    PROVE  S[o][i] <= S[p][j] /\ S[o][i] \in Nat /\ S[p][j] \in Nat
<1>1. S \in [Nat -> [Nat -> Nat]]
  BY DEF HistoryShape
<1>2. S[o][i] \in Nat /\ S[p][j] \in Nat
  BY <1>1
<1>3. S[o][i] <= S[p][j]
  BY DEF HistorySteps, PlaceBefore
<1> QED
  BY <1>2, <1>3

(* The place of an operation: its number is given there. *)
LEMMA OperationAt ==
    ASSUME TypeOK, Placed, NEW S, NEW C, NEW n, NEW k, History(S, C, n, k), NEW m \in Operations
    PROVE  \E o \in Nat, i \in Nat \ {0} :
              /\ o = m.src[1] /\ i = m.src[2] /\ RawOf(m) = raw[o][i] /\ RawOf(m).type = m.type
              /\ Reached(o, i, n, k) /\ Reached(o, i + 1, n, k)
              /\ o \in DOMAIN raw /\ i \in DOMAIN raw[o]
              /\ S[o][i] + 1 = m.seq /\ S[o][i + 1] = m.seq
<1>1. HistoryShape(S, C, n, k) /\ HistorySteps(S, C, n, k) /\ HistoryOutput(S, n, k)
  BY DEF History
<1>2. OperationPlace(m)
  BY <1>1, OperationsPlaced
<1>3. PICK o \in Nat, i \in Nat \ {0} : o = m.src[1] /\ i = m.src[2]
  BY <1>2 DEF OperationPlace
<1>4. /\ Reached(o, i + 1, n, k) /\ S[o][i] + 1 = m.seq /\ S[o][i + 1] = m.seq
      /\ RawOf(m).type = m.type
  BY <1>1, <1>3 DEF HistoryOutput
<1>5. o \in DOMAIN raw /\ i \in DOMAIN raw[o] /\ Reached(o, i, n, k)
  BY <1>1, <1>4, HistoryPlaces
<1>6. RawOf(m) = raw[o][i]
  BY <1>3 DEF RawOf
<1> QED
  BY <1>3, <1>4, <1>5, <1>6

LEMMA RecordNumbers ==
    ASSUME TypeOK, Placed, NEW S, NEW C, NEW n, NEW k, History(S, C, n, k),
           NEW d \in Checkpoints, CheckpointOfHistory(d, S, C, n, k), NEW m \in Operations
    PROVE  m.src[1] <= d.logOffset <=> m.seq <= d.sequenceNumber
<1>1. HistoryShape(S, C, n, k) /\ HistorySteps(S, C, n, k)
  BY DEF History
<1>2. PICK p \in Nat : p = d.logOffset + 1
  BY DEF Checkpoints
<1>3. Reached(p, 1, n, k) /\ d.sequenceNumber = S[p][1] /\ d.logOffset \in Nat
  BY <1>2 DEF CheckpointOfHistory, Checkpoints
<1>4. PICK o \in Nat, i \in Nat \ {0} :
          /\ o = m.src[1] /\ Reached(o, i, n, k) /\ Reached(o, i + 1, n, k)
          /\ S[o][i] + 1 = m.seq /\ S[o][i + 1] = m.seq
  BY OperationAt
<1>5. i \in Nat /\ i + 1 \in Nat /\ 1 \in Nat /\ i >= 1
  OBVIOUS
<1>6. CASE o <= d.logOffset
  <2>1. PlaceBefore(o, i + 1, p, 1)
    BY <1>2, <1>3, <1>6 DEF PlaceBefore
  <2>2. S[o][i + 1] <= S[p][1]
    BY <1>1, <1>3, <1>4, <1>5, <2>1, HistoryOrdered
  <2> QED
    BY <1>3, <1>4, <1>6, <2>2
<1>7. CASE ~(o <= d.logOffset)
  <2>1. PlaceBefore(p, 1, o, i)
    BY <1>2, <1>3, <1>5, <1>7 DEF PlaceBefore
  <2>2. S[p][1] <= S[o][i] /\ S[p][1] \in Nat /\ S[o][i] \in Nat
    BY <1>1, <1>3, <1>4, <1>5, <2>1, HistoryOrdered
  <2>3. ~(m.seq <= d.sequenceNumber)
    BY <1>3, <1>4, <2>2
  <2> QED
    BY <1>4, <1>7, <2>3
<1> QED
  BY <1>6, <1>7

(* What the history knows of is sent, up to a number up to which all are. *)
LEMMA HappenedSent ==
    ASSUME TypeOK, Placed, NEW S, NEW C, NEW n, NEW k, History(S, C, n, k),
           NEW x \in Nat, Covered(Output, x, Len(Output)), NEW type, NEW c
    PROVE  Happened(type, c, x, S, n, k) <=>
               \E m \in Operations : m.type = type /\ RawOf(m).data = c /\ m.seq <= x
<1>1. HistoryShape(S, C, n, k) /\ HistorySteps(S, C, n, k)
  BY DEF History
<1>2. ASSUME NEW m \in Operations, m.type = type, RawOf(m).data = c, m.seq <= x
      PROVE  Happened(type, c, x, S, n, k)
  <2>1. PICK o \in Nat, i \in Nat \ {0} :
            /\ RawOf(m) = raw[o][i] /\ RawOf(m).type = m.type
            /\ Reached(o, i + 1, n, k) /\ o \in DOMAIN raw /\ i \in DOMAIN raw[o]
            /\ S[o][i] + 1 = m.seq /\ S[o][i + 1] = m.seq
    BY OperationAt
  <2>2. /\ S[o][i + 1] = S[o][i] + 1 /\ S[o][i + 1] <= x
        /\ raw[o][i].type = type /\ raw[o][i].data = c
    BY <1>2, <2>1
  <2>3. Event(type, c, x, S, n, k, o, i)
    BY <2>1, <2>2 DEF Event
  <2> QED
    BY <2>3, HappenedEvent
<1>3. ASSUME Happened(type, c, x, S, n, k)
      PROVE  \E m \in Operations : m.type = type /\ RawOf(m).data = c /\ m.seq <= x
  <2>1. PICK o, i : Event(type, c, x, S, n, k, o, i)
    BY <1>3, HappenedEvent
  <2>2. /\ o \in DOMAIN raw /\ i \in DOMAIN raw[o]
        /\ Reached(o, i + 1, n, k) /\ S[o][i + 1] = S[o][i] + 1 /\ S[o][i + 1] <= x
        /\ raw[o][i].type = type /\ raw[o][i].data = c
    BY <2>1 DEF Event
  <2>3. o \in Nat /\ i \in Nat \ {0} /\ i + 1 \in Nat
    <3>1. o \in Nat /\ raw[o] \in Seq(RawMessages)
      BY <2>2 DEF TypeOK, ConsumerTypeOK
    <3> QED
      BY <2>2, <3>1
  <2>4. Reached(o, i, n, k)
    BY <1>1, <2>2, <2>3, HistoryPlaces
  <2>5. S[o][i] \in Nat /\ S[o][i + 1] \in Nat
    <3>1. S \in [Nat -> [Nat -> Nat]]
      BY <1>1 DEF HistoryShape
    <3> QED
      BY <2>3, <3>1
  <2>6. S[o][i + 1] \in 1 .. x
    BY <2>2, <2>5
  <2>7. PICK e \in 1 .. Len(Output) :
            e \in DOMAIN Output /\ Output[e].kind = "op" /\ Output[e].seq = S[o][i + 1]
    BY <2>6 DEF Covered
  <2>8. PICK m \in Operations : m.seq = S[o][i + 1]
    BY <2>7 DEF Operations
  <2>9. PICK p \in Nat, j \in Nat \ {0} :
            /\ RawOf(m) = raw[p][j] /\ RawOf(m).type = m.type
            /\ Reached(p, j, n, k) /\ Reached(p, j + 1, n, k)
            /\ S[p][j] + 1 = m.seq /\ S[p][j + 1] = m.seq
    BY OperationAt
  <2>10. j \in Nat /\ j + 1 \in Nat /\ i \in Nat
    BY <2>3
  <2>11. ~PlaceBefore(o, i + 1, p, j)
    <3>1. SUFFICES ASSUME PlaceBefore(o, i + 1, p, j) PROVE FALSE
      OBVIOUS
    <3>2. S[o][i + 1] <= S[p][j] /\ S[p][j] \in Nat
      BY <1>1, <2>2, <2>3, <2>9, <2>10, <3>1, HistoryOrdered
    <3> QED
      BY <2>5, <2>8, <2>9, <3>2
  <2>12. ~PlaceBefore(p, j + 1, o, i)
    <3>1. SUFFICES ASSUME PlaceBefore(p, j + 1, o, i) PROVE FALSE
      OBVIOUS
    <3>2. S[p][j + 1] <= S[o][i]
      BY <1>1, <2>3, <2>4, <2>9, <2>10, <3>1, HistoryOrdered
    <3> QED
      BY <2>2, <2>5, <2>8, <2>9, <3>2
  <2>13. o = p /\ i = j
    BY <2>3, <2>10, <2>11, <2>12 DEF PlaceBefore
  <2>14. m.type = type /\ RawOf(m).data = c
    BY <2>2, <2>9, <2>13
  <2> QED
    BY <2>2, <2>8, <2>14
<1> QED
  BY <1>2, <1>3

LEMMA RecordMembers ==
    ASSUME TypeOK, Placed, NEW S, NEW C, NEW n, NEW k, History(S, C, n, k),
           "ClientJoin" \notin Repeatable, NEW d \in Checkpoints,
           CheckpointOfHistory(d, S, C, n, k), Covered(Output, d.sequenceNumber, Len(Output))
    PROVE  TrackedIn(d.clients) = MembersAt(d.sequenceNumber)
<1>1. HistoryMembers(S, C, n, k)
  BY DEF History
<1>2. PICK p \in Nat : p = d.logOffset + 1
  BY DEF Checkpoints
<1>3. PICK x \in Nat : x = d.sequenceNumber
  BY DEF Checkpoints
<1>4. Reached(p, 1, n, k) /\ x = S[p][1] /\ d.clients = C[p][1]
  BY <1>2, <1>3 DEF CheckpointOfHistory
<1>5. ASSUME NEW c \in Clients
      PROVE  c \in TrackedIn(d.clients) <=>
                 /\ \E m \in Operations : m.type = "ClientJoin" /\ RawOf(m).data = c /\ m.seq <= x
                 /\ ~\E m \in Operations : m.type = "ClientLeave" /\ RawOf(m).data = c /\ m.seq <= x
  <2>1. MembersOfHistory(c, x, d.clients, S, n, k)
    <3>1. \A q \in Clients : MembersOfHistory(q, S[p][1], C[p][1], S, n, k)
      BY <1>1, <1>4 DEF HistoryMembers
    <3> QED
      BY <1>4, <3>1
  <2>2. \A type : Happened(type, c, x, S, n, k) <=>
                      \E m \in Operations : m.type = type /\ RawOf(m).data = c /\ m.seq <= x
    BY <1>3, HappenedSent
  <2> QED
    BY <2>1, <2>2 DEF MembersOfHistory
<1>6. \A c \in Clients : c \in TrackedIn(d.clients) <=> c \in MembersAt(x)
  BY <1>5 DEF MembersAt, Joins, Leaves
<1>7. TrackedIn(d.clients) \subseteq Clients /\ MembersAt(x) \subseteq Clients
  BY DEF TrackedIn, MembersAt
<1>8. TrackedIn(d.clients) = MembersAt(x)
  BY <1>6, <1>7
<1> QED
  BY <1>3, <1>8

LEMMA RecordOfHistory ==
    ASSUME TypeOK, HistoryInv, DenseInv, "ClientJoin" \notin Repeatable
    PROVE  RecordMatchesLog
<1>1. PICK S, C, n, k : History(S, C, n, k)
  BY DEF HistoryInv
<1>2. Placed
  BY DEF HistoryInv, RawTopic, Placed
<1>3. SUFFICES ASSUME db \notin {None, Cleared}
               PROVE  /\ \A m \in Operations :
                             m.src[1] <= db.logOffset <=> m.seq <= db.sequenceNumber
                      /\ TrackedIn(db.clients) = MembersAt(db.sequenceNumber)
  BY DEF RecordMatchesLog
<1>4. db \in Checkpoints /\ CheckpointOfHistory(db, S, C, n, k)
  BY <1>1, <1>3 DEF TypeOK, CheckpointTypeOK, History, HistoryCheckpoints
<1>5. PICK x \in Nat : x = db.sequenceNumber
  BY <1>4 DEF Checkpoints
<1>6. Covered(deltas, x, Len(deltas))
  BY <1>3, <1>5 DEF DenseInv, CheckpointsCovered
<1>7. Covered(Output, x, Len(Output))
  <2>1. /\ deltas \in Seq(OutputMessages) /\ Output \in Seq(OutputMessages)
        /\ Len(deltas) <= Len(Output) /\ \A i \in 1 .. Len(deltas) : Output[i] = deltas[i]
    BY OutputGrows DEF TypeOK
  <2>2. Len(deltas) \in Nat /\ Len(Output) \in Nat
    BY <2>1
  <2> QED
    BY <1>6, <2>1, <2>2, CoveredStays
<1>8. \A m \in Operations : m.src[1] <= db.logOffset <=> m.seq <= db.sequenceNumber
  BY <1>1, <1>2, <1>4, RecordNumbers
<1>9. Covered(Output, db.sequenceNumber, Len(Output))
  BY <1>5, <1>7
<1>10. TrackedIn(db.clients) = MembersAt(db.sequenceNumber)
  BY <1>1, <1>2, <1>4, <1>9, RecordMembers
<1> QED
  BY <1>8, <1>10

(* The record in Mongo is the state after exactly the boxcars up to its    *)
(* offset: their operations are those up to its number, and its clients    *)
(* are the members by the order itself, however often the lambda restarts. *)
THEOREM RecordAgreesWithLog ==
    ASSUME MaxBoxcar # 0, MaxRestarts = 0 \/ Repeats, "ClientJoin" \notin Repeatable
    PROVE  Spec => []RecordMatchesLog
<1>1. TypeOK /\ HistoryInv /\ DenseInv => RecordMatchesLog
  BY RecordOfHistory
<1>2. Spec => []HistoryInv
  BY HistoryInvariant
<1> QED
  BY <1>1, <1>2, TypeCorrect, NumbersWithoutHoles, PTL

-----------------------------------------------------------------------------
(* The checkpoint that a NoClient carries.                                 *)

Quiescent(m) ==
    /\ m.deli # None /\ m.deli.sequenceNumber = m.seq
    /\ m.deli.clients = DefaultCheckpoint.clients

LEMMA NewNoClient ==
    ASSUME TypeOK, TypeOK', NEW m, TicketNoClient(m), deltas' = deltas
    PROVE  \A n \in Operations' : n \in Operations \/ Quiescent(n)
<1>1. /\ SendsTypeOK /\ SendsTypeOK' /\ DeliCheckpoint' \in Checkpoints
      /\ clients \in [Clients -> ClientStates \cup {None}]
  <2>1. DeliCheckpoint' \in Checkpoints
    BY DEF TypeOK, ConsumerTypeOK, LambdaTypeOK, DeliCheckpoint, Checkpoints
  <2> QED
    BY <2>1 DEF TypeOK, LambdaTypeOK
<1>2. CASE Tracked # {}
  <2>1. sending' = sending
    BY <1>2 DEF TicketNoClient, SendNever
  <2> QED
    BY <2>1 DEF Operations, Output
<1>3. CASE Tracked = {}
  <2> DEFINE r == [kind |-> "op", type |-> m.type, clientId |-> m.clientId, csn |-> m.csn,
                   ref |-> sequenceNumber', seq |-> sequenceNumber',
                   msn |-> minimumSequenceNumber', deli |-> AdditionalContent(m), src |-> Source]
  <2>1. clients' = clients /\ m.type = "NoClient" /\ sending' = Append(sending, r)
    BY <1>3 DEF TicketNoClient, Advance, SendImmediately
  <2>2. r.deli = DeliCheckpoint' /\ r.seq = sequenceNumber'
    BY <2>1 DEF AdditionalContent
  <2> HIDE DEF r
  <2>3. \A n \in Operations' : n \in Operations \/ n = r
    BY <1>1, <2>1, SendAdds
  <2>4. clients = DefaultCheckpoint.clients
    <3>1. \A c \in Clients : clients[c] = None
      BY <1>3 DEF Tracked, TrackedIn
    <3> QED
      BY <1>1, <3>1 DEF DefaultCheckpoint
  <2>5. DeliCheckpoint'.sequenceNumber = sequenceNumber' /\ DeliCheckpoint'.clients = clients'
    BY DEF DeliCheckpoint
  <2>6. Quiescent(r)
    BY <1>1, <2>1, <2>2, <2>4, <2>5, DeliConstants DEF Quiescent
  <2> QED
    BY <2>3, <2>6
<1> QED
  BY <1>2, <1>3

LEMMA TicketNoClients ==
    ASSUME TypeOK, TypeOK', NoClientsQuiescent, Ticket
    PROVE  NoClientsQuiescent'
<1> DEFINE m == Message
<1>1. deltas' = deltas /\ SendsTypeOK /\ SendsTypeOK'
  BY DEF Ticket, UnchangedByTicket, logs, TypeOK
<1>2. \A n \in Operations' : n \in Operations \/ n.type = m.type
  <2>1. CASE sending' = sending
    BY <1>1, <2>1 DEF Operations, Output
  <2>2. CASE \E r : Counted(r)
    <3>1. PICK r : Counted(r)
      BY <2>2
    <3>2. sending' = Append(sending, r) /\ (r.kind = "op" => r.type = m.type)
      BY <3>1 DEF Counted
    <3> QED
      BY <1>1, <3>2, SendAdds
  <2> QED
    BY <2>1, <2>2, TicketCounts
<1> HIDE DEF m
<1>3. CASE m.type # "NoClient"
  BY <1>2, <1>3 DEF NoClientsQuiescent
<1>4. CASE TicketNoClient(m)
  <2>1. \A n \in Operations' : n \in Operations \/ Quiescent(n)
    BY <1>1, <1>4, NewNoClient
  <2> QED
    BY <2>1 DEF NoClientsQuiescent, Quiescent
<1>5. CASE TicketDuplicate(m)
  <2>1. sending' = sending
    BY <1>5 DEF TicketDuplicate, inFlight
  <2>2. Operations' = Operations
    BY <1>1, <2>1 DEF Operations, Output
  <2> QED
    BY <2>2 DEF NoClientsQuiescent
<1>6. CASE SendNack(m)
  <2> DEFINE r == NackMessage(m)
  <2>1. sending' = Append(sending, r) /\ r.kind = "nack"
    BY <1>6 DEF SendNack, NackMessage
  <2> HIDE DEF r
  <2>2. \A n \in Operations' : n \in Operations
    BY <1>1, <2>1, SendAdds
  <2> QED
    BY <2>2 DEF NoClientsQuiescent
<1>7. \/ m.type # "NoClient" \/ TicketNoClient(m) \/ TicketDuplicate(m) \/ SendNack(m)
  BY DEF m, Ticket, TicketLeaveOfUnknown, TicketRepeatedJoin, TicketGap, TicketNonexistent,
         TicketBelowWindow, TicketForbidden, TicketJoin, TicketLeave, TicketClientOp,
         TicketClientNoOp, TicketServerNoOp, TicketControl
<1> QED
  BY <1>3, <1>4, <1>5, <1>6, <1>7

(* The lambda's other steps send nothing; a restart loses what it sent.    *)
SummaryInv == NoClientsQuiescent /\ SummaryIsQuiescent

LEMMA SummaryStep ==
    ASSUME TypeOK, TypeOK', SummaryInv, [Next]_vars
    PROVE  SummaryInv'
<1> USE DEF logs, window, lambda, consumer, inFlight, checkpointing, environment
<1>0. /\ NoClientsQuiescent /\ SummaryIsQuiescent /\ SendsTypeOK /\ SendsTypeOK'
  BY DEF SummaryInv, TypeOK
<1>1. ASSUME summary' = summary, serviced' = serviced
      PROVE  SummaryIsQuiescent'
  BY <1>0, <1>1 DEF SummaryIsQuiescent, DefaultCheckpoint
<1>2. ASSUME \A n \in Operations' : n \in Operations
      PROVE  NoClientsQuiescent'
  BY <1>0, <1>2 DEF NoClientsQuiescent, DefaultCheckpoint
<1>3. ASSUME deltas' = deltas, sending' = sending
      PROVE  NoClientsQuiescent'
  BY <1>2, <1>3 DEF Operations, Output
<1>4. CASE Ticket
  <2>1. summary' = summary /\ serviced' = serviced
    BY <1>4 DEF Ticket, UnchangedByTicket
  <2> QED
    BY <1>0, <1>1, <1>4, <2>1, TicketNoClients DEF SummaryInv
<1>5. CASE ForwardProduced
  <2>1. summary' = summary /\ serviced' = serviced
    BY <1>5 DEF ForwardProduced
  <2> QED
    BY <1>0, <1>1, <1>2, <1>5, <2>1, ForwardKeeps DEF SummaryInv
<1>6. CASE Restart
  <2>1. /\ summary' = summary /\ serviced' = serviced /\ deltas' = deltas /\ sending' = <<>>
        /\ deltas \in Seq(OutputMessages) /\ sending \in Seq(OutputMessages)
    BY <1>0, <1>6 DEF Restart, SendsTypeOK
  <2>2. Output' = deltas
    BY <2>1 DEF Output
  <2>3. \A i \in DOMAIN deltas : i \in DOMAIN Output /\ Output[i] = deltas[i]
    BY <1>0, <2>1, OutputGrows
  <2>4. \A n \in Operations' : n \in Operations
    BY <2>2, <2>3 DEF Operations
  <2> QED
    BY <1>1, <1>2, <2>1, <2>4 DEF SummaryInv
<1>7. CASE ServiceSummary
  <2>1. deltas' = deltas /\ sending' = sending
    BY <1>7 DEF ServiceSummary, UnchangedByEnvironment
  <2>2. PICK i \in Sequenced : /\ deltas[i].type = "NoClient"
                               /\ summary' = deltas[i].deli /\ serviced' = deltas[i].seq
    BY <1>7 DEF ServiceSummary
  <2>3. i \in DOMAIN Output /\ Output[i] = deltas[i] /\ deltas[i].kind = "op"
    BY <1>0, <2>2, OutputGrows DEF Sequenced
  <2>4. deltas[i] \in Operations
    BY <2>3 DEF Operations
  <2>5. SummaryIsQuiescent'
    BY <1>0, <2>2, <2>4 DEF NoClientsQuiescent, SummaryIsQuiescent, DefaultCheckpoint
  <2> QED
    BY <1>3, <2>1, <2>5 DEF SummaryInv
<1>8. CASE Deliver \/ IdleTimerFires \/ NoopTimerFires \/ ReverseProduced \/ CheckpointReady
           \/ Update \/ Updated \/ UNCHANGED vars
  <2>1. summary' = summary /\ serviced' = serviced /\ deltas' = deltas /\ sending' = sending
    BY <1>8 DEF Deliver, IdleTimerFires, NoopTimerFires, ReverseProduced, CheckpointReady,
                Update, Updated, vars
  <2> QED
    BY <1>1, <1>3, <2>1 DEF SummaryInv
<1>9. CASE (\E c \in Clients : Connect(c) \/ Disconnect(c) \/ LoseMessage(c))
           \/ (\E c \in Clients, kind \in ClientOps : Submit(c, kind)) \/ RepeatBoxcar
  <2>1. UnchangedByEnvironment /\ summary' = summary /\ serviced' = serviced
    BY <1>9 DEF Connect, Disconnect, LoseMessage, Submit, RepeatBoxcar
  <2>2. deltas' = deltas /\ sending' = sending
    BY <2>1 DEF UnchangedByEnvironment
  <2> QED
    BY <1>1, <1>3, <2>1, <2>2 DEF SummaryInv
<1> QED
  BY <1>4, <1>5, <1>6, <1>7, <1>8, <1>9 DEF Next, Process, Environment

LEMMA SummaryInit == Init => SummaryInv
<1>1. Init => Operations = {}
  BY DEF Init, Operations, Output
<1> QED
  BY <1>1 DEF Init, SummaryInv, NoClientsQuiescent, SummaryIsQuiescent

(* The checkpoint in a service summary is one to start from, whichever     *)
(* NoClient scribe took it from: it counts the NoClient's own number and   *)
(* tracks nobody (lambda.ts:406 and 556, scribe/lambda.ts:226).            *)
THEOREM SummaryToStartFrom == Spec => []SummaryIsQuiescent
<1>1. TypeOK /\ TypeOK' /\ SummaryInv /\ [Next]_vars => SummaryInv'
  BY SummaryStep
<1>2. SummaryInv => SummaryIsQuiescent
  BY DEF SummaryInv
<1> QED
  BY <1>1, <1>2, SummaryInit, TypeCorrect, PTL DEF Spec

-----------------------------------------------------------------------------
(* Nacks: the places of the raw topic.                                     *)

LEMMA PlaceFacts ==
    TypeOK => \A s \in RawPlaces :
        /\ s = <<s[1], s[2]>> /\ s[1] \in DOMAIN raw /\ s[2] \in DOMAIN raw[s[1]]
        /\ s[1] \in Nat /\ s[2] \in Nat /\ s[1] >= 1 /\ s[2] >= 1
        /\ s[1] <= Len(raw) /\ s[2] <= Len(raw[s[1]])
        /\ Len(raw) \in Nat /\ Len(raw[s[1]]) \in Nat
        /\ RawAt(s) \in RawMessages /\ RawAt(s).csn \in Int
<1> SUFFICES ASSUME TypeOK, NEW s \in RawPlaces
             PROVE  /\ s = <<s[1], s[2]>> /\ s[1] \in DOMAIN raw /\ s[2] \in DOMAIN raw[s[1]]
                    /\ s[1] \in Nat /\ s[2] \in Nat /\ s[1] >= 1 /\ s[2] >= 1
                    /\ s[1] <= Len(raw) /\ s[2] <= Len(raw[s[1]])
                    /\ Len(raw) \in Nat /\ Len(raw[s[1]]) \in Nat
                    /\ RawAt(s) \in RawMessages /\ RawAt(s).csn \in Int
  OBVIOUS
<1>1. PICK o \in DOMAIN raw : \E i \in DOMAIN raw[o] : s = <<o, i>>
  BY DEF RawPlaces
<1>2. PICK i \in DOMAIN raw[o] : s = <<o, i>>
  BY <1>1
<1>3. s[1] = o /\ s[2] = i
  BY <1>2
<1>4. raw \in Seq(Seq(RawMessages) \ {<<>>})
  BY DEF TypeOK, ConsumerTypeOK
<1>5. o \in Nat /\ o >= 1 /\ o <= Len(raw) /\ Len(raw) \in Nat /\ raw[o] \in Seq(RawMessages)
  BY <1>1, <1>4
<1>6. i \in Nat /\ i >= 1 /\ i <= Len(raw[o]) /\ Len(raw[o]) \in Nat
  BY <1>2, <1>5
<1>7. raw[o][i] \in RawMessages
  BY <1>2, <1>5, ElementType
<1>8. raw[o][i].csn \in Int
  BY <1>7 DEF RawMessages
<1> QED
  BY <1>2, <1>3, <1>5, <1>6, <1>7, <1>8 DEF RawAt

LEMMA PlaceIn ==
    ASSUME NEW o \in DOMAIN raw, NEW i \in DOMAIN raw[o]
    PROVE  <<o, i>> \in RawPlaces /\ RawAt(<<o, i>>) = raw[o][i]
  BY DEF RawPlaces, RawAt

LEMMA PlaceOf ==
    ASSUME NEW s, s \in RawPlaces
    PROVE  \E o \in DOMAIN raw : \E i \in DOMAIN raw[o] : s = <<o, i>>
  BY DEF RawPlaces

(* What is written comes after what was there and what was read. *)
RawExtended ==
    /\ Len(raw) <= Len(raw')
    /\ \A s \in RawPlaces : s \in RawPlaces' /\ RawAt(s)' = RawAt(s)
    /\ \A t : t \in RawPlaces' /\ t \notin RawPlaces =>
          t[1] > frozen /\ \A s \in RawPlaces : Before(s, t)

LEMMA SameRaw ==
    ASSUME TypeOK, raw' = raw
    PROVE  RawExtended /\ \A s : s \in RawPlaces' <=> s \in RawPlaces
<1>1. \A s : s \in RawPlaces' <=> s \in RawPlaces
  BY DEF RawPlaces
<1>2. \A s : RawAt(s)' = RawAt(s)
  BY DEF RawAt
<1>3. Len(raw) <= Len(raw')
  BY DEF TypeOK, ConsumerTypeOK
<1> QED
  BY <1>1, <1>2, <1>3 DEF RawExtended

LEMMA EnqueueExtends ==
    ASSUME TypeOK, TypeOK', frozen <= Len(raw), NEW m, Enqueue(m)
    PROVE  /\ RawExtended
           /\ \E q : /\ q \in RawPlaces' /\ q \notin RawPlaces /\ RawAt(q)' = m
                     /\ \A t : t \in RawPlaces' => t = q \/ t \in RawPlaces
<1>1. /\ raw \in Seq(Seq(RawMessages) \ {<<>>}) /\ Len(raw) \in Nat
      /\ DOMAIN raw = 1 .. Len(raw) /\ frozen \in Nat
  BY DEF TypeOK, ConsumerTypeOK, EnvironmentTypeOK
<1>2. SUFFICES \E o, i : /\ o \in DOMAIN raw' /\ i \in DOMAIN raw'[o] /\ raw'[o][i] = m
                         /\ ~(o \in DOMAIN raw /\ i \in DOMAIN raw[o])
                         /\ o \in Nat /\ i \in Nat /\ o > frozen
                         /\ \A s \in RawPlaces : s[1] < o \/ (s[1] = o /\ s[2] < i)
                         /\ \A p \in DOMAIN raw : \A j \in DOMAIN raw[p] :
                               p \in DOMAIN raw' /\ j \in DOMAIN raw'[p] /\ raw'[p][j] = raw[p][j]
                         /\ \A p \in DOMAIN raw' : \A j \in DOMAIN raw'[p] :
                               (p = o /\ j = i) \/ (p \in DOMAIN raw /\ j \in DOMAIN raw[p])
  <2>1. PICK o, i : /\ o \in DOMAIN raw' /\ i \in DOMAIN raw'[o] /\ raw'[o][i] = m
                    /\ ~(o \in DOMAIN raw /\ i \in DOMAIN raw[o])
                    /\ o \in Nat /\ i \in Nat /\ o > frozen
                    /\ \A s \in RawPlaces : s[1] < o \/ (s[1] = o /\ s[2] < i)
                    /\ \A p \in DOMAIN raw : \A j \in DOMAIN raw[p] :
                          p \in DOMAIN raw' /\ j \in DOMAIN raw'[p] /\ raw'[p][j] = raw[p][j]
                    /\ \A p \in DOMAIN raw' : \A j \in DOMAIN raw'[p] :
                          (p = o /\ j = i) \/ (p \in DOMAIN raw /\ j \in DOMAIN raw[p])
    BY <1>2
  <2>2. PICK q : q = <<o, i>>
    OBVIOUS
  <2>3. q[1] = o /\ q[2] = i
    BY <2>2
  <2>4. q \in RawPlaces'
    BY <2>1, <2>2 DEF RawPlaces
  <2>5. q \notin RawPlaces
    BY <2>1, <2>3, PlaceFacts
  <2>6. RawAt(q)' = m
    BY <2>1, <2>3 DEF RawAt
  <2>7. \A t : t \in RawPlaces' => t = q \/ t \in RawPlaces
    <3>1. SUFFICES ASSUME NEW t, t \in RawPlaces' PROVE t = q \/ t \in RawPlaces
      OBVIOUS
    <3>2. PICK p \in DOMAIN raw' : \E j \in DOMAIN raw'[p] : t = <<p, j>>
      BY <3>1 DEF RawPlaces
    <3>3. PICK j \in DOMAIN raw'[p] : t = <<p, j>>
      BY <3>2
    <3>4. CASE p = o /\ j = i
      BY <2>2, <3>3, <3>4
    <3>5. CASE p \in DOMAIN raw /\ j \in DOMAIN raw[p]
      BY <3>3, <3>5, PlaceIn
    <3> QED
      BY <2>1, <3>4, <3>5
  <2>8. \A s \in RawPlaces : Before(s, q)
    BY <2>1, <2>3 DEF Before
  <2>9. \A s \in RawPlaces : s \in RawPlaces' /\ RawAt(s)' = RawAt(s)
    <3>1. SUFFICES ASSUME NEW s \in RawPlaces PROVE s \in RawPlaces' /\ RawAt(s)' = RawAt(s)
      OBVIOUS
    <3>2. s = <<s[1], s[2]>> /\ s[1] \in DOMAIN raw /\ s[2] \in DOMAIN raw[s[1]]
      BY PlaceFacts
    <3>3. s[1] \in DOMAIN raw' /\ s[2] \in DOMAIN raw'[s[1]] /\ raw'[s[1]][s[2]] = raw[s[1]][s[2]]
      BY <2>1, <3>2
    <3> QED
      BY <3>2, <3>3 DEF RawPlaces, RawAt
  <2>10. Len(raw) <= Len(raw')
    BY <1>1 DEF Enqueue
  <2> QED
    BY <2>1, <2>3, <2>4, <2>5, <2>6, <2>7, <2>8, <2>9, <2>10 DEF RawExtended
<1>3. \A s \in RawPlaces :
          /\ s[1] \in Nat /\ s[2] \in Nat /\ s[1] <= Len(raw)
          /\ s[2] <= Len(raw[s[1]]) /\ Len(raw[s[1]]) \in Nat
  BY PlaceFacts
<1>4. CASE raw' = Append(raw, <<m>>)
  <2>1. PICK o : o = Len(raw) + 1
    OBVIOUS
  <2>2. /\ DOMAIN raw' = 1 .. o /\ raw'[o] = <<m>>
        /\ \A p \in DOMAIN raw : raw'[p] = raw[p]
    BY <1>1, <1>4, <2>1
  <2>3. DOMAIN <<m>> = {1} /\ <<m>>[1] = m
    OBVIOUS
  <2>4. o \in DOMAIN raw' /\ 1 \in DOMAIN raw'[o] /\ raw'[o][1] = m /\ o \notin DOMAIN raw
    BY <1>1, <2>1, <2>2, <2>3
  <2>5. o \in Nat /\ 1 \in Nat /\ o > frozen
    BY <1>1, <2>1
  <2>6. \A s \in RawPlaces : s[1] < o
    BY <1>1, <1>3, <2>1
  <2>7. \A p \in DOMAIN raw : p \in DOMAIN raw'
    BY <1>1, <2>1, <2>2
  <2>8. \A p \in DOMAIN raw' : p = o \/ p \in DOMAIN raw
    BY <1>1, <2>1, <2>2
  <2>9. \A p \in DOMAIN raw' : \A j \in DOMAIN raw'[p] :
            (p = o /\ j = 1) \/ (p \in DOMAIN raw /\ j \in DOMAIN raw[p])
    BY <2>2, <2>3, <2>8
  <2>10. \A p \in DOMAIN raw : \A j \in DOMAIN raw[p] :
             p \in DOMAIN raw' /\ j \in DOMAIN raw'[p] /\ raw'[p][j] = raw[p][j]
    BY <2>2, <2>7
  <2> QED
    BY <2>4, <2>5, <2>6, <2>9, <2>10
<1>5. CASE /\ Len(raw) > frozen
           /\ raw' = [raw EXCEPT ![Len(raw)] = Append(@, m)]
  <2>1. PICK o, i : o = Len(raw) /\ i = Len(raw[o]) + 1
    OBVIOUS
  <2>2. o \in DOMAIN raw /\ raw[o] \in Seq(RawMessages) /\ Len(raw[o]) \in Nat
        /\ DOMAIN raw[o] = 1 .. Len(raw[o])
    BY <1>1, <1>5, <2>1
  <2>3. /\ DOMAIN raw' = DOMAIN raw /\ raw'[o] = Append(raw[o], m)
        /\ \A p \in DOMAIN raw : p # o => raw'[p] = raw[p]
    BY <1>1, <1>5, <2>1, <2>2
  <2>4. PICK b : b = Append(raw[o], m)
    OBVIOUS
  <2>5. DOMAIN b = 1 .. i /\ b[i] = m /\ \A j \in DOMAIN raw[o] : b[j] = raw[o][j]
    BY <2>1, <2>2, <2>4
  <2>6. raw'[o] = b
    BY <2>3, <2>4
  <2>7. i \in Nat /\ i \in 1 .. i /\ i \notin DOMAIN raw[o] /\ o \in Nat /\ o > frozen
    BY <1>1, <1>5, <2>1, <2>2
  <2>8. \A j \in DOMAIN b : j = i \/ j \in DOMAIN raw[o]
    BY <2>1, <2>2, <2>5
  <2>9. \A j \in DOMAIN raw[o] : j \in DOMAIN b
    BY <2>1, <2>2, <2>5
  <2>10. \A s \in RawPlaces : s[1] < o \/ (s[1] = o /\ s[2] < i)
    BY <1>1, <1>3, <2>1, <2>2
  <2>11. \A p \in DOMAIN raw : \A j \in DOMAIN raw[p] :
             p \in DOMAIN raw' /\ j \in DOMAIN raw'[p] /\ raw'[p][j] = raw[p][j]
    BY <2>3, <2>5, <2>6, <2>9
  <2>12. \A p \in DOMAIN raw' : \A j \in DOMAIN raw'[p] :
             (p = o /\ j = i) \/ (p \in DOMAIN raw /\ j \in DOMAIN raw[p])
    BY <2>3, <2>6, <2>8
  <2>13. o \in DOMAIN raw' /\ i \in DOMAIN raw'[o] /\ raw'[o][i] = m
    BY <2>2, <2>3, <2>5, <2>6, <2>7
  <2> QED
    BY <2>7, <2>10, <2>11, <2>12, <2>13
<1> QED
  BY <1>4, <1>5 DEF Enqueue

(* A boxcar that is repeated comes after all others. *)
LEMMA RepeatExtends ==
    ASSUME TypeOK, TypeOK', frozen <= Len(raw), RepeatBoxcar
    PROVE  /\ RawExtended
           /\ \A t : t \in RawPlaces' /\ t \notin RawPlaces =>
                 \E s \in RawPlaces : RawAt(t)' = RawAt(s)
<1>1. /\ raw \in Seq(Seq(RawMessages) \ {<<>>}) /\ Len(raw) \in Nat
      /\ DOMAIN raw = 1 .. Len(raw) /\ frozen \in Nat
  BY DEF TypeOK, ConsumerTypeOK, EnvironmentTypeOK
<1>2. PICK b \in DOMAIN raw : raw' = Append(raw, raw[b])
  BY DEF RepeatBoxcar
<1>3. PICK o : o = Len(raw) + 1
  OBVIOUS
<1>4. /\ DOMAIN raw' = 1 .. o /\ raw'[o] = raw[b]
      /\ \A p \in DOMAIN raw : raw'[p] = raw[p]
  BY <1>1, <1>2, <1>3
<1>5. \A p \in DOMAIN raw : p \in DOMAIN raw'
  BY <1>1, <1>3, <1>4
<1>6. \A p \in DOMAIN raw' : p = o \/ p \in DOMAIN raw
  BY <1>1, <1>3, <1>4
<1>7. \A s \in RawPlaces : s \in RawPlaces' /\ RawAt(s)' = RawAt(s)
  <2>1. SUFFICES ASSUME NEW s \in RawPlaces PROVE s \in RawPlaces' /\ RawAt(s)' = RawAt(s)
    OBVIOUS
  <2>2. s = <<s[1], s[2]>> /\ s[1] \in DOMAIN raw /\ s[2] \in DOMAIN raw[s[1]]
    BY PlaceFacts
  <2>3. s[1] \in DOMAIN raw' /\ s[2] \in DOMAIN raw'[s[1]] /\ raw'[s[1]][s[2]] = raw[s[1]][s[2]]
    BY <1>4, <1>5, <2>2
  <2> QED
    BY <2>2, <2>3 DEF RawPlaces, RawAt
<1>8. ASSUME NEW t, t \in RawPlaces', t \notin RawPlaces
      PROVE  /\ t[1] > frozen /\ \A s \in RawPlaces : Before(s, t)
             /\ \E s \in RawPlaces : RawAt(t)' = RawAt(s)
  <2>1. PICK p \in DOMAIN raw' : \E j \in DOMAIN raw'[p] : t = <<p, j>>
    BY <1>8 DEF RawPlaces
  <2>2. PICK j \in DOMAIN raw'[p] : t = <<p, j>>
    BY <2>1
  <2>3. p = o
    <3>1. CASE p \in DOMAIN raw
      BY <1>4, <1>8, <2>2, <3>1, PlaceIn
    <3> QED
      BY <1>6, <3>1
  <2>4. t[1] = o /\ t[2] = j
    BY <2>2, <2>3
  <2>5. o > frozen
    BY <1>1, <1>3
  <2>6. \A s \in RawPlaces : Before(s, t)
    <3>1. \A s \in RawPlaces : s[1] \in Nat /\ s[1] <= Len(raw)
      BY PlaceFacts
    <3> QED
      BY <1>1, <1>3, <2>4, <3>1 DEF Before
  <2>7. j \in DOMAIN raw[b] /\ RawAt(t)' = raw[b][j]
    BY <1>4, <2>2, <2>3, <2>4 DEF RawAt
  <2>8. <<b, j>> \in RawPlaces /\ RawAt(<<b, j>>) = raw[b][j]
    BY <2>7, PlaceIn
  <2> QED
    BY <2>4, <2>5, <2>6, <2>7, <2>8
<1>9. Len(raw) <= Len(raw')
  BY <1>1, <1>2
<1> QED
  BY <1>7, <1>8, <1>9 DEF RawExtended

(* What is written for client c is its next message, or a repetition.      *)
NextInput(c, t) ==
    /\ RawAt(t)'.csn = csn'[c] /\ csn'[c] = csn[c] + 1 /\ connection[c] # "new"
    /\ \A u : u \in RawPlaces' => u = t \/ u \in RawPlaces

NewInput(c) ==
    /\ csn[c] <= csn'[c]
    /\ connection'[c] # "new" => connection[c] # "new" \/ JoinsOf(c)' # {}
    /\ \A t : t \in PlacesOf(c)' /\ t \notin RawPlaces =>
          NextInput(c, t) \/ \E s \in PlacesOf(c) : RawAt(t)' = RawAt(s)

LEMMA PlacesKept ==
    ASSUME RawExtended, NEW c
    PROVE  /\ \A s : s \in PlacesOf(c)' /\ s \in RawPlaces => s \in PlacesOf(c)
           /\ \A s \in PlacesOf(c) : s \in PlacesOf(c)' /\ s \in RawPlaces
           /\ \A s \in JoinsOf(c) : s \in JoinsOf(c)' /\ s \in RawPlaces
           /\ \A s \in RawPlaces : RawAt(s)' = RawAt(s)
  BY DEF RawExtended, PlacesOf, JoinsOf

LEMMA NumbersStay ==
    ASSUME TypeOK, TypeOK', RawExtended, NEW c \in Clients, ClientInput(c), NewInput(c)
    PROVE  NumbersInOrder(c)'
<1>1. SUFFICES ASSUME NEW s, s \in PlacesOf(c)', NEW t, t \in PlacesOf(c)'
               PROVE  /\ RawAt(s)'.csn = RawAt(t)'.csn => RawAt(s)'.type = RawAt(t)'.type
                      /\ RawAt(t)'.csn < RawAt(s)'.csn =>
                            \E r : /\ r \in PlacesOf(c)' /\ Before(r, s)
                                   /\ RawAt(r)'.csn = RawAt(t)'.csn
  BY DEF NumbersInOrder, Before
<1>2. csn[c] \in Nat /\ csn'[c] \in Nat /\ csn[c] <= csn'[c]
  BY DEF TypeOK, EnvironmentTypeOK, NewInput
<1>3. \A u \in PlacesOf(c) : RawAt(u).csn \in Int /\ RawAt(u).csn <= csn[c]
  BY PlaceFacts DEF ClientInput, PlacesOf
<1>4. \A u \in RawPlaces : \A v : v \in RawPlaces' /\ v \notin RawPlaces => Before(u, v)
  BY DEF RawExtended
<1>5. \A u, v \in PlacesOf(c) :
          /\ RawAt(u).csn = RawAt(v).csn => RawAt(u).type = RawAt(v).type
          /\ RawAt(v).csn < RawAt(u).csn =>
                \E r \in PlacesOf(c) : Before(r, u) /\ RawAt(r).csn = RawAt(v).csn
  BY DEF ClientInput, NumbersInOrder
<1>6. s \in RawPlaces' /\ t \in RawPlaces'
  BY <1>1 DEF PlacesOf
(* The message at a place is that of an earlier one, or the next.  *)
<1>7. ASSUME NEW u, u \in PlacesOf(c)'
      PROVE  \/ \E v \in PlacesOf(c) : RawAt(u)' = RawAt(v) /\ (u \in RawPlaces => v = u)
             \/ u \notin RawPlaces /\ NextInput(c, u)
  <2>1. CASE u \in RawPlaces
    BY <1>7, <2>1, PlacesKept
  <2>2. CASE u \notin RawPlaces
    BY <1>7, <2>2 DEF NewInput
  <2> QED
    BY <2>1, <2>2
<1>8. CASE s \notin RawPlaces /\ NextInput(c, s)
  <2>1. CASE t \in RawPlaces
    <3>1. t \in PlacesOf(c) /\ RawAt(t)' = RawAt(t) /\ Before(t, s)
      BY <1>1, <1>4, <1>6, <1>8, <2>1, PlacesKept
    <3>2. RawAt(t)'.csn # RawAt(s)'.csn
      BY <1>2, <1>3, <1>8, <3>1 DEF NextInput
    <3> QED
      BY <1>1, <3>1, <3>2
  <2>2. CASE t \notin RawPlaces
    <3>1. t = s
      BY <1>6, <1>8, <2>2 DEF NextInput
    <3>2. RawAt(s)'.csn \in Nat
      BY <1>2, <1>8 DEF NextInput
    <3> QED
      BY <3>1, <3>2
  <2> QED
    BY <2>1, <2>2
<1>9. CASE t \notin RawPlaces /\ NextInput(c, t)
  <2>1. CASE \E v \in PlacesOf(c) : RawAt(s)' = RawAt(v)
    <3>1. RawAt(s)'.csn < RawAt(t)'.csn /\ RawAt(s)'.csn \in Int /\ RawAt(t)'.csn \in Int
      BY <1>2, <1>3, <1>9, <2>1 DEF NextInput
    <3> QED
      BY <3>1
  <2> QED
    BY <1>1, <1>7, <1>8, <2>1
<1>10. CASE (\E v \in PlacesOf(c) : RawAt(s)' = RawAt(v) /\ (s \in RawPlaces => v = s))
            /\ (\E v \in PlacesOf(c) : RawAt(t)' = RawAt(v))
  <2>1. PICK u \in PlacesOf(c) : RawAt(s)' = RawAt(u) /\ (s \in RawPlaces => u = s)
    BY <1>10
  <2>2. PICK v \in PlacesOf(c) : RawAt(t)' = RawAt(v)
    BY <1>10
  <2>3. RawAt(s)'.csn = RawAt(t)'.csn => RawAt(s)'.type = RawAt(t)'.type
    BY <1>5, <2>1, <2>2
  <2>4. ASSUME RawAt(t)'.csn < RawAt(s)'.csn
        PROVE  \E r : /\ r \in PlacesOf(c)' /\ Before(r, s)
                      /\ RawAt(r)'.csn = RawAt(t)'.csn
    <3>1. CASE s \in RawPlaces
      <4>1. PICK r \in PlacesOf(c) : Before(r, u) /\ RawAt(r).csn = RawAt(v).csn
        BY <1>5, <2>1, <2>2, <2>4
      <4>2. r \in PlacesOf(c)' /\ RawAt(r)' = RawAt(r)
        BY <4>1, PlacesKept
      <4> QED
        BY <2>1, <2>2, <3>1, <4>1, <4>2
    <3>2. CASE s \notin RawPlaces
      <4>1. v \in PlacesOf(c)' /\ RawAt(v)' = RawAt(v) /\ v \in RawPlaces
        BY <2>2, PlacesKept
      <4>2. Before(v, s)
        BY <1>4, <1>6, <3>2, <4>1
      <4> QED
        BY <2>2, <4>1, <4>2
    <3> QED
      BY <3>1, <3>2
  <2> QED
    BY <2>3, <2>4
<1> QED
  BY <1>1, <1>7, <1>8, <1>9, <1>10

LEMMA ClientInputStep ==
    ASSUME TypeOK, TypeOK', RawExtended, NEW c \in Clients, ClientInput(c), NewInput(c)
    PROVE  ClientInput(c)'
<1>1. csn[c] \in Nat /\ csn'[c] \in Nat /\ csn[c] <= csn'[c]
  BY DEF TypeOK, EnvironmentTypeOK, NewInput
<1>2. \A u \in PlacesOf(c) : RawAt(u).csn \in Int /\ RawAt(u).csn <= csn[c]
  BY PlaceFacts DEF ClientInput, PlacesOf
<1>3. \A u \in RawPlaces : \A v : v \in RawPlaces' /\ v \notin RawPlaces => Before(u, v)
  BY DEF RawExtended
<1>4. connection'[c] # "new" => JoinsOf(c)' # {}
  <2>1. JoinsOf(c) # {} => JoinsOf(c)' # {}
    BY PlacesKept
  <2> QED
    BY <2>1 DEF ClientInput, NewInput
<1>5. ASSUME NEW t, t \in PlacesOf(c)'
      PROVE  RawAt(t)'.csn <= csn'[c] /\ \E j : j \in JoinsOf(c)' /\ Before(j, t)
  <2>0. t \in RawPlaces'
    BY <1>5 DEF PlacesOf
  <2>1. CASE t \in RawPlaces
    <3>1. t \in PlacesOf(c) /\ RawAt(t)' = RawAt(t)
      BY <1>5, <2>1, PlacesKept
    <3>2. PICK j \in JoinsOf(c) : Before(j, t)
      BY <3>1 DEF ClientInput
    <3>3. RawAt(t)'.csn <= csn'[c]
      BY <1>1, <1>2, <3>1
    <3> QED
      BY <3>2, <3>3, PlacesKept
  <2>2. CASE t \notin RawPlaces /\ NextInput(c, t)
    <3>1. PICK j : j \in JoinsOf(c)
      BY <2>2 DEF NextInput, ClientInput
    <3>2. j \in JoinsOf(c)' /\ Before(j, t)
      BY <1>3, <2>0, <2>2, <3>1, PlacesKept
    <3>3. RawAt(t)'.csn <= csn'[c]
      BY <1>1, <2>2 DEF NextInput
    <3> QED
      BY <3>2, <3>3
  <2>3. CASE t \notin RawPlaces /\ \E s \in PlacesOf(c) : RawAt(t)' = RawAt(s)
    <3>1. PICK s \in PlacesOf(c) : RawAt(t)' = RawAt(s)
      BY <2>3
    <3>2. PICK j \in JoinsOf(c) : Before(j, s)
      BY <3>1 DEF ClientInput
    <3>3. j \in JoinsOf(c)' /\ Before(j, t)
      BY <1>3, <2>0, <2>3, <3>2, PlacesKept
    <3>4. RawAt(t)'.csn <= csn'[c]
      BY <1>1, <1>2, <3>1
    <3> QED
      BY <3>3, <3>4
  <2> QED
    BY <1>5, <2>1, <2>2, <2>3 DEF NewInput
<1>6. NumbersInOrder(c)'
  BY NumbersStay
<1> QED
  BY <1>4, <1>5, <1>6 DEF ClientInput, Before

(* The environment and the lambda write to the raw topic.                  *)

LEMMA EnqueueInput ==
    ASSUME TypeOK, TypeOK', frozen <= Len(raw), NEW m, Enqueue(m), NEW c \in Clients,
           m.clientId # c, csn[c] <= csn'[c],
           connection'[c] # "new" => \/ connection[c] # "new"
                                     \/ m.type = "ClientJoin" /\ m.data = c
    PROVE  NewInput(c)
<1>1. PICK q : /\ q \in RawPlaces' /\ q \notin RawPlaces /\ RawAt(q)' = m
               /\ \A t : t \in RawPlaces' => t = q \/ t \in RawPlaces
  BY EnqueueExtends
<1>2. (m.type = "ClientJoin" /\ m.data = c) => q \in JoinsOf(c)'
  BY <1>1 DEF JoinsOf
<1>3. \A t : t \in PlacesOf(c)' => t \in RawPlaces
  BY <1>1 DEF PlacesOf
<1> QED
  BY <1>2, <1>3 DEF NewInput

LEMMA SubmitInput ==
    ASSUME TypeOK, TypeOK', frozen <= Len(raw), NEW c \in Clients, NEW kind, Submit(c, kind),
           NEW d \in Clients
    PROVE  NewInput(d)
<1>1. PICK m : Enqueue(m) /\ m.clientId = c /\ m.csn = csn[c] + 1
  <2>1. PICK ref, direct :
            Enqueue(ClientMessage(IF kind = "NoOpImmediate" THEN "NoOp" ELSE kind,
                                  c, csn[c] + 1, IF direct THEN -1 ELSE ref,
                                  kind = "NoOpImmediate"))
    BY DEF Submit
  <2> QED
    BY <2>1 DEF ClientMessage
<1>2. /\ connection[c] = "connected" /\ connection' = connection
      /\ csn' = [csn EXCEPT ![c] = @ + 1] /\ csn \in [Clients -> Nat]
  BY DEF Submit, TypeOK, EnvironmentTypeOK
<1>3. csn[d] <= csn'[d] /\ csn'[c] = csn[c] + 1
  BY <1>2
<1>4. CASE d # c
  BY <1>1, <1>2, <1>3, <1>4, EnqueueInput
<1>5. CASE d = c
  <2>1. PICK q : /\ q \in RawPlaces' /\ q \notin RawPlaces /\ RawAt(q)' = m
                 /\ \A t : t \in RawPlaces' => t = q \/ t \in RawPlaces
    BY <1>1, EnqueueExtends
  <2>2. NextInput(c, q)
    BY <1>1, <1>2, <1>3, <2>1 DEF NextInput
  <2>3. \A t : t \in PlacesOf(c)' /\ t \notin RawPlaces => t = q
    BY <2>1 DEF PlacesOf
  <2> QED
    BY <1>2, <1>3, <1>5, <2>2, <2>3 DEF NewInput
<1> QED
  BY <1>4, <1>5

LEMMA RepeatInput ==
    ASSUME TypeOK, TypeOK', frozen <= Len(raw), RepeatBoxcar, NEW c \in Clients
    PROVE  NewInput(c)
<1>1. csn' = csn /\ connection' = connection /\ csn[c] \in Nat
  BY DEF RepeatBoxcar, TypeOK, EnvironmentTypeOK
<1>2. \A t : t \in PlacesOf(c)' /\ t \notin RawPlaces =>
          \E s \in PlacesOf(c) : RawAt(t)' = RawAt(s)
  BY RepeatExtends DEF PlacesOf
<1> QED
  BY <1>1, <1>2 DEF NewInput

LEMMA SameInput ==
    ASSUME TypeOK, TypeOK', raw' = raw, connection' = connection, NEW c \in Clients,
           csn[c] <= csn'[c]
    PROVE  NewInput(c)
  BY SameRaw DEF NewInput, PlacesOf

LEMMA EnvironmentInputs ==
    ASSUME TypeOK, TypeOK', frozen <= Len(raw), Environment
    PROVE  /\ RawExtended /\ \A c \in Clients : NewInput(c)
           /\ reverse' = reverse /\ logOffset' = logOffset /\ frozen' = frozen
<1>1. csn \in [Clients -> Nat] /\ \A d \in Clients : csn[d] <= csn[d]
  BY DEF TypeOK, EnvironmentTypeOK
<1>2. UnchangedByEnvironment
  BY DEF Environment, Connect, Submit, Disconnect, LoseMessage, RepeatBoxcar, ServiceSummary
<1>3. reverse' = reverse /\ logOffset' = logOffset /\ frozen' = frozen
  BY <1>2 DEF UnchangedByEnvironment, consumer, inFlight
<1>4. ASSUME NEW c \in Clients, Connect(c)
      PROVE  RawExtended /\ \A d \in Clients : NewInput(d)
  <2> DEFINE m == ServerMessage("ClientJoin", c)
  <2>1. /\ Enqueue(m) /\ csn' = csn /\ connection' = [connection EXCEPT ![c] = "connected"]
        /\ connection \in [Clients -> {"new", "connected", "left"}]
    BY <1>4 DEF Connect, TypeOK, EnvironmentTypeOK
  <2>2. m.clientId = None /\ m.type = "ClientJoin" /\ m.data = c
    BY DEF ServerMessage
  <2> HIDE DEF m
  <2>3. RawExtended
    BY <2>1, EnqueueExtends
  <2>4. ASSUME NEW d \in Clients PROVE NewInput(d)
    <3>1. m.clientId # d
      BY <2>2, DeliConstants
    <3>2. connection'[d] # "new" => connection[d] # "new" \/ d = c
      BY <2>1
    <3>3. csn[d] <= csn'[d]
      BY <1>1, <2>1
    <3> QED
      BY <2>1, <2>2, <3>1, <3>2, <3>3, EnqueueInput
  <2> QED
    BY <2>3, <2>4
<1>5. ASSUME NEW m, Enqueue(m), m.clientId = None, csn' = csn,
             \A d \in Clients : connection'[d] # "new" => connection[d] # "new"
      PROVE  RawExtended /\ \A d \in Clients : NewInput(d)
  <2>1. RawExtended
    BY <1>5, EnqueueExtends
  <2>2. ASSUME NEW d \in Clients PROVE NewInput(d)
    <3>1. m.clientId # d
      BY <1>5, DeliConstants
    <3>2. csn[d] <= csn'[d]
      BY <1>1, <1>5
    <3> QED
      BY <1>5, <3>1, <3>2, EnqueueInput
  <2> QED
    BY <2>1, <2>2
<1>6. ASSUME NEW c \in Clients, Disconnect(c)
      PROVE  RawExtended /\ \A d \in Clients : NewInput(d)
  <2>1. /\ Enqueue(ServerMessage("ClientLeave", c)) /\ csn' = csn
        /\ connection' = [connection EXCEPT ![c] = "left"] /\ connection[c] = "connected"
        /\ connection \in [Clients -> {"new", "connected", "left"}]
    BY <1>6 DEF Disconnect, TypeOK, EnvironmentTypeOK
  <2>2. \A d \in Clients : connection'[d] # "new" => connection[d] # "new"
    BY <2>1
  <2>3. ServerMessage("ClientLeave", c).clientId = None
    BY DEF ServerMessage
  <2> QED
    BY <1>5, <2>1, <2>2, <2>3
<1>7. CASE ServiceSummary
  <2>1. PICK data : Enqueue(ServerMessage("Control", data))
    BY <1>7 DEF ServiceSummary
  <2>2. csn' = csn /\ connection' = connection
    BY <1>7 DEF ServiceSummary
  <2>3. ServerMessage("Control", data).clientId = None
    BY DEF ServerMessage
  <2>4. \A d \in Clients : connection'[d] # "new" => connection[d] # "new"
    BY <2>2
  <2> QED
    BY <1>3, <1>5, <2>1, <2>2, <2>3, <2>4
<1>8. ASSUME NEW c \in Clients, LoseMessage(c)
      PROVE  RawExtended /\ \A d \in Clients : NewInput(d)
  <2>1. raw' = raw /\ connection' = connection /\ csn' = [csn EXCEPT ![c] = @ + 1]
    BY <1>8 DEF LoseMessage
  <2>2. \A d \in Clients : csn[d] <= csn'[d]
    BY <1>1, <2>1
  <2> QED
    BY <2>1, <2>2, SameRaw, SameInput
<1>9. ASSUME NEW c \in Clients, NEW kind, Submit(c, kind)
      PROVE  RawExtended /\ \A d \in Clients : NewInput(d)
  <2>1. \E m : Enqueue(m)
    BY <1>9 DEF Submit
  <2>2. RawExtended
    BY <2>1, EnqueueExtends
  <2>3. ASSUME NEW d \in Clients PROVE NewInput(d)
    BY <1>9, SubmitInput
  <2> QED
    BY <2>2, <2>3
<1>10. CASE RepeatBoxcar
  BY <1>3, <1>10, RepeatExtends, RepeatInput
<1> QED
  BY <1>3, <1>4, <1>6, <1>7, <1>8, <1>9, <1>10 DEF Environment

LEMMA ReverseClients ==
    ASSUME TypeOK, \A i \in DOMAIN reverse : reverse[i].clientId = None, [Next]_vars
    PROVE  \A i \in DOMAIN reverse' : reverse'[i].clientId = None
<1> USE DEF logs, window, lambda, consumer, inFlight, checkpointing, environment
<1>0. reverse \in Seq(RawMessages)
  BY DEF TypeOK, SendsTypeOK
<1>1. \A type, data : ServerMessage(type, data).clientId = None
  BY DEF ServerMessage
<1>2. CASE Ticket
  <2>1. CASE reverse' = reverse
    BY <2>1
  <2>2. CASE SendToAlfred(Message)
    <3>1. \A i \in DOMAIN reverse' :
              \/ i \in DOMAIN reverse /\ reverse'[i] = reverse[i]
              \/ \E type \in {"ClientLeave", "NoClient"} : \E data :
                     reverse'[i] = ServerMessage(type, data)
      BY <1>0, <1>2, <2>2, TicketReverse, AlfredAdds
    <3> QED
      BY <1>1, <3>1
  <2> QED
    BY <1>2, <2>1, <2>2, TicketReverse
<1>3. CASE IdleTimerFires \/ NoopTimerFires
  <2>1. reverse' = reverse \/ reverse' = Append(reverse, ServerMessage("NoOp", None))
    BY <1>3 DEF IdleTimerFires, NoopTimerFires
  <2>2. \A i \in DOMAIN reverse' :
            \/ i \in DOMAIN reverse /\ reverse'[i] = reverse[i]
            \/ reverse'[i] = ServerMessage("NoOp", None)
    BY <1>0, <2>1
  <2> QED
    BY <1>1, <2>2
<1>4. CASE ReverseProduced
  <2>1. reverse' = Tail(reverse) /\ reverse # <<>>
    BY <1>4 DEF ReverseProduced
  <2>2. \A k \in DOMAIN Tail(reverse) : k + 1 \in DOMAIN reverse /\ Tail(reverse)[k] = reverse[k + 1]
    BY <1>0, <2>1, TailOfSeq
  <2> QED
    BY <2>1, <2>2
<1>5. CASE Restart
  BY <1>5 DEF Restart
<1>6. CASE Environment
  <2>1. UnchangedByEnvironment
    BY <1>6 DEF Environment, Connect, Submit, Disconnect, LoseMessage, RepeatBoxcar,
                ServiceSummary
  <2> QED
    BY <2>1 DEF UnchangedByEnvironment
<1>7. CASE Deliver \/ ForwardProduced \/ CheckpointReady \/ Update \/ Updated \/ UNCHANGED vars
  <2>1. reverse' = reverse
    BY <1>7 DEF Deliver, ForwardProduced, CheckpointReady, Update, Updated, vars
  <2> QED
    BY <2>1
<1> QED
  BY <1>2, <1>3, <1>4, <1>5, <1>6, <1>7 DEF Next, Process

LEMMA InputOrderStep ==
    ASSUME TypeOK, TypeOK', InputOrder, position = logOffset + 1, [Next]_vars, ~Restart
    PROVE  RawExtended /\ InputOrder' /\ \A c \in Clients : NewInput(c)
<1> USE DEF logs, window, lambda, consumer, inFlight, checkpointing, environment
<1>a. /\ reverse \in Seq(RawMessages) /\ logOffset \in Nat /\ frozen \in Nat
      /\ csn \in [Clients -> Nat] /\ raw \in Seq(Seq(RawMessages) \ {<<>>})
      /\ raw' \in Seq(Seq(RawMessages) \ {<<>>})
  BY DEF TypeOK, ConsumerTypeOK, SendsTypeOK, EnvironmentTypeOK
<1>0. /\ reverse \in Seq(RawMessages) /\ logOffset \in Nat /\ frozen \in Nat /\ Len(raw) \in Nat
      /\ Len(raw') \in Nat
      /\ csn \in [Clients -> Nat] /\ \A d \in Clients : csn[d] <= csn[d]
      /\ \A i \in DOMAIN reverse : reverse[i].clientId = None
      /\ logOffset <= frozen /\ frozen <= Len(raw)
  BY <1>a DEF InputOrder
<1>1. ASSUME RawExtended, \A c \in Clients : NewInput(c),
             logOffset' \in Nat, frozen' \in Nat, logOffset' <= frozen', frozen' <= Len(raw)
      PROVE  RawExtended /\ InputOrder' /\ \A c \in Clients : NewInput(c)
  <2>1. \A c \in Clients : ClientInput(c)'
    BY <1>1, ClientInputStep DEF InputOrder
  <2>2. \A i \in DOMAIN reverse' : reverse'[i].clientId = None
    BY <1>0, ReverseClients
  <2>3. frozen' <= Len(raw')
    BY <1>0, <1>1 DEF RawExtended
  <2> QED
    BY <1>1, <2>1, <2>2, <2>3 DEF InputOrder
<1>2. CASE Environment
  <2>1. /\ RawExtended /\ \A c \in Clients : NewInput(c)
        /\ logOffset' = logOffset /\ frozen' = frozen
    BY <1>0, <1>2, EnvironmentInputs
  <2> QED
    BY <1>0, <1>1, <2>1
<1>3. CASE ReverseProduced
  <2>1. /\ Enqueue(Head(reverse)) /\ reverse # <<>> /\ csn' = csn /\ connection' = connection
        /\ logOffset' = logOffset /\ frozen' = frozen
    BY <1>3 DEF ReverseProduced
  <2>2. Head(reverse).clientId = None
    BY <1>0, <2>1
  <2>3. RawExtended
    BY <1>0, <2>1, EnqueueExtends
  <2>4. ASSUME NEW c \in Clients PROVE NewInput(c)
    <3>1. Head(reverse).clientId # c /\ csn[c] <= csn'[c]
      BY <1>0, <2>1, <2>2, DeliConstants
    <3> QED
      BY <1>0, <2>1, <3>1, EnqueueInput
  <2> QED
    BY <1>0, <1>1, <2>1, <2>3, <2>4
<1>4. CASE Deliver
  <2>1. /\ raw' = raw /\ connection' = connection /\ csn' = csn
        /\ position <= Len(raw) /\ logOffset' = position
        /\ frozen' = IF position > frozen THEN position ELSE frozen
    BY <1>0, <1>4 DEF Deliver
  <2>2. /\ logOffset' \in Nat /\ frozen' \in Nat /\ logOffset' <= frozen'
        /\ frozen' <= Len(raw)
    BY <1>0, <2>1
  <2>3. \A c \in Clients : csn[c] <= csn'[c]
    BY <1>0, <2>1
  <2> QED
    BY <1>1, <2>1, <2>2, <2>3, SameRaw, SameInput
<1>5. CASE Ticket \/ IdleTimerFires \/ NoopTimerFires \/ ForwardProduced \/ CheckpointReady
           \/ Update \/ Updated \/ UNCHANGED vars
  <2>1. /\ raw' = raw /\ connection' = connection /\ csn' = csn
        /\ logOffset' = logOffset /\ frozen' = frozen
    BY <1>5 DEF Ticket, UnchangedByTicket, IdleTimerFires, NoopTimerFires, ForwardProduced,
                CheckpointReady, Update, Updated, vars
  <2>2. \A c \in Clients : csn[c] <= csn'[c]
    BY <1>0, <2>1
  <2> QED
    BY <1>0, <1>1, <2>1, <2>2, SameRaw, SameInput
<1> QED
  BY <1>2, <1>3, <1>4, <1>5 DEF Next, Process

-----------------------------------------------------------------------------
(* What has been ticketed of the raw topic, and the nacks of it.           *)

NackOrder ==
    /\ OvertakenStuck /\ NackedBeyond /\ NacksPassed /\ NackedBarred
    /\ NackedForGood /\ SuccessorsAccepted

PassedStays ==
    /\ \A s \in RawPlaces : Passed(s)' <=> Passed(s)
    /\ \A t : t \in RawPlaces' /\ t \notin RawPlaces => ~Passed(t)'

LEMMA PassedPlace ==
    ASSUME NEW s, s \in RawPlaces, TypeOK
    PROVE  Passed(s) <=> s[1] < logOffset \/ (s[1] = logOffset /\ (cursor = 0 \/ s[2] < cursor))
  BY PlaceFacts DEF Passed

LEMMA PassedPlaces ==
    TypeOK => \A s \in RawPlaces :
        /\ Passed(s) <=> \/ s[1] < logOffset
                         \/ s[1] = logOffset /\ (cursor = 0 \/ s[2] < cursor)
        /\ s[1] \in Nat /\ s[2] \in Nat /\ s[2] >= 1
  BY PassedPlace, PlaceFacts

LEMMA PassedStep ==
    ASSUME TypeOK, TypeOK', RawExtended, InputOrder, position = logOffset + 1,
           [Next]_vars, ~Ticket, ~Restart
    PROVE  PassedStays
<1> USE DEF logs, window, lambda, consumer, inFlight, checkpointing, environment
<1>0. logOffset \in Nat /\ frozen \in Nat /\ logOffset <= frozen /\ cursor \in Nat
  BY DEF InputOrder, TypeOK, ConsumerTypeOK, EnvironmentTypeOK
<1>1. \A s \in RawPlaces :
          Passed(s) <=> s[1] < logOffset \/ (s[1] = logOffset /\ (cursor = 0 \/ s[2] < cursor))
  BY PassedPlace
<1>2. \A s \in RawPlaces' :
          /\ Passed(s)' <=> \/ s[1] < logOffset'
                            \/ s[1] = logOffset' /\ (cursor' = 0 \/ s[2] < cursor')
          /\ s[1] \in Nat /\ s[2] \in Nat /\ s[2] >= 1
  <2>1. (TypeOK => \A s \in RawPlaces :
             /\ Passed(s) <=> \/ s[1] < logOffset
                              \/ s[1] = logOffset /\ (cursor = 0 \/ s[2] < cursor)
             /\ s[1] \in Nat /\ s[2] \in Nat /\ s[2] >= 1)'
    BY PassedPlaces, PTL
  <2> QED
    BY <2>1
<1>3. \A s \in RawPlaces : s \in RawPlaces'
  BY DEF RawExtended
<1>4. \A t : t \in RawPlaces' /\ t \notin RawPlaces => t[1] > frozen
  BY DEF RawExtended
<1>5. CASE logOffset' = logOffset /\ cursor' = cursor
  <2>1. \A s \in RawPlaces : Passed(s)' <=> Passed(s)
    BY <1>1, <1>2, <1>3, <1>5
  <2>2. \A t : t \in RawPlaces' /\ t \notin RawPlaces => ~Passed(t)'
    BY <1>0, <1>2, <1>4, <1>5
  <2> QED
    BY <2>1, <2>2 DEF PassedStays
<1>6. CASE Deliver
  <2>1. /\ logOffset' = logOffset + 1 /\ cursor' = 1 /\ cursor = 0 /\ raw' = raw
    BY <1>0, <1>6 DEF Deliver
  <2>2. \A s \in RawPlaces : Passed(s)' <=> Passed(s)
    BY <1>0, <1>1, <1>2, <1>3, <2>1
  <2>3. \A t : t \in RawPlaces' => t \in RawPlaces
    BY <2>1, SameRaw
  <2> QED
    BY <2>2, <2>3 DEF PassedStays
<1>7. CASE Environment
  <2>1. UnchangedByEnvironment
    BY <1>7 DEF Environment, Connect, Submit, Disconnect, LoseMessage, RepeatBoxcar,
                ServiceSummary
  <2> QED
    BY <1>5, <2>1 DEF UnchangedByEnvironment
<1>8. CASE IdleTimerFires \/ NoopTimerFires \/ ForwardProduced \/ ReverseProduced
           \/ CheckpointReady \/ Update \/ Updated \/ UNCHANGED vars
  <2>1. logOffset' = logOffset /\ cursor' = cursor
    BY <1>8 DEF IdleTimerFires, NoopTimerFires, ForwardProduced, ReverseProduced,
                CheckpointReady, Update, Updated, vars
  <2> QED
    BY <1>5, <2>1
<1> QED
  BY <1>6, <1>7, <1>8 DEF Next, Process

(* The places of what was sent. *)
LEMMA OperationAtPlace ==
    ASSUME TypeOK, OutputPassed, NEW m \in Operations
    PROVE  m.src \in RawPlaces /\ RawOf(m) = RawAt(m.src)
<1>1. m.src \in Nat \X Nat
  BY OperationType DEF TypeOK, OutputMessages
<1>2. m.src = <<m.src[1], m.src[2]>>
  BY <1>1
<1>3. m.src[1] \in DOMAIN raw /\ m.src[2] \in DOMAIN raw[m.src[1]]
  BY DEF OutputPassed, Passed
<1> QED
  BY <1>2, <1>3, PlaceIn DEF RawOf, RawAt

LEMMA RawOfStays ==
    ASSUME TypeOK, RawExtended, OutputPassed, NacksPassed
    PROVE  /\ \A m \in Operations : RawOf(m)' = RawOf(m)
           /\ \A i \in DOMAIN Output : \A m : m = Output[i] => RawOf(m)' = RawOf(m)
<1>1. \A m : m.src \in RawPlaces => RawOf(m)' = RawOf(m)
  BY DEF RawExtended, RawOf, RawAt
<1>2. \A m \in Operations : RawOf(m)' = RawOf(m)
  BY <1>1, OperationAtPlace
<1>3. ASSUME NEW i \in DOMAIN Output PROVE Output[i].src \in RawPlaces
  <2>1. CASE Output[i].kind = "nack"
    BY <2>1 DEF NacksPassed, PlacesOf
  <2>2. CASE Output[i].kind = "op"
    <3>1. Output[i] \in Operations
      BY <2>2 DEF Operations
    <3> QED
      BY <3>1, OperationAtPlace
  <2>3. Output[i].kind \in {"op", "nack"}
    <3>1. Output[i] \in OutputMessages
      BY OutputElement DEF TypeOK
    <3> QED
      BY <3>1 DEF OutputMessages
  <2> QED
    BY <2>1, <2>2, <2>3
<1>4. ASSUME NEW i \in DOMAIN Output, NEW m, m = Output[i] PROVE RawOf(m)' = RawOf(m)
  BY <1>1, <1>3, <1>4
<1> QED
  BY <1>2, <1>4

(* A step that tickets nothing changes nothing of it. *)
LEMMA NackFrame ==
    ASSUME TypeOK, TypeOK', RawExtended, PassedStays, clients' = clients, Output' = Output,
           OutputPassed, InputOrder, \A c \in Clients : NewInput(c), NackOrder
    PROVE  NackOrder'
<1>0. /\ OvertakenStuck /\ NackedBeyond /\ NacksPassed /\ NackedBarred
      /\ NackedForGood /\ SuccessorsAccepted
  BY DEF NackOrder
<1>1. Operations' = Operations /\ Tracked' = Tracked
  BY DEF Operations, Tracked
<1>2. \A c \in Tracked : c \in Clients /\ clients[c].csn \in Nat
  BY DEF TypeOK, LambdaTypeOK, Tracked, TrackedIn, ClientStates
<1>3. /\ \A m \in Operations : RawOf(m)' = RawOf(m)
      /\ \A i \in DOMAIN Output : \A m : m = Output[i] => RawOf(m)' = RawOf(m)
  BY <1>0, RawOfStays
<1>4. ASSUME NEW c \in Clients
      PROVE  Overtaken(c)' <=> Overtaken(c)
  <2>1. ASSUME Overtaken(c) PROVE Overtaken(c)'
    <3>1. PICK s \in PlacesOf(c) : Passed(s) /\ RawAt(s).csn > clients[c].csn
      BY <2>1 DEF Overtaken
    <3>2. s \in PlacesOf(c)' /\ Passed(s)' /\ RawAt(s)' = RawAt(s)
      BY <3>1, PlacesKept DEF PassedStays
    <3> QED
      BY <3>1, <3>2 DEF Overtaken
  <2>2. ASSUME Overtaken(c)' PROVE Overtaken(c)
    <3>1. PICK s : s \in PlacesOf(c)' /\ Passed(s)' /\ RawAt(s)'.csn > clients[c].csn
      BY <2>2 DEF Overtaken
    <3>2. s \in RawPlaces
      BY <3>1 DEF PassedStays, PlacesOf
    <3>3. s \in PlacesOf(c) /\ Passed(s) /\ RawAt(s)' = RawAt(s)
      BY <3>1, <3>2, PlacesKept DEF PassedStays
    <3> QED
      BY <3>1, <3>3 DEF Overtaken
  <2> QED
    BY <2>1, <2>2
<1>5. OvertakenStuck'
  <2>1. SUFFICES ASSUME NEW c \in Tracked, ~clients[c].nack, Overtaken(c)'
                 PROVE  Stuck(c)'
    BY <1>1 DEF OvertakenStuck
  <2>2. Overtaken(c) /\ Stuck(c) /\ c \in Clients
    BY <1>0, <1>2, <1>4, <2>1 DEF OvertakenStuck
  <2>3. SUFFICES ASSUME NEW t, t \in PlacesOf(c)', RawAt(t)'.csn = clients[c].csn + 1
                 PROVE  Forbidden(RawAt(t))'
    BY DEF Stuck
  <2>4. \A s \in PlacesOf(c) : RawAt(s).csn = clients[c].csn + 1 => Forbidden(RawAt(s))
    BY <2>2 DEF Stuck
  <2>5. ASSUME NEW s \in PlacesOf(c), RawAt(t)' = RawAt(s) PROVE Forbidden(RawAt(t))'
    BY <2>3, <2>4, <2>5 DEF Forbidden
  <2>6. CASE t \in RawPlaces
    <3>1. t \in PlacesOf(c) /\ RawAt(t)' = RawAt(t)
      BY <2>3, <2>6, PlacesKept
    <3> QED
      BY <2>5, <3>1
  <2>7. CASE NextInput(c, t)
    <3>1. PICK s \in PlacesOf(c) : Passed(s) /\ RawAt(s).csn > clients[c].csn
      BY <2>2 DEF Overtaken
    <3>2. RawAt(s).csn <= csn[c] /\ RawAt(s).csn \in Int /\ csn[c] \in Nat
      BY <2>2, <3>1, PlaceFacts DEF InputOrder, ClientInput, PlacesOf, TypeOK, EnvironmentTypeOK
    <3>3. clients[c].csn + 1 = csn[c] + 1
      BY <2>3, <2>7 DEF NextInput
    <3> QED
      BY <1>2, <3>1, <3>2, <3>3
  <2> QED
    BY <2>2, <2>3, <2>5, <2>6, <2>7 DEF NewInput
<1>6. NackedBeyond'
  BY <1>0, <1>1 DEF NackedBeyond
<1>7. NacksPassed'
  <2>1. SUFFICES ASSUME NEW i \in DOMAIN Output, NEW m, m = Output[i], m.kind = "nack"
                 PROVE  m.clientId \in Clients /\ m.src \in PlacesOf(m.clientId)' /\ Passed(m.src)'
    BY DEF NacksPassed
  <2>2. m.clientId \in Clients /\ m.src \in PlacesOf(m.clientId) /\ Passed(m.src)
    BY <1>0, <2>1 DEF NacksPassed
  <2>3. PICK s, c : s = m.src /\ c = m.clientId
    OBVIOUS
  <2>4. s \in PlacesOf(c)' /\ Passed(s)'
    BY <2>2, <2>3, PlacesKept DEF PassedStays
  <2> QED
    BY <2>2, <2>3, <2>4
<1>8. NackedBarred'
  <2>1. SUFFICES ASSUME NEW i \in DOMAIN Output, LowNack(Output[i])
                 PROVE  Barred(Output[i].clientId)'
    BY DEF NackedBarred, LowNack
  <2>2. PICK c : c = Output[i].clientId
    OBVIOUS
  <2>3. c \in Clients /\ Barred(c)
    BY <1>0, <2>1, <2>2 DEF NackedBarred, NacksPassed, LowNack
  <2>4. Barred(c)'
    BY <1>1, <1>4, <2>3 DEF Barred
  <2> QED
    BY <2>2, <2>4
<1>9. NackedForGood'
  BY <1>0 DEF NackedForGood
<1>10. SuccessorsAccepted'
  <2>1. \A c : Leaves(c)' = Leaves(c)
    BY <1>1, <1>3 DEF Leaves
  <2>2. \A i \in DOMAIN Output : \A m : m = Output[i] => Forbidden(RawOf(m))' = Forbidden(RawOf(m))
    BY <1>3 DEF Forbidden
  <2> QED
    BY <1>0, <2>1, <2>2 DEF SuccessorsAccepted
<1> QED
  BY <1>5, <1>6, <1>7, <1>8, <1>9, <1>10 DEF NackOrder

-----------------------------------------------------------------------------
(* How a message is judged.                                                *)

(* Message r is the next that is sent. *)
Grown(r) ==
    /\ \A i \in DOMAIN Output : i \in DOMAIN Output' /\ Output'[i] = Output[i]
    /\ \A i \in DOMAIN Output' :
          i \in DOMAIN Output \/ (Output'[i] = r /\ \A k \in DOMAIN Output : k < i)
    /\ \A i, j \in DOMAIN Output' : i < j => i \in DOMAIN Output
    /\ \A n : n \in Operations' <=> n \in Operations \/ (n = r /\ r.kind = "op")

LEMMA OutputSent ==
    ASSUME TypeOK, TypeOK', deltas' = deltas, NEW r, sending' = Append(sending, r)
    PROVE  Grown(r)
<1>1. SendsTypeOK /\ SendsTypeOK'
  BY DEF TypeOK
<1>2. Output \in Seq(OutputMessages)
  BY <1>1, OutputPlaces
<1>3. PICK s : s = Output
  OBVIOUS
<1>4. PICK t : t = Output'
  OBVIOUS
<1>5. t = Append(s, r) /\ s \in Seq(OutputMessages)
  BY <1>1, <1>2, <1>3, <1>4, OutputAppends
<1>6. Len(s) \in Nat /\ DOMAIN s = 1 .. Len(s)
  BY <1>5
<1>7. \A i \in DOMAIN s : i \in DOMAIN t /\ t[i] = s[i]
  BY <1>5
<1>8. DOMAIN t = 1 .. Len(s) + 1 /\ t[Len(s) + 1] = r
  BY <1>5
<1>9. \A i \in DOMAIN t : i \in DOMAIN s \/ (t[i] = r /\ \A k \in DOMAIN s : k < i)
  <2>1. SUFFICES ASSUME NEW i \in DOMAIN t, i \notin DOMAIN s
                 PROVE  t[i] = r /\ \A k \in DOMAIN s : k < i
    OBVIOUS
  <2>2. i = Len(s) + 1
    BY <1>6, <1>8, <2>1
  <2> QED
    BY <1>6, <1>8, <2>2
<1>10. \A n : n \in Operations' <=> n \in Operations \/ (n = r /\ r.kind = "op")
  BY <1>1, SendAdds
<1>11. \A i, j \in DOMAIN t : i < j => i \in DOMAIN s
  BY <1>6, <1>8
<1> QED
  BY <1>3, <1>4, <1>7, <1>9, <1>10, <1>11 DEF Grown

(* The entry of a tracked client is replaced. *)
EntrySet(c, n, nack) ==
    /\ Tracked' = Tracked /\ clients'[c].csn = n /\ clients'[c].nack = nack
    /\ \A d \in Clients : d # c => clients'[d] = clients[d]

LEMMA UpsertEntry ==
    ASSUME TypeOK, NEW c \in Tracked, NEW n \in Nat, NEW ref \in Nat, NEW nack \in BOOLEAN,
           clients' = Upsert(c, n, ref, nack)
    PROVE  EntrySet(c, n, nack)
<1> DEFINE e == [csn |-> n, ref |-> ref, nack |-> nack]
<1>1. e \in ClientStates /\ e.csn = n /\ e.nack = nack
  BY DEF ClientStates
<1>2. clients' = [clients EXCEPT ![c] = e] /\ clients \in [Clients -> ClientStates \cup {None}]
  BY DEF Upsert, TypeOK, LambdaTypeOK
<1> HIDE DEF e
<1>3. e # None
  BY <1>1, DeliConstants
<1>4. clients'[c] = e /\ \A d \in Clients : d # c => clients'[d] = clients[d]
  BY <1>2 DEF Tracked, TrackedIn
<1>5. Tracked' = Tracked
  BY <1>3, <1>4 DEF Tracked, TrackedIn
<1> QED
  BY <1>1, <1>4, <1>5 DEF EntrySet

NextOf(m) ==
    /\ m.clientId \in Tracked /\ ~clients[m.clientId].nack
    /\ m.csn = clients[m.clientId].csn + 1

Ignoring(m) ==
    /\ Output' = Output /\ clients' = clients
    /\ m.clientId \in Tracked /\ m.csn <= clients[m.clientId].csn

Refusal(m, r) ==
    /\ m.clientId \in Clients
    /\ r.kind = "nack" /\ r.clientId = m.clientId /\ r.csn = m.csn /\ r.ref = m.ref
    /\ r.msn = minimumSequenceNumber /\ r.src = Source

Refusing(m) ==
    \/ /\ clients' = clients /\ m.clientId \in Tracked
       /\ m.csn > clients[m.clientId].csn + 1
    \/ /\ clients' = clients
       /\ m.clientId \in Tracked =>
             clients[m.clientId].nack /\ m.csn = clients[m.clientId].csn + 1
    \/ NextOf(m) /\ BelowWindow(m) /\ EntrySet(m.clientId, m.csn, TRUE)
    \/ clients' = clients /\ NextOf(m) /\ ~BelowWindow(m) /\ Forbidden(m)

Accepting(m) ==
    /\ NextOf(m) /\ ~Forbidden(m) /\ EntrySet(m.clientId, m.csn, FALSE)
    /\ Output' = Output \/ \E r : Grown(r) /\ r.kind = "op" /\ r.clientId = m.clientId

(* The service's own messages. *)
Managing(m) ==
    /\ m.clientId = None
    /\ clients' = clients \/ Joining(m) \/ Leaving(m)
    /\ Output' = Output \/ \E r : Grown(r) /\ r.kind = "op" /\ r.clientId = None

LEMMA ImmediateSent ==
    ASSUME TypeOK, TypeOK', deltas' = deltas, NEW m, NEW ref, SendImmediately(m, ref)
    PROVE  \E r : Grown(r) /\ r.kind = "op" /\ r.clientId = m.clientId
<1> DEFINE r == [kind |-> "op", type |-> m.type, clientId |-> m.clientId, csn |-> m.csn,
                 ref |-> ref, seq |-> sequenceNumber', msn |-> minimumSequenceNumber',
                 deli |-> AdditionalContent(m), src |-> Source]
<1>1. sending' = Append(sending, r) /\ r.kind = "op" /\ r.clientId = m.clientId
  BY DEF SendImmediately
<1> HIDE DEF r
<1>2. Grown(r)
  BY <1>1, OutputSent
<1> QED
  BY <1>1, <1>2

LEMMA NackSent ==
    ASSUME TypeOK, TypeOK', deltas' = deltas, NEW m, m.clientId \in Clients, SendNack(m)
    PROVE  \E r : Grown(r) /\ Refusal(m, r)
<1> DEFINE r == NackMessage(m)
<1>1. sending' = Append(sending, r) /\ Refusal(m, r)
  BY DEF SendNack, NackMessage, Refusal
<1> HIDE DEF r
<1>2. Grown(r)
  BY <1>1, OutputSent
<1> QED
  BY <1>1, <1>2

LEMMA TicketJudged ==
    ASSUME TypeOK, TypeOK', Ticket,
           Message.type \notin {"Operation", "NoOp", "Summarize"} => Message.clientId = None
    PROVE  \/ Message.type = "ClientJoin" /\ Message.data \in Tracked
           \/ Ignoring(Message)
           \/ (\E r : Grown(r) /\ Refusal(Message, r)) /\ Refusing(Message)
           \/ Accepting(Message)
           \/ Managing(Message)
<1> DEFINE m == Message
           Goal == \/ m.type = "ClientJoin" /\ m.data \in Tracked
                   \/ Ignoring(m)
                   \/ (\E r : Grown(r) /\ Refusal(m, r)) /\ Refusing(m)
                   \/ Accepting(m)
                   \/ Managing(m)
<1>1. m \in RawMessages
  BY TicketReverse
<1>2. /\ deltas' = deltas /\ clients \in [Clients -> ClientStates \cup {None}]
      /\ sequenceNumber \in Nat /\ minimumSequenceNumber \in Nat
  BY DEF Ticket, UnchangedByTicket, logs, TypeOK, LambdaTypeOK
<1>3. m.type \in {"ClientJoin", "ClientLeave", "NoClient", "Control"} => m.clientId = None
  OBVIOUS
<1> HIDE DEF m
<1> SUFFICES Goal
  BY DEF m
<1>4. m.csn \in Int /\ m.clientId \in Clients \cup {None} /\ m.ref \in Int /\ None \notin Tracked
  BY <1>1, DeliConstants DEF RawMessages, Tracked, TrackedIn
<1>5. \A c \in Tracked : c \in Clients /\ clients[c].csn \in Nat
  BY <1>2 DEF Tracked, TrackedIn, ClientStates
<1>a. ASSUME sending' = sending PROVE Output' = Output
  BY <1>2, <1>a DEF Output
<1>b. ASSUME SendNack(m), m.clientId \in Clients PROVE \E r : Grown(r) /\ Refusal(m, r)
  BY <1>2, <1>b, NackSent
<1>c. ASSUME NEW ref, SendImmediately(m, ref)
      PROVE  \E r : Grown(r) /\ r.kind = "op" /\ r.clientId = m.clientId
  BY <1>2, <1>c, ImmediateSent
<1>d. ASSUME FromClient(m), ~Nonexistent(m)
      PROVE  NextOf(m) /\ m.csn \in Nat /\ m.clientId \in Clients
  <2>1. m.clientId \in Tracked /\ ~clients[m.clientId].nack
    BY <1>d DEF Nonexistent
  <2>2. m.csn = clients[m.clientId].csn + 1
    BY <1>d, <2>1 DEF FromClient, Order
  <2> QED
    BY <1>4, <1>5, <2>1, <2>2 DEF NextOf
<1>6. CASE TicketDuplicate(m)
  <2>1. clients' = clients /\ sending' = sending /\ Order(m) = "Duplicate"
    BY <1>6 DEF TicketDuplicate, lambda, window, inFlight
  <2>2. m.clientId \in Tracked /\ m.csn <= clients[m.clientId].csn
    BY <1>4, <1>5, <2>1 DEF Order
  <2> QED
    BY <1>a, <2>1, <2>2 DEF Ignoring
<1>7. CASE TicketLeaveOfUnknown(m)
  <2>1. clients' = clients /\ sending' = sending /\ m.clientId = None
    BY <1>3, <1>7 DEF TicketLeaveOfUnknown, lambda, window, inFlight
  <2> QED
    BY <1>a, <2>1 DEF Managing
<1>8. CASE TicketRepeatedJoin(m)
  BY <1>8 DEF TicketRepeatedJoin
<1>9. CASE TicketGap(m)
  <2>1. SendNack(m) /\ clients' = clients /\ m.clientId \in Tracked
        /\ m.csn > clients[m.clientId].csn + 1
    BY <1>4, <1>9 DEF TicketGap, Order
  <2> QED
    BY <1>5, <1>b, <2>1 DEF Refusing
<1>10. CASE TicketNonexistent(m)
  <2>1. SendNack(m) /\ clients' = clients /\ FromClient(m) /\ Nonexistent(m)
    BY <1>10 DEF TicketNonexistent
  <2>2. m.clientId \in Clients
    BY <1>4, <2>1 DEF FromClient
  <2>3. m.clientId \in Tracked =>
            clients[m.clientId].nack /\ m.csn = clients[m.clientId].csn + 1
    BY <2>1 DEF FromClient, Order, Nonexistent
  <2> QED
    BY <1>b, <2>1, <2>2, <2>3 DEF Refusing
<1>11. CASE TicketBelowWindow(m)
  <2>1. /\ SendNack(m) /\ FromClient(m) /\ ~Nonexistent(m) /\ BelowWindow(m)
        /\ clients' = Upsert(m.clientId, m.csn, minimumSequenceNumber, TRUE)
    BY <1>11 DEF TicketBelowWindow
  <2>2. NextOf(m) /\ m.csn \in Nat /\ m.clientId \in Clients
    BY <1>d, <2>1
  <2>3. EntrySet(m.clientId, m.csn, TRUE)
    BY <1>2, <2>1, <2>2, UpsertEntry DEF NextOf
  <2> QED
    BY <1>b, <2>1, <2>2, <2>3 DEF Refusing
<1>12. CASE TicketForbidden(m)
  <2>1. /\ SendNack(m) /\ FromClient(m) /\ ~Nonexistent(m) /\ ~BelowWindow(m) /\ Forbidden(m)
        /\ clients' = clients
    BY <1>12 DEF TicketForbidden
  <2> QED
    BY <1>b, <1>d, <2>1 DEF Refusing
<1>13. CASE TicketJoin(m)
  <2>1. /\ SendImmediately(m, m.ref) /\ Joining(m)
    BY <1>3, <1>13 DEF TicketJoin, Advance, JoinReference, Joining
  <2>2. m.clientId = None
    BY <2>1 DEF Joining
  <2> QED
    BY <1>c, <2>1, <2>2 DEF Managing
<1>14. CASE TicketLeave(m)
  <2>1. /\ SendImmediately(m, m.ref) /\ Leaving(m)
    BY <1>3, <1>14 DEF TicketLeave, Advance, Leaving
  <2>2. m.clientId = None
    BY <2>1 DEF Leaving
  <2> QED
    BY <1>c, <2>1, <2>2 DEF Managing
<1>15. CASE TicketClientOp(m)
  <2> DEFINE ref == IF m.ref = -1 THEN sequenceNumber + 1 ELSE m.ref
  <2>1. /\ SendImmediately(m, ref) /\ clients' = Upsert(m.clientId, m.csn, ref, FALSE)
        /\ FromClient(m) /\ ~Nonexistent(m) /\ ~Forbidden(m)
    BY <1>15 DEF TicketClientOp, Advance, Accepted
  <2>2. ref \in Nat
    BY <1>1, <1>2 DEF RawMessages
  <2> HIDE DEF ref
  <2>3. NextOf(m) /\ m.csn \in Nat
    BY <1>d, <2>1
  <2>4. EntrySet(m.clientId, m.csn, FALSE)
    BY <2>1, <2>2, <2>3, UpsertEntry DEF NextOf
  <2> QED
    BY <1>c, <2>1, <2>3, <2>4 DEF Accepting
<1>16. CASE TicketClientNoOp(m)
  <2> DEFINE send == /\ m.immediate
                     /\ MinimumOf(Upsert(m.clientId, m.csn, m.ref, FALSE), sequenceNumber)
                            > lastSentMSN
  <2>1. /\ clients' = Upsert(m.clientId, m.csn, m.ref, FALSE)
        /\ IF send THEN SendImmediately(m, m.ref) ELSE SendLater
        /\ FromClient(m) /\ ~Nonexistent(m) /\ ~Forbidden(m) /\ m.ref >= minimumSequenceNumber
    BY <1>16 DEF TicketClientNoOp, Advance, Accepted
  <2> HIDE DEF send
  <2>2. m.ref \in Nat
    BY <1>1, <1>2, <2>1 DEF RawMessages
  <2>3. NextOf(m) /\ m.csn \in Nat
    BY <1>d, <2>1
  <2>4. EntrySet(m.clientId, m.csn, FALSE)
    BY <2>1, <2>2, <2>3, UpsertEntry DEF NextOf
  <2>5. Output' = Output \/ SendImmediately(m, m.ref)
    BY <1>a, <2>1 DEF SendLater
  <2> QED
    BY <1>c, <2>1, <2>3, <2>4, <2>5 DEF Accepting
<1>17. CASE TicketServerNoOp(m)
  <2>1. /\ clients' = clients /\ m.clientId = None
        /\ sending' = sending \/ SendImmediately(m, m.ref)
    BY <1>17 DEF TicketServerNoOp, SendNever
  <2> QED
    BY <1>a, <1>c, <2>1 DEF Managing
<1>18. CASE TicketNoClient(m)
  <2>1. /\ clients' = clients /\ m.clientId = None
        /\ sending' = sending \/ SendImmediately(m, sequenceNumber')
    BY <1>3, <1>18 DEF TicketNoClient, Advance, SendNever
  <2> QED
    BY <1>a, <1>c, <2>1 DEF Managing
<1>19. CASE TicketControl(m)
  <2>1. clients' = clients /\ sending' = sending /\ m.clientId = None
    BY <1>3, <1>19 DEF TicketControl, Advance, SendNever
  <2> QED
    BY <1>a, <2>1 DEF Managing
<1> QED
  BY <1>6, <1>7, <1>8, <1>9, <1>10, <1>11, <1>12, <1>13, <1>14, <1>15, <1>16, <1>17, <1>18,
     <1>19 DEF Ticket, m

-----------------------------------------------------------------------------
(* What the judgement of a message does to a client. *)

Ticketing(p, m) ==
    /\ raw' = raw /\ p \in RawPlaces /\ p = Source /\ m = RawAt(p) /\ ~Passed(p)
    /\ \A s \in RawPlaces :
          /\ Passed(s)' <=> Passed(s) \/ s = p
          /\ Before(s, p) => Passed(s)
          /\ Before(p, s) => ~Passed(s)

LEMMA TicketPasses ==
    ASSUME TypeOK, TypeOK', Ticket
    PROVE  \E p : Ticketing(p, Message)
<1>1. PICK p : p = Source
  OBVIOUS
<1>2. /\ cursor # 0 /\ logOffset \in DOMAIN raw /\ cursor \in DOMAIN raw[logOffset]
      /\ raw' = raw /\ logOffset' = logOffset
  BY DEF Ticket, TypeOK, ConsumerTypeOK, UnchangedByTicket, logs, consumer
<1>3. p \in RawPlaces /\ RawAt(p) = Message /\ p[1] = logOffset /\ p[2] = cursor
  BY <1>1, <1>2, PlaceIn DEF Source, Message
<1>4. /\ logOffset \in Nat /\ cursor \in Nat /\ cursor >= 1
      /\ raw[logOffset] \in Seq(RawMessages)
  BY <1>2, ElementType DEF TypeOK, ConsumerTypeOK
<1>5. \A s \in RawPlaces :
          /\ Passed(s) <=> s[1] < logOffset \/ (s[1] = logOffset /\ s[2] < cursor)
          /\ s = <<s[1], s[2]>> /\ s[1] \in Nat /\ s[2] \in Nat /\ s[2] >= 1
          /\ s[2] <= Len(raw[s[1]])
  BY <1>2, PassedPlace, PlaceFacts
<1>6. ~Passed(p)
  BY <1>3, <1>4, <1>5
<1>7. \A s \in RawPlaces : (Before(s, p) => Passed(s)) /\ (Before(p, s) => ~Passed(s))
  BY <1>3, <1>4, <1>5 DEF Before
<1>8. \A s \in RawPlaces : s[1] = logOffset /\ s[2] = cursor <=> s = p
  BY <1>3, <1>5
<1>9. \A s \in RawPlaces :
          Passed(s)' <=> \/ s[1] < logOffset
                         \/ s[1] = logOffset /\ (cursor' = 0 \/ s[2] < cursor')
  BY <1>2, PlaceFacts DEF Passed
<1>10. \A s \in RawPlaces : Passed(s)' <=> Passed(s) \/ s = p
  <2>1. CASE cursor < Len(raw[logOffset])
    <3>1. cursor' = cursor + 1
      BY <2>1 DEF Ticket, EndOfMessage
    <3> QED
      BY <1>4, <1>5, <1>8, <1>9, <3>1
  <2>2. CASE ~(cursor < Len(raw[logOffset]))
    <3>1. cursor' = 0
      BY <2>2 DEF Ticket, EndOfMessage
    <3>2. cursor = Len(raw[logOffset])
      BY <1>2, <1>4, <2>2
    <3> QED
      BY <1>4, <1>5, <1>8, <1>9, <3>1, <3>2
  <2> QED
    BY <2>1, <2>2
<1> QED
  BY <1>1, <1>2, <1>3, <1>6, <1>7, <1>10 DEF Ticketing

Unmoved(m, c) ==
    /\ clients'[c] = clients[c]
    /\ m.clientId = c => c \in Tracked /\ m.csn <= clients[c].csn

Ahead(m, c) ==
    /\ m.clientId = c /\ clients'[c] = clients[c]
    /\ c \in Tracked /\ m.csn > clients[c].csn + 1

Absent(m, c) ==
    /\ m.clientId = c /\ clients'[c] = clients[c]
    /\ c \in Tracked => clients[c].nack /\ m.csn = clients[c].csn + 1

Dropped(m, c) == m.clientId = c /\ NextOf(m) /\ BelowWindow(m) /\ EntrySet(c, m.csn, TRUE)

Denied(m, c) ==
    /\ m.clientId = c /\ clients'[c] = clients[c]
    /\ NextOf(m) /\ ~BelowWindow(m) /\ Forbidden(m)

Taken(m, c) == m.clientId = c /\ NextOf(m) /\ ~Forbidden(m) /\ EntrySet(c, m.csn, FALSE)

Entered(m, c) == Joining(m) /\ m.data = c
Left(m, c) == Leaving(m) /\ m.data = c

Refused(m, c) == Ahead(m, c) \/ Absent(m, c) \/ Dropped(m, c) \/ Denied(m, c)

Affected(m, c) ==
    Unmoved(m, c) \/ Refused(m, c) \/ Taken(m, c) \/ Entered(m, c) \/ Left(m, c)

Answered(m) ==
    \/ Output' = Output
    \/ \E r : /\ Grown(r)
              /\ \/ Refusal(m, r) /\ Refused(m, m.clientId)
                 \/ r.kind = "op" /\ r.clientId = None
                 \/ r.kind = "op" /\ r.clientId = m.clientId /\ Taken(m, m.clientId)

LEMMA ClientJudged ==
    ASSUME TypeOK, TypeOK', Ticket, InputBehind, OutputPassed, JoinedOnce, KnowsMembers
    PROVE  (\A c \in Clients : Affected(Message, c)) /\ Answered(Message)
<1> DEFINE m == Message
<1>1. m \in RawMessages /\ m.clientId \in Clients \cup {None}
  BY TicketReverse DEF RawMessages
<1>2. /\ cursor # 0 /\ logOffset \in DOMAIN raw /\ cursor \in DOMAIN raw[logOffset]
      /\ m = raw[logOffset][cursor] /\ clients \in [Clients -> ClientStates \cup {None}]
  BY DEF Ticket, TypeOK, ConsumerTypeOK, LambdaTypeOK, Message
<1>3. m.type \notin {"Operation", "NoOp", "Summarize"} => m.clientId = None
  BY <1>2 DEF InputBehind, MessageBehind
<1>4. ~(m.type = "ClientJoin" /\ m.data \in Tracked)
  <2>1. m.type = "ClientJoin" => Joins(m.data) = {}
    BY <1>2, SourceIsFresh
  <2> QED
    BY <2>1 DEF KnowsMembers, Tracked, TrackedIn
<1>5. \/ Ignoring(m)
      \/ (\E r : Grown(r) /\ Refusal(m, r)) /\ Refusing(m)
      \/ Accepting(m)
      \/ Managing(m)
  BY <1>3, <1>4, TicketJudged
<1> HIDE DEF m
<1> SUFFICES (\A c \in Clients : Affected(m, c)) /\ Answered(m)
  BY DEF m
<1>6. \A c \in Clients : m.clientId = None => m.clientId # c
  BY DeliConstants
<1>7. CASE Ignoring(m)
  BY <1>7 DEF Ignoring, Affected, Unmoved, Answered
<1>8. CASE (\E r : Grown(r) /\ Refusal(m, r)) /\ Refusing(m)
  <2>1. m.clientId \in Clients
    BY <1>8 DEF Refusal
  <2>2. Refused(m, m.clientId)
    BY <1>8 DEF Refusing, Refused, Ahead, Absent, Dropped, Denied
  <2>3. \A c \in Clients : c # m.clientId => clients'[c] = clients[c]
    BY <1>8 DEF Refusing, EntrySet
  <2>4. \A c \in Clients : Affected(m, c)
    BY <2>2, <2>3 DEF Affected, Unmoved
  <2> QED
    BY <1>8, <2>2, <2>4 DEF Answered
<1>9. CASE Accepting(m)
  <2>1. Taken(m, m.clientId)
    BY <1>9 DEF Accepting, Taken
  <2>2. \A c \in Clients : c # m.clientId => clients'[c] = clients[c]
    BY <1>9 DEF Accepting, EntrySet
  <2>3. \A c \in Clients : Affected(m, c)
    BY <2>1, <2>2 DEF Affected, Unmoved
  <2> QED
    BY <1>9, <2>1, <2>3 DEF Accepting, Answered
<1>10. CASE Managing(m)
  <2>1. ASSUME NEW c \in Clients PROVE Affected(m, c)
    <3>1. m.clientId # c
      BY <1>6, <1>10 DEF Managing
    <3>2. clients'[c] = clients[c] \/ Entered(m, c) \/ Left(m, c)
      BY <1>2, <1>10 DEF Managing, Joining, Leaving, Entered, Left, Upsert, Remove
    <3> QED
      BY <3>1, <3>2 DEF Affected, Unmoved
  <2>2. Answered(m)
    BY <1>10 DEF Managing, Answered
  <2> QED
    BY <2>1, <2>2
<1> QED
  BY <1>5, <1>7, <1>8, <1>9, <1>10

-----------------------------------------------------------------------------
(* Nacks are for good. *)

LEMMA TicketKeepsPlaces ==
    ASSUME NEW p, NEW m, Ticketing(p, m)
    PROVE  /\ \A c : PlacesOf(c)' = PlacesOf(c)
           /\ \A s : RawAt(s)' = RawAt(s)
           /\ \A n : RawOf(n)' = RawOf(n)
           /\ p \in PlacesOf(m.clientId)
<1>1. raw' = raw
  BY DEF Ticketing
<1>2. \A s : RawAt(s)' = RawAt(s)
  BY <1>1 DEF RawAt
<1>3. RawPlaces' = RawPlaces
  BY <1>1 DEF RawPlaces
<1>4. \A c : PlacesOf(c)' = PlacesOf(c)
  BY <1>2, <1>3 DEF PlacesOf
<1>5. \A n : RawOf(n)' = RawOf(n)
  BY <1>1 DEF RawOf
<1>6. p \in PlacesOf(m.clientId)
  BY DEF Ticketing, PlacesOf
<1> QED
  BY <1>2, <1>4, <1>5, <1>6

LEMMA PlaceNumbers ==
    ASSUME TypeOK, NEW c \in Clients
    PROVE  /\ \A s \in PlacesOf(c) : RawAt(s).csn \in Int /\ RawAt(s).clientId = c
           /\ c \in Tracked => clients[c].csn \in Nat /\ clients[c].nack \in BOOLEAN
           /\ c \in Tracked <=> clients[c] # None
  BY PlaceFacts DEF PlacesOf, TypeOK, LambdaTypeOK, Tracked, TrackedIn, ClientStates

(* A client's messages come after its join. *)
LEMMA NothingPassed ==
    ASSUME TypeOK, InputOrder, JoinedOnce, NEW p, NEW m, Ticketing(p, m), NEW c \in Clients,
           Entered(m, c), NEW s \in PlacesOf(c)
    PROVE  ~Passed(s) /\ s # p
<1>1. m.type = "ClientJoin" /\ m.data = c /\ m.clientId = None
  BY DEF Entered, Joining
<1>2. p \in RawPlaces /\ m = RawAt(p)
  BY DEF Ticketing
<1>3. PICK j \in JoinsOf(c) : Before(j, s)
  BY DEF InputOrder, ClientInput
<1>4. j \in RawPlaces /\ RawAt(j).type = "ClientJoin" /\ RawAt(j).data = c
  BY DEF JoinsOf
<1>5. j[1] = p[1] /\ j[2] = p[2]
  <2>1. /\ j[1] \in DOMAIN raw /\ j[2] \in DOMAIN raw[j[1]]
        /\ p[1] \in DOMAIN raw /\ p[2] \in DOMAIN raw[p[1]]
    BY <1>2, <1>4, PlaceFacts
  <2> QED
    BY <1>1, <1>2, <1>4, <2>1 DEF JoinedOnce, RawAt
<1>6. Before(p, s)
  BY <1>3, <1>5 DEF Before
<1>7. s \in RawPlaces /\ RawAt(s).clientId = c
  BY DEF PlacesOf
<1>8. s # p
  BY <1>1, <1>2, <1>7, DeliConstants
<1> QED
  BY <1>6, <1>7, <1>8 DEF Ticketing

LEMMA TakenUnbarred ==
    ASSUME TypeOK, OvertakenStuck, NEW p, NEW m, Ticketing(p, m), NEW c \in Clients,
           Taken(m, c)
    PROVE  c \in Tracked /\ ~clients[c].nack /\ ~Overtaken(c)
<1>1. c \in Tracked /\ ~clients[c].nack /\ m.csn = clients[c].csn + 1 /\ ~Forbidden(m)
  BY DEF Taken, NextOf
<1>2. p \in PlacesOf(c) /\ m = RawAt(p)
  BY TicketKeepsPlaces DEF Taken, Ticketing
<1>3. ~Stuck(c)
  BY <1>1, <1>2 DEF Stuck
<1> QED
  BY <1>1, <1>3 DEF OvertakenStuck

LEMMA StuckStep ==
    ASSUME TypeOK, TypeOK', InputOrder, JoinedOnce, OvertakenStuck, NEW p, NEW m,
           Ticketing(p, m), NEW c \in Clients, Affected(m, c),
           clients'[c] # None, ~clients'[c].nack, Overtaken(c)'
    PROVE  Stuck(c)'
<1>1. PICK s \in PlacesOf(c) : /\ Passed(s) \/ s = p
                               /\ RawAt(s).csn > clients'[c].csn
  <2>1. PICK s : s \in PlacesOf(c)' /\ Passed(s)' /\ RawAt(s)'.csn > clients'[c].csn
    BY DEF Overtaken
  <2>2. s \in PlacesOf(c) /\ RawAt(s)' = RawAt(s)
    BY <2>1, TicketKeepsPlaces
  <2>3. s \in RawPlaces
    BY <2>2 DEF PlacesOf
  <2> QED
    BY <2>1, <2>2, <2>3 DEF Ticketing
<1>2. SUFFICES ASSUME NEW t \in PlacesOf(c), RawAt(t).csn = clients'[c].csn + 1
               PROVE  Forbidden(RawAt(t))
  <2>1. SUFFICES ASSUME NEW t, t \in PlacesOf(c)', RawAt(t)'.csn = clients'[c].csn + 1
                 PROVE  Forbidden(RawAt(t))'
    BY DEF Stuck
  <2>2. t \in PlacesOf(c) /\ RawAt(t)' = RawAt(t)
    BY <2>1, TicketKeepsPlaces
  <2>3. Forbidden(RawAt(t))
    BY <1>2, <2>1, <2>2
  <2> QED
    BY <2>2, <2>3 DEF Forbidden
<1>3. /\ \A u \in PlacesOf(c) : RawAt(u).csn \in Int /\ RawAt(u).clientId = c
      /\ c \in Tracked => clients[c].csn \in Nat /\ clients[c].nack \in BOOLEAN
      /\ c \in Tracked <=> clients[c] # None
  BY PlaceNumbers
<1>4. m = RawAt(p) /\ (m.clientId = c => p \in PlacesOf(c)) /\ (s = p => m.clientId = c)
  BY <1>1, TicketKeepsPlaces DEF Ticketing, PlacesOf
<1>5. \A u, v \in PlacesOf(c) :
          /\ RawAt(u).csn = RawAt(v).csn => RawAt(u).type = RawAt(v).type
          /\ RawAt(v).csn < RawAt(u).csn =>
                \E r \in PlacesOf(c) : Before(r, u) /\ RawAt(r).csn = RawAt(v).csn
  BY DEF InputOrder, ClientInput, NumbersInOrder
(* If it was overtaken before, it was stuck. *)
<1>6. ASSUME clients'[c] = clients[c], NEW u \in PlacesOf(c), Passed(u),
             RawAt(u).csn > clients[c].csn
      PROVE  Forbidden(RawAt(t))
  <2>1. c \in Tracked /\ ~clients[c].nack /\ Overtaken(c)
    BY <1>3, <1>6 DEF Overtaken
  <2>2. Stuck(c)
    BY <2>1 DEF OvertakenStuck
  <2> QED
    BY <1>2, <1>6, <2>2 DEF Stuck
<1>7. CASE Unmoved(m, c)
  <2>1. clients'[c] = clients[c] /\ c \in Tracked
    BY <1>3, <1>7 DEF Unmoved
  <2>2. s # p
    BY <1>1, <1>3, <1>4, <1>7, <2>1 DEF Unmoved
  <2> QED
    BY <1>1, <1>6, <2>1, <2>2
<1>8. CASE Ahead(m, c)
  <2>1. /\ clients'[c] = clients[c] /\ c \in Tracked /\ p \in PlacesOf(c)
        /\ RawAt(p).csn > clients[c].csn + 1
    BY <1>4, <1>8 DEF Ahead
  <2>2. RawAt(t).csn < RawAt(p).csn
    BY <1>2, <1>3, <2>1
  <2>3. PICK r \in PlacesOf(c) : Before(r, p) /\ RawAt(r).csn = RawAt(t).csn
    BY <1>5, <2>1, <2>2
  <2>4. Passed(r)
    BY <2>3 DEF Ticketing, PlacesOf
  <2>5. RawAt(r).csn > clients[c].csn
    BY <1>2, <1>3, <2>1, <2>3
  <2> QED
    BY <1>6, <2>1, <2>4, <2>5
<1>9. CASE Absent(m, c)
  BY <1>3, <1>9 DEF Absent
<1>10. CASE Dropped(m, c)
  BY <1>10 DEF Dropped, EntrySet
<1>11. CASE Denied(m, c)
  <2>1. /\ clients'[c] = clients[c] /\ p \in PlacesOf(c) /\ Forbidden(m)
        /\ RawAt(p).csn = clients[c].csn + 1
    BY <1>4, <1>11 DEF Denied, NextOf
  <2>2. RawAt(t).type = RawAt(p).type /\ RawAt(t).clientId = RawAt(p).clientId
    BY <1>2, <1>3, <1>5, <2>1
  <2> QED
    BY <1>4, <2>1, <2>2 DEF Forbidden
<1>12. CASE Taken(m, c)
  <2>1. ~Overtaken(c) /\ c \in Tracked
    BY <1>12, TakenUnbarred
  <2>2. clients'[c].csn = m.csn /\ m.csn = clients[c].csn + 1 /\ m.clientId = c
    BY <1>12 DEF Taken, EntrySet, NextOf
  <2>3. s # p
    BY <1>1, <1>3, <1>4, <2>2
  <2>4. Passed(s) /\ RawAt(s).csn > clients[c].csn
    BY <1>1, <1>3, <2>1, <2>2, <2>3
  <2> QED
    BY <2>1, <2>4 DEF Overtaken
<1>13. CASE Entered(m, c)
  BY <1>1, <1>13, NothingPassed
<1>14. CASE Left(m, c)
  <2>1. clients'[c] = None
    BY <1>14 DEF Left, Leaving, Remove, TypeOK, LambdaTypeOK
  <2> QED
    BY <2>1
<1> QED
  BY <1>7, <1>8, <1>9, <1>10, <1>11, <1>12, <1>13, <1>14 DEF Affected, Refused

LEMMA OvertakenKept ==
    ASSUME NEW p, NEW m, Ticketing(p, m), NEW c, clients'[c] = clients[c], Overtaken(c)
    PROVE  Overtaken(c)'
<1>1. PICK s \in PlacesOf(c) : Passed(s) /\ RawAt(s).csn > clients[c].csn
  BY DEF Overtaken
<1>2. s \in PlacesOf(c)' /\ RawAt(s)' = RawAt(s)
  BY <1>1, TicketKeepsPlaces
<1>3. Passed(s)'
  BY <1>1 DEF Ticketing, PlacesOf
<1> QED
  BY <1>1, <1>2, <1>3 DEF Overtaken

LEMMA BarredStep ==
    ASSUME TypeOK, TypeOK', OvertakenStuck, NEW p, NEW m, Ticketing(p, m), NEW c \in Clients,
           Affected(m, c), Barred(c), ~Entered(m, c)
    PROVE  Barred(c)'
<1>1. /\ c \in Tracked <=> clients[c] # None
      /\ c \in Tracked' <=> clients'[c] # None
  BY DEF Tracked, TrackedIn
<1>2. CASE clients'[c] = clients[c]
  <2>1. Overtaken(c) => Overtaken(c)'
    BY <1>2, OvertakenKept
  <2> QED
    BY <1>1, <1>2, <2>1 DEF Barred
<1>3. CASE Dropped(m, c)
  BY <1>3 DEF Dropped, EntrySet, Barred
<1>4. CASE Taken(m, c)
  BY <1>4, TakenUnbarred DEF Barred
<1>5. CASE Left(m, c)
  <2>1. clients'[c] = None
    BY <1>5 DEF Left, Leaving, Remove, TypeOK, LambdaTypeOK
  <2> QED
    BY <1>1, <2>1 DEF Barred
<1> QED
  BY <1>2, <1>3, <1>4, <1>5 DEF Affected, Refused, Unmoved, Ahead, Absent, Denied

LEMMA RefusedBarred ==
    ASSUME TypeOK, TypeOK', NEW p, NEW m, Ticketing(p, m), NEW r, Refusal(m, r),
           Refused(m, m.clientId), LowNack(r)
    PROVE  Barred(m.clientId)'
<1>1. PICK c : c = m.clientId
  OBVIOUS
<1>2. c \in Clients /\ r.ref = m.ref /\ r.msn = minimumSequenceNumber
  BY <1>1 DEF Refusal
<1>3. BelowWindow(m)
  <2>1. minimumSequenceNumber \in Nat
    BY DEF TypeOK, LambdaTypeOK
  <2>2. r.ref \in 0 .. r.msn - 1
    BY DEF LowNack
  <2> QED
    BY <1>2, <2>1, <2>2 DEF BelowWindow
<1>4. /\ c \in Tracked <=> clients[c] # None
      /\ c \in Tracked' <=> clients'[c] # None
  BY <1>2 DEF Tracked, TrackedIn
<1> SUFFICES Barred(c)'
  BY <1>1
<1>5. CASE Ahead(m, c)
  <2>1. /\ clients'[c] = clients[c] /\ c \in Tracked /\ m.csn > clients[c].csn + 1
    BY <1>5 DEF Ahead
  <2>2. p \in PlacesOf(c)' /\ RawAt(p)' = m /\ p \in PlacesOf(c) /\ Passed(p)'
    BY <1>1, TicketKeepsPlaces DEF Ticketing
  <2>3. clients[c].csn \in Nat /\ m.csn \in Int
    BY <1>2, <2>1, <2>2, PlaceNumbers DEF Ticketing
  <2>4. m.csn > clients'[c].csn
    BY <2>1, <2>3
  <2>5. Overtaken(c)'
    BY <2>2, <2>4 DEF Overtaken
  <2> QED
    BY <2>5 DEF Barred
<1>6. CASE Absent(m, c)
  BY <1>4, <1>6 DEF Absent, Barred
<1>7. CASE Dropped(m, c)
  BY <1>7 DEF Dropped, EntrySet, Barred
<1>8. CASE Denied(m, c)
  BY <1>3, <1>8 DEF Denied
<1> QED
  BY <1>1, <1>5, <1>6, <1>7, <1>8 DEF Refused

(* Nobody is tracked again who was refused for good. *)
LEMMA BeyondStep ==
    ASSUME TypeOK, TypeOK', KnowsMembers, NackedBeyond, NEW m, NEW c \in Clients,
           Affected(m, c), Answered(m), clients'[c] # None, clients'[c].nack,
           NEW n \in Operations', n.clientId = c
    PROVE  n.csn < clients'[c].csn
<1>1. /\ c \in Tracked <=> clients[c] # None
      /\ c \in Tracked => clients[c].csn \in Nat
  BY PlaceNumbers
<1>2. ~Taken(m, c)
  BY DEF Taken, EntrySet
<1>3. n \in Operations
  <2>1. CASE Output' = Output
    BY <2>1 DEF Operations
  <2>2. CASE Output' # Output
    <3>1. PICK r : /\ Grown(r)
                   /\ \/ Refusal(m, r) /\ Refused(m, m.clientId)
                      \/ r.kind = "op" /\ r.clientId = None
                      \/ r.kind = "op" /\ r.clientId = m.clientId /\ Taken(m, m.clientId)
      BY <2>2 DEF Answered
    <3>2. n \in Operations \/ (n = r /\ r.kind = "op")
      BY <3>1 DEF Grown
    <3>3. ASSUME n = r, r.kind = "op" PROVE FALSE
      <4>1. ~Refusal(m, r)
        BY <3>3 DEF Refusal
      <4>2. r.clientId = c /\ c # None
        BY <3>3, DeliConstants
      <4> QED
        BY <1>2, <3>1, <4>1, <4>2
    <3> QED
      BY <3>2, <3>3
  <2> QED
    BY <2>1, <2>2
<1>4. c \in Tracked => n.csn <= clients[c].csn
  BY <1>3 DEF KnowsMembers
<1>5. n.csn \in Int
  BY <1>3, OperationType DEF TypeOK, OutputMessages
<1>6. CASE clients'[c] = clients[c]
  BY <1>1, <1>3, <1>6 DEF NackedBeyond
<1>7. CASE Dropped(m, c)
  <2>1. c \in Tracked /\ clients'[c].csn = clients[c].csn + 1
    BY <1>7 DEF Dropped, NextOf, EntrySet
  <2> QED
    BY <1>1, <1>4, <1>5, <2>1
<1>8. CASE Entered(m, c)
  <2>1. clients'[c] = [csn |-> 0, ref |-> minimumSequenceNumber, nack |-> FALSE]
    BY <1>8 DEF Entered, Joining, Upsert, TypeOK, LambdaTypeOK
  <2> QED
    BY <2>1
<1>9. CASE Left(m, c)
  <2>1. clients'[c] = None
    BY <1>9 DEF Left, Leaving, Remove, TypeOK, LambdaTypeOK
  <2> QED
    BY <2>1
<1> QED
  BY <1>2, <1>6, <1>7, <1>8, <1>9 DEF Affected, Refused, Unmoved, Ahead, Absent, Denied

(* A refused successor is refused for a reason. *)
LEMMA RefusedSuccessor ==
    ASSUME TypeOK, KnowsMembers, OperationsOfMembers, NackedBeyond, NEW m, NEW r,
           Refusal(m, r), Refused(m, m.clientId), m.csn \in Int,
           NEW n \in Operations, n.clientId = r.clientId, r.csn = n.csn + 1
    PROVE  r.ref < r.msn \/ Forbidden(m) \/ Leaves(r.clientId) # {}
<1>1. PICK c : c = m.clientId
  OBVIOUS
<1>2. /\ c \in Clients /\ r.clientId = c /\ r.ref = m.ref /\ r.msn = minimumSequenceNumber
      /\ r.csn = m.csn
  BY <1>1 DEF Refusal
<1>3. n.csn \in Int
  BY OperationType DEF TypeOK, OutputMessages
<1>4. c \in Tracked => clients[c].csn \in Nat /\ n.csn <= clients[c].csn
  BY <1>2, PlaceNumbers DEF KnowsMembers
<1>5. CASE Ahead(m, c)
  BY <1>2, <1>3, <1>4, <1>5 DEF Ahead
<1>6. CASE Absent(m, c) /\ c \in Tracked
  <2>1. n.csn < clients[c].csn /\ m.csn = clients[c].csn + 1
    BY <1>2, <1>6 DEF Absent, NackedBeyond
  <2> QED
    BY <1>2, <1>3, <1>4, <1>6, <2>1
<1>7. CASE c \notin Tracked
  <2>1. c \in MembersAt(n.seq)
    BY <1>2, DeliConstants DEF OperationsOfMembers
  <2>2. Joins(c) # {}
    BY <2>1 DEF MembersAt
  <2>3. Leaves(c) # {}
    BY <1>2, <1>7, <2>2 DEF KnowsMembers
  <2> QED
    BY <1>2, <2>3
<1>8. CASE Dropped(m, c)
  <2>1. m.ref < minimumSequenceNumber
    BY <1>8 DEF Dropped, BelowWindow
  <2> QED
    BY <1>2, <2>1
<1>9. CASE Denied(m, c)
  BY <1>9 DEF Denied
<1> QED
  BY <1>1, <1>5, <1>6, <1>7, <1>8, <1>9 DEF Refused


LEMMA TicketNacks ==
    ASSUME TypeOK, TypeOK', InputOrder, JoinedOnce, OutputPassed, KnowsMembers,
           OperationsOfMembers, InputBehind, NackOrder, Ticket
    PROVE  NackOrder'
<1>1. PICK m : m = Message
  OBVIOUS
<1>2. PICK p : Ticketing(p, m)
  BY <1>1, TicketPasses
<1>3. (\A c \in Clients : Affected(m, c)) /\ Answered(m)
  <2>1. (\A c \in Clients : Affected(Message, c)) /\ Answered(Message)
    BY ClientJudged
  <2> QED
    BY <1>1, <2>1
<1>4. /\ OvertakenStuck /\ NackedBeyond /\ NacksPassed /\ NackedBarred
      /\ NackedForGood /\ SuccessorsAccepted
  BY DEF NackOrder
<1>5. /\ \A c \in Clients : c \in Tracked' <=> clients'[c] # None
      /\ \A c \in Tracked' : c \in Clients
      /\ m.csn \in Int /\ RawAt(p) = m /\ p = Source
  BY <1>2, PlaceFacts DEF Tracked, TrackedIn, Ticketing
<1>6. /\ \A c : PlacesOf(c)' = PlacesOf(c)
      /\ \A s : RawAt(s)' = RawAt(s)
      /\ \A n : RawOf(n)' = RawOf(n)
      /\ p \in PlacesOf(m.clientId)
  BY <1>2, TicketKeepsPlaces
<1>7. OvertakenStuck'
  <2>1. SUFFICES ASSUME NEW c \in Tracked', ~clients'[c].nack, Overtaken(c)' PROVE Stuck(c)'
    BY DEF OvertakenStuck
  <2> QED
    BY <1>2, <1>3, <1>4, <1>5, <2>1, StuckStep
<1>8. NackedBeyond'
  <2>1. SUFFICES ASSUME NEW c \in Tracked', clients'[c].nack, NEW n \in Operations',
                        n.clientId = c
                 PROVE  n.csn < clients'[c].csn
    BY DEF NackedBeyond
  <2> QED
    BY <1>3, <1>4, <1>5, <2>1, BeyondStep
(* What is sent is what was sent, or the answer to this message.  *)
<1>9. ASSUME NEW i, i \in DOMAIN Output'
      PROVE  \/ i \in DOMAIN Output /\ Output'[i] = Output[i]
             \/ \E r : /\ Output'[i] = r /\ Grown(r) /\ \A k \in DOMAIN Output : k < i
                       /\ \/ Refusal(m, r) /\ Refused(m, m.clientId)
                          \/ r.kind = "op" /\ r.clientId = None
                          \/ r.kind = "op" /\ r.clientId = m.clientId /\ Taken(m, m.clientId)
  <2>1. CASE Output' = Output
    BY <1>9, <2>1
  <2>2. CASE Output' # Output
    <3>1. PICK r : /\ Grown(r)
                   /\ \/ Refusal(m, r) /\ Refused(m, m.clientId)
                      \/ r.kind = "op" /\ r.clientId = None
                      \/ r.kind = "op" /\ r.clientId = m.clientId /\ Taken(m, m.clientId)
      BY <1>3, <2>2 DEF Answered
    <3> QED
      BY <1>9, <3>1 DEF Grown
  <2> QED
    BY <2>1, <2>2
<1>10. \A i \in DOMAIN Output : i \in DOMAIN Output' /\ Output'[i] = Output[i]
  <2>1. CASE Output' = Output
    BY <2>1
  <2>2. CASE \E r : Grown(r)
    BY <2>2 DEF Grown
  <2> QED
    BY <1>3, <2>1, <2>2 DEF Answered
<1>11. \A i \in DOMAIN Output : Output[i] \in OutputMessages /\ i \in Nat
  BY OutputElement DEF TypeOK
<1>12. \A i, j \in DOMAIN Output' : i < j => i \in DOMAIN Output /\ Output'[i] = Output[i]
  <2>1. CASE Output' = Output
    BY <2>1
  <2>2. CASE \E r : Grown(r)
    BY <2>2 DEF Grown
  <2> QED
    BY <1>3, <2>1, <2>2 DEF Answered
<1>13. NacksPassed'
  <2>1. SUFFICES ASSUME NEW i, i \in DOMAIN Output', NEW n, n = Output'[i], n.kind = "nack"
                 PROVE  /\ n.clientId \in Clients
                        /\ n.src \in PlacesOf(n.clientId)' /\ Passed(n.src)'
    BY DEF NacksPassed
  <2>2. CASE i \in DOMAIN Output /\ n = Output[i]
    <3>1. n.clientId \in Clients /\ n.src \in PlacesOf(n.clientId) /\ Passed(n.src)
      BY <1>4, <2>1, <2>2 DEF NacksPassed
    <3>2. PICK s : s = n.src
      OBVIOUS
    <3>3. s \in RawPlaces /\ Passed(s)
      BY <3>1, <3>2 DEF PlacesOf
    <3>4. Passed(s)'
      BY <1>2, <3>3 DEF Ticketing
    <3> QED
      BY <1>6, <3>1, <3>2, <3>4
  <2>3. CASE Refusal(m, n)
    <3>1. n.clientId = m.clientId /\ m.clientId \in Clients /\ n.src = p
      BY <1>5, <2>3 DEF Refusal
    <3>2. Passed(p)'
      BY <1>2 DEF Ticketing
    <3> QED
      BY <1>6, <3>1, <3>2
  <2> QED
    BY <1>9, <2>1, <2>2, <2>3
<1>14. ASSUME NEW i \in DOMAIN Output, LowNack(Output[i]), NEW c, c = Output[i].clientId
       PROVE  c \in Clients /\ Barred(c) /\ Barred(c)'
  <2>1. /\ c \in Clients /\ Barred(c)
        /\ Output[i].src \in PlacesOf(c) /\ Passed(Output[i].src)
    BY <1>4, <1>14 DEF NackedBarred, NacksPassed, LowNack
  <2>2. ~Entered(m, c)
    BY <1>2, <2>1, NothingPassed
  <2> QED
    BY <1>2, <1>3, <1>4, <2>1, <2>2, BarredStep
<1>15. NackedBarred'
  <2>1. SUFFICES ASSUME NEW i, i \in DOMAIN Output', NEW n, n = Output'[i], LowNack(n),
                        NEW c, c = n.clientId
                 PROVE  Barred(c)'
    BY DEF NackedBarred, LowNack
  <2>2. CASE i \in DOMAIN Output /\ n = Output[i]
    BY <1>14, <2>1, <2>2
  <2>3. CASE Refusal(m, n) /\ Refused(m, m.clientId)
    <3>1. c = m.clientId
      BY <2>1, <2>3 DEF Refusal
    <3>2. Barred(m.clientId)'
      BY <1>2, <2>1, <2>3, RefusedBarred
    <3> QED
      BY <3>1, <3>2
  <2>4. n.kind = "nack"
    BY <2>1 DEF LowNack
  <2> QED
    BY <1>9, <2>1, <2>2, <2>3, <2>4
<1>16. NackedForGood'
  <2>1. SUFFICES ASSUME NEW i, i \in DOMAIN Output', NEW j, j \in DOMAIN Output', i < j,
                        NEW n, n = Output'[i], NEW r, r = Output'[j], LowNack(n),
                        n.clientId = r.clientId
                 PROVE  r.kind = "nack"
    BY DEF NackedForGood, LowNack
  <2>2. i \in DOMAIN Output /\ n = Output[i]
    BY <1>12, <2>1
  <2>3. CASE j \in DOMAIN Output /\ r = Output[j]
    BY <1>4, <2>1, <2>2, <2>3 DEF NackedForGood, LowNack
  <2>4. CASE r.kind = "op" /\ (r.clientId = None \/ (r.clientId = m.clientId /\ Taken(m, m.clientId)))
    <3>1. PICK c : c = n.clientId
      OBVIOUS
    <3>2. c \in Clients /\ Barred(c)
      BY <1>14, <2>1, <2>2, <3>1
    <3>3. r.clientId = c /\ c # None
      BY <2>1, <3>1, <3>2, DeliConstants
    <3>4. Taken(m, c)
      BY <2>4, <3>3
    <3> QED
      BY <1>2, <1>4, <3>2, <3>4, TakenUnbarred DEF Barred
  <2> QED
    BY <1>9, <2>1, <2>3, <2>4 DEF Refusal
<1>17. SuccessorsAccepted'
  <2>1. SUFFICES ASSUME NEW i, i \in DOMAIN Output', NEW j, j \in DOMAIN Output', i < j,
                        NEW n, n = Output'[i], NEW r, r = Output'[j],
                        n.kind = "op", r.kind = "nack",
                        n.clientId = r.clientId, r.csn = n.csn + 1
                 PROVE  \/ r.ref < r.msn \/ Forbidden(RawOf(r))'
                        \/ \E k \in 1 .. j : Output'[k] \in Leaves(r.clientId)'
    BY DEF SuccessorsAccepted
  <2>2. i \in DOMAIN Output /\ n = Output[i]
    BY <1>12, <2>1
  <2>3. n \in Operations
    BY <2>1, <2>2 DEF Operations
  <2>4. PICK c : c = r.clientId
    OBVIOUS
  <2>5. \A x \in Leaves(c) : x \in Leaves(c)'
    <3>1. \A x \in Operations : x \in Operations'
      <4>1. CASE Output' = Output
        BY <4>1 DEF Operations
      <4>2. CASE \E q : Grown(q)
        BY <4>2 DEF Grown
      <4> QED
        BY <1>3, <4>1, <4>2 DEF Answered
    <3> QED
      BY <1>6, <3>1 DEF Leaves
  <2>6. CASE j \in DOMAIN Output /\ r = Output[j]
    <3>1. \/ r.ref < r.msn \/ Forbidden(RawOf(r))
          \/ \E k \in 1 .. j : Output[k] \in Leaves(c)
      BY <1>4, <2>1, <2>2, <2>4, <2>6 DEF SuccessorsAccepted
    <3>2. ASSUME NEW k \in 1 .. j, Output[k] \in Leaves(c)
          PROVE  Output'[k] \in Leaves(c)'
      <4>1. Output \in Seq(OutputMessages)
        BY OutputPlaces DEF TypeOK
      <4>2. k \in DOMAIN Output
        BY <2>6, <4>1
      <4> QED
        BY <1>10, <2>5, <3>2, <4>2
    <3>3. Forbidden(RawOf(r)) => Forbidden(RawOf(r))'
      BY <1>6 DEF Forbidden
    <3> QED
      BY <2>4, <3>1, <3>2, <3>3
  <2>7. CASE /\ \A k \in DOMAIN Output : k < j
             /\ Refusal(m, r) /\ Refused(m, m.clientId)
    <3>1. r.ref < r.msn \/ Forbidden(m) \/ Leaves(r.clientId) # {}
      BY <1>4, <1>5, <2>1, <2>3, <2>7, RefusedSuccessor
    <3>2. RawOf(r)' = m
      <4>1. r.src = p
        BY <1>5, <2>7 DEF Refusal
      <4>2. RawOf(r) = RawAt(p)
        BY <4>1 DEF RawOf, RawAt
      <4> QED
        BY <1>5, <1>6, <4>2
    <3>3. Forbidden(m) => Forbidden(RawOf(r))'
      BY <3>2 DEF Forbidden
    <3>4. ASSUME NEW x \in Leaves(c)
          PROVE  \E k \in 1 .. j : Output'[k] \in Leaves(c)'
      <4>1. PICK k \in DOMAIN Output : Output[k] = x
        BY DEF Leaves, Operations
      <4>2. k \in Nat /\ k >= 1 /\ k < j /\ j \in Nat
        <5>1. Output \in Seq(OutputMessages)
          BY OutputPlaces DEF TypeOK
        <5>2. (SendsTypeOK => Output \in Seq(OutputMessages))'
          BY OutputPlaces, PTL
        <5>3. Output' \in Seq(OutputMessages)
          BY <5>2 DEF TypeOK
        <5>4. k \in Nat /\ k >= 1
          BY <5>1
        <5>5. j \in Nat
          BY <2>1, <5>3
        <5> QED
          BY <2>7, <5>4, <5>5
      <4>3. Output'[k] = x
        BY <1>10, <4>1
      <4> QED
        BY <2>5, <4>2, <4>3
    <3> QED
      BY <2>4, <3>1, <3>3, <3>4
  <2> QED
    BY <1>9, <2>1, <2>6, <2>7
<1> QED
  BY <1>7, <1>8, <1>13, <1>15, <1>16, <1>17 DEF NackOrder

LEMMA OthersSendNothing ==
    ASSUME TypeOK, [Next]_vars, ~Ticket, ~Restart
    PROVE  clients' = clients /\ Output' = Output
<1> USE DEF logs, window, lambda, consumer, inFlight, checkpointing, environment
<1>1. (deltas' = deltas /\ sending' = sending) => Output' = Output
  BY DEF Output
<1>2. CASE ForwardProduced
  BY <1>2, OutputForwarded DEF ForwardProduced, TypeOK
<1>3. CASE Environment
  <2>1. UnchangedByEnvironment
    BY <1>3 DEF Environment, Connect, Submit, Disconnect, LoseMessage, RepeatBoxcar,
                ServiceSummary
  <2> QED
    BY <1>1, <2>1 DEF UnchangedByEnvironment
<1>4. CASE Deliver \/ IdleTimerFires \/ NoopTimerFires \/ ReverseProduced \/ CheckpointReady
           \/ Update \/ Updated \/ UNCHANGED vars
  <2>1. clients' = clients /\ deltas' = deltas /\ sending' = sending
    BY <1>4 DEF Deliver, IdleTimerFires, NoopTimerFires, ReverseProduced, CheckpointReady,
                Update, Updated, vars
  <2> QED
    BY <1>1, <2>1
<1> QED
  BY <1>2, <1>3, <1>4 DEF Next, Process

LEMMA NackStep ==
    ASSUME TypeOK, TypeOK', WindowInv, MembersInv, NackInv, [Next]_vars
    PROVE  NackInv'
<1>1. CASE restarts # 0 \/ Restart
  <2>1. restarts' \in Nat /\ restarts \in Nat
    BY DEF TypeOK, EnvironmentTypeOK
  <2>2. restarts' = restarts \/ restarts' = restarts + 1
    BY RestartsGrow
  <2>3. restarts' # 0
    BY <1>1, <2>1, <2>2 DEF Restart
  <2> QED
    BY <2>3 DEF NackInv
<1>2. CASE restarts = 0 /\ ~Restart
  <2>1. /\ position = logOffset + 1 /\ JoinedOnce /\ OutputPassed /\ KnowsMembers
        /\ OperationsOfMembers /\ InputBehind /\ InputOrder
    BY <1>2 DEF WindowInv, MembersInv, NackInv
  <2>2. NackOrder
    BY <1>2 DEF NackInv, NackOrder
  <2>3. RawExtended /\ InputOrder' /\ \A c \in Clients : NewInput(c)
    BY <1>2, <2>1, InputOrderStep
  <2>4. CASE Ticket
    <3>1. NackOrder'
      BY <2>1, <2>2, <2>4, TicketNacks
    <3> QED
      BY <2>3, <3>1 DEF NackInv, NackOrder
  <2>5. CASE ~Ticket
    <3>1. PassedStays
      BY <1>2, <2>1, <2>3, <2>5, PassedStep
    <3>2. clients' = clients /\ Output' = Output
      BY <1>2, <2>5, OthersSendNothing
    <3>3. NackOrder'
      BY <2>1, <2>2, <2>3, <3>1, <3>2, NackFrame
    <3> QED
      BY <2>3, <3>3 DEF NackInv, NackOrder
  <2> QED
    BY <2>4, <2>5
<1> QED
  BY <1>1, <1>2

LEMMA NackInit == Init => NackInv
<1> SUFFICES ASSUME Init PROVE NackInv
  OBVIOUS
<1>1. /\ raw = <<>> /\ deltas = <<>> /\ sending = <<>> /\ reverse = <<>>
      /\ logOffset = 0 /\ frozen = 0 /\ clients = [c \in Clients |-> None]
      /\ connection = [c \in Clients |-> "new"]
  BY DEF Init, DefaultCheckpoint
<1>2. DOMAIN raw = {} /\ Len(raw) = 0 /\ DOMAIN reverse = {} /\ DOMAIN Output = {}
  BY <1>1 DEF Output
<1>3. RawPlaces = {}
  BY <1>2 DEF RawPlaces
<1>4. \A c : PlacesOf(c) = {}
  BY <1>3 DEF PlacesOf
<1>5. \A c \in Clients : ClientInput(c)
  BY <1>1, <1>4 DEF ClientInput, NumbersInOrder
<1>6. InputOrder
  BY <1>1, <1>2, <1>5 DEF InputOrder
<1>7. Tracked = {}
  BY <1>1 DEF Tracked, TrackedIn
<1> QED
  BY <1>2, <1>6, <1>7 DEF NackInv, OvertakenStuck, NackedBeyond, NacksPassed, NackedBarred,
                          NackedForGood, SuccessorsAccepted

(* Until its first restart, Deli has refused for good everyone who sent a  *)
(* message below the window: either it remembers, or a number that it      *)
(* waits for is missing or forbidden, in all that may still come.          *)
THEOREM NackInvariant ==
    ASSUME "ClientJoin" \notin Repeatable
    PROVE  Spec => []NackInv
<1>1. TypeOK /\ TypeOK' /\ WindowInv /\ MembersInv /\ NackInv /\ [Next]_vars => NackInv'
  BY NackStep
<1> QED
  BY <1>1, NackInit, TypeCorrect, WindowInvariant, MembersInvariant, PTL DEF Spec

(* A client that was nacked for a reference below the window gets nothing  *)
(* but nacks from then on, whatever it sends, and whatever was lost or is  *)
(* repeated by a producer (lambda.ts:324-346 and 310).                     *)
THEOREM NackedRemainNacked ==
    ASSUME "ClientJoin" \notin Repeatable
    PROVE  Spec => [](restarts = 0 => NackedForGood)
<1>1. NackInv => (restarts = 0 => NackedForGood)
  BY DEF NackInv
<1> QED
  BY <1>1, NackInvariant, PTL

(* The message that follows the last one sequenced for its client is never *)
(* nacked as a gap: only for its reference, for its scope, or after its    *)
(* client left (checkOrder, lambda.ts:588, and the nacks of 263-346).      *)
THEOREM SuccessorsNotRefused ==
    ASSUME "ClientJoin" \notin Repeatable
    PROVE  Spec => [](restarts = 0 => SuccessorsAccepted)
<1>1. NackInv => (restarts = 0 => SuccessorsAccepted)
  BY DEF NackInv
<1> QED
  BY <1>1, NackInvariant, PTL

=============================================================================
