---------------------------- MODULE ClientProofs ----------------------------
(***************************************************************************)
(* A client's operations are ordered once and in order, and acknowledged   *)
(* in that order with the marks of their batches, whatever becomes of its  *)
(* connections.                                                            *)
(***************************************************************************)
EXTENDS ClientLemmas

-----------------------------------------------------------------------------
(* The steps. *)

LEMMA NoneConnection == None \notin Connections /\ None \in Nat /\ Connections \subseteq Nat
  BY ConnectionConstants DEF None, Connections

(* When all that was counted has been observed, nothing is under way. *)
LEMMA NothingCounted ==
    ASSUME NEW order, NEW n, NEW sent, NEW k, NEW box, NEW e, NEW out,
           Flow(order, n, sent, k, box, e, out), box.observed = box.csn
    PROVE  NothingUnderway(order, n, sent)
<1>1. Counts(order, n, sent, box) /\ order \in Seq(Messages) /\ sent \in Seq(Batches) /\ box \in Outboxes
  BY DEF Flow
<1>2. box.observed \in Nat /\ box.csn \in Nat
  BY <1>1 DEF Outboxes
<1>3. ASSUME NEW m, m.csn \in Nat, Counted(box, m) PROVE FALSE
  BY <1>2, <1>3 DEF Counted
<1>4. ASSUME NEW i \in Unseen(order, n) PROVE FALSE
  <2>1. order[i] \in Messages /\ Counted(box, order[i])
    BY <1>1 DEF Counts, Unseen, OwnIn
  <2>2. order[i].csn \in Nat
    BY <2>1 DEF Messages
  <2> QED
    BY <1>3, <2>1, <2>2
<1>5. ASSUME NEW p \in OwnOf(sent) PROVE FALSE
  <2>1. sent[p] \in Batches
    BY <1>1 DEF OwnOf
  <2>2. sent[p] \in Seq(Messages) /\ sent[p] # <<>>
    BY <2>1 DEF Batches
  <2>3. 1 \in DOMAIN sent[p] /\ sent[p][1] \in Messages
    BY <2>2
  <2>4. Counted(box, sent[p][1]) /\ sent[p][1].csn \in Nat
    BY <1>1, <2>3 DEF Counts, Messages
  <2> QED
    BY <1>3, <2>4
<1> QED
  BY <1>4, <1>5 DEF NothingUnderway

LEMMA ReconnectKeeps ==
    ASSUME ClientInv, connection # None, NEW r \in {"read", "write"}, Reconnect(r), faults' \in Nat
    PROVE  ClientInv'
<1>1. /\ connection' = None /\ state' = "Disconnected" /\ pendingClientId' = None
      /\ attempt' = RequestedMode(r) /\ socket' = [socket EXCEPT ![connection] = <<>>]
      /\ UNCHANGED <<log, raw, open, mode, refused, accepted, attached, inbox,
                   lastProcessed, clientId, inQuorum, outbox, replayedFor, closed,
                   edits, others>>
  BY DEF Reconnect
<1>2. ClientTypeOK /\ ConnectionInv /\ InboundInv /\ PhaseInv /\ AssertionsHold
      /\ Flow(log, lastProcessed, raw, clientId, outbox, edits, refused)
  BY DEF ClientInv
<1>3. connection \in Connections /\ socket \in [Connections -> Seq(Nat)]
  BY <1>2 DEF ClientTypeOK, NoneOr
<1>4. \A k \in Connections : socket'[k] = <<>>
  <2>1. \A k \in Connections : socket[k] # <<>> => k \in {accepted, connection}
    BY <1>2 DEF InboundInv
  <2>2. accepted = None
    BY <1>2 DEF ConnectionInv
  <2> QED
    BY <1>1, <1>3, <2>1, <2>2, NoneConnection
<1>5. <<>> \in Seq(Nat) /\ attempt' \in {"read", "write"}
  BY <1>1 DEF RequestedMode
<1>6. socket' \in [Connections -> Seq(Nat)]
  BY <1>1, <1>3, <1>5
<1>7. ClientTypeOK'
  BY <1>1, <1>2, <1>5, <1>6, NoneConnection DEF ClientTypeOK, NoneOr
<1>8. ConnectionInv'
  <2>1. accepted' = None
    BY <1>1, <1>2 DEF ConnectionInv
  <2> QED
    BY <1>1, <1>2, <1>4, <2>1 DEF ConnectionInv, Used
<1>9. InboundInv'
  <2>1. \A k \in Connections : Rising(socket'[k], Len(log'), inbox'.pending)
    BY <1>4, RisingEmpty
  <2>2. \A k \in Connections : \A i \in DOMAIN socket'[k] : FALSE
    BY <1>4
  <2> QED
    BY <1>1, <1>2, <1>4, <2>1, <2>2 DEF InboundInv
<1>10. Flow(log, lastProcessed, raw, clientId, outbox, edits, refused)'
  BY <1>1, <1>2
<1>11. PhaseInv'
  <2>1. accepted' = None
    BY <1>1, <1>2 DEF ConnectionInv
  <2>2. attempt' = "read" => NothingUnderway(log', lastProcessed', raw')
    <3>1. attempt' = "read" => outbox.observed = outbox.csn
      BY <1>1 DEF RequestedMode
    <3> QED
      BY <1>1, <1>2, <3>1, NothingCounted
  <2>3. ~attached => outbox.states = <<>> /\ outbox.mode = "Automatic" /\ edits = 0
    BY <1>2 DEF PhaseInv
  <2> QED
    BY <1>1, <2>1, <2>2, <2>3 DEF PhaseInv
<1> QED
  BY <1>1, <1>2, <1>7, <1>8, <1>9, <1>10, <1>11 DEF ClientInv, AssertionsHold

LEMMA DisconnectedKeeps == ClientInv /\ Disconnected => ClientInv'
<1> SUFFICES ASSUME ClientInv, Disconnected PROVE ClientInv'
  OBVIOUS
<1>1. connection # None /\ Reconnect("read") /\ (Fault \/ UNCHANGED faults)
  BY DEF Disconnected
<1>2. faults' \in Nat
  BY <1>1 DEF ClientInv, ClientTypeOK, Fault
<1> QED
  BY <1>1, <1>2, ReconnectKeeps

LEMMA NackedKeeps == ClientInv /\ Nacked => ClientInv'
<1> SUFFICES ASSUME ClientInv, Nacked PROVE ClientInv'
  OBVIOUS
<1>1. connection # None /\ Reconnect("write") /\ UNCHANGED faults
  BY DEF Nacked
<1>2. faults' \in Nat
  BY <1>1 DEF ClientInv, ClientTypeOK
<1> QED
  BY <1>1, <1>2, ReconnectKeeps

Aside(box, N) == [box EXCEPT !.pending = @ \cup N]

PutAside(box, N, t, n, last) ==
    /\ Queue(t, n, last) /\ \A p \in t.pending : p \in box.pending \/ p \in N
    /\ t.inbound = box.inbound /\ t.fetch = box.fetch

LEMMA AsideQueue ==
    ASSUME NEW box, NEW n, NEW last, Queue(box, n, last), NEW N, N \subseteq 1 .. last
    PROVE  PutAside(box, N, Aside(box, N), n, last)
<1> DEFINE P == box.pending \cup N
           t == [box EXCEPT !.pending = P]
<1>0. box \in Inboxes /\ last \in Nat /\ box.pending \subseteq 1 .. last
  BY DEF Queue
<1>1. P \in SUBSET Nat /\ P \subseteq 1 .. last
  <2>1. 1 .. last \subseteq Nat
    BY <1>0
  <2>2. P \subseteq 1 .. last
    BY <1>0
  <2> HIDE DEF P
  <2> QED
    BY <2>1, <2>2
<1>2. t = Aside(box, N)
  BY <1>0 DEF Inboxes, Aside
<1> HIDE DEF P, t
<1>3. /\ t \in Inboxes /\ t.queued = box.queued /\ t.inbound = box.inbound /\ t.pending = P
      /\ t.fetch = box.fetch
  <2>1. t = [box EXCEPT !.pending = P]
    BY DEF t
  <2> QED
    BY <1>0, <1>1, <2>1 DEF Inboxes
<1>4. Queue(t, n, last)
  BY <1>1, <1>3 DEF Queue
<1>5. \A p \in t.pending : p \in box.pending \/ p \in N
  BY <1>3 DEF P
<1>6. PutAside(box, N, t, n, last)
  BY <1>3, <1>4, <1>5 DEF PutAside
<1> QED
  BY <1>2, <1>6

LEMMA ReceiveKeeps == ClientInv /\ Receive => ClientInv'
<1> SUFFICES ASSUME ClientInv, Receive PROVE ClientInv'
  OBVIOUS
<1> DEFINE q == socket[connection]
           x == Head(q)
<1>1. /\ connection # None /\ q # <<>> /\ x # Nack /\ Arrive({x})
      /\ socket' = [socket EXCEPT ![connection] = Tail(@)]
      /\ UNCHANGED <<log, raw, open, mode, refused, attempt, accepted, connection,
                   attached, lastProcessed, state, pendingClientId, clientId, inQuorum,
                   outbox, replayedFor, closed, edits, others, faults>>
  BY DEF Receive, container, bounds
<1>2. ClientTypeOK /\ ConnectionInv /\ InboundInv /\ PhaseInv /\ AssertionsHold
      /\ Flow(log, lastProcessed, raw, clientId, outbox, edits, refused)
  BY DEF ClientInv
<1>3. connection \in Connections /\ socket \in [Connections -> Seq(Nat)] /\ attached \in BOOLEAN
  BY <1>1, <1>2 DEF ClientTypeOK, NoneOr
<1>4. /\ Queue(inbox, lastProcessed, Len(log)) /\ (attached => Beyond(inbox))
      /\ ~attached => inbox.inbound = <<>> /\ lastProcessed = 0 /\ inbox.fetch = Idle
      /\ InitialMessages <= Len(log)
      /\ Rising(q, Len(log), inbox.pending)
      /\ \A k \in Connections : socket[k] # <<>> => k \in {accepted, connection}
  BY <1>2, <1>3 DEF InboundInv
<1>5. q \in Seq(Nat) /\ 1 \in DOMAIN q /\ x = q[1] /\ Tail(q) \in Seq(Nat)
  BY <1>1, <1>3
<1>6. x \in 1 .. Len(log) /\ \A p \in inbox.pending : p < x
  BY <1>1, <1>4, <1>5 DEF Rising
<1>7. /\ Queue(inbox', lastProcessed, Len(log)) /\ (attached => Beyond(inbox'))
      /\ ~attached => inbox'.inbound = <<>> /\ inbox'.fetch = Idle
      /\ \A p \in inbox'.pending : p \in inbox.pending \/ p = x
  <2>1. CASE attached
    <3>1. inbox' = Enqueue(inbox, {x})
      BY <1>1, <2>1 DEF Arrive
    <3> HIDE DEF x
    <3>2. Queue(inbox', lastProcessed, Len(log)) /\ Beyond(inbox') /\ inbox'.pending \subseteq inbox.pending \cup {x}
      BY <1>4, <1>6, <2>1, <3>1, ReceivedQueue
    <3> QED
      BY <2>1, <3>2
  <2>2. CASE ~attached
    <3>1. inbox' = Aside(inbox, {x})
      BY <1>1, <2>2 DEF Arrive, Aside
    <3> HIDE DEF x
    <3>2. {x} \subseteq 1 .. Len(log)
      BY <1>6
    <3>3. PutAside(inbox, {x}, inbox', lastProcessed, Len(log))
      BY <1>4, <3>1, <3>2, AsideQueue
    <3> QED
      BY <1>4, <2>2, <3>3 DEF PutAside
  <2> QED
    BY <1>3, <2>1, <2>2
<1>8. accepted = None
  BY <1>1, <1>2 DEF ConnectionInv
<1>9. /\ socket' \in [Connections -> Seq(Nat)] /\ socket'[connection] = Tail(q)
      /\ \A k \in Connections : k # connection => socket'[k] = <<>>
  <2>1. socket' = [socket EXCEPT ![connection] = Tail(q)]
    BY <1>1
  <2> HIDE DEF q
  <2>2. \A k \in Connections : k # connection => socket[k] = <<>>
    BY <1>4, <1>8, NoneConnection
  <2> QED
    BY <1>3, <1>5, <2>1, <2>2
<1>10. Rising(Tail(q), Len(log), inbox'.pending)
  BY <1>1, <1>4, <1>5, <1>7, RisingTail
<1> HIDE DEF q, x
<1>11. inbox' \in Inboxes
  BY <1>7 DEF Queue
<1>12. ClientTypeOK'
  BY <1>1, <1>2, <1>9, <1>11 DEF ClientTypeOK
<1>13. ConnectionInv'
  <2>1. mode[connection] # "none"
    BY <1>1, <1>2 DEF ConnectionInv, Used
  <2>2. \A k \in Connections : mode[k] = "none" => socket'[k] = <<>>
    BY <1>9, <2>1
  <2> QED
    BY <1>1, <1>2, <2>2 DEF ConnectionInv, Used
<1>14. InboundInv'
  <2>1. ASSUME NEW k \in Connections
        PROVE  /\ socket'[k] # <<>> => k \in {accepted, connection}
               /\ Rising(socket'[k], Len(log), inbox'.pending)
               /\ k # accepted
    BY <1>8, <1>9, <1>10, RisingEmpty, NoneConnection
  <2> QED
    BY <1>1, <1>4, <1>7, <2>1 DEF InboundInv
<1>15. Flow(log, lastProcessed, raw, clientId, outbox, edits, refused)'
  BY <1>1, <1>2
<1>16. PhaseInv'
  BY <1>1, <1>2 DEF PhaseInv
<1> QED
  BY <1>1, <1>2, <1>12, <1>13, <1>14, <1>15, <1>16 DEF ClientInv, AssertionsHold

LEMMA FetchReplyKeeps == ClientInv /\ (\E s \in 0 .. Len(log) : FetchReply(s)) => ClientInv'
<1> SUFFICES ASSUME ClientInv, NEW s \in 0 .. Len(log), FetchReply(s) PROVE ClientInv'
  OBVIOUS
<1>1. /\ inbox.fetch # Idle /\ inbox' = Replied(inbox, s)
      /\ UNCHANGED <<log, raw, socket, open, mode, refused, attempt, accepted, connection,
                   attached, lastProcessed, state, pendingClientId, clientId, inQuorum,
                   outbox, replayedFor, closed, edits, others, faults>>
  BY DEF FetchReply, Replied, service, container, bounds
<1>2. ClientTypeOK /\ ConnectionInv /\ InboundInv /\ PhaseInv /\ AssertionsHold
      /\ Flow(log, lastProcessed, raw, clientId, outbox, edits, refused)
  BY DEF ClientInv
<1>3. attached \in BOOLEAN
  BY <1>2 DEF ClientTypeOK
<1>4. /\ Queue(inbox, lastProcessed, Len(log)) /\ Beyond(inbox) /\ attached
      /\ InitialMessages <= Len(log)
      /\ \A k \in Connections :
        /\ socket[k] # <<>> => k \in {accepted, connection}
        /\ Rising(socket[k], Len(log), inbox.pending)
        /\ k = accepted => \A i \in DOMAIN socket[k] : socket[k][i] # Nack
  BY <1>1, <1>2, <1>3 DEF InboundInv
<1>5. Queue(inbox', lastProcessed, Len(log)) /\ Beyond(inbox') /\ inbox'.pending \subseteq inbox.pending
  BY <1>1, <1>4, RepliedQueue
<1>6. inbox' \in Inboxes
  BY <1>5 DEF Queue
<1>7. ClientTypeOK'
  BY <1>1, <1>2, <1>6 DEF ClientTypeOK
<1>8. ConnectionInv'
  BY <1>1, <1>2 DEF ConnectionInv, Used
<1>9. InboundInv'
  <2>1. \A k \in Connections : Rising(socket[k], Len(log), inbox'.pending)
    BY <1>4, <1>5, RisingLess
  <2> QED
    BY <1>1, <1>4, <1>5, <2>1 DEF InboundInv
<1>10. Flow(log, lastProcessed, raw, clientId, outbox, edits, refused)'
  BY <1>1, <1>2
<1>11. PhaseInv'
  BY <1>1, <1>2 DEF PhaseInv
<1> QED
  BY <1>1, <1>2, <1>7, <1>8, <1>9, <1>10, <1>11 DEF ClientInv, AssertionsHold

(* A client is announced, or its end, to the sequencer. *)
LEMMA AnnouncedBatch ==
    ASSUME NEW k \in Connections, NEW type \in {"join", "leave"}
    PROVE  LET m == Message(type, k, 0, NoOp, "none") IN
           /\ m \in Messages /\ m.type = type /\ m.client = k /\ <<m>> \in Batches
           /\ <<m>>[1] = m /\ DOMAIN <<m>> = {1} /\ ~IsOwn(<<m>>)
<1> DEFINE m == Message(type, k, 0, NoOp, "none")
<1>1. m \in Messages /\ m.type = type /\ m.client = k
  <2>1. k \in NoneOr(Connections) /\ 0 \in Nat /\ NoOp \in Nat
    BY DEF NoneOr, NoOp
  <2> QED
    BY <2>1, MessageTypes
<1> HIDE DEF m
<1>2. <<m>> \in Seq(Messages) /\ <<m>> # <<>> /\ <<m>>[1] = m /\ DOMAIN <<m>> = {1}
  BY <1>1
<1>3. <<m>> \in Batches
  BY <1>2 DEF Batches
<1>4. ~IsOwn(<<m>>)
  BY <1>1, <1>2 DEF IsOwn
<1> QED
  BY <1>1, <1>2, <1>3, <1>4 DEF m

WithLeave(order, n, sent, A, c, box, e, out, k) ==
    /\ Flow(order, n, A, c, box, e, out) /\ A \in Seq(Batches)
    /\ OwnOf(A) = OwnOf(sent) /\ OpsOf(A) = OpsOf(sent)
    /\ \A d : Barrier(order, sent, d) => Barrier(order, A, d)
    /\ \A p \in DOMAIN A : A[p][1].client = k
          \/ (p \in DOMAIN sent /\ A[p][1].client = sent[p][1].client)

LEMMA FlowLeft ==
    ASSUME NEW order, NEW n, NEW sent, NEW c, NEW box, NEW e, NEW out,
           Flow(order, n, sent, c, box, e, out), NEW k \in Connections
    PROVE  WithLeave(order, n, sent, Append(sent, <<Leave(k)>>), c, box, e, out, k)
<1> DEFINE P == <<Leave(k)>>
           A == Append(sent, P)
<1>1. sent \in Seq(Batches) /\ WellFormed(order, sent)
  BY DEF Flow
<1>2. /\ Leave(k).type = "leave" /\ Leave(k).client = k /\ P \in Batches
      /\ P[1] = Leave(k) /\ DOMAIN P = {1} /\ ~IsOwn(P)
  BY AnnouncedBatch DEF Leave
<1>3. k # None
  BY NoneConnection
<1> HIDE DEF P
<1>4. WellFormed(order, A)
  <2>1. P[1].client # None /\ P[1].type = "leave" /\ P = <<Leave(P[1].client)>>
    BY <1>2, <1>3 DEF P
  <2>2. \A j \in DOMAIN P : P[j].type = P[1].type /\ P[j].client = P[1].client
    BY <1>2
  <2> QED
    BY <1>1, <1>2, <2>1, <2>2, WellFormedAppended
<1>5. Flow(order, n, A, c, box, e, out)
  BY <1>2, <1>4, FlowAppended
<1>6. /\ A \in Seq(Batches) /\ OwnOf(A) = OwnOf(sent) /\ OpsOf(A) = OpsOf(sent)
      /\ \A p \in DOMAIN sent : p \in DOMAIN A /\ A[p] = sent[p]
      /\ \A p \in DOMAIN A : p \in DOMAIN sent \/ (p = Len(sent) + 1 /\ A[p] = P)
  BY <1>1, <1>2, OwnAppended
<1> HIDE DEF A
<1>7. ASSUME NEW d, Barrier(order, sent, d) PROVE Barrier(order, A, d)
  <2>1. P # <<Join(d)>>
    <3>1. <<Join(d)>>[1] = Join(d) /\ Join(d).type = "join"
      BY DEF Join, Message
    <3> QED
      BY <1>2, <3>1
  <2>2. \A p \in DOMAIN A : A[p] = <<Join(d)>> => p \in DOMAIN sent /\ sent[p] = <<Join(d)>>
    BY <1>6, <2>1
  <2> QED
    BY <1>6, <1>7, <2>2 DEF Barrier
<1>8. \A p \in DOMAIN A : A[p][1].client = k
                \/ (p \in DOMAIN sent /\ A[p][1].client = sent[p][1].client)
  BY <1>2, <1>6
<1> QED
  BY <1>5, <1>6, <1>7, <1>8, Zenon DEF WithLeave, A, P

LEMMA FlowJoins ==
    ASSUME NEW order, NEW n, NEW sent, NEW c, NEW box, NEW e, NEW out,
           Flow(order, n, sent, c, box, e, out), NEW k \in Connections,
           \A i \in DOMAIN order : order[i].client # k,
           \A p \in DOMAIN sent : sent[p][1].client # k
    PROVE  LET A == Append(sent, <<Join(k)>>) IN
           /\ Flow(order, n, A, c, box, e, out) /\ A \in Seq(Batches)
           /\ Barrier(order, A, k)
           /\ \A p \in DOMAIN A : A[p][1].client = k
                \/ (p \in DOMAIN sent /\ A[p][1].client = sent[p][1].client)
<1> DEFINE P == <<Join(k)>>
           A == Append(sent, P)
<1>1. sent \in Seq(Batches) /\ WellFormed(order, sent)
  BY DEF Flow
<1>2. /\ Join(k).type = "join" /\ Join(k).client = k /\ P \in Batches
      /\ P[1] = Join(k) /\ DOMAIN P = {1} /\ ~IsOwn(P)
  BY AnnouncedBatch DEF Join
<1>3. k # None
  BY NoneConnection
<1> HIDE DEF P
<1>4. WellFormed(order, A)
  <2>1. P[1].client # None /\ P[1].type = "join" /\ P = <<Join(P[1].client)>>
    BY <1>2, <1>3 DEF P
  <2>2. \A j \in DOMAIN P : P[j].type = P[1].type /\ P[j].client = P[1].client
    BY <1>2
  <2>3. \A p \in DOMAIN sent : sent[p] # P
    BY <1>2
  <2>4. \A i \in DOMAIN order : P # <<order[i]>>
    <3> SUFFICES ASSUME NEW i \in DOMAIN order, P = <<order[i]>> PROVE FALSE
      OBVIOUS
    <3>1. P[1] = order[i]
      BY Zenon
    <3> QED
      BY <1>2, <3>1
  <2> QED
    BY <1>1, <1>2, <2>1, <2>2, <2>3, <2>4, WellFormedAppended
<1>5. Flow(order, n, A, c, box, e, out)
  BY <1>2, <1>4, FlowAppended
<1>6. /\ A \in Seq(Batches) /\ OwnOf(A) = OwnOf(sent)
      /\ \A p \in DOMAIN sent : p \in DOMAIN A /\ A[p] = sent[p]
      /\ \A p \in DOMAIN A : p \in DOMAIN sent \/ (p = Len(sent) + 1 /\ A[p] = P)
  BY <1>1, <1>2, OwnAppended
<1> HIDE DEF A
<1>7. Barrier(order, A, k)
  <2>1. \A p \in DOMAIN sent : sent[p] # P
    BY <1>2
  <2>2. \A q \in OwnOf(A) : q \in 1 .. Len(sent)
    BY <1>1, <1>6 DEF OwnOf
  <2>3. \A p \in DOMAIN A, q \in OwnOf(A) : A[p] = P => q < p
    BY <1>1, <1>6, <2>1, <2>2
  <2>4. \A i \in DOMAIN order : order[i] # Join(k)
    BY <1>2
  <2> QED
    BY <2>3, <2>4 DEF Barrier, P
<1>8. \A p \in DOMAIN A : A[p][1].client = k
                \/ (p \in DOMAIN sent /\ A[p][1].client = sent[p][1].client)
  BY <1>2, <1>6
<1> QED
  BY <1>5, <1>6, <1>7, <1>8 DEF A, P

LEMMA AcceptKeeps == \A k \in Connections : ClientInv /\ Accept(k) => ClientInv'
<1> SUFFICES ASSUME NEW k \in Connections, ClientInv, Accept(k) PROVE ClientInv'
  OBVIOUS
<1>1. /\ attempt # "none" /\ accepted = None
      /\ mode[k] = "none" /\ \A j \in Connections : j < k => mode[j] # "none"
      /\ accepted' = k
      /\ open' = open \cup {k} /\ mode' = [mode EXCEPT ![k] = attempt]
      /\ raw' = IF attempt = "write" THEN Append(raw, <<Join(k)>>) ELSE raw
      /\ UNCHANGED <<log, socket, refused, others, faults>>
      /\ UNCHANGED <<attempt, connection, attached, inbox, lastProcessed, state,
                     pendingClientId, clientId, inQuorum, outbox, replayedFor, closed, edits>>
  BY DEF Accept, UnchangedByService, container
<1>2. ClientTypeOK /\ ConnectionInv /\ InboundInv /\ PhaseInv /\ AssertionsHold
      /\ Flow(log, lastProcessed, raw, clientId, outbox, edits, refused)
  BY DEF ClientInv
<1>3. connection = None /\ state = "Disconnected" /\ pendingClientId = connection
  BY <1>1, <1>2 DEF ConnectionInv
<1>4. /\ attempt \in {"read", "write"} /\ mode \in [Connections -> {"none", "read", "write"}]
      /\ k \in Nat /\ k # None
  BY <1>1, <1>2, NoneConnection DEF ClientTypeOK
<1>5. /\ mode' \in [Connections -> {"none", "read", "write"}] /\ mode'[k] = attempt
      /\ \A j \in Connections : j # k => mode'[j] = mode[j]
  BY <1>1, <1>4
<1>6. /\ \A i \in DOMAIN log : log[i].client # k
      /\ \A p \in DOMAIN raw : raw[p][1].client # k
  BY <1>1, <1>2 DEF ConnectionInv
<1>7. /\ Flow(log, lastProcessed, raw', clientId, outbox, edits, refused)
      /\ raw' \in Seq(Batches) /\ Barrier(log, raw', k)
      /\ \A p \in DOMAIN raw' : raw'[p][1].client = k
            \/ (p \in DOMAIN raw /\ raw'[p][1].client = raw[p][1].client)
  <2>1. CASE attempt = "write"
    <3>1. raw' = Append(raw, <<Join(k)>>)
      BY <1>1, <2>1
    <3> QED
      BY <1>2, <1>6, <3>1, FlowJoins
  <2>2. CASE attempt # "write"
    <3>1. raw' = raw
      BY <1>1, <2>2
    <3>2. (\A p \in DOMAIN raw : raw[p] # <<Join(k)>>) /\ \A i \in DOMAIN log : log[i] # Join(k)
      <4>1. Join(k).client = k
        BY DEF Join, Message
      <4>2. ASSUME NEW p \in DOMAIN raw, raw[p] = <<Join(k)>> PROVE raw[p][1] = Join(k)
        BY <4>2
      <4> QED
        BY <1>6, <4>1, <4>2
    <3>3. Barrier(log, raw, k)
      BY <3>2 DEF Barrier
    <3> QED
      BY <1>2, <3>1, <3>3 DEF Flow
  <2> QED
    BY <2>1, <2>2
<1>8. ASSUME NEW j \in Connections, mode[j] # "none" PROVE j < k
  <2>1. j \in Nat /\ j # k
    BY <1>1, <1>8, NoneConnection
  <2>2. ~(k < j)
    BY <1>1, <1>2, <1>8 DEF ConnectionInv
  <2> QED
    BY <1>4, <2>1, <2>2
<1>9. outbox.submittedBy < k /\ clientId < k
  <2>1. Used(outbox.submittedBy) /\ Used(clientId)
    BY <1>2 DEF ConnectionInv
  <2>2. outbox.submittedBy \in NoneOr(Connections) /\ clientId \in NoneOr(Connections)
    BY <1>2 DEF ClientTypeOK, Outboxes
  <2>3. 0 < k
    BY <1>4 DEF None
  <2> QED
    BY <1>8, <2>1, <2>2, <2>3 DEF Used, NoneOr, None
<1>10. ClientTypeOK'
  <2>1. open' \subseteq Connections /\ accepted' \in NoneOr(Connections)
    BY <1>1, <1>2 DEF ClientTypeOK, NoneOr
  <2> QED
    BY <1>1, <1>2, <1>5, <1>7, <2>1 DEF ClientTypeOK
<1>11. ConnectionInv'
  <2>1. \A i, j \in Connections : i < j /\ mode'[j] # "none" => mode'[i] # "none"
    <3> SUFFICES ASSUME NEW i \in Connections, NEW j \in Connections, i < j, mode'[j] # "none"
                 PROVE  mode'[i] # "none"
      OBVIOUS
    <3>1. CASE i = k
      BY <1>4, <1>5, <3>1
    <3>2. CASE i # k /\ j = k
      BY <1>1, <1>5, <3>2
    <3>3. CASE i # k /\ j # k
      <4>1. mode[j] # "none"
        BY <1>5, <3>3
      <4>2. mode[i] # "none"
        BY <1>2, <4>1 DEF ConnectionInv
      <4> QED
        BY <1>5, <3>3, <4>2
    <3> QED
      BY <3>1, <3>2, <3>3
  <2>2. ASSUME NEW j \in Connections, mode'[j] = "none"
        PROVE  /\ j \notin open' /\ socket'[j] = <<>>
               /\ \A i \in DOMAIN log' : log'[i].client # j
               /\ \A p \in DOMAIN raw' : raw'[p][1].client # j
    <3>1. j # k
      BY <1>4, <1>5, <2>2
    <3>2. mode[j] = "none"
      BY <1>5, <2>2, <3>1
    <3>3. /\ j \notin open /\ socket[j] = <<>>
          /\ \A i \in DOMAIN log : log[i].client # j
          /\ \A p \in DOMAIN raw : raw[p][1].client # j
      BY <1>2, <3>2 DEF ConnectionInv
    <3> QED
      BY <1>1, <1>7, <3>1, <3>3
  <2>3. \A j \in {accepted', connection', clientId', replayedFor', outbox'.submittedBy} : Used(j)'
    <3>1. \A j \in {accepted, connection, clientId, replayedFor, outbox.submittedBy} : Used(j)
      BY <1>2 DEF ConnectionInv
    <3>2. \A j \in NoneOr(Connections) : Used(j) => (j = None \/ mode'[j] # "none")
      BY <1>4, <1>5 DEF Used, NoneOr
    <3>3. connection \in NoneOr(Connections) /\ clientId \in NoneOr(Connections)
          /\ replayedFor \in NoneOr(Connections) /\ outbox.submittedBy \in NoneOr(Connections)
      BY <1>2 DEF ClientTypeOK, Outboxes
    <3>4. mode'[k] # "none"
      BY <1>4, <1>5
    <3> QED
      BY <1>1, <3>1, <3>2, <3>3, <3>4 DEF Used
  <2>4. replayedFor <= clientId
    BY <1>2 DEF ConnectionInv
  <2>5. outbox.submittedBy <= k
    <3>1. outbox.submittedBy \in Nat
      BY <1>2, NoneConnection DEF ClientTypeOK, Outboxes, NoneOr
    <3> QED
      BY <1>4, <1>9, <3>1
  <2> QED
    BY <1>1, <1>3, <1>5, <1>9, <2>1, <2>2, <2>3, <2>4, <2>5 DEF ConnectionInv
<1>12. InboundInv'
  <2>1. \A j \in Connections : socket[j] = <<>>
    BY <1>1, <1>2, <1>3, NoneConnection DEF InboundInv
  <2>2. \A i \in DOMAIN <<>> : FALSE
    OBVIOUS
  <2> QED
    BY <1>1, <1>2, <2>1, <2>2 DEF InboundInv
<1>13. Flow(log, lastProcessed, raw, clientId, outbox, edits, refused)'
  BY <1>1, <1>7
<1>14. PhaseInv'
  <2>1. \A j \in {k, None} : j # None => Barrier(log, raw', j)
    BY <1>7
  <2>2. ASSUME attempt = "read" PROVE NothingUnderway(log, lastProcessed, raw')
    <3>1. raw' = raw
      BY <1>1, <2>2
    <3> QED
      BY <1>2, <2>2, <3>1 DEF PhaseInv
  <2>3. mode'[k] = "read" => attempt = "read"
    BY <1>5
  <2>4. ~attached => outbox.states = <<>> /\ outbox.mode = "Automatic" /\ edits = 0
    BY <1>2 DEF PhaseInv
  <2> QED
    BY <1>1, <1>3, <2>1, <2>2, <2>3, <2>4 DEF PhaseInv
<1> QED
  BY <1>1, <1>2, <1>10, <1>11, <1>12, <1>13, <1>14 DEF ClientInv, AssertionsHold

LEMMA EvictKeeps == \A k \in Connections : ClientInv /\ Evict(k) => ClientInv'
<1> SUFFICES ASSUME NEW k \in Connections, ClientInv, Evict(k) PROVE ClientInv'
  OBVIOUS
<1>1. /\ Member(k) /\ Fault /\ raw' = Append(raw, <<Leave(k)>>)
      /\ UNCHANGED <<log, socket, open, mode, refused, accepted, others>>
      /\ UNCHANGED <<attempt, connection, attached, inbox, lastProcessed, state,
                     pendingClientId, clientId, inQuorum, outbox, replayedFor, closed, edits>>
  BY DEF Evict, UnchangedByService, container
<1>2. ClientTypeOK /\ ConnectionInv /\ InboundInv /\ PhaseInv /\ AssertionsHold
      /\ Flow(log, lastProcessed, raw, clientId, outbox, edits, refused)
  BY DEF ClientInv
<1>3. /\ Flow(log, lastProcessed, raw', clientId, outbox, edits, refused) /\ raw' \in Seq(Batches)
      /\ OwnOf(raw') = OwnOf(raw) /\ OpsOf(raw') = OpsOf(raw)
      /\ \A d : Barrier(log, raw, d) => Barrier(log, raw', d)
      /\ \A p \in DOMAIN raw' : raw'[p][1].client = k
            \/ (p \in DOMAIN raw /\ raw'[p][1].client = raw[p][1].client)
  <2>1. WithLeave(log, lastProcessed, raw, Append(raw, <<Leave(k)>>), clientId, outbox, edits,
                  refused, k)
    BY <1>2, FlowLeft, Zenon
  <2>2. WithLeave(log, lastProcessed, raw, raw', clientId, outbox, edits, refused, k)
    BY <1>1, <2>1, Zenon
  <2> QED
    BY <2>2, Zenon DEF WithLeave
<1>4. mode[k] # "none"
  <2>1. PICK i \in DOMAIN log : log[i] = Join(k)
    BY <1>1 DEF Member
  <2>2. Join(k).client = k
    BY DEF Join, Message
  <2> QED
    BY <1>2, <2>1, <2>2 DEF ConnectionInv
<1>5. ClientTypeOK'
  <2>1. faults' \in Nat
    BY <1>1, <1>2 DEF Fault, ClientTypeOK
  <2> QED
    BY <1>1, <1>2, <1>3, <2>1 DEF ClientTypeOK
<1>6. ConnectionInv'
  <2>1. \A j \in Connections : mode[j] = "none" => \A p \in DOMAIN raw' : raw'[p][1].client # j
    BY <1>2, <1>3, <1>4 DEF ConnectionInv
  <2> QED
    BY <1>1, <1>2, <2>1 DEF ConnectionInv, Used
<1>7. InboundInv'
  BY <1>1, <1>2 DEF InboundInv
<1>8. Flow(log, lastProcessed, raw, clientId, outbox, edits, refused)'
  BY <1>1, <1>3
<1>9. PhaseInv'
  <2>1. NothingUnderway(log, lastProcessed, raw) => NothingUnderway(log, lastProcessed, raw')
    BY <1>3 DEF NothingUnderway
  <2> QED
    BY <1>1, <1>2, <1>3, <2>1 DEF PhaseInv
<1> QED
  BY <1>1, <1>2, <1>5, <1>6, <1>7, <1>8, <1>9 DEF ClientInv, AssertionsHold

LEMMA RefuseKeeps == \A k \in Connections : ClientInv /\ Refuse(k) => ClientInv'
<1> SUFFICES ASSUME NEW k \in Connections, ClientInv, Refuse(k) PROVE ClientInv'
  OBVIOUS
<1>1. /\ Fault /\ refused' = refused \cup {k}
      /\ UNCHANGED <<log, raw, socket, open, mode, accepted, others>>
      /\ UNCHANGED <<attempt, connection, attached, inbox, lastProcessed, state,
                     pendingClientId, clientId, inQuorum, outbox, replayedFor, closed, edits>>
  BY DEF Refuse, UnchangedByService, container
<1>2. ClientTypeOK /\ ConnectionInv /\ InboundInv /\ PhaseInv /\ AssertionsHold
      /\ Flow(log, lastProcessed, raw, clientId, outbox, edits, refused)
  BY DEF ClientInv
<1>3. Live(log, refused', clientId) => Live(log, refused, clientId)
  BY <1>1 DEF Live
<1>4. ClientTypeOK'
  <2>1. faults' \in Nat /\ refused' \subseteq Connections
    BY <1>1, <1>2 DEF Fault, ClientTypeOK
  <2> QED
    BY <1>1, <1>2, <2>1 DEF ClientTypeOK
<1>5. ConnectionInv'
  BY <1>1, <1>2 DEF ConnectionInv, Used
<1>6. InboundInv'
  BY <1>1, <1>2 DEF InboundInv
<1>7. Flow(log, lastProcessed, raw, clientId, outbox, edits, refused)'
  <2>1. Flow(log, lastProcessed, raw, clientId, outbox, edits, refused')
    BY <1>2, <1>3, FlowRefused
  <2> QED
    BY <1>1, <2>1
<1>8. PhaseInv'
  BY <1>1, <1>2, <1>3 DEF PhaseInv
<1> QED
  BY <1>1, <1>2, <1>4, <1>5, <1>6, <1>7, <1>8 DEF ClientInv, AssertionsHold

LEMMA DropKeeps == \A k \in Connections : ClientInv /\ Drop(k) => ClientInv'
<1> SUFFICES ASSUME NEW k \in Connections, ClientInv, Drop(k) PROVE ClientInv'
  OBVIOUS
<1>1. /\ k \in open /\ (Fault \/ UNCHANGED faults)
      /\ open' = open \ {k}
      /\ accepted' = IF accepted = k THEN None ELSE accepted
      /\ socket' = IF accepted = k THEN [socket EXCEPT ![k] = <<>>] ELSE socket
      /\ raw' = IF mode[k] = "write" THEN Append(raw, <<Leave(k)>>) ELSE raw
      /\ UNCHANGED <<log, mode, refused, others>>
      /\ UNCHANGED <<attempt, connection, attached, inbox, lastProcessed, state,
                     pendingClientId, clientId, inQuorum, outbox, replayedFor, closed, edits>>
  BY DEF Drop, UnchangedByService, container
<1>2. ClientTypeOK /\ ConnectionInv /\ InboundInv /\ PhaseInv /\ AssertionsHold
      /\ Flow(log, lastProcessed, raw, clientId, outbox, edits, refused)
  BY DEF ClientInv
<1>3. /\ Flow(log, lastProcessed, raw', clientId, outbox, edits, refused) /\ raw' \in Seq(Batches)
      /\ OwnOf(raw') = OwnOf(raw) /\ OpsOf(raw') = OpsOf(raw)
      /\ \A d : Barrier(log, raw, d) => Barrier(log, raw', d)
      /\ \A p \in DOMAIN raw' : raw'[p][1].client = k
            \/ (p \in DOMAIN raw /\ raw'[p][1].client = raw[p][1].client)
  <2>1. CASE mode[k] = "write"
    <3>1. raw' = Append(raw, <<Leave(k)>>)
      BY <1>1, <2>1
    <3> QED
      <4>1. WithLeave(log, lastProcessed, raw, Append(raw, <<Leave(k)>>), clientId, outbox, edits,
                      refused, k)
        BY <1>2, FlowLeft, Zenon
      <4>2. WithLeave(log, lastProcessed, raw, raw', clientId, outbox, edits, refused, k)
        BY <3>1, <4>1, Zenon
      <4> QED
        BY <4>2, Zenon DEF WithLeave
  <2>2. CASE mode[k] # "write"
    <3>1. raw' = raw
      BY <1>1, <2>2
    <3> QED
      BY <1>2, <3>1 DEF Flow
  <2> QED
    BY <2>1, <2>2
<1>4. mode[k] # "none"
  BY <1>1, <1>2 DEF ConnectionInv
<1>5. /\ socket' \in [Connections -> Seq(Nat)] /\ accepted' \in {accepted, None}
      /\ \A j \in Connections : socket'[j] = socket[j] \/ socket'[j] = <<>>
      /\ accepted = k => socket'[k] = <<>>
  <2>1. socket \in [Connections -> Seq(Nat)] /\ <<>> \in Seq(Nat)
    BY <1>2 DEF ClientTypeOK
  <2> QED
    BY <1>1, <2>1
<1>6. ClientTypeOK'
  <2>1. faults' \in Nat /\ open' \subseteq Connections /\ accepted' \in NoneOr(Connections)
    BY <1>1, <1>2, <1>5 DEF Fault, ClientTypeOK, NoneOr
  <2> QED
    BY <1>1, <1>2, <1>3, <1>5, <2>1 DEF ClientTypeOK
<1>7. ConnectionInv'
  <2>1. \A j \in Connections : mode[j] = "none" =>
            /\ j \notin open' /\ socket'[j] = <<>>
            /\ \A p \in DOMAIN raw' : raw'[p][1].client # j
    <3> SUFFICES ASSUME NEW j \in Connections, mode[j] = "none"
                 PROVE  /\ j \notin open' /\ socket'[j] = <<>>
                        /\ \A p \in DOMAIN raw' : raw'[p][1].client # j
      OBVIOUS
    <3>1. j # k /\ j \notin open /\ socket[j] = <<>> /\ \A p \in DOMAIN raw : raw[p][1].client # j
      BY <1>2, <1>4 DEF ConnectionInv
    <3> QED
      BY <1>1, <1>3, <1>5, <3>1
  <2> QED
    BY <1>1, <1>2, <1>5, <2>1 DEF ConnectionInv, Used
<1>8. InboundInv'
  <2>1. ASSUME NEW j \in Connections
        PROVE  /\ socket'[j] # <<>> => j \in {accepted', connection}
               /\ Rising(socket'[j], Len(log), inbox.pending)
               /\ j = accepted' => \A i \in DOMAIN socket'[j] : socket'[j][i] # Nack
    <3>1. /\ socket[j] # <<>> => j \in {accepted, connection}
          /\ Rising(socket[j], Len(log), inbox.pending)
          /\ j = accepted => \A i \in DOMAIN socket[j] : socket[j][i] # Nack
      BY <1>2 DEF InboundInv
    <3>2. CASE socket'[j] = <<>>
      BY <3>2, RisingEmpty
    <3>3. CASE socket'[j] # <<>>
      <4>1. socket'[j] = socket[j] /\ ~(accepted = k /\ j = k)
        BY <1>5, <3>3
      <4>2. j = accepted => accepted' = accepted
        BY <1>1, <4>1
      <4>3. j = accepted' => j = accepted
        BY <1>5, NoneConnection
      <4> QED
        BY <3>1, <3>3, <4>1, <4>2, <4>3
    <3> QED
      BY <3>2, <3>3
  <2> QED
    BY <1>1, <1>2, <2>1 DEF InboundInv
<1>9. Flow(log, lastProcessed, raw, clientId, outbox, edits, refused)'
  BY <1>1, <1>3
<1>10. PhaseInv'
  <2>1. NothingUnderway(log, lastProcessed, raw) => NothingUnderway(log, lastProcessed, raw')
    BY <1>3 DEF NothingUnderway
  <2>2. \A j \in {accepted', connection} : j # None => j \in {accepted, connection}
    BY <1>5
  <2>3. clientId \in open' => clientId \in open
    BY <1>1
  <2> QED
    BY <1>1, <1>2, <1>3, <2>1, <2>2, <2>3 DEF PhaseInv
<1> QED
  BY <1>1, <1>2, <1>6, <1>7, <1>8, <1>9, <1>10 DEF ClientInv, AssertionsHold

(* The head of what is sent is put behind an order. *)
LEMMA NotOwnOrdered ==
    ASSUME NEW order \in Seq(Messages), NEW n \in 0 .. Len(order), NEW M \in Seq(Messages),
           \A j \in DOMAIN M : M[j].type = "op" => M[j].client = None
    PROVE  LET A == order \o M IN
           OwnIn(A) = OwnIn(order) /\ Unseen(A, n) = Unseen(order, n) /\ OpsIn(A) = OpsIn(order)
<1> DEFINE A == order \o M
<1>1. /\ \A i \in DOMAIN order : i \in DOMAIN A /\ A[i] = order[i]
      /\ \A i \in DOMAIN A : i \in DOMAIN order \/ \E j \in DOMAIN M : i = Len(order) + j
      /\ \A j \in DOMAIN M : A[Len(order) + j] = M[j]
  BY Extended
<1> HIDE DEF A
<1>2. OwnIn(A) = OwnIn(order)
  <2>1. \A i \in OwnIn(A) : i \in OwnIn(order)
    BY <1>1 DEF OwnIn
  <2>2. \A i \in OwnIn(order) : i \in OwnIn(A)
    BY <1>1 DEF OwnIn
  <2> QED
    BY <2>1, <2>2
<1>3. Unseen(A, n) = Unseen(order, n)
  BY <1>2 DEF Unseen
<1>4. OpsIn(A) = OpsIn(order)
  <2>1. ASSUME NEW o \in OpsIn(A) PROVE o \in OpsIn(order)
    <3>1. PICK i \in OwnIn(A) : o = A[i].op
      BY <2>1 DEF OpsIn
    <3>2. i \in OwnIn(order) /\ A[i] = order[i]
      BY <1>1, <1>2, <3>1 DEF OwnIn
    <3> QED
      BY <3>1, <3>2 DEF OpsIn
  <2>2. ASSUME NEW o \in OpsIn(order) PROVE o \in OpsIn(A)
    <3>1. PICK i \in OwnIn(order) : o = order[i].op
      BY <2>2 DEF OpsIn
    <3>2. i \in OwnIn(A) /\ A[i] = order[i]
      BY <1>1, <1>2, <3>1 DEF OwnIn
    <3> QED
      BY <3>1, <3>2 DEF OpsIn
  <2> QED
    BY <2>1, <2>2
<1> QED
  BY <1>2, <1>3, <1>4 DEF A

LEMMA HeadIsMessages ==
    ASSUME NEW order \in Seq(Messages), NEW sent \in Seq(Batches), WellFormed(order, sent),
           sent # <<>>
    PROVE  LET P == Head(sent) IN
           /\ P = sent[1] /\ 1 \in DOMAIN sent /\ P \in Seq(Messages) /\ 1 \in DOMAIN P
           /\ P[1] \in Messages /\ P[1].client # None
           /\ \A j \in DOMAIN P : P[j].type = P[1].type /\ P[j].client = P[1].client
           /\ P[1].type = "join" => P = <<Join(P[1].client)>>
           /\ P[1].type = "leave" => P = <<Leave(P[1].client)>>
           /\ ~IsOwn(P) => \A j \in DOMAIN P : P[j].type = "op" => P[j].client = None
<1> DEFINE P == Head(sent)
<1>1. P = sent[1] /\ 1 \in DOMAIN sent /\ P \in Batches
  BY BatchesTail
<1> HIDE DEF P
<1>2. P \in Seq(Messages) /\ P # <<>>
  BY <1>1 DEF Batches
<1>3. 1 \in DOMAIN P /\ P[1] \in Messages
  BY <1>2
<1>4. /\ P[1].client # None
      /\ \A j \in DOMAIN P : P[j].type = P[1].type /\ P[j].client = P[1].client
      /\ P[1].type = "join" => P = <<Join(P[1].client)>>
      /\ P[1].type = "leave" => P = <<Leave(P[1].client)>>
  BY <1>1 DEF WellFormed
<1>5. ~IsOwn(P) => \A j \in DOMAIN P : P[j].type # "op"
  BY <1>4 DEF IsOwn
<1> QED
  BY <1>1, <1>2, <1>3, <1>4, <1>5 DEF P

LEMMA TailKeeps ==
    ASSUME NEW order, NEW sent \in Seq(Batches), sent # <<>>
    PROVE  LET T == Tail(sent) IN
           /\ T \in Seq(Batches)
           /\ OwnOf(sent) = {} => OwnOf(T) = {}
           /\ \A k : Barrier(order, sent, k) => Barrier(order, T, k)
           /\ \A p \in DOMAIN T : \E q \in DOMAIN sent : T[p] = sent[q]
           /\ ~IsOwn(Head(sent)) => OpsOf(T) = OpsOf(sent)
<1> DEFINE T == Tail(sent)
<1>1. /\ T \in Seq(Batches) /\ Head(sent) = sent[1]
      /\ \A p \in DOMAIN T : p \in Nat /\ p + 1 \in DOMAIN sent /\ T[p] = sent[p + 1]
      /\ \A p \in OwnOf(T) : p + 1 \in OwnOf(sent) /\ p \in Nat /\ T[p] = sent[p + 1]
      /\ \A p \in OwnOf(sent) : p = 1 \/ \E q \in OwnOf(T) : p = q + 1 /\ T[q] = sent[p]
  BY BatchesTail
<1> HIDE DEF T
<1>2. OwnOf(sent) = {} => OwnOf(T) = {}
  BY <1>1
<1>3. ASSUME NEW k, Barrier(order, sent, k) PROVE Barrier(order, T, k)
  <2>1. ASSUME NEW p \in DOMAIN T, NEW q \in OwnOf(T), T[p] = <<Join(k)>> PROVE q < p
    <3>1. q + 1 \in OwnOf(sent) /\ p + 1 \in DOMAIN sent /\ sent[p + 1] = <<Join(k)>>
      BY <1>1, <2>1
    <3>2. q + 1 < p + 1
      BY <1>3, <3>1 DEF Barrier
    <3>3. p \in Nat /\ q \in Nat
      BY <1>1
    <3> QED
      BY <3>2, <3>3
  <2> QED
    BY <1>2, <1>3, <2>1 DEF Barrier
<1>4. ASSUME ~IsOwn(Head(sent)) PROVE OpsOf(T) = OpsOf(sent)
  <2>1. \A p \in OwnOf(sent) : p # 1
    BY <1>1, <1>4 DEF OwnOf
  <2>2. ASSUME NEW o \in OpsOf(T) PROVE o \in OpsOf(sent)
    <3>1. PICK p \in OwnOf(T) : \E j \in DOMAIN T[p] : o = T[p][j].op
      BY <2>2 DEF OpsOf
    <3>2. PICK q \in OwnOf(sent) : T[p] = sent[q]
      BY <1>1
    <3>3. \E j \in DOMAIN sent[q] : o = sent[q][j].op
      BY <3>1, <3>2
    <3> QED
      BY <3>3 DEF OpsOf
  <2>3. ASSUME NEW o \in OpsOf(sent) PROVE o \in OpsOf(T)
    <3>1. PICK p \in OwnOf(sent) : \E j \in DOMAIN sent[p] : o = sent[p][j].op
      BY <2>3 DEF OpsOf
    <3>2. PICK q \in OwnOf(T) : T[q] = sent[p]
      BY <1>1, <2>1
    <3>3. \E j \in DOMAIN T[q] : o = T[q][j].op
      BY <3>1, <3>2
    <3> QED
      BY <3>3 DEF OpsOf
  <2> QED
    BY <2>2, <2>3
<1>5. \A p \in DOMAIN T : \E q \in DOMAIN sent : T[p] = sent[q]
  BY <1>1
<1> QED
  BY <1>1, <1>2, <1>3, <1>4, <1>5 DEF T

LEMMA BarrierOrdered ==
    ASSUME NEW order \in Seq(Messages), NEW sent \in Seq(Batches), WellFormed(order, sent),
           sent # <<>>, NEW k, Barrier(order, sent, k)
    PROVE  Barrier(order \o Head(sent), Tail(sent), k)
<1> DEFINE P == Head(sent)
           A == order \o P
<1>1. /\ P = sent[1] /\ 1 \in DOMAIN sent /\ P \in Seq(Messages) /\ 1 \in DOMAIN P
      /\ \A j \in DOMAIN P : P[j].type = P[1].type /\ P[j].client = P[1].client
      /\ P[1].type = "join" => P = <<Join(P[1].client)>>
  BY HeadIsMessages
<1> HIDE DEF P
<1>2. /\ \A i \in DOMAIN order : i \in DOMAIN A /\ A[i] = order[i] /\ i \in 1 .. Len(order)
      /\ \A i \in DOMAIN A : i \in DOMAIN order \/ \E j \in DOMAIN P : i = Len(order) + j
      /\ \A j \in DOMAIN P : A[Len(order) + j] = P[j] /\ j \in 1 .. Len(P)
      /\ Len(order) \in Nat /\ Len(P) \in Nat
  <2>1. 0 \in 0 .. Len(order)
    OBVIOUS
  <2> QED
    BY <1>1, <2>1, Extended
<1> HIDE DEF A
<1>3. OwnOf(sent) = {} => OwnOf(Tail(sent)) = {}
  BY TailKeeps
<1>4. Barrier(order, Tail(sent), k)
  BY TailKeeps
<1>5. IsOwn(P) => 1 \in OwnOf(sent)
  BY <1>1 DEF OwnOf
<1>6. ASSUME OwnOf(sent) = {} PROVE OwnIn(A) \subseteq OwnIn(order)
  <2> SUFFICES ASSUME NEW j \in OwnIn(A) PROVE j \in OwnIn(order)
    OBVIOUS
  <2>1. CASE j \in DOMAIN order
    BY <1>2, <2>1 DEF OwnIn
  <2>2. CASE j \notin DOMAIN order
    <3>1. PICK l \in DOMAIN P : j = Len(order) + l
      BY <1>2, <2>2 DEF OwnIn
    <3>2. P[l].type = "op"
      BY <1>2, <3>1 DEF OwnIn
    <3> QED
      BY <1>1, <1>5, <1>6, <3>2 DEF IsOwn
  <2> QED
    BY <2>1, <2>2
<1>7. ASSUME NEW i \in DOMAIN A, A[i] = Join(k)
      PROVE  OwnOf(Tail(sent)) = {} /\ \A j \in OwnIn(A) : j < i
  <2>1. CASE i \in DOMAIN order
    <3>1. OwnOf(sent) = {} /\ \A j \in OwnIn(order) : j < i
      BY <1>2, <1>7, <2>1 DEF Barrier
    <3> QED
      BY <1>3, <1>6, <3>1
  <2>2. CASE i \notin DOMAIN order
    <3>1. PICK l \in DOMAIN P : i = Len(order) + l
      BY <1>2, <2>2
    <3>2. P[l] = Join(k) /\ l \in 1 .. Len(P)
      BY <1>2, <1>7, <3>1
    <3>3. P[l].type = "join" /\ P[l].client = k
      BY <3>2 DEF Join, Message
    <3>4. sent[1] = <<Join(k)>>
      BY <1>1, <3>3
    <3>5. \A q \in OwnOf(sent) : q < 1 /\ q \in 1 .. Len(sent)
      BY <1>1, <3>4 DEF Barrier, OwnOf
    <3>6. OwnOf(sent) = {}
      BY <3>5
    <3>7. \A j \in OwnIn(order) : j \in 1 .. Len(order)
      BY <1>2 DEF OwnIn
    <3> QED
      BY <1>2, <1>3, <1>6, <3>1, <3>2, <3>6, <3>7
  <2> QED
    BY <2>1, <2>2
<1> QED
  BY <1>4, <1>7 DEF Barrier, A, P

(* Whether the client is a member with the head ordered. *)
LEMMA LiveOrdered ==
    ASSUME NEW order, NEW n, NEW sent, NEW k, NEW box, NEW e, NEW out,
           Flow(order, n, sent, k, box, e, out), sent # <<>>,
           Head(sent)[1].type \in {"join", "leave"},
           Live(order \o Head(sent), out \ {Head(sent)[1].client}, k), ~Live(order, out, k)
    PROVE  (\A i \in DOMAIN order : order[i] # Join(k)) /\ OwnOf(sent) = {}
<1> DEFINE P == Head(sent)
           A == order \o P
<1>1. /\ order \in Seq(Messages) /\ sent \in Seq(Batches) /\ n \in 0 .. Len(order)
      /\ WellFormed(order, sent) /\ SentBy(order, n, sent, k, box.submittedBy)
  BY DEF Flow
<1>2. /\ P = sent[1] /\ 1 \in DOMAIN sent /\ P \in Seq(Messages) /\ 1 \in DOMAIN P
      /\ P[1].type = "join" => P = <<Join(P[1].client)>>
      /\ P[1].type = "leave" => P = <<Leave(P[1].client)>>
  BY <1>1, HeadIsMessages
<1>3. P[1].type \in {"join", "leave"}
  OBVIOUS
<1>4. Live(A, out \ {P[1].client}, k)
  OBVIOUS
<1> HIDE DEF P
<1>5. /\ \A i \in DOMAIN order : i \in DOMAIN A /\ A[i] = order[i]
      /\ \A i \in DOMAIN A : i \in DOMAIN order \/ \E j \in DOMAIN P : i = Len(order) + j
      /\ \A j \in DOMAIN P : Len(order) + j \in DOMAIN A /\ A[Len(order) + j] = P[j]
  BY <1>1, <1>2, Extended
<1> HIDE DEF A
<1>6. \A i \in DOMAIN order : order[i] # Leave(k)
  BY <1>4, <1>5 DEF Live
<1>7. P # <<Leave(k)>>
  <2> SUFFICES ASSUME P = <<Leave(k)>> PROVE FALSE
    OBVIOUS
  <2>1. P[1] = Leave(k)
    BY Zenon
  <2>2. Len(order) + 1 \in DOMAIN A /\ A[Len(order) + 1] = P[1]
    BY <1>2, <1>5
  <2>3. \A i \in DOMAIN A : A[i] # Leave(k)
    BY <1>4 DEF Live
  <2> QED
    BY <2>1, <2>2, <2>3
<1>8. P = <<Join(k)>>
  <2>1. CASE P[1].client = k
    BY <1>2, <1>3, <1>7, <2>1
  <2>2. CASE P[1].client # k
    <3>1. k \notin out
      BY <1>4, <2>2 DEF Live
    <3>2. PICK i \in DOMAIN A : A[i] = Join(k)
      BY <1>4 DEF Live
    <3>3. i \notin DOMAIN order
      BY <1>5, <1>6, <3>1, <3>2 DEF Live
    <3>4. PICK j \in DOMAIN P : i = Len(order) + j
      BY <1>5, <3>3
    <3>5. P[j] = Join(k)
      BY <1>5, <3>2, <3>4
    <3>6. Join(k).client = k /\ \A c : Join(c).client = c /\ Leave(c).client = c
      BY DEF Join, Leave, Message
    <3>7. DOMAIN P = {1}
      <4>1. \A m : DOMAIN <<m>> = {1}
        OBVIOUS
      <4> QED
        BY <1>2, <1>3, <4>1
    <3> QED
      BY <2>2, <3>4, <3>5, <3>6, <3>7
  <2> QED
    BY <2>1, <2>2
<1>9. \A i \in DOMAIN order : order[i] # Join(k)
  <2> SUFFICES ASSUME NEW i \in DOMAIN order, order[i] = Join(k) PROVE FALSE
    OBVIOUS
  <2>1. order[i].type = "join"
    BY DEF Join, Message
  <2>2. sent[1] # <<order[i]>>
    BY <1>1, <1>2, <2>1 DEF WellFormed
  <2> QED
    BY <1>2, <1>8, <2>2
<1>10. OwnOf(sent) = {}
  <2> SUFFICES ASSUME NEW p \in OwnOf(sent) PROVE FALSE
    OBVIOUS
  <2>1. Joined(order, n, k)
    BY <1>1 DEF SentBy
  <2> QED
    BY <1>9, <2>1 DEF Joined
<1> QED
  BY <1>9, <1>10

(* What stays as it is when the sequencer or another client takes a step. *)
ServiceStep ==
    /\ UNCHANGED <<open, mode, accepted, attempt, connection, attached, inbox, lastProcessed,
                   state, pendingClientId, clientId, inQuorum, outbox, replayedFor, closed, edits>>
    /\ others' \in Nat /\ faults' \in Nat
    /\ raw' \in Seq(Batches) /\ \A p \in DOMAIN raw' : \E q \in DOMAIN raw : raw'[p] = raw[q]
    /\ refused' \subseteq Connections

LEMMA OrderedSockets ==
    ASSUME ClientInv, ServiceStep, NEW M \in Seq(Messages), Order(M)
    PROVE  /\ socket' \in [Connections -> Seq(Nat)]
           /\ log' = log \o M /\ Len(log') = Len(log) + Len(M)
           /\ Len(log) \in Nat /\ Len(M) \in Nat
           /\ \A k \in Connections :
                /\ mode[k] = "none" => socket'[k] = <<>>
                /\ socket'[k] # <<>> => k \in {accepted, connection}
                /\ Rising(socket'[k], Len(log'), inbox.pending)
                /\ k = accepted => \A i \in DOMAIN socket'[k] : socket'[k][i] # Nack
<1>1. /\ log' = log \o M /\ log \in Seq(Messages) /\ M \in Seq(Messages)
      /\ socket' = [k \in Connections |->
            IF k \in Listening THEN socket[k] \o Numbers(Len(log), Len(M)) ELSE socket[k]]
      /\ socket \in [Connections -> Seq(Nat)]
  BY DEF Order, Numbers, ClientInv, ClientTypeOK
<1>2. Len(log') = Len(log) + Len(M) /\ Len(log) \in Nat /\ Len(M) \in Nat
  BY <1>1
<1>3. ConnectionInv /\ InboundInv /\ inbox.pending \subseteq 1 .. Len(log)
  BY DEF ClientInv, InboundInv, Queue
<1>4. ASSUME NEW k \in Connections
      PROVE  /\ socket'[k] \in Seq(Nat)
             /\ mode[k] = "none" => socket'[k] = <<>>
             /\ socket'[k] # <<>> => k \in {accepted, connection}
             /\ Rising(socket'[k], Len(log'), inbox.pending)
             /\ k = accepted => \A i \in DOMAIN socket'[k] : socket'[k][i] # Nack
  <2>1. /\ socket[k] \in Seq(Nat)
        /\ mode[k] = "none" => socket[k] = <<>> /\ k \notin open
        /\ socket[k] # <<>> => k \in {accepted, connection}
        /\ Rising(socket[k], Len(log), inbox.pending)
        /\ k = accepted => \A i \in DOMAIN socket[k] : socket[k][i] # Nack
    BY <1>1, <1>3 DEF ConnectionInv, InboundInv
  <2> DEFINE q == socket[k] \o Numbers(Len(log), Len(M))
  <2>2. /\ Rising(socket[k], Len(log) + Len(M), inbox.pending)
        /\ q \in Seq(Nat) /\ Rising(q, Len(log) + Len(M), inbox.pending)
        /\ \A i \in DOMAIN q : q[i] = Nack => \E j \in DOMAIN socket[k] : socket[k][j] = Nack
    BY <1>2, <1>3, <2>1, RisingOrdered
  <2>3. socket'[k] = IF k \in Listening THEN q ELSE socket[k]
    BY <1>1
  <2> HIDE DEF q
  <2>4. CASE k \in Listening
    <3>1. socket'[k] = q /\ k \in open /\ k \in {accepted, connection}
      BY <2>3, <2>4 DEF Listening
    <3> QED
      BY <1>2, <2>1, <2>2, <3>1
  <2>5. CASE k \notin Listening
    <3>1. socket'[k] = socket[k]
      BY <2>3, <2>5
    <3> QED
      BY <1>2, <2>1, <2>2, <3>1
  <2> QED
    BY <2>4, <2>5
<1>5. socket' \in [Connections -> Seq(Nat)]
  BY <1>1, <1>4
<1> QED
  BY <1>1, <1>2, <1>4, <1>5

LEMMA OrderedKeeps ==
    ASSUME ClientInv, ServiceStep, NEW M \in Seq(Messages), Order(M),
           \A j \in DOMAIN M : \A k \in Connections : mode[k] = "none" => M[j].client # k,
           Flow(log', lastProcessed, raw', clientId, outbox, edits, refused'), PhaseInv'
    PROVE  ClientInv'
<1>1. /\ UNCHANGED <<open, mode, accepted, attempt, connection, attached, inbox, lastProcessed,
                     state, pendingClientId, clientId, inQuorum, outbox, replayedFor, closed,
                     edits>>
      /\ others' \in Nat /\ faults' \in Nat
      /\ raw' \in Seq(Batches) /\ (\A p \in DOMAIN raw' : \E q \in DOMAIN raw : raw'[p] = raw[q])
      /\ refused' \subseteq Connections
  BY DEF ServiceStep
<1>2. ClientTypeOK /\ ConnectionInv /\ InboundInv /\ AssertionsHold
  BY DEF ClientInv
<1>3. /\ socket' \in [Connections -> Seq(Nat)]
      /\ log' = log \o M /\ Len(log') = Len(log) + Len(M) /\ Len(log) \in Nat /\ Len(M) \in Nat
      /\ \A k \in Connections :
            /\ mode[k] = "none" => socket'[k] = <<>>
            /\ socket'[k] # <<>> => k \in {accepted, connection}
            /\ Rising(socket'[k], Len(log'), inbox.pending)
            /\ k = accepted => \A i \in DOMAIN socket'[k] : socket'[k][i] # Nack
  BY OrderedSockets
<1>4. log \in Seq(Messages) /\ 0 \in 0 .. Len(log)
  BY <1>2, <1>3 DEF ClientTypeOK
<1>5. /\ log' \in Seq(Messages)
      /\ \A i \in DOMAIN log' : (i \in DOMAIN log /\ log'[i] = log[i])
                                \/ \E j \in DOMAIN M : log'[i] = M[j]
  BY <1>3, <1>4, Extended
<1>6. ClientTypeOK'
  BY <1>1, <1>2, <1>3, <1>5 DEF ClientTypeOK
<1>7. ConnectionInv'
  <2>1. ASSUME NEW k \in Connections, mode[k] = "none"
        PROVE  /\ k \notin open /\ socket'[k] = <<>>
               /\ \A i \in DOMAIN log' : log'[i].client # k
               /\ \A p \in DOMAIN raw' : raw'[p][1].client # k
    <3>1. /\ k \notin open
          /\ \A i \in DOMAIN log : log[i].client # k
          /\ \A p \in DOMAIN raw : raw[p][1].client # k
      BY <1>2, <2>1 DEF ConnectionInv
    <3>2. \A i \in DOMAIN log' : log'[i].client # k
      BY <1>5, <2>1, <3>1
    <3>3. \A p \in DOMAIN raw' : raw'[p][1].client # k
      BY <1>1, <3>1
    <3> QED
      BY <1>3, <2>1, <3>1, <3>2, <3>3
  <2> QED
    BY <1>1, <1>2, <2>1 DEF ConnectionInv, Used
<1>8. InboundInv'
  <2>1. Queue(inbox, lastProcessed, Len(log')) /\ InitialMessages <= Len(log')
    <3>1. Queue(inbox, lastProcessed, Len(log)) /\ InitialMessages <= Len(log)
      BY <1>2 DEF InboundInv
    <3>2. InitialMessages \in Nat
      BY ConnectionConstants
    <3>3. inbox.queued \in Nat /\ inbox.queued <= Len(log) /\ inbox.pending \subseteq 1 .. Len(log)
      BY <3>1 DEF Queue, Inboxes
    <3>4. inbox.queued <= Len(log') /\ inbox.pending \subseteq 1 .. Len(log') /\ Len(log') \in Nat
      BY <1>3, <3>3
    <3>5. Queue(inbox, lastProcessed, Len(log'))
      BY <3>1, <3>4 DEF Queue
    <3> QED
      BY <1>3, <3>1, <3>2, <3>5
  <2> QED
    BY <1>1, <1>2, <1>3, <2>1 DEF InboundInv
<1>9. Flow(log, lastProcessed, raw, clientId, outbox, edits, refused)'
  BY <1>1
<1> QED
  BY <1>1, <1>2, <1>6, <1>7, <1>8, <1>9 DEF ClientInv, AssertionsHold

(* No message is ordered: one may be nacked. *)
LEMMA UnorderedKeeps ==
    ASSUME ClientInv, ServiceStep, log' = log, refused' = refused, NEW c \in Connections,
           socket' = socket \/ (socket' = [socket EXCEPT ![c] = Append(@, Nack)]
                                    /\ c \in Listening /\ c # accepted),
           Flow(log, lastProcessed, raw', clientId, outbox, edits, refused), PhaseInv'
    PROVE  ClientInv'
<1>1. /\ UNCHANGED <<open, mode, accepted, attempt, connection, attached, inbox, lastProcessed,
                     state, pendingClientId, clientId, inQuorum, outbox, replayedFor, closed,
                     edits>>
      /\ others' \in Nat /\ faults' \in Nat
      /\ raw' \in Seq(Batches) /\ (\A p \in DOMAIN raw' : \E q \in DOMAIN raw : raw'[p] = raw[q])
      /\ refused' \subseteq Connections
  BY DEF ServiceStep
<1>2. ClientTypeOK /\ ConnectionInv /\ InboundInv /\ AssertionsHold
      /\ socket \in [Connections -> Seq(Nat)]
  BY DEF ClientInv, ClientTypeOK
<1>3. ASSUME NEW k \in Connections
      PROVE  /\ socket'[k] \in Seq(Nat)
             /\ mode[k] = "none" => socket'[k] = <<>>
             /\ socket'[k] # <<>> => k \in {accepted, connection}
             /\ Rising(socket'[k], Len(log), inbox.pending)
             /\ k = accepted => \A i \in DOMAIN socket'[k] : socket'[k][i] # Nack
  <2>1. /\ socket[k] \in Seq(Nat)
        /\ mode[k] = "none" => socket[k] = <<>> /\ k \notin open
        /\ socket[k] # <<>> => k \in {accepted, connection}
        /\ Rising(socket[k], Len(log), inbox.pending)
        /\ k = accepted => \A i \in DOMAIN socket[k] : socket[k][i] # Nack
    BY <1>2 DEF ConnectionInv, InboundInv
  <2>2. CASE socket'[k] = socket[k]
    BY <2>1, <2>2
  <2>3. CASE socket'[k] # socket[k]
    <3>1. k = c /\ socket'[k] = Append(socket[k], Nack) /\ k \in Listening /\ k # accepted
      BY <1>2, <2>3
    <3>2. Append(socket[k], Nack) \in Seq(Nat)
          /\ Rising(Append(socket[k], Nack), Len(log), inbox.pending)
      BY <2>1, RisingNacked
    <3>3. k \in open /\ k \in {accepted, connection}
      BY <3>1 DEF Listening
    <3> QED
      BY <2>1, <3>1, <3>2, <3>3
  <2> QED
    BY <2>2, <2>3
<1>4. socket' \in [Connections -> Seq(Nat)]
  <2>1. CASE socket' = socket
    BY <1>2, <2>1
  <2>2. CASE socket' = [socket EXCEPT ![c] = Append(@, Nack)]
    BY <1>2, <1>3, <2>2
  <2> QED
    BY <2>1, <2>2
<1>5. ClientTypeOK'
  BY <1>1, <1>2, <1>4 DEF ClientTypeOK
<1>6. ConnectionInv'
  <2>1. ASSUME NEW k \in Connections, mode[k] = "none"
        PROVE  /\ k \notin open /\ socket'[k] = <<>>
               /\ \A i \in DOMAIN log : log[i].client # k
               /\ \A p \in DOMAIN raw' : raw'[p][1].client # k
    <3>1. /\ k \notin open
          /\ \A i \in DOMAIN log : log[i].client # k
          /\ \A p \in DOMAIN raw : raw[p][1].client # k
      BY <1>2, <2>1 DEF ConnectionInv
    <3>2. \A p \in DOMAIN raw' : raw'[p][1].client # k
      BY <1>1, <3>1
    <3> QED
      BY <1>3, <2>1, <3>1, <3>2
  <2> QED
    BY <1>1, <1>2, <2>1 DEF ConnectionInv, Used
<1>7. InboundInv'
  BY <1>1, <1>2, <1>3 DEF InboundInv
<1>8. Flow(log, lastProcessed, raw, clientId, outbox, edits, refused)'
  BY <1>1
<1> QED
  BY <1>1, <1>2, <1>5, <1>6, <1>7, <1>8 DEF ClientInv, AssertionsHold

LEMMA OrderOtherKeeps == ClientInv /\ OrderOther => ClientInv'
<1> SUFFICES ASSUME ClientInv, OrderOther PROVE ClientInv'
  OBVIOUS
<1> DEFINE M == <<Other>>
<1>1. /\ others' = others + 1 /\ Order(<<Other>>)
      /\ UNCHANGED <<raw, open, mode, refused, accepted, faults>>
      /\ UNCHANGED <<attempt, connection, attached, inbox, lastProcessed, state,
                     pendingClientId, clientId, inQuorum, outbox, replayedFor, closed, edits>>
  BY DEF OrderOther, UnchangedByService, container
<1>2. ClientTypeOK /\ ConnectionInv /\ PhaseInv
      /\ Flow(log, lastProcessed, raw, clientId, outbox, edits, refused)
  BY DEF ClientInv
<1>3. ServiceStep
  <2>1. others' \in Nat /\ faults' \in Nat /\ refused' \subseteq Connections /\ raw' \in Seq(Batches)
    BY <1>1, <1>2 DEF ClientTypeOK
  <2> QED
    BY <1>1, <2>1 DEF ServiceStep
<1>4. /\ Other \in Messages /\ Other.type = "op" /\ Other.client = None
      /\ WellFormed(log \o M, raw) /\ log \in Seq(Messages) /\ lastProcessed \in 0 .. Len(log)
  BY <1>2, WellFormedOther DEF Flow
<1>5. M \in Seq(Messages) /\ DOMAIN M = {1} /\ M[1] = Other
  BY <1>4
<1>6. log' = log \o M
  BY <1>1 DEF Order
<1> HIDE DEF M
<1>7. /\ OwnIn(log') = OwnIn(log) /\ Unseen(log', lastProcessed) = Unseen(log, lastProcessed)
      /\ OpsIn(log') = OpsIn(log)
  BY <1>4, <1>5, <1>6, NotOwnOrdered
<1>8. /\ \A i \in DOMAIN log : i \in DOMAIN log' /\ log'[i] = log[i]
      /\ \A i \in DOMAIN log' : i \in DOMAIN log \/ \E j \in DOMAIN M : i = Len(log) + j
      /\ \A j \in DOMAIN M : log'[Len(log) + j] = M[j]
      /\ \A c : Joined(log', lastProcessed, c) <=> Joined(log, lastProcessed, c)
  BY <1>4, <1>5, <1>6, Extended
<1>9. ASSUME NEW i \in DOMAIN log', NEW k, log'[i] = Join(k) PROVE i \in DOMAIN log
  <2>1. Join(k).type = "join"
    BY DEF Join, Message
  <2> QED
    BY <1>4, <1>5, <1>8, <1>9, <2>1
<1>10. Live(log', refused, clientId) => Live(log, refused, clientId)
  BY <1>8, <1>9 DEF Live
<1>11. Flow(log', lastProcessed, raw', clientId, outbox, edits, refused')
  BY <1>1, <1>2, <1>4, <1>5, <1>6, <1>10, FlowExtended
<1>12. PhaseInv'
  <2>1. \A k : Barrier(log, raw, k) => Barrier(log', raw, k)
    BY <1>7, <1>8, <1>9 DEF Barrier
  <2>2. NothingUnderway(log, lastProcessed, raw) => NothingUnderway(log', lastProcessed, raw)
    BY <1>7 DEF NothingUnderway
  <2> QED
    BY <1>1, <1>2, <1>7, <1>8, <1>10, <2>1, <2>2 DEF PhaseInv
<1>13. \A j \in DOMAIN M : \A k \in Connections : M[j].client # k
  BY <1>4, <1>5, NoneConnection
<1>14. Order(M)
  BY <1>1 DEF M
<1> QED
  BY <1>3, <1>5, <1>11, <1>12, <1>13, <1>14, OrderedKeeps

LEMMA HeadOrdered ==
    ASSUME NEW order \in Seq(Messages), NEW n \in 0 .. Len(order), NEW sent \in Seq(Batches),
           sent # <<>>, WellFormed(order, sent)
    PROVE  LET A == order \o Head(sent) IN
           /\ NothingUnderway(order, n, sent) => NothingUnderway(A, n, Tail(sent))
           /\ OpsIn(order) \cup OpsOf(sent) \subseteq OpsIn(A) \cup OpsOf(Tail(sent))
<1> DEFINE P == Head(sent)
           A == order \o P
<1>1. /\ P = sent[1] /\ 1 \in DOMAIN sent /\ P \in Seq(Messages)
      /\ ~IsOwn(P) => \A j \in DOMAIN P : P[j].type = "op" => P[j].client = None
  BY HeadIsMessages
<1>2. /\ OwnOf(sent) = {} => OwnOf(Tail(sent)) = {}
      /\ ~IsOwn(P) => OpsOf(Tail(sent)) = OpsOf(sent)
  BY TailKeeps
<1>3. CASE ~IsOwn(P)
  <2>1. OwnIn(A) = OwnIn(order) /\ Unseen(A, n) = Unseen(order, n) /\ OpsIn(A) = OpsIn(order)
    BY <1>1, <1>3, NotOwnOrdered
  <2> QED
    BY <1>2, <1>3, <2>1 DEF NothingUnderway
<1>4. CASE IsOwn(P)
  <2>1. /\ 1 \in OwnOf(sent) /\ OpsIn(A) = OpsIn(order) \cup {P[j].op : j \in DOMAIN P}
        /\ OpsOf(sent) = OpsOf(Tail(sent)) \cup {P[j].op : j \in DOMAIN P}
    BY <1>4, OwnOrdered
  <2>2. ~NothingUnderway(order, n, sent)
    BY <2>1 DEF NothingUnderway
  <2> QED
    BY <2>1, <2>2
<1> QED
  BY <1>3, <1>4

(* The client of the first batch. *)
LEMMA HeadClient ==
    ASSUME ClientInv, raw # <<>>
    PROVE  LET k == Head(raw)[1].client IN
           /\ k \in Connections /\ mode[k] # "none"
           /\ Head(raw)[1].type \in {"join", "leave", "op", "noop"}
           /\ Head(raw)[1].type \in {"op", "noop"} => k # accepted
           /\ IsOwn(Head(raw)) => k = clientId
           /\ Head(raw) \in Seq(Messages)
           /\ \A j \in DOMAIN Head(raw) : Head(raw)[j].client = k
<1> DEFINE P == Head(raw)
           k == P[1].client
<1>1. /\ log \in Seq(Messages) /\ raw \in Seq(Batches) /\ WellFormed(log, raw)
      /\ SentBy(log, lastProcessed, raw, clientId, outbox.submittedBy)
  BY DEF ClientInv, Flow
<1>2. /\ P = raw[1] /\ 1 \in DOMAIN raw /\ P[1] \in Messages /\ P[1].client # None
      /\ P \in Seq(Messages) /\ \A j \in DOMAIN P : P[j].client = P[1].client
  BY <1>1, HeadIsMessages
<1> HIDE DEF P
<1>3. k \in Connections /\ P[1].type \in {"join", "leave", "op", "noop"}
  BY <1>2 DEF Messages, NoneOr
<1>4. mode[k] # "none"
  BY <1>2, <1>3 DEF ClientInv, ConnectionInv
<1>5. ASSUME P[1].type \in {"op", "noop"} PROVE k # accepted
  <2>1. k <= outbox.submittedBy
    BY <1>1, <1>2, <1>5 DEF SentBy
  <2>2. accepted # None => outbox.submittedBy < accepted
    BY DEF ClientInv, ConnectionInv
  <2>3. outbox.submittedBy \in Nat /\ accepted \in Nat /\ k \in Nat /\ k # None
    BY <1>3, NoneConnection DEF ClientInv, ClientTypeOK, Outboxes, NoneOr
  <2> QED
    BY <2>1, <2>2, <2>3
<1>6. ASSUME IsOwn(P) PROVE k = clientId
  <2>1. 1 \in OwnOf(raw)
    BY <1>2, <1>6 DEF OwnOf
  <2> QED
    BY <1>1, <1>2, <2>1 DEF SentBy
<1> QED
  BY <1>2, <1>3, <1>4, <1>5, <1>6 DEF P

LEMMA SequencedStep ==
    ASSUME ClientInv, raw # <<>>, raw' = Tail(raw), refused' \subseteq refused,
           UNCHANGED <<open, mode, accepted, others, faults>>, UnchangedByService
    PROVE  ServiceStep
<1>1. raw' \in Seq(Batches) /\ \A p \in DOMAIN raw' : \E q \in DOMAIN raw : raw'[p] = raw[q]
  BY TailKeeps DEF ClientInv, ClientTypeOK
<1>2. others' \in Nat /\ faults' \in Nat /\ refused' \subseteq Connections
  BY DEF ClientInv, ClientTypeOK
<1> QED
  BY <1>1, <1>2 DEF ServiceStep, UnchangedByService, container

(* A client joins or leaves. *)
LEMMA MembershipKeeps ==
    ASSUME ClientInv, raw # <<>>, raw' = Tail(raw), Head(raw)[1].type \in {"join", "leave"},
           Order(Head(raw)), refused' = refused \ {Head(raw)[1].client}, ServiceStep
    PROVE  ClientInv'
<1> DEFINE P == Head(raw)
           c == P[1].client
<1>1. /\ c \in Connections /\ mode[c] # "none" /\ P \in Seq(Messages)
      /\ \A j \in DOMAIN P : P[j].client = c
  BY HeadClient
<1>2. /\ Flow(log, lastProcessed, raw, clientId, outbox, edits, refused) /\ PhaseInv
      /\ log \in Seq(Messages) /\ raw \in Seq(Batches) /\ WellFormed(log, raw)
      /\ lastProcessed \in 0 .. Len(log)
  BY DEF ClientInv, Flow
<1>3. log' = log \o P
  BY DEF Order
<1>4. WellFormed(log', raw')
  BY <1>2, <1>3, WellFormedOrdered
<1>5. ~IsOwn(P) /\ \A j \in DOMAIN P : P[j].type = "op" => P[j].client = None
  <2>1. ~IsOwn(P)
    BY DEF IsOwn
  <2> QED
    BY <1>2, <2>1, HeadIsMessages
<1>6. Live(log', refused', clientId) /\ ~Live(log, refused, clientId) =>
            (\A i \in DOMAIN log : log[i] # Join(clientId)) /\ OwnOf(raw) = {}
  BY <1>2, <1>3, LiveOrdered
<1>7. OwnOf(raw) = {} => OwnOf(raw') = {}
  BY <1>2, TailKeeps
<1>8. Flow(log', lastProcessed, raw', clientId, outbox, edits, refused')
  <2>1. Flow(log, lastProcessed, raw', clientId, outbox, edits, refused)
    BY <1>2, <1>5, FlowDropped
  <2>2. WellFormed(log \o P, raw')
    BY <1>3, <1>4
  <2>3. Live(log \o P, refused', clientId) => Live(log, refused, clientId) \/ OwnOf(raw') = {}
    BY <1>3, <1>6, <1>7
  <2>4. Flow(log \o P, lastProcessed, raw', clientId, outbox, edits, refused')
    BY <1>1, <1>5, <2>1, <2>2, <2>3, FlowExtended
  <2> QED
    BY <1>3, <2>4
<1> HIDE DEF P
<1>9. \A d : Joined(log', lastProcessed, d) <=> Joined(log, lastProcessed, d)
  BY <1>1, <1>2, <1>3, Extended
<1>10. \A d : Barrier(log, raw, d) => Barrier(log', raw', d)
  BY <1>2, <1>3, BarrierOrdered DEF P
<1>11. /\ NothingUnderway(log, lastProcessed, raw) => NothingUnderway(log', lastProcessed, raw')
       /\ OpsIn(log) \cup OpsOf(raw) \subseteq OpsIn(log') \cup OpsOf(raw')
  BY <1>2, <1>3, HeadOrdered DEF P
<1>12. UNCHANGED <<open, mode, accepted, attempt, connection, attached, inbox, lastProcessed,
                   state, pendingClientId, clientId, inQuorum, outbox, replayedFor, closed, edits>>
  BY DEF ServiceStep
<1>13. ASSUME Live(log', refused', clientId), state = "Connected", mode[clientId] = "write",
              clientId \in open
       PROVE  1 .. edits \subseteq OpsIn(log') \cup OpsOf(raw')
  <2>1. clientId = connection
    BY <1>13 DEF ClientInv, ConnectionInv
  <2>2. Joined(log, lastProcessed, clientId)
    BY <1>2, <1>13, <2>1 DEF PhaseInv
  <2>3. Live(log, refused, clientId)
    BY <1>6, <1>13, <2>2 DEF Joined
  <2>4. 1 .. edits \subseteq OpsIn(log) \cup OpsOf(raw)
    BY <1>2, <1>13, <2>3 DEF PhaseInv
  <2> QED
    BY <1>11, <2>4
<1>14. PhaseInv'
  BY <1>2, <1>9, <1>10, <1>11, <1>12, <1>13 DEF PhaseInv
<1>15. \A j \in DOMAIN P : \A k \in Connections : mode[k] = "none" => P[j].client # k
  BY <1>1
<1>16. Order(P)
  BY DEF P
<1> QED
  BY <1>1, <1>8, <1>14, <1>15, <1>16, OrderedKeeps

(* The client's operations are ordered. *)
LEMMA OperationsKeep ==
    ASSUME ClientInv, raw # <<>>, raw' = Tail(raw), Head(raw)[1].type = "op",
           Member(Head(raw)[1].client), Head(raw)[1].client \notin refused,
           Order(Head(raw)), refused' = refused, ServiceStep
    PROVE  ClientInv'
<1> DEFINE P == Head(raw)
           c == P[1].client
<1>1. /\ c \in Connections /\ mode[c] # "none" /\ P \in Seq(Messages)
      /\ \A j \in DOMAIN P : P[j].client = c
  BY HeadClient
<1>2. IsOwn(P)
  BY DEF IsOwn
<1>3. c = clientId
  BY <1>2, HeadClient
<1>4. /\ Flow(log, lastProcessed, raw, clientId, outbox, edits, refused) /\ PhaseInv
      /\ log \in Seq(Messages) /\ raw \in Seq(Batches) /\ WellFormed(log, raw)
      /\ lastProcessed \in 0 .. Len(log)
  BY DEF ClientInv, Flow
<1>5. log' = log \o P
  BY DEF Order
<1>6. Live(log, refused, clientId)
  BY <1>3 DEF Live, Member
<1>7. Flow(log', lastProcessed, raw', clientId, outbox, edits, refused')
  <2>1. Flow(log \o P, lastProcessed, raw', clientId, outbox, edits, refused)
    BY <1>2, <1>4, <1>6, FlowOrdered
  <2> QED
    BY <1>5, <2>1
<1> HIDE DEF P
<1>8. \A d : Joined(log', lastProcessed, d) <=> Joined(log, lastProcessed, d)
  BY <1>1, <1>4, <1>5, Extended
<1>9. \A d : Barrier(log, raw, d) => Barrier(log', raw', d)
  BY <1>4, <1>5, BarrierOrdered DEF P
<1>10. /\ NothingUnderway(log, lastProcessed, raw) => NothingUnderway(log', lastProcessed, raw')
       /\ OpsIn(log) \cup OpsOf(raw) \subseteq OpsIn(log') \cup OpsOf(raw')
  BY <1>4, <1>5, HeadOrdered DEF P
<1>11. UNCHANGED <<open, mode, accepted, attempt, connection, attached, inbox, lastProcessed,
                   state, pendingClientId, clientId, inQuorum, outbox, replayedFor, closed, edits>>
  BY DEF ServiceStep
<1>12. PhaseInv'
  BY <1>4, <1>6, <1>8, <1>9, <1>10, <1>11 DEF PhaseInv
<1>13. \A j \in DOMAIN P : \A k \in Connections : mode[k] = "none" => P[j].client # k
  BY <1>1
<1>14. Order(P)
  BY DEF P
<1> QED
  BY <1>1, <1>7, <1>12, <1>13, <1>14, OrderedKeeps

(* Nothing is ordered: a reference update, a leave of no member, or a nack. *)
LEMMA DiscardedKeeps ==
    ASSUME ClientInv, raw # <<>>, raw' = Tail(raw), log' = log, refused' = refused, ServiceStep,
           IsOwn(Head(raw)) => ~Member(Head(raw)[1].client) \/ Head(raw)[1].client \in refused,
           \/ socket' = socket
           \/ /\ socket' = [socket EXCEPT ![Head(raw)[1].client] = Append(@, Nack)]
              /\ Head(raw)[1].type \in {"op", "noop"} /\ Head(raw)[1].client \in Listening
    PROVE  ClientInv'
<1> DEFINE P == Head(raw)
           c == P[1].client
<1>1. /\ c \in Connections /\ (IsOwn(P) => c = clientId)
      /\ P[1].type \in {"op", "noop"} => c # accepted
  BY HeadClient
<1>2. /\ Flow(log, lastProcessed, raw, clientId, outbox, edits, refused) /\ PhaseInv
      /\ raw \in Seq(Batches)
  BY DEF ClientInv, Flow
<1>3. IsOwn(P) => ~Live(log, refused, clientId)
  BY <1>1 DEF Live, Member
<1>4. Flow(log, lastProcessed, raw', clientId, outbox, edits, refused)
  BY <1>2, <1>3, FlowDropped
<1>5. /\ OwnOf(raw) = {} => OwnOf(raw') = {}
      /\ \A k : Barrier(log, raw, k) => Barrier(log, raw', k)
      /\ ~IsOwn(P) => OpsOf(raw') = OpsOf(raw)
  BY <1>2, TailKeeps
<1>6. UNCHANGED <<open, mode, accepted, attempt, connection, attached, inbox, lastProcessed,
                  state, pendingClientId, clientId, inQuorum, outbox, replayedFor, closed, edits>>
  BY DEF ServiceStep
<1>7. NothingUnderway(log, lastProcessed, raw) => NothingUnderway(log, lastProcessed, raw')
  BY <1>5 DEF NothingUnderway
<1>8. PhaseInv'
  BY <1>2, <1>3, <1>5, <1>6, <1>7 DEF PhaseInv
<1>9. socket' = socket \/ (socket' = [socket EXCEPT ![c] = Append(@, Nack)]
                                    /\ c \in Listening /\ c # accepted)
  BY <1>1
<1> QED
  BY <1>1, <1>4, <1>8, <1>9, UnorderedKeeps

LEMMA SequenceKeeps == ClientInv /\ Sequence => ClientInv'
<1> SUFFICES ASSUME ClientInv, Sequence PROVE ClientInv'
  OBVIOUS
<1> DEFINE P == Head(raw)
           type == P[1].type
           c == P[1].client
<1>1. /\ raw # <<>> /\ raw' = Tail(raw)
      /\ UNCHANGED <<open, mode, accepted, others, faults>> /\ UnchangedByService
  BY DEF Sequence
<1>2. type \in {"join", "leave", "op", "noop"}
  BY <1>1, HeadClient
<1>3. CASE type = "join" \/ (type = "leave" /\ Member(c))
  <2>1. Order(P) /\ refused' = refused \ {c}
    BY <1>3 DEF Sequence
  <2>2. ServiceStep
    BY <1>1, <2>1, SequencedStep
  <2>3. type \in {"join", "leave"}
    BY <1>3
  <2> QED
    BY <1>1, <2>1, <2>2, <2>3, MembershipKeeps
<1>4. CASE type = "leave" /\ ~Member(c)
  <2>1. UNCHANGED <<log, socket, refused>>
    BY <1>4 DEF Sequence
  <2>2. ServiceStep
    BY <1>1, <2>1, SequencedStep
  <2>3. ~IsOwn(P)
    BY <1>4 DEF IsOwn
  <2> QED
    BY <1>1, <2>1, <2>2, <2>3, DiscardedKeeps
<1>5. CASE type \in {"op", "noop"} /\ Member(c) /\ c \notin refused
  <2>1. /\ IF type = "op" THEN Order(P) ELSE UNCHANGED <<log, socket>>
        /\ UNCHANGED refused
    BY <1>5 DEF Sequence
  <2>2. ServiceStep
    BY <1>1, <2>1, SequencedStep
  <2>3. CASE type = "op"
    BY <1>1, <1>5, <2>1, <2>2, <2>3, OperationsKeep
  <2>4. CASE type = "noop"
    <3>1. ~IsOwn(P)
      BY <2>4 DEF IsOwn
    <3> QED
      BY <1>1, <2>1, <2>2, <2>4, <3>1, DiscardedKeeps
  <2> QED
    BY <1>5, <2>3, <2>4
<1>6. CASE type \in {"op", "noop"} /\ (~Member(c) \/ c \in refused)
  <2>1. /\ socket' = IF c \in Listening THEN [socket EXCEPT ![c] = Append(@, Nack)] ELSE socket
        /\ UNCHANGED <<log, refused>>
    BY <1>6 DEF Sequence
  <2>2. ServiceStep
    BY <1>1, <2>1, SequencedStep
  <2> QED
    BY <1>1, <1>6, <2>1, <2>2, DiscardedKeeps
<1> QED
  BY <1>2, <1>3, <1>4, <1>5, <1>6

LEMMA LoadKeeps ==
    ClientInv /\ (\E s \in 0 .. InitialMessages, m \in FlushModes : Load(s, m)) => ClientInv'
<1> SUFFICES ASSUME ClientInv, NEW s \in 0 .. InitialMessages, NEW m \in FlushModes, Load(s, m)
             PROVE  ClientInv'
  OBVIOUS
<1> DEFINE b == [inbox EXCEPT !.queued = s]
           t == IF b.pending # {} THEN CatchUp(b, {}) ELSE FetchMissing(b, s, Undefined)
<1>1. /\ ~attached /\ attached' = TRUE /\ lastProcessed' = s /\ outbox' = SetFlushMode(outbox, m)
      /\ inbox' = t
      /\ UNCHANGED <<log, raw, socket, open, mode, refused, attempt, accepted, connection, state,
                     pendingClientId, clientId, inQuorum, replayedFor, closed, edits, others,
                     faults>>
  BY DEF Load, service, container, bounds
<1>2. ClientTypeOK /\ ConnectionInv /\ InboundInv /\ PhaseInv /\ AssertionsHold
      /\ Flow(log, lastProcessed, raw, clientId, outbox, edits, refused)
  BY DEF ClientInv
<1>3. /\ inbox.inbound = <<>> /\ lastProcessed = 0 /\ inbox.fetch = Idle
      /\ Queue(inbox, 0, Len(log)) /\ InitialMessages <= Len(log)
      /\ outbox.states = <<>> /\ outbox.mode = "Automatic" /\ edits = 0
  BY <1>1, <1>2 DEF InboundInv, PhaseInv
<1>4. s \in 0 .. Len(log) /\ s \in Nat /\ Len(log) \in Nat /\ m \in {"Automatic", "Manual"}
  <2>1. InitialMessages \in Nat /\ FlushModes \subseteq {"Automatic", "Manual"}
    BY ConnectionConstants
  <2>2. Len(log) \in Nat
    BY <1>2 DEF ClientTypeOK
  <2> QED
    BY <1>3, <2>1, <2>2
<1>5. Queue(t, s, Len(log)) /\ Beyond(t) /\ \A p \in t.pending : p \in inbox.pending
  BY <1>3, <1>4, LoadedQueue
<1> HIDE DEF t, b
<1>6. /\ Flow(log, s, raw, clientId, outbox', 0, refused) /\ outbox'.submittedBy = outbox.submittedBy
      /\ NothingUnderway(log, s, raw)
      /\ outbox'.mode = "Manual" =>
            outbox'.states = <<>> \/ Marker(outbox'.states[Len(outbox'.states)])
  <2>1. Flow(log, 0, raw, clientId, outbox, 0, refused)
    BY <1>2, <1>3
  <2> QED
    BY <1>1, <1>3, <1>4, <2>1, FlowLoaded
<1>7. ClientTypeOK'
  <2>1. outbox' \in Outboxes
    BY <1>6 DEF Flow
  <2>2. inbox' \in Inboxes
    BY <1>1, <1>5 DEF Queue
  <2> QED
    BY <1>1, <1>2, <1>4, <2>1, <2>2 DEF ClientTypeOK
<1>8. ConnectionInv'
  BY <1>1, <1>2, <1>6 DEF ConnectionInv, Used
<1>9. InboundInv'
  <2>1. \A q : Rising(q, Len(log), inbox.pending) => Rising(q, Len(log), inbox'.pending)
    BY <1>1, <1>5, RisingLess
  <2>2. Queue(inbox', lastProcessed', Len(log)) /\ Beyond(inbox')
    BY <1>1, <1>5
  <2> QED
    BY <1>1, <1>2, <2>1, <2>2 DEF InboundInv
<1>10. Flow(log, lastProcessed, raw, clientId, outbox, edits, refused)'
  BY <1>1, <1>3, <1>6
<1>11. PhaseInv'
  <2>1. ~Joined(log, lastProcessed, connection)
    <3>1. \A i \in DOMAIN log : ~(i <= 0)
      BY <1>2 DEF ClientTypeOK
    <3> QED
      BY <1>3, <3>1 DEF Joined
  <2>2. ~(state = "Connected" /\ mode[connection] = "write")
    BY <1>2, <2>1 DEF PhaseInv
  <2>3. 1 .. 0 = {}
    OBVIOUS
  <2> QED
    BY <1>1, <1>2, <1>3, <1>6, <2>2, <2>3 DEF PhaseInv
<1> QED
  BY <1>1, <1>2, <1>7, <1>8, <1>9, <1>10, <1>11 DEF ClientInv, AssertionsHold

(* A step in which the client sends on its connection, if it can. *)
LEMMA SentKeeps ==
    ASSUME ClientInv, NEW c \in {None, connection}, NEW t \in Outboxes, Send(c, t, socket),
           \A p \in DOMAIN t.batches : t.batches[p][1].client = c,
           t.submittedBy \in {outbox.submittedBy, c},
           UNCHANGED <<log, open, mode, refused, attempt, accepted, connection, attached, inbox,
                       lastProcessed, state, pendingClientId, clientId, inQuorum, replayedFor,
                       closed, faults>>,
           others' \in Nat,
           Flow(log, lastProcessed, SentOn(c \in open /\ mode[c] = "write", raw, t.batches),
                clientId, Cleared(t), edits', refused),
           state = "Connected"
                \/ \A k : Barrier(log, raw, k) =>
                    Barrier(log, SentOn(c \in open /\ mode[c] = "write", raw, t.batches), k),
           (Live(log, refused, clientId) /\ state = "Connected" /\ mode[clientId] = "write"
                /\ clientId \in open) =>
                1 .. edits' \subseteq
                  OpsIn(log) \cup OpsOf(SentOn(c \in open /\ mode[c] = "write", raw, t.batches)),
           outbox.mode = t.mode,
           outbox.mode = "Manual" /\ state = "Connected" =>
                t.states = <<>> \/ Marker(t.states[Len(t.states)]),
           attached \/ (t.states = outbox.states /\ edits' = edits)
    PROVE  ClientInv'
<1> DEFINE sends == c \in open /\ mode[c] = "write"
<1>1. /\ outbox' = Cleared(t) /\ raw' = SentOn(sends, raw, t.batches)
      /\ socket' = IF c \in open /\ mode[c] = "read" /\ t.batches # <<>>
                   THEN [socket EXCEPT ![c] = Append(@, Nack)] ELSE socket
  BY DEF Send, SentOn, Cleared
<1>2. ClientTypeOK /\ ConnectionInv /\ InboundInv /\ PhaseInv /\ AssertionsHold
  BY DEF ClientInv
<1>3. /\ outbox' \in Outboxes /\ outbox'.submittedBy = t.submittedBy /\ outbox'.mode = t.mode
      /\ outbox'.states = t.states
  BY <1>1, ClearedFields
<1>4. Flow(log, lastProcessed, raw', clientId, outbox', edits', refused)
  BY <1>1
<1>5. /\ raw' \in Seq(Batches) /\ edits' \in Nat /\ raw \in Seq(Batches)
      /\ t.batches \in Seq(Batches)
  BY <1>2, <1>4 DEF Flow, ClientTypeOK, Outboxes
<1>6. c \in Connections => c = connection /\ accepted = None /\ attempt = "none"
  BY <1>2, NoneConnection DEF ConnectionInv
<1>7. open \subseteq Connections /\ socket \in [Connections -> Seq(Nat)]
  BY <1>2 DEF ClientTypeOK
<1>8. \A p \in DOMAIN raw' : \/ \E q \in DOMAIN raw : raw'[p] = raw[q]
                             \/ sends /\ raw'[p][1].client = c
  <2>1. CASE sends
    <3>1. raw' = raw \o t.batches
      BY <1>1, <2>1 DEF SentOn
    <3>2. \A p \in DOMAIN raw' : \/ \E q \in DOMAIN raw : raw'[p] = raw[q]
                                 \/ \E q \in DOMAIN t.batches : raw'[p] = t.batches[q]
      <4> SUFFICES ASSUME NEW p \in DOMAIN raw'
                   PROVE  \/ \E q \in DOMAIN raw : raw'[p] = raw[q]
                          \/ \E q \in DOMAIN t.batches : raw'[p] = t.batches[q]
        OBVIOUS
      <4>1. p \in 1 .. Len(raw) + Len(t.batches) /\ Len(raw) \in Nat /\ Len(t.batches) \in Nat
        BY <1>5, <3>1
      <4>2. CASE p <= Len(raw)
        BY <1>5, <3>1, <4>1, <4>2
      <4>3. CASE p > Len(raw)
        <5>1. p - Len(raw) \in DOMAIN t.batches
          BY <1>5, <4>1, <4>3
        <5>2. raw'[p] = t.batches[p - Len(raw)]
          BY <1>5, <3>1, <4>1, <4>3
        <5> QED
          BY <5>1, <5>2
      <4> QED
        BY <4>1, <4>2, <4>3
    <3> QED
      BY <2>1, <3>2
  <2>2. CASE ~sends
    BY <1>1, <2>2 DEF SentOn
  <2> QED
    BY <2>1, <2>2
<1> HIDE DEF sends
<1>9. sends => c \in open /\ c \in Connections /\ mode[c] = "write"
  BY <1>7 DEF sends
<1>10. ASSUME NEW k \in Connections
       PROVE  /\ socket'[k] \in Seq(Nat)
              /\ mode[k] = "none" => socket'[k] = <<>>
              /\ socket'[k] # <<>> => k \in {accepted, connection}
              /\ Rising(socket'[k], Len(log), inbox.pending)
              /\ k = accepted => \A i \in DOMAIN socket'[k] : socket'[k][i] # Nack
  <2>1. /\ socket[k] \in Seq(Nat)
        /\ mode[k] = "none" => socket[k] = <<>>
        /\ socket[k] # <<>> => k \in {accepted, connection}
        /\ Rising(socket[k], Len(log), inbox.pending)
        /\ k = accepted => \A i \in DOMAIN socket[k] : socket[k][i] # Nack
    BY <1>2, <1>7 DEF ConnectionInv, InboundInv
  <2>2. CASE socket'[k] = socket[k]
    BY <2>1, <2>2
  <2>3. CASE socket'[k] # socket[k]
    <3>1. k = c /\ socket'[k] = Append(socket[k], Nack) /\ mode[k] = "read"
      BY <1>1, <1>7, <2>3
    <3>2. Append(socket[k], Nack) \in Seq(Nat)
          /\ Rising(Append(socket[k], Nack), Len(log), inbox.pending)
      BY <2>1, RisingNacked
    <3>3. k = connection /\ k # accepted
      BY <1>6, <3>1, NoneConnection
    <3> QED
      BY <2>1, <3>1, <3>2, <3>3
  <2> QED
    BY <2>2, <2>3
<1>11. socket' \in [Connections -> Seq(Nat)]
  BY <1>1, <1>7, <1>10
<1>12. ClientTypeOK'
  BY <1>2, <1>3, <1>5, <1>11 DEF ClientTypeOK
<1>13. ConnectionInv'
  <2>1. ASSUME NEW k \in Connections, mode[k] = "none"
        PROVE  /\ k \notin open /\ socket'[k] = <<>>
               /\ \A i \in DOMAIN log : log[i].client # k
               /\ \A p \in DOMAIN raw' : raw'[p][1].client # k
    <3>1. /\ k \notin open
          /\ \A i \in DOMAIN log : log[i].client # k
          /\ \A p \in DOMAIN raw : raw[p][1].client # k
      BY <1>2, <2>1 DEF ConnectionInv
    <3>2. \A p \in DOMAIN raw' : raw'[p][1].client # k
      BY <1>8, <1>9, <2>1, <3>1
    <3> QED
      BY <1>10, <2>1, <3>1, <3>2
  <2>2. Used(t.submittedBy)
    <3>1. Used(outbox.submittedBy) /\ Used(connection) /\ Used(None)
      BY <1>2 DEF ConnectionInv, Used
    <3> QED
      BY <3>1
  <2>3. /\ accepted # None => t.submittedBy < accepted
        /\ \A k \in {accepted, connection} : k # None => t.submittedBy <= k
    <3>1. accepted \in NoneOr(Connections) /\ connection \in NoneOr(Connections)
      BY <1>2 DEF ClientTypeOK
    <3>2. \A k \in NoneOr(Connections) : k # None => 0 < k /\ k <= k /\ 0 <= k
      BY NoneConnection DEF NoneOr, None
    <3>3. /\ accepted # None => outbox.submittedBy < accepted
          /\ \A k \in {accepted, connection} : k # None => outbox.submittedBy <= k
      BY <1>2 DEF ConnectionInv
    <3>4. CASE t.submittedBy = outbox.submittedBy
      BY <3>3, <3>4
    <3>5. CASE t.submittedBy # outbox.submittedBy /\ c = None
      BY <3>1, <3>2, <3>5 DEF None
    <3>6. CASE t.submittedBy # outbox.submittedBy /\ c # None
      <4>1. c = connection /\ t.submittedBy = c /\ c \in Connections
        BY <3>1, <3>6 DEF NoneOr
      <4>2. accepted = None
        BY <1>6, <4>1
      <4>3. t.submittedBy <= connection
        BY <3>1, <3>2, <3>6, <4>1
      <4> QED
        BY <4>2, <4>3
    <3> QED
      BY <3>4, <3>5, <3>6
  <2>4. \A k \in {accepted, connection, clientId, replayedFor} : Used(k)
    BY <1>2 DEF ConnectionInv
  <2> QED
    BY <1>2, <1>3, <2>1, <2>2, <2>3, <2>4 DEF ConnectionInv, Used
<1>14. InboundInv'
  BY <1>2, <1>10 DEF InboundInv
<1>15. Flow(log, lastProcessed, raw, clientId, outbox, edits, refused)'
  BY <1>4
<1>16. PhaseInv'
  <2>1. \A k \in {accepted, connection} : k # None /\ state # "Connected" => Barrier(log, raw', k)
    BY <1>1, <1>2 DEF PhaseInv, sends
  <2>2. ASSUME attempt = "read" \/ \E k \in {accepted, connection} : k # None /\ mode[k] = "read"
        PROVE  NothingUnderway(log, lastProcessed, raw')
    <3>1. NothingUnderway(log, lastProcessed, raw)
      BY <1>2, <2>2 DEF PhaseInv
    <3>2. ~sends
      BY <1>6, <1>9, <2>2
    <3>3. raw' = raw
      BY <1>1, <3>2 DEF SentOn
    <3> QED
      BY <3>1, <3>3
  <2>3. (Live(log, refused, clientId) /\ state = "Connected" /\ mode[clientId] = "write"
            /\ clientId \in open) => 1 .. edits' \subseteq OpsIn(log) \cup OpsOf(raw')
    BY <1>1 DEF sends
  <2>4. ~attached => t.states = <<>> /\ t.mode = "Automatic" /\ edits' = 0
    BY <1>2 DEF PhaseInv
  <2> QED
    BY <1>2, <1>3, <2>1, <2>2, <2>3, <2>4 DEF PhaseInv
<1> QED
  BY <1>2, <1>12, <1>13, <1>14, <1>15, <1>16 DEF ClientInv, AssertionsHold

LEMMA UpdateReferenceKeeps == ClientInv /\ UpdateReference => ClientInv'
<1> SUFFICES ASSUME ClientInv, UpdateReference PROVE ClientInv'
  OBVIOUS
<1> DEFINE t == SubmitDelta(outbox, connection, "noop", NoOp, FALSE, "none")
           sends == connection \in open /\ mode[connection] = "write"
<1>1. /\ connection # None /\ mode[connection] = "write" /\ others' = others + 1
      /\ Send(connection, t, socket)
      /\ UNCHANGED <<log, open, mode, refused, attempt, accepted, connection, attached, inbox,
                     lastProcessed, state, pendingClientId, clientId, inQuorum, replayedFor,
                     closed, edits, faults>>
  BY DEF UpdateReference, Active, container
<1>2. ClientTypeOK /\ ConnectionInv /\ PhaseInv
      /\ Flow(log, lastProcessed, raw, clientId, outbox, edits, refused)
  BY DEF ClientInv
<1>3. connection \in Connections /\ outbox.submittedBy <= connection
  BY <1>1, <1>2 DEF ClientTypeOK, NoneOr, ConnectionInv
<1>4. sends \in BOOLEAN
  OBVIOUS
<1> HIDE DEF sends
<1>5. /\ Flow(log, lastProcessed, SentOn(sends, raw, t.batches), clientId, Cleared(t), edits,
              refused)
      /\ OwnOf(SentOn(sends, raw, t.batches)) = OwnOf(raw)
      /\ OpsOf(SentOn(sends, raw, t.batches)) = OpsOf(raw)
      /\ t \in Outboxes /\ t.submittedBy = connection /\ t.states = outbox.states
      /\ t.mode = outbox.mode
      /\ t.batches = <<<<Message("noop", connection, t.csn, NoOp, "none")>>>>
  <2>1. Referenced(log, lastProcessed, raw, SentOn(sends, raw, t.batches), clientId, outbox, t,
                   edits, refused, connection)
    BY <1>2, <1>3, <1>4, FlowReference
  <2> HIDE DEF t
  <2> QED
    BY <2>1 DEF Referenced
<1> HIDE DEF t
<1> DEFINE m == Message("noop", connection, t.csn, NoOp, "none")
<1>6. m.client = connection /\ m.type = "noop"
  BY DEF Message
<1> HIDE DEF m
<1>7. \A p \in DOMAIN t.batches : t.batches[p][1].client = connection
  <2>1. t.batches = <<<<m>>>>
    BY <1>5 DEF m
  <2>2. DOMAIN <<<<m>>>> = {1} /\ <<<<m>>>>[1] = <<m>> /\ <<m>>[1] = m
    OBVIOUS
  <2> QED
    BY <1>6, <2>1, <2>2
<1>8. ASSUME NEW k, Barrier(log, raw, k) PROVE Barrier(log, SentOn(sends, raw, t.batches), k)
  <2>1. CASE sends
    <3>1. SentOn(sends, raw, t.batches) = raw \o <<<<m>>>> /\ raw \in Seq(Batches)
      BY <1>2, <1>5, <2>1 DEF SentOn, m, Flow
    <3> DEFINE A == raw \o <<<<m>>>>
    <3>2. \A p \in DOMAIN A : (p \in DOMAIN raw /\ A[p] = raw[p]) \/ A[p] = <<m>>
      <4>1. <<m>> \in Batches
        <5>1. t.batches \in Seq(Batches) /\ t.batches = <<<<m>>>>
          BY <1>5 DEF Outboxes, m
        <5>2. 1 \in DOMAIN t.batches /\ t.batches[1] = <<m>>
          BY <5>1
        <5> QED
          BY <5>1, <5>2
      <4> HIDE DEF m
      <4> QED
        BY <3>1, <4>1
    <3>3. <<m>> # <<Join(k)>>
      <4>1. <<m>>[1].type = "noop" /\ <<Join(k)>>[1].type = "join"
        BY <1>6 DEF Join, Message
      <4> QED
        BY <4>1
    <3>4. \A p \in DOMAIN A : A[p] = <<Join(k)>> => p \in DOMAIN raw /\ raw[p] = <<Join(k)>>
      BY <3>2, <3>3
    <3>5. OwnOf(A) = OwnOf(raw)
      BY <1>5, <3>1
    <3> HIDE DEF A
    <3>6. Barrier(log, A, k)
      BY <1>8, <3>4, <3>5 DEF Barrier
    <3> QED
      BY <3>1, <3>6 DEF A
  <2>2. CASE ~sends
    BY <1>8, <2>2 DEF SentOn
  <2> QED
    BY <2>1, <2>2
<1>9. (Live(log, refused, clientId) /\ state = "Connected" /\ mode[clientId] = "write"
            /\ clientId \in open) => 1 .. edits \subseteq OpsIn(log) \cup OpsOf(raw)
  BY <1>2 DEF PhaseInv
<1>10. outbox.mode = "Manual" /\ state = "Connected" =>
            t.states = <<>> \/ Marker(t.states[Len(t.states)])
  BY <1>2, <1>5 DEF PhaseInv
<1>11. others' \in Nat
  BY <1>1, <1>2 DEF ClientTypeOK
<1>12. Send(connection, t, socket)
  BY <1>1 DEF t
<1>13. (Live(log, refused, clientId) /\ state = "Connected" /\ mode[clientId] = "write"
            /\ clientId \in open) =>
            1 .. edits \subseteq OpsIn(log) \cup OpsOf(SentOn(sends, raw, t.batches))
  BY <1>5, <1>9
<1> QED
  BY <1>1, <1>5, <1>7, <1>8, <1>10, <1>11, <1>12, <1>13, SentKeeps DEF sends

(* The connection on which the client can send. *)
LEMMA CanSendOn ==
    ASSUME ClientInv
    PROVE  /\ CanSend \in {None, connection} /\ CanSend \in NoneOr(Connections)
           /\ CanSend # None => /\ state = "Connected" /\ CanSend = connection
                                /\ CanSend = clientId /\ outbox.submittedBy <= CanSend
           /\ state = "Connected" => CanSend # None
           /\ CanSend # None /\ mode[CanSend] = "write" => Joined(log, lastProcessed, CanSend)
           /\ Submittable(outbox, CanSend) /\ edits \in Nat
           /\ \A o \in MessageOps(outbox.states) : o <= edits
<1>1. ClientTypeOK /\ ConnectionInv /\ PhaseInv
      /\ Flow(log, lastProcessed, raw, clientId, outbox, edits, refused)
  BY DEF ClientInv
<1>2. CanSend \in {None, connection} /\ CanSend \in NoneOr(Connections)
  BY <1>1 DEF CanSend, ClientTypeOK, NoneOr
<1>3. CanSend # None => state = "Connected" /\ CanSend = connection
  BY DEF CanSend
<1>4. CanSend # None => CanSend = clientId /\ outbox.submittedBy <= CanSend
  BY <1>1, <1>3 DEF ConnectionInv
<1>5. state = "Connected" => CanSend # None
  BY <1>1 DEF ConnectionInv, CanSend
<1>6. CanSend # None /\ mode[CanSend] = "write" => Joined(log, lastProcessed, CanSend)
  BY <1>1, <1>3 DEF PhaseInv
<1>7. Submittable(outbox, CanSend)
  <2>1. CanSend # None /\ outbox.mode = "Manual" =>
            IF outbox.states = <<>> THEN outbox.begun = NoBatch
            ELSE Marker(outbox.states[Len(outbox.states)])
    BY <1>1, <1>3 DEF PhaseInv, Flow
  <2> QED
    BY <1>1, <1>2, <2>1 DEF Submittable, Flow
<1>8. edits \in Nat /\ \A o \in MessageOps(outbox.states) : o <= edits
  <2>1. MessageOps(outbox.states) \subseteq 1 .. edits /\ edits \in Nat
    BY <1>1 DEF Flow
  <2> QED
    BY <2>1
<1> QED
  BY <1>2, <1>3, <1>4, <1>5, <1>6, <1>7, <1>8

LEMMA HandedClient ==
    ASSUME NEW b0, NEW t, NEW O, NEW W, NEW c, TurnResult(b0, t, O, W, c)
    PROVE  \A p \in DOMAIN t.batches : t.batches[p][1].client = c
<1>1. /\ t.batches \in Seq(Batches)
      /\ \A p \in DOMAIN t.batches : \A j \in DOMAIN t.batches[p] : t.batches[p][j].client = c
  BY DEF TurnResult, Turning, HandedOn, Outboxes
<1>2. ASSUME NEW p \in DOMAIN t.batches PROVE 1 \in DOMAIN t.batches[p]
  <2>1. t.batches[p] \in Batches
    BY <1>1
  <2>2. t.batches[p] \in Seq(Messages) /\ t.batches[p] # <<>>
    BY <2>1 DEF Batches
  <2> QED
    BY <2>2
<1> QED
  BY <1>1, <1>2

LEMMA LocalTurnKeeps ==
    ASSUME ClientInv, NEW t, NEW m \in Nat, Local(t), edits' = edits + m,
           TurnResult(outbox, t, MessageOps(outbox.states) \cup (edits + 1 .. edits + m),
                      SentWithAll({}, CanSend, edits, m), CanSend),
           Kept(outbox.states, t.states, outbox.begun)
    PROVE  ClientInv'
<1> DEFINE c == CanSend
           sends == c \in open /\ mode[c] = "write"
<1>1. /\ attached /\ Send(c, t, socket)
      /\ UNCHANGED <<log, open, mode, refused, attempt, accepted, connection, attached, inbox,
                     lastProcessed, state, pendingClientId, clientId, inQuorum, replayedFor,
                     closed, faults>>
      /\ UNCHANGED others
  BY DEF Local, container
<1>2. ClientTypeOK /\ ConnectionInv /\ PhaseInv
      /\ Flow(log, lastProcessed, raw, clientId, outbox, edits, refused)
  BY DEF ClientInv
<1>3. /\ c \in {None, connection} /\ c \in NoneOr(Connections)
      /\ c # None => /\ state = "Connected" /\ c = connection
                     /\ c = clientId /\ outbox.submittedBy <= c
      /\ state = "Connected" => c # None
      /\ c # None /\ mode[c] = "write" => Joined(log, lastProcessed, c)
  BY CanSendOn
<1> HIDE DEF c
<1>4. TurnResult(outbox, t, MessageOps(outbox.states) \cup (edits + 1 .. edits + m),
                 SentWithAll({}, c, edits, m), c)
  BY DEF c
<1>5. /\ t \in Outboxes /\ t.mode = outbox.mode
      /\ t.submittedBy = outbox.submittedBy \/ (c # None /\ t.submittedBy = c)
      /\ c # None /\ t.mode = "Manual" => t.states = <<>> \/ Marker(t.states[Len(t.states)])
  BY <1>4, TurnEnds
<1>6. \A p \in DOMAIN t.batches : t.batches[p][1].client = c
  BY <1>4, HandedClient
<1>7. sends => c # None /\ Joined(log, lastProcessed, c)
  BY <1>2, <1>3, NoneConnection DEF ClientTypeOK
<1>8. sends /\ Live(log, refused, clientId) => 1 .. edits \subseteq OpsIn(log) \cup OpsOf(raw)
  BY <1>2, <1>3, <1>7 DEF PhaseInv
<1>9. c # None => c = clientId /\ outbox.submittedBy <= c
  BY <1>3
<1>10. sends \in BOOLEAN
  OBVIOUS
<1> HIDE DEF sends
<1>11. /\ Flow(log, lastProcessed, SentOn(sends, raw, t.batches), clientId, Cleared(t), edits + m,
               refused)
       /\ sends /\ Live(log, refused, clientId) =>
            1 .. edits + m \subseteq OpsIn(log) \cup OpsOf(SentOn(sends, raw, t.batches))
  BY <1>2, <1>4, <1>7, <1>8, <1>9, <1>10, FlowSubmitted
<1>12. (Live(log, refused, clientId) /\ state = "Connected" /\ mode[clientId] = "write"
            /\ clientId \in open) =>
            1 .. edits' \subseteq OpsIn(log) \cup OpsOf(SentOn(sends, raw, t.batches))
  BY <1>3, <1>11 DEF sends
<1>13. outbox.mode = "Manual" /\ state = "Connected" =>
            t.states = <<>> \/ Marker(t.states[Len(t.states)])
  BY <1>3, <1>5
<1>14. state = "Connected" \/ \A k : Barrier(log, raw, k) =>
            Barrier(log, SentOn(sends, raw, t.batches), k)
  <2>1. ASSUME state # "Connected" PROVE SentOn(sends, raw, t.batches) = raw
    BY <1>3, <1>7, <2>1 DEF SentOn
  <2> QED
    BY <2>1
<1>15. others' \in Nat /\ t.submittedBy \in {outbox.submittedBy, c}
  BY <1>1, <1>2, <1>5 DEF ClientTypeOK
<1>16. Flow(log, lastProcessed, SentOn(sends, raw, t.batches), clientId, Cleared(t), edits',
            refused)
  BY <1>11
<1> QED
  BY <1>1, <1>3, <1>5, <1>6, <1>12, <1>13, <1>14, <1>15, <1>16, SentKeeps DEF sends

LEMMA ApplicationKeeps == ClientInv /\ Application => ClientInv'
<1> SUFFICES ASSUME ClientInv, Application PROVE ClientInv'
  OBVIOUS
<1>1. /\ Submittable(outbox, CanSend) /\ edits \in Nat
      /\ \A o \in MessageOps(outbox.states) : o <= edits
  BY CanSendOn
<1>2. 1 .. 2 = {1, 2}
  OBVIOUS
<1>3. ASSUME NEW n \in {1, 2}, Turn(n) PROVE ClientInv'
  <2>1. Local(EndOfTurn(SubmitNew(outbox, n))) /\ edits' = edits + n
    BY <1>3 DEF Turn, Edit
  <2> DEFINE t == EndOfTurn(SubmitNew(outbox, n))
  <2>2. /\ TurnResult(outbox, t, MessageOps(outbox.states) \cup (edits + 1 .. edits + n),
                      SentWithAll({}, CanSend, edits, n), CanSend)
        /\ Kept(outbox.states, t.states, outbox.begun)
    BY <1>1, TurnOfApplication
  <2>3. Local(t) /\ n \in Nat
    BY <2>1
  <2> HIDE DEF t
  <2> QED
    BY <2>1, <2>2, <2>3, LocalTurnKeeps
<1>4. ASSUME NEW n \in {1, 2}, OrderSequentially(n) PROVE ClientInv'
  <2> DEFINE t == SetFlushMode(Flush(SubmitNew(SetFlushMode(outbox, "Manual"), n)), "Automatic")
  <2>1. Local(t) /\ edits' = edits + n /\ outbox.mode = "Automatic" /\ n \in Nat
    BY <1>4 DEF OrderSequentially, Edit
  <2>2. /\ TurnResult(outbox, t, MessageOps(outbox.states) \cup (edits + 1 .. edits + n),
                      SentWithAll({}, CanSend, edits, n), CanSend)
        /\ Kept(outbox.states, t.states, outbox.begun)
    BY <1>1, <2>1, OrderSequentiallyTurn
  <2> HIDE DEF t
  <2> QED
    BY <2>1, <2>2, LocalTurnKeeps
<1>5. ASSUME FlushManually PROVE ClientInv'
  <2> DEFINE t == Flush(outbox)
  <2>1. t # outbox /\ Local(t) /\ edits' = edits
    BY <1>5 DEF FlushManually
  <2>2. TurnResult(outbox, t, MessageOps(outbox.states), {}, CanSend)
        /\ Kept(outbox.states, t.states, outbox.begun)
    BY <1>1, <2>1, FlushManuallyTurn
  <2> HIDE DEF t
  <2>3. edits + 1 .. edits + 0 = {} /\ 0 \in Nat /\ edits' = edits + 0
    BY <1>1, <2>1
  <2>4. MessageOps(outbox.states) \cup (edits + 1 .. edits + 0) = MessageOps(outbox.states)
    BY <2>3
  <2>5. SentWithAll({}, CanSend, edits, 0) = {}
    BY <2>3 DEF SentWithAll
  <2>6. TurnResult(outbox, t, MessageOps(outbox.states) \cup (edits + 1 .. edits + 0),
                   SentWithAll({}, CanSend, edits, 0), CanSend)
    BY <2>2, <2>4, <2>5
  <2> QED
    BY <2>1, <2>2, <2>3, <2>6, LocalTurnKeeps
<1> QED
  BY <1>2, <1>3, <1>4, <1>5 DEF Application

LEMMA ReplayedClient ==
    ASSUME NEW order, NEW n, NEW sent, NEW k, NEW box, NEW e, NEW out,
           Flow(order, n, sent, k, box, e, out), NothingUnderway(order, n, sent), k \in Connections
    PROVE  \A p \in DOMAIN Replay(box, k).batches : Replay(box, k).batches[p][1].client = k
<1> DEFINE t == Replay(box, k)
           O == MessageOps(box.states)
<1>1. box.begun = NoBatch
  BY NoneUnderway
<1>2. Replayable(box, k)
  <2>1. /\ box \in Outboxes /\ Grammar(box.states, box.begun, box.mode, box.mode)
        /\ Increasing(box.states) /\ box.buffer = <<>> /\ box.batches = <<>> /\ ~box.needsFlush
    BY DEF Flow
  <2> QED
    BY <1>1, <2>1 DEF Replayable
<1>3. TurnResult(box, t, O, O, k)
  BY <1>2, ReplayResult
<1> HIDE DEF t, O
<1>4. \A p \in DOMAIN t.batches : t.batches[p][1].client = k
  BY <1>3, HandedClient
<1> QED
  BY <1>4 DEF t

LEMMA SentClients ==
    ASSUME NEW sent \in Seq(Batches), NEW B \in Seq(Batches), NEW c,
           \A p \in DOMAIN B : B[p][1].client = c
    PROVE  LET A == sent \o B IN
           \A p \in DOMAIN A : (\E q \in DOMAIN sent : A[p] = sent[q]) \/ A[p][1].client = c
<1> DEFINE A == sent \o B
<1> SUFFICES ASSUME NEW p \in DOMAIN A
             PROVE  (\E q \in DOMAIN sent : A[p] = sent[q]) \/ A[p][1].client = c
  OBVIOUS
<1>1. p \in 1 .. Len(sent) + Len(B) /\ Len(sent) \in Nat /\ Len(B) \in Nat
  OBVIOUS
<1>2. CASE p <= Len(sent)
  BY <1>1, <1>2
<1>3. CASE p > Len(sent)
  <2>1. p - Len(sent) \in DOMAIN B
    BY <1>1, <1>3
  <2>2. A[p] = B[p - Len(sent)]
    BY <1>1, <1>3
  <2> QED
    BY <2>1, <2>2
<1> QED
  BY <1>1, <1>2, <1>3

(* The client is connected as k, and the runtime has replayed. *)
ConnectedAs(n, k, box, sockets) ==
    /\ state' = "Connected" /\ clientId' = k /\ inQuorum' = TRUE /\ closed' = FALSE
    /\ replayedFor' \in {replayedFor, k}
    /\ Flow(log, n, raw', k, outbox', edits, refused)
    /\ outbox'.submittedBy \in {box.submittedBy, k}
    /\ raw' = raw \/ (k \in open /\ mode[k] = "write")
    /\ \A p \in DOMAIN raw' : (\E q \in DOMAIN raw : raw'[p] = raw[q]) \/ raw'[p][1].client = k
    /\ k \in open /\ mode[k] = "write" /\ Live(log, refused, k) =>
            1 .. edits \subseteq OpsIn(log) \cup OpsOf(raw')
    /\ outbox'.mode = "Manual" =>
            outbox'.states = <<>> \/ Marker(outbox'.states[Len(outbox'.states)])
    /\ ~attached => outbox'.states = <<>> /\ outbox'.mode = "Automatic" /\ edits = 0
    /\ socket' = sockets \/ (mode[k] = "read" /\ socket' = [sockets EXCEPT ![k] = Append(@, Nack)])

LEMMA Connects ==
    ASSUME ClientTypeOK, ~closed, NEW n, NEW k \in Connections, NEW box, NEW sockets,
           Flow(log, n, raw, clientId, box, edits, refused), NothingUnderway(log, n, raw),
           box.submittedBy <= k, mode[k] = "write" => Joined(log, n, k), replayedFor # k,
           ~attached => box.states = <<>> /\ box.mode = "Automatic" /\ edits = 0,
           BecomeConnected(k, box, sockets)
    PROVE  ConnectedAs(n, k, box, sockets)
<1>1. Flow(log, n, raw, k, box, edits, refused)
  <2>1. k \in NoneOr(Connections)
    BY DEF NoneOr
  <2> QED
    BY <2>1, FlowRenamed
<1>2. state' = "Connected" /\ clientId' = k /\ inQuorum' = TRUE
  BY DEF BecomeConnected
<1>3. raw \in Seq(Batches) /\ box \in Outboxes /\ box.batches = <<>>
  BY <1>1 DEF Flow
<1>4. CASE attached
  <2> DEFINE t == Replay(box, k)
             sends == k \in open /\ mode[k] = "write"
  <2>1. /\ Send(k, t, sockets) /\ replayedFor' = k /\ closed' = (replayedFor = k)
    BY <1>4 DEF BecomeConnected
  <2>2. /\ outbox' = Cleared(t) /\ raw' = SentOn(sends, raw, t.batches)
        /\ socket' = IF k \in open /\ mode[k] = "read" /\ t.batches # <<>>
                     THEN [sockets EXCEPT ![k] = Append(@, Nack)] ELSE sockets
    BY <2>1 DEF Send, SentOn, Cleared
  <2>3. sends \in BOOLEAN /\ (sends => Joined(log, n, k))
    OBVIOUS
  <2>4. \A p \in DOMAIN t.batches : t.batches[p][1].client = k
    BY <1>1, ReplayedClient
  <2> HIDE DEF sends
  <2>5. /\ Flow(log, n, SentOn(sends, raw, t.batches), k, Cleared(t), edits, refused)
        /\ sends /\ Live(log, refused, k) =>
              1 .. edits \subseteq OpsIn(log) \cup OpsOf(SentOn(sends, raw, t.batches))
        /\ t \in Outboxes /\ t.mode = box.mode
        /\ t.submittedBy = box.submittedBy \/ t.submittedBy = k
        /\ t.mode = "Manual" => t.states = <<>> \/ Marker(t.states[Len(t.states)])
    BY <1>1, <2>3, FlowReplayed
  <2> HIDE DEF t
  <2>6. /\ outbox'.submittedBy = t.submittedBy /\ outbox'.mode = t.mode /\ outbox'.states = t.states
    BY <2>2, <2>5, ClearedFields
  <2>7. \A p \in DOMAIN raw' : (\E q \in DOMAIN raw : raw'[p] = raw[q]) \/ raw'[p][1].client = k
    <3>1. t.batches \in Seq(Batches)
      BY <2>5 DEF Outboxes
    <3>2. CASE sends
      <4>1. raw' = raw \o t.batches
        BY <2>2, <3>2 DEF SentOn
      <4> QED
        BY <1>3, <2>4, <3>1, <4>1, SentClients
    <3>3. CASE ~sends
      <4>1. raw' = raw
        BY <2>2, <3>3 DEF SentOn
      <4> QED
        BY <4>1
    <3> QED
      BY <3>2, <3>3
  <2>8. raw' = raw \/ (k \in open /\ mode[k] = "write")
    BY <2>2 DEF SentOn, sends
  <2>9. socket' = sockets \/ (mode[k] = "read" /\ socket' = [sockets EXCEPT ![k] = Append(@, Nack)])
    BY <2>2
  <2>10. Flow(log, n, raw', k, outbox', edits, refused)
    BY <2>2, <2>5
  <2>11. k \in open /\ mode[k] = "write" /\ Live(log, refused, k) =>
            1 .. edits \subseteq OpsIn(log) \cup OpsOf(raw')
    BY <2>2, <2>5 DEF sends
  <2>12. closed' = FALSE
    BY <2>1
  <2> QED
    BY <1>2, <1>4, <2>1, <2>5, <2>6, <2>7, <2>8, <2>9, <2>10, <2>11, <2>12 DEF ConnectedAs
<1>5. CASE ~attached
  <2>1. Send(None, box, sockets) /\ UNCHANGED <<replayedFor, closed>>
    BY <1>5 DEF BecomeConnected
  <2>2. None \notin open
    BY NoneConnection DEF ClientTypeOK
  <2>3. outbox' = Cleared(box) /\ raw' = raw /\ socket' = sockets
    BY <2>1, <2>2 DEF Send, Cleared
  <2>4. Cleared(box) = box
    BY <1>3 DEF Cleared, Outboxes
  <2>5. closed' = FALSE /\ edits = 0 /\ 1 .. 0 = {}
    BY <1>5, <2>1 DEF ClientTypeOK
  <2>6. \A p \in DOMAIN raw : \E q \in DOMAIN raw : raw[p] = raw[q]
    OBVIOUS
  <2>7. outbox' = box
    BY <2>3, <2>4
  <2> QED
    BY <1>1, <1>2, <1>5, <2>1, <2>3, <2>5, <2>6, <2>7 DEF ConnectedAs
<1> QED
  BY <1>4, <1>5

LEMMA FetchMissingQueue ==
    ASSUME NEW box, NEW n, NEW last, Queue(box, n, last)
    PROVE  LET t == FetchMissing(box, box.queued, Undefined) IN
           Queue(t, n, last) /\ t.pending = box.pending /\ (Beyond(box) => Beyond(t))
<1> DEFINE t == FetchMissing(box, box.queued, Undefined)
<1>1. box \in Inboxes /\ box.queued \in Nat /\ Undefined \in Nat /\ box.queued \in Int
  BY DEF Queue, Inboxes, Undefined
<1>2. /\ t \in Inboxes /\ t.queued = box.queued /\ t.inbound = box.inbound
      /\ t.pending = box.pending /\ (t.fetch = box.fetch \/ t.fetch.from = box.queued)
  BY <1>1, FetchMissingFields
<1> HIDE DEF t
<1>3. t.fetch # Idle => t.fetch.from \in 0 .. t.queued
  <2>1. box.fetch # Idle => box.fetch.from \in 0 .. box.queued
    BY DEF Queue
  <2>2. box.queued \in 0 .. box.queued
    BY <1>1
  <2> QED
    BY <1>2, <2>1, <2>2
<1>4. Queue(t, n, last)
  BY <1>2, <1>3 DEF Queue
<1>5. Beyond(box) => Beyond(t)
  BY <1>2 DEF Beyond
<1> QED
  BY <1>2, <1>4, <1>5 DEF t

(* What the client does with its messages when a connection is set up. *)
SetUp(box, set, isAttached, reads) ==
    IF ~isAttached THEN Aside(box, set)
    ELSE IF set # {} THEN CatchUp(box, set)
    ELSE IF reads THEN FetchMissing(box, box.queued, Undefined)
    ELSE box
SetUpWell(box, set, isAttached, t, n, last) ==
    /\ Queue(t, n, last) /\ (isAttached => Beyond(t))
    /\ \A p \in t.pending : p \in box.pending \/ p \in set
    /\ ~isAttached => t.inbound = box.inbound /\ t.fetch = box.fetch

LEMMA SetUpAside ==
    ASSUME NEW box, NEW n, NEW last, Queue(box, n, last), NEW set, set \subseteq 1 .. last
    PROVE  SetUpWell(box, set, FALSE, Aside(box, set), n, last)
<1>1. PutAside(box, set, Aside(box, set), n, last)
  BY AsideQueue
<1> QED
  BY <1>1 DEF PutAside, SetUpWell

LEMMA SetUpQueue ==
    ASSUME NEW box, NEW n, NEW last, Queue(box, n, last), NEW set, set \subseteq 1 .. last,
           NEW isAttached \in BOOLEAN, isAttached => Beyond(box), NEW reads \in BOOLEAN
    PROVE  SetUpWell(box, set, isAttached, SetUp(box, set, isAttached, reads), n, last)
<1>1. CASE ~isAttached
  <2>1. SetUp(box, set, isAttached, reads) = Aside(box, set) /\ isAttached = FALSE
    BY <1>1 DEF SetUp
  <2>2. SetUpWell(box, set, FALSE, Aside(box, set), n, last)
    BY SetUpAside
  <2> QED
    BY <2>1, <2>2
<1>2. CASE isAttached /\ set # {}
  <2>1. SetUp(box, set, isAttached, reads) = CatchUp(box, set)
    BY <1>2 DEF SetUp
  <2>2. CaughtUp(box, set, CatchUp(box, set), n, last)
    BY CatchUpQueue
  <2>3. SetUpWell(box, set, isAttached, CatchUp(box, set), n, last)
    BY <1>2, <2>2 DEF CaughtUp, SetUpWell
  <2> QED
    BY <2>1, <2>3
<1>3. CASE isAttached /\ set = {} /\ reads
  <2> DEFINE t == FetchMissing(box, box.queued, Undefined)
  <2>1. SetUp(box, set, isAttached, reads) = t
    BY <1>3 DEF SetUp
  <2>2. Queue(t, n, last) /\ t.pending = box.pending /\ Beyond(t)
    BY <1>3, FetchMissingQueue
  <2> HIDE DEF t
  <2>3. SetUpWell(box, set, isAttached, t, n, last)
    BY <1>3, <2>2 DEF SetUpWell
  <2> QED
    BY <2>1, <2>3
<1>4. CASE isAttached /\ set = {} /\ ~reads
  <2>1. SetUp(box, set, isAttached, reads) = box
    BY <1>4 DEF SetUp
  <2>2. SetUpWell(box, set, isAttached, box, n, last)
    BY <1>4 DEF SetUpWell
  <2> QED
    BY <2>1, <2>2
<1> QED
  BY <1>1, <1>2, <1>3, <1>4

LEMMA SetupKeeps == ClientInv /\ Setup => ClientInv'
<1> SUFFICES ASSUME ClientInv, Setup PROVE ClientInv'
  OBVIOUS
<1> DEFINE k == accepted
           q == socket[k]
<1>1. /\ k # None /\ ~closed /\ accepted' = None /\ attempt' = "none"
      /\ connection' = k /\ pendingClientId' = k
      /\ UNCHANGED <<log, open, mode, refused, attached, lastProcessed, edits, others, faults>>
  BY DEF Setup, bounds
<1>2. PICK n \in 0 .. Len(q) :
        LET initial == {q[i] : i \in 1 .. n}
            sockets == [socket EXCEPT ![k] = SubSeq(@, n + 1, Len(@))]
        IN /\ IF ConnectedAtOnce(k) THEN BecomeConnected(k, outbox, sockets)
              ELSE /\ state' = "Connecting" /\ socket' = sockets
                   /\ UNCHANGED <<clientId, inQuorum, raw, outbox, replayedFor, closed>>
           /\ inbox' = IF ~attached THEN [inbox EXCEPT !.pending = @ \cup initial]
                       ELSE IF n > 0 THEN CatchUp(inbox, initial)
                       ELSE IF mode[k] = "read" THEN FetchMissing(inbox, inbox.queued, Undefined)
                       ELSE inbox
  BY DEF Setup
<1> DEFINE initial == {q[i] : i \in 1 .. n}
           sockets == [socket EXCEPT ![k] = SubSeq(@, n + 1, Len(@))]
           rest == SubSeq(q, n + 1, Len(q))
<1>3. ClientTypeOK /\ ConnectionInv /\ InboundInv /\ PhaseInv /\ AssertionsHold
      /\ Flow(log, lastProcessed, raw, clientId, outbox, edits, refused)
  BY DEF ClientInv
<1>4. k \in Connections
  BY <1>1, <1>3 DEF ClientTypeOK, NoneOr
<1>5. /\ connection = None /\ state = "Disconnected" /\ replayedFor <= clientId /\ clientId < k
      /\ outbox.submittedBy <= k
  BY <1>1, <1>3 DEF ConnectionInv
<1>6. mode[k] = "read" \/ mode[k] = "write"
  <2>1. mode[k] # "none" /\ mode[k] \in {"none", "read", "write"}
    BY <1>1, <1>3, <1>4 DEF ConnectionInv, Used, ClientTypeOK
  <2> QED
    BY <2>1
<1>7. replayedFor < k /\ replayedFor # k
  <2>1. replayedFor \in Nat /\ clientId \in Nat /\ k \in Nat
    BY <1>3, <1>4, NoneConnection DEF ClientTypeOK, NoneOr
  <2> QED
    BY <1>5, <2>1
<1>8. q \in Seq(Nat) /\ Rising(q, Len(log), inbox.pending) /\ \A i \in DOMAIN q : q[i] # Nack
  BY <1>3, <1>4 DEF InboundInv, ClientTypeOK
<1>9. rest \in Seq(Nat) /\ Len(rest) = Len(q) - n /\ \A i \in 1 .. Len(q) - n : rest[i] = q[n + i]
  BY <1>8
<1>10. initial \subseteq 1 .. Len(log) /\ (n > 0 <=> initial # {})
  <2>1. \A i \in 1 .. n : i \in DOMAIN q
    BY <1>8
  <2>2. \A i \in DOMAIN q : q[i] \in 1 .. Len(log)
    BY <1>8 DEF Rising
  <2>3. n > 0 => 1 \in 1 .. n
    BY <1>8
  <2>4. ~(n > 0) => 1 .. n = {}
    BY <1>8
  <2> QED
    BY <2>1, <2>2, <2>3, <2>4
<1>11. \A x \in initial : \E i \in 1 .. n : x = q[i]
  OBVIOUS
<1>12. /\ sockets \in [Connections -> Seq(Nat)] /\ sockets[k] = rest
       /\ \A j \in Connections : j # k => sockets[j] = <<>>
  <2>1. socket \in [Connections -> Seq(Nat)]
    BY <1>3 DEF ClientTypeOK
  <2>2. \A j \in Connections : j # k => socket[j] = <<>>
    BY <1>3, <1>5, NoneConnection DEF InboundInv
  <2> HIDE DEF rest
  <2>3. sockets = [socket EXCEPT ![k] = rest]
    BY <1>4, <2>1 DEF rest
  <2> QED
    BY <1>4, <1>9, <2>1, <2>2, <2>3
<1>13. inbox' = SetUp(inbox, initial, attached, mode[k] = "read")
  <2>1. inbox' = IF ~attached THEN Aside(inbox, initial)
                 ELSE IF n > 0 THEN CatchUp(inbox, initial)
                 ELSE IF mode[k] = "read" THEN FetchMissing(inbox, inbox.queued, Undefined)
                 ELSE inbox
    BY <1>2 DEF Aside
  <2> HIDE DEF initial, k
  <2> QED
    BY <1>10, <2>1 DEF SetUp
<1>14. \/ mode[k] = "read" /\ BecomeConnected(k, outbox, sockets)
       \/ /\ mode[k] = "write" /\ state' = "Connecting" /\ socket' = sockets
          /\ UNCHANGED <<clientId, inQuorum, raw, outbox, replayedFor, closed>>
  BY <1>2, <1>6 DEF ConnectedAtOnce
<1> HIDE DEF initial, sockets, rest
<1>15. /\ Queue(inbox', lastProcessed, Len(log)) /\ (attached => Beyond(inbox'))
       /\ \A p \in inbox'.pending : p \in inbox.pending \/ p \in initial
       /\ ~attached => inbox'.inbound = inbox.inbound /\ inbox'.fetch = inbox.fetch
  <2>1. Queue(inbox, lastProcessed, Len(log)) /\ (attached => Beyond(inbox)) /\ attached \in BOOLEAN
    BY <1>3 DEF InboundInv, ClientTypeOK
  <2>2. (mode[k] = "read") \in BOOLEAN
    OBVIOUS
  <2> HIDE DEF k
  <2>3. initial \subseteq 1 .. Len(log)
    BY <1>10
  <2>4. SetUpWell(inbox, initial, attached, SetUp(inbox, initial, attached, mode[k] = "read"),
                  lastProcessed, Len(log))
    BY <2>1, <2>2, <2>3, SetUpQueue
  <2>5. SetUpWell(inbox, initial, attached, inbox', lastProcessed, Len(log))
    BY <1>13, <2>4
  <2> QED
    BY <2>5 DEF SetUpWell
<1>16. Rising(rest, Len(log), inbox'.pending)
  <2>1. FirstOf(q, n, inbox'.pending, inbox.pending)
    BY <1>11, <1>15 DEF FirstOf
  <2>2. RestOf(q, n, rest)
    BY <1>8, <1>9 DEF RestOf
  <2>3. Rising(q, Len(log), inbox.pending)
    BY <1>8
  <2> HIDE DEF q, k
  <2> QED
    BY <2>1, <2>2, <2>3, RisingRest
<1>17. mode[k] = "read" => ConnectedAs(lastProcessed, k, outbox, sockets)
  <2> SUFFICES ASSUME mode[k] = "read" PROVE ConnectedAs(lastProcessed, k, outbox, sockets)
    OBVIOUS
  <2>1. NothingUnderway(log, lastProcessed, raw)
    BY <1>1, <1>3 DEF PhaseInv
  <2>2. ~attached => outbox.states = <<>> /\ outbox.mode = "Automatic" /\ edits = 0
    BY <1>3 DEF PhaseInv
  <2>3. BecomeConnected(k, outbox, sockets) /\ ~(mode[k] = "write")
    BY <1>14
  <2> HIDE DEF k
  <2> QED
    BY <1>1, <1>3, <1>4, <1>5, <1>7, <2>1, <2>2, <2>3, Connects
<1> HIDE DEF k, q
<1>18. /\ socket' \in [Connections -> Seq(Nat)]
       /\ \A j \in Connections : (j # k => socket'[j] = <<>>)
                                 /\ Rising(socket'[j], Len(log), inbox'.pending)
  <2>1. \A j \in Connections : Rising(sockets[j], Len(log), inbox'.pending)
    BY <1>12, <1>16, RisingEmpty
  <2>2. CASE socket' = sockets
    BY <1>12, <2>1, <2>2
  <2>3. CASE socket' # sockets
    <3>1. socket' = [sockets EXCEPT ![k] = Append(@, Nack)]
      BY <1>14, <1>17, <2>3 DEF ConnectedAs
    <3>2. Append(rest, Nack) \in Seq(Nat) /\ Rising(Append(rest, Nack), Len(log), inbox'.pending)
      BY <1>9, <1>16, RisingNacked
    <3>3. socket'[k] = Append(rest, Nack) /\ \A j \in Connections : j # k => socket'[j] = sockets[j]
      BY <1>4, <1>12, <3>1
    <3> QED
      BY <1>4, <1>12, <2>1, <3>1, <3>2, <3>3
  <2> QED
    BY <2>2, <2>3
<1>19. /\ raw' = raw /\ closed' = FALSE
       /\ Flow(log, lastProcessed, raw, clientId', outbox', edits, refused)
       /\ replayedFor' \in {replayedFor, k} /\ clientId' \in {clientId, k}
       /\ inQuorum' \in BOOLEAN
       /\ outbox'.submittedBy \in {outbox.submittedBy, k}
       /\ \/ state' = "Connected" /\ clientId' = k /\ mode[k] = "read"
          \/ /\ state' = "Connecting" /\ clientId' = clientId /\ mode[k] = "write"
             /\ replayedFor' = replayedFor
       /\ state' = "Connected" /\ outbox'.mode = "Manual" =>
            outbox'.states = <<>> \/ Marker(outbox'.states[Len(outbox'.states)])
       /\ ~attached => outbox'.states = <<>> /\ outbox'.mode = "Automatic" /\ edits = 0
  <2>1. CASE mode[k] = "read"
    <3>1. ConnectedAs(lastProcessed, k, outbox, sockets)
      BY <1>17, <2>1
    <3>2. raw' = raw
      BY <2>1, <3>1 DEF ConnectedAs
    <3>3. Flow(log, lastProcessed, raw, k, outbox', edits, refused)
      BY <3>1, <3>2 DEF ConnectedAs
    <3> QED
      BY <2>1, <3>1, <3>2, <3>3 DEF ConnectedAs
  <2>2. CASE mode[k] = "write"
    <3>1. /\ state' = "Connecting"
          /\ UNCHANGED <<clientId, inQuorum, raw, outbox, replayedFor, closed>>
      BY <1>14, <2>2
    <3>2. ~attached => outbox.states = <<>> /\ outbox.mode = "Automatic" /\ edits = 0
      BY <1>3 DEF PhaseInv
    <3>3. inQuorum \in BOOLEAN /\ closed = FALSE
      BY <1>1, <1>3 DEF ClientTypeOK
    <3>4. Flow(log, lastProcessed, raw, clientId', outbox', edits, refused)
      BY <1>3, <3>1
    <3> QED
      BY <2>2, <3>1, <3>2, <3>3, <3>4
  <2> QED
    BY <1>6, <2>1, <2>2
<1>20. ClientTypeOK'
  <2>1. outbox' \in Outboxes /\ inbox' \in Inboxes
    BY <1>15, <1>19 DEF Flow, Queue
  <2>2. /\ replayedFor' \in NoneOr(Connections) /\ clientId' \in NoneOr(Connections)
        /\ connection' \in NoneOr(Connections) /\ pendingClientId' \in NoneOr(Connections)
        /\ accepted' \in NoneOr(Connections)
    BY <1>1, <1>3, <1>4, <1>19 DEF ClientTypeOK, NoneOr
  <2>3. state' \in {"Disconnected", "Connecting", "Connected"} /\ closed' \in BOOLEAN
    BY <1>19
  <2> QED
    BY <1>1, <1>3, <1>18, <1>19, <2>1, <2>2, <2>3 DEF ClientTypeOK
<1>21. ConnectionInv'
  <2>1. ASSUME NEW j \in Connections, mode[j] = "none" PROVE socket'[j] = <<>>
    BY <1>6, <1>18, <2>1
  <2>2. Used(k) /\ Used(clientId) /\ Used(replayedFor) /\ Used(outbox.submittedBy) /\ Used(None)
    BY <1>3 DEF ConnectionInv, k, Used
  <2>3. \A j \in {accepted', connection', clientId', replayedFor', outbox'.submittedBy} : Used(j)
    BY <1>1, <1>19, <2>2
  <2>4. outbox'.submittedBy <= k /\ replayedFor' <= clientId'
    <3>1. k \in Nat /\ clientId \in Nat /\ replayedFor \in Nat
      BY <1>3, <1>4, NoneConnection DEF ClientTypeOK, NoneOr
    <3> QED
      BY <1>5, <1>7, <1>19, <3>1 DEF k
  <2>5. state' # "Connected" => clientId' < k
    BY <1>5, <1>19 DEF k
  <2> QED
    BY <1>1, <1>3, <1>19, <2>1, <2>3, <2>4, <2>5 DEF ConnectionInv, Used, k
<1>22. InboundInv'
  <2>1. \A j \in Connections : socket'[j] # <<>> => j \in {accepted', connection'}
    BY <1>1, <1>18 DEF k
  <2>2. \A j \in Connections : j # accepted'
    BY <1>1, NoneConnection
  <2> QED
    BY <1>1, <1>3, <1>15, <1>18, <2>1, <2>2 DEF InboundInv
<1>23. Flow(log, lastProcessed, raw, clientId, outbox, edits, refused)'
  BY <1>1, <1>19
<1>24. PhaseInv'
  <2>1. mode[k] = "write" => Barrier(log, raw, k)
    BY <1>1, <1>3, <1>5 DEF PhaseInv, k
  <2>2. mode[k] = "read" => NothingUnderway(log, lastProcessed, raw)
    BY <1>1, <1>3 DEF PhaseInv, k
  <2> QED
    BY <1>1, <1>19, <2>1, <2>2 DEF PhaseInv, k
<1> QED
  BY <1>19, <1>20, <1>21, <1>22, <1>23, <1>24 DEF ClientInv, AssertionsHold

(* What is acknowledged does not depend on what is observed. *)
LEMMA AcknowledgeableSame ==
    ASSUME NEW b, NEW box, NEW n, b.states = box.states, b.begun = box.begun, Acknowledgeable(b, n)
    PROVE  Acknowledgeable(box, n)
  BY DEF Acknowledgeable, StartsBatch, AfterBegin, AfterMessage, Begun, EndsBatch

(* The next message is an operation of the client. *)
LEMMA OwnProcessed ==
    ASSUME ClientInv, lastProcessed + 1 \in OwnIn(log)
    PROVE  LET n == lastProcessed + 1 IN
           /\ Processable(n)
           /\ Advanced(lastProcessed, raw, clientId, outbox, Acknowledged(n), edits, refused)
           /\ log[n].type = "op" /\ outbox.states # <<>>
<1> DEFINE n == lastProcessed + 1
           m == log[n]
           b == Observed(outbox, m)
<1>1. ClientTypeOK /\ ConnectionInv
      /\ Flow(log, lastProcessed, raw, clientId, outbox, edits, refused)
      /\ SentBy(log, lastProcessed, raw, clientId, outbox.submittedBy)
  BY DEF ClientInv, Flow
<1>2. /\ Acknowledgeable(b, n)
      /\ Advanced(lastProcessed, raw, clientId, outbox, Acknowledge(b, n), edits, refused)
  BY <1>1, FlowAcknowledged
<1>3. m.type = "op" /\ m.client # None /\ m.client <= outbox.submittedBy /\ m \in Messages
  BY <1>1 DEF OwnIn, SentBy, ClientTypeOK
<1>4. m.client = clientId
  BY <1>2 DEF Advanced
<1>5. m.client = outbox.submittedBy => outbox.observed < m.csn /\ m.csn <= outbox.csn
  BY <1>2 DEF Advanced
<1>6. outbox \in Outboxes /\ m.csn \in Nat
  BY <1>1, <1>3 DEF ClientTypeOK, Messages
<1>7. b.states = outbox.states /\ b.begun = outbox.begun
  BY <1>6, ObservedFields
<1>8. connection # None /\ m.client = connection => outbox.submittedBy = connection
  <2>1. connection # None => outbox.submittedBy <= connection
    BY <1>1 DEF ConnectionInv
  <2>2. outbox.submittedBy \in Nat /\ m.client \in Nat
    BY <1>3, <1>6, NoneConnection DEF Outboxes, Messages, NoneOr
  <2> QED
    BY <1>3, <2>1, <2>2
<1>9. Acknowledged(n) = Acknowledge(b, n)
  BY <1>3, <1>4 DEF Acknowledged, Mine, Observed
<1> HIDE DEF b
<1>10. Acknowledgeable(outbox, n)
  BY <1>2, <1>7, AcknowledgeableSame
<1>11. outbox.states # <<>>
  BY <1>10 DEF Acknowledgeable
<1>12. Processable(n)
  BY <1>5, <1>8, <1>10 DEF Processable, Mine
<1>13. Advanced(lastProcessed, raw, clientId, outbox, Acknowledged(n), edits, refused)
  BY <1>2, <1>9
<1> QED
  BY <1>3, <1>11, <1>12, <1>13

(* The next message is not an operation of the client. *)
LEMMA OtherProcessed ==
    ASSUME ClientInv, lastProcessed + 1 \in DOMAIN log, lastProcessed + 1 \notin OwnIn(log)
    PROVE  LET n == lastProcessed + 1 IN
           /\ Processable(n) /\ Acknowledged(n) = outbox
           /\ Flow(log, n, raw, clientId, outbox, edits, refused)
<1> DEFINE n == lastProcessed + 1
<1>1. Flow(log, lastProcessed, raw, clientId, outbox, edits, refused)
  BY DEF ClientInv
<1>2. \A k : ~Mine(log[n], k)
  BY DEF Mine, OwnIn
<1>3. Flow(log, n, raw, clientId, outbox, edits, refused)
  BY <1>1, FlowSeen
<1>4. Processable(n)
  BY <1>2 DEF Processable
<1>5. Acknowledged(n) = outbox
  BY <1>2 DEF Acknowledged
<1> QED
  BY <1>3, <1>4, <1>5

(* The client processes its join. *)
LEMMA JoinProcessed ==
    ASSUME ClientInv, lastProcessed + 1 \in DOMAIN log, log[lastProcessed + 1].type = "join",
           log[lastProcessed + 1].client = connection, state # "Connected", attached,
           BecomeConnected(connection, outbox, socket)
    PROVE  LET n == lastProcessed + 1 IN
           /\ ConnectedAs(n, connection, outbox, socket) /\ connection \in Connections
           /\ mode[connection] = "write" /\ Joined(log, n, connection)
<1> DEFINE n == lastProcessed + 1
           k == connection
<1>1. ClientTypeOK /\ ConnectionInv /\ PhaseInv /\ ~closed /\ WellFormed(log, raw)
  BY DEF ClientInv, AssertionsHold, Flow
<1>2. log[n].client # None /\ log[n] = Join(log[n].client)
  BY <1>1 DEF WellFormed
<1>3. k \in Connections /\ k # None /\ log[n] = Join(k)
  BY <1>1, <1>2 DEF ClientTypeOK, NoneOr
<1>4. state = "Connecting"
  BY <1>1, <1>3 DEF ConnectionInv, ClientTypeOK
<1>5. mode[k] = "write" /\ outbox.submittedBy <= k /\ clientId < k /\ replayedFor <= clientId
  BY <1>1, <1>3, <1>4 DEF ConnectionInv
<1>6. replayedFor # k
  <2>1. replayedFor \in Nat /\ clientId \in Nat /\ k \in Nat
    BY <1>1, NoneConnection DEF ClientTypeOK, NoneOr
  <2> QED
    BY <1>5, <2>1
<1>7. OwnOf(raw) = {} /\ \A j \in OwnIn(log) : j < n
  <2>1. Barrier(log, raw, k)
    BY <1>1, <1>3 DEF PhaseInv
  <2> QED
    BY <1>3, <2>1 DEF Barrier
<1>8. NothingUnderway(log, n, raw)
  <2>1. n \in Nat /\ \A j \in OwnIn(log) : j \in Nat
    BY <1>1 DEF ClientTypeOK, OwnIn
  <2>2. Unseen(log, n) = {}
    BY <1>7, <2>1 DEF Unseen
  <2> QED
    BY <1>7, <2>2 DEF NothingUnderway
<1>9. Joined(log, n, k)
  <2>1. n <= n
    BY <1>1 DEF ClientTypeOK
  <2> QED
    BY <1>3, <2>1 DEF Joined
<1>10. Flow(log, n, raw, clientId, outbox, edits, refused)
  <2>1. n \notin OwnIn(log)
    BY DEF OwnIn
  <2> QED
    BY <2>1, OtherProcessed
<1>11. socket \in [Connections -> Seq(Nat)]
  BY <1>1 DEF ClientTypeOK
<1>12. BecomeConnected(k, outbox, socket)
  OBVIOUS
<1> HIDE DEF n, k
<1>13. ConnectedAs(n, k, outbox, socket)
  BY <1>1, <1>3, <1>5, <1>6, <1>8, <1>9, <1>10, <1>11, <1>12, Connects
<1> QED
  BY <1>3, <1>5, <1>9, <1>13 DEF n, k

LEMMA ProcessKeeps == ClientInv /\ Process => ClientInv'
<1> SUFFICES ASSUME ClientInv, Process PROVE ClientInv'
  OBVIOUS
<1> DEFINE n == lastProcessed + 1
           m == log[n]
           box == Acknowledged(n)
<1>1. ClientTypeOK /\ ConnectionInv /\ InboundInv /\ PhaseInv /\ AssertionsHold
      /\ Flow(log, lastProcessed, raw, clientId, outbox, edits, refused)
  BY DEF ClientInv
<1>2. /\ attached /\ inbox.inbound # <<>>
      /\ UNCHANGED <<log, open, mode, refused, attempt, accepted, connection, attached, edits,
                     others, faults>>
  BY DEF Process, bounds
<1>3. LET t == [inbox EXCEPT !.inbound = Tail(@)] IN
      /\ Head(inbox.inbound) = n /\ n \in 1 .. Len(log)
      /\ Queue(t, n, Len(log)) /\ Beyond(t) /\ t.pending = inbox.pending
  BY <1>1, <1>2, ProcessedQueue DEF InboundInv
<1>4. n \in DOMAIN log /\ n \in Nat /\ lastProcessed \in Nat
  BY <1>1, <1>3 DEF ClientTypeOK
<1>5. Processable(n)
  BY <1>4, OwnProcessed, OtherProcessed
<1>6. inbox' = [inbox EXCEPT !.inbound = Tail(@)] /\ lastProcessed' = n /\ ProcessProtocol(m, box)
  BY <1>3, <1>5 DEF Process
<1>7. /\ Queue(inbox', n, Len(log)) /\ Beyond(inbox') /\ inbox'.pending = inbox.pending
      /\ inbox' \in Inboxes
  BY <1>3, <1>6 DEF Queue
<1>8. pendingClientId = connection
  BY <1>1 DEF ConnectionInv
<1> DEFINE joins == m.type = "join" /\ m.client = connection /\ state # "Connected"
<1>9. CASE ~joins
  <2>1. /\ inQuorum' = (inQuorum /\ ~(m.type = "leave" /\ m.client = clientId))
        /\ outbox' = box
        /\ UNCHANGED <<state, pendingClientId, clientId, raw, socket, replayedFor, closed>>
    BY <1>6, <1>8, <1>9 DEF ProcessProtocol
  <2>2. /\ Flow(log, n, raw, clientId, outbox', edits, refused)
        /\ outbox'.mode = outbox.mode /\ outbox'.submittedBy = outbox.submittedBy
        /\ outbox.states = <<>> \/ Marker(outbox.states[Len(outbox.states)]) =>
              outbox'.states = <<>> \/ Marker(outbox'.states[Len(outbox'.states)])
    <3>1. CASE n \in OwnIn(log)
      <4>1. /\ Advanced(lastProcessed, raw, clientId, outbox, box, edits, refused)
            /\ outbox.states # <<>>
        BY <3>1, OwnProcessed
      <4> HIDE DEF box
      <4> QED
        BY <2>1, <4>1 DEF Advanced
    <3>2. CASE n \notin OwnIn(log)
      <4>1. box = outbox /\ Flow(log, n, raw, clientId, outbox, edits, refused)
        BY <1>4, <3>2, OtherProcessed
      <4>2. outbox' = outbox
        BY <2>1, <4>1
      <4> QED
        BY <4>1, <4>2
    <3> QED
      BY <3>1, <3>2
  <2>3. outbox' \in Outboxes /\ inQuorum' \in BOOLEAN
    BY <1>1, <2>1, <2>2 DEF Flow, ClientTypeOK
  <2> HIDE DEF box, m
  <2>4. ClientTypeOK'
    BY <1>1, <1>2, <1>4, <1>6, <1>7, <2>1, <2>3 DEF ClientTypeOK
  <2>5. ConnectionInv'
    BY <1>1, <1>2, <2>1, <2>2 DEF ConnectionInv, Used
  <2>6. InboundInv'
    BY <1>1, <1>2, <1>6, <1>7, <2>1 DEF InboundInv
  <2>7. Flow(log, lastProcessed, raw, clientId, outbox, edits, refused)'
    BY <1>2, <1>6, <2>1, <2>2
  <2>8. PhaseInv'
    <3>1. \A k : Joined(log, lastProcessed, k) => Joined(log, n, k)
      <4>1. \A i \in DOMAIN log : i <= lastProcessed => i <= n
        BY <1>1, <1>4 DEF ClientTypeOK
      <4> HIDE DEF n
      <4> QED
        BY <4>1 DEF Joined
    <3>2. NothingUnderway(log, lastProcessed, raw) => NothingUnderway(log, n, raw)
      <4>1. \A i \in OwnIn(log) : i > n => i > lastProcessed
        BY <1>1, <1>4 DEF ClientTypeOK, OwnIn
      <4> HIDE DEF n
      <4>2. Unseen(log, n) \subseteq Unseen(log, lastProcessed)
        BY <4>1 DEF Unseen
      <4> QED
        BY <4>2 DEF NothingUnderway
    <3> HIDE DEF n
    <3> QED
      BY <1>1, <1>2, <1>6, <2>1, <2>2, <3>1, <3>2 DEF PhaseInv
  <2> QED
    BY <1>1, <2>1, <2>4, <2>5, <2>6, <2>7, <2>8 DEF ClientInv, AssertionsHold
<1>10. CASE joins
  <2>1. box = outbox
    <3>1. n \notin OwnIn(log)
      BY <1>10 DEF OwnIn
    <3> QED
      BY <1>4, <3>1, OtherProcessed
  <2>2. BecomeConnected(connection, outbox, socket) /\ pendingClientId' = pendingClientId
    BY <1>6, <1>8, <1>10, <2>1 DEF ProcessProtocol
  <2>3. /\ ConnectedAs(n, connection, outbox, socket) /\ connection \in Connections
        /\ mode[connection] = "write" /\ Joined(log, n, connection)
    BY <1>2, <1>4, <1>10, <2>2, JoinProcessed
  <2> HIDE DEF box, m, n
  <2>4. /\ state' = "Connected" /\ clientId' = connection /\ inQuorum' = TRUE /\ closed' = FALSE
        /\ replayedFor' \in {replayedFor, connection}
        /\ Flow(log, n, raw', connection, outbox', edits, refused)
        /\ outbox'.submittedBy \in {outbox.submittedBy, connection}
        /\ \A p \in DOMAIN raw' : (\E q \in DOMAIN raw : raw'[p] = raw[q])
                                  \/ raw'[p][1].client = connection
        /\ connection \in open /\ Live(log, refused, connection) =>
              1 .. edits \subseteq OpsIn(log) \cup OpsOf(raw')
        /\ outbox'.mode = "Manual" =>
              outbox'.states = <<>> \/ Marker(outbox'.states[Len(outbox'.states)])
        /\ socket' = socket
    BY <2>3 DEF ConnectedAs
  <2>5. connection # None /\ accepted = None /\ attempt = "none"
    BY <1>1, <2>3, NoneConnection DEF ConnectionInv
  <2>6. ClientTypeOK'
    <3>1. raw' \in Seq(Batches) /\ outbox' \in Outboxes
      BY <2>4 DEF Flow
    <3>2. replayedFor' \in NoneOr(Connections) /\ clientId' \in NoneOr(Connections)
      BY <1>1, <2>4 DEF ClientTypeOK
    <3> QED
      BY <1>1, <1>2, <1>4, <1>6, <1>7, <2>2, <2>4, <3>1, <3>2 DEF ClientTypeOK
  <2>7. ConnectionInv'
    <3>1. ASSUME NEW k \in Connections, mode[k] = "none"
          PROVE  /\ k \notin open /\ socket[k] = <<>>
                 /\ \A i \in DOMAIN log : log[i].client # k
                 /\ \A p \in DOMAIN raw' : raw'[p][1].client # k
      <4>1. /\ k \notin open /\ socket[k] = <<>>
            /\ \A i \in DOMAIN log : log[i].client # k
            /\ \A p \in DOMAIN raw : raw[p][1].client # k
        BY <1>1, <3>1 DEF ConnectionInv
      <4>2. k # connection
        BY <2>3, <3>1
      <4> QED
        BY <2>4, <4>1, <4>2
    <3>2. Used(connection) /\ Used(replayedFor) /\ Used(outbox.submittedBy) /\ Used(accepted)
      BY <1>1 DEF ConnectionInv
    <3>3. \A k \in {accepted, connection, clientId', replayedFor', outbox'.submittedBy} : Used(k)
      BY <2>4, <3>2
    <3>4. outbox'.submittedBy <= connection /\ replayedFor' <= connection
      <4>1. outbox.submittedBy <= connection /\ replayedFor <= clientId /\ clientId < connection
        BY <1>1, <1>10, <2>5 DEF ConnectionInv
      <4>2. replayedFor \in Nat /\ clientId \in Nat /\ connection \in Nat
        BY <1>1, NoneConnection DEF ClientTypeOK, NoneOr
      <4> QED
        BY <2>4, <4>1, <4>2
    <3> QED
      BY <1>1, <1>2, <2>2, <2>4, <2>5, <3>1, <3>3, <3>4 DEF ConnectionInv, Used
  <2>8. InboundInv'
    BY <1>1, <1>2, <1>6, <1>7, <2>4 DEF InboundInv
  <2>9. Flow(log, lastProcessed, raw, clientId, outbox, edits, refused)'
    BY <1>2, <1>6, <2>4
  <2>10. PhaseInv'
    BY <1>2, <1>6, <2>3, <2>4, <2>5 DEF PhaseInv
  <2> QED
    BY <2>4, <2>6, <2>7, <2>8, <2>9, <2>10 DEF ClientInv, AssertionsHold
<1> QED
  BY <1>9, <1>10

LEMMA InitiallyFlow == Init => Flow(log, 0, <<>>, None, outbox, 0, {})
<1> SUFFICES ASSUME Init PROVE Flow(log, 0, <<>>, None, outbox, 0, {})
  OBVIOUS
<1>1. /\ log = [i \in 1 .. InitialMessages |-> Other] /\ InitialMessages \in Nat
      /\ outbox = [states |-> <<>>, mode |-> "Automatic", needsFlush |-> FALSE,
                   begun |-> NoBatch, csn |-> 0, observed |-> 0, submittedBy |-> None,
                   buffer |-> <<>>, batches |-> <<>>]
  BY ConnectionConstants DEF Init
<1>2. Other \in Messages /\ Other.type = "op" /\ Other.client = None
  <2>1. WellFormed(<<>>, <<>>) /\ <<>> \in Seq(Messages)
    BY DEF WellFormed
  <2> QED
    BY <2>1, WellFormedOther
<1>3. /\ log \in Seq(Messages) /\ DOMAIN log = 1 .. InitialMessages /\ Len(log) = InitialMessages
      /\ \A i \in DOMAIN log : log[i] = Other
  BY <1>1, <1>2
<1>4. NoBatch \in [first : Nat, batch : {"none", "begin", "end"}]
  BY MessageTypes
<1>5. outbox \in Outboxes
  <2>1. <<>> \in Seq(PendingStates) /\ <<>> \in Seq(Messages) /\ <<>> \in Seq(Batches)
    OBVIOUS
  <2>2. None \in NoneOr(Connections)
    BY DEF NoneOr
  <2> QED
    BY <1>1, <1>4, <2>1, <2>2 DEF Outboxes
<1>6. /\ outbox.states = <<>> /\ outbox.mode = "Automatic" /\ ~outbox.needsFlush
      /\ outbox.begun = NoBatch /\ outbox.csn = 0 /\ outbox.observed = 0
      /\ outbox.submittedBy = None /\ outbox.buffer = <<>> /\ outbox.batches = <<>>
  BY <1>1
<1>7. \A i \in DOMAIN log : log[i].type = "op" /\ log[i].client = None
  BY <1>2, <1>3
<1>8. <<>> \in Seq(Batches) /\ DOMAIN <<>> = {}
  OBVIOUS
<1>9. OwnIn(log) = {} /\ OwnOf(<<>>) = {}
  BY <1>7, <1>8 DEF OwnIn, OwnOf
<1>10. Unseen(log, 0) = {} /\ OpsUpTo(log, 0) = {}
  BY <1>9 DEF Unseen, OpsUpTo
<1>11. WellFormed(log, <<>>)
  BY <1>7, <1>8 DEF WellFormed
<1>12. SentBy(log, 0, <<>>, None, outbox.submittedBy)
  BY <1>8, <1>9 DEF SentBy
<1>13. Counts(log, 0, <<>>, outbox)
  BY <1>6, <1>9, <1>10 DEF Counts, Ascending
<1>14. Numbered(log, 0) /\ Following(log, <<>>, 0)
  BY <1>9 DEF Numbered, Following, Ascending
<1>15. AllMatched(<<>>, outbox.states, outbox.begun)
  BY <1>9 DEF AllMatched
<1>16. MessageOps(<<>>) = {} /\ Increasing(<<>>)
  BY DEF MessageOps, Increasing
<1>17. Grammar(<<>>, NoBatch, "Automatic", "Automatic")
  <2>1. Spelled(<<>>) /\ Bracketed(<<>>, NoBatch)
    BY DEF Spelled, Bracketed
  <2>2. ~Within(<<>>, NoBatch, 1)
    BY WithinFront
  <2> QED
    BY <2>1, <2>2 DEF Grammar
<1>18. None \in NoneOr(Connections) /\ 0 \in 0 .. Len(log) /\ 1 .. 0 = {}
  BY <1>1, <1>3 DEF NoneOr
<1>19. MessageOps(outbox.states) = 1 .. 0 \ OpsUpTo(log, 0)
  BY <1>6, <1>16, <1>18
<1>20. Grammar(outbox.states, outbox.begun, outbox.mode, outbox.mode) /\ Increasing(outbox.states)
  BY <1>6, <1>16, <1>17
<1>21. \A i \in Unseen(log, 0) :
          Matched(outbox.states, outbox.begun, log[i], i + 1 \in Unseen(log, 0))
  BY <1>10
<1> QED
  BY <1>3, <1>5, <1>6, <1>8, <1>11, <1>12, <1>13, <1>14, <1>15, <1>18, <1>19, <1>20, <1>21 DEF Flow

LEMMA InitiallyClient == Init => ClientInv
<1> SUFFICES ASSUME Init PROVE ClientInv
  OBVIOUS
<1>1. /\ raw = <<>> /\ open = {} /\ refused = {}
      /\ socket = [k \in Connections |-> <<>>] /\ mode = [k \in Connections |-> "none"]
      /\ attempt = "write" /\ accepted = None /\ connection = None /\ attached = FALSE
      /\ inbox = [queued |-> 0, inbound |-> <<>>, pending |-> {}, fetch |-> Idle, ignored |-> FALSE]
      /\ lastProcessed = 0
      /\ state = "Disconnected" /\ pendingClientId = None /\ clientId = None /\ inQuorum = FALSE
      /\ replayedFor = None /\ closed = FALSE /\ edits = 0 /\ others = 0 /\ faults = 0
      /\ log = [i \in 1 .. InitialMessages |-> Other]
      /\ outbox.states = <<>> /\ outbox.mode = "Automatic" /\ outbox.submittedBy = None
  BY DEF Init
<1>2. Flow(log, 0, <<>>, None, outbox, 0, {})
  BY InitiallyFlow
<1>3. /\ log \in Seq(Messages) /\ outbox \in Outboxes /\ <<>> \in Seq(Batches)
      /\ None \in NoneOr(Connections)
  BY <1>2 DEF Flow
<1>4. InitialMessages \in Nat /\ Len(log) = InitialMessages
      /\ DOMAIN log = 1 .. InitialMessages /\ \A i \in DOMAIN log : log[i] = Other
  BY <1>1, ConnectionConstants
<1>5. inbox \in Inboxes /\ inbox.queued = 0 /\ inbox.inbound = <<>> /\ inbox.pending = {}
      /\ inbox.fetch = Idle
  <2>1. Idle \in [from : Int, to : Nat] /\ <<>> \in Seq(Nat)
    BY DEF Idle, Undefined
  <2> QED
    BY <1>1, <2>1 DEF Inboxes
<1>6. ClientTypeOK
  <2>1. socket \in [Connections -> Seq(Nat)]
    <3>1. <<>> \in Seq(Nat)
      OBVIOUS
    <3> QED
      BY <1>1, <3>1
  <2> QED
    BY <1>1, <1>3, <1>5, <2>1 DEF ClientTypeOK
<1>7. ConnectionInv
  <2>1. \A k \in Connections : mode[k] = "none" /\ socket[k] = <<>>
    BY <1>1
  <2>2. Other.client = None
    BY DEF Other, Message
  <2>3. \A k \in Connections : \A i \in DOMAIN log : log[i].client # k
    BY <1>4, <2>2, NoneConnection
  <2>4. DOMAIN raw = {}
    BY <1>1
  <2>5. None <= None
    BY DEF None
  <2> QED
    BY <1>1, <2>1, <2>3, <2>4, <2>5 DEF ConnectionInv, Used
<1>8. InboundInv
  <2>1. Queue(inbox, lastProcessed, Len(log))
    <3>1. inbox.inbound = [i \in 1 .. Len(inbox.inbound) |-> lastProcessed + i]
      <4>1. Len(<<>>) = 0 /\ 1 .. 0 = {}
        OBVIOUS
      <4>2. <<>> = [i \in 1 .. 0 |-> 0 + i]
        OBVIOUS
      <4> QED
        BY <1>1, <1>5, <4>1, <4>2
    <3>2. Len(inbox.inbound) = 0
      BY <1>5
    <3> QED
      BY <1>1, <1>4, <1>5, <3>1, <3>2 DEF Queue
  <2>2. \A k \in Connections : socket[k] = <<>>
    BY <1>1
  <2>3. \A i \in DOMAIN <<>> : FALSE
    OBVIOUS
  <2>4. InitialMessages <= Len(log)
    BY <1>4
  <2> QED
    BY <1>1, <1>5, <2>1, <2>2, <2>3, <2>4, RisingEmpty DEF InboundInv
<1>9. Flow(log, lastProcessed, raw, clientId, outbox, edits, refused)
  BY <1>1, <1>2
<1>10. PhaseInv
  BY <1>1 DEF PhaseInv
<1> QED
  BY <1>1, <1>6, <1>7, <1>8, <1>9, <1>10 DEF ClientInv, AssertionsHold

(* At every moment the queue of inbound messages follows what is           *)
(* processed, what is under way is counted and matched by the pending      *)
(* states, each connection is in a phase that the others allow, and no     *)
(* assertion has failed (setupNewSuccessfulConnection and                  *)
(* processInboundMessage of deltaManager.ts, setConnectionState of         *)
(* container.ts, and all of pendingStateManager.ts).                       *)
THEOREM ClientInvariant == Spec => []ClientInv
<1>1. Init => ClientInv
  BY InitiallyClient
<1>2. ClientInv /\ [Next]_vars => ClientInv'
  <2> SUFFICES ASSUME ClientInv, [Next]_vars PROVE ClientInv'
    OBVIOUS
  <2>1. CASE Client
    BY <2>1, SetupKeeps, ReceiveKeeps, NackedKeeps, DisconnectedKeeps, LoadKeeps, FetchReplyKeeps,
       ProcessKeeps, UpdateReferenceKeeps, Zenon DEF Client
  <2>2. CASE Application
    BY <2>2, ApplicationKeeps
  <2>3. CASE Service
    BY <2>3, AcceptKeeps, DropKeeps, EvictKeeps, RefuseKeeps, SequenceKeeps, OrderOtherKeeps
       DEF Service
  <2>4. CASE UNCHANGED vars
    <3>1. UNCHANGED <<log, raw, socket, open, mode, refused, attempt, accepted, connection,
                      attached, inbox, lastProcessed, state, pendingClientId, clientId, inQuorum,
                      outbox, replayedFor, closed, edits, others, faults>>
      BY <2>4 DEF vars, service, container, bounds
    <3> QED
      BY <3>1 DEF ClientInv, ClientTypeOK, ConnectionInv, Used, InboundInv, PhaseInv,
         AssertionsHold
  <2> QED
    BY <2>1, <2>2, <2>3, <2>4 DEF Next
<1> QED
  BY <1>1, <1>2, PTL DEF Spec

(* No message trips an assertion of the delta manager                      *)
(* (deltaManager.ts:1202-1215,1236) or of the pending states               *)
(* (pendingStateManager.ts:192-204,233-242,265-292), whatever becomes of   *)
(* the connections.                                                        *)
THEOREM AssertionsHoldHolds == Spec => []AssertionsHold
<1>1. ClientInv => AssertionsHold
  BY DEF ClientInv
<1> QED
  BY <1>1, ClientInvariant, PTL

(* An operation is ordered once, and after those that the client made      *)
(* before it, although a reconnection sends again what may be ordered      *)
(* already (deltaManager.ts:456-460, container.ts:1246-1248).              *)
THEOREM OperationsOnceHolds == Spec => []OperationsOnce
<1>1. ClientInv => OperationsOnce
  <2> SUFFICES ASSUME ClientInv PROVE OperationsOnce
    OBVIOUS
  <2>1. Numbered(log, edits)
    BY DEF ClientInv, Flow
  <2> QED
    BY <2>1 DEF Numbered, OperationsOnce, OwnOps, OwnIn
<1> QED
  BY <1>1, ClientInvariant, PTL

(* The runtime keeps exactly the operations that the client has made and   *)
(* not seen in the order (onSubmitMessage, processPendingLocalMessage and  *)
(* replayPendingStates of pendingStateManager.ts).                         *)
THEOREM PendingExactlyHolds == Spec => []PendingExactly
<1>1. ClientInv => PendingExactly
  <2> SUFFICES ASSUME ClientInv PROVE PendingExactly
    OBVIOUS
  <2>1. MessageOps(outbox.states) = 1 .. edits \ OpsUpTo(log, lastProcessed)
    BY DEF ClientInv, Flow
  <2>2. PendingOps = MessageOps(outbox.states)
    BY DEF PendingOps, MessageOps
  <2>3. OpsUpTo(log, lastProcessed) = {log[i].op : i \in {j \in OwnOps : j <= lastProcessed}}
    BY DEF OpsUpTo, OwnIn, OwnOps
  <2> QED
    BY <2>1, <2>2, <2>3 DEF PendingExactly
<1> QED
  BY <1>1, ClientInvariant, PTL

(* Once it is connected a client has nothing outstanding under an earlier  *)
(* id (container.ts:1246-1248).                                            *)
THEOREM NothingOutstandingHolds == Spec => []NothingOutstanding
<1>1. ClientInv => NothingOutstanding
  <2> SUFFICES ASSUME ClientInv PROVE NothingOutstanding
    OBVIOUS
  <2>1. SentBy(log, lastProcessed, raw, clientId, outbox.submittedBy)
    BY DEF ClientInv, Flow
  <2>2. \A i \in OwnOps : i > lastProcessed => log[i].client = clientId
    BY <2>1 DEF SentBy, OwnOps, OwnIn
  <2>3. \A p \in DOMAIN raw : raw[p][1].type = "op" => raw[p][1].client = clientId
    BY <2>1 DEF SentBy, OwnOf, IsOwn
  <2> QED
    BY <2>2, <2>3 DEF NothingOutstanding
<1> QED
  BY <1>1, ClientInvariant, PTL

(* The inbound queue follows what is processed without a gap, and what is  *)
(* put aside lies beyond a gap (enqueueMessages,                           *)
(* deltaManager.ts:1140-1176).                                             *)
THEOREM InboundInOrderHolds == Spec => []InboundInOrder
<1>1. ClientInv => InboundInOrder
  BY DEF ClientInv, InboundInv, Queue, Beyond, InboundInOrder
<1> QED
  BY <1>1, ClientInvariant, PTL

=============================================================================
