-------------------------- MODULE ClientConnection --------------------------
(***************************************************************************)
(* One client's connection to a document: the delta manager, which puts    *)
(* the messages of a socket and of the delta storage in order and sends    *)
(* the client's own (container-loader/src/deltaManager.ts), the connection *)
(* state of the container (container.ts), and the runtime's queue of       *)
(* operations that are not acknowledged                                    *)
(* (container-runtime/src/pendingStateManager.ts).                         *)
(*                                                                         *)
(* A client has a new client id on every connection.  Around it are the    *)
(* socket server, the sequencer as Deli guarantees it, the delta storage,  *)
(* which may lag behind, and other clients.  A message is known by its     *)
(* number in the order.                                                    *)
(*                                                                         *)
(* Not modelled: signals, contents sent separately, chunked operations,    *)
(* read-only permissions, delays before a reconnection, and the closing    *)
(* after 100 fetches that return nothing.                                  *)
(***************************************************************************)
EXTENDS Integers, SequencesExt

CONSTANTS
    MaxBatchDeltas,   \* a request to the delta storage spans fewer messages
    InitialMessages,  \* length of the order when the client starts to load
    FlushModes,       \* the modes of which a runtime factory sets one
    MaxMessages,      \* bound: operations, of the client and of others, and
                      \* reference updates of the client
    MaxFaults         \* bound: connections lost, clients evicted or refused

ASSUME ConnectionConstants ==
    /\ MaxBatchDeltas \in Nat \ {0, 1} /\ InitialMessages \in Nat
    /\ FlushModes \subseteq {"Automatic", "Manual"}
    /\ MaxMessages \in Nat /\ MaxFaults \in Nat

(* A fault costs a connection that reads and, after a nack, one that writes. *)
Connections == 1 .. 1 + 2 * MaxFaults
None == 0           \* no connection, no client id, another client
Undefined == 0      \* no upper bound of a fetch
Nack == 0           \* in place of a message on the socket
NoOp == 0           \* in place of an operation

VARIABLES
    \* the service
    log,            \* the order
    raw,            \* the batches received and not ordered
    socket,         \* connection -> messages and nacks not yet delivered
    open, mode,     \* the connections the server holds, and their mode
    refused,        \* the clients whose messages the sequencer nacks
    \* the delta manager
    attempt,        \* mode of the connection that is being made, or "none"
    accepted,       \* the connection the server has accepted for it
    connection,
    attached,       \* has the document been loaded, with its handler?
    inbox,          \* inbound messages, see Init
    lastProcessed,
    \* the container and the runtime
    state, pendingClientId, clientId, inQuorum,
    outbox,         \* outbound messages and pending states, see Init
    replayedFor,    \* client id of the last replay
    closed,         \* has an assertion failed?
    \* bounds
    edits,          \* operations of the client, each known by its number
    others,         \* operations of others and reference updates
    faults

service == <<log, raw, socket, open, mode, refused>>
container == <<state, pendingClientId, clientId, inQuorum>>
bounds == <<edits, others, faults>>
vars == <<service, attempt, accepted, connection, attached, inbox, lastProcessed,
          container, outbox, replayedFor, closed, bounds>>

Message(type, client, csn, op, batch) ==
    [type |-> type, client |-> client, csn |-> csn, op |-> op, batch |-> batch]
Join(k) == Message("join", k, 0, NoOp, "none")
Leave(k) == Message("leave", k, 0, NoOp, "none")
Other == Message("op", None, 0, NoOp, "none")

(* A fetch of the messages after "from" and before "to" that is running.   *)
Idle == [from |-> -1, to |-> Undefined]

NoBatch == [first |-> 0, batch |-> "none"]

Init ==
    /\ log = [i \in 1 .. InitialMessages |-> Other]
    /\ raw = <<>> /\ open = {} /\ refused = {}
    /\ socket = [k \in Connections |-> <<>>]
    /\ mode = [k \in Connections |-> "none"]
    /\ attempt = "write" /\ accepted = None /\ connection = None /\ attached = FALSE
    /\ inbox = [queued |-> 0,        \* last number without a gap before it
                inbound |-> <<>>,    \* numbers to process
                pending |-> {},      \* numbers after a gap
                fetch |-> Idle,
                ignored |-> FALSE]   \* history: was a fetch wanted during the last?
    /\ lastProcessed = 0
    /\ state = "Disconnected" /\ pendingClientId = None /\ clientId = None /\ inQuorum = FALSE
    /\ outbox = [states |-> <<>>,    \* pending states
                 mode |-> "Automatic", needsFlush |-> FALSE,
                 begun |-> NoBatch,  \* the batch being acknowledged
                 csn |-> 0, observed |-> 0, submittedBy |-> None,
                 buffer |-> <<>>,    \* messages of the current batch
                 batches |-> <<>>]   \* handed to the connection in this step
    /\ replayedFor = None /\ closed = FALSE
    /\ edits = 0 /\ others = 0 /\ faults = 0

More(n) == edits + others + n <= MaxMessages
Fault == faults < MaxFaults /\ faults' = faults + 1

-----------------------------------------------------------------------------
(* Inbound messages. *)

\* Mutant: missing messages are not fetched.
NeverFetch(box, from, to) == box

(* fetchMissingDeltas: nothing if a fetch is running *)
FetchMissing(box, from, to) ==
    IF box.fetch # Idle THEN [box EXCEPT !.ignored = TRUE]
    ELSE [box EXCEPT !.fetch = [from |-> from, to |-> to], !.ignored = FALSE]

(* The last number that messages N continue without a gap. *)
Continued(queued, N) ==
    Max({queued} \cup {n \in N : n > queued /\ queued + 1 .. n \subseteq N})

(* enqueueMessages, of messages in ascending order *)
Enqueue(box, N) ==
    LET last == Continued(box.queued, N)
        ahead == {n \in N : n > last}
        queued == [box EXCEPT
            !.queued = last,
            !.inbound = @ \o [i \in 1 .. last - box.queued |-> box.queued + i],
            !.pending = @ \cup ahead]
    IN IF ahead = {} THEN queued ELSE FetchMissing(queued, last, Min(ahead))

\* Mutant: the pending messages stay pending.
CatchUpKeepsPending(box, N) ==
    LET first == Enqueue(box, N)
    IN Enqueue(first, first.pending)

(* catchUpCore: the pending messages are enqueued again *)
CatchUp(box, N) ==
    LET first == Enqueue(box, N)
    IN Enqueue([first EXCEPT !.pending = {}], first.pending)

(* Before the handler is attached everything is pending. *)
Arrive(N) == inbox' = IF attached THEN Enqueue(inbox, N) ELSE [inbox EXCEPT !.pending = @ \cup N]

-----------------------------------------------------------------------------
(* Outbound messages and pending states. *)

PendingMessage(op, csn) == [type |-> "message", op |-> op, csn |-> csn, mode |-> "none"]
PendingMode(m) == [type |-> "flushMode", op |-> NoOp, csn |-> 0, mode |-> m]
PendingFlush == [type |-> "flush", op |-> NoOp, csn |-> 0, mode |-> "none"]

\* Mutant: the mark of a single message is not removed.
PreparedSingleMarked(messages) ==
    IF messages[1].batch # "begin" \/ Len(messages) = 1 THEN messages
    ELSE [messages EXCEPT ![Len(messages)].batch = "end"]

(* prepareSend: the first and the last message of a batch are marked *)
Prepared(messages) ==
    IF messages[1].batch # "begin" THEN messages
    ELSE IF Len(messages) = 1 THEN <<[messages[1] EXCEPT !.batch = "none"]>>
    ELSE [messages EXCEPT ![Len(messages)].batch = "end"]

(* DeltaManager.flush *)
FlushBuffer(box) ==
    IF box.buffer = <<>> THEN box
    ELSE [box EXCEPT !.batches = Append(@, Prepared(box.buffer)), !.buffer = <<>>]

(* DeltaManager.submit on connection k *)
SubmitDelta(box, k, type, op, batched, mark) ==
    LET known == box.submittedBy = k
        csn == IF known THEN box.csn + 1 ELSE 1
        counted == [box EXCEPT !.submittedBy = k, !.csn = csn,
                               !.observed = IF known THEN @ ELSE 0]
        message == Message(type, k, csn, op, mark)
    IN IF batched THEN [counted EXCEPT !.buffer = Append(@, message)]
       ELSE FlushBuffer([FlushBuffer(counted) EXCEPT !.buffer = <<message>>])

\* Mutant: an operation that cannot be sent is not kept.
SubmitIfSent(box, k, op) ==
    IF k = None THEN box
    ELSE LET sent == SubmitDelta(box, k, "op", op, FALSE, "none")
         IN [sent EXCEPT !.states = Append(@, PendingMessage(op, sent.csn))]

(* ContainerRuntime.submit; k is None when operations cannot be sent *)
Submit(box, k, op) ==
    IF k = None THEN [box EXCEPT !.states = Append(@, PendingMessage(op, -1))]
    ELSE LET manual == box.mode = "Manual"
             mark == IF manual /\ ~box.needsFlush THEN "begin" ELSE "none"
             sent == SubmitDelta([box EXCEPT !.needsFlush = manual], k, "op", op, manual, mark)
         IN [sent EXCEPT !.states = Append(@, PendingMessage(op, sent.csn))]

LastState(box) == IF box.states = <<>> THEN PendingMode("none") ELSE Last(box.states)

(* ContainerRuntime.flush and onFlush *)
Flush(box) ==
    LET noted == IF box.mode = "Manual" /\ LastState(box).type = "message"
                 THEN [box EXCEPT !.states = Append(@, PendingFlush)] ELSE box
    IN IF box.needsFlush THEN FlushBuffer([noted EXCEPT !.needsFlush = FALSE]) ELSE noted

(* setFlushMode and onFlushModeUpdated *)
SetFlushMode(box, m) ==
    LET flushed == IF m = "Automatic" THEN Flush(box) ELSE box
        last == LastState(flushed)
        states == flushed.states
    IN IF m = box.mode THEN box
       ELSE [flushed EXCEPT !.mode = m, !.states =
                IF m = "Automatic" /\ last = PendingMode("Manual") THEN Front(states)
                ELSE IF m = "Automatic" /\ last = PendingFlush
                THEN Append(Front(states), PendingMode(m))
                ELSE Append(states, PendingMode(m))]

(* The microtask that flushes what a turn has submitted in manual mode. *)
EndOfTurn(box) == IF box.needsFlush THEN Flush(box) ELSE box

(* A pending state is taken from the front and set, flushed or submitted    *)
(* again, at the back.  With none to take the code would throw; the mark     *)
(* "none", which no queue holds otherwise, stands for that.                  *)
ReplayState(box, k) ==
    LET s == Head(box.states)
        rest == [box EXCEPT !.states = Tail(@)]
    IN CASE box.states = <<>> -> [box EXCEPT !.states = <<PendingMode("none")>>]
         [] s.type = "message" -> Submit(rest, k, s.op)
         [] s.type = "flushMode" -> SetFlushMode(rest, s.mode)
         [] s.type = "flush" -> Flush(rest)

(* replayPendingStates: as many states are replayed as there were. *)
Replay(box, k) ==
    LET replayed[i \in 0 .. Len(box.states)] ==
            IF i = 0 THEN box ELSE ReplayState(replayed[i - 1], k)
    IN EndOfTurn(SetFlushMode(replayed[Len(box.states)], box.mode))

(* What a step has handed to connection k goes to the server, if it holds   *)
(* the connection still; it nacks a client that only reads.  What else the  *)
(* step does to the sockets gives "sockets".                                *)
Send(k, box, sockets) ==
    /\ outbox' = [box EXCEPT !.batches = <<>>]
    /\ raw' = IF k \in open /\ mode[k] = "write" THEN raw \o box.batches ELSE raw
    /\ socket' = IF k \in open /\ mode[k] = "read" /\ box.batches # <<>>
                 THEN [sockets EXCEPT ![k] = Append(@, Nack)] ELSE sockets

(* processPendingLocalMessage, with its assertions: the states left by the *)
(* beginning of a batch, by the message, and by the end of a batch         *)
StartsBatch(box) == box.states # <<>> /\ Head(box.states).type # "message"
Begun(box, n) ==
    IF StartsBatch(box) THEN [first |-> n, batch |-> log[n].batch] ELSE box.begun
AfterBegin(box) == IF StartsBatch(box) THEN Tail(box.states) ELSE box.states
AfterMessage(box) == Tail(AfterBegin(box))
EndsBatch(box, n) == Begun(box, n) # NoBatch /\ Head(AfterMessage(box)).type # "message"

Acknowledgeable(box, n) ==
    /\ box.states # <<>>
    /\ StartsBatch(box) => Head(box.states) # PendingMode("Automatic") /\ box.begun = NoBatch
    /\ AfterBegin(box) # <<>>
    /\ LET expected == Head(AfterBegin(box))
       IN expected.type = "message" /\ expected.csn = log[n].csn
    /\ Begun(box, n) # NoBatch =>
        /\ AfterMessage(box) # <<>>
        /\ EndsBatch(box, n) =>
            /\ Head(AfterMessage(box)) # PendingMode("Manual")
            /\ IF Begun(box, n).first = n THEN log[n].batch = "none"
               ELSE Begun(box, n).batch = "begin" /\ log[n].batch = "end"

Acknowledge(box, n) ==
    LET left == AfterMessage(box)
        ends == Begun(box, n) # NoBatch /\ EndsBatch(box, n)
    IN [box EXCEPT
          !.states = IF ends /\ Head(left).type = "flushMode" THEN Tail(left) ELSE left,
          !.begun = IF ends THEN NoBatch ELSE Begun(box, n)]

-----------------------------------------------------------------------------
(* The connection. *)

CanSend == IF state = "Connected" THEN connection ELSE None

\* Mutant: the mode does not depend on what is not acknowledged.
AsRequested(requested) == requested

(* With operations that are not acknowledged the client asks to write. *)
RequestedMode(requested) == IF outbox.observed # outbox.csn THEN "write" ELSE requested

(* reconnectOnError: disconnectFromDeltaStream and, at once, connect. *)
Reconnect(requested) ==
    /\ connection' = None
    /\ state' = "Disconnected" /\ pendingClientId' = None
    /\ attempt' = RequestedMode(requested)
    /\ socket' = [socket EXCEPT ![connection] = <<>>]
    /\ UNCHANGED <<log, raw, open, mode, refused, accepted, attached, inbox,
                   lastProcessed, clientId, inQuorum, outbox, replayedFor, closed,
                   edits, others>>

(* The client notices that the connection is gone. *)
Disconnected ==
    /\ connection # None /\ ~closed
    /\ IF connection \in open THEN Fault ELSE UNCHANGED faults
    /\ Reconnect("read")

Nacked ==
    /\ connection # None /\ ~closed
    /\ socket[connection] # <<>> /\ Head(socket[connection]) = Nack
    /\ Reconnect("write")
    /\ UNCHANGED faults

Receive ==
    /\ connection # None /\ ~closed
    /\ socket[connection] # <<>> /\ Head(socket[connection]) # Nack
    /\ Arrive({Head(socket[connection])})
    /\ socket' = [socket EXCEPT ![connection] = Tail(@)]
    /\ UNCHANGED <<log, raw, open, mode, refused, attempt, accepted, connection,
                   attached, lastProcessed, container, outbox, replayedFor, closed,
                   bounds>>

(* setConnectionState(Connected) for client id k: the runtime replays the   *)
(* pending states, which it must not do twice for one client id.            *)
BecomeConnected(k, box, sockets) ==
    /\ state' = "Connected" /\ clientId' = k /\ inQuorum' = TRUE
    /\ IF attached
       THEN /\ Send(k, Replay(box, k), sockets)
            /\ replayedFor' = k /\ closed' = (replayedFor = k)
       ELSE Send(None, box, sockets) /\ UNCHANGED <<replayedFor, closed>>

\* Mutant: a connection that writes does not wait for its join.
WithoutJoin(k) == TRUE

(* Only a writer will see its own join. *)
ConnectedAtOnce(k) == mode[k] = "read"

(* setupNewSuccessfulConnection: the messages that came before the answer   *)
(* are the initial messages.                                                *)
Setup ==
    LET k == accepted
    IN /\ k # None /\ ~closed
       /\ accepted' = None /\ attempt' = "none"
       /\ connection' = k /\ pendingClientId' = k
       /\ \E n \in 0 .. Len(socket[k]) :
            LET initial == {socket[k][i] : i \in 1 .. n}
                sockets == [socket EXCEPT ![k] = SubSeq(@, n + 1, Len(@))]
            IN /\ IF ConnectedAtOnce(k) THEN BecomeConnected(k, outbox, sockets)
                  ELSE /\ state' = "Connecting" /\ socket' = sockets
                       /\ UNCHANGED <<clientId, inQuorum, raw, outbox, replayedFor, closed>>
               /\ inbox' = IF ~attached THEN [inbox EXCEPT !.pending = @ \cup initial]
                           ELSE IF n > 0 THEN CatchUp(inbox, initial)
                           ELSE IF mode[k] = "read"
                           THEN FetchMissing(inbox, inbox.queued, Undefined)
                           ELSE inbox
       /\ UNCHANGED <<log, open, mode, refused, attached, lastProcessed, bounds>>

(* The document is loaded from a summary of the first s messages:           *)
(* attachOpHandler, the runtime, whose factory sets the flush mode to m,    *)
(* resume.                                                                  *)
Load(s, m) ==
    /\ ~attached /\ attached' = TRUE
    /\ lastProcessed' = s
    /\ outbox' = SetFlushMode(outbox, m)
    /\ LET box == [inbox EXCEPT !.queued = s]
       IN inbox' = IF box.pending # {} THEN CatchUp(box, {})
                   ELSE FetchMissing(box, s, Undefined)
    /\ UNCHANGED <<service, attempt, accepted, connection, container,
                   replayedFor, closed, bounds>>

(* getDeltas: a reply of the storage, which has seen the first s messages.  *)
(* The fetch ends when there is no more or all that was wanted has come.    *)
FetchReply(s) ==
    /\ inbox.fetch # Idle /\ ~closed
    /\ LET from == inbox.fetch.from
           to == inbox.fetch.to
           past == IF to = Undefined THEN from + MaxBatchDeltas
                   ELSE Min({to, from + MaxBatchDeltas})
           got == from + 1 .. Min({past - 1, s})
           last == Max({from} \cup got)
           done == IF to = Undefined THEN last < from + MaxBatchDeltas - 1 ELSE to - 1 <= last
           caughtUp == IF got = {} /\ ~done THEN inbox ELSE CatchUp(inbox, got)
       IN inbox' = [caughtUp EXCEPT !.fetch = IF done THEN Idle ELSE [@ EXCEPT !.from = last]]
    /\ UNCHANGED <<service, attempt, accepted, connection, attached, lastProcessed,
                   container, outbox, replayedFor, closed, bounds>>

-----------------------------------------------------------------------------
(* Processing. *)

Mine(m, k) == m.type = "op" /\ k # None /\ m.client = k
Active == inQuorum /\ connection # None /\ mode[connection] = "write"

(* processInboundMessage asserts that a message is the next, and that the   *)
(* client's own are counted; the pending states must be acknowledgeable.    *)
Processable(n) ==
    LET m == log[n]
    IN /\ n = lastProcessed + 1
       /\ Mine(m, connection) => outbox.submittedBy = connection
       /\ Mine(m, outbox.submittedBy) => outbox.observed < m.csn /\ m.csn <= outbox.csn
       /\ Mine(m, clientId) => Acknowledgeable(outbox, n)

Acknowledged(n) ==
    LET m == log[n]
        counted == IF Mine(m, outbox.submittedBy) THEN [outbox EXCEPT !.observed = m.csn]
                   ELSE outbox
    IN IF Mine(m, clientId) THEN Acknowledge(counted, n) ELSE counted

(* The container goes from connecting to connected when the quorum adds its *)
(* pending client id.                                                       *)
ProcessProtocol(m, box) ==
    IF m.type = "join" /\ m.client = pendingClientId /\ state # "Connected"
    THEN BecomeConnected(m.client, box, socket) /\ UNCHANGED pendingClientId
    ELSE /\ inQuorum' = (inQuorum /\ ~(m.type = "leave" /\ m.client = clientId))
         /\ outbox' = box
         /\ UNCHANGED <<state, pendingClientId, clientId, raw, socket, replayedFor, closed>>

Process ==
    /\ attached /\ ~closed /\ inbox.inbound # <<>>
    /\ LET n == Head(inbox.inbound)
       IN IF Processable(n)
          THEN /\ inbox' = [inbox EXCEPT !.inbound = Tail(@)]
               /\ lastProcessed' = n
               /\ ProcessProtocol(log[n], Acknowledged(n))
          ELSE /\ closed' = TRUE
               /\ UNCHANGED <<inbox, lastProcessed, container, outbox, replayedFor, raw, socket>>
    /\ UNCHANGED <<log, open, mode, refused, attempt, accepted,
                   connection, attached, bounds>>

(* The timer of scheduleSequenceNumberUpdate fires.  When it was set is left *)
(* out: any message of another client sets it.                              *)
UpdateReference ==
    /\ Active /\ ~closed
    /\ More(1) /\ others' = others + 1
    /\ Send(connection, SubmitDelta(outbox, connection, "noop", NoOp, FALSE, "none"), socket)
    /\ UNCHANGED <<log, open, mode, refused, attempt, accepted, connection, attached, inbox,
                   lastProcessed, container, replayedFor, closed, edits, faults>>

-----------------------------------------------------------------------------
(* The application. *)

Local(box) ==
    /\ attached /\ ~closed
    /\ Send(CanSend, box, socket)
    /\ UNCHANGED <<log, open, mode, refused, attempt, accepted,
                   connection, attached, inbox, lastProcessed, container, replayedFor, closed,
                   others, faults>>

(* The operations after the first edits, n of them. *)
SubmitNew(box, n) ==
    LET submitted[i \in 0 .. n] ==
            IF i = 0 THEN box ELSE Submit(submitted[i - 1], CanSend, edits + i)
    IN submitted[n]

Edit(n) == More(n) /\ edits' = edits + n

(* A turn that submits n operations in the current flush mode.  In automatic *)
(* mode they are sent one by one, as by turns of one.                        *)
Turn(n) == (outbox.mode = "Automatic" => n = 1) /\ Edit(n) /\ Local(EndOfTurn(SubmitNew(outbox, n)))

(* orderSequentially, in automatic mode *)
OrderSequentially(n) ==
    /\ outbox.mode = "Automatic" /\ Edit(n)
    /\ Local(SetFlushMode(Flush(SubmitNew(SetFlushMode(outbox, "Manual"), n)), "Automatic"))

FlushManually ==
    /\ Flush(outbox) # outbox
    /\ Local(Flush(outbox)) /\ UNCHANGED edits

-----------------------------------------------------------------------------
(* The service. *)

UnchangedByService ==
    UNCHANGED <<attempt, connection, attached, inbox, lastProcessed, container, outbox,
                replayedFor, closed, edits>>

(* The server accepts the next connection: messages are sent to its socket  *)
(* from now on, and the sequencer is told of a writer.                      *)
Accept(k) ==
    /\ attempt # "none" /\ accepted = None /\ ~closed
    /\ mode[k] = "none" /\ \A j \in Connections : j < k => mode[j] # "none"
    /\ accepted' = k
    /\ open' = open \cup {k} /\ mode' = [mode EXCEPT ![k] = attempt]
    /\ raw' = IF attempt = "write" THEN Append(raw, <<Join(k)>>) ELSE raw
    /\ UNCHANGED <<log, socket, refused, others, faults>>
    /\ UnchangedByService

(* The server notices the end of a connection, or ends it itself. *)
Drop(k) ==
    /\ k \in open
    /\ IF k \in {connection, accepted} THEN Fault ELSE UNCHANGED faults
    /\ open' = open \ {k}
    /\ accepted' = IF accepted = k THEN None ELSE accepted
    /\ socket' = IF accepted = k THEN [socket EXCEPT ![k] = <<>>] ELSE socket
    /\ raw' = IF mode[k] = "write" THEN Append(raw, <<Leave(k)>>) ELSE raw
    /\ UNCHANGED <<log, mode, refused, others>>
    /\ UnchangedByService

Member(k) == /\ \E i \in DOMAIN log : log[i] = Join(k)
             /\ \A i \in DOMAIN log : log[i] # Leave(k)

(* The connections whose messages the client listens to. *)
Listening == open \cap {accepted, connection}

(* The numbers of the messages are sent to every open connection. *)
Order(messages) ==
    /\ log' = log \o messages
    /\ socket' = [k \in Connections |->
            IF k \in Listening THEN socket[k] \o [i \in 1 .. Len(messages) |-> Len(log) + i]
            ELSE socket[k]]

(* The sequencer orders the next batch or nacks it.  A reference update is  *)
(* taken note of and not ordered.                                           *)
Sequence ==
    /\ raw # <<>> /\ raw' = Tail(raw)
    /\ LET batch == Head(raw)
           type == batch[1].type
           k == batch[1].client
       IN CASE type = "join" \/ (type = "leave" /\ Member(k)) ->
                    Order(batch) /\ refused' = refused \ {k}
            [] type = "leave" /\ ~Member(k) -> UNCHANGED <<log, socket, refused>>
            [] type \in {"op", "noop"} /\ Member(k) /\ k \notin refused ->
                    /\ IF type = "op" THEN Order(batch) ELSE UNCHANGED <<log, socket>>
                    /\ UNCHANGED refused
            [] OTHER ->
                    /\ socket' = IF k \in Listening THEN [socket EXCEPT ![k] = Append(@, Nack)]
                                 ELSE socket
                    /\ UNCHANGED <<log, refused>>
    /\ UNCHANGED <<open, mode, accepted, others, faults>>
    /\ UnchangedByService

(* The sequencer evicts an idle client, or refuses one whose reference is   *)
(* below the window.                                                        *)
Evict(k) ==
    /\ Member(k) /\ Fault
    /\ raw' = Append(raw, <<Leave(k)>>)
    /\ UNCHANGED <<log, socket, open, mode, refused, accepted, others>>
    /\ UnchangedByService

Refuse(k) ==
    /\ Member(k) /\ k \notin refused /\ Fault
    /\ refused' = refused \cup {k}
    /\ UNCHANGED <<log, raw, socket, open, mode, accepted, others>>
    /\ UnchangedByService

OrderOther ==
    /\ More(1) /\ others' = others + 1
    /\ Order(<<Other>>)
    /\ UNCHANGED <<raw, open, mode, refused, accepted, faults>>
    /\ UnchangedByService

-----------------------------------------------------------------------------
Client ==
    \/ Setup \/ Receive \/ Nacked \/ Disconnected
    \/ \E s \in 0 .. InitialMessages, m \in FlushModes : Load(s, m)
    \/ \E s \in 0 .. Len(log) : FetchReply(s)
    \/ Process \/ UpdateReference

Application ==
    \/ \E n \in 1 .. 2 : Turn(n) \/ OrderSequentially(n)
    \/ FlushManually

Service ==
    \/ \E k \in Connections :
        Accept(k) \/ Drop(k) \/ Evict(k) \/ Refuse(k)
    \/ Sequence \/ OrderOther

Next == Client \/ Application \/ Service

Spec == Init /\ [][Next]_vars

=============================================================================
