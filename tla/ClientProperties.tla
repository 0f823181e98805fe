-------------------------- MODULE ClientProperties --------------------------
(***************************************************************************)
(* What a client's connection promises: its operations are ordered once,   *)
(* whatever becomes of its connections, and it processes the order without *)
(* a gap.                                                                  *)
(***************************************************************************)
EXTENDS ClientConnection

(* No inbound message trips an assertion: those of processInboundMessage   *)
(* (deltaManager.ts:1202-1215,1236), those that match an acknowledgement   *)
(* and the marks of its batch with the pending states                      *)
(* (pendingStateManager.ts:192-204,233-242,265-292), and "replayPending-   *)
(* States called twice" (305).                                             *)
AssertionsHold == ~closed

OwnOps == {i \in DOMAIN log : log[i].type = "op" /\ log[i].client # None}

(* No operation is ordered twice, and all are in the order in which the    *)
(* client made them ("DDSes will immediately resubmit all pending ops, and *)
(* some of them will be duplicates", deltaManager.ts:456-460).             *)
OperationsOnce == \A i, j \in OwnOps : i < j => log[i].op < log[j].op

PendingOps ==
    {outbox.states[i].op : i \in {j \in DOMAIN outbox.states : outbox.states[j].type = "message"}}

(* The runtime keeps exactly the operations that the client has made and   *)
(* not seen in the order.                                                  *)
PendingExactly ==
    ~closed =>
        PendingOps = 1 .. edits \ {log[i].op : i \in {j \in OwnOps : j <= lastProcessed}}

(* "after we see the join message for out new connection with our new      *)
(* client id, we know there can no longer be outstanding ops that we sent  *)
(* with the previous client id" (container.ts:1246-1248).                  *)
NothingOutstanding ==
    state = "Connected" =>
        \A k \in Connections \ {clientId} :
            /\ \A i \in OwnOps : i > lastProcessed => log[i].client # k
            /\ \A i \in DOMAIN raw : raw[i][1].type = "op" => raw[i][1].client # k

(* What is queued follows what has been processed without a gap, and what  *)
(* is pending lies beyond a gap, from whatever mixture of socket, initial  *)
(* messages and storage it comes (enqueueMessages).                        *)
InboundInOrder ==
    attached =>
        /\ inbox.inbound = [i \in 1 .. Len(inbox.inbound) |-> lastProcessed + i]
        /\ inbox.queued = lastProcessed + Len(inbox.inbound)
        /\ \A n \in inbox.pending : n > inbox.queued + 1

(* Nothing is under way between the client, the server and the storage. *)
Quiet ==
    /\ attached /\ ~closed /\ connection \in open /\ attempt = "none" /\ raw = <<>>
    /\ socket[connection] = <<>> /\ inbox.inbound = <<>> /\ inbox.fetch = Idle

(* Two races leave a client behind until another message comes: a gap was  *)
(* noticed during a fetch, and the client's join came from the storage     *)
(* before the answer of the server.                                        *)
GapIgnored == inbox.pending # {} /\ inbox.ignored
JoinMissed == state = "Connecting" /\ \E i \in 1 .. lastProcessed : log[i] = Join(connection)

(* When nothing is under way the client has, but for the two races, all    *)
(* its operations in the order and, as a writer, has processed all of it   *)
(* (the comment at deltaManager.ts:463-472; a reader may lag behind).      *)
Settled ==
    Quiet =>
        \/ GapIgnored \/ JoinMissed
        \/ /\ PendingOps = {}
           /\ mode[connection] = "write" => lastProcessed = Len(log)

-----------------------------------------------------------------------------
(* The invariant from which the proofs derive these properties. *)

NoneOr(S) == S \cup {None}
Messages == [type : {"join", "leave", "op", "noop"}, client : NoneOr(Connections),
             csn : Nat, op : Nat, batch : {"none", "begin", "end"}]
Batches == {batch \in Seq(Messages) : batch # <<>>}
PendingStates == [type : {"message", "flushMode", "flush"}, op : Nat, csn : Int,
                  mode : {"none", "Automatic", "Manual"}]
Inboxes == [queued : Nat, inbound : Seq(Nat), pending : SUBSET Nat,
            fetch : [from : Int, to : Nat], ignored : BOOLEAN]
Outboxes == [states : Seq(PendingStates), mode : {"Automatic", "Manual"}, needsFlush : BOOLEAN,
             begun : [first : Nat, batch : {"none", "begin", "end"}],
             csn : Nat, observed : Nat, submittedBy : NoneOr(Connections),
             buffer : Seq(Messages), batches : Seq(Batches)]

ClientTypeOK ==
    /\ log \in Seq(Messages) /\ raw \in Seq(Batches)
    /\ socket \in [Connections -> Seq(Nat)]
    /\ open \subseteq Connections /\ mode \in [Connections -> {"none", "read", "write"}]
    /\ refused \subseteq Connections
    /\ attempt \in {"none", "read", "write"}
    /\ accepted \in NoneOr(Connections) /\ connection \in NoneOr(Connections)
    /\ attached \in BOOLEAN /\ inbox \in Inboxes /\ lastProcessed \in Nat
    /\ state \in {"Disconnected", "Connecting", "Connected"}
    /\ pendingClientId \in NoneOr(Connections) /\ clientId \in NoneOr(Connections)
    /\ inQuorum \in BOOLEAN /\ outbox \in Outboxes
    /\ replayedFor \in NoneOr(Connections) /\ closed \in BOOLEAN
    /\ edits \in Nat /\ others \in Nat /\ faults \in Nat

(* The phases of a connection.  Connections are numbered in the order in   *)
(* which the server accepts them, and what the client remembers of one is  *)
(* of an older one until it is connected.                                  *)
Used(k) == k = None \/ mode[k] # "none"
ConnectionInv ==
    /\ \A j, k \in Connections : j < k /\ mode[k] # "none" => mode[j] # "none"
    /\ \A k \in Connections : mode[k] = "none" =>
          /\ k \notin open /\ socket[k] = <<>>
          /\ \A i \in DOMAIN log : log[i].client # k
          /\ \A p \in DOMAIN raw : raw[p][1].client # k
    /\ \A k \in {accepted, connection, clientId, replayedFor, outbox.submittedBy} : Used(k)
    /\ connection # None => accepted = None /\ attempt = "none" /\ state # "Disconnected"
    /\ connection = None => state = "Disconnected"
    /\ pendingClientId = connection
    /\ accepted # None => attempt = mode[accepted] /\ outbox.submittedBy < accepted
    /\ state = "Connected" => clientId = connection
    /\ state = "Connecting" => mode[connection] = "write"
    /\ replayedFor <= clientId
    /\ \A k \in {accepted, connection} : k # None =>
          /\ outbox.submittedBy <= k
          /\ state # "Connected" => clientId < k

(* Each number of a socket is greater than what came before, and what has  *)
(* been put aside is in the order.                                         *)
Rising(numbers, last, aside) ==
    \A i \in DOMAIN numbers : numbers[i] # Nack =>
        /\ numbers[i] \in 1 .. last
        /\ \A n \in aside : n < numbers[i]
        /\ \A j \in 1 .. i - 1 : numbers[j] < numbers[i]
(* A queue of the messages behind n, in an order of length "last". *)
Queue(box, n, last) ==
    /\ box \in Inboxes /\ n \in Nat /\ last \in Nat
    /\ box.inbound = [i \in 1 .. Len(box.inbound) |-> n + i]
    /\ box.queued = n + Len(box.inbound)
    /\ box.queued <= last /\ box.pending \subseteq 1 .. last
    /\ box.fetch # Idle => box.fetch.from \in 0 .. box.queued
Beyond(box) == \A p \in box.pending : p > box.queued + 1
InboundInv ==
    /\ Queue(inbox, lastProcessed, Len(log))
    /\ attached => Beyond(inbox)
    /\ ~attached => inbox.inbound = <<>> /\ lastProcessed = 0 /\ inbox.fetch = Idle
    /\ InitialMessages <= Len(log)
    /\ \A k \in Connections :
        /\ socket[k] # <<>> => k \in {accepted, connection}
        /\ Rising(socket[k], Len(log), inbox.pending)
        /\ k = accepted => \A i \in DOMAIN socket[k] : socket[k][i] # Nack

(* In what follows "order" stands for the log, of which n messages are     *)
(* processed, and "sent" for the batches that are not ordered yet.         *)
OwnIn(order) == {i \in DOMAIN order : order[i].type = "op" /\ order[i].client # None}
Unseen(order, n) == {i \in OwnIn(order) : i > n}
OpsUpTo(order, n) == {order[i].op : i \in {j \in OwnIn(order) : j <= n}}
OpsIn(order) == {order[i].op : i \in OwnIn(order)}
IsOwn(batch) == batch[1].type = "op"
OwnOf(sent) == {p \in DOMAIN sent : IsOwn(sent[p])}
OpsOf(sent) == UNION {{sent[p][j].op : j \in DOMAIN sent[p]} : p \in OwnOf(sent)}
Joined(order, n, k) == \E i \in DOMAIN order : i <= n /\ order[i] = Join(k)

(* A client joins and leaves alone, and joins once. *)
WellFormed(order, sent) ==
    /\ \A p \in DOMAIN sent :
        /\ sent[p][1].client # None
        /\ \A j \in DOMAIN sent[p] : sent[p][j].type = sent[p][1].type
                                     /\ sent[p][j].client = sent[p][1].client
        /\ sent[p][1].type = "join" => sent[p] = <<Join(sent[p][1].client)>>
        /\ sent[p][1].type = "leave" => sent[p] = <<Leave(sent[p][1].client)>>
    /\ \A i \in DOMAIN order : order[i].type = "join" =>
        /\ order[i].client # None /\ order[i] = Join(order[i].client)
        /\ \A j \in DOMAIN order : i # j => order[i] # order[j]
        /\ \A p \in DOMAIN sent : sent[p] # <<order[i]>>
    /\ \A p \in DOMAIN sent : sent[p][1].type = "join" =>
        \A q \in DOMAIN sent : p # q => sent[p] # sent[q]

(* A client sends operations only after it has processed its join, and     *)
(* only those of the present client are under way; s is the last client    *)
(* that has sent anything.                                                 *)
SentBy(order, n, sent, k, s) ==
    /\ \A i \in OwnIn(order) :
        /\ Joined(order, n, order[i].client) /\ order[i].client <= s
        /\ i > n => order[i].client = k
    /\ \A p \in DOMAIN sent : sent[p][1].type \in {"op", "noop"} => sent[p][1].client <= s
    /\ \A p \in OwnOf(sent) : Joined(order, n, sent[p][1].client) /\ sent[p][1].client = k

(* No operation comes after the join of client k. *)
Barrier(order, sent, k) ==
    /\ \A p \in DOMAIN sent, q \in OwnOf(sent) : sent[p] = <<Join(k)>> => q < p
    /\ \A i \in DOMAIN order : order[i] = Join(k) =>
        OwnOf(sent) = {} /\ \A j \in OwnIn(order) : j < i

NothingUnderway(order, n, sent) == Unseen(order, n) = {} /\ OwnOf(sent) = {}

(* What is under way is counted, in ascending order. *)
Ascending(sent, f) ==
    \A p, q \in OwnOf(sent) :
        \A j \in DOMAIN sent[p], l \in DOMAIN sent[q] :
            p < q \/ (p = q /\ j < l) => sent[p][j][f] < sent[q][l][f]
Counted(box, m) ==
    IF m.client = box.submittedBy THEN box.observed < m.csn /\ m.csn <= box.csn
    ELSE box.observed # box.csn
Counts(order, n, sent, box) ==
    /\ box.observed <= box.csn
    /\ \A i \in Unseen(order, n) : Counted(box, order[i])
    /\ \A i, j \in Unseen(order, n) : i < j => order[i].csn < order[j].csn
    /\ \A p \in OwnOf(sent) : \A j \in DOMAIN sent[p] :
        /\ Counted(box, sent[p][j])
        /\ \A i \in Unseen(order, n) : order[i].csn < sent[p][j].csn
    /\ Ascending(sent, "csn")

(* Operations are ordered from the first to the last of e, and all that    *)
(* are sent follow them without a gap.                                     *)
Numbered(order, e) ==
    /\ \A i, j \in OwnIn(order) : i < j => order[i].op < order[j].op
    /\ \A i \in OwnIn(order) : order[i].op \in 1 .. e /\ 1 .. order[i].op \subseteq OpsIn(order)
Following(order, sent, e) ==
    /\ \A p \in OwnOf(sent) : \A j \in DOMAIN sent[p] :
        /\ sent[p][j].op \in 1 .. e
        /\ 1 .. sent[p][j].op \subseteq OpsIn(order) \cup OpsOf(sent)
        /\ \A i \in OwnIn(order) : order[i].op < sent[p][j].op
    /\ Ascending(sent, "op")

(* The sequencer accepts what client k sends. *)
Live(order, out, k) ==
    /\ \E i \in DOMAIN order : order[i] = Join(k)
    /\ \A i \in DOMAIN order : order[i] # Leave(k)
    /\ k \notin out

MessageOps(S) == {S[i].op : i \in {j \in DOMAIN S : S[j].type = "message"}}
Increasing(S) ==
    \A i, j \in DOMAIN S : i < j /\ S[i].type = "message" /\ S[j].type = "message" => S[i].op < S[j].op

(* Is position i of the pending states S inside a batch? *)
Marker(s) == s.type # "message"
Within(S, begun, i) ==
    \/ begun # NoBatch /\ \A l \in 1 .. i - 1 : ~Marker(S[l])
    \/ \E j \in 1 .. i - 1 :
        /\ Marker(S[j]) /\ S[j] # PendingMode("Automatic")
        /\ \A l \in j + 1 .. i - 1 : ~Marker(S[l])

(* Two marks are never adjacent, but at the end of one batch and the       *)
(* beginning of another.                                                   *)
Spelled(S) ==
    /\ \A i \in DOMAIN S :
        \/ S[i] \in {PendingMode("Automatic"), PendingMode("Manual"), PendingFlush}
        \/ S[i] = PendingMessage(S[i].op, S[i].csn)
    /\ \A i \in DOMAIN S : i + 1 \in DOMAIN S /\ Marker(S[i]) /\ Marker(S[i + 1]) =>
            S[i] = PendingMode("Automatic") /\ S[i + 1] = PendingMode("Manual")

(* In automatic mode the batches are those of orderSequentially. *)
Bracketed(S, begun) ==
    \A i \in DOMAIN S :
        /\ S[i] = PendingMode("Automatic") => i > 1 /\ Within(S, begun, i)
        /\ S[i] = PendingMode("Manual") => ~Within(S, begun, i)

(* In manual mode one batch follows another. *)
Punctuated(S, begun) ==
    \A i \in DOMAIN S :
        /\ S[i] # PendingMode("Automatic")
        /\ S[i] = PendingMode("Manual") => i = 1
        /\ Marker(S[i]) /\ i = 1 => begun = NoBatch

\* The mode m differs from that of the runtime during orderSequentially.
Grammar(S, begun, runtime, m) ==
    /\ Spelled(S)
    /\ runtime = "Automatic" =>
        /\ Bracketed(S, begun) /\ \A i \in DOMAIN S : S[i] # PendingFlush
        /\ Within(S, begun, Len(S) + 1) <=> m = "Manual"
    /\ runtime = "Manual" => Punctuated(S, begun) /\ m = "Manual"

(* Message m is that of position i, and has the mark of its place in the   *)
(* batch.                                                                  *)
First(S, i) == i > 1 /\ Marker(S[i - 1])
Fits(S, begun, i, m) ==
    /\ S[i] = PendingMessage(m.op, m.csn)
    /\ Within(S, begun, i) =>
        /\ i < Len(S)
        /\ First(S, i) => m.batch = IF Marker(S[i + 1]) THEN "none" ELSE "begin"
        /\ ~First(S, i) /\ Marker(S[i + 1]) => m.batch = "end"

(* The batch goes on after position i. *)
Continues(S, begun, i) == Within(S, begun, i) /\ ~Marker(S[i + 1])
Matched(S, begun, m, goesOn) ==
    \E i \in DOMAIN S : Fits(S, begun, i, m) /\ (Continues(S, begun, i) => goesOn)
AllMatched(sent, S, begun) ==
    \A p \in OwnOf(sent) : \A j \in DOMAIN sent[p] :
        Matched(S, begun, sent[p][j], j + 1 \in DOMAIN sent[p])

(* What is under way: the order, of which n messages are processed, the    *)
(* batches sent and not ordered, the client k, its outbox, the number e of *)
(* its operations and the refused clients.                                 *)
Flow(order, n, sent, k, box, e, out) ==
    /\ order \in Seq(Messages) /\ sent \in Seq(Batches) /\ n \in 0 .. Len(order)
    /\ k \in NoneOr(Connections) /\ box \in Outboxes /\ e \in Nat
    /\ WellFormed(order, sent) /\ SentBy(order, n, sent, k, box.submittedBy)
    /\ Counts(order, n, sent, box)
    /\ Numbered(order, e)
    /\ MessageOps(box.states) = 1 .. e \ OpsUpTo(order, n) /\ Increasing(box.states)
    /\ Live(order, out, k) =>
        Following(order, sent, e) /\ AllMatched(sent, box.states, box.begun)
    /\ \A i \in Unseen(order, n) :
        Matched(box.states, box.begun, order[i], i + 1 \in Unseen(order, n))
    /\ Grammar(box.states, box.begun, box.mode, box.mode)
    /\ box.begun # NoBatch =>
        /\ n + 1 \in Unseen(order, n)
        /\ box.begun.first \in 1 .. n /\ box.begun.batch = "begin"
        /\ box.states # <<>> /\ ~Marker(box.states[1])
    /\ box.buffer = <<>> /\ box.batches = <<>> /\ ~box.needsFlush

(* Of a connection that writes the client has processed the join and, while *)
(* it holds, has sent all its operations; it gets its join when no others    *)
(* are under way, and reads only then.                                       *)
PhaseInv ==
    /\ state = "Connected" /\ mode[connection] = "write" => Joined(log, lastProcessed, connection)
    /\ \A k \in {accepted, connection} : k # None /\ state # "Connected" => Barrier(log, raw, k)
    /\ (attempt = "read" \/ \E k \in {accepted, connection} : k # None /\ mode[k] = "read")
            => NothingUnderway(log, lastProcessed, raw)
    /\ (Live(log, refused, clientId) /\ state = "Connected" /\ mode[clientId] = "write"
            /\ clientId \in open) => 1 .. edits \subseteq OpsIn(log) \cup OpsOf(raw)
    /\ outbox.mode = "Manual" /\ state = "Connected" =>
        outbox.states = <<>> \/ Marker(outbox.states[Len(outbox.states)])
    /\ ~attached => outbox.states = <<>> /\ outbox.mode = "Automatic" /\ edits = 0

ClientInv ==
    /\ ClientTypeOK /\ ConnectionInv /\ InboundInv
    /\ Flow(log, lastProcessed, raw, clientId, outbox, edits, refused)
    /\ PhaseInv /\ AssertionsHold

=============================================================================
