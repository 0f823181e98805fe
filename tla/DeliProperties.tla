--------------------------- MODULE DeliProperties ---------------------------
(***************************************************************************)
(* What the ordering service must guarantee, stated over the topics, the   *)
(* Mongo record and the state of the lambda.                               *)
(***************************************************************************)
EXTENDS Deli

Types == {"Operation", "NoOp", "Summarize", "ClientJoin", "ClientLeave", "NoClient",
          "Control"}

RawMessages ==
    {m \in [type : Types, clientId : Clients \cup {None}, csn : Nat \cup {-1},
            ref : Nat \cup {-1}, immediate : BOOLEAN,
            data : Clients \cup {None} \cup ControlData] :
        m.type = "Control" => m.data \in ControlData}

OutputMessages ==
    [kind : {"op", "nack"}, type : Types, clientId : Clients \cup {None},
     csn : Nat \cup {-1}, ref : Nat \cup {-1}, seq : Nat, msn : Nat,
     deli : Checkpoints \cup {None}, src : Nat \X Nat]

ConsumerTypeOK ==
    /\ raw \in Seq(Seq(RawMessages) \ {<<>>})
    /\ position \in Nat \ {0} /\ cursor \in Nat /\ logOffset \in Nat
    /\ cursor # 0 => logOffset \in DOMAIN raw /\ cursor \in DOMAIN raw[logOffset]

LambdaTypeOK ==
    /\ sequenceNumber \in Nat /\ durableSequenceNumber \in Nat
    /\ clients \in [Clients -> ClientStates \cup {None}]
    /\ minimumSequenceNumber \in Nat /\ lastSentMSN \in Nat
    /\ lastInstruction \in {"NoOp", "ClearCache"} /\ noActiveClients \in BOOLEAN
    /\ noopTimer \in BOOLEAN

SendsTypeOK ==
    /\ deltas \in Seq(OutputMessages)
    /\ sending \in Seq(OutputMessages) /\ reverse \in Seq(RawMessages)

CheckpointTypeOK ==
    /\ waiting \in Seq([deli : Checkpoints, after : Nat])
    /\ updating \in CheckpointParams \cup {None}
    /\ queued \in CheckpointParams \cup {None}
    /\ committed \in Nat
    /\ db \in Checkpoints \cup {None, Cleared}
    /\ summary \in Checkpoints \cup {None}

EnvironmentTypeOK ==
    /\ connection \in [Clients -> {"new", "connected", "left"}]
    /\ csn \in [Clients -> Nat] /\ seen \in [Clients -> Nat]
    /\ serviced \in Nat /\ frozen \in Nat
    /\ restarts \in Nat /\ lost \in Nat /\ repeated \in Nat

(* The types of the state; the message being ticketed exists. *)
TypeOK ==
    /\ ConsumerTypeOK /\ LambdaTypeOK /\ idleTimer \in BOOLEAN /\ SendsTypeOK
    /\ CheckpointTypeOK /\ EnvironmentTypeOK

-----------------------------------------------------------------------------
(* What the lambda has sent: the durable part and what is on its way. *)

Output == deltas \o sending

Operations == {m \in {Output[i] : i \in DOMAIN Output} : m.kind = "op"}

RawOf(m) == raw[m.src[1]][m.src[2]]

Joins(c)  == {m \in Operations : m.type = "ClientJoin" /\ RawOf(m).data = c}
Leaves(c) == {m \in Operations : m.type = "ClientLeave" /\ RawOf(m).data = c}

(* The clients that have joined and not left by sequence number n. *)
MembersAt(n) ==
    {c \in Clients : /\ \E m \in Joins(c) : m.seq <= n
                     /\ ~\E m \in Leaves(c) : m.seq <= n}

-----------------------------------------------------------------------------
(* Ordering *)

(* The durable deltas topic is a total order of the raw messages: numbers  *)
(* without holes, one per message, never reassigned, whatever the restarts *)
(* replay (README.md:7).  Deli implements TotalOrder under this mapping.   *)
Order0 == INSTANCE TotalOrder WITH
    submitted <- {<<o, i>> : o \in DOMAIN raw, i \in 1 .. MaxBoxcar},
    order <- {<<deltas[i].seq, deltas[i].src>> : i \in Sequenced}

ImplementsTotalOrder == Order0!Spec

(* The messages of one client are sequenced in the order of their client   *)
(* sequence numbers, and one number once, however boxcars are repeated.    *)
ClientOrder ==
    \A m, n \in Operations :
        m.clientId # None /\ m.clientId = n.clientId =>
            (m.csn < n.csn <=> m.seq < n.seq)

(* Every operation of a client lies between its join and its leave, so     *)
(* that the quorum knows its author; a client joins and leaves once.  And  *)
(* a NoClient is sequenced when, by the order itself, nobody is connected, *)
(* with the numbers that scribe asserts (scribe/lambda.ts:226).            *)
OperationsOfMembers ==
    /\ \A m \in Operations : m.clientId # None => m.clientId \in MembersAt(m.seq)
    /\ \A c \in Clients : \A m, n \in Joins(c) : m.seq = n.seq
    /\ \A c \in Clients : \A m, n \in Leaves(c) : m.seq = n.seq
    /\ \A m \in Operations : m.type = "NoClient" =>
           MembersAt(m.seq) = {} /\ m.ref = m.seq /\ m.msn = m.seq

-----------------------------------------------------------------------------
(* The collaboration window *)

(* The minimum sequence number never decreases along the order, never      *)
(* exceeds the message's own number, and once published no later message   *)
(* refers to anything below it: merge-tree zamboni and the quorum discard  *)
(* state on the strength of that.                                          *)
CollaborationWindow ==
    \A m \in Operations :
        /\ m.msn <= m.seq
        /\ \A n \in Operations :
              n.seq > m.seq =>
                  /\ n.msn >= m.msn
                  /\ n.clientId # None => n.ref >= m.msn

(* A client nacked for leaving the window is nacked from then on.          *)
NackedForGood ==
    \A i, j \in DOMAIN Output :
        /\ i < j /\ Output[i].kind = "nack" /\ Output[i].ref \in 0 .. Output[i].msn - 1
        /\ Output[i].clientId = Output[j].clientId
        => Output[j].kind = "nack"

(* The message that follows the last one sequenced for a client is never   *)
(* nacked as a gap ("Nack if there is any gap", lambda.ts:263): only for   *)
(* its reference, its scope or because its client left.                    *)
SuccessorsAccepted ==
    \A i, j \in DOMAIN Output :
        LET m == Output[i]
            n == Output[j]
        IN /\ i < j /\ m.kind = "op" /\ n.kind = "nack"
           /\ m.clientId = n.clientId /\ n.csn = m.csn + 1
           => \/ n.ref < n.msn
              \/ Forbidden(RawOf(n))
              \/ \E k \in 1 .. j : Output[k] \in Leaves(n.clientId)

-----------------------------------------------------------------------------
(* Checkpoints and restarts *)

(* The offset below which a restart processes nothing again. *)
ReplayedAfter ==
    IF db \in {None, Cleared} \/ db.logOffset < committed THEN committed ELSE db.logOffset

(* What the lambda sent for a message that a restart would skip is durable *)
(* (lambda.ts:222: a checkpoint waits for the last send).                  *)
NothingLost ==
    \A i \in DOMAIN sending : sending[i].src[1] > ReplayedAfter

(* The consumer offset never runs ahead of the record it must be used      *)
(* with: the messages in between would be skipped unticketed.              *)
CommitFollowsRecord ==
    db \notin {Cleared} => committed <= (IF db = None THEN 0 ELSE db.logOffset)

(* The record is the state after exactly the messages up to its offset: it *)
(* counts the sequence numbers given to them and knows their members.      *)
RecordMatchesLog ==
    db \notin {None, Cleared} =>
        /\ \A m \in Operations : m.src[1] <= db.logOffset <=> m.seq <= db.sequenceNumber
        /\ TrackedIn(db.clients) = MembersAt(db.sequenceNumber)

(* The checkpoint a NoClient carries into the summary is one to start      *)
(* from: it has counted the NoClient itself and tracks nobody, so the next *)
(* number it gives is a new one.                                           *)
SummaryIsQuiescent ==
    summary # None =>
        /\ summary.sequenceNumber = serviced
        /\ summary.clients = DefaultCheckpoint.clients

-----------------------------------------------------------------------------
(* Checkpoints: the inductive invariant.                                   *)
(*                                                                         *)
(* Neither NothingLost nor CommitFollowsRecord is inductive: both depend   *)
(* on where a checkpoint is between the end of its boxcar and the commit   *)
(* of its offset.  A checkpoint is taken in "waiting", moves to "updating" *)
(* or "queued", is stored in the record and last committed; along that     *)
(* line offsets never increase, and a send that is not durable stays       *)
(* behind every checkpoint that no longer waits for it.                    *)

(* The checkpoints on their way to the record. *)
InProgress ==
    {waiting[k].deli : k \in DOMAIN waiting}
        \cup (IF updating = None THEN {} ELSE {updating.deli})
        \cup (IF queued = None THEN {} ELSE {queued.deli})

(* Where the handler is: "cursor" says whether the boxcar at logOffset,    *)
(* the last one delivered, is still being ticketed.                        *)
HandlerPosition ==
    IF cursor = 0 THEN committed < position
    ELSE committed < logOffset /\ position = logOffset + 1

(* What is checkpointed has been ticketed completely. *)
CheckpointsBehind ==
    /\ \A d \in InProgress :
          /\ committed <= d.logOffset
          /\ d.logOffset < position
          /\ IF cursor = 0 THEN d.logOffset <= logOffset ELSE d.logOffset < logOffset
    /\ db \notin {None, Cleared} =>
          IF cursor = 0 THEN db.logOffset <= logOffset ELSE db.logOffset < logOffset

(* The checkpoints are in the order of their offsets. *)
CheckpointsOrdered ==
    /\ updating = None => queued = None
    /\ updating # None => \A d \in InProgress : updating.deli.logOffset <= d.logOffset
    /\ queued # None =>
          \A k \in DOMAIN waiting : queued.deli.logOffset <= waiting[k].deli.logOffset
    /\ \A j, k \in DOMAIN waiting :
          j < k => waiting[j].deli.logOffset <= waiting[k].deli.logOffset

(* What an update in progress has stored is still there. *)
StoredIsRecord ==
    /\ updating # None /\ updating.stored =>
          db = IF updating.clear THEN Cleared ELSE updating.deli
    /\ queued # None => ~queued.stored

(* A send that is not durable belongs to a boxcar after every checkpoint   *)
(* that does not wait for it: "offset" is that boxcar's, "n" the place the *)
(* send will have in the deltas topic.                                     *)
AheadOfCheckpoints(offset, n) ==
    /\ offset > ReplayedAfter
    /\ updating # None => offset > updating.deli.logOffset
    /\ queued # None => offset > queued.deli.logOffset
    /\ \A k \in DOMAIN waiting : n > waiting[k].after => offset > waiting[k].deli.logOffset

SendsAhead ==
    \A i \in DOMAIN sending : AheadOfCheckpoints(sending[i].src[1], Len(deltas) + i)

(* All of it together: wherever the process crashes, what a restart skips  *)
(* has been sent, and what it replays has not been counted.                *)
CheckpointInv ==
    /\ HandlerPosition /\ CheckpointsBehind /\ CheckpointsOrdered
    /\ StoredIsRecord /\ SendsAhead /\ CommitFollowsRecord

-----------------------------------------------------------------------------
(* The order: the inductive invariants.                                    *)
(*                                                                         *)
(* A message is judged by the window and by the clients' entries as they   *)
(* are when it is ticketed.  So the properties of the order follow from    *)
(* what these say of everything sent before, and of what may still come.   *)
(* A restart goes back to an earlier state: what holds is said of the time *)
(* before the first one.                                                   *)

(* Nobody's reference is outside the window. *)
ReferencesInWindow ==
    /\ minimumSequenceNumber <= sequenceNumber
    /\ \A c \in Tracked : clients[c].ref \in minimumSequenceNumber .. sequenceNumber

(* No message refers to a number that is not given yet, and what the       *)
(* system writes is not from a client.                                     *)
MessageBehind(m, seq) ==
    /\ m.ref <= seq
    /\ m.type \notin {"Operation", "NoOp", "Summarize"} => m.clientId = None

InputBehind ==
    /\ \A o \in DOMAIN raw : \A i \in DOMAIN raw[o] : MessageBehind(raw[o][i], sequenceNumber)
    /\ \A i \in DOMAIN reverse : MessageBehind(reverse[i], sequenceNumber)

(* What was sent is behind the numbers that will be given next. *)
OutputBehind ==
    \A m \in Operations : m.seq <= sequenceNumber /\ m.msn <= minimumSequenceNumber

WindowInv ==
    restarts = 0 =>
        ReferencesInWindow /\ InputBehind /\ OutputBehind /\ CollaborationWindow

(* A client connects once, and joins once by what is in the raw topic. *)
JoinedOnce ==
    /\ \A o, p \in DOMAIN raw : \A i \in DOMAIN raw[o], j \in DOMAIN raw[p] :
          raw[o][i].type = "ClientJoin" /\ raw[p][j].type = "ClientJoin"
          /\ raw[o][i].data = raw[p][j].data => o = p /\ i = j
    /\ \A c \in Clients : connection[c] = "new" =>
          \A o \in DOMAIN raw : \A i \in DOMAIN raw[o] :
              raw[o][i].type = "ClientJoin" => raw[o][i].data # c
    /\ \A i \in DOMAIN reverse : reverse[i].type # "ClientJoin"

(* The handler has ticketed the message at this place. *)
Passed(src) ==
    /\ src[1] \in DOMAIN raw /\ src[2] \in DOMAIN raw[src[1]]
    /\ \/ src[1] < logOffset
       \/ src[1] = logOffset /\ (cursor = 0 \/ src[2] < cursor)

OutputPassed == \A m \in Operations : Passed(m.src) /\ RawOf(m).type = m.type

(* The lambda knows those who have joined and not left, and their numbers. *)
KnowsMembers ==
    \A c \in Clients :
        /\ c \in Tracked <=> Joins(c) # {} /\ Leaves(c) = {}
        /\ Leaves(c) # {} => Joins(c) # {}
        /\ c \in Tracked => \A m \in Operations : m.clientId = c => m.csn <= clients[c].csn

MembersInv ==
    restarts = 0 =>
        /\ position = logOffset + 1 /\ JoinedOnce /\ OutputPassed /\ KnowsMembers
        /\ OperationsOfMembers /\ ClientOrder

-----------------------------------------------------------------------------
(* Nacks: the inductive invariant.                                         *)
(*                                                                         *)
(* That a client is refused for good depends on what it has still in the   *)
(* raw topic.  Its messages are there in the order of their numbers, but   *)
(* for repetitions, and after its join.                                    *)

RawPlaces == UNION {{<<o, i>> : i \in DOMAIN raw[o]} : o \in DOMAIN raw}
RawAt(s) == raw[s[1]][s[2]]

PlacesOf(c) == {s \in RawPlaces : RawAt(s).clientId = c}
JoinsOf(c)  == {s \in RawPlaces : RawAt(s).type = "ClientJoin" /\ RawAt(s).data = c}

Before(s, t) == s[1] < t[1] \/ (s[1] = t[1] /\ s[2] < t[2])

(* Equal numbers are repetitions, and what is beyond a number comes after  *)
(* the first message with it.                                              *)
NumbersInOrder(c) ==
    \A s, t \in PlacesOf(c) :
        /\ RawAt(s).csn = RawAt(t).csn => RawAt(s).type = RawAt(t).type
        /\ RawAt(t).csn < RawAt(s).csn =>
              \E r \in PlacesOf(c) : Before(r, s) /\ RawAt(r).csn = RawAt(t).csn

ClientInput(c) ==
    /\ connection[c] # "new" => JoinsOf(c) # {}
    /\ \A s \in PlacesOf(c) :
          RawAt(s).csn <= csn[c] /\ \E t \in JoinsOf(c) : Before(t, s)
    /\ NumbersInOrder(c)

InputOrder ==
    /\ logOffset <= frozen /\ frozen <= Len(raw)
    /\ \A i \in DOMAIN reverse : reverse[i].clientId = None
    /\ \A c \in Clients : ClientInput(c)

(* A message of the client was ticketed that is beyond what is accepted    *)
(* next: the one in between is missing or forbidden, now and later.        *)
Overtaken(c) == \E s \in PlacesOf(c) : Passed(s) /\ RawAt(s).csn > clients[c].csn

Stuck(c) ==
    \A s \in PlacesOf(c) : RawAt(s).csn = clients[c].csn + 1 => Forbidden(RawAt(s))

OvertakenStuck == \A c \in Tracked : ~clients[c].nack /\ Overtaken(c) => Stuck(c)

(* A nacked client's number is beyond its operations. *)
NackedBeyond ==
    \A c \in Tracked : clients[c].nack =>
        \A m \in Operations : m.clientId = c => m.csn < clients[c].csn

NacksPassed ==
    \A i \in DOMAIN Output : Output[i].kind = "nack" =>
        /\ Output[i].clientId \in Clients
        /\ Output[i].src \in PlacesOf(Output[i].clientId) /\ Passed(Output[i].src)

(* Nothing of the client will be accepted, unless it joins again. *)
Barred(c) == c \in Tracked => clients[c].nack \/ Overtaken(c)

LowNack(m) == m.kind = "nack" /\ m.ref \in 0 .. m.msn - 1

NackedBarred == \A i \in DOMAIN Output : LowNack(Output[i]) => Barred(Output[i].clientId)

NackInv ==
    restarts = 0 =>
        /\ InputOrder /\ OvertakenStuck /\ NackedBeyond /\ NacksPassed /\ NackedBarred
        /\ NackedForGood /\ SuccessorsAccepted

(* The NoClients carry a checkpoint of the state without clients. *)
NoClientsQuiescent ==
    \A m \in Operations : m.type = "NoClient" =>
        /\ m.deli # None /\ m.deli.sequenceNumber = m.seq
        /\ m.deli.clients = DefaultCheckpoint.clients

-----------------------------------------------------------------------------
(* The order across restarts: the inductive invariants.                    *)
(*                                                                         *)
(* The numbers have no holes: before each number the topic has the ones    *)
(* below it, whatever restarts take back and give again.                   *)

(* The numbers up to x are among the first e elements of s. *)
Covered(s, x, e) ==
    \A number \in 1 .. x : \E i \in 1 .. e :
        i \in DOMAIN s /\ s[i].kind = "op" /\ s[i].seq = number

Dense(s) ==
    \A i \in DOMAIN s : s[i].kind = "op" =>
        /\ Covered(s, s[i].seq - 1, i - 1)
        /\ s[i].deli # None => s[i].deli.sequenceNumber = s[i].seq

(* What has been numbered where a restart may start is durable, or will be *)
(* before the checkpoint is written.                                       *)
CheckpointsCovered ==
    /\ \A k \in DOMAIN waiting :
          Covered(Output, waiting[k].deli.sequenceNumber, waiting[k].after)
    /\ updating # None => Covered(deltas, updating.deli.sequenceNumber, Len(deltas))
    /\ queued # None => Covered(deltas, queued.deli.sequenceNumber, Len(deltas))
    /\ db \notin {None, Cleared} => Covered(deltas, db.sequenceNumber, Len(deltas))
    /\ summary # None => Covered(deltas, summary.sequenceNumber, Len(deltas))

DenseInv ==
    /\ Dense(Output) /\ Covered(Output, sequenceNumber, Len(Output))
    /\ CheckpointsCovered

(* A message that is ticketed again gets what it got before, if nothing    *)
(* that a restart forgets has a part in it.  A NoOp is judged by the MSN   *)
(* that was sent last; and a cleared record leads back to a summary, from  *)
(* which the messages after the committed offset are ticketed differently. *)
Repeats ==
    /\ ClientOps \cap {"NoOp", "NoOpImmediate"} = {} /\ MaxIdle = 0
    /\ ~ClearCacheAfterServiceSummary

(* The number and the clients after a message that is no NoOp, from those  *)
(* before it.                                                              *)
InTurn(m, cl) ==
    /\ m.type \in {"Operation", "Summarize"} /\ m.clientId \in TrackedIn(cl)
    /\ m.csn = cl[m.clientId].csn + 1 /\ ~cl[m.clientId].nack

Outside(m, seq, cl) == m.ref # -1 /\ m.ref < MinimumOf(cl, seq)

Numbered(m, seq, cl) ==
    \/ InTurn(m, cl) /\ ~Outside(m, seq, cl) /\ ~Forbidden(m)
    \/ m.type = "ClientJoin" /\ m.data \notin TrackedIn(cl)
    \/ m.type = "ClientLeave" /\ m.data \in TrackedIn(cl)
    \/ m.type = "NoClient" /\ TrackedIn(cl) = {}

NumberAfter(m, seq, cl) == IF Numbered(m, seq, cl) THEN seq + 1 ELSE seq

ClientsAfter(m, seq, cl) ==
    CASE InTurn(m, cl) /\ Outside(m, seq, cl) ->
             [cl EXCEPT ![m.clientId] =
                 [csn |-> m.csn, ref |-> MinimumOf(cl, seq), nack |-> TRUE]]
      [] InTurn(m, cl) /\ Numbered(m, seq, cl) ->
             [cl EXCEPT ![m.clientId] =
                 [csn |-> m.csn, ref |-> IF m.ref = -1 THEN seq + 1 ELSE m.ref, nack |-> FALSE]]
      [] m.type = "ClientJoin" ->
             [cl EXCEPT ![m.data] = [csn |-> 0, ref |-> MinimumOf(cl, seq), nack |-> FALSE]]
      [] m.type = "ClientLeave" -> [cl EXCEPT ![m.data] = None]
      [] OTHER -> cl

(* The history of the ticketing: S[o][i] is the sequence number and        *)
(* C[o][i] the client table before message i of boxcar o, up to message k  *)
(* of boxcar n, the first that was never ticketed.                         *)
Reached(o, i, n, k) ==
    /\ o \in Nat \ {0} /\ i \in Nat \ {0}
    /\ \/ o < n /\ i <= Len(raw[o]) + 1
       \/ o = n /\ i <= k

HistoryShape(S, C, n, k) ==
    /\ S \in [Nat -> [Nat -> Nat]]
    /\ C \in [Nat -> [Nat -> [Clients -> ClientStates \cup {None}]]]
    /\ n \in 1 .. frozen + 1 /\ k \in Nat \ {0}
    /\ frozen < n => k = 1
    /\ n <= Len(raw) => k <= Len(raw[n])
    /\ S[1][1] = 0 /\ C[1][1] = DefaultCheckpoint.clients

Follows(S, C, o, i) ==
    /\ S[o][i + 1] \in {S[o][i], S[o][i] + 1}
    /\ Repeats =>
          /\ S[o][i + 1] = NumberAfter(raw[o][i], S[o][i], C[o][i])
          /\ C[o][i + 1] = ClientsAfter(raw[o][i], S[o][i], C[o][i])

HistorySteps(S, C, n, k) ==
    /\ \A o \in 1 .. n - 1 :
          S[o + 1][1] = S[o][Len(raw[o]) + 1] /\ C[o + 1][1] = C[o][Len(raw[o]) + 1]
    /\ \A o \in Nat, i \in Nat \ {0} : Reached(o, i + 1, n, k) => Follows(S, C, o, i)
    /\ \A o, i, p, j \in Nat :
          /\ Reached(o, i, n, k) /\ Reached(p, j, n, k)
          /\ o < p \/ (o = p /\ i <= j)
          => S[o][i] <= S[p][j]

(* The handler is at a place of the history, without restarts at the last. *)
HandlerBoxcar == IF cursor = 0 THEN logOffset + 1 ELSE logOffset
HandlerMessage == IF cursor = 0 THEN 1 ELSE cursor

HistoryState(S, C, n, k) ==
    /\ Reached(HandlerBoxcar, HandlerMessage, n, k)
    /\ sequenceNumber = S[HandlerBoxcar][HandlerMessage]
    /\ clients = C[HandlerBoxcar][HandlerMessage]
    /\ restarts = 0 => n = HandlerBoxcar /\ k = HandlerMessage

CheckpointOfHistory(d, S, C, n, k) ==
    /\ Reached(d.logOffset + 1, 1, n, k)
    /\ d.sequenceNumber = S[d.logOffset + 1][1] /\ d.clients = C[d.logOffset + 1][1]

HistoryCheckpoints(S, C, n, k) ==
    /\ \A d \in InProgress : CheckpointOfHistory(d, S, C, n, k)
    /\ db \notin {None, Cleared} => CheckpointOfHistory(db, S, C, n, k)

HistoryOutput(S, n, k) ==
    \A m \in Operations :
        /\ Reached(m.src[1], m.src[2] + 1, n, k) /\ m.src[2] # 0
        /\ S[m.src[1]][m.src[2]] + 1 = m.seq /\ S[m.src[1]][m.src[2] + 1] = m.seq
        /\ RawOf(m).type = m.type

(* A system message for client c was given a number up to x. *)
Happened(type, c, x, S, n, k) ==
    \E o \in DOMAIN raw : \E i \in DOMAIN raw[o] :
        /\ Reached(o, i + 1, n, k) /\ S[o][i + 1] = S[o][i] + 1 /\ S[o][i + 1] <= x
        /\ raw[o][i].type = type /\ raw[o][i].data = c

MembersOfHistory(c, x, cl, S, n, k) ==
    /\ Happened("ClientLeave", c, x, S, n, k) => Happened("ClientJoin", c, x, S, n, k)
    /\ c \in TrackedIn(cl) <=> /\ Happened("ClientJoin", c, x, S, n, k)
                               /\ ~Happened("ClientLeave", c, x, S, n, k)

HistoryMembers(S, C, n, k) ==
    "ClientJoin" \notin Repeatable =>
        \A o, i \in Nat : Reached(o, i, n, k) =>
            \A c \in Clients : MembersOfHistory(c, S[o][i], C[o][i], S, n, k)

History(S, C, n, k) ==
    /\ HistoryShape(S, C, n, k) /\ HistorySteps(S, C, n, k) /\ HistoryState(S, C, n, k)
    /\ HistoryCheckpoints(S, C, n, k) /\ HistoryOutput(S, n, k) /\ HistoryMembers(S, C, n, k)

(* Restarts happen only where messages repeat: nothing that they forget is *)
(* used, and no record is cleared.                                         *)
Repeating ==
    IF Repeats
    THEN /\ minimumSequenceNumber = MinimumOf(clients, sequenceNumber)
         /\ ~noopTimer /\ lastInstruction = "NoOp" /\ db # Cleared
         /\ updating # None => ~updating.clear
         /\ queued # None => ~queued.clear
    ELSE restarts = 0

(* What may be in the raw topic or on its way there. *)
Admissible(m) ==
    /\ m.type \notin {"Operation", "NoOp", "Summarize"} => m.clientId = None
    /\ Repeats =>
          /\ m.type # "NoOp"
          /\ m.type = "Control" => ~m.data.clearCache

(* Boxcars are not too large, and the handler is at one that is closed. *)
RawTopic ==
    /\ \A o \in DOMAIN raw :
          Len(raw[o]) <= MaxBoxcar /\ \A i \in DOMAIN raw[o] : Admissible(raw[o][i])
    /\ \A i \in DOMAIN reverse : Admissible(reverse[i])
    /\ frozen <= Len(raw) /\ position <= logOffset + 1
    /\ cursor # 0 => logOffset <= frozen
    /\ "ClientJoin" \notin Repeatable => JoinedOnce

HistoryInv == RawTopic /\ Repeating /\ \E S, C, n, k : History(S, C, n, k)

-----------------------------------------------------------------------------
(* Progress *)

(* Every boxcar is eventually ticketed and checkpointed.                   *)
EveryBoxcarCheckpointed ==
    \A o \in 1 .. MaxRaw : (Len(raw) >= o) ~> (ReplayedAfter >= o)

(* A NoOp left for later is: the window it opened reaches the clients      *)
(* ("they will be consolidated and sent later", lambda.ts:349), unless the *)
(* process restarts, which forgets the timer.                              *)
Published(n) == \E i \in Sequenced : deltas[i].msn >= n
NoOpsConsolidated ==
    \A n \in 1 .. MaxRaw :
        (noopTimer /\ minimumSequenceNumber >= n) ~> (Published(n) \/ restarts > 0)

(* When the last client has left and nothing else arrives, a NoClient ends *)
(* the order: without it the document is never summarized by the service.  *)
(* A restart may lose the one on its way to the raw topic.                 *)
EmptyDocument == Tracked = {} /\ position > Len(raw) /\ cursor = 0 /\ sequenceNumber > 0
Announced == \E i \in Sequenced :
    deltas[i].type = "NoClient" /\ \A j \in Sequenced : deltas[j].seq <= deltas[i].seq
EmptyDocumentAnnounced ==
    EmptyDocument ~> (Announced \/ Tracked # {} \/ restarts > 0)

=============================================================================
