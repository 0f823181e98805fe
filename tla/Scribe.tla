------------------------------- MODULE Scribe -------------------------------
(***************************************************************************)
(* Scribe on one document (lambdas/src/scribe): it follows the order of    *)
(* messages, writes the summaries of clients and, when nobody is there,    *)
(* its own to Git, answers through Deli, and checkpoints to Mongo.         *)
(*                                                                         *)
(* A message is known by its sequence number.  The state of the protocol   *)
(* is abstracted to the messages that made it.  The lambda is a JavaScript *)
(* program: between two awaits of its handler nothing else runs, which is  *)
(* the phase "running".  The environment is the deltas topic with its      *)
(* boxcars, Deli, which puts answers in the order, clients that summarize, *)
(* and crashes.                                                            *)
(*                                                                         *)
(* Not modelled: external summary writers and clearCacheAfterService-      *)
(* Summary, which nothing in the repository sets, terms, and exceptions of *)
(* the storage that are ignored; others end the lambda as a crash does.    *)
(***************************************************************************)
EXTENDS SequencesExt, FiniteSetsExt

CONSTANTS
    MaxMessages,   \* bound: length of the order
    MaxBoxcar,     \* bound: messages in a boxcar
    MaxRestarts    \* bound: crashes of the lambda

ASSUME ScribeConstants == MaxMessages \in Nat /\ MaxBoxcar \in Nat /\ MaxRestarts \in Nat

NoHandle == 0      \* no summary: handles number the commits

VARIABLES
    \* the service
    order,          \* the messages of the document
    ends,           \* boxcar -> number of its last message
    taken,          \* number of boxcars that were ever read
    committed,      \* offset of the consumer group
    replies,        \* answers on their way through Deli
    mongo,          \* the record of scribe and the numbers in opCollection
    git,            \* the summary that the document's ref points to
    \* the lambda
    position,       \* next boxcar that Kafka delivers
    scribe,         \* see Restored
    handler,        \* where the handler is, see Idle
    write,          \* the checkpoint that is written, see NoWrite
    restarts

service == <<order, ends, taken, replies>>
vars == <<service, committed, mongo, git, position, scribe, handler, write, restarts>>

-----------------------------------------------------------------------------
(* The protocol handler: its sequence number and all it has processed.     *)
EmptyProtocol == [number |-> 0, seen |-> {}]

(* IScribe *)
Checkpoint(offset, s) ==
    [offset |-> offset, number |-> s.number, minimum |-> s.minimum,
     head |-> s.head, protocol |-> s.protocol]
DefaultScribe == [offset |-> 0, number |-> 0, minimum |-> 0, head |-> NoHandle,
                  protocol |-> EmptyProtocol]
NoRecord == [DefaultScribe EXCEPT !.offset = -1]

NoSummary == [handle |-> NoHandle, number |-> 0, protocolHead |-> 0, tail |-> {}]

Numbers(set) == SetToSortSeq(set, <)

(* ScribeLambdaFactory.create and the constructor *)
Restored ==
    LET new == mongo.record = NoRecord
        last == IF new THEN DefaultScribe ELSE mongo.record
    IN [offset |-> last.offset, number |-> last.number, minimum |-> last.minimum,
        head |-> last.head,           \* lastClientSummaryHead
        protocol |-> last.protocol,
        protocolHead |-> git.protocolHead,
        pending |-> IF new THEN <<>>  \* pendingMessages
                    ELSE Numbers({n \in mongo.ops : n > last.protocol.number}),
        unwritten |-> <<>>]           \* pendingCheckpointMessages

(* The handler is at message at and, while it awaits, has kept the state   *)
(* before the message (prevState) and what it took for the summary.        *)
Idle == [phase |-> "idle", at |-> 0, previous |-> <<>>, pending |-> <<>>, tail |-> {},
         accepted |-> FALSE]
Running(n) == [Idle EXCEPT !.phase = "running", !.at = n]

(* A checkpoint in one of the steps of CheckpointManager.write, and the    *)
(* one that is queued behind it.                                           *)
NoWrite == [step |-> "none", checkpoint |-> NoRecord, inserts |-> <<>>, protocolHead |-> 0,
            queued |-> NoRecord]

Init ==
    /\ order = <<>> /\ ends = <<>> /\ taken = 0 /\ committed = 0
    /\ replies = <<>>
    /\ mongo = [record |-> NoRecord, ops |-> {}]
    /\ git = NoSummary
    /\ position = 1 /\ scribe = Restored /\ handler = Idle /\ write = NoWrite
    /\ restarts = 0

-----------------------------------------------------------------------------
(* Writing checkpoints *)

\* Mutant: the messages up to the state of the protocol are deleted.
WriteOfState(checkpoint, s) ==
    [step |-> "insert", checkpoint |-> checkpoint, protocolHead |-> s.protocol.number,
     inserts |-> s.unwritten, queued |-> NoRecord]

(* writeCheckpoint: the messages are those of the moment, which may be     *)
(* more than the checkpoint covers, and so is protocolHead                 *)
WriteOf(checkpoint, s) ==
    [step |-> "insert", checkpoint |-> checkpoint, protocolHead |-> s.protocolHead,
     inserts |-> s.unwritten, queued |-> NoRecord]

(* checkpointCore *)
Queued(checkpoint, s) ==
    IF write.step # "none" THEN [write EXCEPT !.queued = checkpoint] ELSE WriteOf(checkpoint, s)

(* Between two awaits of the handler nothing else runs. *)
Awaiting == handler.phase # "running"

(* CheckpointManager.write: insertMany, which ignores what is there, and   *)
(* then the record                                                         *)
Insert ==
    /\ Awaiting /\ write.step = "insert"
    /\ mongo' = [mongo EXCEPT !.ops = @ \cup ToSet(write.inserts)]
    /\ write' = [write EXCEPT !.step = "update"]
    /\ UNCHANGED <<service, committed, git, position, scribe, handler, restarts>>

Update ==
    /\ Awaiting /\ write.step = "update"
    /\ mongo' = [mongo EXCEPT !.record = write.checkpoint]
    /\ write' = [write EXCEPT !.step = "delete"]
    /\ UNCHANGED <<service, committed, git, position, scribe, handler, restarts>>

\* Mutant: all messages are forgotten that came before the end of the write.
ForgetAll(unwritten, inserts) == <<>>

(* writeCheckpoint forgets the messages that are now in the database. *)
Unwritten(unwritten, inserts) ==
    IF inserts = <<>> THEN unwritten
    ELSE SelectSeq(unwritten, LAMBDA n : n > Last(inserts))

(* The messages up to protocolHead are deleted, those written are          *)
(* forgotten, the offset is committed and the queued checkpoint is next.   *)
Delete ==
    /\ Awaiting /\ write.step = "delete"
    /\ mongo' = [mongo EXCEPT !.ops = {n \in @ : n > write.protocolHead}]
    /\ committed' = write.checkpoint.offset
    /\ scribe' = [scribe EXCEPT !.unwritten = Unwritten(@, write.inserts)]
    /\ write' = IF write.queued = NoRecord THEN NoWrite ELSE WriteOf(write.queued, scribe')
    /\ UNCHANGED <<service, git, position, handler, restarts>>

-----------------------------------------------------------------------------
(* The handler *)

(* processFromPending *)
ProcessedTo(target, s) ==
    LET next == {i \in DOMAIN s.pending : \A j \in 1 .. i : s.pending[j] <= target}
    IN IF next = {} THEN s
       ELSE [s EXCEPT !.protocol = [number |-> s.pending[Max(next)],
                                    seen |-> @.seen \cup {s.pending[i] : i \in next}],
                      !.pending = SubSeq(@, Max(next) + 1, Len(@))]

(* A boxcar that was checkpointed is skipped. *)
Receive ==
    /\ handler.phase = "idle" /\ position <= Len(ends)
    /\ position' = position + 1
    /\ taken' = Max({taken, position})
    /\ handler' = IF position <= scribe.offset THEN Idle
                  ELSE Running(IF position = 1 THEN 1 ELSE ends[position - 1] + 1)
    /\ UNCHANGED <<order, ends, replies, committed, mongo, git, scribe, write,
                   restarts>>

(* Messages that a checkpoint covers, and those that are in the database   *)
(* though no checkpoint covers them, are skipped.                          *)
Known(n) == n <= scribe.number \/ (scribe.pending # <<>> /\ n <= Last(scribe.pending))

(* A message is pending, and moves the protocol with the window. *)
Added(n) ==
    LET pushed == [scribe EXCEPT !.pending = Append(@, n), !.unwritten = Append(@, n),
                                 !.number = n, !.minimum = order[n].minimum]
    IN IF scribe.minimum # order[n].minimum THEN ProcessedTo(order[n].minimum, pushed)
       ELSE pushed

\* Mutant: a summary that was captured is written again.
CapturesAgain(s) == s.protocolHead <= s.protocol.number

(* "This eliminates the corner case where we have already captured this    *)
(* summary" *)
Captures(s) == s.protocolHead < s.protocol.number

(* The handler awaits the summary writer, with what it took before.        *)
Summarizing(n, before, s) ==
    [Running(n) EXCEPT !.phase = "reading", !.pending = s.unwritten,
                       !.previous = <<before.protocol, before.pending>>]

(* One iteration of the loop over a boxcar, up to its first await, and     *)
(* what follows the loop.                                                  *)
Handle ==
    /\ handler.phase = "running"
    /\ IF handler.at > ends[position - 1]
       THEN /\ scribe' = [scribe EXCEPT !.offset = position - 1]
            /\ write' = Queued(Checkpoint(position - 1, scribe), scribe)
            /\ handler' = Idle
       ELSE LET n == handler.at
                m == order[n]
                added == Added(n)
                advanced == ProcessedTo(m.ref, added)
            IN /\ UNCHANGED write
               /\ CASE Known(n) ->
                         UNCHANGED scribe /\ handler' = Running(n + 1)
                    [] ~Known(n) /\ m.type = "summarize" ->
                         /\ scribe' = advanced
                         /\ handler' = IF Captures(advanced) THEN Summarizing(n, added, advanced)
                                       ELSE Running(n + 1)
                    [] ~Known(n) /\ m.type = "noClient" ->
                         /\ scribe' = added
                         /\ handler' = Summarizing(n, added, added)
                    [] ~Known(n) /\ m.type = "ack" ->
                         /\ scribe' = [added EXCEPT !.head = m.handle]
                         /\ handler' = Running(n + 1)
                    [] ~Known(n) /\ m.type \in {"op", "nack"} ->
                         scribe' = added /\ handler' = Running(n + 1)
    /\ UNCHANGED <<service, committed, mongo, git, position, restarts>>

-----------------------------------------------------------------------------
(* The summary writer and the answers *)

(* getLogTail: if the database does not have all messages, those that are  *)
(* not written yet complete them                                           *)
LogTail(from, to, unwritten) ==
    LET found == {n \in mongo.ops : from < n /\ n < to}
        next == IF found = {} THEN from ELSE Max(found) + 1
    IN IF to - from <= 1 THEN {}
       ELSE IF Cardinality(found) = to - from - 1 THEN found
       ELSE found \cup {n \in ToSet(unwritten) : next <= n /\ n < to}

(* writeClientSummary: is the parent of the summary the last one? *)
ValidParent(m) ==
    IF m.handle = NoHandle THEN git.handle = NoHandle
    ELSE git.handle # NoHandle /\ m.handle \in {scribe.head, git.handle}

(* writeClientSummary and writeServiceSummary up to the commit *)
ReadForClient ==
    /\ handler.phase = "reading" /\ order[handler.at].type = "summarize"
    /\ LET m == order[handler.at]
       IN handler' = IF ValidParent(m) /\ m.ref >= scribe.protocol.number
                     THEN [handler EXCEPT !.phase = "committing",
                              !.tail = LogTail(scribe.protocol.number, handler.at + 1,
                                               handler.pending)]
                     ELSE [handler EXCEPT !.phase = "answering"]
    /\ UNCHANGED <<service, committed, mongo, git, position, scribe, write, restarts>>

(* There is no service summary before the first one of a client. *)
ReadForService ==
    /\ handler.phase = "reading" /\ order[handler.at].type = "noClient"
    /\ handler' = IF git = NoSummary THEN Running(handler.at + 1)
                  ELSE [handler EXCEPT !.phase = "committing",
                           !.tail = LogTail(scribe.protocolHead, handler.at + 1, handler.pending)]
    /\ UNCHANGED <<service, committed, mongo, git, position, scribe, write, restarts>>

(* The commit and the ref.  A service summary keeps the last protocol.     *)
Commit ==
    /\ handler.phase = "committing"
    /\ LET service_ == order[handler.at].type = "noClient"
       IN /\ git' = [handle |-> git.handle + 1, number |-> handler.at, tail |-> handler.tail,
                     protocolHead |-> IF service_ THEN git.protocolHead
                                      ELSE scribe.protocol.number]
          /\ handler' = [handler EXCEPT !.accepted = TRUE,
                                        !.phase = IF service_ THEN "confirming" ELSE "answering"]
    /\ UNCHANGED <<service, committed, mongo, position, scribe, write, restarts>>

Reply(type, n, handle) ==
    [type |-> type, ref |-> -1, minimum |-> 0, handle |-> handle, about |-> n]

(* sendSummaryAck, or sendSummaryNack and revertProtocolState *)
Answer ==
    /\ handler.phase = "answering"
    /\ IF handler.accepted
       THEN /\ replies' = Append(replies, Reply("ack", handler.at, git.handle))
            /\ handler' = [handler EXCEPT !.phase = "confirming"]
            /\ UNCHANGED scribe
       ELSE /\ replies' = Append(replies, Reply("nack", handler.at, NoHandle))
            /\ handler' = Running(handler.at + 1)
            /\ scribe' = [scribe EXCEPT !.protocol = handler.previous[1],
                                        !.pending = handler.previous[2]]
    /\ UNCHANGED <<order, ends, taken, committed, mongo, git, position, write,
                   restarts>>

(* sendSummaryConfirmationMessage, by which Deli updates the number up to  *)
(* which the document is durable; then a client's summary moves            *)
(* protocolHead                                                            *)
Confirm ==
    /\ handler.phase = "confirming"
    /\ scribe' = IF order[handler.at].type = "noClient" THEN scribe
                 ELSE [scribe EXCEPT !.protocolHead = scribe.protocol.number]
    /\ handler' = Running(handler.at + 1)
    /\ UNCHANGED <<service, committed, mongo, git, position, write, restarts>>

-----------------------------------------------------------------------------
(* The environment *)

Minimum == IF order = <<>> THEN 0 ELSE Last(order).minimum

(* A message is in a boxcar of its own, or in one that nobody has read.    *)
Sequence(m) ==
    /\ Awaiting /\ Len(order) < MaxMessages
    /\ order' = Append(order, m)
    /\ LET first == IF Len(ends) <= 1 THEN 1 ELSE ends[Len(ends) - 1] + 1
       IN \/ ends' = Append(ends, Len(order'))
          \/ /\ taken < Len(ends) /\ Len(order') - first < MaxBoxcar
             /\ ends' = [ends EXCEPT ![Len(ends)] = Len(order')]
    /\ UNCHANGED <<taken, committed, mongo, git, position, scribe, handler, write,
                   restarts>>

Message(type, ref, minimum, handle) ==
    [type |-> type, ref |-> ref, minimum |-> minimum, handle |-> handle, about |-> 0]

(* An operation is also the join of a client: somebody is there until the  *)
(* document is announced to be empty.                                      *)
Somebody ==
    \E i \in DOMAIN order :
        order[i].type = "op" /\ \A j \in i .. Len(order) : order[j].type # "noClient"

(* Deli orders an operation, a NoClient when nobody is there, and answers. *)
Operation ==
    /\ \E minimum \in Minimum .. Len(order) : Sequence(Message("op", minimum, minimum, NoHandle))
    /\ UNCHANGED replies

NoClient ==
    /\ Somebody
    /\ LET n == Len(order) + 1 IN Sequence(Message("noClient", n, n, NoHandle))
    /\ UNCHANGED replies

Answered ==
    /\ replies # <<>> /\ replies' = Tail(replies)
    /\ Sequence([Head(replies) EXCEPT !.minimum = IF Somebody THEN Minimum ELSE Len(order) + 1])

(* The handle of the last summary that was acknowledged up to number n.    *)
Acknowledged(n) ==
    LET acks == {i \in 1 .. n : order[i].type = "ack"}
    IN IF acks = {} THEN NoHandle ELSE order[Max(acks)].handle

(* A client summarizes what it knows; its parent is the last summary that  *)
(* it saw acknowledged or, if it has just loaded, the last there is.       *)
Summarize ==
    /\ Somebody
    /\ \E ref \in Minimum .. Len(order) : \E handle \in {Acknowledged(ref), git.handle} :
         Sequence(Message("summarize", ref, Minimum, handle))
    /\ UNCHANGED replies

(* The lambda is created anew. *)
Restart ==
    /\ Awaiting /\ restarts < MaxRestarts /\ restarts' = restarts + 1
    /\ position' = committed + 1
    /\ scribe' = Restored /\ handler' = Idle /\ write' = NoWrite
    /\ UNCHANGED <<service, committed, mongo, git>>

Next ==
    \/ Receive \/ Handle \/ ReadForClient \/ ReadForService \/ Commit \/ Answer \/ Confirm
    \/ Insert \/ Update \/ Delete
    \/ Operation \/ NoClient \/ Summarize \/ Answered
    \/ Restart

Spec == Init /\ [][Next]_vars
=============================================================================
