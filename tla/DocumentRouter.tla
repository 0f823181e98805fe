--------------------------- MODULE DocumentRouter ---------------------------
(***************************************************************************)
(* One partition of a Kafka topic in a service that runs a lambda for each *)
(* document (server/routerlicious/packages/lambdas-driver): the document   *)
(* router hands the messages of a document to the lambda of that document, *)
(* each lambda checkpoints its own progress when it likes, and the offset  *)
(* of the partition that is committed to Kafka is derived from all of them.*)
(*                                                                         *)
(* A lambda is represented by what the router relies on: which messages    *)
(* its state accounts for, and how Deli's CheckpointContext writes that    *)
(* state to Mongo, one update at a time, before it reports an offset.      *)
(*                                                                         *)
(* Offsets start at 1; 0 is LastCheckpointedOffset, "nothing yet".         *)
(* An orderly stop (drain and flush) does what a crash may do as well, and *)
(* has no action of its own.                                               *)
(***************************************************************************)
EXTENDS Integers, Sequences, FiniteSetsExt

CONSTANTS
    Documents,
    NoDocument,     \* a message that names no document
    SlowUpdates,    \* may an update outlive the inactivity period of its
                    \* document, or the assignment of the partition?
    MaxMessages,    \* bound: messages in the topic
    MaxRestarts     \* bound: restarts of the service or reassignments

ASSUME RouterConstants ==
    /\ NoDocument \notin Documents /\ SlowUpdates \in BOOLEAN
    /\ MaxMessages \in Nat /\ MaxRestarts \in Nat

VARIABLES
    log,            \* the document of each message of the partition
    committed,      \* Kafka: the last message that is not delivered again
    record,         \* Mongo: the stored state of each document
    late,           \* updates that are still on their way after a reassignment
    \* Partition and CheckpointManager
    position,       \* the next message
    committing,     \* the offset of the commit in progress, 0 if there is none
    error,          \* has an error reached the runner, which then exits?
    \* DocumentContextManager
    tail,
    lastCheckpoint,
    contexts,       \* a context with its partition and lambda, in order of creation
    \* DocumentLambda
    documents,      \* the context of each document that is active, 0 for others
    \* history and bounds
    abandoned,      \* documents whose lambda threw on a message, or whose update
                    \* is overtaken by another lambda of the document
    restarts

kafka == <<log, committed>>
consumer == <<position, tail, documents>>
checkpointing == <<committing, lastCheckpoint>>
vars == <<kafka, record, late, consumer, checkpointing, error, contexts, abandoned, restarts>>

(* A state of a document: the messages it accounts for and the last one.   *)
Fresh == [logOffset |-> 0, messages |-> {}]

(* A context (head, tail), its partition (queue, created, closed, corrupt) *)
(* and its lambda (state, waiting, updating).                              *)
NewContext(d, head, latestTail) ==
    [doc |-> d, head |-> head, tail |-> latestTail,
     queue |-> <<head>>, created |-> FALSE, closed |-> FALSE, corrupt |-> FALSE,
     state |-> Fresh,       \* what the lambda has processed
     restored |-> 0,        \* where it started
     waiting |-> {},        \* offsets to be checkpointed
     updating |-> 0]        \* the one that is being written, 0 for none

Init ==
    /\ log = <<>> /\ committed = 0
    /\ record = [d \in Documents |-> Fresh] /\ late = {}
    /\ position = 1 /\ tail = 0 /\ documents = [d \in Documents |-> 0]
    /\ committing = 0 /\ lastCheckpoint = 0 /\ error = "none" /\ contexts = <<>>
    /\ abandoned = {} /\ restarts = 0

Produce(d) ==
    /\ Len(log) < MaxMessages
    /\ log' = Append(log, d)
    /\ UNCHANGED <<committed, record, late, consumer, checkpointing, error, contexts,
                   abandoned, restarts>>

-----------------------------------------------------------------------------
(* The offset of the partition. *)

\* Mutant: a document with work in progress does not hold the offset back.
NoPendingWork(c) == FALSE

HasPendingWork(c) == c.head # c.tail

(* The message up to which no document has work left.                      *)
Checkpointable(t, cs) ==
    Min({t} \cup {cs[i].tail : i \in {j \in DOMAIN cs : HasPendingWork(cs[j])}})

(* updateCheckpoint and CheckpointManager.checkpoint: a commit is started  *)
(* unless one is in progress, which is followed by another one.            *)
UpdateCheckpoint ==
    LET offset == Checkpointable(tail', contexts')
    IN /\ lastCheckpoint' = offset
       /\ committing' = IF offset # lastCheckpoint /\ committing = 0 THEN offset ELSE committing

\* Mutant: an offset that was requested during a commit is forgotten.
CommittedOnce ==
    /\ committing # 0 /\ error # "commit"
    /\ committed' = committing /\ committing' = 0
    /\ UNCHANGED <<log, record, late, consumer, lastCheckpoint, error, contexts, abandoned,
                   restarts>>

Committed ==
    /\ committing # 0 /\ error # "commit"
    /\ committed' = committing
    /\ committing' = IF lastCheckpoint # committing THEN lastCheckpoint ELSE 0
    /\ UNCHANGED <<log, record, late, consumer, lastCheckpoint, error, contexts, abandoned,
                   restarts>>

(* Any error makes the runner exit, some time later.                       *)
Fails(kind) ==
    /\ restarts < MaxRestarts
    /\ error' = IF error = "commit" THEN error ELSE kind

CommitFails ==
    /\ committing # 0 /\ error # "commit" /\ Fails("commit")
    /\ UNCHANGED <<kafka, record, late, consumer, checkpointing, contexts, abandoned, restarts>>

-----------------------------------------------------------------------------
(* Routing: DocumentLambda.handler with setHead, handlerCore and setTail.  *)

Becomes(i, c) == contexts' = [contexts EXCEPT ![i] = c]

\* Mutant: the head of a document that is caught up moves without its tail.
SetHeadOnly(c, m) == [c EXCEPT !.head = m]

(* The tail of a document that was caught up is moved to where the router  *)
(* is, since the document has nothing pending below.                       *)
SetHead(c, m) ==
    [c EXCEPT !.head = m, !.tail = IF HasPendingWork(c) THEN c.tail ELSE tail]

\* Mutant: the context of an active document does not learn of a message.
EnqueueOnly(c, m) == [c EXCEPT !.queue = Append(@, m)]

(* A partition that is closed takes no messages.                           *)
Routed(c, m) ==
    [SetHead(c, m) EXCEPT !.queue = IF c.closed THEN @ ELSE Append(@, m)]

Deliver ==
    /\ position <= Len(log)
    /\ position' = position + 1 /\ tail' = position
    /\ LET d == log[position]
       IN \/ d = NoDocument /\ UNCHANGED <<contexts, documents>>
          \/ /\ d # NoDocument /\ documents[d] = 0
             /\ contexts' = Append(contexts, NewContext(d, position, tail))
             /\ documents' = [documents EXCEPT ![d] = Len(contexts) + 1]
          \/ /\ d # NoDocument /\ documents[d] # 0
             /\ Becomes(documents[d], Routed(contexts[documents[d]], position))
             /\ UNCHANGED documents
    /\ UpdateCheckpoint
    /\ UNCHANGED <<kafka, record, late, error, abandoned, restarts>>

-----------------------------------------------------------------------------
(* A document: its partition with its lambda.                              *)

UnchangedByLambda ==
    UNCHANGED <<kafka, record, late, consumer, checkpointing, abandoned, restarts>>

(* The lambda starts from the state in Mongo.                              *)
Created(i) ==
    /\ ~contexts[i].created /\ ~contexts[i].closed
    /\ LET stored == record[contexts[i].doc]
       IN Becomes(i, [contexts[i] EXCEPT !.created = TRUE, !.state = stored,
                                         !.restored = stored.logOffset])
    /\ UNCHANGED error /\ UnchangedByLambda

CreateFails(i) ==
    /\ ~contexts[i].created /\ ~contexts[i].closed /\ Fails("document")
    /\ Becomes(i, [contexts[i] EXCEPT !.closed = TRUE, !.queue = <<>>])
    /\ UnchangedByLambda

Busy(i) == contexts[i].created /\ contexts[i].queue # <<>>
NextMessage(i) == Head(contexts[i].queue)

(* A message that the state accounts for is skipped, without a checkpoint. *)
Skip(i) ==
    /\ Busy(i) /\ ~contexts[i].corrupt /\ NextMessage(i) <= contexts[i].state.logOffset
    /\ Becomes(i, [contexts[i] EXCEPT !.queue = Tail(@)])
    /\ UNCHANGED error /\ UnchangedByLambda

Handle(i) ==
    /\ Busy(i) /\ ~contexts[i].corrupt /\ NextMessage(i) > contexts[i].state.logOffset
    /\ LET m == NextMessage(i)
       IN Becomes(i, [contexts[i] EXCEPT
              !.queue = Tail(@), !.waiting = @ \cup {m},
              !.state = [logOffset |-> m, messages |-> @.messages \cup {m}]])
    /\ UNCHANGED error /\ UnchangedByLambda

Throw(i) ==
    /\ Busy(i) /\ ~contexts[i].corrupt /\ NextMessage(i) > contexts[i].state.logOffset
    /\ Fails("document")
    /\ Becomes(i, [contexts[i] EXCEPT !.queue = Tail(@), !.corrupt = TRUE])
    /\ abandoned' = abandoned \cup {contexts[i].doc}
    /\ UNCHANGED <<kafka, record, late, consumer, checkpointing, restarts>>

(* "Until we can dead letter - simply checkpoint as handled"               *)
HandleCorrupt(i) ==
    /\ Busy(i) /\ contexts[i].corrupt
    /\ Becomes(i, [contexts[i] EXCEPT !.queue = Tail(@), !.tail = NextMessage(i)])
    /\ UNCHANGED <<kafka, record, late, consumer, error, abandoned, restarts>>
    /\ UpdateCheckpoint

(* The lambda starts to write a checkpoint; older ones that wait for it    *)
(* are not written any more.                                               *)
Update(i, offset) ==
    /\ offset \in contexts[i].waiting /\ contexts[i].updating = 0
    /\ Becomes(i, [contexts[i] EXCEPT !.updating = offset, !.waiting = {o \in @ : o > offset}])
    /\ UNCHANGED error /\ UnchangedByLambda

(* The state as it was after the message at "offset".                      *)
StateAt(c, offset) ==
    [logOffset |-> offset, messages |-> {m \in c.state.messages : m <= offset}]

(* DocumentContext.checkpoint asserts that the offset is ahead of the tail.*)
(* If it throws, the lambda believes for ever that an update is pending.   *)
Reported(c) ==
    IF c.tail < c.updating /\ c.updating <= c.head
    THEN [c EXCEPT !.tail = c.updating, !.updating = 0]
    ELSE [c EXCEPT !.waiting = {}, !.updating = 0]

Updated(i) ==
    LET c == contexts[i]
    IN /\ c.updating # 0
       /\ record' = [record EXCEPT ![c.doc] = StateAt(c, c.updating)]
       /\ Becomes(i, Reported(c))
       /\ UNCHANGED <<kafka, late, consumer, error, abandoned, restarts>>
       /\ UpdateCheckpoint

Idle(c) == c.queue = <<>> /\ c.waiting = {} /\ c.updating = 0

(* The document was inactive for ten minutes: its partition and lambda are *)
(* closed, and the next message creates new ones.  The context stays.      *)
Inactive(i) ==
    /\ \E d \in Documents : documents[d] = i
    /\ LET c == contexts[i]
       IN /\ ~c.closed
          /\ SlowUpdates \/ Idle(c)
          /\ abandoned' = IF Idle(c) THEN abandoned ELSE abandoned \cup {c.doc}
          /\ Becomes(i, [c EXCEPT !.closed = TRUE, !.queue = <<>>, !.waiting = {}])
          /\ documents' = [documents EXCEPT ![c.doc] = 0]
    /\ UNCHANGED <<kafka, record, late, position, tail, checkpointing, error, restarts>>

-----------------------------------------------------------------------------
(* Restarts *)

\* Mutant: messages that were delivered are not delivered again.
AsRead == position

ResumeAt == committed + 1

(* The service exits and starts again, or the partition is assigned anew.  *)
(* In the latter case an update that is being written may still land.      *)
Restart ==
    /\ restarts < MaxRestarts /\ restarts' = restarts + 1
    /\ position' = ResumeAt /\ tail' = 0 /\ documents' = [d \in Documents |-> 0]
    /\ committing' = 0 /\ lastCheckpoint' = 0 /\ error' = "none" /\ contexts' = <<>>
    /\ late' = IF SlowUpdates
               THEN late \cup {[doc |-> contexts[i].doc,
                                state |-> StateAt(contexts[i], contexts[i].updating)] :
                               i \in {j \in DOMAIN contexts : contexts[j].updating # 0}}
               ELSE {}
    /\ abandoned' = abandoned \cup {u.doc : u \in late'}
    /\ UNCHANGED <<kafka, record>>

LateUpdate(u) ==
    /\ record' = [record EXCEPT ![u.doc] = u.state] /\ late' = late \ {u}
    /\ UNCHANGED <<kafka, consumer, checkpointing, error, contexts, abandoned, restarts>>

Next ==
    \/ \E d \in Documents \cup {NoDocument} : Produce(d)
    \/ Deliver
    \/ \E i \in DOMAIN contexts :
           \/ Created(i) \/ CreateFails(i) \/ Skip(i) \/ Handle(i) \/ Throw(i)
           \/ HandleCorrupt(i) \/ Updated(i) \/ Inactive(i)
           \/ \E offset \in contexts[i].waiting : Update(i, offset)
    \/ Committed \/ CommitFails \/ Restart
    \/ \E u \in late : LateUpdate(u)

(* Nobody has to produce, fail or become inactive; but the service comes   *)
(* back after an error.                                                    *)
Fairness ==
    /\ WF_vars(Deliver) /\ WF_vars(Committed) /\ WF_vars(error # "none" /\ Restart)
    /\ \A i \in 1 .. MaxMessages : WF_vars(i \in DOMAIN contexts /\
           \/ Created(i) \/ Skip(i) \/ Handle(i) \/ HandleCorrupt(i) \/ Updated(i)
           \/ \E offset \in contexts[i].waiting : Update(i, offset))

Spec == Init /\ [][Next]_vars
FairSpec == Spec /\ Fairness

=============================================================================
