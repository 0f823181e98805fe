-------------------------- MODULE RouterProperties --------------------------
(***************************************************************************)
(* What the lambdas of a partition rely on.                                *)
(***************************************************************************)
EXTENDS DocumentRouter

Offsets == 0 .. Len(log)
Delivered == {m \in DOMAIN log : m < position}
States == [logOffset : Nat, messages : SUBSET Nat]
Contexts ==
    [doc : Documents, head : Nat, tail : Nat, queue : Seq(Nat), created : BOOLEAN,
     closed : BOOLEAN, corrupt : BOOLEAN, state : States, restored : Nat,
     waiting : SUBSET Nat, updating : Nat]

(* Every variable has its type, and the offsets of the partition are those *)
(* of messages in the topic.                                               *)
RouterTypeOK ==
    /\ log \in Seq(Documents \cup {NoDocument})
    /\ committed \in Offsets /\ committing \in Offsets /\ lastCheckpoint \in Offsets
    /\ tail \in Offsets /\ position \in 1 .. Len(log) + 1
    /\ record \in [Documents -> States] /\ late \subseteq [doc : Documents, state : States]
    /\ error \in {"none", "document", "commit"}
    /\ contexts \in Seq(Contexts) /\ documents \in [Documents -> 0 .. Len(contexts)]
    /\ abandoned \subseteq Documents /\ restarts \in Nat

(* Only the messages of two kinds of documents are given up: those whose   *)
(* lambda threw (documentPartition.ts:49), and those with an update that   *)
(* is not finished when their lambda is replaced (documentLambda.ts:78): a *)
(* new lambda starts without it, or it lands on what the new one stored.   *)
Owed(n) == log[n] # NoDocument /\ log[n] \notin abandoned

(* "ensuring at least one processing guarantee" (lambdas/README.md:7):     *)
(* what Kafka does not deliver again is in the state of its document that  *)
(* is stored, however the documents of the partition get on.               *)
AtLeastOnce == \A n \in 1 .. committed : Owed(n) => n \in record[log[n]].messages

(* A message that was delivered and is not stored is on its way: in the    *)
(* queue of its document, or processed by the lambda and covered by a      *)
(* checkpoint that will be or is being written, until an error ends it all.*)
InProgress(c, n) ==
    \/ n \in {c.queue[j] : j \in DOMAIN c.queue}
    \/ /\ n \in c.state.messages
       /\ \E o \in c.waiting \cup {c.updating} : n <= o

NothingForgotten ==
    error = "none" => \A n \in Delivered :
        Owed(n) => \/ n \in record[log[n]].messages
                   \/ \E i \in DOMAIN contexts :
                          contexts[i].doc = log[n] /\ InProgress(contexts[i], n)

(* The assertion of DocumentContext.checkpoint (documentContext.ts:69)     *)
(* holds for what a lambda reports, as long as the lambda did not throw.   *)
ReportsInRange ==
    \A i \in DOMAIN contexts : LET c == contexts[i]
        IN ~c.corrupt => \A o \in (c.waiting \cup {c.updating}) \ {0} : c.tail < o /\ o <= c.head

(* "Checkpoint calls should always be of increasing or equal value"        *)
(* (checkpointManager.ts:25) within one assignment of the partition, and   *)
(* the committed offset never moves back, not even across restarts.        *)
CheckpointsIncrease ==
    [][ /\ committed' >= committed
        /\ restarts' = restarts => lastCheckpoint' >= lastCheckpoint ]_vars

-----------------------------------------------------------------------------
(* The inductive invariant behind AtLeastOnce and NothingForgotten.  It    *)
(* follows a message from the topic through the queue and the checkpoints  *)
(* of its document to the stored state.                                    *)

Kept(d) == d \notin abandoned
Live(i) == documents[contexts[i].doc] = i

(* A state accounts for every message of its document up to its offset.    *)
Complete(s, d) ==
    /\ s.logOffset <= Len(log)
    /\ \A m \in 1 .. s.logOffset : log[m] = d => m \in s.messages

(* The stored state of a document accounts for these messages.             *)
Stored(d, messages) == \A m \in messages : log[m] = d => m <= record[d].logOffset

(* No offset that Kafka was or will be told passes what is stored.         *)
CommitInv ==
    \A d \in Documents :
        Kept(d) => \A offset \in {committed, committing, lastCheckpoint} :
                       Stored(d, 1 .. offset)

(* A document that is active has a context, and everything delivered to    *)
(* one that is not is stored.                                              *)
DocumentInv(d) ==
    /\ documents[d] # 0 => contexts[documents[d]].doc = d
    /\ Kept(d) => Complete(record[d], d)
    /\ Kept(d) /\ documents[d] = 0 => Stored(d, Delivered)

(* Nothing is in progress in a context that is closed, and all but the one *)
(* of an active document are.                                              *)
Status(i) ==
    LET c == contexts[i]
    IN /\ ~Live(i) => c.closed
       /\ Live(i) /\ c.closed => error # "none"
       /\ c.closed => c.queue = <<>>
       /\ ~c.created => c.waiting = {} /\ c.updating = 0
       /\ c.closed => c.waiting = {} /\ (Kept(c.doc) => c.updating = 0)
       /\ c.corrupt => ~Kept(c.doc)

(* What is in progress lies between tail and head: first the update, then  *)
(* the checkpoints that wait, then the messages in the queue.              *)
InOrder(c) ==
    /\ \A k \in DOMAIN c.queue :
           /\ c.tail < c.queue[k] /\ c.queue[k] <= c.head /\ c.updating < c.queue[k]
           /\ \A o \in c.waiting : o < c.queue[k]
           /\ \A j \in DOMAIN c.queue : j < k => c.queue[j] < c.queue[k]
    /\ \A o \in c.waiting :
           /\ c.tail < o /\ o <= c.head /\ o <= c.state.logOffset
           /\ c.updating < o /\ record[c.doc].logOffset < o
    /\ c.updating # 0 =>
           /\ c.tail < c.updating /\ c.updating <= c.head /\ c.updating <= c.state.logOffset
           /\ record[c.doc].logOffset < c.updating

(* Up to where the lambda is, or will start.                               *)
Reached(c) == IF c.created THEN c.state.logOffset ELSE record[c.doc].logOffset

(* What was delivered and is not processed is in the queue, and what is    *)
(* processed and not stored will be covered by a checkpoint.               *)
Followed(c) ==
    /\ \A m \in Delivered :
           log[m] = c.doc => m <= Reached(c) \/ \E k \in DOMAIN c.queue : c.queue[k] = m
    /\ record[c.doc].logOffset <= Reached(c)
    /\ record[c.doc].logOffset # Reached(c) => Reached(c) \in c.waiting \cup {c.updating}

(* The tail of a document is stored, and its head is the last message.     *)
Bounded(i) ==
    LET c == contexts[i]
    IN /\ c.tail <= c.head /\ c.head < position
       /\ Stored(c.doc, 1 .. c.tail)
       /\ Live(i) => \A m \in Delivered : log[m] = c.doc => m <= c.head

ContextInv(i) ==
    LET c == contexts[i]
    IN /\ Status(i)
       /\ Kept(c.doc) => /\ Complete(c.state, c.doc) /\ InOrder(c) /\ Bounded(i)
                         /\ ~c.closed => Followed(c)

(* What may still land after a reassignment is of no document that counts. *)
LateInv == \A u \in late : ~Kept(u.doc)

RouterInv ==
    /\ LateInv /\ tail < position /\ CommitInv
    /\ \A d \in Documents : DocumentInv(d)
    /\ \A i \in DOMAIN contexts : ContextInv(i)

-----------------------------------------------------------------------------
(* The inductive invariant behind CheckpointsIncrease, which holds of slow *)
(* updates and of documents whose lambda threw as well.                     *)

(* What is in progress in a context is read before position n, in order    *)
(* and ahead of its tail, and the offset that the partition has reached    *)
(* does not pass the tail while something is.                              *)
InSequence(c, n, reached) ==
    /\ c.head < n /\ c.tail <= c.head /\ c.updating <= c.head
    /\ \A o \in c.waiting : o <= c.head
    /\ \A k \in DOMAIN c.queue :
           /\ c.tail < c.queue[k] /\ c.queue[k] <= c.head /\ c.updating < c.queue[k]
           /\ \A o \in c.waiting : o < c.queue[k]
           /\ \A j \in DOMAIN c.queue : j < k => c.queue[j] < c.queue[k]
    /\ HasPendingWork(c) => reached <= c.tail

(* As long as the partition has reached no offset since it was assigned,   *)
(* everything in it comes after the offset it started from.                *)
After(c, start) ==
    /\ c.tail = 0 \/ start < c.tail
    /\ c.updating = 0 \/ start < c.updating
    /\ \A o \in c.waiting : start < o
    /\ \A k \in DOMAIN c.queue : start < c.queue[k]

OffsetInv ==
    /\ lastCheckpoint <= tail /\ tail < position
    /\ committed < position /\ committing <= lastCheckpoint
    /\ lastCheckpoint # 0 => committed <= lastCheckpoint
    /\ committing # 0 => committed <= committing
    /\ lastCheckpoint = 0 => tail = 0 \/ committed < tail
    /\ \A i \in DOMAIN contexts :
           /\ InSequence(contexts[i], position, lastCheckpoint)
           /\ lastCheckpoint = 0 => After(contexts[i], committed)

(* What a lambda that did not throw will report is ahead of the tail, also *)
(* once the update before it has moved the tail.  With the order of        *)
(* OffsetInv this is inductive, for slow updates as well.                  *)
Reportable(c) ==
    /\ c.updating # 0 => c.tail < c.updating
    /\ \A o \in c.waiting : c.tail < o /\ c.updating < o

ReportInv == \A i \in DOMAIN contexts : ~contexts[i].corrupt => Reportable(contexts[i])

-----------------------------------------------------------------------------
(* Progress *)

(* A context is held back if the last message of its document was skipped  *)
(* because the state accounts for it: the lambda never reports it.         *)
HeldBack(c) ==
    /\ HasPendingWork(c)
    /\ c.closed \/ (c.created /\ c.head <= c.restored)

(* Every message is committed in the end, unless a document is held back,  *)
(* which lasts until another message of that document arrives.             *)
EverythingCommitted ==
    \A o \in 1 .. MaxMessages :
        (Len(log) >= o) ~> (committed >= o \/ \E i \in DOMAIN contexts : HeldBack(contexts[i]))

=============================================================================
