-------------------------- MODULE ScribeProperties --------------------------
(***************************************************************************)
(* What the document relies on when scribe fails and starts again.         *)
(***************************************************************************)
EXTENDS Scribe

(* The numbers up to n that are neither in a state of the protocol nor     *)
(* among the messages that are to follow it.                               *)
Missing(protocol, messages, n) == 1 .. n \ (protocol.seen \cup messages)

(* Kafka commits no more than the record has.  Of the messages up to the   *)
(* boxcar that a new lambda starts after, the protocol state of the record *)
(* and the database miss none but those up to the protocol head of the     *)
(* summary in Git, wherever the process crashed; and so for the lambda     *)
(* itself whenever it awaits something.  What is missing is missing: with  *)
(* a record in Mongo, no protocol state is read from Git                   *)
(* (lambdaFactory.ts:105-112).                                             *)
OnlySummarizedMissing ==
    LET last == mongo.record
    IN /\ IF last = NoRecord THEN committed = 0
          ELSE /\ committed <= last.offset
               /\ Missing(last.protocol, mongo.ops, ends[last.offset]) \subseteq 1 .. git.protocolHead
       /\ Awaiting => Missing(scribe.protocol, ToSet(scribe.pending), scribe.number)
                          \subseteq 1 .. git.protocolHead

(* "all ops needed are written, and so we can store the final mark", and   *)
(* those that are deleted "will no longer be referenced"                   *)
(* (checkpointManager.ts:42-45): a lambda, wherever it was started from,   *)
(* has every message up to its number in its protocol state or pending.    *)
NothingMissed == Missing(scribe.protocol, ToSet(scribe.pending), scribe.number) = {}

(* The summary in Git has the whole log from its protocol state on.        *)
LogTailComplete == git # NoSummary => git.protocolHead + 1 .. git.number \subseteq git.tail

(* What clients are told of the summary with number n. *)
Answers == replies \o SelectSeq(order, LAMBDA m : m.type \in {"ack", "nack"})
AnswersTo(n) == {i \in DOMAIN Answers : Answers[i].about = n}

AnsweredOnce ==
    \A n \in DOMAIN order : \A i, j \in AnswersTo(n) :
        i # j => Answers[i].type = "nack" /\ Answers[j].type = "nack"
=============================================================================
