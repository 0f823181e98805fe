# A verification project for the Fluid Framework

This directory holds TLA+ models of the Fluid Framework, the TLC configurations that
check them on small instances, and TLAPS proofs about them. Paths below are relative to
the repository and shortened where they are plain: `deli/` and `scribe/` are directories
of `server/routerlicious/packages/lambdas/src/`; `kafka-service/` and `document-router/`
are in `server/routerlicious/packages/lambdas-driver/src/`; `quorum.ts` and `protocol.ts`
in `server/routerlicious/packages/protocol-base/src/`; `mapKernel.ts` in
`packages/dds/map/src/`; `deltaManager.ts` and `container.ts` in
`packages/loader/container-loader/src/`; `containerRuntime.ts` and
`pendingStateManager.ts` in `packages/runtime/container-runtime/src/`; `scheduler.ts` in
`packages/runtime/agent-scheduler/src/`; `mergeTree.ts`, `client.ts` and
`segmentPropertiesManager.ts` in `packages/dds/merge-tree/src/`; `sequence.ts` in
`packages/dds/sequence/src/`.

Run a check with `tlc -config deli_order.cfg MCDeli.tla`, and the proofs with
`tlapm DeliProofs.tla`, and so for `RouterProofs`, `MapProofs`, `SharedObjectsProofs`,
`AgreementProofs`, `ClientLemmas`, `ClientProofs` and `Lemmas`.

## The system

Clients of a document apply their own operations at once and send them to a service that
puts all operations of the document in one order. Everything a client shows follows from
that order and from its own operations that are not in it yet.

    client                              service
    DDS (map, sequence, ...)            alfred ---> rawdeltas ---> deli
    data store, container runtime         ^          (Kafka)         |
    container, delta manager  <-- socket --+-- broadcaster <--- deltas (Kafka)
                                              scriptorium <------/   |
                                              scribe <--------------/

| Component | State it keeps | Operations | Hard behaviour | What makes it correct | Module |
|---|---|---|---|---|---|
| Deli, `deli/lambda.ts`, with its client table and checkpoint context | sequence number, clients with their csn and reference, minimum sequence number, timers, offset | ticket a boxcar, evict idle clients, consolidate NoOps, checkpoint, restart | crash between send, Mongo and Kafka; repeated and lost messages; messages it sends to itself | a total order without holes or repetition; the collaboration window; nothing lost by a restart | `Deli` |
| Kafka producers, alfred (`services/src/rdkafkaProducer.ts`, `kafka-orderer`) | boxcars to send | order, retry, join, leave | retries that repeat a boxcar | at least once, in order | environment of `Deli` |
| Kafka service and document router (`lambdas-driver`), with document contexts and the commit manager | heads and tails per document, offsets | route, checkpoint the minimum, commit, close idle documents | asynchronous checkpoints in any order, failing commits and lambdas | the committed offset covers nothing unprocessed, grows, and advances | `DocumentRouter` |
| Scribe (`scribe/`) with its summary writer and checkpoint manager | protocol state, pending messages, summary heads; record and messages in Mongo, the summary in Git | replay the protocol, write summaries, answer them, checkpoint in three steps | a crash between two of the steps, messages that come during them, replay | nothing lost that no summary holds, complete log tails, one answer | `Scribe` |
| Scriptorium, broadcaster | batch in flight, batch pending | store, publish, checkpoint | duplicate inserts, checkpoint before delivery | every message stored; offsets only after it | none; seen from `ClientConnection` as a storage that lags and a socket that loses |
| Delta manager, container (`container-loader`) | queued, observed and processed numbers, connection, client id | connect, catch up, submit, reconnect | gaps and overlaps of three sources; nack and disconnect racing with a new connection | every delta processed once and in order | `ClientConnection` |
| Pending states (`pendingStateManager.ts`) | unacknowledged operations and batch marks | submit, acknowledge, replay | replay against acknowledgements of the old connection | each operation is in the order once | `ClientConnection` |
| SharedMap (`mapKernel.ts`) | entries, pending keys, pending ids | set, delete, clear, process, resubmit | remote operations between a local one and its acknowledgement; clears; listeners | shows the order plus its pending operations; converges | `MapKernel` |
| Quorum and protocol (`quorum.ts`, `protocol.ts`) | members, proposals, values | join, leave, propose, reject, approve, commit | late rejections, lost connections | a value is accepted or committed only when all have seen it | `ProposalQuorum` in `SharedObjects` |
| Consensus registers and queues | versions; items and who holds them | write; add, acquire, complete, release | concurrent writers, holders that leave or reconnect | the versions nobody knew; an item is in one place | `RegisterCollection`, `OrderedCollection` in `SharedObjects` |
| Agent scheduler, leadership of the container runtime | tasks registered, runnable, running | register, pick, release, reassign | a client that leaves while its write is on the way | one client runs the task, and somebody does | `SharedObjects` |
| Summarizer, summary manager and collection | elected client, pending summaries | elect, summarize, await acks | answers that never come, changes of client | one summarizer; progress | none |
| Merge tree and sequences (`mergeTree.ts`, `client.ts`, `sequence.ts`) | segments with the numbers of their insertion and removal, pending groups, collaboration window | insert, remove, annotate, replace, acknowledge, scour, send again | positions as another client saw them; edits of segments that are removed meanwhile; dropping removed segments under pending edits | every edit hits the elements that its author saw; everybody ends with the same sequence and values | `MergeTree` |
| Other shared objects (directory, cell, counter, matrix) | their data and pending operations | edits, process, resubmit | as the map; concurrent positions | convergence | none |

They interact through messages only: the two topics on the server, the socket and the
delta storage between server and client. Inside a process everything is a callback or a
promise of one JavaScript thread. PROJECT.json lists under "components" what is modelled
of each, and under "hazards" what can go wrong, line by line, with the properties that
would tell.

The models are layered as the system is. `Deli` guarantees the order that
`ClientConnection` and `SharedObjects` take for granted (`ImplementsTotalOrder`,
`CollaborationWindow`, `OperationsOfMembers`, `ClientOrder`); `DocumentRouter` represents
by a few fields the lambda that `Deli` models from the inside; `ClientConnection` shows
what `MapKernel` and `SharedObjects` assume of a reconnection, that nothing of the old
connection is outstanding when the queue is replayed (`NothingOutstanding`) and that the
queue holds exactly what is not in the order (`PendingExactly`).

## Modules

| Module | What it holds |
|---|---|
| `TotalOrder` | the abstract service: submitted messages get the numbers 1, 2, 3, ..., one each, for good |
| `Deli` | Deli, the topics and the record around it, and its environment |
| `DeliProperties` | what it must guarantee, the refinement mapping and the inductive invariants of the checkpoints, of the order and of its history across restarts |
| `DeliProofs` | type correctness, checkpoint safety, the collaboration window, who may have operations in the order and in which order they are, who is nacked for good, and, across restarts, the refinement of `TotalOrder`, the record and the checkpoint of a NoClient, for every instance |
| `DocumentRouter` | one partition of a topic: the router, its contexts and lambdas, their checkpoints and the commit to Kafka |
| `RouterProperties` | what the lambdas rely on, and the two inductive invariants behind it |
| `RouterProofs` | types, at least once and nothing forgotten, for every instance |
| `Lemmas` | facts about minima and sequences that the proofs share |
| `Scribe`, `ScribeProperties` | Scribe with Mongo, Git and its answers through Deli; what survives its crashes |
| `ClientConnection`, `ClientProperties` | one client's delta manager, container and pending states, with the service around it; what it promises and its inductive invariant |
| `ClientLemmas` | what the operators on the outbox, the pending states and the inbound queue keep |
| `ClientProofs` | assertions, the order and the acknowledgement of a client's operations, for every instance |
| `MapKernel`, `MapProperties` | the map kernels of all clients, their runtimes and the order between them; what the map promises and its inductive invariant |
| `MapProofs` | what each client shows and what it still waits for, for every instance |
| `RegisterCollection`, `OrderedCollection`, `ProposalQuorum` | a consensus register, a consensus queue and the quorum, as operators on their states |
| `SharedObjects`, `SharedObjectsProperties` | containers that use the three through one order, with the agent scheduler and the leader; what they agree on |
| `SharedObjectsProofs` | the versions of a register, for every instance |
| `AgreementProofs` | assertions, the task and proposals, for every instance |
| `MergeTree`, `MergeTreeProperties` | the merge trees of all clients with their pending groups, and the order between them; what the users of a sequence rely on |
| `MCDeli`, `MCRouter`, `MCScribe`, `MCClient`, `MCMap`, `MCSharedObjects`, `MCMergeTree` | what the runs need: symmetry, the applications of a run |

In a module, an operator that a comment marks "Mutant" is the mapped definition after it
with a plausible bug; nothing in the specification uses it. PROJECT.json pairs each with
the property that it breaks, which shows that the property depends on the code.

### Deli

State. `raw` and `deltas` are the topics, `committed` the consumer group's offset, `db`
the document's `deli` field in Mongo, `summary` the checkpoint stored in the last service
summary. The lambda's fields keep their names (`sequenceNumber`, `minimumSequenceNumber`,
`lastSentMSN`, ...); `clients` is the client sequence number manager. What is under way
has variables of its own: `sending` and `reverse` are the sends that Kafka has not made
durable, `waiting` the checkpoints that wait for `lastSendP`, `updating` and `queued` the
two slots of `CheckpointContext`.

Actions. `Deliver` is the entry of `handler`; `Ticket` is one turn of its loop and has a
disjunct for each way through `ticket()` (`TicketDuplicate`, `TicketGap`,
`TicketNonexistent`, `TicketBelowWindow`, `TicketForbidden`, `TicketRepeatedJoin`,
`TicketLeaveOfUnknown` and, by type of message, the accepted ones), including what it
sends to itself and, for the last message, the end of the handler. While a boxcar is being
ticketed (`cursor` not 0) only the environment, the network and a crash may act, as in a
JavaScript process. `IdleTimerFires` and `NoopTimerFires` are the timers,
`ForwardProduced` and `ReverseProduced` the completions of sends, `CheckpointReady`,
`Update` and `Updated` the path of a checkpoint through Mongo to Kafka. `Restart` starts a
new lambda from the record, the summary if the record was cleared, and the committed
offset. The environment connects and disconnects clients, submits their messages with any
reference they may have reached, loses messages, repeats boxcars and writes service
summaries.

Abstractions. Offsets start at 1. Time is the choice of when a timer fires and of which
client is idle. Contents are left out except whether a NoOp's are null and what system
messages carry. Left out of the code: documents with a parent, terms and epochs
(`FlipTerm` is false), traces. An update of Mongo that is on its way at a crash has landed by
then or never does; one that lands late is in `DocumentRouter`. Sends are in order and are
made durable or end with a crash, as an error of the producer restarts the lambda
(`deli/lambda.ts:230-238`). `Forbidden` needs only the set of clients that may
summarize.

### DocumentRouter

State. `log`, `committed` and `record` are Kafka's partition, its committed offset and the
stored state of each document. `position` is the next message to deliver, `tail` the
context manager's (its head is `position - 1`), `documents` the map of active documents,
and `contexts` the context manager's set: a context is never removed from it before a
restart, so each entry bundles a `DocumentContext` (`head`, `tail`), its
`DocumentPartition` (`queue`, `closed`, `corrupt`) and the lambda behind it. `committing`
and `lastCheckpoint` are the checkpoint manager's, and `error` says that the runner is
about to exit.

Actions. `Deliver` is `DocumentLambda.handler` for one message, with the three ways it may
go: no document, a new context, a known one. `Created` and `CreateFails`, `Skip`,
`Handle`, `Throw` and `HandleCorrupt` are the turns of a partition's queue; `Update` and
`Updated` the lambda's `CheckpointContext` and the report it makes; `Inactive` the closing
of a document after ten minutes. Each action that changes a tail ends with
`UpdateCheckpoint`, as `updateCheckpoint` is called at once by the code. `Committed` and
`CommitFails` end a commit. `Restart` is an exit of the runner or a new assignment of the
partition.

The lambda is Deli as the router sees it: it restores the stored state, skips what that
state accounts for (`deli/lambda.ts:173`), and asks for a checkpoint of every other
message. The state is the set of messages it has processed, which is what "at least once"
is about. `Deli` models the same lambda from the inside, with a topic of its own.

`SlowUpdates` says that an update in Mongo may last longer than a document must be idle
to be closed, or than the assignment of the partition: `documentLambda.ts:78` closes an
inactive document without asking its lambda, and `deli/checkpointContext.ts:117` retries
an update for ever. Such an update is then in `late` and lands at any time. A lambda that
is created meanwhile starts from a state without it, or is overwritten by it, and messages
that were never stored may be committed, although `lambdas/README.md:5-7` promises that
each is processed at least once. The code gives these messages up, and the model says
which they are: `abandoned` holds the documents for which that was possible, and those
whose lambda threw ("until we can dead letter", `documentPartition.ts:44`); `Owed` leaves
them out. What is checked and proved is that all other documents of the partition are
unaffected. `HeldBack` names the documents whose last message was replayed and skipped,
which are not checkpointed until they get another message and hold the whole partition
back until then.

### MapKernel

`data`, `pendingKeys`, `pendingMessageId` and `pendingClearMessageId` are the kernel's
fields, one of each per client; an entry may be `Undefined`, which is what the code
stores for a pending deleted key when it processes a clear. `pending` is the pending state
manager's queue with the local metadata (the id). `Set`, `Delete` and `Clear` are the local
operations, `SetAndListenerSets` a set whose `valueChanged` listener sets the key again,
`Process` the runtime handing the next ordered operation to the kernel (with
`processPendingLocalMessage` for its own), `Reconnect` the replay of the queue. `closed`
holds the clients whose kernel threw, from its assertion or from reading an undefined
entry. `Sequence` and `Disconnect` are the service and the network: what Deli guarantees
(`ImplementsTotalOrder`, `ClientOrder`) is what they assume.

`Reconnect` assumes that all operations of the old connection that were ordered have been
processed before the queue is replayed; this is `NothingOutstanding` of `ClientConnection`.
`Applications` is a set of applications, each the set of the operations that it uses: the
behaviours of a run start in one of them.

### ClientConnection

State. The service is `log` (the order), `raw` (batches that Deli has not ordered),
`socket` (what a connection has not delivered yet), the connections that are `open`, their
`mode`, and the clients whose messages are nacked (`refused`). `attempt`, `accepted` and
`connection` are the delta manager's connection in its stages; `inbox` its inbound queue,
its pending messages and the fetch that is running; `outbox` its outbound buffer with the
pending states of the runtime; `state`, `clientId`, `pendingClientId` and `inQuorum` the
container's. `closed` says that an assertion failed.

Actions. Of the service: `Accept` answers a connection attempt, `Sequence` orders or nacks
the next batch, `OrderOther` what other clients send, `Drop`, `Evict` and `Refuse` are the
faults. Of the client: `Setup` is the answer to its attempt, with the initial messages that
came before it; `Disconnected` and `Nacked` close a connection and start the next attempt;
`Receive` takes a message from the socket and `FetchReply` a reply of the storage, which
may have seen any prefix of the order; `Load` attaches the document; `Process` handles one
inbound message, which acknowledges an operation or, if it is the client's own join, makes
the container connected and replays the queue; `UpdateReference` is the timer that sends a
NoOp. Of the application: `Turn`, `OrderSequentially` and `FlushManually`. A message that
would trip an assertion sets `closed`.

Assumption: what was sent on a connection reaches the server before the join of the next
connection. The comment at `container.ts:1246` relies on the same.

Left out: signals, separate contents, chunked operations, read-only permissions, delays
before a reconnection, closing after 100 fetches without an answer, `setAutoReconnect`,
and when the update timer was set. Loading is one step. An application that switches the
flush mode itself is left out too: the queue does not cope with it. A switch back to
Automatic that is first in the queue trips the assertion at
`pendingStateManager.ts:235-236`, and a replay in Manual mode with a switch at its end
replays operations twice.

### SharedObjects

State. `order` holds the document's messages, `references` Deli's members, and `site` one
record per user's container: client id and connection, messages processed, the outbox, the
pending operations, and the state of the quorum, the register, the queue, the scheduler
and the leader. `RegisterCollection`, `OrderedCollection` and `ProposalQuorum` define what
an operation does to the state of one object; `SharedObjects` says when it does.

Actions. `Register`, `Pick` and `Release`, `Add` and `Acquire`, and `Propose` are calls of
the application; `Finish` ends the callback that works on an item, by `complete` or
`release`. `Process` handles one message of the order with all that follows from it: a
membership event, a write with the scheduler's reaction to it, a proposal, which it may
reject, the replay when the message is the client's own join, and the window with approval
and commit. `Order` is the service that takes the next message of an outbox, `Connect` and
`Leave` its joins and leaves (an idle client is evicted), `Refuse` the nack for a client
that has left; `Disconnect` is the network and `UpdateReference` the timer that sends a
NoOp.

A client sends NoOps for a proposal while it is a member and connected; in the code it is
enough that the connection is active (`deltaManager.ts:242-249`), so that they may start a
little earlier, while the container is still connecting. The assertions on `_leader`
(`containerRuntime.ts:1891` and 1897), whose failures only reject a promise or are logged,
are not modelled.

Sites start loaded and connected, with item 0 in the queue. NoOps that do not move the
window are not put in the order; the update timer is modelled while a proposal is
undecided. Left out: detached containers, connections that only read, snapshots, several
keys, tasks or queues, the `localRelease` event.

### MergeTree

State. `tree` has one merge tree per client: its `segments` in order, each with the fields
of the code (`seq`, `localSeq`, `removed` for `removedSeq`, `remover` for
`removedClientId`, `overlap` for `removedClientOverlap`, `localRemoved` for
`localRemovedSeq`) and the value of one key with the number of own annotations that are
pending (`segmentPropertiesManager.ts`); `groups` is `pendingSegments`, `currentSeq`,
`minSeq` and `localSeq` are the collaboration window, and `scour` is the entry of the root
block in `segmentsToScour`. `pending` and `outbox` are the runtime's queue and the
messages that are on their way, `inbox` what a client has not processed. `Reader` is a
client that makes no edits and has processed all that is ordered: it shows what the order
itself means.

Actions. `InsertLocal`, `RemoveRange`, `AnnotateLocal` and `ReplaceRange` are the edits;
they apply the operation locally and submit it. `Process` is `applyMsg`: an acknowledgement
of a pending group or a remote operation, then `updateSeqNumbers`, and scouring when the
window has moved. `Connected` is the replay: `Regenerated` makes new operations of the
pending groups, one for each segment, at the positions the segments have by now. `Order`,
`Disconnect` and `Connect` are the service and the network. A reconnected client is
connected when it has seen its own join, as `ClientConnection` shows, and `minimum` is any
number from the old minimum to the least reference, which Deli's window allows
(`CollaborationWindow`).

`Visible` is `nodeLength` of a segment, `Places` is `insertingWalk` with `breakTie`, and
`InRange` is `mapRange`. A segment is one element, as a marker is, so that none is split
or joined, and there are fewer of them than a block holds, so that the tree is a list and
the partial lengths are sums. `Names` of segments are history: the code has pointers where
the model has names. Left out: blocks of blocks with their partial lengths, several keys,
combining operations, local references, intervals, markers' registers, snapshots, and
ranges that are empty or reversed. The new short client id after a reconnection is not
told from the old one, because the client has processed all its old operations before it
sends with the new one.

Three histories say what the properties exempt. `passed`: an insertion went behind a
removed segment that is still in the tree; `astray`: an annotation was sent again though
its element is removed; `expected`: the elements that remain if every edit does what its
author meant. What the model shows beyond the properties that are checked:

- The order of elements differs between clients (`merge_tree_diverges`). u1 inserts at the
  start while u2 removes the element there; u2, which has the acknowledgement of its
  removal, inserts at the start as well. `breakTie` (`mergeTree.ts:2290`) lets u2's new
  element go behind the removed one, since u2 knows that it is removed by the number of
  the operation; when u1's older operation comes, it goes in front of the removed segment.
  u2 shows the element of u1 first. At the others, the element of u1 is in front of the
  removed one when that of u2 comes, which is placed before all that is newer than its
  reference. The same may follow from an insertion that is sent again next to a removed
  segment.
- A pending annotation of an element that somebody else has removed is sent again
  (`client.ts:730`) at the position where the element was, and annotates the element after
  it at all other clients. `ValuesConverge` therefore exempts `astray`.

### Scribe

State. `order` and `ends` are the deltas topic with its boxcars, `committed` its offset,
`replies` the answers on their way through Deli; `mongo` is scribe's record with the
numbers in the operations collection, `git` the summary that the document's ref points to.
`scribe` holds the lambda's fields under shortened names (`pending` is `pendingMessages`,
`unwritten` is `pendingCheckpointMessages`), `handler` says at which message and at which
`await` the handler is, and `write` which step of a checkpoint is being written.

Actions. `Receive` takes a boxcar. `Handle` is a turn of the handler's loop: it follows one
message, drains the pending messages into the protocol state and, for a `Summarize` or a
`NoClient`, starts the summary; after the last message it starts or queues a checkpoint.
`ReadForClient` and `ReadForService`, `Commit`, `Answer` and `Confirm` are the parts of a
summary, steps of their own because the handler awaits between them. `Insert`, `Update`
and `Delete` are the three steps of a checkpoint, which run beside the handler. `Restart`
may come at any `await`. `Operation`, `NoClient`, `Summarize` and `Answered` put messages
in the order.

A message is known by its number, and the state of the protocol by the messages that made
it; "op" also stands for joins and leaves. Deli's boxcars and clients that summarize are
the environment.

What the model shows beyond the properties that are checked:

- `checkpointManager.ts:42-45` says that all operations needed are written and that those
  it deletes "will no longer be referenced" (`scribe_deleted`). After a crash that follows
  the commit of a summary, the new lambda takes `protocolHead` from Git
  (`scribe/lambdaFactory.ts:132`) but its protocol state from Mongo; its first checkpoint
  deletes the operations up to the head while the record's protocol state is older
  (`scribe/lambda.ts:363`), and a second crash leaves the lambda without them. They are
  missing for good: it processes what follows, and the next summary that it accepts has a
  quorum without them. One crash is enough if a boxcar goes on after the `Summarize`, say
  with a `NoClient`: while that is being summarized, an older checkpoint that is queued is
  written with the new head. `OnlySummarizedMissing` says how far this goes: nothing is
  missing beyond the protocol head of the summary in Git.
- A replayed `NoClient` (`scribe/lambda.ts:237`) is not compared with the summary in Git:
  with an operation, a `NoClient`, an operation and a `Summarize` that is committed and
  confirmed, a crash before the checkpoint makes the replayed `NoClient` put an older
  service summary in place of the newer one and report an older durable number, while Deli
  asserts that it does not decrease (`deli/lambda.ts:511-512`).
- A queued checkpoint may write a `Summarize` that is being processed to the database.
  After a crash the replay skips it (`scribe/lambda.ts:133-136`), and it is never answered.
- Two summaries with the same parent are both accepted if the second is sequenced before
  the acknowledgement of the first is processed (`summaryWriter.ts:80-81` says that the
  first wins). This needs more messages than the run has.

A write to Mongo that is on its way at a crash has landed by then or never does.

Left out: `clearCacheAfterServiceSummary` and external writers, which nothing in the
repository sets, terms, exceptions of the storage that are ignored, and the trees and
blobs of a summary.

## Runs

Bounds are constants with names that start with `Max`; `Applications` bounds the calls of
an application. All runs have at most two clients: the code compares a client with "the
others" as a whole (minimum, order, membership), and each hazard listed takes two. Deadlock
is not checked, since with the environment's bounds used up a run may stop anywhere.

| Run | Question | Bounds and why they suffice |
|---|---|---|
| `deli_restart` | Does a crash at any point lose, repeat or renumber anything, and does everything get done? `NothingLost`, `CommitFollowsRecord`, `RecordMatchesLog`, refinement of `TotalOrder`; checkpoints, consolidated NoOps, the announcement of an empty document. | one restart, two raw offsets with two messages each or three with one: a crash between the two sends of a boxcar while the checkpoint before it is being written, and checkpoints queued behind another (the theorems are about any number); `MCDeli` keeps NoOps and restarts apart (`NoOpsApart` and `RestartsApart`, see below), by restricting clients and crashes only |
| `deli_order` | Is the order right in itself? Window, order of each client, duplicates, gaps and nacks, operations only of members, NoClient and the service summary only for an empty document. | four offsets, one lost and one repeated message, direct and forbidden messages, eviction, the idle timer up to the second: a join, an operation that moves the window, one that falls below it, and one after that fit; a client can be evicted and its document announced as empty and summarized while the other joins |
| `router_commit` | Is a committed message accounted for in the state that is stored, and is every message committed in the end, though updates may outlive their lambda? At least once, nothing forgotten, reports that fit the context, offsets that only grow, progress. | two documents, three messages, one restart: both documents can have messages at different stages, one can become inactive and come back, and a commit can be overtaken by another; the first message of a document is one of `d1`, which the two could exchange (`D1First`) |
| `scribe_summaries` | What do two crashes leave of scribe's work? Messages missing only up to the summary (`OnlySummarizedMissing`), `LogTailComplete`, `AnsweredOnce`. | four messages in boxcars of two, two restarts: a summary, its answer, a message after it and a checkpoint of each stage at a crash |
| `client_reconnect` | Is every operation ordered once and in order, and every message processed once and in order, over reconnections? Assertions, pending states, and quiescence. | one message before the load, two of the client or others, one fault, which costs up to three connections; requests to the storage span less than two messages, so a catch-up takes several |
| `map_shared` | Does a map show the order plus its pending operations, and end like the others? Kept keys, exact ids, no failed assertion, convergence. | two keys, three edits, one reconnection; one application sets and deletes, one sets, clears and has a listener that sets, one sets, deletes and clears |
| `shared_objects` | Do clients agree on a task, on items and on a proposal? | five applications of two to three calls, one disconnect or eviction; the order itself is not bounded, the reachable states are finite |
| `merge_tree` | Do edits hit what their author saw, and does everybody end with the same sequence? No position out of range and no acknowledgement astray, text (unless `passed`), values (unless `astray`), elements kept. | one element, three edits of all kinds by two users, one lost connection: two edits of one user against one of the other, with a removed segment between, replays of two pending groups, and a window that moves past a removal |
| `map_clear_diverges` | violation of `Converged`: a set acknowledged while a clear is pending stays in `pendingKeys` | sets and clears |
| `scribe_deleted` | violation of `NothingMissed`: messages that a replay deleted are missing in the protocol state (`checkpointManager.ts:42-45`) | three messages, two restarts |
| `shared_leader` | violation of `SingleLeader`: a leader that was evicted while idle and has reconnected still considers itself the leader, as does the client that took the task over (`containerRuntime.ts:1895`) | two clients that pick the task, one eviction |
| `merge_tree_diverges` | violation of `TextConverges`: an insertion behind a removed element against one in front of it | two elements, three insertions and removals, no lost connection |

The violations are disagreements between code and documentation that the models showed,
one for each of the components they are in; PROJECT.json quotes both sides. Others are told in
the sections on the modules above and in the list below: they follow from the same models but no run
states them. They also mark where the other runs stop: in `deli_restart` the behaviours
with a restart have operations only, no message is lost, so that none is nacked for a gap,
and there is no idle timer; `router_commit` leaves out what is `Owed` no longer, `merge_tree` what is
`passed` or `astray`; and `map_shared` asks of applications that clear only what a client
sees of its own keys. What happens when these restrictions are lifted:

- `lastSentMSN` (`deli/lambda.ts:101`) is not in the checkpoint and starts at 0 after a
  restart, so a replayed NoOp may take a number that it did not take before, and the
  messages after it get numbers other than the durable ones, although `deli/README.md:7`
  promises a unique number. `ImplementsTotalOrder` is therefore checked with NoOps only where
  nothing restarts (`NoOpsApart` and `RestartsApart` of `MCDeli`).
- With "ClientJoin" in `Repeatable`, `SuccessorsAccepted` fails.
- With `MaxLost = 1`, `NoOpsConsolidated` fails, since a nack counts as publishing the
  window.
- A forbidden `Summarize` is nacked without recording its csn (`deli/lambda.ts:337`), so
  what the client sends next has a gap.
- With deletes and clears in one application, `Converged` fails because a clear by another
  client turns a pending delete into an undefined entry; with listeners it fails for sets
  alone.
- A proposal that its client forgot at a disconnect and that is sequenced all the same
  closes the container (`quorum.ts:212`); `AssertionsKept` leaves this reason out.

`Settled` of `client_reconnect` names two races that leave a client behind until another
message comes. `fetchMissingDeltas` returns when a fetch is running (`deltaManager.ts:1270`),
and the gap it was called for is not remembered, whatever the comment at 463-470 says
(`GapIgnored`). And if the client's own join is read from the storage before the server's
answer to its connect, the container stays "Connecting" (`container.ts:1131`, `JoinMissed`).

Fairness. `Deli` assumes weak fairness of its own steps, of the completion of sends and
of the Mongo update, which retries for ever (`deli/checkpointContext.ts:116`); nothing is
assumed of clients, scribe or restarts. `MapKernel` assumes that ordering, delivery and
reconnection go on, and nothing of edits. `DocumentRouter` assumes that delivery, the
work of each document (which has a queue of its own) and commits go on, and that the
service comes back after an error (its runner exits and is restarted); nothing is assumed
of producers, failures or inactivity. `ClientConnection`, `SharedObjects`, `Scribe`
and `MergeTree` have no fairness: what must have happened in the end is stated of the
states in which nothing is under way any more (`Settled`, `TaskTaken`,
`NothingLostOrRevived`), which every behaviour without further faults
reaches when messages arrive.

## Proofs

`DeliProofs` proves for any finite set of clients and any values of the bounds, from the
assumption `DeliConstants`:

- `TypeCorrect`: `Spec => []TypeOK`, by one lemma per group of actions (no run checks
  the type invariant again). The assertions of
  the code that a message exists at `cursor`, and that the minimum of a non-empty set of
  clients is a number, are part of it; the latter is `MinNat` of `Lemmas`, from the
  well-foundedness of the naturals.
- `CheckpointsInOrder`: `Spec => []CheckpointInv`. Neither of the two properties below is
  inductive: both depend on where a checkpoint is between the end of its boxcar and the
  commit of its offset. The invariant follows the path: checkpoints leave the handler in
  the order of their offsets and keep it in `waiting`, `queued`, `updating`, the record and
  the commit; and a send that is not durable belongs to a boxcar after every checkpoint
  that does not wait for it, because `after` counts the sends made before. A restart keeps
  it because it keeps only the record and the offset.
- `NoMessageLost` and `RecordBeforeCommit` follow: `Spec => []NothingLost` and
  `Spec => []CommitFollowsRecord`, the latter being a part of the invariant.

It proves the properties of the window and of the members, from the same
assumption, for the time until the first restart. A restart goes back to an earlier state,
and with NoOps what is replayed may take other numbers (see above), so that they are
not properties of the code without that condition.

- `WindowInvariant`: `Spec => []WindowInv`, and from it `CollaborationWindowHolds`. The
  window of a message depends on the clients' references when it is ticketed, so the
  invariant says of every reference in the client table that it is between the minimum and
  the sequence number (`ReferencesInWindow`), of every message in the topics that it
  refers to a number that was given already (`InputBehind`), and of what was sent that it
  is behind the current two numbers (`OutputBehind`). `TicketInWindow` goes through the
  fourteen ways a ticket ends. An operation sent with reference -1 is the one that refers
  to a number that is just being given.
- `MembersInvariant`: `Spec => []MembersInv`, and from it `OperationsOnlyOfMembers` and
  `ClientsInOrder`, if producers write no boxcar with a join twice ("ClientJoin" is not
  `Repeatable`; otherwise a client that left could be let in again). The invariant relates
  the client table to the order: it tracks those who have joined and not left, with a
  number that none of their operations exceeds (`KnowsMembers`). For a join that this is
  the first of its client follows from what is in the raw topic (`JoinedOnce`) and from the
  place of the handler in it: whatever was sent, was sent for a place it has passed
  (`OutputPassed`). `TicketOutcome` sums up the ways a ticket ends from the members' point
  of view: nothing is sequenced, a member comes, one leaves, one goes on, or the service
  speaks.

- `NackInvariant`: `Spec => []NackInv`, and from it `NackedRemainNacked` and
  `SuccessorsNotRefused`, again if producers repeat no join. After a nack the client table
  need not say that the client is nacked: the check for a gap comes first
  (`deli/lambda.ts:264`) and leaves the table alone, although the message's reference may be
  below the window too. That the client gets nothing more all the same depends on what it
  still has in the raw topic: behind its join (`ClientInput`), in the order of its numbers but for
  repetitions, so that a number that comes late was there before (`NumbersInOrder`). Once
  the handler has passed a number beyond the next one (`Overtaken`), the next one is
  missing, or it is that of a summary that the client has no scope for, now and later
  (`Stuck`); so whoever got a nack for a message below the window has left,
  is in the table as nacked, or is overtaken (`NackedBarred`). The same part shows that a successor was never refused as a
  gap: a nacked client's number is beyond all of its operations (`NackedBeyond`).

And it proves what the order is across restarts:

- `SummaryToStartFrom`: `Spec => []SummaryIsQuiescent`, without further conditions. A
  NoClient is ticketed when nobody is tracked, and the checkpoint that it carries is taken
  after it got its number; operations do not change once they are sent
  (`NoClientsQuiescent`).

- `NumbersWithoutHoles`: `Spec => []DenseInv`, without further conditions. Before an
  operation with a number, every lower number has been sent, and all that a restart may
  start after is durable. So a crash never leaves a hole, not even when what is replayed
  takes other numbers.
- `HistoryInvariant`: `Spec => []HistoryInv`. What was ticketed before and after a restart
  cannot be compared in one state; the invariant asks for a *history* instead: a sequence
  number and a client table before every message of the raw topic up to the first one that
  was never ticketed, such that consecutive places follow from each other as `ticket()`
  computes them. The handler, each checkpoint on its way, the record and each operation sent
  (with its `src`) are at places of it. A new message extends the history by one place
  (`FrontierShape`, `FrontierSteps`, `FrontierMembers`); a restart goes back to an earlier
  place of it (`RestartHistory`); and a message that is ticketed again gets what the history
  has for it (`TicketFollows`, `ReplayedMessage`).
- The conditions are `MaxRestarts = 0 \/ Repeats` and `MaxBoxcar # 0`. `Repeats` says that
  ticketing a message depends on nothing that a restart forgets: clients send no NoOps, no
  client is evicted for idleness and no record is cleared; each of them makes a replay
  differ in the code, as described above. Without restarts the theorem needs none of it.
  `MaxBoxcar` bounds the boxcars of the model, and one of size 0 holds nothing.
- `OrderImplemented`: `Spec => ImplementsTotalOrder`, under the same conditions. By the
  history two operations have one number exactly when they have one place
  (`NumbersUnique`). By `DenseInv` the durable numbers below that of the next durable
  operation are all the lower ones (`NextOperation`), so it repeats what is durable, a
  stutter, or gets one more than their cardinality (`CountNumbers`), a step `Sequence`.
  What arrives in the raw topic is `Submit`.
- `RecordAgreesWithLog`: `Spec => []RecordMatchesLog`, if besides producers repeat no join:
  the record is at a place of the history, and what the history has up to its number is
  sent (`HappenedSent`).

TLC evaluated `DenseInv` and `HistoryInv`, with the history computed from the raw
topic, on an instance of operations with a restart and on that of `deli_order` before the proofs, and `NackInv`
and `NoClientsQuiescent` on a smaller one with lost and repeated boxcars.

`RouterProofs` proves for any set of documents and any values of the bounds, from
`RouterConstants`, whether or not updates are slow:

- `RouterTypes`: `Spec => []RouterTypeOK`. It includes that the offset `updateCheckpoint`
  finds is that of a message (`CheckpointableBounds`).
- `RouterInvariant`: `Spec => []RouterInv`. `AtLeastOnce` is not inductive: that a committed message is stored depends on every place the message
  passed. The invariant has one part for each. `CommitInv`: no offset that Kafka was or
  will be told passes what is stored. `DocumentInv`: a stored state accounts for all
  messages of its document up to its offset, and a document without an active context has
  everything delivered stored. `ContextInv`: in the context of an active document, what
  was delivered is processed or in the queue (`Followed`), what is processed is stored or
  covered by a checkpoint that is waiting or being written, these lie in order between
  tail and head (`InOrder`), and everything up to the tail is stored (`Bounded`). The
  offset of the partition is below the tails of the contexts with work left; of a context
  with none, all is stored up to its tail, which is its head, and so all that was delivered
  (`OffsetStored`, `CommitsStored`). The proof has a lemma per action for the context that
  it changes and one for the contexts that it leaves alone (`Untouched`).
  `LateInv` says that an update on its way after a restart is of an abandoned document.
  It is kept because the two steps that can leave an update behind, `InactiveStep` and
  `RestartStep`, abandon its document, and it is used by `LateUpdateStep`: an update that
  lands late changes no record the invariant speaks about.
- `AtLeastOnceHolds` and `NothingForgottenHolds` follow:
  `Spec => []AtLeastOnce` and `Spec => []NothingForgotten`.

Its last part proves for all documents, the abandoned ones included:

- `OffsetInvariant`: `Spec => []OffsetInv`. That the offset of the partition does not move
  back depends on each context. `InSequence` says of a context that what its lambda still
  has in the queue comes after what it is writing, after all that waits, and after the
  tail, and that while there is work left the tail is not below the offset that the
  partition has reached. A report by the lambda that does not fit is dropped
  (`DocumentContext.checkpoint` throws), so that the tail grows even where `RouterInv` does
  not hold. `After` covers the time before the first checkpoint of an assignment, when
  `lastCheckpoint` is still 0 and only Kafka's offset tells where the partition started.
- `CheckpointsIncreaseHolds`: `Spec => CheckpointsIncrease`, from the invariant before
  each step: a new offset is a minimum of tails, each of which is at least the last one.
- `ReportsInRangeHolds`: `Spec => []ReportsInRange`, unless a lambda threw or was replaced
  during an update. That a report fits the context (`documentContext.ts` throws if not)
  needs to know where it waits: `ReportInv` says that the offset that is being updated is
  above the tail, and what waits behind it above both; that none is above the head is part
  of `InSequence`.

`MapProofs` proves for any set of clients, keys, values and applications and any number of
edits and disconnections, from `MapConstants`:

- `MapInvariant`: `Spec => [](MapTypeOK /\ MapInv)`. What a client shows is right at each
  step only because its acknowledgements come in the order of its pending operations, and
  nothing in the kernel says so. `InOrder` does: the operations that are in the order, of
  this client and not processed by it, are the first `sent` of its pending operations, at
  increasing places. `IdsNamed` says of `pendingKeys` and `pendingClearMessageId`
  that they are the ids of the last pending operation on a key, and `IdsIncrease` that an
  earlier one cannot be taken for it when it is acknowledged. `EntriesKept` covers the
  applications that clear: an entry that the client set last stays a value, and where an
  entry is undefined the client is deaf to others, so that nothing inbound throws.
  `EntriesShown` gives the entry of each key in plain applications, which neither clear nor
  set from a listener. A resubmission gives new ids to everything that is pending;
  `ReconnectInv` shows that the names follow.
- `LocalViewHolds` and `PendingUnackedHolds`: `Spec => []LocalView` and
  `Spec => []PendingUnacked`, where the maxima that these two speak of are related to the
  last operations of the invariant.

`SharedObjectsProofs` proves for any finite set of users, any applications and any number
of faults, from `SharedObjectsConstants`:

- `VersionsInvariant`: `Spec => []VersionsInv`, and from it `VersionsExactHolds`:
  `Spec => []VersionsExact`. The invariant adds to `VersionsExact` that whatever is pending,
  on its way or in the order is an operation with the reference of its write, and that
  nobody has processed more than the order has. That a write is removed by the next one
  that knew it, and by no other, is `NextUnseen`; that the atomic version survives a write
  that loses is `NextExact`, from `Wins`: the loser knew less than the atomic version.
  Everything else a container does leaves the register alone; there is a lemma for each
  operator (`Kept`).

`AgreementProofs` proves for the same users, applications and faults what they agree about:

- `AgreementInvariant`: `Spec => []AgreementInv`. None of the four properties below is
  inductive, and they need each other: the scheduler's assertion holds only if a client
  does not ask for a task it runs, which depends on its pending operations being
  acknowledged in order, which depends on a client id being used by one connection. The
  invariant has a part for each of these. `OrderInv`: in the order a client joins and
  leaves once, a write names nobody who has not joined, the window never moves back, and a
  rejection comes before the window has passed its proposal; the service's references lie
  between the window and the head. `Session`: nothing is sent before the client's own join
  is processed, and the members a client knows are those of the order. `PendingInOrder`:
  the pending operations are those in the order that the client has not processed, then
  those in its outbox, in this sequence; a reconnect sends all again because its join comes
  after everything the old connection got ordered. `Runs` and `Asks`: a client runs what
  the register gives it, no promising write of its own asks for what it runs, and an active
  client that finds the task free while it is willing, or held by a client that left, has a
  write pending that wins unless another one does. `QuorumInv` and `ReferencesInv`:
  proposals stay with their rejections until the window has passed them, and the window
  does not pass what a client still rejects, as the service's reference of the client is
  behind it. `Apart`: users name no client of another user. `Elected`: the writes that win
  are a set that depends on the order alone (`Winners`), and the register of each client
  holds the last of them it has processed.
- `AssertionsKeptHolds` and `RunsWhatItHoldsHolds`: parts of the invariant.
- `TaskTakenHolds`: when all is quiet, nothing is pending (`NothingPending`), so that by
  `Asks` the register of the willing client names a member; the member is a connected
  client, which has the same register (`SameTaskOfAll`) and by `Runs` runs the task.
- `ProposalsSeenHolds`: the window has passed a value and, if it is committed, its
  approval, and the window is behind the reference of every member.

The proof of `AgreementProofs` has one lemma per action, and under those that append to the order
(`OrderTicket`, `SiteTicket`, `PendingTicket`, `AgreementTicket`) one per part. For the
processing of a message, `MessageKeepsQuorum` and its like treat each type of message.

`ClientProofs` proves for any number of connections, operations, faults and messages of
others, and for all batches, from `ConnectionConstants`:

- `ClientInvariant`: `Spec => []ClientInv`. None of the properties below is inductive. The
  invariant has four parts. `ConnectionInv` numbers the connections in the order in which
  the server accepts them, and says what the client remembers of each: the one it is being
  given, the one it has, the id it goes by and the id it last sent under come in this
  order. `InboundInv` says that the queue follows what is processed (`Queue`), what is put
  aside is `Beyond` a gap, and the socket's numbers rise (`Rising`). `Flow` follows the
  client's operations from the pending states through the batches on their way into the
  order and back: what is under way is numbered within the client's counters (`Counts`,
  which is why "active" is right when the client asks for its connection), each operation
  under way is at a place of the pending states where its batch mark `Fits` (`Matched`),
  the operations ordered have no gap and what may still be ordered follows them
  (`Numbered`, `Following`), and the marks among the pending states obey a `Grammar`,
  bracketed in automatic mode and punctuated in manual mode. `PhaseInv` says that until a
  connection writes, no operation is under way behind its join (`Barrier`): what the old
  connection sent is ordered before, or never.
- A replay submits from the back of the queue what it takes from its front. `Turning` and
  `Replaced` (`ClientLemmas`) describe the queue in the middle of it: the old states that
  are left, then the new ones, which are a turn of their own. The steps of the loop are
  related by a smallest counterexample, from the well-foundedness of the naturals, as
  everywhere that a recursive function occurs (`ReplayDefined`, `ReplayResult`).
- An acknowledgement takes one or two states off the front and at the end of a batch its
  mark. `Taken` says what is left, and that `Grammar`, `Matched` and the numbers of the
  operations hold for it (`TakenGrammar`, `TakenMatched`, `TakenOps`); that the marks agree
  is what the assertions of `pendingStateManager.ts` ask for (`FrontMark`).
- `AssertionsHoldHolds`, `OperationsOnceHolds`, `PendingExactlyHolds`,
  `NothingOutstandingHolds` and `InboundInOrderHolds` follow, each from a part of it.

TLC found no violation of `ClientInv` on the instance of `client_reconnect` before it was
proved.

Only checked by TLC: convergence of the map, `ItemsAccountedFor` of `SharedObjects`, `Settled` of `ClientConnection`, and all of `Scribe`
and `MergeTree`. Out of the prover's reach are liveness under fairness and ENABLED. The
library's induction theorems cannot be cited with the provers at hand; where a proof needs
induction, it takes the smallest counterexample (`MinNat` of `Lemmas`).
Recursive operators are out of reach too; no module here declares one.

## Not modelled, and the plan

What is left, in the order in which it is worth doing:

1. Proofs: `ItemsAccountedFor` of `SharedObjects`, `Settled` of `ClientConnection`, `NeverFails` of `MergeTree`,
   `OnlySummarizedMissing` of `Scribe`.
2. Summaries on the client: the election of the summarizer (`summaryManager.ts`), its
   heuristics and the tracking of acknowledgements (`summaryCollection.ts`), on top of
   `Scribe`'s answers.
3. Scriptorium and broadcaster: batches in flight and ignored duplicate inserts. A client
   sees of them what `ClientConnection` has: a storage that lags and a socket that loses.
4. Directory, cell and counter, which repeat the scheme of the map, per subdirectory and
   for one value; `RangeTracker` with documents that have a parent.
5. The rest of the merge tree: segments of several elements, which are split by edits and
   joined by the zamboni, blocks with their partial lengths, local references and
   intervals, combining operations; and the matrix, which is two merge trees whose
   positions are handles of cells.

Not planned: drivers (adapters without ordering logic), data stores (routing), framework,
hosts, tools and examples (no protocol logic of their own), and the parts named in
PROJECT.json's component notes. They are most of the repository's lines.
