------------------------- MODULE OrderedCollection -------------------------
(***************************************************************************)
(* A ConsensusQueue: the items of a ConsensusOrderedCollection             *)
(* (dds/ordered-collection/src/consensusOrderedCollection.ts) and the jobs *)
(* that track the items which clients have acquired.                       *)
(***************************************************************************)
EXTENDS Sequences, SequencesExt

EmptyQueue == [items |-> <<>>,
               jobs |-> <<>>,       \* jobTracking, in the order of insertion
               completed |-> <<>>]  \* history: values of the "complete" events

Job(id, item, client) == [id |-> id, item |-> item, client |-> client]
Jobs(queue) == ToSet(queue.jobs)

Tracked(queue, id) == {job \in Jobs(queue) : job.id = id}

(* The queue without some of its jobs, and their items in order. *)
Without(queue, jobs) == [queue EXCEPT !.jobs = SelectSeq(@, LAMBDA job : job \notin jobs)]
ItemsOf(queue, jobs) ==
    LET found == SelectSeq(queue.jobs, LAMBDA job : job \in jobs)
    IN [i \in DOMAIN found |-> found[i].item]

(* addCore *)
Added(queue, item) == [queue EXCEPT !.items = Append(@, item)]

(* acquireCore: nothing if there is no item *)
Acquired(queue, id, client) ==
    IF queue.items = <<>> THEN queue
    ELSE [queue EXCEPT !.jobs = Append(@, Job(id, Head(queue.items), client)),
                       !.items = Tail(@)]

(* completeCore: nothing if the item is back in the queue *)
Completed(queue, id) ==
    [Without(queue, Tracked(queue, id)) EXCEPT !.completed = @ \o ItemsOf(queue, Tracked(queue, id))]

(* releaseCore, and removeClient for all jobs of one *)
Requeued(queue, jobs) == [Without(queue, jobs) EXCEPT !.items = @ \o ItemsOf(queue, jobs)]
Released(queue, id) == Requeued(queue, Tracked(queue, id))

\* Mutant: an item stays with a client that has left.
ClientKept(queue, client) == queue

ClientRemoved(queue, client) == Requeued(queue, {job \in Jobs(queue) : job.client = client})
=============================================================================
