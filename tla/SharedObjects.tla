--------------------------- MODULE SharedObjects ---------------------------
(***************************************************************************)
(* Clients of a document that agree through the total order: the proposals *)
(* of the quorum (protocol-base/src/quorum.ts and protocol.ts), a queue    *)
(* (ordered-collection), and the agent scheduler                           *)
(* (agent-scheduler/src/scheduler.ts), which assigns tasks through a       *)
(* register (register-collection); the container runtime picks the task    *)
(* "leader".                                                               *)
(*                                                                         *)
(* A site is one client's container with all it keeps.  The service is     *)
(* what Deli guarantees: one order of messages with a window, and nothing  *)
(* from a client that is not a member.  What DeltaManager and              *)
(* PendingStateManager do (see ClientConnection) is what they guarantee    *)
(* the shared objects: every site processes the order without gaps, and a  *)
(* client that reconnects has processed what its old connection sent       *)
(* before it submits the rest again.                                       *)
(*                                                                         *)
(* Not modelled: detached containers, connections that only read,          *)
(* snapshots, several keys, tasks or queues.                               *)
(***************************************************************************)
EXTENDS FiniteSets, RegisterCollection, OrderedCollection, ProposalQuorum

CONSTANTS
    Users,
    Applications,  \* bounds: the calls that an application makes
    MaxFaults      \* bound: connections lost and clients evicted

Calls == {"register", "pick", "release", "add", "acquire", "propose"}

ASSUME SharedObjectsConstants ==
    IsFiniteSet(Users) /\ Applications \subseteq [Calls -> Nat] /\ MaxFaults \in Nat

None == 0           \* no client id
Null == -1          \* in the register: the task is registered, and nobody's

VARIABLES
    calls,          \* the calls that the application still makes
    order,          \* the messages of the document
    references,     \* Deli's members and their reference numbers
    site,           \* what each user's container keeps, see Init
    edits,          \* number of calls made
    clients,        \* client ids given
    faults

vars == <<calls, order, references, site, edits, clients, faults>>

(* The container of client k when all have loaded the document, whose      *)
(* queue holds item 0, and have processed the joins of all.                *)
Loaded(k) ==
    [socket |-> k,            \* client id of the connection
     id |-> k,                \* client id, since it was last connected
     connected |-> TRUE, inQuorum |-> TRUE,
     processed |-> Cardinality(Users),  \* messages processed
     outbox |-> <<>>,         \* messages sent and not ordered
     pending |-> <<>>,        \* operations not acknowledged
     updateDue |-> FALSE,     \* is the timer set that sends a NoOp?
     closed |-> "no",         \* why the container was closed
     quorum |-> [EmptyQuorum EXCEPT !.members = 1 .. Cardinality(Users)],
     register |-> EmptyRegister,
     queue |-> Added(EmptyQueue, 0),
     working |-> {},          \* jobs whose callback is running
     registered |-> FALSE,    \* the task is in registeredTasks,
     runnable |-> FALSE,      \* in locallyRunnableTasks
     running |-> FALSE,       \* and in runningTasks
     leader |-> FALSE]        \* ContainerRuntime._leader

Join(k) == [type |-> "join", client |-> k, body |-> 0, ref |-> 0, minimum |-> 0]

Init ==
    /\ calls \in Applications
    /\ order = [k \in 1 .. Cardinality(Users) |-> Join(k)]
    /\ references = [k \in 1 .. Cardinality(Users) |-> 0]
    /\ \E ids \in Bijection(Users, 1 .. Cardinality(Users)) :
         site = [u \in Users |-> Loaded(ids[u])]
    /\ edits = 0 /\ clients = Cardinality(Users) /\ faults = 0

(* isActive, of the scheduler and the queue; DeltaManager.active *)
Active(s) == s.connected /\ s.inQuorum

-----------------------------------------------------------------------------
(* Sending *)

Message(type, body, ref) == [type |-> type, body |-> body, ref |-> ref]

Send(s, type, body) ==
    [s EXCEPT !.outbox = Append(@, Message(type, body, s.processed)), !.updateDue = FALSE]

(* submitLocalMessage *)
Submit(s, op) ==
    LET kept == [s EXCEPT !.pending = Append(@, op)]
    IN IF s.connected THEN Send(kept, "op", op) ELSE kept

Operation(name, id, value, created) ==
    [name |-> name, id |-> id, value |-> value, created |-> created]

(* ConsensusRegisterCollection.write, as the scheduler's writeCore; the    *)
(* operation keeps this reference when it is submitted again               *)
Write(s, value) == Submit(s, Operation("write", 0, value, s.processed))

-----------------------------------------------------------------------------
(* The agent scheduler and the leader *)

Task(s) == ReadAtomic(s.register)
Gone(s, client) == client \notin {Undefined, Null} /\ client \notin s.quorum.members

(* initializeCore *)
Initialized(s) ==
    LET requested == IF s.runnable /\ Task(s) \in {Undefined, Null} THEN Write(s, s.id) ELSE s
    IN IF Gone(s, Task(s)) THEN Write(requested, Null) ELSE requested

(* onNewTaskAssigned, which asserts that the task is not running; the      *)
(* worker of the task "leader" sets the leader                             *)
Assigned(s) ==
    [s EXCEPT !.running = TRUE, !.leader = s.leader \/ s.runnable,
              !.closed = IF s.running THEN "assertion" ELSE @]

\* Mutant: the task of a client that has left is not cleared.
ReassignedToAnyone(s, client) ==
    LET released == [s EXCEPT !.running = FALSE]
    IN IF Active(s) /\ client = Null /\ s.runnable THEN Write(released, s.id) ELSE released

(* onTaskReasigned; the runtime does not listen to "released" *)
Reassigned(s, client) ==
    LET released == [s EXCEPT !.running = FALSE]
    IN IF ~Active(s) THEN released
       ELSE IF client = Null /\ s.runnable THEN Write(released, s.id)
       ELSE IF Gone(s, client) THEN Write(released, Null)
       ELSE released

(* the listener of "atomicChanged" *)
TaskChanged(s, client) ==
    IF Active(s) /\ client = s.id THEN Assigned(s) ELSE Reassigned(s, client)

(* the listener of "removeMember" *)
TaskOfClientLeft(s, client) ==
    IF Active(s) /\ Task(s) = client THEN Write(s, Null) ELSE s

\* Mutant: tasks go on running without a connection.
TasksKept(s) == s

(* clearRunningTasks; leadership is lost with the task *)
TasksLost(s) == [s EXCEPT !.running = FALSE, !.leader = @ /\ ~s.running]

-----------------------------------------------------------------------------
(* Processing a message, which is number n of the order *)

Asserted(s, condition) == IF condition THEN s ELSE [s EXCEPT !.closed = "assertion"]

(* setConnectionState(Connected): pending operations are submitted again,  *)
(* and the scheduler is initialized                                        *)
Connected(s) ==
    Initialized([s EXCEPT !.id = s.socket, !.connected = TRUE, !.inQuorum = TRUE,
                          !.outbox = [i \in DOMAIN s.pending |->
                                        Message("op", s.pending[i], s.processed)]])

(* setConnectionState(Disconnected) *)
Disconnected(s) ==
    TasksLost([s EXCEPT !.socket = None, !.connected = FALSE, !.outbox = <<>>,
                        !.updateDue = FALSE, !.quorum = LocalForgotten(@)])

ProcessJoin(s, m) ==
    LET joined == Asserted([s EXCEPT !.quorum = MemberAdded(@, m.client)],
                           m.client \notin s.quorum.members)
    IN IF m.client = s.socket THEN Connected(joined) ELSE joined

ProcessLeave(s, m) ==
    LET left == Asserted([s EXCEPT !.quorum = MemberRemoved(@, m.client),
                                   !.inQuorum = @ /\ m.client # s.id,
                                   !.queue = ClientRemoved(@, m.client)],
                         m.client \in s.quorum.members)
    IN TaskOfClientLeft(left, m.client)

ProcessWrite(s, m, n) ==
    LET op == m.body
        written == Asserted([s EXCEPT !.register = Written(@, op.value, op.created, n)],
                            /\ op.created <= m.ref
                            /\ \A v \in s.register.versions : v.number < n)
    IN IF Wins(s.register, op.created) THEN TaskChanged(written, op.value) ELSE written

(* A callback is called with the item of an acquire of this client. *)
ProcessAcquire(s, m, local) ==
    LET acquired == [s EXCEPT !.queue = Acquired(@, m.body.id, m.client)]
        job == Last(acquired.queue.jobs)
    IN IF local /\ s.queue.items # <<>> THEN [acquired EXCEPT !.working = @ \cup {job}]
       ELSE acquired

ProcessOperation(s, m, n) ==
    LET op == m.body
        local == m.client = s.id
        acked == IF ~local THEN s
                 ELSE IF s.pending # <<>> /\ Head(s.pending) = op
                 THEN [s EXCEPT !.pending = Tail(@)] ELSE Asserted(s, FALSE)
    IN CASE op.name = "write" -> ProcessWrite(acked, m, n)
         [] op.name = "add" -> [acked EXCEPT !.queue = Added(@, op.value)]
         [] op.name = "acquire" -> ProcessAcquire(acked, m, local)
         [] op.name = "complete" -> [acked EXCEPT !.queue = Completed(@, op.id)]
         [] op.name = "release" -> [acked EXCEPT !.queue = Released(@, op.id)]

(* addProposal: this client may reject the proposal while it is processed, *)
(* if it is connected; a proposal of its own that it forgot with the       *)
(* connection trips an assertion                                           *)
ProcessPropose(s, m, n, rejects) ==
    LET known == m.client # s.id \/ m.body \in s.quorum.local
        added == [s EXCEPT !.quorum = ProposalAdded(@, n, IF m.client = s.id THEN m.body ELSE 0),
                           !.closed = IF known THEN @ ELSE "proposal"]
    IN IF rejects /\ s.connected THEN Send(added, "reject", n) ELSE added

ProcessReject(s, m) ==
    Asserted([s EXCEPT !.quorum = ProposalRejected(@, m.body, m.client)],
             m.body \in s.quorum.proposals)

(* ProtocolOpHandler.processMessage and scheduleSequenceNumberUpdate.  The *)
(* timer is modelled while it matters to a proposal.                       *)
WindowSeen(s, m, n) ==
    LET immediate == m.type = "propose" \/ Expedites(s.quorum, m.minimum)
        seen == [s EXCEPT !.quorum = MinimumUpdated(@, n, m.minimum)]
    IN IF ~Active(s) THEN [seen EXCEPT !.updateDue = FALSE]
       ELSE IF immediate THEN Send(seen, "noop", 0)
       ELSE [seen EXCEPT !.updateDue = @ \/ (m.type # "noop" /\ Undecided(seen.quorum))]

Processed(s, m, n, rejects) ==
    LET next == [s EXCEPT !.processed = n]
        handled == CASE m.type = "join" -> ProcessJoin(next, m)
                     [] m.type = "leave" -> ProcessLeave(next, m)
                     [] m.type = "op" -> ProcessOperation(next, m, n)
                     [] m.type = "propose" -> ProcessPropose(next, m, n, rejects)
                     [] m.type = "reject" -> ProcessReject(next, m)
                     [] m.type = "noop" -> next
    IN IF handled.closed = "no" THEN WindowSeen(handled, m, n) ELSE Disconnected(handled)

(* DeltaManager.processInboundMessage *)
Process(u) ==
    /\ site[u].closed = "no" /\ site[u].processed < Len(order)
    /\ LET n == site[u].processed + 1
       IN \E rejects \in BOOLEAN :
            /\ rejects => order[n].type = "propose" /\ site[u].connected
            /\ site' = [site EXCEPT ![u] = Processed(@, order[n], n, rejects)]
    /\ UNCHANGED <<calls, order, references, edits, clients, faults>>

-----------------------------------------------------------------------------
(* The service *)

Minimum == IF order = <<>> THEN 0 ELSE Last(order).minimum

(* The window over the references of members, at message n of the order. *)
MinimumOver(refs, n) ==
    IF DOMAIN refs = {} THEN n
    ELSE CHOOSE r \in {refs[k] : k \in DOMAIN refs} : \A k \in DOMAIN refs : r <= refs[k]

Ticket(type, client, body, ref, refs) ==
    /\ references' = refs
    /\ order' = Append(order, [type |-> type, client |-> client, body |-> body, ref |-> ref,
                               minimum |-> MinimumOver(refs, Len(order) + 1)])

Connect(u) ==
    /\ site[u].closed = "no" /\ site[u].socket = None
    /\ clients < Cardinality(Users) + MaxFaults
    /\ clients' = clients + 1
    /\ Ticket("join", clients', 0, Minimum,
              [k \in DOMAIN references \cup {clients'} |->
                  IF k = clients' THEN Minimum ELSE references[k]])
    /\ site' = [site EXCEPT ![u].socket = clients']
    /\ UNCHANGED <<calls, edits, faults>>

(* The client of a connection that is gone leaves, and an idle one is      *)
(* evicted.                                                                *)
Leave(k) ==
    /\ k \in DOMAIN references
    /\ IF \E u \in Users : site[u].socket = k
       THEN faults < MaxFaults /\ faults' = faults + 1 ELSE UNCHANGED faults
    /\ Ticket("leave", k, 0, -1, [j \in DOMAIN references \ {k} |-> references[j]])
    /\ UNCHANGED <<calls, site, edits, clients>>

(* A NoOp that does not move the window is not ordered. *)
Order(u) ==
    /\ site[u].outbox # <<>> /\ site[u].socket \in DOMAIN references
    /\ LET m == Head(site[u].outbox)
           refs == [references EXCEPT ![site[u].socket] = m.ref]
       IN IF m.type = "noop" /\ MinimumOver(refs, Len(order)) <= Minimum
          THEN references' = refs /\ UNCHANGED order
          ELSE Ticket(m.type, site[u].socket, m.body, m.ref, refs)
    /\ site' = [site EXCEPT ![u].outbox = Tail(@)]
    /\ UNCHANGED <<calls, edits, clients, faults>>

(* A client that left is nacked and loses its connection. *)
Refuse(u) ==
    /\ site[u].outbox # <<>> /\ site[u].socket \notin DOMAIN references
    /\ site' = [site EXCEPT ![u] = Disconnected(@)]
    /\ UNCHANGED <<calls, order, references, edits, clients, faults>>

Disconnect(u) ==
    /\ site[u].socket # None
    /\ faults < MaxFaults /\ faults' = faults + 1
    /\ site' = [site EXCEPT ![u] = Disconnected(@)]
    /\ UNCHANGED <<calls, order, references, edits, clients>>

(* The timer of scheduleSequenceNumberUpdate *)
UpdateReference(u) ==
    /\ site[u].updateDue
    /\ site' = [site EXCEPT ![u] = IF Active(@) THEN Send(@, "noop", 0)
                                   ELSE [@ EXCEPT !.updateDue = FALSE]]
    /\ UNCHANGED <<calls, order, references, edits, clients, faults>>

-----------------------------------------------------------------------------
(* Calls *)

Call(name, u) ==
    /\ calls[name] > 0 /\ calls' = [calls EXCEPT ![name] = @ - 1]
    /\ site[u].closed = "no"
    /\ edits' = edits + 1
    /\ UNCHANGED <<order, references, clients, faults>>

(* AgentScheduler.register, pick and release *)
Register(u) ==
    /\ Call("register", u)
    /\ ~site[u].registered
    /\ LET s == [site[u] EXCEPT !.registered = TRUE]
       IN site' = [site EXCEPT ![u] = IF Task(s) = Undefined THEN Write(s, Null) ELSE s]

Pick(u) ==
    /\ Call("pick", u)
    /\ ~site[u].runnable
    /\ LET s == [site[u] EXCEPT !.runnable = TRUE]
       IN site' = [site EXCEPT ![u] = IF Active(s) /\ Task(s) \in {Undefined, Null}
                                      THEN Write(s, s.id) ELSE s]

Release(u) ==
    /\ Call("release", u)
    /\ site[u].runnable /\ Active(site[u]) /\ Task(site[u]) = site[u].id
    /\ site' = [site EXCEPT ![u] = Write([@ EXCEPT !.runnable = FALSE], Null)]

(* ConsensusOrderedCollection.add and acquire, with the end of its callback *)
Add(u) ==
    /\ Call("add", u)
    /\ site' = [site EXCEPT ![u] = Submit(@, Operation("add", 0, edits', 0))]

Acquire(u) ==
    /\ Call("acquire", u)
    /\ site' = [site EXCEPT ![u] = Submit(@, Operation("acquire", edits', 0, 0))]

Finish(u) ==
    /\ \E job \in site[u].working, name \in {"complete", "release"} :
         LET s == [site[u] EXCEPT !.working = @ \ {job}]
         IN site' = [site EXCEPT ![u] = IF Active(s) THEN Submit(s, Operation(name, job.id, 0, 0))
                                        ELSE s]
    /\ UNCHANGED <<calls, order, references, edits, clients, faults>>

(* Quorum.propose, which fails without a connection *)
Propose(u) ==
    /\ Call("propose", u)
    /\ site[u].connected
    /\ LET sent == Send(site[u], "propose", edits')
           proposed == [sent EXCEPT !.quorum.local = @ \cup {edits'}]
       IN site' = [site EXCEPT ![u] = proposed]

-----------------------------------------------------------------------------
Next ==
    \/ \E u \in Users :
         \/ Process(u) \/ UpdateReference(u)
         \/ Connect(u) \/ Disconnect(u) \/ Order(u) \/ Refuse(u)
         \/ Register(u) \/ Pick(u) \/ Release(u)
         \/ Add(u) \/ Acquire(u) \/ Finish(u)
         \/ Propose(u)
    \/ \E k \in DOMAIN references : Leave(k)

Spec == Init /\ [][Next]_vars
=============================================================================
