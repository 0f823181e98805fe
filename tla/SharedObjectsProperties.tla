---------------------- MODULE SharedObjectsProperties ----------------------
(***************************************************************************)
(* What clients may rely on when they agree through the total order.       *)
(***************************************************************************)
EXTENDS SharedObjects

(* No assertion of these objects fails: a rejection arrives while the      *)
(* proposal is open (quorum.ts:243), a client that is assigned a task does *)
(* not run it yet (scheduler.ts:263), an acknowledgement is of the first   *)
(* pending operation, and versions are in order                            *)
(* (consensusRegisterCollection.ts:328).  A proposal that its client       *)
(* forgot with its connection is left out: it does trip quorum.ts:212.     *)
AssertionsKept == \A u \in Users : site[u].closed # "assertion"

(* The numbers of the writes among the first n messages of an order, and   *)
(* of those that no later one knew when it was made.                       *)
Writes(messages, n) ==
    {i \in 1 .. n : messages[i].type = "op" /\ messages[i].body.name = "write"}
Unseen(messages, n) ==
    {i \in Writes(messages, n) :
        \A j \in Writes(messages, n) : j > i => messages[j].body.created < i}

Exact(register, messages, n) ==
    /\ register.versions = {Version(i, messages[i].body.value) : i \in Unseen(messages, n)}
    /\ register.versions # {} => register.atomic \in register.versions

(* The versions of the register are the writes that no later writer knew   *)
(* when it wrote, be it submitted again since, and the atomic version is   *)
(* one of them.                                                            *)
VersionsExact == \A u \in Users : Exact(site[u].register, order, site[u].processed)

(* A client runs the task exactly while the register names it and, when it *)
(* starts, it is connected: so at each point of the order at most one      *)
(* client runs it.                                                         *)
RunsWhatItHolds ==
    \A u \in Users : LET s == site[u] IN
        /\ s.running => s.connected /\ Task(s) = s.id
        /\ Active(s) /\ Task(s) = s.id => s.running

(* All are connected and have processed everything, and clients of lost    *)
(* connections have left.                                                  *)
Quiet ==
    /\ \A u \in Users : /\ site[u].connected /\ site[u].outbox = <<>>
                        /\ site[u].processed = Len(order)
    /\ \A k \in DOMAIN references : \E u \in Users : site[u].socket = k

(* "Task will be picked up again by some connected client"                 *)
(* (runtime-definitions/src/agent.ts:109): whatever got lost or was        *)
(* submitted again, when all is quiet and an active client is willing, one *)
(* runs the task.  A write that names a client which has left since must   *)
(* not keep the task.                                                      *)
TaskTaken ==
    Quiet /\ (\E u \in Users : site[u].runnable /\ Active(site[u]))
        => \E u \in Users : site[u].running /\ Active(site[u])

(* "In any given session, there is a single leader" (docs                  *)
(* advanced/tob.md:74).                                                    *)
SingleLeader ==
    Quiet => \A u, v \in {w \in Users : site[w].leader /\ Active(site[w])} : u = v

NoRepeats(seq) == \A i, j \in DOMAIN seq : i # j => seq[i] # seq[j]

(* Every item that was added is in one place: in the queue, with a member, *)
(* or completed once.  And while a client works on an item and knows that  *)
(* it is connected, the item is its own.                                   *)
ItemsAccountedFor ==
    \A u \in Users :
        LET s == site[u]
            held == [i \in DOMAIN s.queue.jobs |-> s.queue.jobs[i].item]
            added == {i \in 1 .. s.processed : order[i].type = "op" /\ order[i].body.name = "add"}
            all == s.queue.items \o held \o s.queue.completed
        IN /\ ToSet(all) = {0} \cup {order[i].body.value : i \in added}
           /\ NoRepeats(all)
           /\ \A job \in Jobs(s.queue) : job.client \in s.quorum.members
           /\ \A job \in s.working :
                Active(s) /\ job.client = s.id => job \in Jobs(s.queue)

(* The connected clients that did not leave without knowing it. *)
ConnectedMembers == {u \in Users : site[u].connected /\ site[u].socket \in DOMAIN references}

(* "accept means that all clients have seen the proposal and nobody has    *)
(* rejected it; commit means that all clients have seen that the proposal  *)
(* was accepted by everyone" (quorum.ts:320), for all connected clients    *)
(* and rejections that are on their way.                                   *)
ProposalsSeen ==
    \A u \in Users :
        LET value == site[u].quorum.value
            Rejects(m) == m.type = "reject" /\ m.body = value.proposal
        IN value # NoValue =>
            /\ \A i \in DOMAIN order : ~Rejects(order[i])
            /\ \A v \in ConnectedMembers :
                 /\ site[v].processed >= value.proposal
                 /\ value.commit # NotCommitted => site[v].processed >= value.approval
                 /\ \A i \in DOMAIN site[v].outbox : ~Rejects(site[v].outbox[i])

-----------------------------------------------------------------------------
(* The inductive invariant behind VersionsExact: what a container keeps    *)
(* and sends, and what is in the order, carries the reference of its write.*)

IsSequence(s) == s \in Seq({s[i] : i \in DOMAIN s})

OperationOK(op) ==
    op.created \in Nat /\ op.name \in {"write", "add", "acquire", "complete", "release"}

MessageOK(m) ==
    /\ m.type \in {"join", "leave", "op", "propose", "reject", "noop"}
    /\ m.type = "op" => OperationOK(m.body)

SiteOK(s) ==
    /\ {"processed", "pending", "outbox", "register"} \subseteq DOMAIN s
    /\ s.processed \in Nat /\ IsSequence(s.pending) /\ IsSequence(s.outbox)
    /\ \A i \in DOMAIN s.pending : OperationOK(s.pending[i])
    /\ \A i \in DOMAIN s.outbox : MessageOK(s.outbox[i])

OrderOK == IsSequence(order) /\ \A i \in DOMAIN order : MessageOK(order[i])

VersionsInv ==
    /\ OrderOK /\ DOMAIN site = Users
    /\ \A u \in Users : SiteOK(site[u]) /\ site[u].processed <= Len(order)
    /\ VersionsExact

-----------------------------------------------------------------------------
(* The inductive invariant behind AssertionsKept, RunsWhatItHolds,         *)
(* TaskTaken and ProposalsSeen.  "ms" is the order, of which a container   *)
(* has processed the first n messages.                                     *)

ClientsOf(ms, n, type) == {ms[i].client : i \in {j \in 1 .. n : ms[j].type = type}}
Joined(ms, n) == ClientsOf(ms, n, "join")
Left(ms, n) == ClientsOf(ms, n, "leave")

IsWriteOp(op) == op.name = "write"

(* A client joins and leaves once, a write names a client that joined      *)
(* before, the window never opens backwards, and a rejection is ordered    *)
(* before the window has passed its proposal.                              *)
OrderInv(ms, refs, last) ==
    /\ last \in Nat
    /\ \A i \in DOMAIN ms : LET m == ms[i] IN
           /\ m.client \in 1 .. last /\ m.minimum \in 0 .. i
           /\ \A j \in DOMAIN ms : i <= j => m.minimum <= ms[j].minimum
           /\ m.type = "join" => m.client \notin Joined(ms, i - 1)
           /\ m.type = "leave" => m.client \in Joined(ms, i - 1) \ Left(ms, i - 1)
           /\ m.type = "op" /\ IsWriteOp(m.body) =>
                  /\ m.body.created <= m.ref
                  /\ m.body.value \in {Null} \cup Joined(ms, i - 1)
           /\ m.type = "reject" =>
                  /\ m.body \in 1 .. i - 1 /\ ms[m.body].type = "propose"
                  /\ \A j \in 1 .. i - 1 : ms[j].minimum < m.body
    /\ DOMAIN refs = Joined(ms, Len(ms)) \ Left(ms, Len(ms))
    /\ \A k \in DOMAIN refs : /\ refs[k] \in 0 .. Len(ms)
                             /\ \A i \in DOMAIN ms : ms[i].minimum <= refs[k]

(* The fields of a container and of its quorum.                            *)
Shape(s) ==
    /\ SiteOK(s)
    /\ DOMAIN s = {"socket", "id", "connected", "inQuorum", "processed", "outbox", "pending",
                   "updateDue", "closed", "quorum", "register", "queue", "working",
                   "registered", "runnable", "running", "leader"}
    /\ DOMAIN s.quorum = {"members", "minimum", "proposals", "rejections", "value", "local"}
    /\ DOMAIN s.quorum.value = {"proposal", "approval", "commit"}

(* A client sends nothing before it has processed its own join, and its    *)
(* members are those of the order.                                         *)
Session(s, ms) ==
    /\ s.id \in Joined(ms, s.processed)
    /\ s.connected => s.socket = s.id /\ (s.inQuorum <=> s.id \in s.quorum.members)
    /\ ~s.connected => s.outbox = <<>>
    /\ ~s.connected /\ s.socket # None =>
           /\ s.socket \in Joined(ms, Len(ms)) \ Joined(ms, s.processed)
           /\ \A i \in DOMAIN ms :
                  /\ ms[i].client = s.socket => ms[i].type \in {"join", "leave"}
                  /\ ms[i].type = "op" /\ IsWriteOp(ms[i].body) => ms[i].body.value # s.socket
    /\ s.quorum.members = Joined(ms, s.processed) \ Left(ms, s.processed)

(* The first pending operations are those of the client that the order     *)
(* still brings, at the places "at"; then come those that are being sent,  *)
(* at the places "box".                                                    *)
OwnOp(s, m) == m.type = "op" /\ m.client = s.id

PendingAt(s, ms, a, at, b, box) ==
    /\ a + b <= Len(s.pending) /\ (s.connected => a + b = Len(s.pending))
    /\ \A i \in 1 .. a :
           /\ s.processed < at[i] /\ OwnOp(s, ms[at[i]]) /\ ms[at[i]].body = s.pending[i]
           /\ \A j \in 1 .. a : i < j => at[i] < at[j]
    /\ \A i \in 1 .. b :
           /\ s.outbox[box[i]].type = "op" /\ s.outbox[box[i]].body = s.pending[a + i]
           /\ \A j \in 1 .. b : i < j => box[i] < box[j]
    /\ \A n \in DOMAIN ms : s.processed < n /\ OwnOp(s, ms[n]) => \E i \in 1 .. a : at[i] = n
    /\ \A j \in DOMAIN s.outbox : s.outbox[j].type = "op" => \E i \in 1 .. b : box[i] = j

PendingInOrder(s, ms) ==
    \E a, b \in 0 .. Len(s.pending) :
        \E at \in [1 .. a -> DOMAIN ms], box \in [1 .. b -> DOMAIN s.outbox] :
            PendingAt(s, ms, a, at, b, box)

(* What the register and the writes under way refer to.                    *)
RegisterInv(s, ms) ==
    /\ s.register.atomic.number \in 0 .. s.processed
    /\ Task(s) \in {Undefined, Null} \cup Joined(ms, s.processed)
    /\ s.register.versions = {} => Task(s) = Undefined

WritesInv(s, ms) ==
    /\ \A i \in DOMAIN s.pending : IsWriteOp(s.pending[i]) =>
           /\ s.pending[i].created <= s.processed
           /\ s.pending[i].value \in {Null} \cup Joined(ms, s.processed)
    /\ \A j \in DOMAIN s.outbox : LET m == s.outbox[j] IN
           /\ m.type \notin {"join", "leave"} /\ m.ref \in 0 .. s.processed
           /\ \A i \in DOMAIN s.outbox : i < j => s.outbox[i].ref <= m.ref
           /\ m.type = "op" /\ IsWriteOp(m.body) => m.body.created <= m.ref

(* A write that wins unless another one wins before it.                    *)
Promising(s, op) == IsWriteOp(op) /\ op.created >= s.register.atomic.number

(* A client runs what it holds, and does not ask for what it runs.         *)
Runs(s) ==
    /\ s.running => s.connected /\ Task(s) = s.id
    /\ Active(s) /\ Task(s) = s.id => s.running
    /\ \A i \in DOMAIN s.pending :
           Promising(s, s.pending[i]) /\ s.pending[i].value = s.id => Task(s) # s.id

(* While the task is free for a client, or held by one that left, the      *)
(* client has asked for a change.                                          *)
Asks(s) ==
    Active(s) /\ (Gone(s, Task(s)) \/ (s.runnable /\ Task(s) \in {Undefined, Null})) =>
        \E i \in DOMAIN s.pending : Promising(s, s.pending[i])

(* Proposals stay until the window has passed them, with their rejections; *)
(* the window has passed a value, and its approval if it is committed.     *)
QuorumInv(q, n, ms) ==
    LET Rejects(i, p) == ms[i].type = "reject" /\ ms[i].body = p
    IN /\ q.proposals \subseteq 1 .. n
       /\ \A p \in 1 .. n :
              ms[p].type = "propose" /\ (\A i \in 1 .. n : ms[i].minimum < p) =>
                  p \in q.proposals
       /\ \A i \in 1 .. n, p \in q.proposals :
              Rejects(i, p) => <<p, ms[i].client>> \in q.rejections
       /\ q.value # NoValue =>
              /\ q.value.approval \in 1 .. n
              /\ q.value.proposal \in 1 .. ms[q.value.approval].minimum
              /\ \A i \in 1 .. n : ~Rejects(i, q.value.proposal)
              /\ q.value.commit # NotCommitted =>
                     /\ q.value.commit \in 1 .. n
                     /\ q.value.approval <= ms[q.value.commit].minimum

(* The service's reference of a client is not ahead of the client, and     *)
(* behind what it rejects.                                                 *)
ReferencesInv(s, ms, refs) ==
    /\ s.socket \in DOMAIN refs =>
           /\ s.connected => refs[s.socket] <= s.processed
           /\ ~s.connected => \A i \in DOMAIN ms :
                  ms[i].type = "join" /\ ms[i].client = s.socket => refs[s.socket] <= i
           /\ \A j \in DOMAIN s.outbox : refs[s.socket] <= s.outbox[j].ref
    /\ \A j \in DOMAIN s.outbox : LET m == s.outbox[j] IN m.type = "reject" =>
           /\ m.body \in 1 .. s.processed /\ ms[m.body].type = "propose"
           /\ s.socket \in DOMAIN refs => refs[s.socket] < m.body
           /\ \A i \in DOMAIN s.outbox : i < j => s.outbox[i].ref < m.body

(* Users have clients of their own, and name no others.                    *)
Apart(s, t) ==
    /\ s.id # t.id /\ s.id # t.socket /\ (s.socket # None => s.socket # t.socket)
    /\ \A i \in DOMAIN s.pending : IsWriteOp(s.pending[i]) =>
           s.pending[i].value # t.id /\ s.pending[i].value # t.socket

OwnName(s, ms) ==
    \A i \in DOMAIN ms :
        ms[i].type = "op" /\ IsWriteOp(ms[i].body) /\ ms[i].body.value = s.id =>
            ms[i].client = s.id

(* W are the writes that win: none that won before was unknown to them.    *)
Winners(W, ms) ==
    \A n \in Writes(ms, Len(ms)) :
        n \in W <=> \A w \in W : w < n => w <= ms[n].body.created

Elects(W, ms, s) ==
    \/ /\ \A w \in W : s.processed < w
       /\ s.register = EmptyRegister
    \/ \E w \in W : /\ w <= s.processed
                    /\ s.register.atomic = Version(w, ms[w].body.value)
                    /\ \A v \in W : v <= s.processed => v <= w

Elected(ms, sites) ==
    \E W \in SUBSET Writes(ms, Len(ms)) :
        Winners(W, ms) /\ \A u \in Users : Elects(W, ms, sites[u])

SiteInv(s, ms, refs) ==
    /\ s.closed # "assertion"
    /\ Shape(s) /\ Session(s, ms) /\ PendingInOrder(s, ms)
    /\ WritesInv(s, ms) /\ ReferencesInv(s, ms, refs)
    /\ RegisterInv(s, ms) /\ Runs(s) /\ Asks(s)
    /\ QuorumInv(s.quorum, s.processed, ms) /\ OwnName(s, ms)

Agreement(ms, refs, last, sites) ==
    /\ OrderInv(ms, refs, last)
    /\ \A u \in Users : SiteInv(sites[u], ms, refs)
    /\ \A u \in Users : \A v \in Users \ {u} : Apart(sites[u], sites[v])
    /\ Elected(ms, sites)

AgreementInv == Agreement(order, references, clients, site)
=============================================================================
