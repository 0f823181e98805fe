------------------------------ MODULE MergeTree ------------------------------
(***************************************************************************)
(* A shared sequence (packages/dds/merge-tree and packages/dds/sequence):  *)
(* each client keeps a tree of segments, edits it at once, sends the edit  *)
(* as an operation on positions, and applies the operations of the others  *)
(* in the order of the service, at the positions as the sender saw them.   *)
(*                                                                         *)
(* Every element is a segment of its own, as markers are, so no segment is *)
(* split or appended to another, and all of them fit in the root block, so *)
(* the tree is a list and its partial lengths are sums.  There is one key  *)
(* to annotate.  The service orders operations only: the number of an      *)
(* operation is its place in that order.                                   *)
(***************************************************************************)
EXTENDS Integers, SequencesExt, FiniteSetsExt

CONSTANTS
    Users,          \* clients that edit
    Reader,         \* a client that only reads, and is never behind
    Nobody,         \* the author of the initial elements
    Kinds,          \* the edits that are made: of EditKinds
    InitialLength,  \* elements that everybody starts with
    MaxEdits,       \* bound: edits
    MaxDisconnects  \* bound: lost connections

EditKinds == {"insert", "remove", "annotate", "replace"}

\* Of a block that is not split: MaxNodesInBlock.
BlockSize == 8

ASSUME MergeTreeConstants ==
    /\ Reader \notin Users /\ Nobody \notin Users \cup {Reader} /\ Kinds \subseteq EditKinds
    /\ MaxEdits \in Nat /\ MaxDisconnects \in Nat
    /\ InitialLength \in Nat /\ InitialLength + MaxEdits < BlockSize

VARIABLES
    tree,           \* the merge tree of each client
    pending,        \* messages that are not acknowledged: sequences of operations
    outbox,         \* messages on their way to the service
    inbox,          \* sequenced messages that a client has not processed
    minimum,        \* the minimum sequence number
    connection,     \* of each user: "connected", "joining" or "none"
    join,           \* the last operation before the user joined
    \* history and bounds
    expected,       \* the elements that remain if all edits are taken as meant
    edits,
    disconnects

sending == <<pending, outbox>>
connections == <<connection, join, disconnects>>
vars == <<tree, sending, inbox, minimum, connections, expected, edits>>

Clients == Users \cup {Reader}
Unassigned == -1        \* UnassignedSequenceNumber
Nothing == <<Nobody, 0>>

(* A segment; 0 stands for what is undefined.                              *)
Segment(name, client, seq, localSeq, value) ==
    [name |-> name, client |-> client, seq |-> seq, localSeq |-> localSeq,
     removed |-> 0, remover |-> Nobody, overlap |-> {}, localRemoved |-> 0,
     value |-> value,       \* of the key
     updates |-> 0]         \* own annotations that are pending

(* "scour" is the sequence number of the block in segmentsToScour.  A      *)
(* pending group holds the names of its segments.                          *)
InitialTree(c) ==
    [self |-> c, segments |-> [k \in 1 .. InitialLength |-> Segment(<<Nobody, k>>, Nobody, 0, 0, Nothing)],
     groups |-> <<>>, currentSeq |-> 0, minSeq |-> 0, localSeq |-> 0, scour |-> 0,
     failed |-> FALSE,      \* did an assertion fail, or was an error thrown?
     passed |-> FALSE,      \* history: was an element inserted behind a removed one?
     astray |-> FALSE]      \* history: was the annotation of a removed one sent again?

Names(t, ks) == {t.segments[k].name : k \in ks}

Init ==
    /\ tree = [c \in Clients |-> InitialTree(c)]
    /\ pending = [u \in Users |-> <<>>] /\ outbox = [u \in Users |-> <<>>]
    /\ inbox = [u \in Users |-> <<>>] /\ minimum = 0
    /\ connection = [u \in Users |-> "connected"] /\ join = [u \in Users |-> 0]
    /\ expected = Names(InitialTree(Reader), 1 .. InitialLength) /\ edits = 0 /\ disconnects = 0

-----------------------------------------------------------------------------
(* Positions: what a client sees at a sequence number. *)

Visible(t, s, ref, client) ==
    IF client = t.self
    THEN s.removed = 0
    ELSE /\ s.client = client \/ (s.seq # Unassigned /\ s.seq <= ref)
         /\ ~ \/ s.remover = client \/ client \in s.overlap
              \/ s.removed \notin {0, Unassigned} /\ s.removed <= ref

(* The position of the k-th segment.                                       *)
Position(t, k, ref, client) ==
    Cardinality({j \in 1 .. k - 1 : Visible(t, t.segments[j], ref, client)})

Gone(s, ref) == s.removed \notin {0, Unassigned} /\ s.removed <= ref

\* Mutant: newer segments come after older ones.
TieOlder(t, s, ref, client) == ~Gone(s, ref) /\ client = t.self

(* Is a new segment placed before this one, which has no length?  "Ensure  *)
(* we merge right. newer segments should come before older segments"       *)
BreakTie(t, s, ref, client) ==
    /\ ~Gone(s, ref)
    /\ client = t.self \/ s.seq # Unassigned

(* insertingWalk: where a segment may be inserted at a position; the first *)
(* one is taken.                                                           *)
Places(t, pos, ref, client) ==
    LET end == Len(t.segments) + 1
    IN {k \in 1 .. end :
            /\ Position(t, k, ref, client) = pos
            /\ \/ k = end
               \/ Visible(t, t.segments[k], ref, client)
               \/ BreakTie(t, t.segments[k], ref, client)}

(* mapRange: the segments in a range.                                      *)
InRange(t, op, ref, client) ==
    {k \in DOMAIN t.segments :
        /\ Visible(t, t.segments[k], ref, client)
        /\ op.start <= Position(t, k, ref, client) /\ Position(t, k, ref, client) < op.end}

-----------------------------------------------------------------------------
(* Applying operations, local ones with the number Unassigned. *)

(* addToPendingList, for all segments of an operation.                     *)
AddGroup(t, names) ==
    [t EXCEPT !.groups = Append(@, [localSeq |-> t.localSeq, segments |-> names])]

(* addToLRUSet: the block waits to be scoured.                             *)
AddToLRUSet(t, seq) ==
    IF t.scour = 0 /\ seq > t.currentSeq THEN [t EXCEPT !.scour = seq] ELSE t

IsPending(t, s) == \E i \in DOMAIN t.groups : s.name \in t.groups[i].segments

\* Mutant: a segment is dropped while its removal is pending.
DroppedPending(t, s) == s.removed # 0 /\ s.removed <= t.minSeq

(* scourNode: what nobody can refer to any more is dropped.                *)
Dropped(t, s) == ~IsPending(t, s) /\ s.removed # 0 /\ s.removed <= t.minSeq

ZamboniSegments(t) ==
    IF t.scour # 0 /\ t.scour <= t.minSeq
    THEN [t EXCEPT !.scour = 0, !.segments = SelectSeq(@, LAMBDA s : ~Dropped(t, s))]
    ELSE t

(* What is done about a change of these segments, in the end.              *)
Track(t, names, seq) ==
    IF seq = Unassigned THEN AddGroup(t, names)
    ELSE ZamboniSegments(IF names = {} THEN t ELSE AddToLRUSet(t, seq))

NextLocalSeq(t, seq) == IF seq = Unassigned THEN [t EXCEPT !.localSeq = @ + 1] ELSE t
LocalSeq(t, seq) == IF seq = Unassigned THEN t.localSeq ELSE 0

InsertSegment(t0, op, ref, client, seq) ==
    LET t == NextLocalSeq(t0, seq)
        places == Places(t, op.start, ref, client)
        k == Min(places)
        segment == Segment(op.name, client, seq, LocalSeq(t, seq), op.value)
    IN IF places = {}
       THEN [t EXCEPT !.failed = TRUE]
       ELSE Track([t EXCEPT !.segments = InsertAt(@, k, segment),
                            !.passed = @ \/ \E j \in 1 .. k - 1 :
                                /\ Position(t, j, ref, client) = op.start
                                /\ Gone(t.segments[j], ref)],
                  {op.name}, seq)

MarkRemoved(s, client, seq, localSeq) ==
    IF s.removed = 0
    THEN [s EXCEPT !.removed = seq, !.remover = client, !.localRemoved = localSeq]
    ELSE IF s.removed = Unassigned
    THEN [s EXCEPT !.removed = seq, !.remover = client, !.localRemoved = 0]
    ELSE [s EXCEPT !.overlap = @ \cup {client}]

MarkRangeRemoved(t0, op, ref, client, seq) ==
    LET t == NextLocalSeq(t0, seq)
        range == InRange(t, op, ref, client)
    IN Track([t EXCEPT !.segments = [k \in DOMAIN @ |->
                  IF k \in range THEN MarkRemoved(@[k], client, seq, LocalSeq(t, seq)) ELSE @[k]]],
             Names(t, range), seq)

\* Mutant: the annotation of another client overwrites a pending one.
AddAnyProperties(s, value, seq) ==
    IF seq = Unassigned THEN [s EXCEPT !.value = value, !.updates = @ + 1]
    ELSE [s EXCEPT !.value = value]

(* addProperties: own annotations that are pending win.                    *)
AddProperties(s, value, seq) ==
    IF seq = Unassigned THEN [s EXCEPT !.value = value, !.updates = @ + 1]
    ELSE IF s.updates = 0 THEN [s EXCEPT !.value = value] ELSE s

AnnotateRange(t0, op, ref, client, seq) ==
    LET t == NextLocalSeq(t0, seq)
        range == InRange(t, op, ref, client)
    IN Track([t EXCEPT !.segments = [k \in DOMAIN @ |->
                  IF k \in range THEN AddProperties(@[k], op.value, seq) ELSE @[k]]],
             Names(t, range), seq)

ApplyOp(t, op, ref, client, seq) ==
    CASE op.type = "insert" -> InsertSegment(t, op, ref, client, seq)
      [] op.type = "remove" -> MarkRangeRemoved(t, op, ref, client, seq)
      [] op.type = "annotate" -> AnnotateRange(t, op, ref, client, seq)

ApplyLocally(t, ops) ==
    FoldLeft(LAMBDA t1, op : ApplyOp(t1, op, t1.currentSeq, t1.self, Unassigned), t, ops)

-----------------------------------------------------------------------------
(* Acknowledgements and the window. *)

(* BaseSegment.ack                                                         *)
AckSegment(s, type, seq) ==
    CASE type = "insert" -> [s EXCEPT !.seq = seq, !.localSeq = 0]
      [] type = "annotate" -> [s EXCEPT !.updates = IF @ > 0 THEN @ - 1 ELSE 0]
      [] type = "remove" -> [s EXCEPT !.localRemoved = 0,
                                      !.removed = IF @ = Unassigned THEN seq ELSE @]

\* The assertions of ack.
AckFails(s, type) ==
    \/ type = "insert" /\ s.seq # Unassigned
    \/ type = "remove" /\ s.removed = 0

AckPendingSegment(t, op, seq) ==
    IF t.groups = <<>> THEN ZamboniSegments(t)
    ELSE LET group == Head(t.groups)
             acked == {k \in DOMAIN t.segments : t.segments[k].name \in group.segments}
         IN Track([t EXCEPT
                !.groups = Tail(@),
                !.failed = \/ @ \/ Names(t, acked) # group.segments
                           \/ \E k \in acked : AckFails(t.segments[k], op.type),
                !.segments = [k \in DOMAIN @ |->
                    IF k \in acked THEN AckSegment(@[k], op.type, seq) ELSE @[k]]],
                Names(t, acked), seq)

(* updateSeqNumbers and setMinSeq, with their assertions.                  *)
UpdateSeqNumbers(t, min, seq) ==
    LET moved == [t EXCEPT !.currentSeq = seq, !.minSeq = min,
                           !.failed = @ \/ seq <= t.currentSeq \/ min > seq \/ min < t.minSeq]
    IN IF min > t.minSeq THEN ZamboniSegments(moved) ELSE moved

ApplyMsg(t, m) ==
    LET Applied(t1, op) == IF m.client = t.self THEN AckPendingSegment(t1, op, m.seq)
                           ELSE ApplyOp(t1, op, m.ref, m.client, m.seq)
    IN UpdateSeqNumbers(FoldLeft(Applied, t, m.ops), m.minimum, m.seq)

-----------------------------------------------------------------------------
(* Sending again after a reconnection. *)

(* findReconnectionPostition: own changes after localSeq do not count.     *)
Present(s, localSeq) ==
    /\ s.localSeq <= localSeq
    /\ s.removed = 0 \/ s.localRemoved > localSeq

\* Mutant: the position that the client sees now.
PositionNow(t, k, localSeq) ==
    Cardinality({j \in 1 .. k - 1 : t.segments[j].removed = 0})

ReconnectionPosition(t, k, localSeq) ==
    Cardinality({j \in 1 .. k - 1 : Present(t.segments[j], localSeq)})

(* The new operation for one segment of the old one.                       *)
ResetDelta(t, op, k, localSeq) ==
    LET p == ReconnectionPosition(t, k, localSeq)
        s == t.segments[k]
        new == [op EXCEPT !.start = p, !.end = p + 1]
    IN CASE op.type = "annotate" -> <<new>>
         [] op.type = "insert" -> <<[new EXCEPT !.value = s.value]>>
         [] op.type = "remove" -> IF s.localRemoved # 0 THEN <<new>> ELSE <<>>

(* resetPendingDeltaToOps: one operation for each segment of the group, in *)
(* the order of the segments, and a group for each.                        *)
ResetPending(r, op) ==
    LET t == r.tree
        group == Head(t.groups)
        held == {k \in DOMAIN t.segments : t.segments[k].name \in group.segments}
        kept == {k \in held : ResetDelta(t, op, k, group.localSeq) # <<>>}
        resent == SetToSortSeq(kept, <)
    IN [tree |-> [t EXCEPT
            !.groups = Tail(@) \o [i \in DOMAIN resent |->
                [localSeq |-> group.localSeq, segments |-> {t.segments[resent[i]].name}]],
            !.failed = \/ @ \/ Names(t, held) # group.segments
                       \/ \E k \in held : \/ op.type = "annotate" /\ t.segments[k].updates = 0
                                          \/ op.type = "insert" /\ t.segments[k].seq # Unassigned,
            !.passed = @ \/ /\ op.type = "insert"
                            /\ \E k \in held : \E j \in 1 .. k - 1 :
                                /\ Gone(t.segments[j], t.currentSeq)
                                /\ ReconnectionPosition(t, j, group.localSeq)
                                       = ReconnectionPosition(t, k, group.localSeq),
            !.astray = @ \/ /\ op.type = "annotate"
                            /\ \E k \in held : ~Present(t.segments[k], group.localSeq)],
        ops |-> r.ops \o FlattenSeq([i \in DOMAIN resent |->
                    ResetDelta(t, op, resent[i], group.localSeq)])]

(* regeneratePendingOp, for all messages that are pending, in their order. *)
Regenerated(t, messages) ==
    FoldLeft(LAMBDA r, ops :
                 LET new == FoldLeft(ResetPending, [tree |-> r.tree, ops |-> <<>>], ops)
                 IN [tree |-> new.tree, messages |-> Append(r.messages, new.ops)],
             [tree |-> t, messages |-> <<>>], messages)

-----------------------------------------------------------------------------
(* Edits *)

Length(t) == Cardinality({k \in DOMAIN t.segments : t.segments[k].removed = 0})

Op(type, start, end, content) ==
    [type |-> type, start |-> start, end |-> end,
     name |-> IF type = "insert" THEN content ELSE Nothing,
     value |-> IF type = "annotate" THEN content ELSE Nothing]

(* What a user inserts or sets is new.                                     *)
Content(u) == <<u, tree[u].localSeq + 1>>

(* submitSequenceMessage: what is sent while the user is not connected is  *)
(* only remembered, to be sent on connection.                              *)
Submit(u, ops) ==
    /\ edits < MaxEdits /\ edits' = edits + 1
    /\ tree' = [tree EXCEPT ![u] = ApplyLocally(@, ops)]
    /\ pending' = [pending EXCEPT ![u] = Append(@, ops)]
    /\ outbox' = IF connection[u] = "connected"
                 THEN [outbox EXCEPT ![u] = Append(@, [ops |-> ops, ref |-> tree[u].currentSeq])]
                 ELSE outbox
    /\ UNCHANGED <<inbox, minimum, connections>>

Selected(u, start, end) ==
    Names(tree[u], InRange(tree[u], Op("remove", start, end, Nothing), tree[u].currentSeq, u))

InsertLocal(u) ==
    /\ "insert" \in Kinds
    /\ \E pos \in 0 .. Length(tree[u]) : Submit(u, <<Op("insert", pos, pos, Content(u))>>)
    /\ expected' = expected \cup {Content(u)}

RemoveRange(u, start, end) ==
    /\ "remove" \in Kinds
    /\ Submit(u, <<Op("remove", start, end, Nothing)>>)
    /\ expected' = expected \ Selected(u, start, end)

AnnotateLocal(u, start, end) ==
    /\ "annotate" \in Kinds
    /\ Submit(u, <<Op("annotate", start, end, Content(u))>>)
    /\ UNCHANGED expected

(* replaceRange: one message with two operations.                          *)
ReplaceRange(u, start, end) ==
    /\ "replace" \in Kinds
    /\ Submit(u, <<Op("insert", end, end, Content(u)), Op("remove", start, end, Nothing)>>)
    /\ expected' = (expected \ Selected(u, start, end)) \cup {Content(u)}

-----------------------------------------------------------------------------
(* The service and the connections, as far as the sequence depends on them *)

(* The least reference that a member may still use.  A user who has joined *)
(* counts with the minimum until it is connected.                          *)
Reference(u) ==
    CASE connection[u] = "joining" -> minimum
      [] connection[u] = "connected" /\ outbox[u] # <<>> -> Head(outbox[u]).ref
      [] OTHER -> tree[u].currentSeq

Members == {u \in Users : connection[u] # "none"}

(* A message is ordered and delivered.  The minimum follows the references *)
(* of the members, by any amount.                                          *)
Order(u) ==
    /\ outbox[u] # <<>>
    /\ outbox' = [outbox EXCEPT ![u] = Tail(@)]
    /\ minimum' \in minimum .. Min({Reference(v) : v \in Members})
    /\ LET m == [client |-> u, ops |-> Head(outbox[u]).ops, ref |-> Head(outbox[u]).ref,
                 seq |-> tree[Reader].currentSeq + 1, minimum |-> minimum']
       IN /\ inbox' = [v \in Users |-> Append(inbox[v], m)]
          /\ tree' = [tree EXCEPT ![Reader] = ApplyMsg(@, m)]
    /\ UNCHANGED <<pending, connections, expected, edits>>

Resubmit(u, t) ==
    LET r == Regenerated(t, pending[u])
    IN /\ tree' = [tree EXCEPT ![u] = r.tree]
       /\ pending' = [pending EXCEPT ![u] = r.messages]
       /\ outbox' = [outbox EXCEPT ![u] = [i \in DOMAIN r.messages |->
                        [ops |-> r.messages[i], ref |-> t.currentSeq]]]

CaughtUp(u) == connection[u] = "joining" /\ join[u] = tree[u].currentSeq

(* A message is processed.  The user is connected when it has seen all     *)
(* that was ordered before it joined, and sends again what is pending.     *)
Process(u) ==
    /\ inbox[u] # <<>> /\ ~CaughtUp(u)
    /\ inbox' = [inbox EXCEPT ![u] = Tail(@)]
    /\ LET m == Head(inbox[u])
           t == ApplyMsg(tree[u], m)
       IN /\ tree' = [tree EXCEPT ![u] = t]
          /\ pending' = IF m.client = u THEN [pending EXCEPT ![u] = Tail(@)] ELSE pending
    /\ UNCHANGED <<outbox, minimum, connections, expected, edits>>

Connected(u) ==
    /\ CaughtUp(u)
    /\ connection' = [connection EXCEPT ![u] = "connected"]
    /\ Resubmit(u, tree[u])
    /\ UNCHANGED <<inbox, minimum, join, disconnects, expected, edits>>

(* What has not reached the service is lost.                               *)
Disconnect(u) ==
    /\ connection[u] # "none" /\ disconnects < MaxDisconnects
    /\ disconnects' = disconnects + 1
    /\ connection' = [connection EXCEPT ![u] = "none"]
    /\ outbox' = [outbox EXCEPT ![u] = <<>>]
    /\ UNCHANGED <<tree, pending, inbox, minimum, join, expected, edits>>

Connect(u) ==
    /\ connection[u] = "none"
    /\ connection' = [connection EXCEPT ![u] = "joining"]
    /\ join' = [join EXCEPT ![u] = tree[Reader].currentSeq]
    /\ UNCHANGED <<tree, sending, inbox, minimum, disconnects, expected, edits>>

Next ==
    \E u \in Users :
        \/ InsertLocal(u)
        \/ \E end \in 1 .. Length(tree[u]) : \E start \in 0 .. end - 1 :
               RemoveRange(u, start, end) \/ AnnotateLocal(u, start, end) \/ ReplaceRange(u, start, end)
        \/ Order(u) \/ Process(u) \/ Connected(u) \/ Disconnect(u) \/ Connect(u)

Spec == Init /\ [][Next]_vars

=============================================================================
