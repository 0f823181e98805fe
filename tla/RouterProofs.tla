---------------------------- MODULE RouterProofs ----------------------------
(***************************************************************************)
(* Proofs about one partition of a topic, for every set of documents and   *)
(* every value of the bounds.                                              *)
(***************************************************************************)
EXTENDS RouterProperties, Lemmas

-----------------------------------------------------------------------------
(* Types                                                                   *)

(* The offset of the partition lies below the tail of the router and those *)
(* of the documents that have work left.                                   *)
LEMMA CheckpointableBounds ==
    ASSUME NEW t \in Nat, NEW cs \in Seq(Contexts)
    PROVE  /\ Checkpointable(t, cs) \in 0 .. t
           /\ \A i \in DOMAIN cs : HasPendingWork(cs[i]) => Checkpointable(t, cs) <= cs[i].tail
<1> DEFINE tails == {cs[i].tail : i \in {j \in DOMAIN cs : HasPendingWork(cs[j])}}
<1>1. tails \in SUBSET Nat
  <2>1. \A i \in DOMAIN cs : cs[i] \in Contexts
    OBVIOUS
  <2>2. \A c \in Contexts : c.tail \in Nat
    BY DEF Contexts
  <2> QED
    BY <2>1, <2>2
<1>2. {t} \cup tails \in SUBSET Nat /\ {t} \cup tails # {}
  BY <1>1
<1>3. /\ Min({t} \cup tails) \in {t} \cup tails
      /\ \A y \in {t} \cup tails : Min({t} \cup tails) <= y
  BY <1>2, MinNat
<1>4. \A i \in DOMAIN cs : HasPendingWork(cs[i]) => cs[i].tail \in tails
  OBVIOUS
<1> HIDE DEF tails
<1>5. Checkpointable(t, cs) = Min({t} \cup tails)
  BY DEF Checkpointable, tails
<1>6. Checkpointable(t, cs) \in Nat /\ Checkpointable(t, cs) <= t
  BY <1>2, <1>3, <1>5
<1>7. \A y \in tails : Checkpointable(t, cs) <= y
  BY <1>3, <1>5
<1>8. \A i \in DOMAIN cs : HasPendingWork(cs[i]) => Checkpointable(t, cs) <= cs[i].tail
  BY <1>4, <1>7
<1> QED
  BY <1>6, <1>8

LEMMA UpdateCheckpointType ==
    ASSUME RouterTypeOK, UpdateCheckpoint, UNCHANGED log,
           tail' \in Offsets, contexts' \in Seq(Contexts)
    PROVE  lastCheckpoint' \in Offsets /\ committing' \in Offsets
<1>1. tail' \in Nat
  BY DEF Offsets
<1>2. Checkpointable(tail', contexts') \in 0 .. tail'
  BY <1>1, CheckpointableBounds
<1>3. Checkpointable(tail', contexts') \in Offsets
  BY <1>2, RouterTypeOK DEF Offsets, RouterTypeOK
<1> QED
  BY <1>3 DEF UpdateCheckpoint, RouterTypeOK

LEMMA NewContextType ==
    ASSUME NEW d \in Documents, NEW head \in Nat, NEW latestTail \in Nat
    PROVE  NewContext(d, head, latestTail) \in Contexts
  BY DEF NewContext, Fresh, Contexts, States

LEMMA RoutedType ==
    ASSUME NEW c \in Contexts, NEW m \in Nat, tail \in Nat
    PROVE  Routed(c, m) \in Contexts
<1> DEFINE h == SetHead(c, m)
<1>1. h \in Contexts
  BY DEF SetHead, Contexts
<1>2. Append(h.queue, m) \in Seq(Nat)
  BY <1>1 DEF Contexts
<1>3. Routed(c, m) = [h EXCEPT !.queue = IF c.closed THEN h.queue ELSE Append(h.queue, m)]
  BY <1>1 DEF Routed, Contexts
<1> HIDE DEF h
<1> QED
  BY <1>1, <1>2, <1>3 DEF Contexts

LEMMA StateAtType ==
    ASSUME NEW c \in Contexts, NEW offset \in Nat
    PROVE  StateAt(c, offset) \in States
  BY DEF StateAt, Contexts, States

LEMMA ReportedType ==
    ASSUME NEW c \in Contexts
    PROVE  Reported(c) \in Contexts
  BY DEF Reported, Contexts

(* The actions, in the order of the module.                                *)

LEMMA InitType == Init => RouterTypeOK
  BY RouterConstants DEF Init, RouterTypeOK, Offsets, Fresh, States

LEMMA ProduceType ==
    ASSUME RouterTypeOK, NEW d \in Documents \cup {NoDocument}, Produce(d)
    PROVE  RouterTypeOK'
<1>1. log' \in Seq(Documents \cup {NoDocument}) /\ Len(log') = Len(log) + 1
  BY DEF RouterTypeOK, Produce
<1> QED
  BY <1>1 DEF RouterTypeOK, Produce, consumer, checkpointing, Offsets

LEMMA CommitTypes ==
    ASSUME RouterTypeOK, Committed \/ CommitFails
    PROVE  RouterTypeOK'
  BY DEF RouterTypeOK, Committed, CommitFails, Fails, kafka, consumer, checkpointing, Offsets

LEMMA DeliverType ==
    ASSUME RouterTypeOK, Deliver
    PROVE  RouterTypeOK'
<1> DEFINE d == log[position]
<1>1. /\ log' = log /\ Offsets' = Offsets /\ position \in DOMAIN log
      /\ d \in Documents \cup {NoDocument}
  BY DEF RouterTypeOK, Deliver, kafka, Offsets
<1>2. tail' \in Offsets /\ position' \in 1 .. Len(log) + 1 /\ position \in Nat /\ tail \in Nat
  BY DEF RouterTypeOK, Deliver, Offsets
<1>3. contexts \in Seq(Contexts) /\ documents \in [Documents -> 0 .. Len(contexts)]
  BY DEF RouterTypeOK
<1> HIDE DEF d
<1>4. contexts' \in Seq(Contexts) /\ documents' \in [Documents -> 0 .. Len(contexts')]
  <2>1. CASE d = NoDocument
    <3>1. contexts' = contexts /\ documents' = documents
      BY <2>1, RouterConstants DEF Deliver, d
    <3> QED
      BY <1>3, <3>1
  <2>2. CASE d # NoDocument /\ documents[d] = 0
    <3> DEFINE new == NewContext(d, position, tail)
    <3>1. new \in Contexts
      BY <1>1, <1>2, <2>2, NewContextType
    <3>2. contexts' = Append(contexts, new) /\ documents' = [documents EXCEPT ![d] = Len(contexts) + 1]
      BY <2>2 DEF Deliver, d
    <3> HIDE DEF new
    <3>3. contexts' \in Seq(Contexts) /\ Len(contexts') = Len(contexts) + 1
      BY <1>3, <3>1, <3>2
    <3>4. documents' \in [Documents -> 0 .. Len(contexts) + 1]
      <4>1. Len(contexts) \in Nat
        BY <1>3
      <4>2. /\ Len(contexts) + 1 \in 0 .. Len(contexts) + 1
            /\ \A e \in Documents : documents[e] \in 0 .. Len(contexts) + 1
        BY <1>3, <4>1
      <4> QED
        BY <1>3, <3>2, <4>2
    <3> QED
      BY <3>3, <3>4
  <2>3. CASE d # NoDocument /\ documents[d] # 0
    <3> DEFINE i == documents[d]
    <3>1. i \in DOMAIN contexts
      <4>1. d \in Documents
        BY <1>1, <2>3
      <4>2. i \in 0 .. Len(contexts) /\ i # 0
        BY <1>3, <2>3, <4>1
      <4>3. DOMAIN contexts = 1 .. Len(contexts) /\ Len(contexts) \in Nat
        BY <1>3
      <4> HIDE DEF i
      <4> QED
        BY <4>2, <4>3
    <3>2. Routed(contexts[i], position) \in Contexts
      BY <1>2, <1>3, <3>1, RoutedType
    <3>3. contexts' = [contexts EXCEPT ![i] = Routed(contexts[i], position)] /\ documents' = documents
      BY <2>3 DEF Deliver, Becomes, d
    <3> HIDE DEF i
    <3>4. contexts' \in Seq(Contexts) /\ Len(contexts') = Len(contexts)
      BY <1>3, <3>1, <3>2, <3>3, ReplaceInSeq
    <3> QED
      BY <1>3, <3>3, <3>4
  <2> QED
    BY <2>1, <2>2, <2>3
<1>5. lastCheckpoint' \in Offsets /\ committing' \in Offsets
  BY <1>1, <1>2, <1>4, UpdateCheckpointType DEF Deliver
<1> QED
  BY <1>1, <1>2, <1>4, <1>5 DEF RouterTypeOK, Deliver, kafka, Offsets

-----------------------------------------------------------------------------
(* What the actions of a document make of its context.                     *)

(* A context is replaced by one of the same document.                      *)
Replaced(i) ==
    /\ contexts' \in Seq(Contexts)
    /\ DOMAIN contexts' = DOMAIN contexts /\ Len(contexts') = Len(contexts)
    /\ contexts'[i] \in Contexts /\ contexts'[i].doc = contexts[i].doc
    /\ \A j \in DOMAIN contexts : j # i => contexts'[j] = contexts[j]

LEMMA ReplacedBy ==
    ASSUME RouterTypeOK, NEW i \in DOMAIN contexts, NEW c \in Contexts,
           c.doc = contexts[i].doc, contexts' = [contexts EXCEPT ![i] = c]
    PROVE  Replaced(i) /\ contexts'[i] = c
  BY ReplaceInSeq DEF RouterTypeOK, Replaced

LEMMA ContextType ==
    ASSUME RouterTypeOK, NEW i \in DOMAIN contexts
    PROVE  /\ contexts[i] \in Contexts /\ contexts[i].doc \in Documents
           /\ record[contexts[i].doc] \in States
<1>1. contexts[i] \in Contexts
  BY DEF RouterTypeOK
<1>2. contexts[i].doc \in Documents
  BY <1>1 DEF Contexts
<1> QED
  BY <1>1, <1>2 DEF RouterTypeOK

LEMMA CreatedContext ==
    ASSUME RouterTypeOK, NEW i \in DOMAIN contexts, Created(i)
    PROVE  LET c == contexts[i] n == contexts'[i]
           IN /\ Replaced(i) /\ n.head = c.head /\ n.tail = c.tail /\ n.queue = c.queue
              /\ n.created /\ n.closed = c.closed /\ n.corrupt = c.corrupt
              /\ n.state = record[c.doc] /\ n.waiting = c.waiting /\ n.updating = c.updating
<1> DEFINE c == contexts[i]
           stored == record[c.doc]
           n == [c EXCEPT !.created = TRUE, !.state = stored, !.restored = stored.logOffset]
<1>1. c \in Contexts /\ stored \in States
  BY ContextType
<1>2. n \in Contexts /\ n.doc = c.doc
  BY <1>1 DEF Contexts, States
<1>3. contexts' = [contexts EXCEPT ![i] = n]
  BY DEF Created, Becomes
<1>4. Replaced(i) /\ contexts'[i] = n
  BY <1>2, <1>3, ReplacedBy
<1> QED
  BY <1>1, <1>4 DEF Contexts

LEMMA ClosedContext ==
    ASSUME RouterTypeOK, NEW i \in DOMAIN contexts, CreateFails(i)
    PROVE  LET c == contexts[i] n == contexts'[i]
           IN /\ Replaced(i) /\ n.closed /\ n.queue = <<>>
              /\ n.head = c.head /\ n.tail = c.tail /\ n.created = c.created /\ n.corrupt = c.corrupt
              /\ n.state = c.state /\ n.waiting = c.waiting /\ n.updating = c.updating
<1> DEFINE c == contexts[i]
           n == [c EXCEPT !.closed = TRUE, !.queue = <<>>]
<1>1. c \in Contexts
  BY ContextType
<1>5. <<>> \in Seq(Nat)
  OBVIOUS
<1>2. n \in Contexts /\ n.doc = c.doc
  BY <1>1, <1>5 DEF Contexts, States
<1>3. contexts' = [contexts EXCEPT ![i] = n]
  BY DEF CreateFails, Becomes
<1>4. Replaced(i) /\ contexts'[i] = n
  BY <1>2, <1>3, ReplacedBy
<1> QED
  BY <1>1, <1>4 DEF Contexts

LEMMA SkippedContext ==
    ASSUME RouterTypeOK, NEW i \in DOMAIN contexts, Skip(i)
    PROVE  LET c == contexts[i] n == contexts'[i]
           IN /\ Replaced(i) /\ n.queue = Tail(c.queue)
              /\ n.head = c.head /\ n.tail = c.tail /\ n.created = c.created /\ n.closed = c.closed /\ n.corrupt = c.corrupt
              /\ n.state = c.state /\ n.waiting = c.waiting /\ n.updating = c.updating
<1> DEFINE c == contexts[i]
           n == [c EXCEPT !.queue = Tail(@)]
<1>1. c \in Contexts
  BY ContextType
<1>5. NextMessage(i) \in Nat /\ Tail(c.queue) \in Seq(Nat)
  <2>1. c.queue \in Seq(Nat)
    BY <1>1 DEF Contexts
  <2>2. c.queue # <<>>
    BY DEF Busy, Skip
  <2> QED
    BY <2>1, <2>2, TailOfSeq DEF NextMessage
<1>2. n \in Contexts /\ n.doc = c.doc
  BY <1>1, <1>5 DEF Contexts, States
<1>3. contexts' = [contexts EXCEPT ![i] = n]
  BY DEF Skip, Becomes
<1>4. Replaced(i) /\ contexts'[i] = n
  BY <1>2, <1>3, ReplacedBy
<1> QED
  BY <1>1, <1>4, <1>5 DEF Contexts

LEMMA HandledContext ==
    ASSUME RouterTypeOK, NEW i \in DOMAIN contexts, Handle(i)
    PROVE  LET c == contexts[i] n == contexts'[i]
           IN /\ Replaced(i) /\ n.queue = Tail(c.queue)
              /\ n.head = c.head /\ n.tail = c.tail /\ n.created = c.created /\ n.closed = c.closed /\ n.corrupt = c.corrupt
              /\ n.state.logOffset = NextMessage(i)
              /\ n.state.messages = c.state.messages \cup {NextMessage(i)}
              /\ n.waiting = c.waiting \cup {NextMessage(i)} /\ n.updating = c.updating
<1> DEFINE c == contexts[i]
           n == [c EXCEPT !.queue = Tail(@), !.waiting = @ \cup {NextMessage(i)},
                   !.state = [logOffset |-> NextMessage(i),
                              messages |-> @.messages \cup {NextMessage(i)}]]
<1>1. c \in Contexts
  BY ContextType
<1>5. NextMessage(i) \in Nat /\ Tail(c.queue) \in Seq(Nat)
  <2>1. c.queue \in Seq(Nat)
    BY <1>1 DEF Contexts
  <2>2. c.queue # <<>>
    BY DEF Busy, Handle
  <2> QED
    BY <2>1, <2>2, TailOfSeq DEF NextMessage
<1>2. n \in Contexts /\ n.doc = c.doc
  BY <1>1, <1>5 DEF Contexts, States
<1>3. contexts' = [contexts EXCEPT ![i] = n]
  BY DEF Handle, Becomes
<1>4. Replaced(i) /\ contexts'[i] = n
  BY <1>2, <1>3, ReplacedBy
<1> QED
  BY <1>1, <1>4, <1>5 DEF Contexts

LEMMA ThrowingContext ==
    ASSUME RouterTypeOK, NEW i \in DOMAIN contexts, Throw(i)
    PROVE  LET c == contexts[i] n == contexts'[i]
           IN /\ Replaced(i) /\ n.queue = Tail(c.queue) /\ n.corrupt
              /\ n.head = c.head /\ n.tail = c.tail /\ n.created = c.created /\ n.closed = c.closed
              /\ n.state = c.state /\ n.waiting = c.waiting /\ n.updating = c.updating
<1> DEFINE c == contexts[i]
           n == [c EXCEPT !.queue = Tail(@), !.corrupt = TRUE]
<1>1. c \in Contexts
  BY ContextType
<1>5. NextMessage(i) \in Nat /\ Tail(c.queue) \in Seq(Nat)
  <2>1. c.queue \in Seq(Nat)
    BY <1>1 DEF Contexts
  <2>2. c.queue # <<>>
    BY DEF Busy, Throw
  <2> QED
    BY <2>1, <2>2, TailOfSeq DEF NextMessage
<1>2. n \in Contexts /\ n.doc = c.doc
  BY <1>1, <1>5 DEF Contexts, States
<1>3. contexts' = [contexts EXCEPT ![i] = n]
  BY DEF Throw, Becomes
<1>4. Replaced(i) /\ contexts'[i] = n
  BY <1>2, <1>3, ReplacedBy
<1> QED
  BY <1>1, <1>4, <1>5 DEF Contexts

LEMMA CorruptContext ==
    ASSUME RouterTypeOK, NEW i \in DOMAIN contexts, HandleCorrupt(i)
    PROVE  LET c == contexts[i] n == contexts'[i]
           IN /\ Replaced(i) /\ n.queue = Tail(c.queue) /\ n.tail = NextMessage(i)
              /\ n.head = c.head /\ n.created = c.created /\ n.closed = c.closed /\ n.corrupt = c.corrupt
              /\ n.state = c.state /\ n.waiting = c.waiting /\ n.updating = c.updating
<1> DEFINE c == contexts[i]
           n == [c EXCEPT !.queue = Tail(@), !.tail = NextMessage(i)]
<1>1. c \in Contexts
  BY ContextType
<1>5. NextMessage(i) \in Nat /\ Tail(c.queue) \in Seq(Nat)
  <2>1. c.queue \in Seq(Nat)
    BY <1>1 DEF Contexts
  <2>2. c.queue # <<>>
    BY DEF Busy, HandleCorrupt
  <2> QED
    BY <2>1, <2>2, TailOfSeq DEF NextMessage
<1>2. n \in Contexts /\ n.doc = c.doc
  BY <1>1, <1>5 DEF Contexts, States
<1>3. contexts' = [contexts EXCEPT ![i] = n]
  BY DEF HandleCorrupt, Becomes
<1>4. Replaced(i) /\ contexts'[i] = n
  BY <1>2, <1>3, ReplacedBy
<1> QED
  BY <1>1, <1>4, <1>5 DEF Contexts

LEMMA UpdatingContext ==
    ASSUME RouterTypeOK, NEW i \in DOMAIN contexts, NEW offset \in contexts[i].waiting, Update(i, offset)
    PROVE  LET c == contexts[i] n == contexts'[i]
           IN /\ Replaced(i) /\ n.updating = offset /\ n.waiting = {o \in c.waiting : o > offset}
              /\ n.head = c.head /\ n.tail = c.tail /\ n.queue = c.queue /\ n.created = c.created /\ n.closed = c.closed
              /\ n.corrupt = c.corrupt /\ n.state = c.state
<1> DEFINE c == contexts[i]
           n == [c EXCEPT !.updating = offset, !.waiting = {o \in @ : o > offset}]
<1>1. c \in Contexts
  BY ContextType
<1>5. offset \in Nat
  BY <1>1 DEF Contexts
<1>2. n \in Contexts /\ n.doc = c.doc
  BY <1>1, <1>5 DEF Contexts, States
<1>3. contexts' = [contexts EXCEPT ![i] = n]
  BY DEF Update, Becomes
<1>4. Replaced(i) /\ contexts'[i] = n
  BY <1>2, <1>3, ReplacedBy
<1> QED
  BY <1>1, <1>4, <1>5 DEF Contexts

LEMMA UpdatedContext ==
    ASSUME RouterTypeOK, NEW i \in DOMAIN contexts, Updated(i)
    PROVE  LET c == contexts[i] n == contexts'[i]
           IN /\ Replaced(i) /\ n.updating = 0
              /\ n.head = c.head /\ n.queue = c.queue /\ n.created = c.created /\ n.closed = c.closed /\ n.corrupt = c.corrupt /\ n.state = c.state
              /\ IF c.tail < c.updating /\ c.updating <= c.head
                 THEN n.tail = c.updating /\ n.waiting = c.waiting
                 ELSE n.tail = c.tail /\ n.waiting = {}
<1> DEFINE c == contexts[i]
           n == Reported(c)
<1>1. c \in Contexts
  BY ContextType
<1>2. n \in Contexts /\ n.doc = c.doc
  BY <1>1 DEF Contexts, Reported
<1>3. contexts' = [contexts EXCEPT ![i] = n]
  BY DEF Updated, Becomes
<1>4. Replaced(i) /\ contexts'[i] = n
  BY <1>2, <1>3, ReplacedBy
<1> QED
  BY <1>1, <1>4 DEF Contexts, Reported

LEMMA InactiveContext ==
    ASSUME RouterTypeOK, NEW i \in DOMAIN contexts, Inactive(i)
    PROVE  LET c == contexts[i] n == contexts'[i]
           IN /\ Replaced(i) /\ n.closed /\ n.queue = <<>> /\ n.waiting = {}
              /\ n.head = c.head /\ n.tail = c.tail /\ n.created = c.created /\ n.corrupt = c.corrupt
              /\ n.state = c.state /\ n.updating = c.updating
<1> DEFINE c == contexts[i]
           n == [c EXCEPT !.closed = TRUE, !.queue = <<>>, !.waiting = {}]
<1>1. c \in Contexts
  BY ContextType
<1>5. <<>> \in Seq(Nat)
  OBVIOUS
<1>2. n \in Contexts /\ n.doc = c.doc
  BY <1>1, <1>5 DEF Contexts, States
<1>3. contexts' = [contexts EXCEPT ![i] = n]
  BY DEF Inactive, Becomes
<1>4. Replaced(i) /\ contexts'[i] = n
  BY <1>2, <1>3, ReplacedBy
<1> QED
  BY <1>1, <1>4 DEF Contexts

-----------------------------------------------------------------------------
(* Types, continued                                                        *)

LEMMA ContextActionType ==
    ASSUME RouterTypeOK, NEW i \in DOMAIN contexts,
           \/ Created(i) \/ CreateFails(i) \/ Skip(i) \/ Handle(i) \/ Throw(i)
           \/ HandleCorrupt(i) \/ Updated(i) \/ Inactive(i)
           \/ \E offset \in contexts[i].waiting : Update(i, offset)
    PROVE  RouterTypeOK'
<1>1. contexts[i] \in Contexts /\ contexts[i].doc \in Documents
  BY ContextType
<1>2. CASE Created(i) \/ CreateFails(i) \/ Skip(i) \/ Handle(i)
  <2>1. Replaced(i)
    BY <1>2, CreatedContext, ClosedContext, SkippedContext, HandledContext
  <2>2. error' \in {"none", "document", "commit"} /\ UnchangedByLambda
    BY <1>2 DEF Created, CreateFails, Skip, Handle, Fails, RouterTypeOK
  <2> QED
    BY <2>1, <2>2 DEF RouterTypeOK, Replaced, UnchangedByLambda, kafka, consumer,
                      checkpointing, Offsets
<1>3. ASSUME NEW offset \in contexts[i].waiting, Update(i, offset)
      PROVE  RouterTypeOK'
  <2>1. Replaced(i)
    BY <1>3, UpdatingContext
  <2> QED
    BY <1>3, <2>1 DEF Update, RouterTypeOK, Replaced, UnchangedByLambda, kafka, consumer,
                      checkpointing, Offsets
<1>4. CASE Throw(i)
  <2>1. Replaced(i)
    BY <1>4, ThrowingContext
  <2>2. abandoned' \subseteq Documents /\ error' \in {"none", "document", "commit"}
    BY <1>1, <1>4 DEF Throw, Fails, RouterTypeOK
  <2> QED
    BY <1>4, <2>1, <2>2 DEF Throw, RouterTypeOK, Replaced, kafka, consumer, checkpointing, Offsets
<1>5. CASE HandleCorrupt(i)
  <2>1. Replaced(i)
    BY <1>5, CorruptContext
  <2>2. UNCHANGED log /\ tail' \in Offsets
    BY <1>5 DEF HandleCorrupt, RouterTypeOK, kafka, consumer
  <2>3. lastCheckpoint' \in Offsets /\ committing' \in Offsets
    BY <1>5, <2>1, <2>2, UpdateCheckpointType DEF HandleCorrupt, Replaced
  <2> QED
    BY <1>5, <2>1, <2>3 DEF HandleCorrupt, RouterTypeOK, Replaced, kafka, consumer, Offsets
<1>6. CASE Updated(i)
  <2>1. Replaced(i)
    BY <1>6, UpdatedContext
  <2>2. UNCHANGED log /\ tail' \in Offsets
    BY <1>6 DEF Updated, RouterTypeOK, kafka, consumer
  <2>3. lastCheckpoint' \in Offsets /\ committing' \in Offsets
    BY <1>6, <2>1, <2>2, UpdateCheckpointType DEF Updated, Replaced
  <2>4. contexts[i].updating \in Nat
    BY <1>1 DEF Contexts
  <2>5. record' \in [Documents -> States]
    BY <1>1, <1>6, <2>4, StateAtType DEF Updated, RouterTypeOK
  <2> QED
    BY <1>6, <2>1, <2>3, <2>5 DEF Updated, RouterTypeOK, Replaced, kafka, consumer, Offsets
<1>7. CASE Inactive(i)
  <2>1. Replaced(i)
    BY <1>7, InactiveContext
  <2>2. Len(contexts) \in Nat
    BY DEF RouterTypeOK
  <2>3. documents' \in [Documents -> 0 .. Len(contexts)]
    <3>1. documents \in [Documents -> 0 .. Len(contexts)] /\ 0 \in 0 .. Len(contexts)
      BY <2>2 DEF RouterTypeOK
    <3>2. documents' = [documents EXCEPT ![contexts[i].doc] = 0]
      BY <1>7 DEF Inactive
    <3> QED
      BY <3>1, <3>2
  <2> QED
    BY <1>7, <2>1, <2>3 DEF Inactive, RouterTypeOK, Replaced, kafka, checkpointing, Offsets
<1> QED
  BY <1>2, <1>3, <1>4, <1>5, <1>6, <1>7

LEMMA RestartType ==
    ASSUME RouterTypeOK, Restart
    PROVE  RouterTypeOK'
<1>1. committed \in Offsets /\ log \in Seq(Documents \cup {NoDocument}) /\ Len(log) \in Nat
  BY DEF RouterTypeOK
<1>2. position' \in 1 .. Len(log) + 1 /\ 0 \in Offsets
  BY <1>1 DEF Restart, ResumeAt, Offsets
<1>3. contexts' \in Seq(Contexts) /\ documents' \in [Documents -> 0 .. Len(contexts')]
  BY DEF Restart
<1>4. late' \subseteq [doc : Documents, state : States]
  <2>1. \A i \in DOMAIN contexts : contexts[i] \in Contexts
    BY DEF RouterTypeOK
  <2>2. \A c \in Contexts : c.doc \in Documents /\ c.updating \in Nat
    BY DEF Contexts
  <2>3. \A i \in DOMAIN contexts : /\ contexts[i].doc \in Documents
                                   /\ StateAt(contexts[i], contexts[i].updating) \in States
    BY <2>1, <2>2, StateAtType
  <2> QED
    BY <2>3 DEF Restart, RouterTypeOK
<1> QED
  BY <1>1, <1>2, <1>3, <1>4 DEF Restart, RouterTypeOK, kafka, Offsets

LEMMA LateUpdateType ==
    ASSUME RouterTypeOK, NEW u \in late, LateUpdate(u)
    PROVE  RouterTypeOK'
  BY DEF LateUpdate, RouterTypeOK, kafka, consumer, checkpointing, Offsets

LEMMA TypeStep == RouterTypeOK /\ [Next]_vars => RouterTypeOK'
<1> SUFFICES ASSUME RouterTypeOK, [Next]_vars
             PROVE  RouterTypeOK'
  OBVIOUS
<1>1. CASE UNCHANGED vars
  BY <1>1 DEF vars, kafka, consumer, checkpointing, RouterTypeOK, Offsets
<1>2. CASE Next
  BY <1>2, ProduceType, DeliverType, CommitTypes, ContextActionType, RestartType, LateUpdateType
     DEF Next
<1> QED
  BY <1>1, <1>2

(* The types and the offsets of the partition, for every instance.         *)
THEOREM RouterTypes == Spec => []RouterTypeOK
  BY InitType, TypeStep, PTL DEF Spec

-----------------------------------------------------------------------------
(* At least once                                                           *)

LEMMA ContextFields ==
    ASSUME NEW c \in Contexts
    PROVE  /\ c.doc \in Documents /\ c.head \in Nat /\ c.tail \in Nat /\ c.updating \in Nat
           /\ c.queue \in Seq(Nat) /\ c.waiting \subseteq Nat
           /\ c.state.logOffset \in Nat /\ c.state.messages \subseteq Nat
           /\ c.created \in BOOLEAN /\ c.closed \in BOOLEAN /\ c.corrupt \in BOOLEAN
  BY DEF Contexts, States

LEMMA RecordType ==
    ASSUME RouterTypeOK, NEW d \in Documents
    PROVE  record[d].logOffset \in Nat /\ record[d].messages \subseteq Nat
  BY DEF RouterTypeOK, States

(* After a step that keeps the contexts and documents right, what the      *)
(* partition may commit is stored.                                         *)
LEMMA OffsetStored ==
    ASSUME RouterTypeOK', tail' < position', \A e \in Documents : DocumentInv(e)',
           \A i \in DOMAIN contexts' : ContextInv(i)', NEW d \in Documents, Kept(d)'
    PROVE  \A m \in 1 .. Checkpointable(tail', contexts') :
               log'[m] = d => m <= record'[d].logOffset
<1> DEFINE o == Checkpointable(tail', contexts')
<1>1. /\ tail' \in Nat /\ tail' <= Len(log') /\ position' \in Nat /\ Len(log') \in Nat
      /\ contexts' \in Seq(Contexts) /\ documents'[d] \in 0 .. Len(contexts')
      /\ DOMAIN log' = 1 .. Len(log')
  BY DEF RouterTypeOK, Offsets
<1>2. /\ o \in 0 .. tail'
      /\ \A i \in DOMAIN contexts' : HasPendingWork(contexts'[i]) => o <= contexts'[i].tail
  BY <1>1, CheckpointableBounds
<1> HIDE DEF o
<1>3. \A m \in 1 .. o : m \in Delivered' /\ m <= o /\ m \in Nat
  <2>1. o \in Nat /\ o <= tail'
    BY <1>1, <1>2
  <2>2. \A m \in 1 .. o : m \in Nat /\ 1 <= m /\ m <= o /\ m <= Len(log') /\ m < position'
    BY <1>1, <2>1
  <2> QED
    BY <1>1, <2>2 DEF Delivered
<1>4. CASE documents'[d] = 0
  <2>1. Stored(d, Delivered)'
    BY <1>4 DEF DocumentInv
  <2> QED
    BY <1>3, <2>1 DEF Stored, o
<1>5. CASE documents'[d] # 0
  <2>1. PICK i \in DOMAIN contexts' : i = documents'[d]
    <3>1. Len(contexts') \in Nat /\ DOMAIN contexts' = 1 .. Len(contexts')
      BY <1>1
    <3> QED
      BY <1>1, <1>5, <3>1
  <2>2. contexts'[i] \in Contexts /\ contexts'[i].doc = d
    BY <1>1, <1>5, <2>1 DEF DocumentInv
  <2>3. contexts'[i].head \in Nat /\ contexts'[i].tail \in Nat
    BY <2>2, ContextFields
  <2>4. Bounded(i)' /\ Live(i)'
    BY <2>1, <2>2 DEF ContextInv, Live
  <2>5. \A m \in 1 .. contexts'[i].tail : log'[m] = d => m <= record'[d].logOffset
    BY <2>2, <2>4 DEF Bounded, Stored
  <2>6. \A m \in Delivered' : log'[m] = d => m <= contexts'[i].head
    BY <2>2, <2>4 DEF Bounded
  <2>7. \A m \in 1 .. o : log'[m] = d => m <= contexts'[i].tail
    <3>1. CASE contexts'[i].head = contexts'[i].tail
      BY <1>3, <2>6, <3>1
    <3>2. CASE contexts'[i].head # contexts'[i].tail
      <4>1. o <= contexts'[i].tail /\ o \in Nat
        BY <1>1, <1>2, <2>1, <3>2 DEF HasPendingWork
      <4> QED
        BY <1>3, <2>3, <4>1
    <3> QED
      BY <3>1, <3>2
  <2> QED
    BY <1>3, <2>3, <2>5, <2>7 DEF o
<1> QED
  BY <1>4, <1>5

(* The stored states grow.                                                 *)
Grows == \A d \in Documents : Kept(d)' => Kept(d) /\ record[d].logOffset <= record'[d].logOffset

LEMMA CommitsStored ==
    ASSUME RouterTypeOK, RouterTypeOK', CommitInv, UpdateCheckpoint, UNCHANGED <<log, committed>>,
           Grows, tail' < position', \A d \in Documents : DocumentInv(d)',
           \A i \in DOMAIN contexts' : ContextInv(i)'
    PROVE  CommitInv'
<1> SUFFICES ASSUME NEW d \in Documents, Kept(d)'
             PROVE  /\ Stored(d, 1 .. committed)' /\ Stored(d, 1 .. committing)'
                    /\ Stored(d, 1 .. lastCheckpoint)'
  BY DEF CommitInv
<1>1. Stored(d, 1 .. lastCheckpoint)'
  BY OffsetStored DEF UpdateCheckpoint, Stored
<1>2. Stored(d, 1 .. committed) /\ Stored(d, 1 .. committing)
  BY DEF Grows, CommitInv
<1>3. /\ record[d].logOffset \in Nat /\ record'[d].logOffset \in Nat
      /\ committed \in Nat /\ committing \in Nat
  <2>1. record[d] \in States /\ record'[d] \in States
    BY DEF RouterTypeOK
  <2> QED
    BY <2>1 DEF RouterTypeOK, Offsets, States
<1>4. record[d].logOffset <= record'[d].logOffset
  BY DEF Grows
<1>5. \A n \in Nat : Stored(d, 1 .. n) =>
          \A m \in 1 .. n : log'[m] = d => m <= record'[d].logOffset
  BY <1>3, <1>4 DEF Stored
<1>6. Stored(d, 1 .. committed)'
  BY <1>2, <1>3, <1>5 DEF Stored
<1>7. CASE committing' = committing
  BY <1>1, <1>2, <1>3, <1>5, <1>6, <1>7 DEF Stored
<1>8. CASE committing' = lastCheckpoint'
  BY <1>1, <1>6, <1>8 DEF Stored
<1> QED
  BY <1>7, <1>8 DEF UpdateCheckpoint

(* A step leaves the invariant of a context alone if it leaves the context *)
(* and, as long as it is not closed, its document alone.                   *)
LEMMA Untouched ==
    ASSUME RouterTypeOK, RouterTypeOK', NEW j \in DOMAIN contexts, ContextInv(j),
           j \in DOMAIN contexts', contexts'[j] = contexts[j],
           Live(j)' <=> Live(j), abandoned \subseteq abandoned', error' = error \/ error' # "none",
           Len(log) <= Len(log'), \A m \in DOMAIN log : log'[m] = log[m],
           position <= position',
           \/ record'[contexts[j].doc] = record[contexts[j].doc]
           \/ /\ contexts[j].closed
              /\ Kept(contexts[j].doc) =>
                     record[contexts[j].doc].logOffset <= record'[contexts[j].doc].logOffset
           \/ ~Kept(contexts[j].doc),
           \/ \A m \in Delivered' : m \in Delivered \/ log'[m] # contexts[j].doc
           \/ contexts[j].closed /\ ~Live(j)
    PROVE  ContextInv(j)'
<1>1. PICK c \in Contexts : contexts[j] = c /\ contexts'[j] = c
  BY ContextType
<1>2. /\ c.doc \in Documents /\ c.head \in Nat /\ c.tail \in Nat /\ c.updating \in Nat
      /\ c.state.logOffset \in Nat /\ position \in Nat /\ position' \in Nat
      /\ Len(log) \in Nat /\ Len(log') \in Nat
      /\ position <= Len(log) + 1 /\ DOMAIN log = 1 .. Len(log)
  BY ContextFields DEF RouterTypeOK
<1>3. record[c.doc].logOffset \in Nat /\ record'[c.doc].logOffset \in Nat
  <2>1. record[c.doc] \in States /\ record'[c.doc] \in States
    BY <1>2 DEF RouterTypeOK
  <2> QED
    BY <2>1 DEF States
<1>4. Status(j) /\ (Kept(c.doc)' => Kept(c.doc))
  BY DEF ContextInv, Kept
<1>5. Status(j)'
  BY <1>1, <1>4 DEF Status
<1> SUFFICES ASSUME Kept(c.doc)'
             PROVE  /\ Complete(c.state, c.doc)' /\ InOrder(c)' /\ Bounded(j)'
                    /\ ~c.closed => Followed(c)'
  BY <1>1, <1>5 DEF ContextInv
<1>6. /\ Complete(c.state, c.doc) /\ InOrder(c) /\ Bounded(j)
      /\ ~c.closed => Followed(c)
  BY <1>1, <1>4 DEF ContextInv
<1>7. Complete(c.state, c.doc)'
  BY <1>2, <1>6 DEF Complete
<1>8. \/ record'[c.doc] = record[c.doc]
      \/ c.closed /\ record[c.doc].logOffset <= record'[c.doc].logOffset
  BY <1>1, <1>4
<1>9. InOrder(c)'
  <2>1. CASE record'[c.doc] = record[c.doc]
    BY <1>6, <2>1 DEF InOrder
  <2>2. CASE c.closed
    BY <1>1, <1>4, <1>5, <2>2 DEF InOrder, Status
  <2> QED
    BY <1>8, <2>1, <2>2
<1>10. c.tail <= c.head /\ c.head < position /\ c.head < position' /\ Stored(c.doc, 1 .. c.tail)
  BY <1>1, <1>2, <1>6 DEF Bounded
<1>11. Stored(c.doc, 1 .. c.tail)'
  <2>1. record[c.doc].logOffset <= record'[c.doc].logOffset
    BY <1>3, <1>8
  <2>2. \A m \in 1 .. c.tail : m \in Nat /\ log'[m] = log[m]
    BY <1>2, <1>10
  <2> QED
    BY <1>3, <1>10, <2>1, <2>2 DEF Stored
<1>12. \A m \in Delivered' :
           log'[m] = c.doc => (m \in Delivered /\ log[m] = c.doc) \/ (c.closed /\ ~Live(j))
  BY <1>1 DEF Delivered
<1>13. Bounded(j)'
  <2>1. Live(j)' => \A m \in Delivered' : log'[m] = c.doc => m <= c.head
    BY <1>1, <1>6, <1>12 DEF Bounded
  <2> QED
    BY <1>1, <1>10, <1>11, <2>1 DEF Bounded
<1>14. ASSUME ~c.closed PROVE Followed(c)'
  <2>1. Followed(c) /\ record'[c.doc] = record[c.doc]
    BY <1>6, <1>8, <1>14
  <2> QED
    BY <1>12, <1>14, <2>1 DEF Followed, Reached
<1> QED
  BY <1>7, <1>9, <1>13, <1>14

(* Each action of a document keeps the invariant of its context.           *)

LEMMA CreatedInv ==
    ASSUME RouterTypeOK, NEW i \in DOMAIN contexts, Created(i),
           ContextInv(i), DocumentInv(contexts[i].doc)
    PROVE  ContextInv(i)'
<1>1. PICK c \in Contexts : contexts[i] = c
  BY ContextType
<1>2. PICK n \in Contexts : contexts'[i] = n
  BY CreatedContext DEF Replaced
<1>3. /\ n.doc = c.doc /\ n.head = c.head /\ n.tail = c.tail /\ n.queue = c.queue /\ n.closed = c.closed /\ n.corrupt = c.corrupt
      /\ n.created /\ n.state = record[c.doc] /\ n.waiting = c.waiting /\ n.updating = c.updating
  BY <1>1, <1>2, CreatedContext DEF Replaced
<1>4. /\ UNCHANGED <<log, record, position, documents, error, abandoned>>
      /\ ~c.created /\ ~c.closed
  BY <1>1 DEF Created, UnchangedByLambda, kafka, consumer
<1>5. /\ c.doc \in Documents /\ c.head \in Nat /\ c.tail \in Nat /\ c.updating \in Nat
      /\ c.queue \in Seq(Nat) /\ c.waiting \subseteq Nat /\ c.state.logOffset \in Nat
      /\ record[c.doc].logOffset \in Nat
  BY <1>1, ContextFields, ContextType, RecordType
<1>6. Status(i) /\ (Kept(c.doc) => /\ Complete(c.state, c.doc) /\ InOrder(c) /\ Bounded(i)
                                   /\ ~c.closed => Followed(c))
  BY <1>1 DEF ContextInv
<1>7. Status(i)'
  BY <1>1, <1>2, <1>3, <1>4, <1>6 DEF Status, Live, Kept
<1> SUFFICES ASSUME Kept(c.doc)
             PROVE  Complete(n.state, n.doc)' /\ InOrder(n)' /\ Bounded(i)' /\ Followed(n)'
  BY <1>2, <1>3, <1>4, <1>7 DEF ContextInv, Kept
<1>8. Complete(n.state, n.doc)'
  BY <1>1, <1>3, <1>4 DEF DocumentInv, Complete
<1>9. c.waiting = {} /\ c.updating = 0
  BY <1>1, <1>4, <1>6 DEF Status
<1>10. InOrder(n)'
  BY <1>3, <1>4, <1>5, <1>6, <1>9 DEF InOrder
<1>11. Bounded(i)'
  BY <1>1, <1>2, <1>3, <1>4, <1>6 DEF Bounded, Stored, Live, Delivered
<1>12. Followed(n)'
  BY <1>3, <1>4, <1>5, <1>6 DEF Followed, Reached, Delivered
<1> QED
  BY <1>8, <1>10, <1>11, <1>12

LEMMA ClosedInv ==
    ASSUME RouterTypeOK, NEW i \in DOMAIN contexts, CreateFails(i),
           ContextInv(i), DocumentInv(contexts[i].doc)
    PROVE  ContextInv(i)'
<1>1. PICK c \in Contexts : contexts[i] = c
  BY ContextType
<1>2. PICK n \in Contexts : contexts'[i] = n
  BY ClosedContext DEF Replaced
<1>3. /\ n.doc = c.doc /\ n.head = c.head /\ n.tail = c.tail /\ n.created = c.created /\ n.corrupt = c.corrupt /\ n.state = c.state
      /\ n.closed /\ n.queue = <<>> /\ n.waiting = c.waiting /\ n.updating = c.updating
  BY <1>1, <1>2, ClosedContext DEF Replaced
<1>4. /\ UNCHANGED <<log, record, position, documents, abandoned>>
      /\ ~c.created /\ error' # "none"
  BY <1>1 DEF CreateFails, Fails, UnchangedByLambda, kafka, consumer
<1>5. /\ c.doc \in Documents /\ c.head \in Nat /\ c.tail \in Nat /\ c.updating \in Nat
      /\ c.queue \in Seq(Nat) /\ c.waiting \subseteq Nat /\ c.state.logOffset \in Nat
      /\ record[c.doc].logOffset \in Nat
  BY <1>1, ContextFields, ContextType, RecordType
<1>6. Status(i) /\ (Kept(c.doc) => /\ Complete(c.state, c.doc) /\ InOrder(c) /\ Bounded(i)
                                   /\ ~c.closed => Followed(c))
  BY <1>1 DEF ContextInv
<1>7. c.waiting = {} /\ c.updating = 0
  BY <1>1, <1>4, <1>6 DEF Status
<1>8. Status(i)'
  BY <1>1, <1>2, <1>3, <1>4, <1>6, <1>7 DEF Status, Live, Kept
<1> SUFFICES ASSUME Kept(c.doc)
             PROVE  Complete(n.state, n.doc)' /\ InOrder(n)' /\ Bounded(i)'
  BY <1>2, <1>3, <1>4, <1>8 DEF ContextInv, Kept
<1>9. Complete(n.state, n.doc)'
  BY <1>3, <1>4, <1>6 DEF Complete
<1>10. InOrder(n)'
  BY <1>3, <1>7 DEF InOrder
<1>11. Bounded(i)'
  BY <1>1, <1>2, <1>3, <1>4, <1>6 DEF Bounded, Stored, Live, Delivered
<1> QED
  BY <1>9, <1>10, <1>11

LEMMA SkippedInv ==
    ASSUME RouterTypeOK, NEW i \in DOMAIN contexts, Skip(i),
           ContextInv(i), DocumentInv(contexts[i].doc)
    PROVE  ContextInv(i)'
<1>1. PICK c \in Contexts : contexts[i] = c
  BY ContextType
<1>2. PICK n \in Contexts : contexts'[i] = n
  BY SkippedContext DEF Replaced
<1>3. /\ n.doc = c.doc /\ n.head = c.head /\ n.tail = c.tail /\ n.created = c.created /\ n.closed = c.closed /\ n.corrupt = c.corrupt
      /\ n.queue = Tail(c.queue) /\ n.state = c.state /\ n.waiting = c.waiting /\ n.updating = c.updating
  BY <1>1, <1>2, SkippedContext DEF Replaced
<1>4. /\ UNCHANGED <<log, record, position, documents, error, abandoned>>
      /\ Busy(i) /\ c.created /\ c.queue # <<>> /\ NextMessage(i) <= c.state.logOffset
  BY <1>1 DEF Skip, Busy, UnchangedByLambda, kafka, consumer
<1>5. /\ c.doc \in Documents /\ c.head \in Nat /\ c.tail \in Nat /\ c.updating \in Nat
      /\ c.queue \in Seq(Nat) /\ c.waiting \subseteq Nat /\ c.state.logOffset \in Nat
      /\ record[c.doc].logOffset \in Nat
  BY <1>1, ContextFields, ContextType, RecordType
<1>6. Status(i) /\ (Kept(c.doc) => /\ Complete(c.state, c.doc) /\ InOrder(c) /\ Bounded(i)
                                   /\ ~c.closed => Followed(c))
  BY <1>1 DEF ContextInv
<1>7. ~c.closed /\ Status(i)'
  BY <1>1, <1>2, <1>3, <1>4, <1>6 DEF Status, Live, Kept
<1>8. c.queue # <<>> /\ NextMessage(i) = c.queue[1] /\ NextMessage(i) \in Nat /\ 1 \in DOMAIN c.queue
  BY <1>1, <1>4, <1>5, TailOfSeq DEF Busy, NextMessage
<1>9. /\ \A k \in DOMAIN n.queue : k + 1 \in DOMAIN c.queue /\ n.queue[k] = c.queue[k + 1]
      /\ \A k \in DOMAIN c.queue : k # 1 => \E j \in DOMAIN n.queue : n.queue[j] = c.queue[k]
      /\ DOMAIN n.queue \subseteq Nat /\ DOMAIN c.queue \subseteq Nat \ {0}
      /\ \A k \in DOMAIN c.queue : c.queue[k] \in Nat
  <2>1. c.queue \in Seq(Nat) /\ c.queue # <<>> /\ n.queue = Tail(c.queue)
    BY <1>3, <1>5, <1>8
  <2> QED
    BY <2>1, TailOfSeq
<1> SUFFICES ASSUME Kept(c.doc)
             PROVE  Complete(n.state, n.doc)' /\ InOrder(n)' /\ Bounded(i)' /\ Followed(n)'
  BY <1>2, <1>3, <1>4, <1>7 DEF ContextInv, Kept
<1>10. Complete(n.state, n.doc)'
  BY <1>3, <1>4, <1>6 DEF Complete
<1>11. InOrder(n)'
  BY <1>3, <1>4, <1>6, <1>9 DEF InOrder
<1>12. Bounded(i)'
  BY <1>1, <1>2, <1>3, <1>4, <1>6 DEF Bounded, Stored, Live, Delivered
<1>13. Followed(n)'
  BY <1>3, <1>4, <1>6, <1>7, <1>8, <1>9 DEF Followed, Reached, Delivered
<1> QED
  BY <1>10, <1>11, <1>12, <1>13

LEMMA UpdatingInv ==
    ASSUME RouterTypeOK, NEW i \in DOMAIN contexts, NEW offset \in contexts[i].waiting, Update(i, offset),
           ContextInv(i), DocumentInv(contexts[i].doc)
    PROVE  ContextInv(i)'
<1>1. PICK c \in Contexts : contexts[i] = c
  BY ContextType
<1>2. PICK n \in Contexts : contexts'[i] = n
  BY UpdatingContext DEF Replaced
<1>3. /\ n.doc = c.doc /\ n.head = c.head /\ n.tail = c.tail /\ n.queue = c.queue /\ n.created = c.created /\ n.closed = c.closed /\ n.corrupt = c.corrupt
      /\ n.state = c.state /\ n.updating = offset /\ n.waiting = {o \in c.waiting : o > offset}
  BY <1>1, <1>2, UpdatingContext DEF Replaced
<1>4. /\ UNCHANGED <<log, record, position, documents, error, abandoned>>
      /\ c.updating = 0 /\ offset \in c.waiting
  BY <1>1 DEF Update, UnchangedByLambda, kafka, consumer
<1>5. /\ c.doc \in Documents /\ c.head \in Nat /\ c.tail \in Nat /\ c.updating \in Nat
      /\ c.queue \in Seq(Nat) /\ c.waiting \subseteq Nat /\ c.state.logOffset \in Nat
      /\ record[c.doc].logOffset \in Nat
  BY <1>1, ContextFields, ContextType, RecordType
<1>6. Status(i) /\ (Kept(c.doc) => /\ Complete(c.state, c.doc) /\ InOrder(c) /\ Bounded(i)
                                   /\ ~c.closed => Followed(c))
  BY <1>1 DEF ContextInv
<1>7. ~c.closed /\ Status(i)'
  BY <1>1, <1>2, <1>3, <1>4, <1>6 DEF Status, Live, Kept
<1> SUFFICES ASSUME Kept(c.doc)
             PROVE  Complete(n.state, n.doc)' /\ InOrder(n)' /\ Bounded(i)' /\ Followed(n)'
  BY <1>2, <1>3, <1>4, <1>7 DEF ContextInv, Kept
<1>8. Complete(n.state, n.doc)'
  BY <1>3, <1>4, <1>6 DEF Complete
<1>9. InOrder(n)'
  BY <1>3, <1>4, <1>5, <1>6 DEF InOrder
<1>10. Bounded(i)'
  BY <1>1, <1>2, <1>3, <1>4, <1>6 DEF Bounded, Stored, Live, Delivered
<1>11. c.created /\ Followed(c) /\ offset <= c.state.logOffset /\ offset \in Nat
  BY <1>1, <1>4, <1>5, <1>6, <1>7 DEF InOrder, Status
<1>12. Followed(n)'
  BY <1>3, <1>4, <1>5, <1>11 DEF Followed, Reached, Delivered
<1> QED
  BY <1>8, <1>9, <1>10, <1>12

LEMMA HandledInv ==
    ASSUME RouterTypeOK, NEW i \in DOMAIN contexts, Handle(i),
           ContextInv(i), DocumentInv(contexts[i].doc)
    PROVE  ContextInv(i)'
<1>1. PICK c \in Contexts : contexts[i] = c
  BY ContextType
<1>2. PICK n \in Contexts : contexts'[i] = n
  BY HandledContext DEF Replaced
<1>3. /\ n.doc = c.doc /\ n.head = c.head /\ n.tail = c.tail /\ n.created = c.created /\ n.closed = c.closed /\ n.corrupt = c.corrupt
      /\ n.queue = Tail(c.queue) /\ n.updating = c.updating
      /\ n.state.logOffset = NextMessage(i)
      /\ n.state.messages = c.state.messages \cup {NextMessage(i)}
      /\ n.waiting = c.waiting \cup {NextMessage(i)}
  BY <1>1, <1>2, HandledContext DEF Replaced
<1>4. /\ UNCHANGED <<log, record, position, documents, error, abandoned>>
      /\ Busy(i) /\ c.created /\ c.queue # <<>> /\ c.state.logOffset < NextMessage(i)
  BY <1>1 DEF Handle, Busy, UnchangedByLambda, kafka, consumer
<1>5. /\ c.doc \in Documents /\ c.head \in Nat /\ c.tail \in Nat /\ c.updating \in Nat
      /\ c.queue \in Seq(Nat) /\ c.waiting \subseteq Nat /\ c.state.logOffset \in Nat
      /\ record[c.doc].logOffset \in Nat
  BY <1>1, ContextFields, ContextType, RecordType
<1>6. Status(i) /\ (Kept(c.doc) => /\ Complete(c.state, c.doc) /\ InOrder(c) /\ Bounded(i)
                                   /\ ~c.closed => Followed(c))
  BY <1>1 DEF ContextInv
<1>7. ~c.closed /\ Status(i)'
  BY <1>1, <1>2, <1>3, <1>4, <1>6 DEF Status, Live, Kept
<1>8. c.queue # <<>> /\ NextMessage(i) = c.queue[1] /\ NextMessage(i) \in Nat /\ 1 \in DOMAIN c.queue
  BY <1>1, <1>4, <1>5, TailOfSeq DEF Busy, NextMessage
<1>9. /\ \A k \in DOMAIN n.queue : k + 1 \in DOMAIN c.queue /\ n.queue[k] = c.queue[k + 1]
      /\ \A k \in DOMAIN c.queue : k # 1 => \E j \in DOMAIN n.queue : n.queue[j] = c.queue[k]
      /\ DOMAIN n.queue \subseteq Nat /\ DOMAIN c.queue \subseteq Nat \ {0}
      /\ \A k \in DOMAIN c.queue : c.queue[k] \in Nat
  <2>1. c.queue \in Seq(Nat) /\ c.queue # <<>> /\ n.queue = Tail(c.queue)
    BY <1>3, <1>5, <1>8
  <2> QED
    BY <2>1, TailOfSeq
<1> DEFINE m == NextMessage(i)
<1> SUFFICES ASSUME Kept(c.doc)
             PROVE  Complete(n.state, n.doc)' /\ InOrder(n)' /\ Bounded(i)' /\ Followed(n)'
  BY <1>2, <1>3, <1>4, <1>7 DEF ContextInv, Kept
<1>10. /\ Complete(c.state, c.doc) /\ InOrder(c) /\ Bounded(i) /\ Followed(c)
  BY <1>6, <1>7
<1>11. /\ m \in Nat /\ c.tail < m /\ m <= c.head /\ c.updating < m /\ c.state.logOffset < m
       /\ \A o \in c.waiting : o < m
       /\ \A k \in DOMAIN c.queue : k # 1 => m < c.queue[k]
  <2>1. \A k \in DOMAIN c.queue : k # 1 => 1 < k
    BY <1>9
  <2> QED
    BY <1>4, <1>8, <1>9, <1>10, <2>1 DEF InOrder
<1>12. m < position /\ position \in Nat /\ Len(log) \in Nat /\ m <= Len(log)
       /\ DOMAIN log = 1 .. Len(log)
  <2>1. position \in 1 .. Len(log) + 1 /\ Len(log) \in Nat /\ DOMAIN log = 1 .. Len(log)
    BY DEF RouterTypeOK
  <2>2. c.head < position
    BY <1>1, <1>10 DEF Bounded
  <2> QED
    BY <1>5, <1>11, <2>1, <2>2
<1>13. Complete(n.state, n.doc)'
  <2>1. ASSUME NEW x \in 1 .. m, log[x] = c.doc
        PROVE  x \in c.state.messages \cup {m}
    <3>1. x \in Nat /\ 1 <= x /\ x <= m
      BY <1>11, <2>1
    <3>2. CASE x <= c.state.logOffset
      BY <1>5, <1>10, <2>1, <3>1, <3>2 DEF Complete
    <3>3. CASE ~ (x <= c.state.logOffset)
      <4>1. x \in Delivered
        BY <1>11, <1>12, <3>1 DEF Delivered
      <4>2. PICK k \in DOMAIN c.queue : c.queue[k] = x
        BY <1>4, <1>10, <2>1, <3>3, <4>1 DEF Followed, Reached
      <4> QED
        BY <1>8, <1>11, <3>1, <4>2
    <3> QED
      BY <3>2, <3>3
  <2> QED
    BY <1>3, <1>4, <1>12, <2>1 DEF Complete
<1>14. record[c.doc].logOffset < m
  BY <1>4, <1>5, <1>10, <1>11 DEF Followed, Reached
<1>15. InOrder(n)'
  <2>1. /\ \A k \in DOMAIN n.queue : k + 1 \in DOMAIN c.queue /\ k + 1 # 1
        /\ \A j \in DOMAIN n.queue, k \in DOMAIN n.queue : j < k => j + 1 < k + 1
    <3>1. \A k \in DOMAIN n.queue : k \in Nat /\ k + 1 \in DOMAIN c.queue /\ k + 1 \in Nat \ {0}
      BY <1>9
    <3>2. \A k \in DOMAIN n.queue : k # 0
      <4>1. DOMAIN n.queue = 1 .. Len(n.queue)
        BY ContextFields
      <4> QED
        BY <4>1
    <3>3. \A k \in DOMAIN n.queue : k + 1 # 1
      BY <3>1, <3>2
    <3>4. \A j \in DOMAIN n.queue, k \in DOMAIN n.queue : j < k => j + 1 < k + 1
      BY <3>1
    <3> QED
      BY <3>1, <3>3, <3>4
  <2>2. \A k \in DOMAIN n.queue :
           /\ n.tail < n.queue[k] /\ n.queue[k] <= n.head /\ n.updating < n.queue[k]
           /\ \A o \in n.waiting : o < n.queue[k]
           /\ \A j \in DOMAIN n.queue : j < k => n.queue[j] < n.queue[k]
    BY <1>3, <1>9, <1>10, <1>11, <2>1 DEF InOrder
  <2>3. \A o \in n.waiting :
           /\ n.tail < o /\ o <= n.head /\ o <= n.state.logOffset
           /\ n.updating < o /\ record[n.doc].logOffset < o
    BY <1>3, <1>5, <1>10, <1>11, <1>14 DEF InOrder
  <2>4. n.updating # 0 =>
           /\ n.tail < n.updating /\ n.updating <= n.head /\ n.updating <= n.state.logOffset
           /\ record[n.doc].logOffset < n.updating
    BY <1>3, <1>5, <1>10, <1>11 DEF InOrder
  <2> QED
    BY <1>4, <2>2, <2>3, <2>4 DEF InOrder
<1>16. Bounded(i)'
  BY <1>1, <1>2, <1>3, <1>4, <1>6 DEF Bounded, Stored, Live, Delivered
<1>17. Followed(n)'
  <2>1. ASSUME NEW x \in Delivered, log[x] = c.doc
        PROVE  x <= m \/ \E k \in DOMAIN n.queue : n.queue[k] = x
    <3>1. x \in Nat
      BY <1>12 DEF Delivered
    <3>2. CASE x <= c.state.logOffset
      BY <1>5, <1>11, <3>1, <3>2
    <3>3. CASE ~ (x <= c.state.logOffset)
      <4>1. PICK k \in DOMAIN c.queue : c.queue[k] = x
        BY <1>4, <1>10, <2>1, <3>3 DEF Followed, Reached
      <4>2. CASE k = 1
        BY <1>8, <1>11, <4>1, <4>2
      <4>3. CASE k # 1
        BY <1>9, <4>1, <4>3
      <4> QED
        BY <4>2, <4>3
    <3> QED
      BY <3>2, <3>3
  <2> QED
    BY <1>3, <1>4, <1>5, <1>11, <1>14, <2>1 DEF Followed, Reached, Delivered
<1> QED
  BY <1>13, <1>15, <1>16, <1>17

LEMMA ThrowingInv ==
    ASSUME RouterTypeOK, NEW i \in DOMAIN contexts, Throw(i),
           ContextInv(i), DocumentInv(contexts[i].doc)
    PROVE  ContextInv(i)'
<1>1. PICK c \in Contexts : contexts[i] = c
  BY ContextType
<1>2. PICK n \in Contexts : contexts'[i] = n
  BY ThrowingContext DEF Replaced
<1>3. /\ n.doc = c.doc /\ n.head = c.head /\ n.tail = c.tail /\ n.created = c.created /\ n.closed = c.closed /\ n.state = c.state
      /\ n.queue = Tail(c.queue) /\ n.corrupt /\ n.waiting = c.waiting /\ n.updating = c.updating
  BY <1>1, <1>2, ThrowingContext DEF Replaced
<1>4. /\ UNCHANGED <<log, record, position, documents>>
      /\ Busy(i) /\ c.queue # <<>> /\ abandoned' = abandoned \cup {c.doc}
  BY <1>1 DEF Throw, Busy, kafka, consumer
<1>5. /\ c.doc \in Documents /\ c.head \in Nat /\ c.tail \in Nat /\ c.updating \in Nat
      /\ c.queue \in Seq(Nat) /\ c.waiting \subseteq Nat /\ c.state.logOffset \in Nat
      /\ record[c.doc].logOffset \in Nat
  BY <1>1, ContextFields, ContextType, RecordType
<1>6. Status(i) /\ (Kept(c.doc) => /\ Complete(c.state, c.doc) /\ InOrder(c) /\ Bounded(i)
                                   /\ ~c.closed => Followed(c))
  BY <1>1 DEF ContextInv
<1>7. ~c.closed
  BY <1>1, <1>4, <1>6 DEF Status
<1>8. Status(i)' /\ ~Kept(c.doc)'
  BY <1>1, <1>2, <1>3, <1>4, <1>6, <1>7 DEF Status, Live, Kept, Busy
<1> QED
  BY <1>2, <1>3, <1>8 DEF ContextInv

LEMMA CorruptInv ==
    ASSUME RouterTypeOK, NEW i \in DOMAIN contexts, HandleCorrupt(i),
           ContextInv(i), DocumentInv(contexts[i].doc)
    PROVE  ContextInv(i)'
<1>1. PICK c \in Contexts : contexts[i] = c
  BY ContextType
<1>2. PICK n \in Contexts : contexts'[i] = n
  BY CorruptContext DEF Replaced
<1>3. /\ n.doc = c.doc /\ n.head = c.head /\ n.created = c.created /\ n.closed = c.closed /\ n.corrupt = c.corrupt /\ n.state = c.state
      /\ n.queue = Tail(c.queue) /\ n.waiting = c.waiting /\ n.updating = c.updating
  BY <1>1, <1>2, CorruptContext DEF Replaced
<1>4. /\ UNCHANGED <<log, record, position, documents, abandoned>>
      /\ c.queue # <<>> /\ c.corrupt /\ c.created
  BY <1>1 DEF HandleCorrupt, Busy, kafka, consumer
<1>5. /\ c.doc \in Documents /\ c.head \in Nat /\ c.tail \in Nat /\ c.updating \in Nat
      /\ c.queue \in Seq(Nat) /\ c.waiting \subseteq Nat /\ c.state.logOffset \in Nat
      /\ record[c.doc].logOffset \in Nat
  BY <1>1, ContextFields, ContextType, RecordType
<1>6. Status(i) /\ (Kept(c.doc) => /\ Complete(c.state, c.doc) /\ InOrder(c) /\ Bounded(i)
                                   /\ ~c.closed => Followed(c))
  BY <1>1 DEF ContextInv
<1>7. ~c.closed /\ ~Kept(c.doc)
  BY <1>1, <1>4, <1>6 DEF Status
<1>8. Status(i)' /\ ~Kept(c.doc)'
  BY <1>1, <1>2, <1>3, <1>4, <1>6, <1>7 DEF Status, Live, Kept
<1> QED
  BY <1>2, <1>3, <1>8 DEF ContextInv

LEMMA UpdatedInv ==
    ASSUME RouterTypeOK, NEW i \in DOMAIN contexts, Updated(i),
           ContextInv(i), DocumentInv(contexts[i].doc)
    PROVE  ContextInv(i)'
<1>1. PICK c \in Contexts : contexts[i] = c
  BY ContextType
<1>2. PICK n \in Contexts : contexts'[i] = n
  BY UpdatedContext DEF Replaced
<1>3. /\ n.doc = c.doc /\ n.head = c.head /\ n.queue = c.queue /\ n.created = c.created /\ n.closed = c.closed /\ n.corrupt = c.corrupt /\ n.state = c.state
      /\ n.updating = 0
      /\ IF c.tail < c.updating /\ c.updating <= c.head
         THEN n.tail = c.updating /\ n.waiting = c.waiting
         ELSE n.tail = c.tail /\ n.waiting = {}
  BY <1>1, <1>2, UpdatedContext DEF Replaced
<1>4. /\ UNCHANGED <<log, position, documents, error, abandoned>>
      /\ c.updating # 0 /\ record' = [record EXCEPT ![c.doc] = StateAt(c, c.updating)]
  BY <1>1 DEF Updated, kafka, consumer
<1>5. /\ c.doc \in Documents /\ c.head \in Nat /\ c.tail \in Nat /\ c.updating \in Nat
      /\ c.queue \in Seq(Nat) /\ c.waiting \subseteq Nat /\ c.state.logOffset \in Nat
      /\ record[c.doc].logOffset \in Nat
  BY <1>1, ContextFields, ContextType, RecordType
<1>6. Status(i) /\ (Kept(c.doc) => /\ Complete(c.state, c.doc) /\ InOrder(c) /\ Bounded(i)
                                   /\ ~c.closed => Followed(c))
  BY <1>1 DEF ContextInv
<1>7. c.created /\ (Kept(c.doc) => ~c.closed) /\ Status(i)'
  BY <1>1, <1>2, <1>3, <1>4, <1>6 DEF Status, Live, Kept
<1> SUFFICES ASSUME Kept(c.doc)
             PROVE  Complete(n.state, n.doc)' /\ InOrder(n)' /\ Bounded(i)' /\ Followed(n)'
  BY <1>2, <1>3, <1>4, <1>7 DEF ContextInv, Kept
<1>8. Complete(c.state, c.doc) /\ InOrder(c) /\ Bounded(i) /\ Followed(c)
  BY <1>6, <1>7
<1>9. /\ c.tail < c.updating /\ c.updating <= c.head /\ c.updating <= c.state.logOffset
      /\ record[c.doc].logOffset < c.updating
      /\ n.tail = c.updating /\ n.waiting = c.waiting
  BY <1>3, <1>4, <1>8 DEF InOrder
<1>10. record'[c.doc].logOffset = c.updating
  BY <1>4, <1>5 DEF StateAt, RouterTypeOK
<1>11. Complete(n.state, n.doc)'
  BY <1>3, <1>4, <1>8 DEF Complete
<1>12. InOrder(n)'
  <2>1. \A k \in DOMAIN n.queue : n.queue[k] \in Nat
    BY <1>3, <1>5
  <2>2. \A k \in DOMAIN n.queue : 0 < n.queue[k]
    BY <1>3, <1>5, <1>8, <2>1 DEF InOrder
  <2> QED
    BY <1>3, <1>5, <1>8, <1>9, <1>10, <2>2 DEF InOrder
<1>13. Bounded(i)'
  <2>1. Stored(n.doc, 1 .. n.tail)'
    BY <1>3, <1>5, <1>9, <1>10 DEF Stored
  <2> QED
    BY <1>1, <1>2, <1>3, <1>4, <1>8, <1>9, <2>1 DEF Bounded, Live, Delivered
<1>14. Followed(n)'
  <2>1. \A m \in Delivered' : log'[m] = n.doc =>
            m <= Reached(n)' \/ \E k \in DOMAIN n.queue : n.queue[k] = m
    BY <1>3, <1>4, <1>7, <1>8 DEF Followed, Reached, Delivered
  <2>2. record'[n.doc].logOffset <= Reached(n)'
    BY <1>3, <1>7, <1>9, <1>10 DEF Reached
  <2>3. record'[n.doc].logOffset # Reached(n)' => Reached(n)' \in n.waiting \cup {n.updating}
    BY <1>3, <1>5, <1>7, <1>8, <1>9, <1>10 DEF Followed, Reached
  <2> QED
    BY <2>1, <2>2, <2>3 DEF Followed
<1> QED
  BY <1>11, <1>12, <1>13, <1>14

LEMMA InactiveInv ==
    ASSUME RouterTypeOK, NEW i \in DOMAIN contexts, Inactive(i),
           ContextInv(i), DocumentInv(contexts[i].doc)
    PROVE  ContextInv(i)'
<1>1. PICK c \in Contexts : contexts[i] = c
  BY ContextType
<1>2. PICK n \in Contexts : contexts'[i] = n
  BY InactiveContext DEF Replaced
<1>3. /\ n.doc = c.doc /\ n.head = c.head /\ n.tail = c.tail /\ n.created = c.created /\ n.corrupt = c.corrupt /\ n.state = c.state /\ n.updating = c.updating
      /\ n.closed /\ n.queue = <<>> /\ n.waiting = {}
  BY <1>1, <1>2, InactiveContext DEF Replaced
<1>4. /\ UNCHANGED <<log, record, position, error>>
      /\ abandoned \subseteq abandoned' /\ (Kept(c.doc)' => Idle(c) /\ Kept(c.doc))
      /\ documents' = [documents EXCEPT ![c.doc] = 0]
  BY <1>1 DEF Inactive, kafka, Kept
<1>5. /\ c.doc \in Documents /\ c.head \in Nat /\ c.tail \in Nat /\ c.updating \in Nat
      /\ c.queue \in Seq(Nat) /\ c.waiting \subseteq Nat /\ c.state.logOffset \in Nat
      /\ record[c.doc].logOffset \in Nat
  BY <1>1, ContextFields, ContextType, RecordType
<1>6. Status(i) /\ (Kept(c.doc) => /\ Complete(c.state, c.doc) /\ InOrder(c) /\ Bounded(i)
                                   /\ ~c.closed => Followed(c))
  BY <1>1 DEF ContextInv
<1>7. documents'[n.doc] = 0 /\ i # 0
  BY <1>3, <1>4, <1>5 DEF RouterTypeOK
<1>8. Status(i)' /\ ~Live(i)'
  <2>1. ~Live(i)'
    BY <1>2, <1>7 DEF Live
  <2>2. n.corrupt => ~Kept(n.doc)'
    BY <1>1, <1>3, <1>4, <1>6 DEF Status
  <2>3. ~n.created => n.waiting = {} /\ n.updating = 0
    BY <1>1, <1>3, <1>6 DEF Status
  <2>4. Kept(n.doc)' => n.updating = 0
    BY <1>3, <1>4 DEF Idle
  <2> QED
    BY <1>2, <1>3, <2>1, <2>2, <2>3, <2>4 DEF Status
<1> SUFFICES ASSUME Kept(c.doc)'
             PROVE  Complete(n.state, n.doc)' /\ InOrder(n)' /\ Bounded(i)'
  BY <1>2, <1>3, <1>8 DEF ContextInv
<1>9. Complete(n.state, n.doc)'
  BY <1>3, <1>4, <1>6 DEF Complete
<1>10. InOrder(n)'
  BY <1>3, <1>4 DEF InOrder, Idle
<1>11. Bounded(i)'
  BY <1>1, <1>2, <1>3, <1>4, <1>6, <1>8 DEF Bounded, Stored
<1> QED
  BY <1>9, <1>10, <1>11

-----------------------------------------------------------------------------
(* The invariant is kept.                                                  *)

LEMMA DocumentsType ==
    ASSUME RouterTypeOK, NEW d \in Documents, documents[d] # 0
    PROVE  documents[d] \in DOMAIN contexts
<1>1. /\ documents[d] \in 0 .. Len(contexts) /\ Len(contexts) \in Nat
      /\ DOMAIN contexts = 1 .. Len(contexts)
  BY DEF RouterTypeOK
<1> QED
  BY <1>1

(* A step of one context, which may store a state and move the offset.     *)
LEMMA ContextStep ==
    ASSUME RouterTypeOK, RouterTypeOK', RouterInv, NEW i \in DOMAIN contexts,
           Replaced(i), ContextInv(i)', UNCHANGED <<kafka, late, consumer>>,
           abandoned \subseteq abandoned', error' = error \/ error' # "none",
           \A d \in Documents : d # contexts[i].doc => record'[d] = record[d],
           \/ record' = record
           \/ /\ Live(i)
              /\ Kept(contexts[i].doc) =>
                     /\ Complete(record'[contexts[i].doc], contexts[i].doc)
                     /\ record[contexts[i].doc].logOffset <= record'[contexts[i].doc].logOffset
           \/ ~Kept(contexts[i].doc),
           UpdateCheckpoint \/ UNCHANGED <<checkpointing, record>>
    PROVE  RouterInv'
<1>1. /\ UNCHANGED <<log, committed, late, position, tail, documents>>
      /\ LateInv' /\ tail < position /\ CommitInv
      /\ \A d \in Documents : DocumentInv(d)
      /\ \A j \in DOMAIN contexts : ContextInv(j)
      /\ DOMAIN contexts' = DOMAIN contexts /\ Delivered' = Delivered
      /\ Len(log) \in Nat /\ position \in Nat
  BY DEF kafka, consumer, RouterInv, Replaced, RouterTypeOK, Delivered, LateInv, Kept
<1>2. \A d \in Documents :
          /\ record[d].logOffset \in Nat /\ record'[d].logOffset \in Nat
          /\ Kept(d)' => Kept(d)
  <2>1. \A d \in Documents : record[d] \in States /\ record'[d] \in States
    BY DEF RouterTypeOK
  <2> QED
    BY <2>1 DEF States, Kept
<1>3. Grows
  BY <1>2 DEF Grows
<1>4. \A j \in DOMAIN contexts : contexts'[j].doc = contexts[j].doc
  BY DEF Replaced
<1>5. ASSUME NEW j \in DOMAIN contexts' PROVE ContextInv(j)'
  <2>1. CASE j = i
    BY <2>1
  <2>2. CASE j # i
    <3>1. j \in DOMAIN contexts /\ contexts'[j] = contexts[j] /\ contexts[j].doc \in Documents
      BY <1>1, <2>2, ContextType DEF Replaced
    <3>2. Live(j)' <=> Live(j)
      BY <1>1, <3>1 DEF Live
    <3>3. ContextInv(j)
      BY <1>1, <3>1
    <3>4. \/ record'[contexts[j].doc] = record[contexts[j].doc]
          \/ /\ contexts[j].closed
             /\ Kept(contexts[j].doc) =>
                    record[contexts[j].doc].logOffset <= record'[contexts[j].doc].logOffset
          \/ ~Kept(contexts[j].doc)
      <4>1. CASE contexts[j].doc = contexts[i].doc /\ Live(i)
        <5>1. ~Live(j)
          BY <2>2, <4>1 DEF Live
        <5>2. contexts[j].closed
          BY <3>3, <5>1 DEF ContextInv, Status
        <5> QED
          BY <4>1, <5>2
      <4> QED
        BY <3>1, <4>1
    <3>5. \A m \in DOMAIN log : log'[m] = log[m]
      BY <1>1
    <3>6. Len(log) <= Len(log') /\ position <= position' /\ j \in DOMAIN contexts'
      BY <1>1
    <3>7. \A m \in Delivered' : m \in Delivered \/ log'[m] # contexts[j].doc
      BY <1>1
    <3> QED
      BY <3>1, <3>2, <3>3, <3>4, <3>5, <3>6, <3>7, Untouched
  <2> QED
    BY <2>1, <2>2
<1>6. ASSUME NEW d \in Documents PROVE DocumentInv(d)'
  <2>1. DocumentInv(d) /\ documents'[d] = documents[d]
    BY <1>1
  <2>2. documents'[d] # 0 => contexts'[documents'[d]].doc = d
    BY <1>4, <2>1, DocumentsType DEF DocumentInv
  <2>3. Kept(d)' => Complete(record[d], d)'
    <3>1. CASE record'[d] = record[d]
      BY <1>1, <1>2, <2>1, <3>1 DEF DocumentInv, Complete
    <3>2. CASE d = contexts[i].doc /\ record'[d] # record[d]
      BY <1>1, <1>2, <3>2 DEF Complete
    <3> QED
      BY <3>1, <3>2
  <2>4. Kept(d)' /\ documents'[d] = 0 => Stored(d, Delivered)'
    <3>1. \A m \in Delivered : m \in Nat
      BY <1>1 DEF Delivered
    <3> QED
      BY <1>1, <1>2, <1>3, <2>1, <3>1 DEF DocumentInv, Stored, Grows
  <2> QED
    BY <2>2, <2>3, <2>4 DEF DocumentInv
<1>7. CommitInv'
  <2>1. CASE UpdateCheckpoint
    BY <1>1, <1>3, <1>5, <1>6, <2>1, CommitsStored
  <2>2. CASE UNCHANGED <<checkpointing, record>>
    BY <1>1, <1>2, <2>2 DEF CommitInv, Stored, checkpointing
  <2> QED
    BY <2>1, <2>2
<1> QED
  BY <1>1, <1>5, <1>6, <1>7 DEF RouterInv

LEMMA DocumentSteps ==
    ASSUME RouterTypeOK, RouterTypeOK', RouterInv, NEW i \in DOMAIN contexts,
           \/ Created(i) \/ CreateFails(i) \/ Skip(i) \/ Handle(i) \/ Throw(i)
           \/ HandleCorrupt(i) \/ Updated(i)
           \/ \E offset \in contexts[i].waiting : Update(i, offset)
    PROVE  RouterInv'
<1>1. ContextInv(i) /\ DocumentInv(contexts[i].doc)
  BY ContextType DEF RouterInv
<1>2. CASE Created(i) \/ CreateFails(i) \/ Skip(i) \/ Handle(i)
  <2>1. Replaced(i) /\ ContextInv(i)'
    BY <1>1, <1>2, CreatedContext, ClosedContext, SkippedContext, HandledContext,
       CreatedInv, ClosedInv, SkippedInv, HandledInv
  <2>2. /\ UNCHANGED <<kafka, record, late, consumer, checkpointing, abandoned>>
        /\ error' = error \/ error' # "none"
    BY <1>2 DEF Created, CreateFails, Skip, Handle, Fails, UnchangedByLambda
  <2> QED
    BY <2>1, <2>2, ContextStep
<1>3. ASSUME NEW offset \in contexts[i].waiting, Update(i, offset)
      PROVE  RouterInv'
  <2>1. Replaced(i) /\ ContextInv(i)'
    BY <1>1, <1>3, UpdatingContext, UpdatingInv
  <2>2. UNCHANGED <<kafka, record, late, consumer, checkpointing, abandoned, error>>
    BY <1>3 DEF Update, UnchangedByLambda
  <2> QED
    BY <2>1, <2>2, ContextStep
<1>4. CASE Throw(i)
  <2>1. Replaced(i) /\ ContextInv(i)'
    BY <1>1, <1>4, ThrowingContext, ThrowingInv
  <2>2. /\ UNCHANGED <<kafka, record, late, consumer, checkpointing>>
        /\ error' = error \/ error' # "none"
        /\ abandoned \subseteq abandoned'
    BY <1>4 DEF Throw, Fails
  <2> QED
    BY <2>1, <2>2, ContextStep
<1>5. CASE HandleCorrupt(i)
  <2>1. Replaced(i) /\ ContextInv(i)'
    BY <1>1, <1>5, CorruptContext, CorruptInv
  <2>2. UNCHANGED <<kafka, record, late, consumer, abandoned, error>> /\ UpdateCheckpoint
    BY <1>5 DEF HandleCorrupt
  <2> QED
    BY <2>1, <2>2, ContextStep
<1>6. CASE Updated(i)
  <2>1. Replaced(i) /\ ContextInv(i)'
    BY <1>1, <1>6, UpdatedContext, UpdatedInv
  <2>2. UNCHANGED <<kafka, late, consumer, abandoned, error>> /\ UpdateCheckpoint
    BY <1>6 DEF Updated
  <2>3. PICK c \in Contexts : contexts[i] = c
    BY ContextType
  <2>4. /\ c.updating # 0 /\ record' = [record EXCEPT ![c.doc] = StateAt(c, c.updating)]
        /\ c.doc \in Documents /\ c.updating \in Nat /\ c.state.logOffset \in Nat
        /\ record[c.doc].logOffset \in Nat
    BY <1>6, <2>3, ContextFields, ContextType, RecordType DEF Updated
  <2>5. record'[c.doc] = StateAt(c, c.updating)
    BY <2>4 DEF RouterTypeOK
  <2>6. Kept(c.doc) => Live(i)
    BY <1>1, <2>3, <2>4 DEF ContextInv, Status
  <2>7. ASSUME Kept(c.doc)
        PROVE  /\ Complete(record'[c.doc], c.doc)
               /\ record[c.doc].logOffset <= record'[c.doc].logOffset
    <3>1. /\ Complete(c.state, c.doc)
          /\ c.updating <= c.state.logOffset /\ record[c.doc].logOffset < c.updating
      BY <1>1, <2>3, <2>4, <2>7 DEF ContextInv, InOrder
    <3>2. Len(log) \in Nat
      BY DEF RouterTypeOK
    <3> QED
      BY <2>4, <2>5, <3>1, <3>2 DEF Complete, StateAt
  <2>8. \A d \in Documents : d # contexts[i].doc => record'[d] = record[d]
    BY <2>3, <2>4 DEF RouterTypeOK
  <2> QED
    BY <2>1, <2>2, <2>3, <2>6, <2>7, <2>8, ContextStep
<1> QED
  BY <1>2, <1>3, <1>4, <1>5, <1>6

(* A document that becomes inactive has everything stored.                 *)
LEMMA InactiveStep ==
    ASSUME RouterTypeOK, RouterTypeOK', RouterInv,
           NEW i \in DOMAIN contexts, Inactive(i)
    PROVE  RouterInv'
<1>1. PICK c \in Contexts : contexts[i] = c
  BY ContextType
<1>2. /\ UNCHANGED <<kafka, log, committed, record, late, position, tail, checkpointing,
                     error>>
      /\ abandoned \subseteq abandoned' /\ (Kept(c.doc)' => Idle(c))
      /\ LateInv' /\ tail < position /\ CommitInv
      /\ \A d \in Documents : DocumentInv(d)
      /\ \A j \in DOMAIN contexts : ContextInv(j)
      /\ documents' = [documents EXCEPT ![c.doc] = 0]
      /\ ~c.closed /\ \A d \in Documents : Kept(d)' => Kept(d)
  <2>1. /\ UNCHANGED <<kafka, log, committed, record, late, position, tail, checkpointing, error>>
        /\ abandoned \subseteq abandoned' /\ ~c.closed
        /\ documents' = [documents EXCEPT ![c.doc] = 0]
        /\ Idle(c) \/ abandoned' = abandoned \cup {c.doc}
    BY <1>1 DEF Inactive, kafka
  <2> QED
    BY <2>1 DEF RouterInv, LateInv, Kept
<1>3. Replaced(i) /\ ContextInv(i)'
  BY <1>1, <1>2, InactiveContext, InactiveInv, ContextType
<1>4. /\ DOMAIN contexts' = DOMAIN contexts /\ Delivered' = Delivered
      /\ \A j \in DOMAIN contexts : contexts'[j].doc = contexts[j].doc
      /\ c.doc \in Documents /\ DOMAIN contexts \subseteq Nat \ {0}
      /\ Len(log) \in Nat /\ position \in Nat /\ documents \in [Documents -> Nat]
  <2>1. documents \in [Documents -> 0 .. Len(contexts)] /\ contexts \in Seq(Contexts)
    BY DEF RouterTypeOK
  <2>2. Len(contexts) \in Nat /\ DOMAIN contexts = 1 .. Len(contexts)
    BY <2>1
  <2>3. documents \in [Documents -> Nat]
    BY <2>1, <2>2
  <2> QED
    <3>1. Len(log) \in Nat /\ position \in Nat
      BY DEF RouterTypeOK
    <3>2. Delivered' = Delivered
      BY <1>2 DEF Delivered
    <3>3. c.doc \in Documents
      BY <1>1, ContextType
    <3> QED
      BY <1>3, <2>2, <2>3, <3>1, <3>2, <3>3 DEF Replaced
<1>5. Live(i)
  BY <1>1, <1>2 DEF ContextInv, Status
<1>6. ASSUME NEW j \in DOMAIN contexts' PROVE ContextInv(j)'
  <2>1. CASE j = i
    BY <1>3, <2>1
  <2>2. CASE j # i
    <3>1. /\ j \in DOMAIN contexts /\ contexts'[j] = contexts[j] /\ contexts[j].doc \in Documents
          /\ ContextInv(j)
      BY <1>2, <1>3, <1>4, <2>2, ContextType DEF Replaced
    <3>2. Live(j)' <=> Live(j)
      <4>1. CASE contexts[j].doc = c.doc
        BY <1>1, <1>2, <1>4, <1>5, <2>2, <3>1, <4>1 DEF Live
      <4>2. CASE contexts[j].doc # c.doc
        BY <1>2, <1>4, <3>1, <4>2 DEF Live
      <4> QED
        BY <4>1, <4>2
    <3>3. \A m \in Delivered' : m \in Delivered \/ log'[m] # contexts[j].doc
      BY <1>4
    <3> QED
      BY <1>2, <1>4, <3>1, <3>2, <3>3, Untouched
  <2> QED
    BY <2>1, <2>2
<1>7. ASSUME Kept(c.doc)' PROVE Stored(c.doc, Delivered)
  <2>1. Followed(c)
    BY <1>1, <1>2, <1>4, <1>7 DEF ContextInv
  <2>2. /\ record[c.doc].logOffset \in Nat /\ c.state.logOffset \in Nat
    BY <1>4, RecordType, ContextFields
  <2>3. Reached(c) \in Nat /\ DOMAIN c.queue = {}
    BY <1>2, <1>7, <2>2 DEF Reached, Idle
  <2>4. Reached(c) = record[c.doc].logOffset
    BY <1>2, <1>7, <2>1, <2>2, <2>3 DEF Followed, Idle
  <2> QED
    BY <2>1, <2>3, <2>4 DEF Followed, Stored
<1>8. ASSUME NEW d \in Documents PROVE DocumentInv(d)'
  <2>1. CASE d = c.doc
    BY <1>2, <1>4, <1>7, <2>1 DEF DocumentInv, Stored, Complete
  <2>2. CASE d # c.doc
    <3>1. documents'[d] = documents[d] /\ DocumentInv(d)
      BY <1>2, <1>4, <2>2
    <3>2. documents'[d] # 0 => contexts'[documents'[d]].doc = d
      BY <1>4, <3>1, DocumentsType DEF DocumentInv
    <3> QED
      BY <1>2, <1>4, <3>1, <3>2 DEF DocumentInv, Stored, Complete
  <2> QED
    BY <2>1, <2>2
<1>9. CommitInv'
  BY <1>2 DEF CommitInv, Stored, checkpointing
<1> QED
  BY <1>2, <1>6, <1>8, <1>9 DEF RouterInv

(* A new message is beyond everything.                                     *)
LEMMA ProduceStep ==
    ASSUME RouterTypeOK, RouterTypeOK', RouterInv,
           NEW d \in Documents \cup {NoDocument}, Produce(d)
    PROVE  RouterInv'
<1>1. /\ UNCHANGED <<committed, record, late, position, tail, documents, committing,
                     lastCheckpoint, error, contexts, abandoned>>
      /\ LateInv' /\ tail < position /\ CommitInv
      /\ \A e \in Documents : DocumentInv(e)
      /\ \A j \in DOMAIN contexts : ContextInv(j)
  BY DEF Produce, RouterInv, LateInv, Kept, consumer, checkpointing
<1>2. /\ log \in Seq(Documents \cup {NoDocument}) /\ Len(log) \in Nat
      /\ DOMAIN log = 1 .. Len(log) /\ log' = Append(log, d)
      /\ position \in Nat /\ position <= Len(log) + 1
      /\ committed \in 0 .. Len(log) /\ committing \in 0 .. Len(log)
      /\ lastCheckpoint \in 0 .. Len(log)
  BY DEF Produce, RouterTypeOK, Offsets
<1>3. /\ Len(log') = Len(log) + 1 /\ \A m \in DOMAIN log : log'[m] = log[m]
      /\ DOMAIN log' = 1 .. Len(log) + 1
  BY <1>2, AppendToSeq
<1>4. Delivered' = Delivered /\ \A m \in Delivered : m \in DOMAIN log
  BY <1>1, <1>2, <1>3 DEF Delivered
<1>5. ASSUME NEW j \in DOMAIN contexts' PROVE ContextInv(j)'
  <2>1. Live(j)' <=> Live(j)
    BY <1>1 DEF Live
  <2>2. /\ j \in DOMAIN contexts /\ contexts'[j] = contexts[j] /\ ContextInv(j)
        /\ Len(log) <= Len(log') /\ position <= position'
    BY <1>1, <1>2, <1>3
  <2>3. record'[contexts[j].doc] = record[contexts[j].doc]
    BY <1>1
  <2> QED
    BY <1>1, <1>3, <1>4, <2>1, <2>2, <2>3, Untouched
<1>6. ASSUME NEW e \in Documents PROVE DocumentInv(e)'
  <2>1. DocumentInv(e) /\ record[e].logOffset \in Nat
    BY <1>1, RecordType
  <2>2. Kept(e)' => Complete(record[e], e)'
    BY <1>1, <1>2, <1>3, <2>1 DEF DocumentInv, Complete, Kept
  <2> QED
    BY <1>1, <1>3, <1>4, <2>1, <2>2 DEF DocumentInv, Stored, Kept
<1>7. CommitInv'
  <2>1. \A n \in 0 .. Len(log) : \A m \in 1 .. n : log'[m] = log[m]
    BY <1>2, <1>3
  <2> QED
    BY <1>1, <1>2, <2>1 DEF CommitInv, Stored, Kept
<1> QED
  BY <1>1, <1>5, <1>6, <1>7 DEF RouterInv

(* What a commit changes is what Kafka and its manager hold.               *)
LEMMA CommitStep ==
    ASSUME RouterTypeOK, RouterTypeOK', RouterInv, Committed \/ CommitFails
    PROVE  RouterInv'
<1>1. /\ UNCHANGED <<log, record, late, position, tail, documents, lastCheckpoint, contexts,
                     abandoned>>
      /\ committed' \in {committed, committing}
      /\ committing' \in {committing, lastCheckpoint, 0}
      /\ error' = error \/ error' # "none"
      /\ LateInv' /\ tail < position /\ CommitInv
      /\ \A e \in Documents : DocumentInv(e)
      /\ \A j \in DOMAIN contexts : ContextInv(j)
      /\ Len(log) \in Nat /\ position \in Nat
  BY DEF Committed, CommitFails, Fails, RouterInv, LateInv, Kept, kafka, consumer, checkpointing,
     RouterTypeOK
<1>2. ASSUME NEW j \in DOMAIN contexts' PROVE ContextInv(j)'
  <2>1. (Live(j)' <=> Live(j)) /\ Delivered' = Delivered
    BY <1>1 DEF Live, Delivered
  <2>2. /\ j \in DOMAIN contexts /\ contexts'[j] = contexts[j] /\ ContextInv(j)
        /\ Len(log) <= Len(log') /\ position <= position'
        /\ record'[contexts[j].doc] = record[contexts[j].doc]
        /\ \A m \in DOMAIN log : log'[m] = log[m]
    BY <1>1
  <2> QED
    BY <1>1, <2>1, <2>2, Untouched
<1>3. ASSUME NEW e \in Documents PROVE DocumentInv(e)'
  BY <1>1 DEF DocumentInv, Stored, Kept, Complete, Delivered
<1>4. CommitInv'
  BY <1>1 DEF CommitInv, Stored, Kept
<1> QED
  BY <1>1, <1>2, <1>3, <1>4 DEF RouterInv

(* A restart begins after what is committed, and that is stored.           *)
LEMMA RestartStep ==
    ASSUME RouterTypeOK, RouterTypeOK', RouterInv, Restart
    PROVE  RouterInv'
<1>1. /\ UNCHANGED <<log, committed, record>> /\ \A d \in Documents : Kept(d)' => Kept(d)
      /\ position' = committed + 1 /\ tail' = 0 /\ documents' = [d \in Documents |-> 0]
      /\ committing' = 0 /\ lastCheckpoint' = 0 /\ contexts' = <<>> /\ LateInv'
      /\ CommitInv /\ (\A e \in Documents : DocumentInv(e))
      /\ committed \in Nat /\ Len(log) \in Nat /\ DOMAIN log = 1 .. Len(log)
  <2>1. abandoned \subseteq abandoned' /\ \A u \in late' : u.doc \in abandoned'
    BY DEF Restart
  <2> QED
    BY <2>1 DEF Restart, ResumeAt, kafka, RouterInv, RouterTypeOK, Offsets, LateInv, Kept
<1>2. ASSUME NEW d \in Documents PROVE DocumentInv(d)'
  <2>1. documents'[d] = 0 /\ DocumentInv(d)
    BY <1>1
  <2>2. \A m \in Delivered' : m \in 1 .. committed
    BY <1>1 DEF Delivered
  <2>3. Kept(d) => Stored(d, 1 .. committed)
    BY <1>1 DEF CommitInv
  <2> QED
    BY <1>1, <2>1, <2>2, <2>3 DEF DocumentInv, Stored, Complete
<1>3. CommitInv'
  BY <1>1 DEF CommitInv, Stored
<1>4. DOMAIN contexts' = {} /\ tail' < position'
  BY <1>1
<1> QED
  BY <1>1, <1>2, <1>3, <1>4 DEF RouterInv

(* An update that lands late stores the state of a document that does not  *)
(* count any more.                                                         *)
LEMMA LateUpdateStep ==
    ASSUME RouterTypeOK, RouterTypeOK', RouterInv, NEW u \in late, LateUpdate(u)
    PROVE  RouterInv'
<1>1. /\ UNCHANGED <<log, committed, position, tail, documents, committing,
                     lastCheckpoint, error, contexts, abandoned>>
      /\ late' \subseteq late /\ record' = [record EXCEPT ![u.doc] = u.state]
      /\ LateInv /\ tail < position /\ CommitInv
      /\ \A e \in Documents : DocumentInv(e)
      /\ \A j \in DOMAIN contexts : ContextInv(j)
      /\ Len(log) \in Nat /\ position \in Nat
  BY DEF LateUpdate, RouterInv, kafka, consumer, checkpointing, RouterTypeOK
<1>2. \A e \in Documents : Kept(e) => record'[e] = record[e] /\ Kept(e)'
  BY <1>1 DEF LateInv, Kept, RouterTypeOK
<1>3. ASSUME NEW j \in DOMAIN contexts' PROVE ContextInv(j)'
  <2>1. (Live(j)' <=> Live(j)) /\ Delivered' = Delivered
    BY <1>1 DEF Live, Delivered
  <2>2. /\ j \in DOMAIN contexts /\ contexts'[j] = contexts[j] /\ ContextInv(j)
        /\ Len(log) <= Len(log') /\ position <= position'
        /\ \A m \in DOMAIN log : log'[m] = log[m]
    BY <1>1
  <2>3. \/ record'[contexts[j].doc] = record[contexts[j].doc]
        \/ ~Kept(contexts[j].doc)
    BY <1>2, <2>2, ContextType
  <2> QED
    BY <1>1, <2>1, <2>2, <2>3, Untouched
<1>4. ASSUME NEW e \in Documents PROVE DocumentInv(e)'
  BY <1>1, <1>2 DEF DocumentInv, Stored, Kept, Complete, Delivered
<1>5. CommitInv'
  BY <1>1, <1>2 DEF CommitInv, Stored, Kept
<1>6. LateInv'
  BY <1>1 DEF LateInv, Kept
<1> QED
  BY <1>1, <1>3, <1>4, <1>5, <1>6 DEF RouterInv

LEMMA InvInit == Init => RouterInv
<1> SUFFICES ASSUME Init PROVE RouterInv
  OBVIOUS
<1>1. /\ log = <<>> /\ LateInv /\ tail = 0 /\ position = 1 /\ contexts = <<>>
      /\ \A d \in Documents : documents[d] = 0 /\ record[d] = Fresh
      /\ committed = 0 /\ committing = 0 /\ lastCheckpoint = 0
  BY DEF Init, LateInv
<1>2. Len(log) = 0 /\ DOMAIN log = {} /\ DOMAIN contexts = {} /\ Fresh.logOffset = 0
  BY <1>1 DEF Fresh
<1>3. \A d \in Documents : DocumentInv(d)
  BY <1>1, <1>2 DEF DocumentInv, Complete, Stored, Delivered
<1>4. CommitInv
  BY <1>1, <1>2 DEF CommitInv, Stored
<1> QED
  BY <1>1, <1>2, <1>3, <1>4 DEF RouterInv

(* The next message goes to a new context or to that of its document.      *)
LEMMA NewContextInv ==
    ASSUME RouterTypeOK, RouterTypeOK', RouterInv, Deliver,
           NEW d \in Documents, d = log[position], documents[d] = 0,
           NEW i \in Nat, i = Len(contexts) + 1,
           contexts' = Append(contexts, NewContext(d, position, tail)),
           documents' = [documents EXCEPT ![d] = i]
    PROVE  /\ contexts'[i].doc = d
           /\ ContextInv(i)'
<1>1. /\ UNCHANGED <<log, record, abandoned>> /\ position' = position + 1
      /\ position \in Nat /\ position <= Len(log) /\ Len(log) \in Nat
      /\ DOMAIN log = 1 .. Len(log) /\ tail \in Nat /\ tail < position
      /\ DocumentInv(d)
  BY DEF Deliver, kafka, RouterTypeOK, RouterInv, Offsets
<1>2. PICK c : c = NewContext(d, position, tail)
  OBVIOUS
<1>3. c \in Contexts
  BY <1>1, <1>2, NewContextType
<1>4. contexts'[i] = c
  BY <1>2, <1>3, AppendToSeq DEF RouterTypeOK
<1>5. /\ c.doc = d /\ c.head = position /\ c.tail = tail /\ c.queue = <<position>>
      /\ c.created = FALSE /\ c.closed = FALSE /\ c.corrupt = FALSE
      /\ c.state = Fresh /\ c.waiting = {} /\ c.updating = 0
  BY <1>2 DEF NewContext
<1>6. DOMAIN c.queue = {1} /\ c.queue[1] = position
  BY <1>5
<1>7. record[d].logOffset \in Nat
  BY RecordType
<1>8. documents'[d] = i
  BY DEF RouterTypeOK
<1>9. Status(i)'
  BY <1>4, <1>5, <1>8 DEF Status, Live
<1> SUFFICES ASSUME Kept(d)'
             PROVE  Complete(c.state, d)' /\ InOrder(c)' /\ Bounded(i)' /\ Followed(c)'
  BY <1>4, <1>5, <1>9 DEF ContextInv
<1>10. \A m \in Delivered' : m \in Delivered \/ m = position
  BY <1>1 DEF Delivered
<1>11. Kept(d) /\ Stored(d, Delivered)
  BY <1>1 DEF Kept, DocumentInv
<1>12. Complete(c.state, d)'
  BY <1>1, <1>5 DEF Complete, Fresh
<1>13. InOrder(c)'
  BY <1>1, <1>5, <1>6 DEF InOrder
<1>14. Bounded(i)'
  <2>1. \A m \in 1 .. tail : m \in Delivered
    BY <1>1 DEF Delivered
  <2>2. Stored(d, 1 .. c.tail)'
    BY <1>1, <1>5, <1>11, <2>1 DEF Stored
  <2>3. \A m \in Delivered' : m <= position
    BY <1>1, <1>10 DEF Delivered
  <2> QED
    BY <1>1, <1>4, <1>5, <2>2, <2>3 DEF Bounded
<1>15. Followed(c)'
  BY <1>1, <1>5, <1>6, <1>7, <1>10, <1>11 DEF Followed, Reached, Stored
<1> QED
  BY <1>12, <1>13, <1>14, <1>15

LEMMA RoutedInv ==
    ASSUME RouterTypeOK, RouterTypeOK', RouterInv, Deliver,
           NEW d \in Documents, d = log[position],
           NEW i \in DOMAIN contexts, documents[d] = i, UNCHANGED documents,
           contexts' = [contexts EXCEPT ![i] = Routed(contexts[i], position)]
    PROVE  /\ Replaced(i)
           /\ ContextInv(i)'
<1>1. /\ UNCHANGED <<log, record, abandoned, error>> /\ position' = position + 1
      /\ position \in Nat /\ position <= Len(log) /\ Len(log) \in Nat
      /\ DOMAIN log = 1 .. Len(log) /\ tail \in Nat /\ tail < position
      /\ DocumentInv(d) /\ ContextInv(i)
  BY DEF Deliver, kafka, RouterTypeOK, RouterInv, Offsets
<1>2. PICK c \in Contexts : contexts[i] = c
  BY ContextType
<1>3. c.doc = d /\ i # 0
  BY <1>1, <1>2 DEF DocumentInv, RouterTypeOK
<1>4. PICK n : n = Routed(c, position)
  OBVIOUS
<1>5. n \in Contexts
  BY <1>1, <1>4, RoutedType
<1>6. /\ n.doc = c.doc /\ n.head = position
      /\ n.tail = (IF c.head # c.tail THEN c.tail ELSE tail)
      /\ n.queue = (IF c.closed THEN c.queue ELSE Append(c.queue, position))
      /\ n.created = c.created /\ n.closed = c.closed /\ n.corrupt = c.corrupt
      /\ n.state = c.state /\ n.waiting = c.waiting /\ n.updating = c.updating
  BY <1>2, <1>4 DEF Routed, SetHead, HasPendingWork, Contexts
<1>7. Replaced(i) /\ contexts'[i] = n
  BY <1>2, <1>4, <1>5, <1>6, ReplacedBy
<1>8. /\ c.head \in Nat /\ c.tail \in Nat /\ c.updating \in Nat
      /\ c.queue \in Seq(Nat) /\ c.waiting \subseteq Nat /\ c.state.logOffset \in Nat
      /\ record[d].logOffset \in Nat
  BY ContextFields, RecordType
<1>9. Status(i)'
  BY <1>1, <1>2, <1>6, <1>7 DEF ContextInv, Status, Live, Kept
<1> SUFFICES ASSUME Kept(d)'
             PROVE  /\ Complete(n.state, d)' /\ InOrder(n)' /\ Bounded(i)'
                    /\ ~n.closed => Followed(n)'
  BY <1>3, <1>6, <1>7, <1>9 DEF ContextInv
<1>10. /\ Complete(c.state, d) /\ InOrder(c) /\ Bounded(i) /\ Live(i)
       /\ ~c.closed => Followed(c)
  BY <1>1, <1>2, <1>3 DEF ContextInv, Kept, Live
<1>11. /\ c.tail <= c.head /\ c.head < position /\ Stored(d, 1 .. c.tail)
       /\ \A m \in Delivered : log[m] = d => m <= c.head
  BY <1>2, <1>3, <1>10 DEF Bounded
<1>12. \A m \in Delivered' : m \in Delivered \/ m = position
  BY <1>1 DEF Delivered
<1>13. Complete(n.state, d)'
  BY <1>1, <1>6, <1>10 DEF Complete
(* The context was caught up or keeps its tail.                            *)
<1>14. n.tail \in Nat /\ n.tail < position
  BY <1>1, <1>6, <1>8, <1>11
<1>16. ASSUME ~c.closed
       PROVE  /\ n.queue = Append(c.queue, position)
              /\ DOMAIN n.queue = DOMAIN c.queue \cup {Len(c.queue) + 1}
              /\ n.queue[Len(c.queue) + 1] = position
              /\ \A k \in DOMAIN c.queue : n.queue[k] = c.queue[k] /\ k < Len(c.queue) + 1
              /\ \A k \in DOMAIN c.queue : c.queue[k] \in Nat
  <2>1. n.queue = Append(c.queue, position)
    BY <1>6, <1>16
  <2>2. Len(c.queue) \in Nat /\ DOMAIN c.queue = 1 .. Len(c.queue)
    BY <1>8
  <2>3. \A k \in DOMAIN c.queue : k < Len(c.queue) + 1 /\ c.queue[k] \in Nat
    BY <1>8, <2>2
  <2>4. /\ DOMAIN n.queue = DOMAIN c.queue \cup {Len(c.queue) + 1}
        /\ n.queue[Len(c.queue) + 1] = position
        /\ \A k \in DOMAIN c.queue : n.queue[k] = c.queue[k]
    <3>1. PICK q \in Seq(Nat) : q = c.queue
      BY <1>8
    <3>2. PICK p \in Nat : p = position
      BY <1>1
    <3>3. n.queue = Append(q, p)
      BY <2>1, <3>1, <3>2
    <3> QED
      BY <3>1, <3>2, <3>3, AppendToSeq
  <2> QED
    BY <2>1, <2>3, <2>4
<1>17. InOrder(n)'
  <2>1. CASE c.closed
    BY <1>1, <1>2, <1>3, <1>6, <2>1 DEF ContextInv, Status, InOrder, Kept
  <2>2. CASE ~c.closed
    <3>1. CASE c.head # c.tail
      <4>1. \A k \in DOMAIN n.queue :
               /\ n.tail < n.queue[k] /\ n.queue[k] <= n.head /\ n.updating < n.queue[k]
               /\ \A o \in n.waiting : o < n.queue[k]
               /\ \A j \in DOMAIN n.queue : j < k => n.queue[j] < n.queue[k]
        <5>1. /\ n.tail = c.tail /\ n.head = position /\ n.updating = c.updating
              /\ n.waiting = c.waiting /\ c.tail < position
          BY <1>1, <1>6, <1>8, <1>11, <3>1
        <5>2. /\ c.updating < position
              /\ \A o \in c.waiting : o < position
              /\ \A k \in DOMAIN c.queue : c.queue[k] < position
          BY <1>1, <1>8, <1>10, <1>11, <1>16, <2>2 DEF InOrder
        <5>3. ASSUME NEW k \in DOMAIN n.queue
              PROVE  /\ n.tail < n.queue[k] /\ n.queue[k] <= n.head /\ n.updating < n.queue[k]
                     /\ \A o \in n.waiting : o < n.queue[k]
          <6>1. CASE k \in DOMAIN c.queue
            <7>1. /\ n.queue[k] = c.queue[k] /\ c.queue[k] \in Nat
                  /\ c.queue[k] < position
              BY <1>16, <2>2, <5>2, <6>1
            <7>2. /\ c.tail < c.queue[k] /\ c.updating < c.queue[k]
                  /\ \A o \in c.waiting : o < c.queue[k]
              BY <1>10, <6>1 DEF InOrder
            <7> QED
              BY <1>1, <5>1, <7>1, <7>2
          <6>2. CASE k = Len(c.queue) + 1
            BY <1>1, <1>16, <2>2, <5>1, <5>2, <6>2
          <6> QED
            BY <1>16, <2>2, <6>1, <6>2
        <5>4. ASSUME NEW k \in DOMAIN n.queue, NEW j \in DOMAIN n.queue, j < k
              PROVE  n.queue[j] < n.queue[k]
          <6>1. Len(c.queue) \in Nat /\ DOMAIN c.queue = 1 .. Len(c.queue)
            BY <1>8
          <6>2. j \in DOMAIN c.queue
            BY <1>16, <2>2, <5>4, <6>1
          <6> QED
            BY <1>10, <1>16, <2>2, <5>2, <5>4, <6>2 DEF InOrder
        <5> QED
          BY <5>3, <5>4
      <4>2. \A o \in n.waiting :
               /\ n.tail < o /\ o <= n.head /\ o <= n.state.logOffset
               /\ n.updating < o /\ record'[n.doc].logOffset < o
        BY <1>1, <1>3, <1>6, <1>8, <1>10, <1>11, <3>1 DEF InOrder
      <4>3. n.updating # 0 =>
               /\ n.tail < n.updating /\ n.updating <= n.head /\ n.updating <= n.state.logOffset
               /\ record'[n.doc].logOffset < n.updating
        BY <1>1, <1>3, <1>6, <1>8, <1>10, <1>11, <3>1 DEF InOrder
      <4> QED
        BY <4>1, <4>2, <4>3 DEF InOrder
    <3>2. CASE c.head = c.tail
      <4>1. DOMAIN c.queue = {} /\ c.waiting = {} /\ c.updating = 0
        BY <1>8, <1>10, <1>16, <2>2, <3>2 DEF InOrder
      <4>2. DOMAIN n.queue = {Len(c.queue) + 1}
        BY <1>16, <2>2, <4>1
      <4> QED
        BY <1>1, <1>6, <1>14, <1>16, <2>2, <4>1, <4>2 DEF InOrder
    <3> QED
      BY <3>1, <3>2
  <2> QED
    BY <2>1, <2>2
<1>18. Bounded(i)'
  <2>1. Stored(d, 1 .. n.tail)'
    <3>1. CASE c.head # c.tail
      BY <1>1, <1>6, <1>11, <3>1 DEF Stored
    <3>2. CASE c.head = c.tail
      <4>1. \A m \in 1 .. tail : m \in Delivered /\ m \in Nat /\ 1 <= m
        BY <1>1 DEF Delivered
      <4>2. \A m \in 1 .. tail : log[m] = d => m \in 1 .. c.tail
        BY <1>8, <1>11, <3>2, <4>1
      <4> QED
        BY <1>1, <1>6, <1>11, <3>2, <4>2 DEF Stored
    <3> QED
      BY <3>1, <3>2
  <2>2. \A m \in Delivered' : m <= position
    BY <1>1 DEF Delivered
  <2> QED
    BY <1>1, <1>3, <1>6, <1>7, <1>14, <2>1, <2>2 DEF Bounded
<1>19. ASSUME ~c.closed PROVE Followed(n)'
  <2>1. Reached(n)' = Reached(c) /\ record'[n.doc] = record[c.doc]
    BY <1>1, <1>3, <1>6 DEF Reached
  <2>2. ASSUME NEW m \in Delivered', log[m] = d
        PROVE  m <= Reached(c) \/ \E k \in DOMAIN n.queue : n.queue[k] = m
    <3>1. CASE m = position
      BY <1>16, <1>19, <3>1
    <3>2. CASE m \in Delivered
      BY <1>3, <1>10, <1>16, <1>19, <2>2, <3>2 DEF Followed
    <3> QED
      BY <1>12, <3>1, <3>2
  <2> QED
    BY <1>1, <1>3, <1>6, <1>10, <1>19, <2>1, <2>2 DEF Followed
<1> QED
  BY <1>6, <1>7, <1>13, <1>17, <1>18, <1>19

LEMMA DeliveredOne ==
    ASSUME RouterTypeOK, RouterTypeOK', RouterInv, Deliver
    PROVE  /\ UNCHANGED <<log, committed, record, late, abandoned, error>>
           /\ position' = position + 1 /\ tail' = position /\ LateInv
           /\ position \in Nat /\ position <= Len(log) /\ Len(log) \in Nat
           /\ DOMAIN log = 1 .. Len(log) /\ tail \in Nat /\ tail < position
           /\ \A m \in Delivered' : m \in Delivered \/ m = position
           /\ \A m \in Delivered : m \in Delivered' /\ m < position
           /\ CommitInv /\ UpdateCheckpoint
  BY DEF Deliver, kafka, RouterTypeOK, RouterInv, Offsets, Delivered

(* A context that the message is not for does not notice it.               *)
LEMMA OthersInv ==
    ASSUME RouterTypeOK, RouterTypeOK', RouterInv, Deliver, NEW j \in DOMAIN contexts,
           j \in DOMAIN contexts', contexts'[j] = contexts[j], Live(j)' <=> Live(j),
           contexts[j].doc # log[position] \/ ~Live(j)
    PROVE  ContextInv(j)'
<1>1. ContextInv(j) /\ (~Live(j) => contexts[j].closed)
  BY DEF RouterInv, ContextInv, Status
<1>2. /\ abandoned \subseteq abandoned' /\ error' = error /\ Len(log) <= Len(log')
      /\ \A m \in DOMAIN log : log'[m] = log[m]
      /\ position <= position' /\ record'[contexts[j].doc] = record[contexts[j].doc]
  BY DeliveredOne
<1>3. \/ \A m \in Delivered' : m \in Delivered \/ log'[m] # contexts[j].doc
      \/ contexts[j].closed /\ ~Live(j)
  BY <1>1, DeliveredOne
<1> QED
  BY <1>1, <1>2, <1>3, Untouched

(* What is left once the contexts are known to keep the invariant.         *)
LEMMA DeliveredInv ==
    ASSUME RouterTypeOK, RouterTypeOK', RouterInv, Deliver,
           \A j \in DOMAIN contexts' : ContextInv(j)',
           \A e \in Documents :
               /\ documents'[e] # 0 => contexts'[documents'[e]].doc = e
               /\ documents'[e] = 0 => documents[e] = 0 /\ log[position] # e
    PROVE  RouterInv'
<1>1. ASSUME NEW e \in Documents PROVE DocumentInv(e)'
  <2>1. DocumentInv(e)
    BY DEF RouterInv
  <2>2. Kept(e)' => Kept(e) /\ Complete(record[e], e)'
    BY <2>1, DeliveredOne DEF DocumentInv, Complete, Kept
  <2>3. Kept(e)' /\ documents'[e] = 0 => Stored(e, Delivered)'
    BY <2>1, <2>2, DeliveredOne DEF DocumentInv, Stored
  <2> QED
    BY <2>2, <2>3 DEF DocumentInv
<1>2. Grows
  BY DeliveredOne, RecordType DEF Grows, Kept
<1>3. tail' < position'
  BY DeliveredOne
<1>4. CommitInv'
  BY <1>1, <1>2, <1>3, DeliveredOne, CommitsStored
<1>5. LateInv'
  BY DeliveredOne DEF LateInv, Kept
<1> QED
  BY <1>1, <1>3, <1>4, <1>5 DEF RouterInv

LEMMA DeliverStep ==
    ASSUME RouterTypeOK, RouterTypeOK', RouterInv, Deliver
    PROVE  RouterInv'
<1>1. position \in DOMAIN log /\ log[position] \in Documents \cup {NoDocument}
  BY DeliveredOne DEF RouterTypeOK
<1>2. PICK d \in Documents \cup {NoDocument} : d = log[position]
  BY <1>1
<1>3. PICK l \in Nat : l = Len(contexts) /\ DOMAIN contexts = 1 .. l
  BY DEF RouterTypeOK
<1>4. \A e \in Documents : documents[e] # 0 => /\ documents[e] \in DOMAIN contexts
                                               /\ contexts[documents[e]].doc = e
  BY DocumentsType DEF RouterInv, DocumentInv
<1>5. CASE d = NoDocument
  <2>1. UNCHANGED <<contexts, documents>> /\ d \notin Documents
    BY <1>2, <1>5, RouterConstants DEF Deliver
  <2>2. ASSUME NEW j \in DOMAIN contexts' PROVE ContextInv(j)'
    <3>1. (Live(j)' <=> Live(j)) /\ j \in DOMAIN contexts
      BY <2>1 DEF Live
    <3>2. contexts[j].doc # log[position]
      BY <1>2, <2>1, <3>1, ContextType
    <3> QED
      BY <2>1, <3>1, <3>2, OthersInv
  <2> QED
    BY <1>2, <1>4, <2>1, <2>2, DeliveredInv
<1>6. CASE d # NoDocument /\ documents[d] = 0
  <2>1. PICK i \in Nat : i = l + 1
    BY <1>3
  <2>2. /\ contexts' = Append(contexts, NewContext(d, position, tail))
        /\ documents' = [documents EXCEPT ![d] = i] /\ d \in Documents
    BY <1>2, <1>3, <1>6, <2>1 DEF Deliver
  <2>3. contexts'[i].doc = d /\ ContextInv(i)'
    BY <1>2, <1>3, <1>6, <2>1, <2>2, NewContextInv
  <2>4. /\ DOMAIN contexts' = DOMAIN contexts \cup {i} /\ i \notin DOMAIN contexts
        /\ \A j \in DOMAIN contexts : contexts'[j] = contexts[j]
    <3>1. NewContext(d, position, tail) \in Contexts
      BY <2>2, DeliveredOne, NewContextType
    <3> QED
      BY <1>3, <2>1, <2>2, <3>1, AppendToSeq DEF RouterTypeOK
  <2>5. documents'[d] = i /\ \A e \in Documents : e # d => documents'[e] = documents[e]
    BY <2>2 DEF RouterTypeOK
  <2>6. ASSUME NEW j \in DOMAIN contexts' PROVE ContextInv(j)'
    <3>1. CASE j = i
      BY <2>3, <3>1
    <3>2. CASE j # i
      <4>1. /\ j \in DOMAIN contexts /\ contexts'[j] = contexts[j]
            /\ contexts[j].doc \in Documents /\ j # 0
        BY <1>3, <2>4, <3>2, ContextType
      <4>2. /\ Live(j)' <=> Live(j)
            /\ contexts[j].doc # log[position] \/ ~Live(j)
        BY <1>2, <1>6, <2>5, <3>2, <4>1 DEF Live
      <4> QED
        BY <4>1, <4>2, OthersInv
    <3> QED
      BY <3>1, <3>2
  <2>7. \A e \in Documents :
            /\ documents'[e] # 0 => contexts'[documents'[e]].doc = e
            /\ documents'[e] = 0 => documents[e] = 0 /\ log[position] # e
    BY <1>2, <1>3, <1>4, <2>1, <2>3, <2>4, <2>5
  <2> QED
    BY <2>6, <2>7, DeliveredInv
<1>7. CASE d # NoDocument /\ documents[d] # 0
  <2>1. PICK i \in DOMAIN contexts : i = documents[d] /\ contexts[i].doc = d
    BY <1>4, <1>7
  <2>2. /\ contexts' = [contexts EXCEPT ![i] = Routed(contexts[i], position)]
        /\ UNCHANGED documents /\ d \in Documents
    BY <1>2, <1>7, <2>1 DEF Deliver, Becomes
  <2>3. Replaced(i) /\ ContextInv(i)'
    BY <1>2, <2>1, <2>2, RoutedInv
  <2>4. ASSUME NEW j \in DOMAIN contexts' PROVE ContextInv(j)'
    <3>1. CASE j = i
      BY <2>3, <3>1
    <3>2. CASE j # i
      <4>1. /\ j \in DOMAIN contexts /\ contexts'[j] = contexts[j]
            /\ contexts[j].doc \in Documents
        BY <2>3, <3>2, ContextType DEF Replaced
      <4>2. /\ Live(j)' <=> Live(j)
            /\ contexts[j].doc # log[position] \/ ~Live(j)
        BY <1>2, <2>1, <2>2, <3>2, <4>1 DEF Live
      <4> QED
        BY <4>1, <4>2, OthersInv
    <3> QED
      BY <3>1, <3>2
  <2>5. \A e \in Documents :
            /\ documents'[e] # 0 => contexts'[documents'[e]].doc = e
            /\ documents'[e] = 0 => documents[e] = 0 /\ log[position] # e
    <3>1. \A j \in DOMAIN contexts : contexts'[j].doc = contexts[j].doc
      BY <2>3 DEF Replaced
    <3> QED
      BY <1>2, <1>4, <1>7, <2>2, <3>1
  <2> QED
    BY <2>4, <2>5, DeliveredInv
<1> QED
  BY <1>2, <1>5, <1>6, <1>7

-----------------------------------------------------------------------------
(* The theorems *)

LEMMA InvStep ==
    ASSUME RouterTypeOK, RouterTypeOK', RouterInv, [Next]_vars
    PROVE  RouterInv'
<1>1. ASSUME NEW d \in Documents \cup {NoDocument}, Produce(d) PROVE RouterInv'
  BY <1>1, ProduceStep
<1>2. CASE Deliver
  BY <1>2, DeliverStep
<1>3. ASSUME NEW i \in DOMAIN contexts,
             \/ Created(i) \/ CreateFails(i) \/ Skip(i) \/ Handle(i) \/ Throw(i)
             \/ HandleCorrupt(i) \/ Updated(i)
             \/ \E offset \in contexts[i].waiting : Update(i, offset)
      PROVE  RouterInv'
  BY <1>3, DocumentSteps
<1>4. ASSUME NEW i \in DOMAIN contexts, Inactive(i) PROVE RouterInv'
  BY <1>4, InactiveStep
<1>5. CASE Committed \/ CommitFails
  BY <1>5, CommitStep
<1>6. CASE Restart
  BY <1>6, RestartStep
<1>7. ASSUME NEW u \in late, LateUpdate(u) PROVE RouterInv'
  BY <1>7, LateUpdateStep
<1>8. CASE UNCHANGED vars
  BY <1>8 DEF vars, kafka, consumer, checkpointing, RouterInv, LateInv, CommitInv, DocumentInv,
     ContextInv, Status, InOrder, Bounded, Followed, Reached, Live, Kept, Stored,
     Complete, Delivered
<1> QED
  BY <1>1, <1>2, <1>3, <1>4, <1>5, <1>6, <1>7, <1>8 DEF Next

(* RouterInv is inductive: whatever the documents of a partition do, in    *)
(* whatever order, the chain from the topic to the stored state of each of *)
(* them has no gap, as long as its lambda does not throw and no update of  *)
(* it outlives the lambda that started it.                                 *)
THEOREM RouterInvariant ==
    Spec => []RouterInv
<1>1. RouterInv /\ RouterTypeOK /\ RouterTypeOK' /\ [Next]_vars => RouterInv'
  BY InvStep
<1> QED
  BY <1>1, InvInit, RouterTypes, PTL DEF Spec

(* What Kafka does not deliver again is in the stored state of its         *)
(* document: the offset that checkpointManager commits passes no message   *)
(* of a document that is not checkpointed, for any number of documents,    *)
(* messages and restarts.                                                  *)
THEOREM AtLeastOnceHolds ==
    Spec => []AtLeastOnce
<1>1. RouterTypeOK /\ RouterInv => AtLeastOnce
  <2> SUFFICES ASSUME RouterTypeOK, RouterInv, NEW n \in 1 .. committed, Owed(n)
               PROVE  n \in record[log[n]].messages
    BY DEF AtLeastOnce
  <2>1. n \in DOMAIN log /\ n \in Nat /\ n >= 1
    BY DEF RouterTypeOK, Offsets
  <2>2. PICK d \in Documents : d = log[n] /\ Kept(d)
    BY <2>1 DEF Owed, Kept, RouterTypeOK
  <2>3. n <= record[d].logOffset /\ Complete(record[d], d) /\ record[d].logOffset \in Nat
    BY <2>2, RecordType DEF RouterInv, CommitInv, Stored, DocumentInv
  <2> QED
    BY <2>1, <2>2, <2>3 DEF Complete
<1> QED
  BY <1>1, RouterInvariant, RouterTypes, PTL

(* A message that was delivered is stored, in the queue of its document,   *)
(* or covered by a checkpoint that is waiting or being written, as long as *)
(* no error has ended it all: handler, processCore and CheckpointContext   *)
(* lose none between them.                                                 *)
THEOREM NothingForgottenHolds ==
    Spec => []NothingForgotten
<1>1. RouterTypeOK /\ RouterInv => NothingForgotten
  <2> SUFFICES ASSUME RouterTypeOK, RouterInv, error = "none", NEW n \in Delivered, Owed(n)
               PROVE  \/ n \in record[log[n]].messages
                      \/ \E i \in DOMAIN contexts :
                             contexts[i].doc = log[n] /\ InProgress(contexts[i], n)
    BY DEF NothingForgotten
  <2>1. n \in DOMAIN log /\ n \in Nat /\ n >= 1
    BY DEF RouterTypeOK, Delivered
  <2>2. PICK d \in Documents : d = log[n] /\ Kept(d)
    BY <2>1 DEF Owed, Kept, RouterTypeOK
  <2>3. DocumentInv(d) /\ Complete(record[d], d) /\ record[d].logOffset \in Nat
    BY <2>2, RecordType DEF RouterInv, DocumentInv
  <2>4. CASE n <= record[d].logOffset
    BY <2>1, <2>2, <2>3, <2>4 DEF Complete
  <2>5. CASE ~(n <= record[d].logOffset)
    <3>1. documents[d] # 0
      BY <2>2, <2>3, <2>5 DEF DocumentInv, Stored
    <3>2. PICK i \in DOMAIN contexts : i = documents[d] /\ contexts[i].doc = d
      BY <2>3, <3>1, DocumentsType DEF DocumentInv
    <3>3. PICK c \in Contexts : contexts[i] = c
      BY ContextType
    <3>4. ContextInv(i) /\ c.state.logOffset \in Nat
      BY <3>3, ContextFields DEF RouterInv
    <3>5. Complete(c.state, d) /\ Followed(c) /\ c.doc = d
      BY <2>2, <3>2, <3>3, <3>4 DEF ContextInv, Status, Live
    <3>6. n <= Reached(c) \/ \E k \in DOMAIN c.queue : c.queue[k] = n
      BY <2>2, <3>5 DEF Followed
    <3>7. ASSUME n <= Reached(c)
          PROVE  n \in c.state.messages /\ Reached(c) \in c.waiting \cup {c.updating}
      <4>1. Reached(c) # record[d].logOffset
        BY <2>5, <3>7
      <4>2. c.created /\ Reached(c) = c.state.logOffset
        BY <3>5, <4>1 DEF Reached
      <4> QED
        BY <2>1, <2>2, <3>4, <3>5, <3>7, <4>1, <4>2 DEF Complete, Followed
    <3>8. InProgress(c, n)
      BY <3>6, <3>7 DEF InProgress
    <3> QED
      BY <2>2, <3>2, <3>3, <3>8
  <2> QED
    BY <2>4, <2>5
<1> QED
  BY <1>1, RouterInvariant, RouterTypes, PTL

-----------------------------------------------------------------------------
(* Offsets: the contexts, as they are before the offset of the partition   *)
(* moves.                                                                  *)

InPlace(c) ==
    /\ InSequence(c, position, lastCheckpoint)
    /\ lastCheckpoint = 0 => After(c, committed)

LEMMA TypesOfOffsets ==
    ASSUME RouterTypeOK
    PROVE  /\ position \in Nat /\ tail \in Nat /\ committed \in Nat /\ committing \in Nat
           /\ lastCheckpoint \in Nat /\ contexts \in Seq(Contexts)
           /\ DOMAIN contexts \subseteq Nat
  BY DEF RouterTypeOK, Offsets

(* A context is in place after each action of its document.                *)

LEMMA Fewer ==
    ASSUME RouterTypeOK, NEW c \in Contexts, NEW n \in Contexts, InPlace(c),
           n.head = c.head, n.tail = c.tail, n.updating = c.updating,
           n.waiting \subseteq c.waiting, n.queue = c.queue \/ n.queue = <<>>
    PROVE  InPlace(n)
<1>1. CASE n.queue = c.queue
  BY <1>1 DEF InPlace, InSequence, After, HasPendingWork
<1>2. CASE n.queue = <<>>
  <2>1. DOMAIN n.queue = {}
    BY <1>2
  <2> QED
    BY <2>1 DEF InPlace, InSequence, After, HasPendingWork
<1> QED
  BY <1>1, <1>2

(* The first message of the queue is skipped, handled or given up.         *)
LEMMA Taken ==
    ASSUME RouterTypeOK, NEW c \in Contexts, NEW n \in Contexts, InPlace(c), c.queue # <<>>,
           n.head = c.head, n.updating = c.updating, n.queue = Tail(c.queue),
           \/ n.waiting = c.waiting /\ n.tail \in {c.tail, Head(c.queue)}
           \/ n.waiting = c.waiting \cup {Head(c.queue)} /\ n.tail = c.tail
    PROVE  InPlace(n)
<1> DEFINE m == Head(c.queue)
<1>1. /\ c.queue \in Seq(Nat) /\ c.tail \in Nat /\ c.head \in Nat /\ c.updating \in Nat
      /\ c.waiting \subseteq Nat /\ lastCheckpoint \in Nat /\ committed \in Nat
  BY ContextFields, TypesOfOffsets
<1>2. /\ m \in Nat /\ m = c.queue[1] /\ 1 \in DOMAIN c.queue
      /\ \A k \in DOMAIN n.queue : k + 1 \in DOMAIN c.queue /\ n.queue[k] = c.queue[k + 1]
      /\ DOMAIN n.queue \subseteq Nat /\ DOMAIN c.queue \subseteq Nat \ {0}
      /\ \A k \in DOMAIN c.queue : c.queue[k] \in Nat
  BY <1>1, TailOfSeq
<1>3. /\ c.tail < m /\ m <= c.head /\ c.updating < m /\ \A o \in c.waiting : o < m
      /\ lastCheckpoint <= c.tail
  <2>1. c.tail < m /\ m <= c.head /\ c.updating < m /\ \A o \in c.waiting : o < m
    BY <1>2 DEF InPlace, InSequence
  <2>2. HasPendingWork(c)
    BY <1>1, <1>2, <2>1 DEF HasPendingWork
  <2> QED
    BY <2>1, <2>2 DEF InPlace, InSequence
<1> HIDE DEF m
<1>4. \A k \in DOMAIN n.queue :
         /\ m < n.queue[k] /\ c.tail < n.queue[k] /\ n.queue[k] <= c.head
         /\ c.updating < n.queue[k] /\ \A o \in c.waiting : o < n.queue[k]
         /\ \A j \in DOMAIN n.queue : j < k => n.queue[j] < n.queue[k]
  <2> TAKE k \in DOMAIN n.queue
  <2>1. k + 1 \in DOMAIN c.queue /\ n.queue[k] = c.queue[k + 1] /\ k \in Nat /\ k # 0
    <3>1. n.queue \in Seq(Nat)
      BY ContextFields
    <3> QED
      BY <1>2, <3>1
  <2>2. 1 < k + 1
    BY <2>1
  <2>3. m < c.queue[k + 1]
    BY <1>2, <2>1, <2>2 DEF InPlace, InSequence
  <2>4. ASSUME NEW j \in DOMAIN n.queue, j < k
        PROVE  n.queue[j] < n.queue[k]
    <3>1. j + 1 \in DOMAIN c.queue /\ n.queue[j] = c.queue[j + 1] /\ j \in Nat
      BY <1>2
    <3>2. j + 1 < k + 1
      BY <2>1, <2>4, <3>1
    <3> QED
      BY <2>1, <3>1, <3>2 DEF InPlace, InSequence
  <2> QED
    BY <2>1, <2>3, <2>4 DEF InPlace, InSequence
<1>5. InSequence(n, position, lastCheckpoint)
  <2>1. n.tail \in Nat /\ lastCheckpoint <= n.tail /\ n.tail <= m
    BY <1>1, <1>2, <1>3 DEF m
  <2>2. \A o \in n.waiting : o <= m /\ o <= c.head /\ o \in Nat
    BY <1>1, <1>2, <1>3 DEF m, InPlace, InSequence
  <2>3. c.head < position /\ c.updating <= c.head
    BY DEF InPlace, InSequence
  <2>4. ASSUME NEW k \in DOMAIN n.queue
        PROVE  n.tail < n.queue[k] /\ \A o \in n.waiting : o < n.queue[k]
    <3>1. m < n.queue[k] /\ n.queue[k] \in Nat
      BY <1>2, <1>4
    <3> QED
      BY <1>2, <2>1, <2>2, <3>1
  <2>5. n.tail <= c.head
    BY <1>1, <1>2, <1>3, <2>1
  <2> QED
    BY <1>4, <2>1, <2>2, <2>3, <2>4, <2>5 DEF InSequence
<1>6. lastCheckpoint = 0 => After(n, committed)
  <2> SUFFICES ASSUME lastCheckpoint = 0
               PROVE  After(n, committed)
    OBVIOUS
  <2>1. After(c, committed)
    BY DEF InPlace
  <2>2. committed < m
    BY <1>2, <2>1 DEF After
  <2>3. \A k \in DOMAIN n.queue : committed < n.queue[k]
    BY <1>2, <2>1 DEF After
  <2> QED
    BY <2>1, <2>2, <2>3 DEF After, m
<1> QED
  BY <1>5, <1>6 DEF InPlace

(* A checkpoint is written.                                                *)
LEMMA Writing ==
    ASSUME RouterTypeOK, NEW c \in Contexts, NEW n \in Contexts, InPlace(c),
           NEW offset \in c.waiting, n.updating = offset,
           n.waiting = {o \in c.waiting : o > offset},
           n.head = c.head, n.tail = c.tail, n.queue = c.queue
    PROVE  InPlace(n)
  BY DEF InPlace, InSequence, After, HasPendingWork

(* It is reported.                                                         *)
LEMMA Reporting ==
    ASSUME RouterTypeOK, NEW c \in Contexts, NEW n \in Contexts, InPlace(c),
           n.updating = 0, n.head = c.head, n.queue = c.queue,
           IF c.tail < c.updating /\ c.updating <= c.head
           THEN n.tail = c.updating /\ n.waiting = c.waiting
           ELSE n.tail = c.tail /\ n.waiting = {}
    PROVE  InPlace(n)
<1>1. /\ c.queue \in Seq(Nat) /\ c.tail \in Nat /\ c.head \in Nat /\ c.updating \in Nat
      /\ c.waiting \subseteq Nat /\ lastCheckpoint \in Nat /\ committed \in Nat
      /\ \A k \in DOMAIN c.queue : c.queue[k] \in Nat
  BY ContextFields, TypesOfOffsets
<1>2. CASE c.tail < c.updating /\ c.updating <= c.head
  <2>1. HasPendingWork(c)
    BY <1>1, <1>2 DEF HasPendingWork
  <2>2. lastCheckpoint <= c.updating
    BY <1>1, <1>2, <2>1 DEF InPlace, InSequence
  <2>3. InSequence(n, position, lastCheckpoint)
    BY <1>1, <1>2, <2>2 DEF InPlace, InSequence
  <2>4. lastCheckpoint = 0 => After(n, committed)
    BY <1>1, <1>2 DEF InPlace, After
  <2> QED
    BY <2>3, <2>4 DEF InPlace
<1>3. CASE ~(c.tail < c.updating /\ c.updating <= c.head)
  <2>1. n.tail = c.tail /\ n.waiting = {}
    BY <1>3
  <2>2. \A k \in DOMAIN c.queue : 0 < c.queue[k]
    BY <1>1 DEF InPlace, InSequence
  <2>3. InSequence(n, position, lastCheckpoint)
    BY <1>1, <2>1, <2>2 DEF InPlace, InSequence, HasPendingWork
  <2>4. lastCheckpoint = 0 => After(n, committed)
    BY <1>1, <2>1 DEF InPlace, After
  <2> QED
    BY <2>3, <2>4 DEF InPlace
<1> QED
  BY <1>2, <1>3

-----------------------------------------------------------------------------
(* The actions of a document leave all contexts in place.                  *)

LEMMA AllInPlace ==
    ASSUME RouterTypeOK, NEW i \in DOMAIN contexts, Replaced(i),
           \A j \in DOMAIN contexts : InPlace(contexts[j]), InPlace(contexts'[i])
    PROVE  \A j \in DOMAIN contexts' : InPlace(contexts'[j])
  BY DEF Replaced

LEMMA ContextsInPlace ==
    ASSUME RouterTypeOK, OffsetInv, NEW i \in DOMAIN contexts,
           \/ Created(i) \/ CreateFails(i) \/ Skip(i) \/ Handle(i) \/ Throw(i)
           \/ HandleCorrupt(i) \/ Updated(i) \/ Inactive(i)
           \/ \E offset \in contexts[i].waiting : Update(i, offset)
    PROVE  contexts' \in Seq(Contexts) /\ \A j \in DOMAIN contexts' : InPlace(contexts'[j])
<1> DEFINE c == contexts[i]
           n == contexts'[i]
<1>1. c \in Contexts /\ \A j \in DOMAIN contexts : InPlace(contexts[j])
  BY ContextType DEF OffsetInv, InPlace
<1> SUFFICES Replaced(i) /\ InPlace(n)
  BY <1>1, AllInPlace DEF Replaced
<1>2. Replaced(i) => n \in Contexts
  BY DEF Replaced
<1>3. CASE Created(i)
  <2>1. /\ Replaced(i) /\ n.head = c.head /\ n.tail = c.tail /\ n.queue = c.queue
        /\ n.waiting = c.waiting /\ n.updating = c.updating
    BY <1>3, CreatedContext
  <2> QED
    BY <1>1, <1>2, <2>1, Fewer
<1>4. CASE CreateFails(i)
  <2>1. /\ Replaced(i) /\ n.head = c.head /\ n.tail = c.tail /\ n.queue = <<>>
        /\ n.waiting = c.waiting /\ n.updating = c.updating
    BY <1>4, ClosedContext
  <2> QED
    BY <1>1, <1>2, <2>1, Fewer
<1>5. CASE Skip(i)
  <2>1. /\ Replaced(i) /\ n.head = c.head /\ n.tail = c.tail /\ n.queue = Tail(c.queue)
        /\ n.waiting = c.waiting /\ n.updating = c.updating
    BY <1>5, SkippedContext
  <2>2. c.queue # <<>>
    BY <1>5 DEF Skip, Busy
  <2> QED
    BY <1>1, <1>2, <2>1, <2>2, Taken
<1>6. CASE Handle(i)
  <2>1. /\ Replaced(i) /\ n.head = c.head /\ n.tail = c.tail /\ n.queue = Tail(c.queue)
        /\ n.waiting = c.waiting \cup {Head(c.queue)} /\ n.updating = c.updating
    BY <1>6, HandledContext DEF NextMessage
  <2>2. c.queue # <<>>
    BY <1>6 DEF Handle, Busy
  <2> QED
    BY <1>1, <1>2, <2>1, <2>2, Taken
<1>7. CASE Throw(i)
  <2>1. /\ Replaced(i) /\ n.head = c.head /\ n.tail = c.tail /\ n.queue = Tail(c.queue)
        /\ n.waiting = c.waiting /\ n.updating = c.updating
    BY <1>7, ThrowingContext
  <2>2. c.queue # <<>>
    BY <1>7 DEF Throw, Busy
  <2> QED
    BY <1>1, <1>2, <2>1, <2>2, Taken
<1>8. CASE HandleCorrupt(i)
  <2>1. /\ Replaced(i) /\ n.head = c.head /\ n.tail = Head(c.queue) /\ n.queue = Tail(c.queue)
        /\ n.waiting = c.waiting /\ n.updating = c.updating
    BY <1>8, CorruptContext DEF NextMessage
  <2>2. c.queue # <<>>
    BY <1>8 DEF HandleCorrupt, Busy
  <2> QED
    BY <1>1, <1>2, <2>1, <2>2, Taken
<1>9. CASE Updated(i)
  <2>1. /\ Replaced(i) /\ n.updating = 0 /\ n.head = c.head /\ n.queue = c.queue
        /\ IF c.tail < c.updating /\ c.updating <= c.head
           THEN n.tail = c.updating /\ n.waiting = c.waiting
           ELSE n.tail = c.tail /\ n.waiting = {}
    BY <1>9, UpdatedContext
  <2> HIDE DEF c, n
  <2> QED
    BY <1>1, <1>2, <2>1, Reporting DEF c
<1>10. CASE Inactive(i)
  <2>1. /\ Replaced(i) /\ n.head = c.head /\ n.tail = c.tail /\ n.queue = <<>>
        /\ n.waiting = {} /\ n.updating = c.updating
    BY <1>10, InactiveContext
  <2>2. n.waiting \subseteq c.waiting
    BY <2>1
  <2> QED
    BY <1>1, <1>2, <2>1, <2>2, Fewer
<1>11. ASSUME NEW offset \in contexts[i].waiting, Update(i, offset)
       PROVE  Replaced(i) /\ InPlace(n)
  <2>1. /\ Replaced(i) /\ n.updating = offset /\ n.waiting = {o \in c.waiting : o > offset}
        /\ n.head = c.head /\ n.tail = c.tail /\ n.queue = c.queue
    BY <1>11, UpdatingContext
  <2> QED
    BY <1>1, <1>2, <2>1, Writing
<1> QED
  BY <1>3, <1>4, <1>5, <1>6, <1>7, <1>8, <1>9, <1>10, <1>11

-----------------------------------------------------------------------------
(* The offset of the partition                                             *)

(* It is the tail of the router or that of a document with work left.      *)
LEMMA CheckpointableIs ==
    ASSUME NEW t \in Nat, NEW cs \in Seq(Contexts)
    PROVE  \/ Checkpointable(t, cs) = t
           \/ \E i \in DOMAIN cs : HasPendingWork(cs[i]) /\ Checkpointable(t, cs) = cs[i].tail
<1> DEFINE tails == {cs[i].tail : i \in {j \in DOMAIN cs : HasPendingWork(cs[j])}}
<1>1. tails \in SUBSET Nat
  <2>1. \A i \in DOMAIN cs : cs[i] \in Contexts
    OBVIOUS
  <2>2. \A c \in Contexts : c.tail \in Nat
    BY DEF Contexts
  <2> QED
    BY <2>1, <2>2
<1>2. {t} \cup tails \in SUBSET Nat /\ {t} \cup tails # {}
  BY <1>1
<1>3. Min({t} \cup tails) \in {t} \cup tails
  BY <1>2, MinNat
<1> QED
  BY <1>3 DEF Checkpointable

(* What holds before the offset moves holds after it, and it moves forward.*)
LEMMA Moves ==
    ASSUME RouterTypeOK, OffsetInv, UpdateCheckpoint, committed' = committed,
           tail' \in Nat, NEW next \in Nat, position' = next,
           tail <= tail', tail' < next, position <= next,
           lastCheckpoint = 0 => tail' = 0 \/ committed < tail',
           contexts' \in Seq(Contexts),
           \A i \in DOMAIN contexts' :
               /\ InSequence(contexts'[i], next, lastCheckpoint)
               /\ lastCheckpoint = 0 => After(contexts'[i], committed)
    PROVE  OffsetInv' /\ lastCheckpoint' >= lastCheckpoint
<1> DEFINE offset == Checkpointable(tail', contexts')
<1>1. /\ position \in Nat /\ tail \in Nat /\ committed \in Nat /\ committing \in Nat
      /\ lastCheckpoint \in Nat
  BY TypesOfOffsets
<1>2. /\ lastCheckpoint' = offset
      /\ committing' = IF offset # lastCheckpoint /\ committing = 0 THEN offset ELSE committing
  BY DEF UpdateCheckpoint
<1>3. \A i \in DOMAIN contexts' : contexts'[i].tail \in Nat /\ contexts'[i] \in Contexts
  <2>1. \A i \in DOMAIN contexts' : contexts'[i] \in Contexts
    OBVIOUS
  <2> QED
    BY <2>1, ContextFields
<1>4. /\ offset \in Nat /\ offset <= tail'
      /\ \A i \in DOMAIN contexts' : HasPendingWork(contexts'[i]) => offset <= contexts'[i].tail
  BY CheckpointableBounds
<1>5. \/ offset = tail'
      \/ \E i \in DOMAIN contexts' :
             HasPendingWork(contexts'[i]) /\ offset = contexts'[i].tail
  BY CheckpointableIs
<1> HIDE DEF offset
<1>6. lastCheckpoint <= offset
  <2>1. lastCheckpoint <= tail'
    BY <1>1 DEF OffsetInv
  <2> QED
    BY <1>1, <1>3, <1>5, <2>1 DEF InSequence
<1>7. lastCheckpoint = 0 => offset = 0 \/ committed < offset
  BY <1>5 DEF After
<1>8. offset # 0 => committed <= offset
  BY <1>1, <1>4, <1>6, <1>7 DEF OffsetInv
<1>9. committing' <= offset /\ (committing' # 0 => committed <= committing')
  BY <1>1, <1>2, <1>4, <1>6, <1>8 DEF OffsetInv
<1>10. \A i \in DOMAIN contexts' :
          /\ InSequence(contexts'[i], next, offset)
          /\ offset = 0 => After(contexts'[i], committed)
  <2>1. offset = 0 => lastCheckpoint = 0
    BY <1>1, <1>6
  <2> QED
    BY <1>4, <2>1 DEF InSequence
<1>11. committed < next
  BY <1>1 DEF OffsetInv
<1>12. offset = 0 => tail' = 0 \/ committed < tail'
  BY <1>1, <1>6
<1>13. OffsetInv'
  BY <1>2, <1>4, <1>8, <1>9, <1>10, <1>11, <1>12 DEF OffsetInv
<1> QED
  BY <1>1, <1>2, <1>4, <1>6, <1>13

-----------------------------------------------------------------------------
(* A message is delivered.                                                 *)

LEMMA Later ==
    ASSUME NEW c \in Contexts, NEW n \in Nat, NEW next \in Nat, n <= next,
           NEW reached \in Nat, InSequence(c, n, reached)
    PROVE  InSequence(c, next, reached)
<1>1. c.head \in Nat
  BY ContextFields
<1> QED
  BY <1>1 DEF InSequence

LEMMA NewInPlace ==
    ASSUME RouterTypeOK, OffsetInv, NEW d \in Documents, position' = position + 1
    PROVE  /\ InSequence(NewContext(d, position, tail), position + 1, lastCheckpoint)
           /\ lastCheckpoint = 0 => After(NewContext(d, position, tail), committed)
<1> DEFINE c == NewContext(d, position, tail)
<1>1. /\ position \in Nat /\ tail \in Nat /\ committed \in Nat /\ lastCheckpoint \in Nat
  BY TypesOfOffsets
<1>2. /\ c.head = position /\ c.tail = tail /\ c.updating = 0 /\ c.waiting = {}
      /\ DOMAIN c.queue = {1} /\ c.queue[1] = position
  BY DEF NewContext
<1> HIDE DEF c
<1> QED
  BY <1>1, <1>2 DEF OffsetInv, InSequence, After, HasPendingWork, c

LEMMA RoutedInPlace ==
    ASSUME RouterTypeOK, OffsetInv, NEW c \in Contexts, InPlace(c)
    PROVE  /\ InSequence(Routed(c, position), position + 1, lastCheckpoint)
           /\ lastCheckpoint = 0 => After(Routed(c, position), committed)
<1> DEFINE n == Routed(c, position)
<1>1. /\ position \in Nat /\ tail \in Nat /\ committed \in Nat /\ lastCheckpoint \in Nat
      /\ c.queue \in Seq(Nat) /\ c.tail \in Nat /\ c.head \in Nat /\ c.updating \in Nat
      /\ c.waiting \subseteq Nat /\ Len(c.queue) \in Nat
      /\ \A k \in DOMAIN c.queue : c.queue[k] \in Nat
  BY TypesOfOffsets, ContextFields
<1>2. /\ n.head = position /\ n.tail = IF HasPendingWork(c) THEN c.tail ELSE tail
      /\ n.updating = c.updating /\ n.waiting = c.waiting
      /\ n.queue = IF c.closed THEN c.queue ELSE Append(c.queue, position)
  BY DEF Routed, SetHead, Contexts
<1> HIDE DEF n
<1>3. ~HasPendingWork(c) => DOMAIN c.queue = {}
  <2>1. \A k \in DOMAIN c.queue : c.tail < c.queue[k] /\ c.queue[k] <= c.head
    BY DEF InPlace, InSequence
  <2> QED
    BY <1>1, <2>1 DEF HasPendingWork
<1>4. /\ c.head < position /\ c.tail <= c.head /\ c.updating <= c.head /\ \A o \in c.waiting : o <= c.head
      /\ tail < position /\ lastCheckpoint <= tail /\ committed < position
      /\ HasPendingWork(c) => lastCheckpoint <= c.tail
  BY DEF InPlace, InSequence, OffsetInv
<1>5. /\ n.tail \in Nat /\ n.tail < position /\ lastCheckpoint <= n.tail
      /\ \A k \in DOMAIN c.queue : n.tail < c.queue[k]
  <2>1. c.tail < position
    BY <1>1, <1>4
  <2>2. \A k \in DOMAIN c.queue : c.tail < c.queue[k]
    BY DEF InPlace, InSequence
  <2> QED
    BY <1>1, <1>2, <1>3, <1>4, <2>1, <2>2
<1>6. \A k \in DOMAIN c.queue :
         /\ n.tail < c.queue[k] /\ c.queue[k] <= position /\ c.updating < c.queue[k]
         /\ \A o \in c.waiting : o < c.queue[k]
  <2>1. \A k \in DOMAIN c.queue :
           /\ c.queue[k] <= c.head /\ c.updating < c.queue[k]
           /\ \A o \in c.waiting : o < c.queue[k]
    BY DEF InPlace, InSequence
  <2> QED
    BY <1>1, <1>4, <1>5, <2>1
<1>7. /\ c.updating < position /\ \A o \in c.waiting : o < position
      /\ position < position + 1 /\ n.tail <= position /\ c.updating <= position
      /\ \A o \in c.waiting : o <= position
  BY <1>1, <1>4, <1>5
<1>8. \A k \in DOMAIN c.queue : \A j \in DOMAIN c.queue : j < k => c.queue[j] < c.queue[k]
  BY DEF InPlace, InSequence
<1>9. InSequence(n, position + 1, lastCheckpoint)
  <2>1. CASE c.closed
    <3>1. n.queue = c.queue
      BY <1>2, <2>1
    <3> QED
      BY <1>2, <1>5, <1>6, <1>7, <1>8, <3>1 DEF InSequence
  <2>2. CASE ~c.closed
    <3> DEFINE l == Len(c.queue) + 1
    <3>1. /\ n.queue[l] = position /\ DOMAIN n.queue = DOMAIN c.queue \cup {l}
          /\ \A k \in DOMAIN c.queue : n.queue[k] = c.queue[k]
          /\ DOMAIN c.queue = 1 .. Len(c.queue)
      BY <1>1, <1>2, <2>2, AppendToSeq
    <3>2. \A k \in DOMAIN c.queue : k < l /\ ~(l < k) /\ c.queue[k] <= c.head
      BY <1>1, <3>1 DEF InPlace, InSequence
    <3>3. l \notin DOMAIN c.queue /\ l \in Nat /\ ~(l < l)
      BY <1>1, <3>1
    <3> HIDE DEF l
    <3>4. \A k \in DOMAIN n.queue :
             /\ n.tail < n.queue[k] /\ n.queue[k] <= n.head /\ n.updating < n.queue[k]
             /\ \A o \in n.waiting : o < n.queue[k]
      <4> TAKE k \in DOMAIN n.queue
      <4>1. n.head = position /\ n.updating = c.updating /\ n.waiting = c.waiting
        BY <1>2
      <4>2. CASE k = l
        BY <1>1, <1>5, <1>7, <3>1, <4>1, <4>2
      <4>3. CASE k \in DOMAIN c.queue
        BY <1>6, <3>1, <4>1, <4>3
      <4> QED
        BY <3>1, <4>2, <4>3
    <3>5. ASSUME NEW k \in DOMAIN n.queue, NEW j \in DOMAIN n.queue, j < k
          PROVE  n.queue[j] < n.queue[k]
      <4>1. CASE k = l
        <5>1. j \in DOMAIN c.queue
          BY <3>1, <3>3, <3>5, <4>1
        <5> QED
          BY <1>1, <1>4, <3>1, <3>2, <4>1, <5>1
      <4>2. CASE k # l
        <5>1. k \in DOMAIN c.queue
          BY <3>1, <4>2
        <5>2. j \in DOMAIN c.queue
          BY <3>1, <3>2, <3>5, <5>1
        <5> QED
          BY <3>1, <3>5, <5>1, <5>2 DEF InPlace, InSequence
      <4> QED
        BY <4>1, <4>2
    <3>6. \A o \in n.waiting : o <= n.head /\ o \in Nat
      BY <1>1, <1>2, <1>4
    <3> QED
      BY <1>2, <1>5, <1>7, <3>4, <3>5, <3>6 DEF InSequence
  <2> QED
    BY <2>1, <2>2
<1>10. lastCheckpoint = 0 => After(n, committed)
  <2> SUFFICES ASSUME lastCheckpoint = 0
               PROVE  After(n, committed)
    OBVIOUS
  <2>1. After(c, committed) /\ (tail = 0 \/ committed < tail)
    BY DEF InPlace, OffsetInv
  <2>2. \A k \in DOMAIN n.queue : committed < n.queue[k]
    <3>1. CASE c.closed
      BY <1>2, <2>1, <3>1 DEF After
    <3>2. CASE ~c.closed
      BY <1>1, <1>2, <1>4, <2>1, <3>2, AppendToSeq DEF After
    <3> QED
      BY <3>1, <3>2
  <2> QED
    BY <1>2, <2>1, <2>2 DEF After
<1> QED
  BY <1>9, <1>10 DEF n

LEMMA DeliverMoves ==
    ASSUME RouterTypeOK, OffsetInv, Deliver
    PROVE  OffsetInv' /\ lastCheckpoint' >= lastCheckpoint
<1> DEFINE d == log[position]
           InNextPlace(c) == /\ InSequence(c, position + 1, lastCheckpoint)
                             /\ lastCheckpoint = 0 => After(c, committed)
<1>1. /\ position \in Nat /\ tail \in Nat /\ committed \in Nat /\ lastCheckpoint \in Nat
      /\ contexts \in Seq(Contexts)
  BY TypesOfOffsets
<1>2. d \in Documents \cup {NoDocument}
  BY DEF Deliver, RouterTypeOK
<1>3. /\ UpdateCheckpoint /\ committed' = committed /\ tail' = position
      /\ position' = position + 1
  BY DEF Deliver, kafka
<1>4. \A i \in DOMAIN contexts : contexts[i] \in Contexts /\ InNextPlace(contexts[i])
  <2> TAKE i \in DOMAIN contexts
  <2>1. contexts[i] \in Contexts
    BY <1>1
  <2>2. /\ InSequence(contexts[i], position, lastCheckpoint)
        /\ lastCheckpoint = 0 => After(contexts[i], committed)
    BY DEF OffsetInv
  <2> QED
    BY <1>1, <2>1, <2>2, Later
<1>5. contexts' \in Seq(Contexts)
  BY DeliverType DEF RouterTypeOK
<1>6. \A i \in DOMAIN contexts' : InNextPlace(contexts'[i])
  <2>1. CASE d = NoDocument
    BY <1>4, <2>1, RouterConstants DEF Deliver
  <2>2. CASE d # NoDocument /\ documents[d] = 0
    <3> DEFINE new == NewContext(d, position, tail)
    <3>1. contexts' = Append(contexts, new)
      BY <2>2 DEF Deliver
    <3>2. new \in Contexts /\ InNextPlace(new)
      BY <1>1, <1>2, <1>3, <2>2, NewContextType, NewInPlace
    <3> HIDE DEF new, d, InNextPlace
    <3>3. /\ DOMAIN contexts' = DOMAIN contexts \cup {Len(contexts) + 1}
          /\ contexts'[Len(contexts) + 1] = new
          /\ \A j \in DOMAIN contexts : contexts'[j] = contexts[j]
      BY <1>1, <3>1, <3>2, AppendToSeq
    <3> QED
      BY <1>4, <3>2, <3>3
  <2>3. CASE d # NoDocument /\ documents[d] # 0
    <3>1. PICK i \in Nat : i = documents[d]
      BY <1>2, <2>3 DEF RouterTypeOK
    <3>2. i \in DOMAIN contexts
      BY <1>1, <1>2, <2>3, <3>1 DEF RouterTypeOK
    <3>3. contexts' = [contexts EXCEPT ![i] = Routed(contexts[i], position)]
      BY <2>3, <3>1 DEF Deliver, Becomes
    <3>4. Routed(contexts[i], position) \in Contexts
      BY <1>1, <1>4, <3>2, RoutedType
    <3>5. InNextPlace(Routed(contexts[i], position))
      BY <1>4, <3>2, RoutedInPlace DEF OffsetInv, InPlace
    <3> HIDE DEF InNextPlace
    <3>6. /\ DOMAIN contexts' = DOMAIN contexts
          /\ contexts'[i] = Routed(contexts[i], position)
          /\ \A j \in DOMAIN contexts : j # i => contexts'[j] = contexts[j]
      BY <1>1, <3>2, <3>3, <3>4, ReplaceInSeq
    <3> QED
      BY <1>4, <3>5, <3>6
  <2> QED
    BY <2>1, <2>2, <2>3
<1>7. tail <= position /\ committed < position
  BY <1>1 DEF OffsetInv
<1>8. position + 1 \in Nat /\ position < position + 1 /\ position <= position + 1
  BY <1>1
<1> HIDE DEF d
<1> QED
  BY <1>1, <1>3, <1>5, <1>6, <1>7, <1>8, Moves

-----------------------------------------------------------------------------
(* The invariant and the theorem                                           *)

(* What a step promises: the invariant, and offsets that do not move back. *)
Onward ==
    /\ OffsetInv'
    /\ committed' >= committed
    /\ restarts' = restarts => lastCheckpoint' >= lastCheckpoint

LEMMA OffsetInit == Init => OffsetInv
  BY DEF Init, OffsetInv

(* Nothing of it changes but, perhaps, the contexts.                       *)
LEMMA SameOffsets ==
    ASSUME RouterTypeOK, OffsetInv,
           UNCHANGED <<committed, position, tail, committing, lastCheckpoint>>,
           \A i \in DOMAIN contexts' : InPlace(contexts'[i])
    PROVE  Onward
<1>1. committed \in Nat /\ lastCheckpoint \in Nat
  BY TypesOfOffsets
<1> QED
  BY <1>1 DEF OffsetInv, InPlace, Onward

LEMMA ContextOnward ==
    ASSUME RouterTypeOK, OffsetInv, NEW i \in DOMAIN contexts,
           \/ Created(i) \/ CreateFails(i) \/ Skip(i) \/ Handle(i) \/ Throw(i)
           \/ HandleCorrupt(i) \/ Updated(i) \/ Inactive(i)
           \/ \E offset \in contexts[i].waiting : Update(i, offset)
    PROVE  Onward
<1>1. contexts' \in Seq(Contexts) /\ \A j \in DOMAIN contexts' : InPlace(contexts'[j])
  BY ContextsInPlace
<1>2. CASE \/ Created(i) \/ CreateFails(i) \/ Skip(i) \/ Handle(i) \/ Throw(i) \/ Inactive(i)
           \/ \E offset \in contexts[i].waiting : Update(i, offset)
  <2>1. UNCHANGED <<committed, position, tail, committing, lastCheckpoint>>
    BY <1>2 DEF Created, CreateFails, Skip, Handle, Throw, Inactive, Update, UnchangedByLambda,
                kafka, consumer, checkpointing
  <2> QED
    BY <1>1, <2>1, SameOffsets
<1>3. CASE HandleCorrupt(i) \/ Updated(i)
  <2>1. UpdateCheckpoint /\ UNCHANGED <<committed, position, tail>>
    BY <1>3 DEF HandleCorrupt, Updated, kafka, consumer
  <2>2. /\ position \in Nat /\ tail \in Nat /\ committed \in Nat
        /\ tail <= tail /\ tail < position /\ position <= position
        /\ lastCheckpoint = 0 => tail = 0 \/ committed < tail
    BY TypesOfOffsets DEF OffsetInv
  <2>3. OffsetInv' /\ lastCheckpoint' >= lastCheckpoint
    BY <1>1, <2>1, <2>2, Moves DEF InPlace
  <2> QED
    BY <2>1, <2>2, <2>3 DEF Onward
<1> QED
  BY <1>2, <1>3

LEMMA CommitOnward ==
    ASSUME RouterTypeOK, OffsetInv, Committed
    PROVE  Onward
<1>1. /\ position \in Nat /\ tail \in Nat /\ committed \in Nat /\ committing \in Nat
      /\ lastCheckpoint \in Nat
  BY TypesOfOffsets
<1>2. /\ committing # 0 /\ committed' = committing
      /\ committing' = IF lastCheckpoint # committing THEN lastCheckpoint ELSE 0
      /\ UNCHANGED <<position, tail, lastCheckpoint, contexts>>
  BY DEF Committed, consumer
<1>3. /\ committed <= committing /\ committing <= lastCheckpoint /\ lastCheckpoint # 0
      /\ lastCheckpoint <= tail /\ tail < position /\ committing < position
  BY <1>1, <1>2 DEF OffsetInv
<1>4. \A i \in DOMAIN contexts : InSequence(contexts[i], position, lastCheckpoint)
  BY DEF OffsetInv
<1>5. \A i \in DOMAIN contexts' :
         /\ InSequence(contexts[i], position, lastCheckpoint)'
         /\ lastCheckpoint' = 0 => After(contexts'[i], committed')
  BY <1>2, <1>3, <1>4 DEF InSequence, HasPendingWork
<1>6. /\ lastCheckpoint' <= tail' /\ tail' < position' /\ committed' < position'
      /\ committing' <= lastCheckpoint' /\ committed' <= lastCheckpoint'
      /\ committing' # 0 => committed' <= committing'
      /\ lastCheckpoint' # 0
  BY <1>1, <1>2, <1>3
<1> QED
  BY <1>1, <1>2, <1>3, <1>5, <1>6 DEF OffsetInv, Onward

LEMMA RestartOnward ==
    ASSUME RouterTypeOK, Restart
    PROVE  Onward
<1>1. committed \in Nat /\ restarts \in Nat
  BY TypesOfOffsets DEF RouterTypeOK
<1>2. /\ position' = committed + 1 /\ tail' = 0 /\ committing' = 0 /\ lastCheckpoint' = 0
      /\ committed' = committed /\ contexts' = <<>> /\ restarts' = restarts + 1
  BY DEF Restart, ResumeAt, kafka
<1>3. restarts' # restarts /\ 0 < committed + 1 /\ committed < committed + 1
  BY <1>1, <1>2
<1> QED
  BY <1>1, <1>2, <1>3 DEF OffsetInv, Onward

LEMMA OffsetStep ==
    ASSUME RouterTypeOK, OffsetInv, [Next]_vars
    PROVE  Onward
<1>1. \A i \in DOMAIN contexts : InPlace(contexts[i])
  BY DEF OffsetInv, InPlace
<1>2. CASE \/ UNCHANGED vars
           \/ \E d \in Documents \cup {NoDocument} : Produce(d)
           \/ CommitFails
           \/ \E u \in late : LateUpdate(u)
  <2>1. UNCHANGED <<committed, position, tail, committing, lastCheckpoint, contexts>>
    BY <1>2 DEF vars, kafka, consumer, checkpointing, Produce, CommitFails, LateUpdate
  <2> QED
    BY <1>1, <2>1, SameOffsets
<1>3. CASE Deliver
  <2>1. committed' = committed /\ committed \in Nat
    BY <1>3, TypesOfOffsets DEF Deliver, kafka
  <2> QED
    BY <1>3, <2>1, DeliverMoves DEF Onward
<1> QED
  BY <1>2, <1>3, ContextOnward, CommitOnward, RestartOnward DEF Next

(* The invariant of the offsets, for every instance and with slow updates. *)
THEOREM OffsetInvariant == Spec => []OffsetInv
<1>1. RouterTypeOK /\ OffsetInv /\ [Next]_vars => OffsetInv'
  BY OffsetStep DEF Onward
<1> QED
  BY <1>1, OffsetInit, RouterTypes, PTL DEF Spec

(* What is committed never moves back, and what is requested moves back    *)
(* only when the partition is assigned anew.                               *)
THEOREM CheckpointsIncreaseHolds == Spec => CheckpointsIncrease
<1>1. RouterTypeOK /\ OffsetInv /\ [Next]_vars =>
          [ /\ committed' >= committed
            /\ restarts' = restarts => lastCheckpoint' >= lastCheckpoint ]_vars
  BY OffsetStep DEF Onward
<1> QED
  BY <1>1, OffsetInvariant, RouterTypes, PTL DEF Spec, CheckpointsIncrease

-----------------------------------------------------------------------------
(* What the lambdas report is in range.                                    *)

(* Each action of a document keeps it so.                                  *)
LEMMA ContextReports ==
    ASSUME RouterTypeOK, OffsetInv, ReportInv, NEW i \in DOMAIN contexts,
           \/ Created(i) \/ CreateFails(i) \/ Skip(i) \/ Handle(i) \/ Throw(i)
           \/ HandleCorrupt(i) \/ Updated(i) \/ Inactive(i)
           \/ \E offset \in contexts[i].waiting : Update(i, offset)
    PROVE  ReportInv'
<1> DEFINE c == contexts[i]
           n == contexts'[i]
<1>1. /\ c \in Contexts /\ InSequence(c, position, lastCheckpoint)
      /\ ~c.corrupt => Reportable(c)
  BY ContextType DEF OffsetInv, ReportInv
<1>2. /\ c.tail \in Nat /\ c.updating \in Nat /\ c.waiting \subseteq Nat /\ c.head \in Nat
      /\ c.queue \in Seq(Nat)
  BY <1>1, ContextFields
<1> SUFFICES Replaced(i) /\ (~n.corrupt => Reportable(n))
  BY DEF Replaced, ReportInv
<1>3. CASE Created(i)
  <2>1. /\ Replaced(i) /\ n.corrupt = c.corrupt /\ n.tail = c.tail
        /\ n.waiting = c.waiting /\ n.updating = c.updating
    BY <1>3, CreatedContext
  <2> QED
    BY <1>1, <2>1 DEF Reportable
<1>4. CASE CreateFails(i)
  <2>1. /\ Replaced(i) /\ n.corrupt = c.corrupt /\ n.tail = c.tail
        /\ n.waiting = c.waiting /\ n.updating = c.updating
    BY <1>4, ClosedContext
  <2> QED
    BY <1>1, <2>1 DEF Reportable
<1>5. CASE Skip(i)
  <2>1. /\ Replaced(i) /\ n.corrupt = c.corrupt /\ n.tail = c.tail
        /\ n.waiting = c.waiting /\ n.updating = c.updating
    BY <1>5, SkippedContext
  <2> QED
    BY <1>1, <2>1 DEF Reportable
<1>6. CASE Handle(i)
  <2>1. /\ Replaced(i) /\ n.corrupt = c.corrupt /\ n.tail = c.tail
        /\ n.waiting = c.waiting \cup {Head(c.queue)} /\ n.updating = c.updating
    BY <1>6, HandledContext DEF NextMessage
  <2>2. 1 \in DOMAIN c.queue /\ Head(c.queue) = c.queue[1]
    BY <1>2, <1>6, TailOfSeq DEF Handle, Busy
  <2>3. c.tail < Head(c.queue) /\ c.updating < Head(c.queue)
    BY <1>1, <2>2 DEF InSequence
  <2> QED
    BY <1>1, <2>1, <2>3 DEF Reportable
<1>7. CASE Throw(i)
  BY <1>7, ThrowingContext
<1>8. CASE HandleCorrupt(i)
  <2>1. Replaced(i) /\ n.corrupt = c.corrupt
    BY <1>8, CorruptContext
  <2> QED
    BY <1>8, <2>1 DEF HandleCorrupt
<1>9. CASE Updated(i)
  <2>1. /\ Replaced(i) /\ n.updating = 0 /\ n.corrupt = c.corrupt
        /\ IF c.tail < c.updating /\ c.updating <= c.head
           THEN n.tail = c.updating /\ n.waiting = c.waiting
           ELSE n.tail = c.tail /\ n.waiting = {}
    BY <1>9, UpdatedContext
  <2> HIDE DEF c, n
  <2> QED
    BY <1>1, <1>2, <2>1 DEF Reportable
<1>10. CASE Inactive(i)
  <2>1. /\ Replaced(i) /\ n.corrupt = c.corrupt /\ n.tail = c.tail
        /\ n.waiting = {} /\ n.updating = c.updating
    BY <1>10, InactiveContext
  <2> QED
    BY <1>1, <2>1 DEF Reportable
<1>11. ASSUME NEW offset \in contexts[i].waiting, Update(i, offset)
       PROVE  Replaced(i) /\ (~n.corrupt => Reportable(n))
  <2>1. /\ Replaced(i) /\ n.updating = offset /\ n.waiting = {o \in c.waiting : o > offset}
        /\ n.tail = c.tail /\ n.corrupt = c.corrupt
    BY <1>11, UpdatingContext
  <2> QED
    BY <1>1, <1>2, <2>1 DEF Reportable
<1> QED
  BY <1>3, <1>4, <1>5, <1>6, <1>7, <1>8, <1>9, <1>10, <1>11

(* So does the router: a document gets a new tail only when it has nothing *)
(* to report.                                                              *)
LEMMA DeliverReports ==
    ASSUME RouterTypeOK, OffsetInv, ReportInv, Deliver
    PROVE  ReportInv'
<1> DEFINE d == log[position]
<1>1. position \in Nat /\ tail \in Nat /\ contexts \in Seq(Contexts)
  BY TypesOfOffsets
<1>2. d \in Documents \cup {NoDocument}
  BY DEF Deliver, RouterTypeOK
<1>3. CASE d = NoDocument
  BY <1>3, RouterConstants DEF Deliver, ReportInv
<1>4. CASE d # NoDocument /\ documents[d] = 0
  <2> DEFINE new == NewContext(d, position, tail)
  <2>1. contexts' = Append(contexts, new)
    BY <1>4 DEF Deliver
  <2>2. new \in Contexts /\ Reportable(new)
    BY <1>1, <1>2, <1>4, NewContextType DEF Reportable, NewContext
  <2> HIDE DEF new, d
  <2>3. /\ DOMAIN contexts' = DOMAIN contexts \cup {Len(contexts) + 1}
        /\ contexts'[Len(contexts) + 1] = new
        /\ \A j \in DOMAIN contexts : contexts'[j] = contexts[j]
    BY <1>1, <2>1, <2>2, AppendToSeq
  <2> QED
    BY <2>2, <2>3 DEF ReportInv
<1>5. CASE d # NoDocument /\ documents[d] # 0
  <2>1. PICK i \in Nat : i = documents[d]
    BY <1>2, <1>5 DEF RouterTypeOK
  <2>2. i \in DOMAIN contexts
    BY <1>1, <1>2, <1>5, <2>1 DEF RouterTypeOK
  <2> DEFINE c == contexts[i]
             n == Routed(c, position)
  <2>3. c \in Contexts /\ InSequence(c, position, lastCheckpoint)
    BY <1>1, <2>2 DEF OffsetInv
  <2>4. contexts' = [contexts EXCEPT ![i] = n]
    BY <1>5, <2>1 DEF Deliver, Becomes
  <2>5. n \in Contexts
    BY <1>1, <2>3, RoutedType
  <2>6. /\ n.corrupt = c.corrupt /\ n.waiting = c.waiting /\ n.updating = c.updating
        /\ n.tail = IF c.head # c.tail THEN c.tail ELSE tail
    BY <2>3 DEF Routed, SetHead, HasPendingWork, Contexts
  <2>7. c.head = c.tail /\ Reportable(c) => c.waiting = {} /\ c.updating = 0
    <3>1. /\ c.tail \in Nat /\ c.updating \in Nat /\ c.waiting \subseteq Nat /\ c.head \in Nat
      BY <2>3, ContextFields
    <3> QED
      BY <2>3, <3>1 DEF InSequence, Reportable
  <2>8. ~n.corrupt => Reportable(n)
    BY <2>2, <2>6, <2>7 DEF Reportable, ReportInv
  <2> HIDE DEF n, d
  <2>9. /\ DOMAIN contexts' = DOMAIN contexts /\ contexts'[i] = n
        /\ \A j \in DOMAIN contexts : j # i => contexts'[j] = contexts[j]
    BY <1>1, <2>2, <2>4, <2>5, ReplaceInSeq
  <2> QED
    BY <2>8, <2>9 DEF ReportInv
<1> QED
  BY <1>3, <1>4, <1>5

LEMMA ReportStep ==
    ASSUME RouterTypeOK, OffsetInv, ReportInv, [Next]_vars
    PROVE  ReportInv'
<1>1. CASE \/ UNCHANGED vars
           \/ \E d \in Documents \cup {NoDocument} : Produce(d)
           \/ Committed \/ CommitFails
           \/ \E u \in late : LateUpdate(u)
  <2>1. UNCHANGED contexts
    BY <1>1 DEF vars, Produce, Committed, CommitFails, LateUpdate
  <2> QED
    BY <2>1 DEF ReportInv
<1>2. CASE Restart
  BY <1>2 DEF Restart, ReportInv
<1> QED
  BY <1>1, <1>2, ContextReports, DeliverReports DEF Next

(* The assertion about what a lambda reports holds in every instance, also *)
(* while an update outlives the inactivity of its document.                *)
THEOREM ReportsInRangeHolds == Spec => []ReportsInRange
<1>1. Init => ReportInv
  BY DEF Init, ReportInv
<1>2. RouterTypeOK /\ OffsetInv /\ ReportInv /\ [Next]_vars => ReportInv'
  BY ReportStep
<1>3. RouterTypeOK /\ OffsetInv /\ ReportInv => ReportsInRange
  <2> SUFFICES ASSUME RouterTypeOK, OffsetInv, ReportInv, NEW i \in DOMAIN contexts,
                      ~contexts[i].corrupt,
                      NEW o \in (contexts[i].waiting \cup {contexts[i].updating}) \ {0}
               PROVE  contexts[i].tail < o /\ o <= contexts[i].head
    BY DEF ReportsInRange
  <2>1. InSequence(contexts[i], position, lastCheckpoint) /\ Reportable(contexts[i])
    BY DEF OffsetInv, ReportInv
  <2> QED
    BY <2>1 DEF InSequence, Reportable
<1> QED
  BY <1>1, <1>2, <1>3, OffsetInvariant, RouterTypes, PTL DEF Spec
=============================================================================
